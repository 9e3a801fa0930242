---------------------------- MODULE ArchiveParser ----------------------------
(***************************************************************************)
(* EggArchive::open of src/src/archive.rs: prefix records, entries with     *)
(* their sub-headers and blocks, end markers, and the names of relative     *)
(* entries.                                                                  *)
(*                                                                          *)
(* A file is the list of the records that were written, each at its byte    *)
(* position, and the number of bytes that are there, which is smaller when  *)
(* the file was cut.  A signature is four bytes; ext is the length of the   *)
(* flags and size in front of a record's body, size the length they declare. *)
(* Bytes at which no record starts do not look like a signature.  A name is *)
(* the sequence of its components.                                           *)
(***************************************************************************)
EXTENDS Integers, Sequences, FiniteSets

CONSTANTS
  Files,
  Components  \* of names

VARIABLES
  file,      \* never changes
  pc,        \* the loop the parser is in, "resolve", "ok" or "refused"
  faulted,   \* whether a call of the reader has failed other than by a file's end
  pos,       \* position of the reader
  entries,   \* parsed entries
  cur,       \* the entry at work
  is_solid, split, is_encrypted

result == <<entries, is_solid, split, is_encrypted>>
vars == <<file, pc, faulted, pos, cur, result>>

NoId == -1
NoTime == -1
NoLink == [prev |-> 0, next |-> 0]
NoCipher == [method |-> "none", len |-> 0]

Methods == {"Zip", "Aes128", "Aes256", "Unknown"}

\* What a record holds besides its size.
IsRecord(r) ==
  /\ r.sig \in {"EGG", "SPLIT", "SOLID", "SKIP", "GLOBAL", "END", "FILE", "NAME",
                "COMMENT", "WINDOWS", "POSIX", "ENCRYPT", "BLOCK", "DUMMY"}
  /\ r.pos \in Nat /\ r.ext \in Nat /\ r.size \in Nat
  /\ r.sig = "SPLIT" => r.prev \in Nat /\ r.next \in Nat
  /\ r.sig = "FILE" => r.id \in Nat /\ r.usize \in Nat
  /\ r.sig = "NAME" => /\ r.area \in BOOLEAN /\ r.parent \in Nat \cup {NoId}
                       /\ r.name \in Seq(Components)
  /\ r.sig \in {"WINDOWS", "POSIX"} => r.time \in Nat /\ r.dir \in BOOLEAN
  /\ r.sig = "ENCRYPT" => r.method \in Methods
  /\ r.sig = "BLOCK" => r.csize \in Nat

IsArchiveFile(f) ==
  /\ f.len \in Nat
  /\ f.items \in Seq({f.items[i] : i \in DOMAIN f.items})
  /\ \A i \in 1..Len(f.items) : IsRecord(f.items[i])
  /\ \A i, j \in 1..Len(f.items) : i < j => f.items[i].pos < f.items[j].pos

ASSUME FilesAssumption == \A f \in Files : IsArchiveFile(f)

NewEntry(r) ==
  [id |-> r.id, size |-> r.usize, name |-> << >>, parent |-> NoId,
   time |-> NoTime, dir |-> FALSE, cipher |-> NoCipher, blocks |-> << >>]

NoEntry == NewEntry([id |-> 0, usize |-> 0])

Init ==
  /\ file \in Files
  /\ pc = "egg" /\ faulted = FALSE /\ pos = 0
  /\ entries = << >> /\ cur = NoEntry
  /\ is_solid = FALSE /\ split = NoLink /\ is_encrypted = FALSE

-----------------------------------------------------------------------------
(* What the reader sees.                                                    *)

RecordsAt(o) == {i \in 1..Len(file.items) : file.items[i].pos = o}

\* read_u32 at position o.
SigAt(o) ==
  IF o + 4 > file.len THEN "eof"
  ELSE IF RecordsAt(o) = {} THEN "other"
  ELSE file.items[CHOOSE i \in RecordsAt(o) : TRUE].sig

Sig == SigAt(pos)
Item == file.items[CHOOSE i \in RecordsAt(pos) : TRUE]

Has(n) == pos + n <= file.len

BodyOf(r) == 4 + r.ext    \* from the signature to the record's body
Body == BodyOf(Item)
After == pos + Body + Item.size

Larger(a, b) == IF a >= b THEN a ELSE b
Greatest(S) == CHOOSE n \in S : \A m \in S : m <= n

-----------------------------------------------------------------------------
(* read_encrypt_payload                                                     *)

Lengths == [Zip |-> {16}, Aes128 |-> {20, 10}, Aes256 |-> {28, 18}, Unknown |-> {}]

DeclaredShort == Item.size - 2   \* mutant: takes the method for two bytes
Declared == Item.size - 1

LandsOnEnd(n) == SigAt(pos + Body + 1 + n) = "END"

Fits == {n \in Lengths[Item.method] : LandsOnEnd(n)}

\* The declared length, if it can be right, or else the longest that can.
Payload ==
  IF Declared \in Fits \/ Fits = {} THEN Declared
  ELSE Greatest(Fits)

-----------------------------------------------------------------------------
(* A record can be read: its fixed part is there, and its size is not below *)
(* it.  What lies behind the fixed part is sought over, not read.           *)

FixedName(r) == (IF r.area THEN 2 ELSE 0) + (IF r.parent # NoId THEN 4 ELSE 0)

Complete ==
  CASE Sig \in {"SOLID", "SKIP", "GLOBAL", "COMMENT", "DUMMY"} -> Has(Body)
    [] Sig = "EGG"     -> Has(14)
    [] Sig = "SPLIT"   -> Has(Body + 8)
    [] Sig = "FILE"    -> Has(16)
    [] Sig = "NAME"    -> Item.size >= FixedName(Item) /\ Has(Body + Item.size)
    [] Sig = "WINDOWS" -> Item.size >= 9 /\ Has(Body + 9)
    [] Sig = "POSIX"   -> Item.size >= 20 /\ Has(Body + 20)
    [] Sig = "ENCRYPT" -> /\ Item.size > 0 /\ Item.method # "Unknown"
                          /\ Has(Body + 1 + Payload)
    [] Sig = "BLOCK"   -> Has(18) /\ SigAt(pos + 18) = "END"
    [] Sig \in {"END", "eof", "other"} -> Sig = "END"

Reads(loop, sigs) == pc = loop /\ Sig \in sigs /\ Complete

-----------------------------------------------------------------------------
(* The header and the prefix section                                        *)

Expected ==
  [egg |-> {"EGG"},
   prefix |-> {"SPLIT", "SOLID", "SKIP", "GLOBAL", "END"},
   entries |-> {"FILE", "COMMENT", "DUMMY", "END"},
   sub |-> {"NAME", "COMMENT", "WINDOWS", "POSIX", "ENCRYPT", "END"},
   blocks |-> {"BLOCK"}]

ReadHeader ==
  /\ Reads("egg", {"EGG"})
  /\ pc' = "prefix" /\ pos' = pos + 14
  /\ UNCHANGED <<file, faulted, cur, result>>

AfterSplitFixed == pos + Body + 8     \* mutant: the declared size is ignored
AfterSplit == pos + Body + Larger(Item.size, 8)

ReadSplit ==
  /\ Reads("prefix", {"SPLIT"})
  /\ split' = [prev |-> Item.prev, next |-> Item.next]
  /\ pos' = AfterSplit
  /\ UNCHANGED <<file, pc, faulted, cur, entries, is_solid, is_encrypted>>

ReadSolid ==
  /\ Reads("prefix", {"SOLID"})
  /\ is_solid' = TRUE /\ pos' = After
  /\ UNCHANGED <<file, pc, faulted, cur, entries, split, is_encrypted>>

EndPrefix ==
  /\ Reads("prefix", {"END"})
  /\ pc' = "entries" /\ pos' = pos + 4
  /\ UNCHANGED <<file, faulted, cur, result>>

\* Records without a meaning to the parser, in any of its loops.
SkipRecord ==
  /\ \/ Reads("prefix", {"SKIP", "GLOBAL"})
     \/ Reads("entries", {"COMMENT", "DUMMY"})
     \/ Reads("sub", {"COMMENT"})
  /\ pos' = After
  /\ UNCHANGED <<file, pc, faulted, cur, result>>

-----------------------------------------------------------------------------
(* The entries, and the peek behind an end marker                           *)

StartEntry ==
  /\ Reads("entries", {"FILE"})
  /\ cur' = NewEntry(Item)
  /\ pc' = "sub" /\ pos' = pos + 16
  /\ UNCHANGED <<file, faulted, result>>

MoreFollows == SigAt(pos + 4) \in {"FILE", "COMMENT", "DUMMY"}

VolumeEndAgain ==  \* mutant: seeks back over the end marker as well
  /\ Reads("entries", {"END"}) /\ MoreFollows
  /\ UNCHANGED vars
VolumeEnd ==
  /\ Reads("entries", {"END"}) /\ MoreFollows
  /\ pos' = pos + 4
  /\ UNCHANGED <<file, pc, faulted, cur, result>>

ArchiveEndOrEof ==  \* mutant: a missing end marker ends the archive too
  /\ pc = "entries" /\ Sig \in {"END", "eof"} /\ ~MoreFollows
  /\ pc' = "resolve" /\ pos' = pos + 4
  /\ UNCHANGED <<file, faulted, cur, result>>
ArchiveEnd ==
  /\ Reads("entries", {"END"}) /\ ~MoreFollows
  /\ pc' = "resolve" /\ pos' = pos + 4
  /\ UNCHANGED <<file, faulted, cur, result>>

-----------------------------------------------------------------------------
(* parse_file_entry: sub-headers                                            *)

ReadName ==
  /\ Reads("sub", {"NAME"})
  /\ cur' = [cur EXCEPT !.name = Item.name,
                        !.parent = IF Item.parent # NoId THEN Item.parent ELSE @]
  /\ pos' = After
  /\ UNCHANGED <<file, pc, faulted, result>>

ReadWindows ==
  /\ Reads("sub", {"WINDOWS"})
  /\ cur' = [cur EXCEPT !.time = Item.time, !.dir = @ \/ Item.dir]
  /\ pos' = After
  /\ UNCHANGED <<file, pc, faulted, result>>

PosixTime == IF cur.time = NoTime THEN Item.time ELSE cur.time

ReadPosix ==
  /\ Reads("sub", {"POSIX"})
  /\ cur' = [cur EXCEPT !.time = PosixTime, !.dir = @ \/ Item.dir]
  /\ pos' = After
  /\ UNCHANGED <<file, pc, faulted, result>>

TakePayload(n) ==
  /\ cur' = [cur EXCEPT !.cipher = [method |-> Item.method, len |-> n]]
  /\ is_encrypted' = TRUE
  /\ pos' = pos + Body + 1 + n
  /\ UNCHANGED <<file, pc, entries, is_solid, split>>

ReadEncrypt ==
  /\ Reads("sub", {"ENCRYPT"})
  /\ TakePayload(Payload)
  /\ UNCHANGED faulted

EndSub ==
  /\ Reads("sub", {"END"})
  /\ pc' = "blocks" /\ pos' = pos + 4
  /\ UNCHANGED <<file, faulted, cur, result>>

-----------------------------------------------------------------------------
(* parse_file_entry: blocks                                                 *)

ReadBlock ==
  /\ Reads("blocks", {"BLOCK"})
  /\ cur' = [cur EXCEPT !.blocks =
               Append(@, [data_pos |-> pos + 22, csize |-> Item.csize])]
  /\ pos' = pos + 22 + Item.csize
  /\ UNCHANGED <<file, pc, faulted, result>>

\* The signature is put back.
Closers == {"COMMENT", "FILE", "END", "DUMMY"}

EndEntry ==
  /\ pc = "blocks" /\ Sig \in Closers
  /\ entries' = Append(entries, cur)
  /\ pc' = "entries"
  /\ UNCHANGED <<file, faulted, pos, cur, is_solid, split, is_encrypted>>

-----------------------------------------------------------------------------
(* resolve_relative_paths.  Of several entries with one id the last is      *)
(* taken.                                                                    *)

Named(es, id) == {j \in 1..Len(es) : es[j].id = id}

Prefix(es, i) ==
  LET parents == Named(es, es[i].parent)
  IN  IF es[i].parent = NoId \/ parents = {} THEN << >>
      ELSE IF Greatest(parents) = i THEN << >> ELSE es[Greatest(parents)].name

WithPrefix(es, i) == [es[i] EXCEPT !.name = Prefix(es, i) \o @]

ResolvedInPlace ==  \* mutant: one pass over the list it changes
  LET pass[n \in 0..Len(entries)] ==
        IF n = 0 THEN entries
        ELSE [pass[n - 1] EXCEPT ![n] = WithPrefix(pass[n - 1], n)]
  IN  pass[Len(entries)]
Resolved == [i \in 1..Len(entries) |-> WithPrefix(entries, i)]

Resolve ==
  /\ pc = "resolve"
  /\ entries' = Resolved
  /\ pc' = "ok"
  /\ UNCHANGED <<file, faulted, pos, cur, is_solid, split, is_encrypted>>

-----------------------------------------------------------------------------

Refuse ==
  /\ pc \in DOMAIN Expected
  /\ ~(Sig \in Expected[pc] /\ Complete)
  /\ pc = "blocks" => Sig \notin Closers
  /\ pc' = "refused"
  /\ UNCHANGED <<file, faulted, pos, cur, result>>

\* A reader that fails is an error of open, except for two reads whose errors
\* are an answer: behind an end marker a failure means that the archive ends,
\* and behind a length that is tried it means that no end marker is there.
ReadFails ==
  /\ pc \in DOMAIN Expected
  /\ faulted' = TRUE
  /\ pc' = "refused"
  /\ UNCHANGED <<file, pos, cur, result>>

PeekFails ==
  /\ Reads("entries", {"END"})
  /\ faulted' = TRUE
  /\ pc' = "resolve" /\ pos' = pos + 4
  /\ UNCHANGED <<file, cur, result>>

ProbeFails ==
  /\ pc = "sub" /\ Sig = "ENCRYPT" /\ Item.size > 0 /\ Item.method # "Unknown"
  /\ faulted' = TRUE
  /\ \E n \in Fits \cup {Declared} : Has(Body + 1 + n) /\ TakePayload(n)

Proceeds ==
  \/ ReadHeader \/ ReadSplit \/ ReadSolid \/ EndPrefix \/ SkipRecord
  \/ StartEntry \/ VolumeEnd \/ ArchiveEnd
  \/ ReadName \/ ReadWindows \/ ReadPosix \/ ReadEncrypt \/ EndSub
  \/ ReadBlock \/ EndEntry
  \/ Resolve \/ Refuse

Faults == ReadFails \/ PeekFails \/ ProbeFails

Next == Proceeds \/ Faults

Done == pc \in {"ok", "refused"} /\ UNCHANGED vars

Spec == Init /\ [][Next \/ Done]_vars

\* A loop without waiting; a failing reader is nothing to rely on.
FairSpec == Spec /\ WF_vars(Proceeds)

-----------------------------------------------------------------------------
(* What archivers write.  A record says in "loop" which loop of the parser   *)
(* it was written for; "data" is the end marker in front of a block's data. *)

InLoop(r) ==
  \/ r.loop = "data" /\ r.sig = "END"
  \/ r.loop \in DOMAIN Expected /\ r.sig \in Expected[r.loop]

LoopsBehind(r) ==
  CASE r.sig = "EGG"   -> {"prefix"}
    [] r.sig = "FILE"  -> {"sub"}
    [] r.sig = "BLOCK" -> {"data"}
    [] r.sig = "END" /\ r.loop = "prefix" -> {"entries"}
    [] r.sig = "END" /\ r.loop \in {"sub", "data"} -> {"blocks", "entries"}
    [] OTHER -> {r.loop}

Extent(r) ==
  CASE r.sig = "EGG"     -> 14
    [] r.sig = "FILE"    -> 16
    [] r.sig = "BLOCK"   -> 18
    [] r.sig = "END"     -> 4
    [] r.sig = "SPLIT"   -> BodyOf(r) + Larger(r.size, 8)
    [] r.sig = "ENCRYPT" -> BodyOf(r) + 1 + r.true  \* whatever its size says
    [] OTHER -> BodyOf(r) + r.size

LongEnough(r) ==
  /\ r.sig = "NAME" => r.size >= FixedName(r)
  /\ r.sig = "WINDOWS" => r.size >= 9
  /\ r.sig = "POSIX" => r.size >= 20
  /\ r.sig = "ENCRYPT" => r.size > 0 /\ r.method # "Unknown" /\ r.true \in Lengths[r.method]

EndsVolume(r) == r.sig = "END" /\ r.loop = "entries"

\* Of the lengths the method has, only the true one leads to an end marker.
Unambiguous(f, i) ==
  LET r == f.items[i]
  IN  /\ f.items[i + 1].sig = "END"
      /\ \A n \in Lengths[r.method] \ {r.true} : \A j \in 1..Len(f.items) :
           f.items[j].sig = "END" => f.items[j].pos # r.pos + BodyOf(r) + 1 + n

\* One record behind the other, each where the parser's loops may meet it.
Linked(f, i) ==
  LET r == f.items[i]
      s == f.items[i + 1]
  IN  /\ s.pos = r.pos + Extent(r) + IF r.loop = "data" THEN f.items[i - 1].csize ELSE 0
      /\ s.loop \in LoopsBehind(r)
      /\ EndsVolume(r) => s.sig # "END"
      /\ r.sig = "ENCRYPT" => Unambiguous(f, i)

\* An entry has one name and one time of Windows at most, and an id of its own.
OneEach(f) ==
  \A i, j \in 1..Len(f.items) :
    i < j /\ f.items[i].sig = f.items[j].sig =>
      /\ f.items[i].sig \in {"NAME", "WINDOWS", "ENCRYPT"} =>
           \E k \in i..j : f.items[k].sig = "FILE"
      /\ f.items[i].sig = "FILE" => f.items[i].id # f.items[j].id

Sane(f) ==
  /\ f.items # << >>
  /\ f.items[1].sig = "EGG" /\ f.items[1].pos = 0
  /\ \A i \in 1..Len(f.items) : InLoop(f.items[i]) /\ LongEnough(f.items[i])
  /\ \A i \in 1..Len(f.items) - 1 : Linked(f, i)
  /\ EndsVolume(f.items[Len(f.items)])
  /\ OneEach(f)

IsWhole(f) == f.len >= f.items[Len(f.items)].pos + 4

-----------------------------------------------------------------------------
(* Properties                                                                *)

ParsedEntries ==
  [id : Nat, size : Nat, name : Seq(Components), parent : Nat \cup {NoId},
   time : Nat \cup {NoTime}, dir : BOOLEAN, cipher : [method : Methods \cup {"none"}, len : Nat],
   blocks : Seq([data_pos : Nat, csize : Nat])]

TypeOK ==
  /\ pc \in DOMAIN Expected \cup {"resolve", "ok", "refused"}
  /\ pos \in Nat
  /\ entries \in Seq(ParsedEntries) /\ cur \in ParsedEntries
  /\ \A b \in 1..Len(cur.blocks) : cur.blocks[b].data_pos \in 0..pos
  /\ split \in [prev : Nat, next : Nat]
  /\ {faulted, is_solid, is_encrypted} \subseteq BOOLEAN

\* The records of which at least the signature is there.
Present == {i \in 1..Len(file.items) : file.items[i].pos + 4 <= file.len}

Only(S, sig) == {i \in S : file.items[i].sig = sig}
FirstOf(S) == CHOOSE i \in S : \A j \in S : i <= j
Rank(i, S) == Cardinality({j \in S : j <= i})

\* The records, of those in S, of the entry that the header i starts.
RecordsOf(i, S) == {j \in S : i <= j /\ \A k \in i + 1..j : file.items[k].sig # "FILE"}

\* What the records R of an entry say of it, whatever their order.
OwnName(R) ==
  LET names == Only(R, "NAME") IN IF names = {} THEN << >> ELSE file.items[FirstOf(names)].name
Parent(R) ==
  LET names == Only(R, "NAME") IN IF names = {} THEN NoId ELSE file.items[FirstOf(names)].parent
Time(R) ==
  LET windows == Only(R, "WINDOWS")
      posix == Only(R, "POSIX")
      all == IF windows # {} THEN windows ELSE posix
  IN  IF all = {} THEN NoTime ELSE file.items[FirstOf(all)].time
IsDir(R) == \E j \in Only(R, "WINDOWS") \cup Only(R, "POSIX") : file.items[j].dir
Cipher(R) ==
  LET r == file.items[FirstOf(Only(R, "ENCRYPT"))]
  IN  IF Only(R, "ENCRYPT") = {} THEN NoCipher ELSE [method |-> r.method, len |-> r.true]

\* e is the entry of header i and its records R, but for the name.
Tells(e, i, R) ==
  LET blocks == Only(R, "BLOCK")
  IN  /\ e.id = file.items[i].id /\ e.size = file.items[i].usize
      /\ e.parent = Parent(R) /\ e.time = Time(R) /\ e.dir = IsDir(R) /\ e.cipher = Cipher(R)
      /\ Len(e.blocks) = Cardinality(blocks)
      /\ \A j \in blocks : e.blocks[Rank(j, blocks)]
                           = [data_pos |-> file.items[j].pos + 22, csize |-> file.items[j].csize]

Headers == Only(Present, "FILE")

\* The name of the entry that the name of entry i is relative to.
ParentName(i) ==
  LET parents == {m \in Headers \ {i} : file.items[m].id = Parent(RecordsOf(i, Present))}
  IN  IF parents = {} THEN << >> ELSE OwnName(RecordsOf(CHOOSE m \in parents : TRUE, Present))

\* What is opened is what was written: every entry with all of its blocks at
\* their places, whatever sizes are overstated, in which order headers stand,
\* where volumes end, and whether a name refers to a later or an earlier entry.
OpensWhatWasWritten ==
  pc = "ok" /\ ~faulted /\ Sane(file) =>
    /\ Len(entries) = Cardinality(Headers)
    /\ \A i \in Headers :
         LET e == entries[Rank(i, Headers)]
             own == RecordsOf(i, Present)
         IN  Tells(e, i, own) /\ e.name = ParentName(i) \o OwnName(own)
    /\ is_solid = (Only(Present, "SOLID") # {})
    /\ is_encrypted = (Only(Present, "ENCRYPT") # {})

\* An archive that was cut opens only if it was cut right behind the end marker
\* of a volume: not inside an entry, and not inside its data.
CutIsNoticed ==
  pc = "ok" /\ ~faulted /\ Sane(file) =>
    \E i \in 1..Len(file.items) :
      /\ EndsVolume(file.items[i]) /\ file.items[i].pos + 4 <= file.len
      /\ \A j \in i + 1..Len(file.items) : file.items[j].pos + 4 > file.len

\* A whole archive is refused only when reading it fails.
WholeArchiveOpens ==
  pc = "refused" /\ ~faulted => ~(IsWhole(file) /\ Sane(file))

\* Parsing ends on every file, broken ones included.
Terminates == <>(pc \in {"ok", "refused"})
=============================================================================
