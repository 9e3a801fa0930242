------------------------------- MODULE Session -------------------------------
(***************************************************************************)
(* One call of the program behind its command line: run, run_archive,       *)
(* prompt_password and list_archive of src/src/main.rs, with                *)
(* verify_password and setup_decryptor of src/src/extract.rs, and the exit  *)
(* status.  EntryExtract is the extraction in detail; here an entry of an   *)
(* archive that is not solid is what it asks of a password and what it      *)
(* sends to the standard output: some lines and a rest that does not end in *)
(* a newline, or with another key than its own what this makes of them.     *)
(*                                                                          *)
(* The standard output is Rust's: it keeps such a rest in a buffer until    *)
(* the next line or the end of the process, and what it meets then is lost. *)
(***************************************************************************)
EXTENDS Integers, Sequences

CONSTANTS
  Passwords,
  None,
  Archives,      \* sequences of entries
  Clis           \* what the command line asks for

VARIABLES
  cli, entries,  \* the call: they never change
  reader,        \* who reads the standard output: "open", "closed" or "full"
  pc,            \* "open", "list", "password", "prompt", "extract", "lines",
                 \* "rest", "check", "exiting", "exited"
  attempts,      \* passwords that were typed
  password,
  idx,           \* the entry at work
  buffer,        \* what the standard output still holds
  got,           \* what its reader has received: <<entry, "line">>, <<entry,
                 \* "rest">> or, decrypted with a wrong key, <<entry, "garbage">>
  delivered,     \* entries that are made, or decoded and verified
  extracted,     \* the number in "extracted {} entries", or None
  status,        \* the exit status, or None
  cause          \* why the program failed

call == <<cli, entries>>
vars == <<call, reader, pc, attempts, password, idx, buffer, got, delivered, extracted, status, cause>>

IsEntry(e) ==
  /\ e.enc \in {"none", "known", "unknown", "short"}  \* the encryption header
  /\ e.key \in Passwords
  /\ {e.key} \subseteq e.passes /\ e.passes \subseteq Passwords  \* ... accepts these
  /\ e.footer \in BOOLEAN   \* there is an authentication footer
  /\ e.keeps \in BOOLEAN    \* its decoder keeps the kind of a writer's error
  /\ e.content \in {"data", "empty", "directory", "lost"}
     \* blocks with a byte or more, no blocks, a directory, no blocks but a size
  /\ e.lines \in BOOLEAN /\ e.rest \in BOOLEAN  \* its decoded data
  /\ e.lines \/ e.rest => e.content = "data"
  /\ e.wanted \in BOOLEAN   \* should_extract

ASSUME SessionAssumption ==
  /\ None \notin Passwords \cup Nat
  /\ \A a \in Archives : /\ a \in Seq({a[i] : i \in DOMAIN a})
                         /\ \A i \in 1..Len(a) : IsEntry(a[i])
  /\ \A c \in Clis : /\ {c.list, c.pipe, c.quiet, c.unmatched} \subseteq BOOLEAN
                     /\ c.password \in Passwords \cup {None}

IsEncrypted == \E i \in 1..Len(entries) : entries[i].enc # "none"

Init ==
  /\ cli \in Clis /\ entries \in Archives
  /\ reader = "open" /\ pc = "open" /\ attempts = 0 /\ password = None /\ idx = 1
  /\ buffer = << >> /\ got = << >> /\ delivered = {}
  /\ extracted = None /\ status = None /\ cause = "none"

Entry == entries[idx]

Exit(code, why) == pc' = "exiting" /\ status' = code /\ cause' = why

FailIo(why) == Exit(IF cli.pipe /\ why \in {"broken pipe", "output"} THEN 0 ELSE 1, why) \* mutant: any error of a write
\* main: only an error of writing to a closed pipe is a normal stop.
Fail(why) == Exit(IF cli.pipe /\ why = "broken pipe" THEN 0 ELSE 1, why)

\* The reader may leave, or have no room left, at any time.
ReaderStops ==
  /\ reader = "open"
  /\ reader' \in {"closed", "full"}
  /\ UNCHANGED <<call, pc, attempts, password, idx, buffer, got, delivered, extracted, status, cause>>

-----------------------------------------------------------------------------
(* run and run_archive                                                      *)

OpenArchive ==
  /\ pc = "open"
  /\ pc' = IF cli.list THEN "list" ELSE "password"
  /\ UNCHANGED <<call, reader, attempts, password, idx, buffer, got, delivered, extracted, status, cause>>

\* The standard input, the volumes, the file or the archive in it.
OpenFails ==
  /\ pc = "open"
  /\ Exit(1, "open")
  /\ UNCHANGED <<call, reader, attempts, password, idx, buffer, got, delivered, extracted>>

\* list_archive, one line for each entry; a closed pipe is no error here.
ListEntry ==
  /\ pc = "list"
  /\ CASE idx > Len(entries) -> Exit(0, "none") /\ UNCHANGED <<idx, got>>
       [] idx <= Len(entries) /\ reader = "open" ->
            got' = Append(got, <<idx, "line">>) /\ idx' = idx + 1 /\ UNCHANGED <<pc, status, cause>>
       [] idx <= Len(entries) /\ reader = "closed" -> Exit(0, "broken pipe") /\ UNCHANGED <<idx, got>>
       [] idx <= Len(entries) /\ reader = "full" -> Exit(1, "output") /\ UNCHANGED <<idx, got>>
  /\ UNCHANGED <<call, reader, attempts, password, buffer, delivered, extracted>>

GetPassword ==
  /\ pc = "password"
  /\ password' = cli.password
  /\ pc' = IF cli.password = None /\ IsEncrypted THEN "prompt" ELSE "extract"
  /\ UNCHANGED <<call, reader, attempts, idx, buffer, got, delivered, extracted, status, cause>>

\* setup_decryptor for an entry and a password.
Setup(e, pw) ==
  CASE e.enc = "none"    -> "ok"
    [] e.enc = "unknown" -> "encryption"
    [] e.enc = "short"   -> "corrupted"
    [] e.enc = "known"   -> IF pw \in e.passes THEN "ok" ELSE "password"

\* verify_password asks the first encrypted entry.
FirstEncrypted ==
  entries[CHOOSE i \in 1..Len(entries) :
            entries[i].enc # "none" /\ \A j \in 1..i - 1 : entries[j].enc = "none"]

AnswerLastAttempt(pw) == IF attempts = 2 THEN "ok" ELSE Setup(FirstEncrypted, pw) \* mutant: it is not checked
Answer(pw) == Setup(FirstEncrypted, pw)

MayTryAgainOnce == attempts < 3  \* mutant: a fourth attempt
MayTryAgain == attempts < 2

\* One turn of prompt_password's loop.
Prompt(pw) ==
  /\ pc = "prompt"
  /\ attempts' = attempts + 1
  /\ CASE Answer(pw) = "ok" -> password' = pw /\ pc' = "extract" /\ UNCHANGED <<status, cause>>
       [] Answer(pw) = "password" /\ MayTryAgain -> UNCHANGED <<password, pc, status, cause>>
       [] OTHER -> Exit(1, Answer(pw)) /\ UNCHANGED password
  /\ UNCHANGED <<call, reader, idx, buffer, got, delivered, extracted>>

\* There is no terminal, or it ends: "password required (use --password)".
PromptFails ==
  /\ pc = "prompt"
  /\ Exit(1, "terminal")
  /\ UNCHANGED <<call, reader, attempts, password, idx, buffer, got, delivered, extracted>>

-----------------------------------------------------------------------------
(* The entries                                                              *)

AtEntry == pc = "extract" /\ idx <= Len(entries)
AtUnasked == AtEntry  \* mutant: the filter is not asked
AtWanted == AtEntry /\ Entry.wanted

SkipEntry ==
  /\ AtEntry /\ ~Entry.wanted
  /\ idx' = idx + 1
  /\ UNCHANGED <<call, reader, pc, attempts, password, buffer, got, delivered, extracted, status, cause>>

\* A directory, or a file without blocks and with size 0, is made before anyone
\* asks for a password; without blocks and with another size its data are lost.
TakeBare ==
  /\ AtWanted /\ Entry.content \in {"directory", "empty"}
  /\ delivered' = delivered \cup {idx} /\ idx' = idx + 1
  /\ UNCHANGED <<call, reader, pc, attempts, password, buffer, got, extracted, status, cause>>

BlocksLost ==
  /\ AtWanted /\ Entry.content = "lost"
  /\ Fail("corrupted")
  /\ UNCHANGED <<call, reader, attempts, password, idx, buffer, got, delivered, extracted>>

HasKey(e) == e.enc = "none" \/ password = e.key
RightKey == HasKey(Entry)

\* What stands in the way of the first byte: the header, then the footer.
RefusalByHeader == IF Setup(Entry, password) = "ok" THEN "none" ELSE Setup(Entry, password) \* mutant: the footer comes after the data
Refusal ==
  IF Setup(Entry, password) # "ok" THEN Setup(Entry, password)
  ELSE IF Entry.footer /\ ~RightKey THEN "tag" ELSE "none"

StartEntry ==
  /\ AtWanted /\ Entry.content = "data"
  /\ IF Refusal = "none" THEN pc' = "lines" /\ UNCHANGED <<status, cause>>
                         ELSE Fail(Refusal)
  /\ UNCHANGED <<call, reader, attempts, password, idx, buffer, got, delivered, extracted>>

\* What the entry at work may send: what it holds, and with a wrong key anything.
Sends(kind) ==
  IF ~cli.pipe THEN {<< >>}
  ELSE IF ~RightKey THEN {<< >>, <<<<idx, "garbage">>>>}
  ELSE {IF Entry[IF kind = "line" THEN "lines" ELSE "rest"] THEN <<<<idx, kind>>>> ELSE << >>}

\* Lines go through, and what was buffered before them.
WriteLines ==
  /\ pc = "lines"
  /\ \/ << >> \in Sends("line") /\ UNCHANGED <<buffer, got>>
     \/ /\ reader = "open"
        /\ \E piece \in Sends("line") \ {<< >>} : got' = got \o buffer \o piece
        /\ buffer' = << >>
  /\ pc' = "rest"
  /\ UNCHANGED <<call, reader, attempts, password, idx, delivered, extracted, status, cause>>

\* A line meets a reader that has stopped, the first one or a later one.
WriteFails ==
  /\ pc \in {"lines", "rest"} /\ reader # "open" /\ Sends("line") # {<< >>}
  /\ Fail(IF reader = "full" THEN "output"
          ELSE IF Entry.keeps THEN "broken pipe" ELSE "closed pipe as text")
  /\ UNCHANGED <<call, reader, attempts, password, idx, buffer, got, delivered, extracted>>

WriteRest ==
  /\ pc = "rest"
  /\ \E piece \in Sends("rest") : buffer' = buffer \o piece
  /\ pc' = "check"
  /\ UNCHANGED <<call, reader, attempts, password, idx, got, delivered, extracted, status, cause>>

\* The name is refused or nothing can be made under it; reading, decoding or
\* writing the file fails at any point.
EntryFails ==
  /\ AtWanted \/ pc \in {"lines", "rest"}
  /\ Fail("data")
  /\ UNCHANGED <<call, reader, attempts, password, idx, buffer, got, delivered, extracted>>

\* The wrong key gives data with the wrong CRC.
CrcIgnored == TRUE  \* mutant: the CRC is not compared
CrcMatches == RightKey

CheckEntry ==
  /\ pc = "check"
  /\ IF CrcMatches
       THEN /\ delivered' = delivered \cup {idx} /\ idx' = idx + 1 /\ pc' = "extract"
            /\ UNCHANGED <<status, cause>>
       ELSE Fail("crc") /\ UNCHANGED <<delivered, idx>>
  /\ UNCHANGED <<call, reader, attempts, password, buffer, got, extracted>>

\* extract_files reports a name that matched nothing; run_archive counts.
EndOfEntries ==
  /\ pc = "extract" /\ idx > Len(entries)
  /\ IF cli.unmatched THEN Fail("unmatched") /\ UNCHANGED extracted
     ELSE /\ Exit(0, "none")
          /\ extracted' = IF cli.quiet \/ cli.pipe THEN None ELSE Len(entries)
  /\ UNCHANGED <<call, reader, attempts, password, idx, buffer, got, delivered>>

\* The runtime empties the buffer when the process ends and asks no more.
Forgotten == got  \* mutant: what is in the buffer is forgotten
Flushed == IF reader = "open" THEN got \o buffer ELSE got

FlushAndExit ==
  /\ pc = "exiting"
  /\ got' = Flushed
  /\ buffer' = << >> /\ pc' = "exited"
  /\ UNCHANGED <<call, reader, attempts, password, idx, delivered, extracted, status, cause>>

Steps ==
  \/ OpenArchive \/ OpenFails \/ ListEntry \/ GetPassword
  \/ SkipEntry \/ TakeBare \/ BlocksLost \/ StartEntry
  \/ WriteLines \/ WriteFails \/ WriteRest \/ EntryFails \/ CheckEntry
  \/ EndOfEntries \/ FlushAndExit

Next ==
  \/ Steps \/ ReaderStops \/ PromptFails
  \/ \E pw \in Passwords : Prompt(pw)

Done == pc = "exited" /\ UNCHANGED vars

Spec == Init /\ [][Next \/ Done]_vars

-----------------------------------------------------------------------------

Parts == (1..Len(entries)) \X {"line", "rest", "garbage"}

TypeOK ==
  /\ cli \in Clis /\ entries \in Archives
  /\ reader \in {"open", "closed", "full"}
  /\ pc \in {"open", "list", "password", "prompt", "extract", "lines", "rest",
             "check", "exiting", "exited"}
  /\ attempts \in 0..3 /\ (pc = "prompt" => attempts < 3)
  /\ password \in Passwords \cup {None}
  /\ idx \in 1..Len(entries) + 1
  /\ pc \in {"lines", "rest", "check"} => idx <= Len(entries)
  /\ buffer \in Seq(Parts) /\ got \in Seq(Parts)
  /\ delivered \subseteq 1..Len(entries)
  /\ status \in {None, 0, 1} /\ (status = None) = (pc \notin {"exiting", "exited"})

\* Nothing is written before a password that was asked for is one that the
\* archive accepts; after three wrong ones nothing was written at all.
NothingBeforePassword ==
  ~cli.list /\ cli.password = None /\ IsEncrypted =>
    \/ got = << >> /\ buffer = << >> /\ delivered = {}
    \/ password # None /\ Setup(FirstEncrypted, password) = "ok"

\* The prompt tries a password on the first encrypted entry only, and the check
\* accepts some wrong ones.  What the reader of a pipe then gets of an entry with
\* another key is the last it gets: no later entry follows and none is made, the
\* entry is one without a footer to refuse it before the first byte, it does not
\* count as extracted, and the call does not end with status 0 unless its reader
\* has left.  No call with status 0 has an entry with data and another key.
Stream == got \o buffer
WrongKeyStopsTheCall ==
  ~cli.list =>
    /\ \A k \in 1..Len(Stream) : Stream[k][2] = "garbage" =>
         /\ ~HasKey(entries[Stream[k][1]]) /\ ~entries[Stream[k][1]].footer
         /\ \A j \in k..Len(Stream) : Stream[j] = Stream[k]
         /\ \A i \in delivered : i < Stream[k][1]
         /\ status = 0 => reader = "closed"
    /\ status = 0 /\ ~(cli.pipe /\ reader = "closed") =>
         \A i \in 1..Len(entries) :
           entries[i].wanted /\ entries[i].content = "data" => HasKey(entries[i])

\* What the reader of a pipe has received is the beginning of what the wanted
\* entries hold: no gap, nothing twice, no unwanted entry, although some of it
\* waited in the buffer and a refused entry ends the call.
Pieces == {x \in Parts :
             /\ entries[x[1]].wanted
             /\ \/ x[2] = "line" /\ entries[x[1]].lines
                \/ x[2] = "rest" /\ entries[x[1]].rest}
IsGarbage(x) == x[2] = "garbage" /\ entries[x[1]].wanted
Ahead(x, y) == x[1] < y[1] \/ (x[1] = y[1] /\ x[2] = "line" /\ y[2] = "rest")
IsBeginning(s) ==
  /\ \A k \in 1..Len(s) : s[k] \in Pieces \/ IsGarbage(s[k])
  /\ \A j, k \in 1..Len(s) : j < k => Ahead(s[j], s[k]) \/ (s[j] = s[k] /\ IsGarbage(s[j]))
  /\ \A x \in Pieces : \A k \in 1..Len(s) :
       Ahead(x, s[k]) => \E j \in 1..Len(s) : s[j] = x
PipeHasNoGap == cli.pipe /\ ~cli.list => IsBeginning(Stream)

\* Exit status 0 of an extraction is everything that was asked for, but for a
\* reader that has left; a name that matches nothing costs only itself.
Everything == {i \in 1..Len(entries) : entries[i].wanted}
SuccessIsEverything ==
  ~cli.list =>
    /\ status = 0 => \/ delivered = Everything /\ ~cli.unmatched
                     \/ cli.pipe /\ reader = "closed"
    /\ cause = "unmatched" => delivered = Everything /\ status = 1

\* And everything is received then, by a reader that is still there.  When its
\* side is full the program does not notice, behind status 0, that rests are
\* lost which wait for the end: those that no line of a later entry follows.
Received == {got[k] : k \in 1..Len(got)}
LateRest(x) == x[2] = "rest" /\ \A y \in Pieces : y[2] = "line" => Ahead(y, x)
SuccessIsReceived ==
  cli.pipe /\ ~cli.list /\ pc = "exited" /\ status = 0 /\ reader # "closed" =>
    \A x \in Pieces \ Received : reader = "full" /\ LateRest(x)

\* A pipe carries what was asked for in its order and without a gap, however the
\* call ends, and exit status 0 says that all of it was extracted and, but for
\* the late rests of a reader that is full, received.
DeliversWhatWasAsked == SuccessIsEverything /\ SuccessIsReceived /\ PipeHasNoGap

\* "A reader closing the pipe (`unegg -p a.egg f | head`) is a normal stop"
\* (main.rs), "whichever I/O-carrying variant wrapped it" (error.rs).
ClosedPipeIsNormal ==
  status = 1 => cause \notin {"broken pipe", "closed pipe as text"}
=============================================================================
