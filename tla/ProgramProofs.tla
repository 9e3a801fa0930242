---------------------------- MODULE ProgramProofs ----------------------------
(***************************************************************************)
(* What the four machines of Program promise: Session for every archive,     *)
(* every command line and every set of passwords, FileTimes on every day     *)
(* and for every width of its numbers, Names for every name and operand,     *)
(* CommandLine for every list of options and names.                          *)
(***************************************************************************)
EXTENDS Program, FiniteSetTheorems, SequenceTheorems, WellFoundedInduction, TLAPS

Extracting == pc \in {"extract", "lines", "rest", "check"}
AtWork == pc \in {"lines", "rest", "check"}
Silent == got = << >> /\ buffer = << >> /\ delivered = {}

\* Which of the ways through run the session is on, and what is left to say.
Control ==
  /\ pc = "list" => cli.list
  /\ pc \in {"password", "prompt"} \/ Extracting => ~cli.list
  /\ pc \in {"open", "password", "prompt"} => Silent /\ idx = 1
  /\ pc \in {"open", "password"} => attempts = 0
  /\ pc = "prompt" => IsEncrypted
  /\ AtWork => Entry.wanted /\ (Entry.footer => RightKey)
  /\ pc \notin {"exiting", "exited"} => cause = "none"
  /\ pc = "exited" => buffer = << >>

Inv1 == TypeOK /\ Control

\* The password in use is one that was asked for, and accepted.
AcceptedPassword ==
  ~cli.list /\ cli.password = None /\ IsEncrypted =>
    password # None /\ Setup(FirstEncrypted, password) = "ok"
Inv2 == NothingBeforePassword /\ (Extracting => AcceptedPassword)

\* The entries behind the one at work are delivered, those that are wanted, and
\* what has data among them was decrypted with its own key.
Behind == {i \in 1..idx - 1 : entries[i].wanted}
Fits(i) == entries[i].wanted /\ entries[i].content = "data" => HasKey(entries[i])
ReaderLeft == cli.pipe /\ reader = "closed"
SuccessHasKeys ==
  ~cli.list /\ status = 0 /\ ~ReaderLeft => \A i \in 1..Len(entries) : Fits(i)
Inv3 == /\ Extracting => delivered = Behind /\ \A i \in 1..idx - 1 : Fits(i)
        /\ delivered \subseteq 1..idx - 1
        /\ SuccessIsEverything /\ SuccessHasKeys

\* What the standard output was given: every piece up to the place at work.
Elements(s) == {s[k] : k \in 1..Len(s)}
Given(x) ==
  \/ x[1] < idx
  \/ /\ x[1] = idx /\ RightKey
     /\ IF x[2] = "line" THEN pc \in {"rest", "check"} ELSE pc = "check"
Inv4 == /\ PipeHasNoGap
        /\ ~cli.list /\ ~cli.pipe => Stream = << >>
        /\ Extracting /\ cli.pipe =>
             Elements(Stream) \ {<<idx, "garbage">>} = {x \in Pieces : Given(x)}

\* Nothing is behind the entry at work, and garbage is of that entry.
GarbageEnds ==
  /\ ~RightKey /\ ~Entry.footer
  /\ AtWork \/ status = 1 \/ (pc \in {"exiting", "exited"} /\ reader = "closed")
Inv5 == ~cli.list =>
          \A x \in Elements(Stream) : x[1] <= idx /\ (x[2] = "garbage" => x[1] = idx /\ GarbageEnds)

\* Only rests wait, and behind the last entry nothing else is missing.
Inv6 == /\ ~cli.list => \A x \in Elements(buffer) : x[2] # "line"
        /\ cli.pipe /\ ~cli.list /\ pc = "exiting" /\ status = 0 /\ reader # "closed" =>
             Pieces \subseteq Elements(Stream)
        /\ SuccessIsReceived

-----------------------------------------------------------------------------

LEMMA EntriesFacts ==
  ASSUME entries \in Archives
  PROVE  /\ Len(entries) \in Nat
         /\ \A i \in 1..Len(entries) : IsEntry(entries[i])
<1>1. entries \in Seq({entries[i] : i \in DOMAIN entries})
  BY SessionAssumption
<1> QED
  BY <1>1, SessionAssumption

\* None is neither a password nor a number, and a call asks with booleans.
LEMMA CliFacts ==
  ASSUME cli \in Clis
  PROVE  /\ None \notin Passwords /\ None # 0 /\ None # 1
         /\ cli.list \in BOOLEAN /\ cli.pipe \in BOOLEAN /\ cli.unmatched \in BOOLEAN
         /\ cli.password \in Passwords \cup {None}
BY SessionAssumption

\* The call never changes, nor what is said of it alone.
LEMMA CallKept ==
  ASSUME UNCHANGED call
  PROVE  /\ cli' = cli /\ entries' = entries
         /\ Parts' = Parts /\ Pieces' = Pieces /\ Everything' = Everything
         /\ IsEncrypted' = IsEncrypted /\ FirstEncrypted' = FirstEncrypted
         /\ idx' = idx => Entry' = Entry
         /\ idx' = idx /\ password' = password => RightKey' = RightKey
BY DEF call, Parts, Pieces, Everything, IsEncrypted, FirstEncrypted, Entry, RightKey, HasKey

\* setup_decryptor accepts, or names one of three reasons.
LEMMA SetupFacts ==
  ASSUME NEW e, IsEntry(e), NEW pw
  PROVE  Setup(e, pw) \in {"ok", "encryption", "corrupted", "password"}
BY DEF IsEntry, Setup

LEMMA EntryFacts ==
  ASSUME TypeOK, idx <= Len(entries)
  PROVE  /\ idx \in 1..Len(entries) /\ Len(entries) \in Nat /\ IsEntry(Entry)
         /\ Entry = entries[idx]
         /\ \A kind \in {"line", "rest", "garbage"} : <<idx, kind>> \in Parts
<1>1. idx \in 1..Len(entries) /\ Len(entries) \in Nat
  BY EntriesFacts DEF TypeOK
<1> QED
  BY <1>1, EntriesFacts DEF TypeOK, Entry, Parts

LEMMA SendsType ==
  ASSUME TypeOK, idx <= Len(entries), NEW kind \in {"line", "rest"}
  PROVE  \A piece \in Sends(kind) :
           piece = << >> \/ piece = <<<<idx, kind>>>> \/ piece = <<<<idx, "garbage">>>>
<1>1. \A x, y, z : \A piece \in IF x THEN {<< >>} ELSE IF y THEN {<< >>, z} ELSE
                     {IF Entry[IF kind = "line" THEN "lines" ELSE "rest"] THEN <<<<idx, kind>>>> ELSE << >>} :
        piece = << >> \/ piece = z \/ piece = <<<<idx, kind>>>>
  OBVIOUS
<1> QED
  BY <1>1, Zenon DEF Sends

LEMMA SendsSeq ==
  ASSUME TypeOK, idx <= Len(entries), NEW kind \in {"line", "rest"}, NEW piece \in Sends(kind)
  PROVE  piece \in Seq(Parts)
<1>1. \A x \in Parts : <<x>> \in Seq(Parts)
  OBVIOUS
<1>2. <<idx, kind>> \in Parts /\ <<idx, "garbage">> \in Parts /\ << >> \in Seq(Parts)
  BY EntryFacts
<1>3. piece = << >> \/ piece = <<<<idx, kind>>>> \/ piece = <<<<idx, "garbage">>>>
  BY SendsType
<1> QED
  BY <1>1, <1>2, <1>3

\* What lets an entry begin.
LEMMA RefusalFacts ==
  ASSUME TypeOK, idx <= Len(entries)
  PROVE  /\ Refusal \in {"none", "encryption", "corrupted", "password", "tag"}
         /\ Refusal = "none" /\ Entry.footer => RightKey
<1>1. Setup(Entry, password) \in {"ok", "encryption", "corrupted", "password"}
  BY EntryFacts, SetupFacts
<1> QED
  BY <1>1 DEF Refusal

\* verify_password looks at an entry.
LEMMA FirstEncryptedFacts ==
  ASSUME entries \in Archives, IsEncrypted
  PROVE  IsEntry(FirstEncrypted)
<1> DEFINE S == {i \in 1..Len(entries) : entries[i].enc # "none"}
<1>a. S \subseteq Nat /\ S # {}
  BY EntriesFacts DEF IsEncrypted
<1>1. PICK i \in S : \A j \in S : ~(<<j, i>> \in OpToRel(<, Nat))
  BY <1>a, NatLessThanWellFounded, WFMin
<1>b. \A j \in S : ~(j < i)
  BY <1>a, <1>1 DEF OpToRel
<1>2. \A j \in 1..i - 1 : entries[j].enc = "none"
  BY <1>b, EntriesFacts
<1>3. \E k \in 1..Len(entries) :
        entries[k].enc # "none" /\ \A j \in 1..k - 1 : entries[j].enc = "none"
  BY <1>1, <1>2
<1> QED
  BY <1>3, EntriesFacts DEF FirstEncrypted

LEMMA Inv1Init == Init => Inv1
<1> SUFFICES ASSUME Init PROVE Inv1
  OBVIOUS
<1>1. Len(entries) \in Nat
  BY EntriesFacts DEF Init
<1>2. TypeOK
  BY <1>1 DEF Init, TypeOK
<1>3. Control
  BY DEF Init, Control, Silent, Extracting, AtWork
<1> QED
  BY <1>2, <1>3 DEF Inv1

\* A step of the program that ends it.
LEMMA ExitKeeps ==
  ASSUME Inv1, UNCHANGED call, UNCHANGED <<reader, idx, buffer, got, delivered>>,
         pc' = "exiting", status' \in {0, 1}, attempts' \in 0..3,
         password' \in Passwords \cup {None}
  PROVE  Inv1'
BY CallKept, CliFacts DEF Inv1, TypeOK, Control, Extracting, AtWork

\* list_archive ends behind the last line, or when a line cannot be written.
LEMMA ListEnds ==
  ASSUME TypeOK, ListEntry, ~(idx <= Len(entries) /\ reader = "open")
  PROVE  pc' = "exiting" /\ status' \in {0, 1} /\ UNCHANGED <<idx, got>>
<1>1. idx \in Int /\ Len(entries) \in Int /\ reader \in {"open", "closed", "full"}
  BY EntriesFacts DEF TypeOK
<1>2. CASE idx > Len(entries)
  <2>1. ~(idx <= Len(entries))
    BY <1>1, <1>2
  <2> QED
    BY <1>2, <2>1 DEF ListEntry, Exit
<1>3. CASE idx <= Len(entries) /\ reader = "closed"
  BY <1>1, <1>3 DEF ListEntry, Exit
<1>4. CASE idx <= Len(entries) /\ reader = "full"
  BY <1>1, <1>4 DEF ListEntry, Exit
<1> QED
  BY <1>1, <1>2, <1>3, <1>4

LEMMA ListStays ==
  ASSUME TypeOK, ListEntry
  PROVE  pc' \in {"list", "exiting"}
<1>1. CASE idx <= Len(entries) /\ reader = "open"
  BY <1>1 DEF ListEntry
<1>2. CASE ~(idx <= Len(entries) /\ reader = "open")
  BY <1>2, ListEnds
<1> QED
  BY <1>1, <1>2

LEMMA Inv1Next == Inv1 /\ [Next \/ Done]_vars => Inv1'
<1> SUFFICES ASSUME Inv1, [Next \/ Done]_vars PROVE Inv1'
  OBVIOUS
<1>n. Len(entries) \in Nat /\ cli \in Clis /\ TypeOK
  BY EntriesFacts DEF Inv1, TypeOK
<1>f. \A why : Fail(why) => pc' = "exiting" /\ status' \in {0, 1} /\ cause' = why
  BY DEF Fail, Exit
<1> USE <1>n, CallKept, CliFacts DEF Inv1, TypeOK, Control, Extracting, AtWork
<1>1. CASE OpenArchive
  BY <1>1 DEF OpenArchive, Silent
<1>2. CASE OpenFails
  BY <1>2, ExitKeeps DEF OpenFails, Exit
<1>3. CASE ListEntry
  <2>1. UNCHANGED call /\ pc = "list"
    BY <1>3 DEF ListEntry
  <2>2. CASE idx <= Len(entries) /\ reader = "open"
    <3>1. /\ got' = Append(got, <<idx, "line">>) /\ idx' = idx + 1
          /\ UNCHANGED <<pc, status, cause, reader, attempts, password, buffer, delivered>>
      BY <1>3, <2>2 DEF ListEntry
    <3>2. got' \in Seq(Parts)
      BY <2>2, <3>1, EntryFacts
    <3> QED
      BY <2>1, <2>2, <3>1, <3>2
  <2>3. CASE ~(idx <= Len(entries) /\ reader = "open")
    <3>1. UNCHANGED <<reader, buffer, delivered, attempts, password>>
      BY <1>3 DEF ListEntry
    <3>2. /\ pc' = "exiting" /\ status' \in {0, 1} /\ UNCHANGED <<idx, got>>
      BY <1>3, <2>3, ListEnds
    <3> QED
      BY <2>1, <3>1, <3>2, ExitKeeps
  <2> QED
    BY <2>2, <2>3
<1>4. CASE GetPassword
  <2>1. /\ pc = "password" /\ password' = cli.password /\ pc' \in {"prompt", "extract"}
        /\ UNCHANGED call
        /\ UNCHANGED <<reader, attempts, idx, buffer, got, delivered, status, cause>>
    BY <1>4 DEF GetPassword
  <2>2. pc' = "prompt" => IsEncrypted
    BY <1>4 DEF GetPassword
  <2> QED
    BY <2>1, <2>2 DEF Silent
<1>5. ASSUME NEW pw \in Passwords, Prompt(pw) PROVE Inv1'
  <2>1. /\ pc = "prompt" /\ attempts' = attempts + 1 /\ attempts < 3 /\ UNCHANGED call
        /\ UNCHANGED <<reader, idx, buffer, got, delivered, extracted>>
    BY <1>5 DEF Prompt
  <2>2. CASE Answer(pw) = "ok"
    BY <1>5, <2>1, <2>2 DEF Prompt, Silent
  <2>3. CASE Answer(pw) = "password" /\ MayTryAgain
    BY <1>5, <2>1, <2>3 DEF Prompt, Silent, MayTryAgain
  <2>4. CASE Answer(pw) # "ok" /\ ~(Answer(pw) = "password" /\ MayTryAgain)
    <3>1. Exit(1, Answer(pw)) /\ UNCHANGED password
      BY <1>5, <2>4 DEF Prompt
    <3> QED
      BY <2>1, <3>1, ExitKeeps DEF Exit
  <2> QED
    BY <2>2, <2>3, <2>4
<1>6. CASE PromptFails
  BY <1>6, ExitKeeps DEF PromptFails, Exit
<1>7. CASE SkipEntry
  BY <1>7 DEF SkipEntry, AtEntry
<1>8. CASE StartEntry
  <2>1. UNCHANGED call /\ UNCHANGED <<reader, attempts, password, idx, buffer, got, delivered>>
        /\ pc = "extract" /\ idx <= Len(entries) /\ Entry.wanted
    BY <1>8 DEF StartEntry, AtWanted, AtEntry
  <2>2. CASE Refusal = "none"
    <3>1. Entry.footer => RightKey
      BY <2>1, <2>2, RefusalFacts
    <3> QED
      BY <1>8, <2>1, <2>2, <3>1 DEF StartEntry
  <2>3. CASE Refusal # "none"
    BY <1>8, <1>f, <2>1, <2>3, ExitKeeps DEF StartEntry
  <2> QED
    BY <2>2, <2>3
<1>9. CASE WriteLines
  <2>1. /\ UNCHANGED call /\ UNCHANGED <<reader, attempts, password, idx, delivered, status, cause>>
        /\ pc = "lines" /\ idx <= Len(entries) /\ pc' = "rest"
    BY <1>9 DEF WriteLines
  <2>2. got' \in Seq(Parts) /\ buffer' \in Seq(Parts)
    <3>1. CASE UNCHANGED <<buffer, got>>
      BY <3>1
    <3>2. ASSUME NEW piece \in Sends("line"), got' = got \o buffer \o piece, buffer' = << >>
          PROVE  got' \in Seq(Parts) /\ buffer' \in Seq(Parts)
      BY <2>1, <3>2, SendsSeq, ConcatProperties
    <3> QED
      BY <1>9, <3>1, <3>2 DEF WriteLines
  <2> QED
    BY <2>1, <2>2
<1>10. CASE WriteRest
  <2>1. PICK piece \in Sends("rest") : buffer' = buffer \o piece
    BY <1>10 DEF WriteRest
  <2>2. buffer' \in Seq(Parts)
    <3>1. piece \in Seq(Parts)
      BY <1>10, <2>1, SendsSeq DEF WriteRest
    <3> QED
      BY <2>1, <3>1, ConcatProperties
  <2> QED
    BY <1>10, <2>2 DEF WriteRest
<1>17. CASE WriteFails
  BY <1>17, <1>f, ExitKeeps DEF WriteFails
<1>18. CASE TakeBare
  <2>1. /\ pc = "extract" /\ pc' = pc /\ idx' = idx + 1 /\ UNCHANGED call /\ idx <= Len(entries)
        /\ delivered' = delivered \cup {idx}
        /\ UNCHANGED <<status, cause, reader, attempts, password, buffer, got>>
    BY <1>18 DEF TakeBare, AtWanted, AtEntry
  <2>2. idx \in 1..Len(entries)
    BY <2>1, EntryFacts
  <2> QED
    BY <2>1, <2>2
<1>19. CASE BlocksLost
  BY <1>19, <1>f, ExitKeeps DEF BlocksLost
<1>11. CASE EntryFails
  BY <1>11, <1>f, ExitKeeps DEF EntryFails
<1>12. CASE CheckEntry
  <2>1. CASE CrcMatches
    <3>1. /\ pc = "check" /\ pc' = "extract" /\ idx' = idx + 1 /\ UNCHANGED call
          /\ delivered' = delivered \cup {idx}
          /\ UNCHANGED <<status, cause, reader, attempts, password, buffer, got>>
      BY <1>12, <2>1 DEF CheckEntry
    <3>2. idx \in 1..Len(entries)
      BY <3>1, EntryFacts
    <3> QED
      BY <3>1, <3>2
  <2>2. CASE ~CrcMatches
    BY <1>12, <1>f, <2>2, ExitKeeps DEF CheckEntry
  <2> QED
    BY <2>1, <2>2
<1>13. CASE EndOfEntries
  BY <1>13, <1>f, ExitKeeps DEF EndOfEntries, Exit
<1>14. CASE FlushAndExit
  <2>1. got' \in Seq(Parts)
    BY <1>14 DEF FlushAndExit, Flushed
  <2> QED
    BY <1>14, <2>1 DEF FlushAndExit
<1>15. CASE ReaderStops
  BY <1>15 DEF ReaderStops, Silent
<1>16. CASE UNCHANGED vars
  BY <1>16 DEF vars, Silent
<1> QED
  BY <1>1, <1>2, <1>3, <1>4, <1>5, <1>6, <1>7, <1>8, <1>9, <1>10, <1>11, <1>12,
     <1>13, <1>14, <1>15, <1>16, <1>17, <1>18, <1>19 DEF Next, Steps, Done

-----------------------------------------------------------------------------
(* The password.                                                            *)

LEMMA Inv2Init == Init => Inv2
BY DEF Init, Inv2, NothingBeforePassword, Extracting

LEMMA AcceptedKept ==
  ASSUME AcceptedPassword, UNCHANGED call, password' = password
  PROVE  Inv2'
BY CallKept DEF AcceptedPassword, Inv2, NothingBeforePassword

\* Nothing is written by a step that only ends, or only goes on to the password.
LEMMA SilentKept ==
  ASSUME Inv2, UNCHANGED call, UNCHANGED <<password, got, buffer, delivered>>, ~Extracting'
  PROVE  Inv2'
BY CallKept DEF Inv2, NothingBeforePassword

LEMMA Inv2Next == Inv1 /\ Inv2 /\ [Next \/ Done]_vars => Inv2'
<1> SUFFICES ASSUME Inv1, Inv2, [Next \/ Done]_vars PROVE Inv2'
  OBVIOUS
<1> USE CallKept DEF Extracting
<1>1. ASSUME Extracting, UNCHANGED call, password' = password PROVE Inv2'
  BY <1>1, AcceptedKept DEF Inv2
<1>2. CASE OpenArchive \/ OpenFails \/ PromptFails
  BY <1>2, SilentKept DEF OpenArchive, OpenFails, PromptFails, Exit
<1>3. CASE ListEntry
  <2>1. UNCHANGED call /\ pc = "list" /\ cli.list
    BY <1>3 DEF ListEntry, Inv1, Control
  <2>2. pc' \in {"list", "exiting"}
    BY <1>3, ListStays DEF Inv1
  <2> QED
    BY <2>1, <2>2 DEF Inv2, NothingBeforePassword
<1>4. CASE GetPassword
  <2>1. /\ UNCHANGED call /\ Silent /\ UNCHANGED <<got, buffer, delivered>>
        /\ password' = cli.password
        /\ pc' = IF cli.password = None /\ IsEncrypted THEN "prompt" ELSE "extract"
    BY <1>4 DEF GetPassword, Inv1, Control
  <2> QED
    BY <2>1 DEF Silent, Inv2, NothingBeforePassword, AcceptedPassword
<1>5. ASSUME NEW pw \in Passwords, Prompt(pw) PROVE Inv2'
  <2>1. /\ pc = "prompt" /\ UNCHANGED call /\ Silent
        /\ UNCHANGED <<got, buffer, delivered>>
    BY <1>5 DEF Prompt, Inv1, Control
  <2>2. NothingBeforePassword'
    BY <2>1 DEF Silent, NothingBeforePassword
  <2>3. CASE Answer(pw) = "ok"
    <3>1. password' = pw /\ pw # None
      BY <1>5, <2>3, CliFacts DEF Prompt, Inv1, TypeOK
    <3> QED
      BY <2>1, <2>2, <2>3, <3>1 DEF Answer, AcceptedPassword, Inv2
  <2>4. CASE Answer(pw) # "ok"
    <3>1. pc' \in {"prompt", "exiting"}
      BY <1>5, <2>1, <2>4 DEF Prompt, Exit
    <3> QED
      BY <2>2, <3>1 DEF Inv2
  <2> QED
    BY <2>3, <2>4
<1>6. CASE \/ SkipEntry \/ TakeBare \/ BlocksLost \/ StartEntry \/ WriteLines \/ WriteFails
           \/ WriteRest \/ EntryFails \/ CheckEntry \/ EndOfEntries
  BY <1>1, <1>6 DEF SkipEntry, AtEntry, TakeBare, BlocksLost, StartEntry, AtWanted, WriteLines,
                    WriteFails, WriteRest, EntryFails, CheckEntry, EndOfEntries
<1>7. CASE FlushAndExit
  <2>1. /\ UNCHANGED <<call, password, delivered>> /\ pc' = "exited" /\ buffer' = << >>
        /\ got' \in {got, got \o buffer}
    BY <1>7 DEF FlushAndExit, Flushed
  <2>2. got = << >> /\ buffer = << >> => got' = << >>
    BY <2>1
  <2> QED
    BY <2>1, <2>2 DEF Inv2, NothingBeforePassword
<1>8. CASE ReaderStops \/ UNCHANGED vars
  <2>1. UNCHANGED call /\ UNCHANGED <<pc, password, got, buffer, delivered>>
    BY <1>8 DEF ReaderStops, vars
  <2> QED
    BY <2>1 DEF Inv2, NothingBeforePassword, AcceptedPassword
<1> QED
  BY <1>2, <1>3, <1>4, <1>5, <1>6, <1>7, <1>8 DEF Next, Steps, Done

-----------------------------------------------------------------------------
(* The entries that were delivered, and the exit status.                    *)

LEMMA Inv3Init == Init => Inv3
<1> SUFFICES ASSUME Init PROVE Inv3
  OBVIOUS
<1>1. delivered = {} /\ status = None /\ cause = "none" /\ ~Extracting
  BY DEF Init, Extracting
<1> QED
  BY <1>1, CliFacts DEF Init, Inv3, SuccessIsEverything, SuccessHasKeys

\* Which entries have the right key is settled with the password.
LEMMA KeysKept ==
  ASSUME UNCHANGED call, password' = password
  PROVE  /\ \A i : Fits(i)' <=> Fits(i)
         /\ cli' = cli /\ entries' = entries /\ Everything' = Everything
         /\ idx' = idx => Behind' = Behind
BY CallKept DEF Fits, HasKey, Behind

\* The program may end with status 1 at any time, and with any cause
\* but "unmatched"; before a reader that has left it may end as it likes.
LEMMA EndKept ==
  ASSUME Inv3, UNCHANGED call, UNCHANGED <<idx, delivered, password>>,
         pc' = "exiting", cause' # "unmatched", status' = 1 \/ ReaderLeft'
  PROVE  Inv3'
BY KeysKept DEF Inv3, Extracting, SuccessIsEverything, SuccessHasKeys, ReaderLeft

\* Before the end nothing is said of the exit status.
LEMMA GoingOn ==
  ASSUME Inv1, status' = None, cause' = "none", UNCHANGED call
  PROVE  SuccessIsEverything' /\ SuccessHasKeys'
BY CliFacts, CallKept DEF Inv1, TypeOK, SuccessIsEverything, SuccessHasKeys

\* A step within one entry.
LEMMA EntryKept ==
  ASSUME Inv1, Inv3, Extracting, UNCHANGED call, UNCHANGED <<idx, delivered, password, status, cause>>
  PROVE  Inv3'
<1>1. status' = None /\ cause' = "none"
  BY DEF Inv1, TypeOK, Control, Extracting
<1> QED
  BY <1>1, GoingOn, KeysKept DEF Inv3, Extracting

\* A step to the next entry.
LEMMA EntryPassed ==
  ASSUME Inv1, Inv3, Extracting, idx <= Len(entries), UNCHANGED <<call, password, status, cause>>,
         idx' = idx + 1, Fits(idx),
         delivered' = IF entries[idx].wanted THEN delivered \cup {idx} ELSE delivered
  PROVE  Inv3'
<1>1. status' = None /\ cause' = "none"
  BY DEF Inv1, TypeOK, Control, Extracting
<1>2. idx \in 1..Len(entries) /\ Len(entries) \in Nat
  BY EntryFacts DEF Inv1
<1>3. Behind' = IF entries[idx].wanted THEN Behind \cup {idx} ELSE Behind
  BY <1>2, CallKept DEF Behind
<1>4. \A i \in 1..idx' - 1 : Fits(i)'
  BY <1>2, KeysKept DEF Inv3
<1>5. delivered' = Behind' /\ delivered' \subseteq 1..idx' - 1
  BY <1>2, <1>3 DEF Inv3, Behind
<1> QED
  BY <1>1, <1>4, <1>5, GoingOn DEF Inv3

LEMMA Inv3Next == Inv1 /\ Inv3 /\ [Next \/ Done]_vars => Inv3'
<1> SUFFICES ASSUME Inv1, Inv3, [Next \/ Done]_vars PROVE Inv3'
  OBVIOUS
<1>f. \A why : Fail(why) => /\ pc' = "exiting" /\ cause' = why
                            /\ why # "broken pipe" \/ ~cli.pipe => status' = 1
  BY DEF Fail, Exit
<1>t. TypeOK /\ Control /\ Len(entries) \in Nat /\ None # 0 /\ None # 1
  BY EntriesFacts, CliFacts DEF Inv1, TypeOK
<1>n. status # None <=> pc \in {"exiting", "exited"}
  BY <1>t DEF TypeOK
<1>1. CASE OpenArchive
  <2>1. /\ UNCHANGED <<call, idx, delivered, password, status, cause>>
        /\ pc = "open" /\ pc' \in {"list", "password"}
    BY <1>1 DEF OpenArchive
  <2>2. status' = None /\ cause' = "none"
    BY <2>1, <1>t, <1>n DEF Control
  <2> QED
    BY <2>1, <2>2, GoingOn DEF Inv3, Extracting
<1>2. CASE OpenFails \/ PromptFails
  BY <1>2, EndKept DEF OpenFails, PromptFails, Exit
<1>3. CASE ListEntry
  <2>1. UNCHANGED <<call, delivered, password>> /\ pc = "list" /\ cli.list
    BY <1>3, <1>t DEF ListEntry, Control
  <2>3. idx' \in {idx, idx + 1} /\ idx \in Nat
    <3>1. CASE idx <= Len(entries) /\ reader = "open"
      BY <1>3, <1>t, <3>1 DEF ListEntry, TypeOK
    <3>2. CASE ~(idx <= Len(entries) /\ reader = "open")
      BY <1>3, <1>t, <3>2, ListEnds DEF TypeOK
    <3> QED
      BY <3>1, <3>2
  <2>4. delivered' \subseteq 1..idx' - 1
    <3>1. delivered \subseteq 1..idx - 1 /\ delivered' = delivered
      BY <2>1 DEF Inv3
    <3>2. CASE idx' = idx
      BY <3>1, <3>2
    <3>3. CASE idx' = idx + 1
      <4>1. 1..idx - 1 \subseteq 1..idx' - 1
        BY <2>3, <3>3
      <4> QED
        BY <3>1, <4>1
    <3> QED
      BY <2>3, <3>2, <3>3
  <2>2. pc' \in {"list", "exiting"}
    BY <1>3, <1>t, ListStays
  <2> QED
    BY <2>1, <2>2, <2>4, CallKept DEF Inv3, SuccessIsEverything, SuccessHasKeys, Extracting
<1>4. CASE GetPassword
  <2>1. /\ UNCHANGED call /\ delivered = {} /\ delivered' = {} /\ idx' = 1
        /\ status' = None /\ cause' = "none" /\ pc' \in {"prompt", "extract"}
    BY <1>4, <1>t, <1>n DEF GetPassword, Control, TypeOK, Silent
  <2>2. Behind' = {}
    BY <2>1 DEF Behind
  <2> QED
    BY <2>1, <2>2, GoingOn DEF Inv3
<1>5. ASSUME NEW pw \in Passwords, Prompt(pw) PROVE Inv3'
  <2>1. /\ UNCHANGED call /\ delivered = {} /\ delivered' = {} /\ idx' = 1 /\ idx = 1
        /\ status = None /\ cause = "none" /\ pc = "prompt"
    BY <1>5, <1>t, <1>n DEF Prompt, Control, TypeOK, Silent
  <2>2. Behind' = {}
    BY <2>1 DEF Behind
  <2>3. CASE pc' \in {"prompt", "extract"}
    <3>1. status' = None /\ cause' = "none"
      BY <1>5, <2>1, <2>3 DEF Prompt, Exit
    <3> QED
      BY <2>1, <2>2, <3>1, GoingOn DEF Inv3
  <2>4. CASE pc' \notin {"prompt", "extract"}
    <3>1. pc' = "exiting" /\ status' = 1 /\ cause' = Answer(pw) /\ password' = password
      BY <1>5, <2>1, <2>4 DEF Prompt, Exit
    <3>2. Answer(pw) # "unmatched"
      <4>1. IsEntry(FirstEncrypted)
        BY <2>1, <1>t, FirstEncryptedFacts DEF TypeOK, Control
      <4> QED
        BY <4>1, SetupFacts DEF Answer
    <3> QED
      BY <2>1, <3>1, <3>2, EndKept
  <2> QED
    BY <2>3, <2>4
<1>6. CASE SkipEntry
  <2>1. /\ UNCHANGED <<call, password, delivered, status, cause>> /\ Extracting
        /\ idx' = idx + 1 /\ ~entries[idx].wanted /\ idx <= Len(entries)
    BY <1>6 DEF SkipEntry, AtEntry, Entry, Extracting
  <2> QED
    BY <2>1, EntryPassed DEF Fits
<1>15. CASE TakeBare
  <2>1. /\ UNCHANGED <<call, password, status, cause>> /\ Extracting
        /\ idx' = idx + 1 /\ entries[idx].wanted /\ idx <= Len(entries)
        /\ delivered' = delivered \cup {idx} /\ entries[idx].content # "data"
    BY <1>15 DEF TakeBare, AtWanted, AtEntry, Entry, Extracting
  <2> QED
    BY <2>1, EntryPassed DEF Fits
<1>7. CASE StartEntry
  <2>1. /\ UNCHANGED <<call, idx, delivered, password>> /\ pc = "extract" /\ idx <= Len(entries)
    BY <1>7 DEF StartEntry, AtWanted, AtEntry
  <2>2. Refusal \in {"none", "encryption", "corrupted", "password", "tag"}
    BY <2>1, <1>t, RefusalFacts
  <2>3. CASE Refusal = "none"
    BY <1>7, <2>1, <2>3, EntryKept DEF StartEntry, Extracting
  <2>4. CASE Refusal # "none"
    BY <1>7, <1>f, <2>1, <2>2, <2>4, EndKept DEF StartEntry
  <2> QED
    BY <2>3, <2>4
<1>8. CASE WriteLines \/ WriteRest
  BY <1>8, EntryKept DEF WriteLines, WriteRest, Extracting
<1>9. CASE WriteFails
  <2>1. /\ UNCHANGED <<call, idx, reader, delivered, password>> /\ reader # "open"
        /\ Fail(IF reader = "full" THEN "output"
                ELSE IF Entry.keeps THEN "broken pipe" ELSE "closed pipe as text")
    BY <1>9 DEF WriteFails
  <2>2. pc' = "exiting" /\ cause' # "unmatched"
    BY <2>1 DEF Fail, Exit
  <2>3. status' = 1 \/ ReaderLeft'
    <3>1. reader = "closed" \/ reader = "full"
      BY <2>1, <1>t DEF TypeOK
    <3>2. CASE reader = "closed" /\ cli.pipe
      BY <2>1, <3>2, CallKept DEF ReaderLeft
    <3>3. CASE reader = "full" \/ ~cli.pipe
      BY <2>1, <3>3 DEF Fail, Exit
    <3> QED
      BY <3>1, <3>2, <3>3
  <2> QED
    BY <2>1, <2>2, <2>3, EndKept
<1>10. CASE EntryFails \/ BlocksLost
  <2>1. /\ UNCHANGED <<call, idx, delivered, password>>
        /\ \E why \in {"data", "corrupted"} : Fail(why)
    BY <1>10 DEF EntryFails, BlocksLost
  <2> QED
    BY <2>1, <1>f, EndKept
<1>11. CASE CheckEntry
  <2>1. UNCHANGED <<call, password>> /\ pc = "check" /\ entries[idx].wanted /\ idx <= Len(entries)
    BY <1>11, <1>t DEF CheckEntry, Control, AtWork, TypeOK, Entry
  <2>2. CASE CrcMatches
    <3>1. Fits(idx)
      BY <2>2 DEF CrcMatches, RightKey, Entry, Fits
    <3> QED
      BY <1>11, <2>1, <2>2, <3>1, EntryPassed DEF CheckEntry, Extracting
  <2>3. CASE ~CrcMatches
    <3>1. UNCHANGED <<idx, delivered>> /\ Fail("crc")
      BY <1>11, <2>3 DEF CheckEntry
    <3>2. pc' = "exiting" /\ cause' # "unmatched" /\ status' = 1
      BY <3>1 DEF Fail, Exit
    <3> QED
      BY <2>1, <3>1, <3>2, EndKept
  <2> QED
    BY <2>2, <2>3
<1>12. CASE EndOfEntries
  <2>1. /\ UNCHANGED <<call, idx, delivered, password>> /\ pc = "extract" /\ idx > Len(entries)
        /\ delivered = Behind /\ idx \in 1..Len(entries) + 1
    BY <1>12, <1>t DEF EndOfEntries, Inv3, TypeOK, Extracting
  <2>2. delivered = Everything /\ \A i \in 1..Len(entries) : Fits(i)
    BY <2>1, <1>t DEF Behind, Everything, Inv3, Extracting
  <2>3. /\ pc' = "exiting"
        /\ cli.unmatched => status' = 1
        /\ ~cli.unmatched => status' = 0 /\ cause' = "none"
    BY <1>12 DEF EndOfEntries, Fail, Exit
  <2> QED
    BY <2>1, <2>2, <2>3, KeysKept DEF Inv3, Extracting, SuccessIsEverything, SuccessHasKeys
<1>13. CASE FlushAndExit
  BY <1>13, KeysKept DEF FlushAndExit, Inv3, Extracting, SuccessIsEverything, SuccessHasKeys, ReaderLeft
<1>14. CASE ReaderStops \/ UNCHANGED vars
  <2>1. /\ UNCHANGED <<call, pc, idx, delivered, password, status, cause>>
        /\ reader' = reader \/ reader = "open"
    BY <1>14 DEF ReaderStops, vars
  <2> QED
    BY <2>1, KeysKept DEF Inv3, Extracting, SuccessIsEverything, SuccessHasKeys, ReaderLeft
<1> QED
  BY <1>1, <1>2, <1>3, <1>4, <1>5, <1>6, <1>7, <1>8, <1>9, <1>10, <1>11, <1>12,
     <1>13, <1>14, <1>15 DEF Next, Steps, Done

-----------------------------------------------------------------------------
(* The standard output.                                                     *)

LEMMA PartFacts ==
  ASSUME entries \in Archives
  PROVE  /\ \A x \in Parts : /\ x[1] \in 1..Len(entries) /\ x[2] \in {"line", "rest", "garbage"}
                             /\ x = <<x[1], x[2]>>
         /\ \A x, y \in Parts : Ahead(x, y) => ~Ahead(y, x) /\ x # y
         /\ Pieces \subseteq Parts /\ Len(entries) \in Nat
         /\ \A x \in Pieces : x[2] \in {"line", "rest"}
<1>1. \A x \in Parts : /\ x[1] \in 1..Len(entries) /\ x[2] \in {"line", "rest", "garbage"}
                       /\ x = <<x[1], x[2]>>
  BY DEF Parts
<1>2. \A x, y \in Parts : Ahead(x, y) => ~Ahead(y, x) /\ x # y
  BY <1>1, EntriesFacts DEF Ahead
<1>3. Pieces \subseteq Parts /\ \A x \in Pieces : x[2] \in {"line", "rest"}
  BY DEF Pieces
<1> QED
  BY <1>1, <1>2, <1>3, EntriesFacts

LEMMA StreamType ==
  ASSUME TypeOK
  PROVE  Stream \in Seq(Parts) /\ got \in Seq(Parts) /\ buffer \in Seq(Parts)
BY ConcatProperties DEF TypeOK, Stream

LEMMA ElementsOfBoth ==
  ASSUME NEW S, NEW s \in Seq(S), NEW t \in Seq(S)
  PROVE  Elements(s \o t) = Elements(s) \cup Elements(t)
<1> DEFINE u == s \o t
<1>1. /\ Len(u) = Len(s) + Len(t) /\ Len(s) \in Nat /\ Len(t) \in Nat
      /\ \A k \in 1..Len(s) : u[k] = s[k]
      /\ \A k \in 1..Len(t) : u[Len(s) + k] = t[k]
  BY ConcatProperties
<1> HIDE DEF u
<1>2. ASSUME NEW k \in 1..Len(u) PROVE u[k] \in Elements(s) \cup Elements(t)
  <2>1. CASE k <= Len(s)
    BY <1>1, <2>1 DEF Elements
  <2>2. CASE k > Len(s)
    <3>1. k - Len(s) \in 1..Len(t) /\ k = Len(s) + (k - Len(s))
      BY <1>1, <2>2
    <3>2. u[k] = t[k - Len(s)]
      BY <1>1, <3>1
    <3> QED
      BY <3>1, <3>2 DEF Elements
  <2> QED
    BY <1>1, <2>1, <2>2
<1>3. ASSUME NEW k \in 1..Len(s) PROVE s[k] \in Elements(u)
  BY <1>1 DEF Elements
<1>4. ASSUME NEW k \in 1..Len(t) PROVE t[k] \in Elements(u)
  <2>1. Len(s) + k \in 1..Len(u) /\ u[Len(s) + k] = t[k]
    BY <1>1
  <2> QED
    BY <2>1 DEF Elements
<1>5. Elements(u) \subseteq Elements(s) \cup Elements(t)
  BY <1>2 DEF Elements
<1>6. Elements(s) \subseteq Elements(u)
  BY <1>3 DEF Elements
<1>7. Elements(t) \subseteq Elements(u)
  BY <1>4 DEF Elements
<1> QED
  BY <1>5, <1>6, <1>7 DEF u

LEMMA OneMore ==
  ASSUME NEW S, NEW s \in Seq(S), NEW x \in S
  PROVE  Elements(s \o <<x>>) = Elements(s) \cup {x}
<1>1. <<x>> \in Seq(S) /\ Len(<<x>>) = 1 /\ <<x>>[1] = x /\ 1..1 = {1}
  OBVIOUS
<1>2. Elements(<<x>>) = {x}
  BY <1>1 DEF Elements
<1>3. Elements(s \o <<x>>) = Elements(s) \cup Elements(<<x>>)
  BY <1>1, ElementsOfBoth
<1> QED
  BY <1>2, <1>3

\* The next piece behind all that were given continues the beginning, and so
\* does garbage behind the entries before it.
LEMMA AppendPiece ==
  ASSUME entries \in Archives, NEW s \in Seq(Parts), IsBeginning(s),
         NEW x \in Parts, x \in Pieces \/ IsGarbage(x),
         \A y \in Elements(s) : Ahead(y, x) \/ (y = x /\ IsGarbage(x)),
         \A y \in Pieces : Ahead(y, x) => y \in Elements(s)
  PROVE  IsBeginning(s \o <<x>>)
<1> DEFINE n == Len(s)
           t == s \o <<x>>
<1>1. <<x>> \in Seq(Parts) /\ Len(<<x>>) = 1 /\ <<x>>[1] = x
  OBVIOUS
<1>2. /\ n \in Nat /\ Len(t) = n + 1 /\ t[n + 1] = x
      /\ \A k \in 1..n : t[k] = s[k] /\ s[k] \in Parts
  BY <1>1, ConcatProperties
<1> HIDE DEF t
<1>3. \A k \in 1..n : Ahead(s[k], x) \/ (s[k] = x /\ IsGarbage(s[k]))
  BY DEF Elements
<1>4. \A y \in Pieces : Ahead(y, x) => \E j \in 1..n : s[j] = y
  BY DEF Elements
<1>5. \A k \in 1..n + 1 : t[k] \in Pieces \/ IsGarbage(t[k])
  BY <1>2 DEF IsBeginning
<1>6. \A j, k \in 1..n + 1 : j < k => Ahead(t[j], t[k]) \/ (t[j] = t[k] /\ IsGarbage(t[j]))
  <2> TAKE j, k \in 1..n + 1
  <2> HAVE j < k
  <2>1. j \in 1..n /\ (k \in 1..n \/ k = n + 1)
    BY <1>2
  <2> QED
    BY <1>2, <1>3, <2>1 DEF IsBeginning
<1>7. \A y \in Pieces : \A k \in 1..n + 1 :
        Ahead(y, t[k]) => \E j \in 1..n + 1 : t[j] = y
  <2> TAKE y \in Pieces
  <2> TAKE k \in 1..n + 1
  <2> HAVE Ahead(y, t[k])
  <2>1. \E j \in 1..n : s[j] = y
    BY <1>2, <1>4 DEF IsBeginning
  <2> QED
    BY <1>2, <2>1
<1> QED
  BY <1>2, <1>5, <1>6, <1>7 DEF IsBeginning, t

\* What is lost at the end leaves a beginning.
LEMMA PrefixOfBeginning ==
  ASSUME entries \in Archives, NEW s \in Seq(Parts), NEW t \in Seq(Parts), IsBeginning(s \o t)
  PROVE  IsBeginning(s)
<1> DEFINE n == Len(s)
           u == s \o t
<1>1. /\ n \in Nat /\ Len(u) \in Nat /\ n <= Len(u)
      /\ \A k \in 1..n : u[k] = s[k] /\ k \in 1..Len(u) /\ s[k] \in Parts
  BY ConcatProperties
<1> HIDE DEF u
<1>2. IsBeginning(u)
  BY DEF u
<1>3. \A k \in 1..n : s[k] \in Pieces \/ IsGarbage(s[k])
  BY <1>1, <1>2 DEF IsBeginning
<1>4. \A j, k \in 1..n : j < k => Ahead(s[j], s[k]) \/ (s[j] = s[k] /\ IsGarbage(s[j]))
  BY <1>1, <1>2 DEF IsBeginning
<1>5. ASSUME NEW x \in Pieces, NEW k \in 1..n, Ahead(x, s[k])
      PROVE  \E j \in 1..n : s[j] = x
  <2>1. PICK j \in 1..Len(u) : u[j] = x
    BY <1>1, <1>2, <1>5 DEF IsBeginning
  <2>2. CASE j <= n
    BY <1>1, <2>1, <2>2
  <2>3. CASE j > n
    <3>a. k \in 1..Len(u) /\ k < j /\ s[k] \in Parts /\ x \in Parts
      BY <1>1, <2>3, PartFacts
    <3>1. Ahead(s[k], x) \/ s[k] = x
      BY <1>1, <1>2, <2>1, <3>a DEF IsBeginning
    <3> QED
      BY <1>5, <3>a, <3>1, PartFacts
  <2> QED
    BY <1>1, <2>1, <2>2, <2>3
<1> QED
  BY <1>3, <1>4, <1>5 DEF IsBeginning

LEMMA BeginningKept ==
  ASSUME UNCHANGED call
  PROVE  \A s : IsBeginning(s)' <=> IsBeginning(s)
BY CallKept DEF IsBeginning, Ahead, IsGarbage

LEMMA EmptyStream ==
  ASSUME entries' \in Archives, cli' = cli, Stream' = << >>, Extracting' => idx' = 1 /\ pc' = "extract"
  PROVE  Inv4' /\ Inv5'
<1>1. Elements(Stream') = {} /\ Len(Stream') = 0
  BY DEF Elements
<1>2. Extracting' => {x \in Pieces : Given(x)}' = {}
  <2> SUFFICES ASSUME Extracting', NEW x \in Pieces' PROVE ~Given(x)'
    OBVIOUS
  <2>1. x[1] \in Nat /\ x[1] # 0
    BY DEF Pieces, Parts
  <2> QED
    BY <2>1 DEF Given
<1>3. PipeHasNoGap'
  BY <1>1 DEF PipeHasNoGap, IsBeginning
<1> QED
  BY <1>1, <1>2, <1>3 DEF Inv4, Inv5

\* A step that writes nothing keeps what is true of the stream.
LEMMA StreamKept ==
  ASSUME Inv4, UNCHANGED call, Stream' = Stream,
         Extracting' => Extracting /\ idx' = idx /\ \A x \in Pieces : Given(x)' <=> Given(x)
  PROVE  Inv4'
<1>1. PipeHasNoGap'
  BY CallKept, BeginningKept DEF Inv4, PipeHasNoGap
<1>2. Extracting' /\ cli.pipe =>
        Elements(Stream') \ {<<idx', "garbage">>} = {x \in Pieces : Given(x)'}
  BY DEF Inv4
<1> QED
  BY <1>1, <1>2, CallKept DEF Inv4

\* What is decrypted with its own key is no garbage, nor is what lies behind.
LEMMA NoGarbage ==
  ASSUME Inv1, Inv5, ~cli.list, pc = "extract" \/ (AtWork /\ RightKey)
  PROVE  \A x \in Elements(Stream) : x[2] # "garbage"
<1>1. status = None /\ None # 1
  BY CliFacts DEF Inv1, TypeOK, AtWork
<1> QED
  BY <1>1 DEF Inv5, GarbageEnds, AtWork

\* The entry at work has given all it has.
LEMMA StreamPassed ==
  ASSUME Inv1, Inv4, Inv5, UNCHANGED call, Stream' = Stream, pc' = "extract", idx' = idx + 1,
         pc = "extract" \/ (pc = "check" /\ RightKey),
         \A x \in Pieces : x[1] = idx => Given(x)
  PROVE  Inv4'
<1>1. ~cli.list /\ idx \in Nat /\ entries \in Archives /\ Extracting
  BY EntriesFacts DEF Inv1, TypeOK, Control, Extracting
<1>2. PipeHasNoGap'
  BY CallKept, BeginningKept DEF Inv4, PipeHasNoGap
<1>3. \A x \in Elements(Stream) : x[2] # "garbage"
  BY <1>1, NoGarbage DEF AtWork
<1>4. \A x \in Pieces : Given(x)' <=> Given(x)
  <2> TAKE x \in Pieces
  <2>1. x[1] \in Nat
    BY <1>1, PartFacts
  <2>2. x[1] = idx \/ x[1] < idx \/ x[1] > idx
    BY <1>1, <2>1
  <2> QED
    BY <1>1, <2>1, <2>2 DEF Given
<1>5. cli.pipe => Elements(Stream) = {x \in Pieces : Given(x)}
  <2>1. <<idx, "garbage">> \notin Elements(Stream)
    BY <1>3
  <2> QED
    BY <1>1, <2>1 DEF Inv4
<1>6. <<idx', "garbage">> \notin Elements(Stream)
  BY <1>3
<1>7. cli.pipe => Elements(Stream') \ {<<idx', "garbage">>} = {x \in Pieces : Given(x)'}
  BY <1>4, <1>5, <1>6
<1>8. ~cli.list /\ ~cli.pipe => Stream' = << >>
  BY DEF Inv4
<1> QED
  BY <1>2, <1>7, <1>8, CallKept DEF Inv4

\* The entry at work gives its lines and its rest, in this order, or garbage.
LEMMA SendsFacts ==
  ASSUME Inv1, AtWork, NEW kind \in {"line", "rest"}, NEW piece \in Sends(kind)
  PROVE  /\ ~cli.pipe => piece = << >>
         /\ cli.pipe /\ RightKey =>
              piece = IF <<idx, kind>> \in Pieces THEN <<<<idx, kind>>>> ELSE << >>
         /\ cli.pipe /\ ~RightKey => piece \in {<< >>, <<<<idx, "garbage">>>>}
<1>1. /\ idx \in 1..Len(entries) /\ Entry.wanted /\ Entry = entries[idx]
      /\ <<idx, kind>> \in Parts
  BY EntryFacts DEF Inv1, Control, AtWork, TypeOK
<1>2. <<idx, kind>> \in Pieces <=> Entry[IF kind = "line" THEN "lines" ELSE "rest"]
  BY <1>1 DEF Pieces
<1> QED
  BY <1>2 DEF Sends

\* What is given grows by the piece of the entry at work.
LEMMA GivenGrows ==
  ASSUME Inv1, AtWork, UNCHANGED call, UNCHANGED <<idx, password>>, NEW kind \in {"line", "rest"},
         kind = "line" => pc = "lines" /\ pc' = "rest",
         kind = "rest" => pc = "rest" /\ pc' = "check",
         NEW x \in Pieces
  PROVE  /\ ~RightKey => (Given(x)' <=> Given(x)) /\ (Given(x) <=> x[1] < idx)
         /\ RightKey => /\ Given(x)' <=> Given(x) \/ x = <<idx, kind>>
                        /\ Given(x) <=> Ahead(x, <<idx, kind>>)
<1>1. idx \in 1..Len(entries) /\ Len(entries) \in Nat /\ entries \in Archives
  BY EntryFacts DEF Inv1, Control, AtWork, TypeOK
<1>2. x[1] \in 1..Len(entries) /\ x[2] \in {"line", "rest"} /\ x = <<x[1], x[2]>>
  BY <1>1, PartFacts
<1>3. RightKey' = RightKey
  BY CallKept
<1> QED
  BY <1>1, <1>2, <1>3 DEF Given, Ahead

\* A piece of an entry with its own key.
LEMMA PieceGiven ==
  ASSUME Inv1, Inv4, Inv5, AtWork, RightKey, cli.pipe, ~cli.list,
         UNCHANGED call, UNCHANGED <<idx, password>>, NEW kind \in {"line", "rest"},
         kind = "line" => pc = "lines" /\ pc' = "rest",
         kind = "rest" => pc = "rest" /\ pc' = "check",
         Stream' = Stream \o (IF <<idx, kind>> \in Pieces THEN <<<<idx, kind>>>> ELSE << >>)
  PROVE  Inv4'
<1>1. /\ entries \in Archives /\ Stream \in Seq(Parts) /\ IsBeginning(Stream)
      /\ idx \in 1..Len(entries) /\ <<idx, kind>> \in Parts
  BY StreamType, EntryFacts DEF Inv1, TypeOK, Inv4, PipeHasNoGap, AtWork
<1>2. \A x \in Elements(Stream) : x[2] # "garbage"
  BY NoGarbage
<1>3. Elements(Stream) = {x \in Pieces : Given(x)}
  <2>1. <<idx, "garbage">> \notin Elements(Stream)
    BY <1>2
  <2> QED
    BY <2>1 DEF Inv4, AtWork, Extracting
<1>4. \A x \in Pieces : /\ Given(x)' <=> Given(x) \/ x = <<idx, kind>>
                        /\ Given(x) <=> Ahead(x, <<idx, kind>>)
  BY GivenGrows
<1>5. IsBeginning(Stream') /\ Elements(Stream') = {x \in Pieces : Given(x)'}
  <2>1. CASE <<idx, kind>> \notin Pieces
    <3>1. Stream' = Stream
      BY <1>1, <2>1, ConcatEmptySeq
    <3> QED
      BY <1>1, <1>3, <1>4, <2>1, <3>1
  <2>2. CASE <<idx, kind>> \in Pieces
    <3>1. Stream' = Stream \o <<<<idx, kind>>>>
      BY <2>2
    <3>2. IsBeginning(Stream')
      <4> DEFINE x == <<idx, kind>>
      <4>1. x \in Parts /\ x \in Pieces
        BY <1>1, <2>2
      <4>2. \A y \in Elements(Stream) : Ahead(y, x) \/ (y = x /\ IsGarbage(x))
        BY <1>3, <1>4
      <4>3. \A y \in Pieces : Ahead(y, x) => y \in Elements(Stream)
        BY <1>3, <1>4
      <4> HIDE DEF x
      <4>4. IsBeginning(Stream \o <<x>>)
        BY <1>1, <4>1, <4>2, <4>3, AppendPiece
      <4> QED
        BY <3>1, <4>4 DEF x
    <3>3. Elements(Stream') = Elements(Stream) \cup {<<idx, kind>>}
      <4> DEFINE x == <<idx, kind>>
      <4>1. x \in Parts
        BY <1>1
      <4> HIDE DEF x
      <4>2. Elements(Stream \o <<x>>) = Elements(Stream) \cup {x}
        BY <1>1, <4>1, OneMore
      <4> QED
        BY <3>1, <4>2 DEF x
    <3> QED
      BY <1>3, <1>4, <2>2, <3>2, <3>3
  <2> QED
    BY <2>1, <2>2
<1>6. PipeHasNoGap'
  BY <1>5, CallKept, BeginningKept DEF PipeHasNoGap
<1>7. <<idx, "garbage">> \notin Elements(Stream')
  BY <1>1, <1>5, PartFacts
<1>8. Elements(Stream') \ {<<idx', "garbage">>} = {x \in Pieces : Given(x)'}
  BY <1>5, <1>7
<1> QED
  BY <1>6, <1>8, CallKept DEF Inv4

\* Garbage comes behind the entries before.
LEMMA GarbageGiven ==
  ASSUME Inv1, Inv4, AtWork, ~RightKey, cli.pipe, ~cli.list,
         UNCHANGED call, UNCHANGED <<idx, password>>, NEW kind \in {"line", "rest"},
         kind = "line" => pc = "lines" /\ pc' = "rest",
         kind = "rest" => pc = "rest" /\ pc' = "check",
         Stream' = Stream \o <<<<idx, "garbage">>>>
  PROVE  Inv4'
<1> DEFINE g == <<idx, "garbage">>
<1>1. /\ entries \in Archives /\ Stream \in Seq(Parts) /\ IsBeginning(Stream)
      /\ idx \in 1..Len(entries) /\ g \in Parts /\ IsGarbage(g) /\ idx \in Nat
  BY StreamType, EntryFacts DEF Inv1, TypeOK, Inv4, PipeHasNoGap, AtWork, Control, IsGarbage
<1>2. Elements(Stream) \ {g} = {x \in Pieces : Given(x)}
  BY DEF Inv4, AtWork, Extracting
<1>3. \A x \in Pieces : (Given(x)' <=> Given(x)) /\ (Given(x) <=> x[1] < idx)
  BY GivenGrows
<1>4. \A x \in Pieces : Ahead(x, g) <=> x[1] < idx
  BY DEF Ahead
<1>5. IsBeginning(Stream')
  <2>1. \A y \in Elements(Stream) : Ahead(y, g) \/ (y = g /\ IsGarbage(g))
    BY <1>1, <1>2, <1>3, <1>4
  <2>2. \A y \in Pieces : Ahead(y, g) => y \in Elements(Stream)
    BY <1>2, <1>3, <1>4
  <2> HIDE DEF g
  <2>3. IsBeginning(Stream \o <<g>>)
    BY <1>1, <2>1, <2>2, AppendPiece
  <2> QED
    BY <2>3 DEF g
<1>6. Elements(Stream') \ {g} = Elements(Stream) \ {g}
  <2> HIDE DEF g
  <2>1. Elements(Stream \o <<g>>) = Elements(Stream) \cup {g}
    BY <1>1, OneMore
  <2>2. Stream' = Stream \o <<g>>
    BY DEF g
  <2> QED
    BY <2>1, <2>2
<1>7. PipeHasNoGap'
  BY <1>5, CallKept, BeginningKept DEF PipeHasNoGap
<1>8. Elements(Stream') \ {<<idx', "garbage">>} = {x \in Pieces : Given(x)'}
  BY <1>2, <1>3, <1>6
<1> QED
  BY <1>7, <1>8, CallKept DEF Inv4

LEMMA PieceWritten ==
  ASSUME Inv1
  PROVE  /\ WriteLines => \E piece \in Sends("line") : Stream' = Stream \o piece
         /\ WriteRest => \E piece \in Sends("rest") : Stream' = Stream \o piece
<1>1. TypeOK /\ Stream \in Seq(Parts) /\ got \in Seq(Parts) /\ buffer \in Seq(Parts)
  BY StreamType DEF Inv1
<1>2. ASSUME WriteLines PROVE \E piece \in Sends("line") : Stream' = Stream \o piece
  <2>1. CASE << >> \in Sends("line") /\ UNCHANGED <<buffer, got>>
    <3>1. Stream' = Stream /\ Stream \o << >> = Stream
      BY <1>1, <2>1, ConcatEmptySeq DEF Stream
    <3> QED
      BY <2>1, <3>1
  <2>2. ASSUME NEW piece \in Sends("line"), got' = got \o buffer \o piece, buffer' = << >>
        PROVE  Stream' = Stream \o piece
    <3>1. piece \in Seq(Parts)
      BY <1>1, <1>2, SendsSeq DEF WriteLines, TypeOK
    <3>2. Stream \o piece \in Seq(Parts)
      BY <1>1, <3>1, ConcatProperties
    <3> QED
      BY <2>2, <3>2, ConcatEmptySeq DEF Stream
  <2> QED
    BY <1>2, <2>1, <2>2 DEF WriteLines
<1>3. ASSUME WriteRest PROVE \E piece \in Sends("rest") : Stream' = Stream \o piece
  <2>1. PICK piece \in Sends("rest") : buffer' = buffer \o piece /\ got' = got
    BY <1>3 DEF WriteRest
  <2>2. piece \in Seq(Parts)
    BY <1>1, <1>3, <2>1, SendsSeq DEF WriteRest, TypeOK
  <2>3. (got \o buffer) \o piece = got \o (buffer \o piece)
    BY <1>1, <2>2, ConcatAssociative
  <2> QED
    BY <2>1, <2>3 DEF Stream
<1> QED
  BY <1>2, <1>3

LEMMA PieceKept ==
  ASSUME Inv1, Inv4, Inv5, AtWork,
         UNCHANGED call, UNCHANGED <<idx, password>>, NEW kind \in {"line", "rest"},
         kind = "line" => pc = "lines" /\ pc' = "rest",
         kind = "rest" => pc = "rest" /\ pc' = "check",
         NEW piece \in Sends(kind), Stream' = Stream \o piece
  PROVE  Inv4'
<1>1. ~cli.list /\ cli.pipe \in BOOLEAN /\ Stream \in Seq(Parts)
  BY StreamType, CliFacts DEF Inv1, TypeOK, Control, AtWork, Extracting
<1>2. piece = << >> => Stream' = Stream
  BY <1>1, ConcatEmptySeq
<1>3. CASE ~cli.pipe
  <2>1. Stream' = Stream
    BY <1>2, <1>3, SendsFacts
  <2>2. PipeHasNoGap'
    BY <1>3, CallKept DEF PipeHasNoGap
  <2> QED
    BY <1>3, <2>1, <2>2, CallKept DEF Inv4
<1>4. CASE cli.pipe /\ RightKey
  BY <1>1, <1>4, SendsFacts, PieceGiven
<1>5. CASE cli.pipe /\ ~RightKey
  <2>1. CASE piece = << >>
    <3>1. \A x \in Pieces : Given(x)' <=> Given(x)
      BY <1>5, GivenGrows
    <3> QED
      BY <1>2, <2>1, <3>1, StreamKept DEF AtWork, Extracting
  <2>2. CASE piece # << >>
    <3>1. piece = <<<<idx, "garbage">>>>
      BY <1>5, <2>2, SendsFacts
    <3> QED
      BY <1>1, <1>5, <3>1, GarbageGiven
  <2> QED
    BY <2>1, <2>2
<1> QED
  BY <1>1, <1>3, <1>4, <1>5

\* The runtime hands over what was kept, or drops it.
LEMMA Flushing ==
  ASSUME Inv1, FlushAndExit
  PROVE  /\ got' = got \/ (reader = "open" /\ got' = Stream)
         /\ Stream' = got'
         /\ UNCHANGED call /\ UNCHANGED <<reader, idx, password, delivered, status>>
         /\ pc = "exiting" /\ pc' = "exited" /\ buffer' = << >>
<1>1. got \in Seq(Parts) /\ Stream \in Seq(Parts)
  BY StreamType DEF Inv1
<1>2. /\ got' = got \/ (reader = "open" /\ got' = Stream)
      /\ UNCHANGED call /\ UNCHANGED <<reader, idx, password, delivered, status>>
      /\ pc = "exiting" /\ pc' = "exited" /\ buffer' = << >>
  BY DEF FlushAndExit, Flushed, Stream
<1>3. Stream' = got' \o << >>
  BY <1>2 DEF Stream
<1>4. got' \in Seq(Parts)
  BY <1>1, <1>2
<1> QED
  BY <1>2, <1>3, <1>4, ConcatEmptySeq

LEMMA Inv4Init == Init => Inv4 /\ Inv5 /\ Inv6
<1> SUFFICES ASSUME Init PROVE Inv4 /\ Inv5 /\ Inv6
  OBVIOUS
<1>1. /\ Stream = << >> /\ Len(Stream) = 0 /\ buffer = << >> /\ Elements(Stream) = {}
      /\ Elements(buffer) = {} /\ ~Extracting /\ pc = "open"
  BY DEF Init, Stream, Elements, Extracting
<1>2. PipeHasNoGap
  BY <1>1 DEF PipeHasNoGap, IsBeginning
<1> QED
  BY <1>1, <1>2 DEF Inv4, Inv5, Inv6, SuccessIsReceived

LEMMA Inv4Next == Inv1 /\ Inv4 /\ Inv5 /\ [Next \/ Done]_vars => Inv4'
<1> SUFFICES ASSUME Inv1, Inv4, Inv5, [Next \/ Done]_vars PROVE Inv4'
  OBVIOUS
<1>t. TypeOK /\ Control /\ Len(entries) \in Nat /\ entries \in Archives /\ idx \in Nat
      /\ cli.pipe \in BOOLEAN
  BY EntriesFacts, CliFacts DEF Inv1, TypeOK
<1>u. UNCHANGED <<got, buffer>> => Stream' = Stream
  BY DEF Stream
<1>1. CASE OpenArchive \/ OpenFails \/ PromptFails
  BY <1>1, <1>u, StreamKept DEF OpenArchive, OpenFails, PromptFails, Exit, Extracting
<1>2. CASE ListEntry
  <2>1. UNCHANGED call /\ cli.list /\ pc' \in {"list", "exiting"}
    BY <1>2, <1>t, ListStays DEF ListEntry, Control
  <2> QED
    BY <2>1, CallKept DEF Inv4, PipeHasNoGap, Extracting
<1>3. ASSUME UNCHANGED call, UNCHANGED <<got, buffer, idx>>, pc \in {"password", "prompt"},
             pc' \in {"prompt", "extract", "exiting"}
      PROVE  Inv4'
  <2>1. Stream' = << >> /\ idx' = 1 /\ entries' \in Archives /\ cli' = cli
    BY <1>3, <1>t, CallKept DEF Control, Silent, Stream
  <2> QED
    BY <1>3, <2>1, EmptyStream DEF Extracting
<1>4. CASE GetPassword
  BY <1>3, <1>4 DEF GetPassword
<1>5. ASSUME NEW pw \in Passwords, Prompt(pw) PROVE Inv4'
  <2>1. /\ UNCHANGED call /\ UNCHANGED <<got, buffer, idx>>
        /\ pc = "prompt" /\ pc' \in {"prompt", "extract", "exiting"}
    BY <1>5 DEF Prompt, Exit
  <2> QED
    BY <1>3, <2>1
<1>6. CASE SkipEntry \/ TakeBare
  <2>1. /\ UNCHANGED call /\ UNCHANGED <<got, buffer>> /\ pc = "extract" /\ pc' = "extract"
        /\ idx' = idx + 1 /\ idx <= Len(entries)
        /\ ~entries[idx].wanted \/ entries[idx].content # "data"
    BY <1>6 DEF SkipEntry, TakeBare, AtWanted, AtEntry, Entry
  <2>2. IsEntry(entries[idx])
    BY <1>t, <2>1, EntryFacts
  <2>3. ASSUME NEW x \in Pieces, x[1] = idx PROVE FALSE
    BY <2>1, <2>2, <2>3 DEF Pieces, IsEntry
  <2> QED
    BY <1>u, <2>1, <2>3, StreamPassed
<1>7. CASE StartEntry
  <2>1. /\ UNCHANGED call /\ UNCHANGED <<got, buffer, idx, password>> /\ pc = "extract"
        /\ pc' \in {"lines", "exiting"}
    BY <1>7 DEF StartEntry, AtWanted, AtEntry, Fail, Exit
  <2>2. \A x \in Pieces : pc' = "lines" => (Given(x)' <=> Given(x))
    BY <2>1 DEF Given
  <2> QED
    BY <1>u, <2>1, <2>2, StreamKept DEF Extracting
<1>8. CASE WriteLines
  <2>1. /\ UNCHANGED call /\ UNCHANGED <<idx, password>> /\ pc = "lines" /\ pc' = "rest" /\ AtWork
        /\ "line" \in {"line", "rest"}
    BY <1>8 DEF WriteLines, AtWork
  <2>2. PICK piece \in Sends("line") : Stream' = Stream \o piece
    BY <1>8, PieceWritten
  <2> QED
    BY <2>1, <2>2, PieceKept
<1>9. CASE WriteRest
  <2>1. /\ UNCHANGED call /\ UNCHANGED <<idx, password>> /\ pc = "rest" /\ pc' = "check" /\ AtWork
        /\ "rest" \in {"line", "rest"}
    BY <1>9 DEF WriteRest, AtWork
  <2>2. PICK piece \in Sends("rest") : Stream' = Stream \o piece
    BY <1>9, PieceWritten
  <2> QED
    BY <2>1, <2>2, PieceKept
<1>10. CASE EntryFails \/ EndOfEntries \/ WriteFails \/ BlocksLost
  <2>1. UNCHANGED call /\ UNCHANGED <<got, buffer>> /\ pc' = "exiting"
    BY <1>10 DEF EntryFails, EndOfEntries, WriteFails, BlocksLost, Fail, Exit
  <2> QED
    BY <1>u, <2>1, StreamKept DEF Extracting
<1>11. CASE CheckEntry
  <2>1. UNCHANGED call /\ UNCHANGED <<got, buffer>> /\ pc = "check"
    BY <1>11 DEF CheckEntry
  <2>2. CASE CrcMatches
    <3>1. pc' = "extract" /\ idx' = idx + 1 /\ RightKey
      BY <1>11, <2>2 DEF CheckEntry, CrcMatches
    <3>2. \A x \in Pieces : x[1] = idx => Given(x)
      BY <2>1, <3>1 DEF Given
    <3> QED
      BY <1>u, <2>1, <3>1, <3>2, StreamPassed
  <2>3. CASE ~CrcMatches
    <3>1. pc' = "exiting"
      BY <1>11, <2>3 DEF CheckEntry, Fail, Exit
    <3> QED
      BY <1>u, <2>1, <3>1, StreamKept DEF Extracting
  <2> QED
    BY <2>2, <2>3
<1>12. CASE FlushAndExit
  <2>1. CASE Stream' = Stream
    BY <1>12, <2>1, Flushing, StreamKept DEF Extracting
  <2>2. CASE Stream' = got
    <3>1. cli.pipe /\ ~cli.list => IsBeginning(got)
      BY <1>t, StreamType, PrefixOfBeginning DEF Inv4, PipeHasNoGap, Stream
    <3>2. ~cli.list /\ ~cli.pipe => got = << >>
      BY <1>t, StreamType, ConcatEqualIffEmpty DEF Inv4, Stream
    <3>3. UNCHANGED call /\ pc' = "exited"
      BY <1>12, Flushing
    <3>4. PipeHasNoGap'
      BY <2>2, <3>1, <3>3, CallKept, BeginningKept DEF PipeHasNoGap
    <3> QED
      BY <2>2, <3>2, <3>3, <3>4, CallKept DEF Inv4, Extracting
  <2> QED
    BY <1>12, <2>1, <2>2, Flushing
<1>13. CASE ReaderStops \/ UNCHANGED vars
  <2>1. UNCHANGED call /\ UNCHANGED <<got, buffer, idx, pc, password>>
    BY <1>13 DEF ReaderStops, vars
  <2>2. \A x \in Pieces : Given(x)' <=> Given(x)
    BY <2>1, CallKept DEF Given
  <2> QED
    BY <1>u, <2>1, <2>2, StreamKept DEF Extracting
<1> QED
  BY <1>1, <1>2, <1>4, <1>5, <1>6, <1>7, <1>8, <1>9, <1>10, <1>11, <1>12, <1>13
     DEF Next, Steps, Done

\* Where no more is written: the garbage so far is still of the entry at work.
LEMMA GarbageKept ==
  ASSUME Inv5, UNCHANGED call, UNCHANGED <<idx, password>>,
         Elements(Stream') \subseteq Elements(Stream), GarbageEnds => GarbageEnds'
  PROVE  Inv5'
BY CallKept DEF Inv5

\* The program ends with an error, or because its reader has left.
LEMMA GarbageAtEnd ==
  ASSUME Inv5, UNCHANGED call, UNCHANGED <<idx, password, got, buffer>>, pc' = "exiting",
         status' = 1 \/ reader' = "closed"
  PROVE  Inv5'
<1>1. Stream' = Stream
  BY DEF Stream
<1>2. GarbageEnds => GarbageEnds'
  BY CallKept DEF GarbageEnds
<1> QED
  BY <1>1, <1>2, GarbageKept

\* There is no garbage, and the next entry begins.
LEMMA GarbageBehind ==
  ASSUME Inv1, Inv5, UNCHANGED call, Stream' = Stream, idx' = idx + 1,
         pc = "extract" \/ (AtWork /\ RightKey)
  PROVE  Inv5'
<1>1. ~cli.list => /\ \A x \in Elements(Stream) : x[2] # "garbage" /\ x[1] <= idx /\ x[1] \in Nat
                   /\ idx \in Nat
  <2>1. Elements(Stream) \subseteq Parts /\ entries \in Archives /\ idx \in Nat
    BY StreamType DEF Inv1, TypeOK, Elements
  <2> QED
    BY <2>1, NoGarbage, PartFacts DEF Inv5
<1> QED
  BY <1>1, CallKept DEF Inv5

LEMMA GarbageWritten ==
  ASSUME Inv1, Inv5, AtWork, AtWork', UNCHANGED call, UNCHANGED <<idx, password>>,
         NEW kind \in {"line", "rest"}, NEW piece \in Sends(kind), Stream' = Stream \o piece
  PROVE  Inv5'
<1>1. /\ Stream \in Seq(Parts) /\ piece \in Seq(Parts) /\ idx \in Nat
      /\ Entry.footer => RightKey
  BY StreamType, SendsSeq DEF Inv1, TypeOK, Control, AtWork
<1>2. Elements(Stream') = Elements(Stream) \cup Elements(piece)
  BY <1>1, ElementsOfBoth
<1>3. GarbageEnds => GarbageEnds'
  BY CallKept DEF GarbageEnds
<1>4. \A x \in Elements(piece) : x[1] = idx /\ (x[2] = "garbage" => ~RightKey)
  <2>1. \A x : x = <<idx, kind>> \/ x = <<idx, "garbage">> => x[1] = idx
    OBVIOUS
  <2>2. CASE piece = << >>
    BY <2>2 DEF Elements
  <2>3. CASE piece = <<<<idx, kind>>>>
    BY <2>1, <2>3 DEF Elements
  <2>4. CASE piece = <<<<idx, "garbage">>>> /\ piece # << >>
    <3>1. ~RightKey
      <4> SUFFICES ASSUME RightKey PROVE FALSE
        OBVIOUS
      <4>1. piece = <<<<idx, kind>>>>
        BY <2>4, SendsFacts, CliFacts DEF Inv1, TypeOK
      <4> QED
        BY <2>4, <4>1
    <3> QED
      BY <2>1, <2>4, <3>1 DEF Elements
  <2> QED
    BY <1>1, <2>2, <2>3, <2>4, SendsType DEF Inv1, TypeOK, AtWork
<1>5. ~RightKey => GarbageEnds'
  BY <1>1, CallKept DEF GarbageEnds
<1> QED
  BY <1>1, <1>2, <1>3, <1>4, <1>5, CallKept DEF Inv5

LEMMA Inv5Next == Inv1 /\ Inv5 /\ [Next \/ Done]_vars => Inv5'
<1> SUFFICES ASSUME Inv1, Inv5, [Next \/ Done]_vars PROVE Inv5'
  OBVIOUS
<1>t. TypeOK /\ Control /\ entries \in Archives
  BY DEF Inv1, TypeOK
<1>u. UNCHANGED <<got, buffer>> => Stream' = Stream
  BY DEF Stream
<1>f. \A why : Fail(why) => pc' = "exiting" /\ (why # "broken pipe" => status' = 1)
  BY DEF Fail, Exit
<1>1. ASSUME UNCHANGED call, Stream' = << >> PROVE Inv5'
  BY <1>1 DEF Inv5, Elements
<1>2. CASE OpenArchive \/ OpenFails \/ PromptFails \/ GetPassword \/ \E pw \in Passwords : Prompt(pw)
  <2>1. UNCHANGED call /\ UNCHANGED <<got, buffer>> /\ pc \in {"open", "password", "prompt"}
    BY <1>2 DEF OpenArchive, OpenFails, PromptFails, GetPassword, Prompt
  <2>2. Stream' = << >>
    BY <1>t, <2>1 DEF Control, Silent, Stream
  <2> QED
    BY <1>1, <2>1, <2>2
<1>3. CASE ListEntry
  BY <1>3, <1>t, CallKept DEF ListEntry, Control, Inv5
<1>4. CASE SkipEntry \/ TakeBare
  <2>1. UNCHANGED call /\ UNCHANGED <<got, buffer>> /\ pc = "extract" /\ idx' = idx + 1
    BY <1>4 DEF SkipEntry, TakeBare, AtWanted, AtEntry
  <2> QED
    BY <1>u, <2>1, GarbageBehind
<1>5. CASE StartEntry
  <2>1. /\ UNCHANGED call /\ UNCHANGED <<got, buffer, idx, password>> /\ pc = "extract"
        /\ cli' = cli
    BY <1>5, CallKept DEF StartEntry, AtWanted, AtEntry
  <2>2. ~cli.list => \A x \in Elements(Stream) : x[2] # "garbage"
    BY <2>1, NoGarbage
  <2> QED
    BY <1>u, <2>1, <2>2 DEF Inv5
<1>6. CASE WriteLines
  <2>1. /\ UNCHANGED call /\ UNCHANGED <<idx, password>> /\ AtWork /\ AtWork'
        /\ "line" \in {"line", "rest"}
    BY <1>6 DEF WriteLines, AtWork
  <2>2. PICK piece \in Sends("line") : Stream' = Stream \o piece
    BY <1>6, PieceWritten
  <2> QED
    BY <2>1, <2>2, GarbageWritten
<1>7. CASE WriteRest
  <2>1. /\ UNCHANGED call /\ UNCHANGED <<idx, password>> /\ AtWork /\ AtWork'
        /\ "rest" \in {"line", "rest"}
    BY <1>7 DEF WriteRest, AtWork
  <2>2. PICK piece \in Sends("rest") : Stream' = Stream \o piece
    BY <1>7, PieceWritten
  <2> QED
    BY <2>1, <2>2, GarbageWritten
<1>8. CASE WriteFails
  <2>1. /\ UNCHANGED call /\ UNCHANGED <<got, buffer, idx, password, reader>> /\ pc' = "exiting"
        /\ reader # "open" /\ (reader = "full" => status' = 1)
    BY <1>8 DEF WriteFails, Fail, Exit
  <2>2. reader \in {"open", "closed", "full"}
    BY <1>t DEF TypeOK
  <2> QED
    BY <2>1, <2>2, GarbageAtEnd
<1>9. CASE EntryFails \/ BlocksLost
  <2>1. /\ UNCHANGED call /\ UNCHANGED <<got, buffer, idx, password, reader>>
        /\ \E why \in {"data", "corrupted"} : Fail(why)
    BY <1>9 DEF EntryFails, BlocksLost
  <2> QED
    BY <1>f, <2>1, GarbageAtEnd
<1>10. CASE CheckEntry
  <2>1. UNCHANGED call /\ UNCHANGED <<got, buffer, password, reader>> /\ AtWork
    BY <1>10 DEF CheckEntry, AtWork
  <2>2. CASE CrcMatches
    BY <1>10, <1>u, <2>1, <2>2, GarbageBehind DEF CheckEntry, CrcMatches
  <2>3. CASE ~CrcMatches
    <3>1. idx' = idx /\ pc' = "exiting" /\ status' = 1
      BY <1>10, <2>3 DEF CheckEntry, Fail, Exit
    <3> QED
      BY <2>1, <3>1, GarbageAtEnd
  <2> QED
    BY <2>2, <2>3
<1>11. CASE EndOfEntries
  <2>1. /\ UNCHANGED call /\ UNCHANGED <<got, buffer, idx, password>> /\ pc = "extract"
        /\ cli' = cli
    BY <1>11, CallKept DEF EndOfEntries
  <2>2. ~cli.list => \A x \in Elements(Stream) : x[2] # "garbage"
    BY <2>1, NoGarbage
  <2> QED
    BY <1>u, <2>1, <2>2 DEF Inv5
<1>12. CASE FlushAndExit
  <2>1. /\ UNCHANGED call /\ UNCHANGED <<reader, idx, password, status>>
        /\ pc = "exiting" /\ pc' = "exited"
        /\ Stream' = Stream \/ Stream' = got
    BY <1>12, Flushing
  <2>2. Elements(got) \subseteq Elements(Stream)
    BY <1>t, StreamType, ElementsOfBoth DEF Stream
  <2>3. GarbageEnds => GarbageEnds'
    BY <2>1, CallKept DEF GarbageEnds, AtWork
  <2> QED
    BY <2>1, <2>2, <2>3, GarbageKept
<1>13. CASE ReaderStops \/ UNCHANGED vars
  <2>1. /\ UNCHANGED call /\ UNCHANGED <<got, buffer, idx, pc, password, status>>
        /\ reader = "closed" => reader' = "closed"
    BY <1>13 DEF ReaderStops, vars
  <2>2. GarbageEnds => GarbageEnds'
    BY <2>1, CallKept DEF GarbageEnds, AtWork
  <2> QED
    BY <1>u, <2>1, <2>2, GarbageKept
<1> QED
  BY <1>2, <1>3, <1>4, <1>5, <1>6, <1>7, <1>8, <1>9, <1>10, <1>11, <1>12, <1>13
     DEF Next, Steps, Done

-----------------------------------------------------------------------------
(* What is received.                                                        *)

\* Before the end there is nothing to say but of the buffer.
LEMMA NotYet ==
  ASSUME Inv6, UNCHANGED call, UNCHANGED buffer,
         pc' \notin {"exiting", "exited"} \/ cli.list \/ (pc' = "exiting" /\ (status' = 1 \/ reader' = "closed"))
  PROVE  Inv6'
BY CallKept DEF Inv6, SuccessIsReceived

\* What waits in the buffer when the process ends are rests; of those that are
\* lost none has a line behind it, for this one would have pushed it out.
LEMMA LostIsLate ==
  ASSUME Inv1, Inv4, Inv6, cli.pipe, ~cli.list, Pieces \subseteq Elements(Stream),
         NEW x \in Pieces, x \notin Elements(got)
  PROVE  LateRest(x)
<1> DEFINE n == Len(got)
<1>1. /\ entries \in Archives /\ got \in Seq(Parts) /\ buffer \in Seq(Parts)
      /\ IsBeginning(Stream) /\ n \in Nat /\ Len(buffer) \in Nat /\ Len(Stream) = n + Len(buffer)
      /\ \A k \in 1..n : Stream[k] = got[k]
      /\ \A k \in 1..Len(buffer) : Stream[n + k] = buffer[k]
  BY StreamType, ConcatProperties DEF Inv1, TypeOK, Inv4, PipeHasNoGap, Stream
<1>2. \A k \in 1..Len(buffer) : buffer[k][2] # "line"
  BY DEF Inv6, Elements
<1>3. PICK i \in 1..Len(Stream) : Stream[i] = x
  BY DEF Elements
<1>4. i > n
  BY <1>1, <1>3 DEF Elements
<1>5. x[2] # "line"
  <2>1. i - n \in 1..Len(buffer) /\ i = n + (i - n)
    BY <1>1, <1>4
  <2>2. Stream[i] = buffer[i - n]
    BY <1>1, <2>1
  <2> QED
    BY <1>2, <1>3, <2>1, <2>2
<1>6. x[2] = "rest"
  BY <1>1, <1>5, PartFacts
<1>7. ASSUME NEW y \in Pieces, y[2] = "line" PROVE Ahead(y, x)
  <2>1. PICK j \in 1..Len(Stream) : Stream[j] = y
    BY DEF Elements
  <2>2. j <= n
    <3> SUFFICES ASSUME j > n PROVE FALSE
      BY <1>1, <2>1
    <3>1. j - n \in 1..Len(buffer) /\ j = n + (j - n)
      BY <1>1
    <3>2. Stream[j] = buffer[j - n]
      BY <1>1, <3>1
    <3> QED
      BY <1>2, <1>7, <2>1, <3>1, <3>2
  <2>3. j < i
    BY <1>1, <1>3, <1>4, <2>1, <2>2
  <2>4. y # x
    BY <1>5, <1>7
  <2> QED
    BY <1>1, <1>3, <2>1, <2>3, <2>4 DEF IsBeginning
<1> QED
  BY <1>6, <1>7 DEF LateRest

\* The places of a piece do not depend on the state of the output.
LEMMA LateKept ==
  ASSUME UNCHANGED call
  PROVE  \A x : LateRest(x)' <=> LateRest(x)
BY CallKept DEF LateRest, Ahead

LEMMA Inv6Next == Inv1 /\ Inv4 /\ Inv5 /\ Inv6 /\ [Next \/ Done]_vars => Inv6'
<1> SUFFICES ASSUME Inv1, Inv4, Inv5, Inv6, [Next \/ Done]_vars PROVE Inv6'
  OBVIOUS
<1>t. /\ TypeOK /\ Control /\ entries \in Archives /\ None # 0 /\ None # 1
      /\ Len(entries) \in Nat /\ idx \in 1..Len(entries) + 1
  BY EntriesFacts, CliFacts DEF Inv1, TypeOK
<1>1. CASE OpenArchive \/ OpenFails \/ PromptFails \/ GetPassword \/ \E pw \in Passwords : Prompt(pw)
  <2>1. /\ UNCHANGED call /\ UNCHANGED buffer
        /\ pc' \in {"list", "password", "prompt", "extract"} \/ (pc' = "exiting" /\ status' = 1)
    <3>1. CASE OpenArchive \/ OpenFails \/ PromptFails \/ GetPassword
      BY <3>1 DEF OpenArchive, OpenFails, PromptFails, GetPassword, Exit
    <3>2. ASSUME NEW pw \in Passwords, Prompt(pw)
          PROVE  /\ UNCHANGED call /\ UNCHANGED buffer
                 /\ pc' \in {"prompt", "extract"} \/ (pc' = "exiting" /\ status' = 1)
      BY <3>2 DEF Prompt, Exit
    <3> QED
      BY <1>1, <3>1, <3>2
  <2> QED
    BY <2>1, NotYet
<1>2. CASE ListEntry
  BY <1>2, <1>t, NotYet DEF ListEntry, Control
<1>3. CASE SkipEntry \/ TakeBare
  BY <1>3, NotYet DEF SkipEntry, TakeBare, AtWanted, AtEntry
<1>4. CASE StartEntry
  <2>1. Refusal # "broken pipe"
    BY <1>4, <1>t, RefusalFacts DEF StartEntry, AtWanted, AtEntry
  <2>2. pc' = "lines" \/ (pc' = "exiting" /\ status' = 1)
    BY <1>4, <2>1 DEF StartEntry, Fail, Exit
  <2> QED
    BY <1>4, <2>2, NotYet DEF StartEntry
<1>5. CASE WriteLines
  <2>1. CASE UNCHANGED buffer
    BY <1>5, <2>1, NotYet DEF WriteLines
  <2>2. CASE buffer' = << >>
    <3>1. Elements(buffer') = {}
      BY <2>2 DEF Elements
    <3> QED
      BY <1>5, <3>1 DEF WriteLines, Inv6, SuccessIsReceived
  <2> QED
    BY <1>5, <2>1, <2>2 DEF WriteLines
<1>6. CASE WriteRest
  <2>1. PICK piece \in Sends("rest") : buffer' = buffer \o piece
    BY <1>6 DEF WriteRest
  <2>2. /\ UNCHANGED call /\ pc' = "check" /\ ~cli.list
        /\ piece \in Seq(Parts) /\ buffer \in Seq(Parts) /\ idx <= Len(entries)
    BY <1>6, <1>t, <2>1, SendsSeq, StreamType DEF WriteRest, TypeOK, Control, Extracting
  <2>3. Elements(buffer') = Elements(buffer) \cup Elements(piece)
    BY <2>1, <2>2, ElementsOfBoth
  <2>4. \A y \in Elements(piece) : y[2] # "line"
    <3>1. piece = << >> \/ piece = <<<<idx, "rest">>>> \/ piece = <<<<idx, "garbage">>>>
      BY <1>t, <2>1, <2>2, SendsType
    <3> QED
      BY <3>1 DEF Elements
  <2> QED
    BY <2>2, <2>3, <2>4, CallKept DEF Inv6, SuccessIsReceived
<1>7. CASE WriteFails
  <2>1. /\ UNCHANGED call /\ UNCHANGED <<buffer, reader>> /\ pc' = "exiting"
        /\ reader # "open" /\ (reader = "full" => status' = 1)
    BY <1>7 DEF WriteFails, Fail, Exit
  <2>2. reader \in {"open", "closed", "full"}
    BY <1>t DEF TypeOK
  <2> QED
    BY <2>1, <2>2, NotYet
<1>8. CASE EntryFails \/ BlocksLost
  BY <1>8, NotYet DEF EntryFails, BlocksLost, Fail, Exit
<1>9. CASE CheckEntry
  <2>1. pc' = "extract" \/ (pc' = "exiting" /\ status' = 1)
    BY <1>9 DEF CheckEntry, Fail, Exit
  <2> QED
    BY <1>9, <2>1, NotYet DEF CheckEntry
<1>10. CASE EndOfEntries
  <2>1. /\ UNCHANGED call /\ UNCHANGED <<got, buffer>> /\ pc' = "exiting" /\ pc = "extract"
        /\ idx > Len(entries) /\ Stream' = Stream
    BY <1>10 DEF EndOfEntries, Fail, Exit, Stream
  <2>2. \A x \in Pieces : Given(x)
    BY <1>t, <2>1, PartFacts DEF Given
  <2>3. cli.pipe => Pieces \subseteq Elements(Stream)
    BY <2>1, <2>2 DEF Inv4, Extracting
  <2> QED
    BY <2>1, <2>3, CallKept DEF Inv6, SuccessIsReceived
<1>11. CASE FlushAndExit
  <2>1. /\ got' = got \/ (reader = "open" /\ got' = Stream)
        /\ UNCHANGED call /\ UNCHANGED <<reader, status>>
        /\ pc = "exiting" /\ pc' = "exited" /\ Elements(buffer') = {}
    BY <1>11, Flushing DEF Elements
  <2>2. SuccessIsReceived'
    <3> SUFFICES ASSUME cli.pipe, ~cli.list, status = 0, reader # "closed",
                        NEW x \in Pieces, x \notin Elements(got')
                 PROVE  reader = "full" /\ LateRest(x)
      BY <2>1, CallKept, LateKept DEF SuccessIsReceived, Received, Elements
    <3>1. Pieces \subseteq Elements(Stream)
      BY <2>1 DEF Inv6
    <3>2. got' = got
      BY <2>1, <3>1
    <3>3. reader # "open"
      <4> SUFFICES ASSUME reader = "open" PROVE FALSE
        OBVIOUS
      <4>1. got' = Stream
        BY <1>11, <1>t, StreamType DEF FlushAndExit, Flushed, Stream
      <4> QED
        BY <3>1, <4>1
    <3>4. reader = "full"
      BY <1>t, <3>3 DEF TypeOK
    <3> QED
      BY <3>1, <3>2, <3>4, LostIsLate
  <2> QED
    BY <2>1, <2>2 DEF Inv6
<1>12. CASE ReaderStops \/ UNCHANGED vars
  <2>1. /\ UNCHANGED call /\ UNCHANGED <<got, buffer, pc, status>> /\ Stream' = Stream
        /\ reader' = reader \/ reader = "open"
    BY <1>12 DEF ReaderStops, vars, Stream
  <2>2. SuccessIsReceived'
    BY <2>1, CallKept, LateKept DEF Inv6, SuccessIsReceived, Received
  <2>3. cli.pipe /\ ~cli.list /\ pc' = "exiting" /\ status' = 0 /\ reader' # "closed" =>
          Pieces \subseteq Elements(Stream')
    BY <2>1 DEF Inv6
  <2> QED
    BY <2>1, <2>2, <2>3, CallKept DEF Inv6
<1> QED
  BY <1>1, <1>2, <1>3, <1>4, <1>5, <1>6, <1>7, <1>8, <1>9, <1>10, <1>11, <1>12
     DEF Next, Steps, Done

-----------------------------------------------------------------------------

LEMMA InvAlways == Spec => [](Inv1 /\ Inv2 /\ Inv3 /\ Inv4 /\ Inv5 /\ Inv6)
<1> DEFINE IInv == Inv1 /\ Inv2 /\ Inv3 /\ Inv4 /\ Inv5 /\ Inv6
<1>1. Init => IInv
  BY Inv1Init, Inv2Init, Inv3Init, Inv4Init
<1>2. IInv /\ [Next \/ Done]_vars => IInv'
  BY Inv1Next, Inv2Next, Inv3Next, Inv4Next, Inv5Next, Inv6Next
<1> QED
  BY <1>1, <1>2, PTL DEF Spec

\* run never reads an entry that is not there nor asks a fourth time, and has an
\* exit status exactly when it ends.
THEOREM SessionTypeOK == Spec => []TypeOK
<1>1. Inv1 => TypeOK
  BY DEF Inv1
<1> QED
  BY <1>1, InvAlways, PTL

\* A password that is asked for is one the archive accepts before anything is
\* written: run_archive prompts before it extracts.
THEOREM SessionAsksFirst == Spec => []NothingBeforePassword
<1>1. Inv2 => NothingBeforePassword
  BY DEF Inv2
<1> QED
  BY <1>1, InvAlways, PTL

\* What a wrong key makes of an entry's data is the last that leaves.
LEMMA GarbageIsLast ==
  ASSUME Inv1, Inv3, Inv4, Inv5, ~cli.list, NEW k \in 1..Len(Stream), Stream[k][2] = "garbage"
  PROVE  /\ ~HasKey(entries[Stream[k][1]]) /\ ~entries[Stream[k][1]].footer
         /\ \A j \in k..Len(Stream) : Stream[j] = Stream[k]
         /\ \A i \in delivered : i < Stream[k][1]
         /\ status = 0 => reader = "closed"
<1>1. /\ Stream[k][1] = idx /\ GarbageEnds
      /\ \A j \in 1..Len(Stream) : Stream[j][1] <= idx
  BY DEF Inv5, Elements
<1>2. /\ Stream \in Seq(Parts) /\ Len(Stream) \in Nat /\ idx \in Nat /\ entries \in Archives
      /\ delivered \subseteq 1..idx - 1 /\ None # 0 /\ cli.pipe \in BOOLEAN
  BY StreamType, EntriesFacts, CliFacts DEF Inv1, Inv3, TypeOK
<1>3. ~HasKey(entries[Stream[k][1]]) /\ ~entries[Stream[k][1]].footer
  BY <1>1 DEF GarbageEnds, RightKey, Entry
<1>4. cli.pipe
  <2> SUFFICES ASSUME ~cli.pipe PROVE FALSE
    BY <1>2
  <2>1. Stream = << >>
    BY DEF Inv4
  <2> QED
    BY <2>1
<1>5. ASSUME NEW j \in k..Len(Stream), j # k PROVE Stream[j] = Stream[k]
  <2>1. k < j /\ j \in 1..Len(Stream) /\ Stream[j] \in Parts
    BY <1>2, <1>5
  <2>2. Ahead(Stream[k], Stream[j]) \/ Stream[k] = Stream[j]
    BY <1>4, <2>1 DEF Inv4, PipeHasNoGap, IsBeginning
  <2>3. Stream[j][1] \in Nat /\ Stream[j][1] <= idx
    BY <1>1, <1>2, <2>1, PartFacts
  <2>4. ~Ahead(Stream[k], Stream[j])
    BY <1>1, <1>2, <2>3 DEF Ahead
  <2> QED
    BY <2>2, <2>4
<1>6. \A i \in delivered : i < Stream[k][1]
  BY <1>1, <1>2
<1>7. status = 0 => reader = "closed"
  BY <1>1, <1>2 DEF GarbageEnds, Inv1, TypeOK, AtWork
<1> QED
  BY <1>3, <1>5, <1>6, <1>7

\* The prompt tries a password on the first encrypted entry only, and the check
\* of setup_decryptor accepts some wrong ones: what an entry with another key
\* then sends is the last that leaves, it is of an entry no footer protects, and
\* the call does not end as a success unless its reader has left.
THEOREM SessionStopsAtWrongKey == Spec => []WrongKeyStopsTheCall
<1>1. Inv1 /\ Inv3 /\ Inv4 /\ Inv5 => WrongKeyStopsTheCall
  <2> SUFFICES ASSUME Inv1, Inv3, Inv4, Inv5, ~cli.list
               PROVE  /\ \A k \in 1..Len(Stream) : Stream[k][2] = "garbage" =>
                           /\ ~HasKey(entries[Stream[k][1]]) /\ ~entries[Stream[k][1]].footer
                           /\ \A j \in k..Len(Stream) : Stream[j] = Stream[k]
                           /\ \A i \in delivered : i < Stream[k][1]
                           /\ status = 0 => reader = "closed"
                      /\ status = 0 /\ ~(cli.pipe /\ reader = "closed") =>
                           \A i \in 1..Len(entries) : Fits(i)
    BY DEF WrongKeyStopsTheCall, Fits
  <2> QED
    BY GarbageIsLast DEF Inv3, SuccessHasKeys, ReaderLeft
<1> QED
  BY <1>1, InvAlways, PTL

\* A pipe carries what was asked for without a gap, and exit status 0 is all of
\* it, extracted and received: but for a reader that left, and for the rests at
\* the end that main does not see fail when its output is full.
THEOREM SessionDeliversWhatWasAsked == Spec => []DeliversWhatWasAsked
<1>1. Inv3 /\ Inv4 /\ Inv6 => DeliversWhatWasAsked
  BY DEF Inv3, Inv4, Inv6, DeliversWhatWasAsked
<1> QED
  BY <1>1, InvAlways, PTL

-----------------------------------------------------------------------------
(* The calendar                                                              *)

\* A number between two neighbouring multiples.
LEMMA Quotient ==
  ASSUME NEW d \in Nat \ {0}, NEW q \in Nat, NEW r \in Nat, r < d
  PROVE  (d * q + r) \div d = q /\ (d * q + r) % d = r
OBVIOUS

\* The days in front of each month of a year that begins in March.
MonthStart == <<0, 31, 61, 92, 122, 153, 184, 214, 245, 275, 306, 337>>
MonthLength(mp, leap) ==
  IF mp = 11 THEN (IF leap THEN 29 ELSE 28) ELSE MonthStart[mp + 2] - MonthStart[mp + 1]

\* Such a year ends with February, and with a leap day or not: its century in the
\* cycle of 400 years, its four years in that century and its place in those.
EndsLeap(c, q, r) == r = 3 /\ (q = 24 => c = 3)

InYear(c, q, r, doy) ==
  /\ c \in 0..3 /\ q \in 0..24 /\ r \in 0..3 /\ doy \in Nat
  /\ doy <= 365 /\ (doy = 365 => EndsLeap(c, q, r))
InMonth(c, q, r, mp, dd) ==
  mp \in 0..11 /\ dd \in 0..MonthLength(mp, EndsLeap(c, q, r)) - 1

DayOf(mp, dd) == MonthStart[mp + 1] + dd

\* Day n is day dd of month mp of such a year, in cycle e.
OnDay(n, e, c, q, r, mp, dd) ==
  /\ e \in Nat /\ c \in 0..3 /\ q \in 0..24 /\ r \in 0..3 /\ InMonth(c, q, r, mp, dd)
  /\ n + 719468 = 146097 * e + 36524 * c + 1461 * q + 365 * r + DayOf(mp, dd)

DateOn(e, c, q, r, mp, dd) ==
  LET y == 400 * e + 100 * c + 4 * q + r
  IN  <<IF mp < 10 THEN y ELSE y + 1, IF mp < 10 THEN mp + 3 ELSE mp - 9, dd + 1>>

\* The year within the cycle.
LEMMA YearFound ==
  ASSUME NEW c, NEW q, NEW r, NEW doy, InYear(c, q, r, doy),
         NEW doe, doe = 36524 * c + 1461 * q + 365 * r + doy
  PROVE  /\ doe \in Nat /\ doe <= 146096
         /\ T!YearOfEra(doe) = 100 * c + 4 * q + r
<1> USE DEF InYear
<1> DEFINE last == c = 3 /\ q = 24 /\ r = 3 /\ doy = 365
<1>0. PICK s \in Nat : s = 365 * r + doy
  OBVIOUS
<1>1. s <= 1460 /\ (s = 1460 => r = 3 /\ doy = 365) /\ doe = 36524 * c + 1461 * q + s
  BY <1>0
<1>2. PICK u \in Nat : u = 1461 * q + s
  OBVIOUS
<1>3. u <= 36523 \/ last
  BY <1>1, <1>2 DEF EndsLeap
<1>4. doe = 36524 * c + u
  BY <1>1, <1>2
<1>5. doe \in Nat /\ doe <= 146096 /\ (~last => doe <= 146095)
  BY <1>3, <1>4
<1> DEFINE early == IF r = 3 /\ 24 * c + q + doy >= 365 THEN 1 ELSE 0
<1>6. doe \div 1460 = 25 * c + q + early
  <2>1. CASE early = 1
    BY <2>1
  <2>2. CASE early = 0
    BY <2>2
  <2> QED
    BY <2>1, <2>2
<1>7. doe \div 36524 - doe \div 146096 = c
  <2>1. CASE last
    BY <2>1
  <2>2. CASE ~last
    <3>2. doe \div 36524 = c
      BY <1>3, <1>4, <2>2
    <3>3. doe \div 146096 = 0
      BY <1>5, <2>2
    <3> QED
      BY <3>2, <3>3
  <2> QED
    BY <2>1, <2>2
<1>8. PICK a \in Int : a = doe \div 36524
  BY <1>5
<1>9. PICK b \in Int : b = doe \div 146096
  BY <1>5
<1>10. PICK t \in Nat : t = doy - early /\ t < 365
  BY DEF EndsLeap
<1>11. doe - (25 * c + q + early) + a - b = 365 * (100 * c + 4 * q + r) + t
  <2>1. a - b = c
    BY <1>7, <1>8, <1>9
  <2> HIDE DEF early
  <2>2. early \in Int
    BY DEF early
  <2> QED
    BY <1>1, <1>0, <1>10, <2>1, <2>2
<1>12. 100 * c + 4 * q + r \in Nat
  OBVIOUS
<1>13. (365 * (100 * c + 4 * q + r) + t) \div 365 = 100 * c + 4 * q + r
  BY <1>10, <1>12, Quotient
<1> QED
  BY <1>5, <1>6, <1>8, <1>9, <1>11, <1>13 DEF T!YearOfEra

\* The day within the year: the years behind are taken off with their leap days.
LEMMA DayFound ==
  ASSUME NEW c, NEW q, NEW r, NEW doy, InYear(c, q, r, doy),
         NEW doe, doe = 36524 * c + 1461 * q + 365 * r + doy
  PROVE  T!DayOfYear(doe, 100 * c + 4 * q + r) = doy
<1>1. PICK yoe \in Nat : yoe = 100 * c + 4 * q + r
  BY DEF InYear
<1>2. yoe \div 4 = 25 * c + q
  BY <1>1 DEF InYear
<1>3. yoe \div 100 = c
  BY <1>1 DEF InYear
<1>4. T!DayOfYear(doe, yoe) = doy
  BY <1>1, <1>2, <1>3 DEF InYear, T!DayOfYear
<1> QED
  BY <1>1, <1>4

\* The month and the day within it.
LEMMA MonthFound ==
  ASSUME NEW c \in 0..3, NEW q \in 0..24, NEW r \in 0..3, NEW mp, NEW dd,
         InMonth(c, q, r, mp, dd), NEW doy, doy = DayOf(mp, dd)
  PROVE  /\ InYear(c, q, r, doy)
         /\ (5 * doy + 2) \div 153 = mp /\ doy - (153 * mp + 2) \div 5 = dd /\ dd \in Nat
<1>1. mp \in 0..11 /\ dd \in Nat /\ dd < MonthLength(mp, EndsLeap(c, q, r))
  BY DEF InMonth, MonthLength, MonthStart
<1> USE DEF InYear, DayOf
<1>2. CASE mp = 0
  BY <1>1, <1>2 DEF MonthLength, MonthStart
<1>3. CASE mp = 1
  BY <1>1, <1>3 DEF MonthLength, MonthStart
<1>4. CASE mp = 2
  BY <1>1, <1>4 DEF MonthLength, MonthStart
<1>5. CASE mp = 3
  BY <1>1, <1>5 DEF MonthLength, MonthStart
<1>6. CASE mp = 4
  BY <1>1, <1>6 DEF MonthLength, MonthStart
<1>7. CASE mp = 5
  BY <1>1, <1>7 DEF MonthLength, MonthStart
<1>8. CASE mp = 6
  BY <1>1, <1>8 DEF MonthLength, MonthStart
<1>9. CASE mp = 7
  BY <1>1, <1>9 DEF MonthLength, MonthStart
<1>10. CASE mp = 8
  BY <1>1, <1>10 DEF MonthLength, MonthStart
<1>11. CASE mp = 9
  BY <1>1, <1>11 DEF MonthLength, MonthStart
<1>12. CASE mp = 10
  BY <1>1, <1>12 DEF MonthLength, MonthStart
<1>13. CASE mp = 11
  BY <1>1, <1>13 DEF MonthLength, MonthStart
<1> QED
  BY <1>1, <1>2, <1>3, <1>4, <1>5, <1>6, <1>7, <1>8, <1>9, <1>10, <1>11, <1>12, <1>13

\* days_to_ymd finds the date.
LEMMA DateOfDay ==
  ASSUME NEW n \in Nat, NEW e, NEW c, NEW q, NEW r, NEW mp, NEW dd, OnDay(n, e, c, q, r, mp, dd)
  PROVE  T!days_to_ymd(n) = DateOn(e, c, q, r, mp, dd)
<1>1. e \in Nat /\ c \in 0..3 /\ q \in 0..24 /\ r \in 0..3 /\ mp \in 0..11
  BY DEF OnDay, InMonth
<1>2. PICK doy : doy = DayOf(mp, dd)
  OBVIOUS
<1>3. InMonth(c, q, r, mp, dd)
  BY DEF OnDay
<1>4. /\ InYear(c, q, r, doy)
      /\ (5 * doy + 2) \div 153 = mp /\ doy - (153 * mp + 2) \div 5 = dd /\ dd \in Nat
  BY <1>1, <1>2, <1>3, MonthFound
<1>5. doy \in Nat
  BY <1>4 DEF InYear
<1>6. PICK doe \in Nat : doe = 36524 * c + 1461 * q + 365 * r + doy
  BY <1>1, <1>5
<1>7. /\ doe <= 146096
      /\ T!YearOfEra(doe) = 100 * c + 4 * q + r
  BY <1>4, <1>6, YearFound
<1>8. PICK yoe \in Nat : yoe = 100 * c + 4 * q + r
  BY <1>1
<1>9. T!DayOfYear(doe, yoe) = doy
  BY <1>4, <1>6, <1>8, DayFound
<1>10. PICK z \in Nat : z = n + 719468
  OBVIOUS
<1>11. z = 146097 * e + doe
  BY <1>1, <1>2, <1>5, <1>6, <1>10 DEF OnDay
<1>12. z \div 146097 = e
  BY <1>1, <1>7, <1>11
<1>13. z - e * 146097 = doe
  BY <1>1, <1>11
<1>14. T!days_to_ymd(n) = T!DateFromMarch(yoe + e * 400, doy)
  BY <1>7, <1>8, <1>9, <1>10, <1>12, <1>13 DEF T!days_to_ymd
<1>15. T!DateFromMarch(yoe + e * 400, doy)
         = <<T!YearFromJanuary(yoe + e * 400, IF mp < 10 THEN mp + 3 ELSE mp - 9),
             IF mp < 10 THEN mp + 3 ELSE mp - 9, dd + 1>>
  BY <1>4 DEF T!DateFromMarch
<1>16. yoe + e * 400 = 400 * e + 100 * c + 4 * q + r
  BY <1>1, <1>8
<1>17. mp < 10 \/ (mp - 9 <= 2 /\ mp >= 10)
  BY <1>1
<1> QED
  BY <1>1, <1>14, <1>15, <1>16, <1>17 DEF DateOn, T!YearFromJanuary

\* The calendar's leap years.
LEMMA LeapYears ==
  ASSUME NEW e \in Nat, NEW c \in 0..3, NEW q \in 0..24, NEW r \in 0..3,
         NEW y, y = 400 * e + 100 * c + 4 * q + r + 1
  PROVE  T!IsLeap(y) <=> EndsLeap(c, q, r)
<1>1. y % 4 = 0 <=> r = 3
  OBVIOUS
<1>2. y % 100 = 0 <=> q = 24 /\ r = 3
  OBVIOUS
<1>3. y % 400 = 0 <=> c = 3 /\ q = 24 /\ r = 3
  OBVIOUS
<1> QED
  BY <1>1, <1>2, <1>3 DEF T!IsLeap, EndsLeap

\* A month of such a year is as long as the calendar's.
InCycle(e, c, q, r, mp) == e \in Nat /\ c \in 0..3 /\ q \in 0..24 /\ r \in 0..3 /\ mp \in 0..11

LEMMA MonthDays ==
  ASSUME NEW e, NEW c, NEW q, NEW r, NEW mp, InCycle(e, c, q, r, mp),
         NEW d, d = DateOn(e, c, q, r, mp, 0)
  PROVE  T!DaysOf(d[1], d[2]) = MonthLength(mp, EndsLeap(c, q, r))
<1>0. e \in Nat /\ c \in 0..3 /\ q \in 0..24 /\ r \in 0..3 /\ mp \in 0..11
  BY DEF InCycle
<1>1. d[1] = (IF mp < 10 THEN 400 * e + 100 * c + 4 * q + r ELSE 400 * e + 100 * c + 4 * q + r + 1)
      /\ d[2] = (IF mp < 10 THEN mp + 3 ELSE mp - 9)
  BY DEF DateOn
<1>2. CASE mp = 11
  <2>1. d[2] = 2 /\ d[1] = 400 * e + 100 * c + 4 * q + r + 1
    BY <1>0, <1>1, <1>2
  <2>2. T!IsLeap(d[1]) <=> EndsLeap(c, q, r)
    BY <1>0, <2>1, LeapYears
  <2>3. T!DaysOf(d[1], 2) = IF T!IsLeap(d[1]) THEN 29 ELSE 28
    BY DEF T!DaysOf
  <2>4. MonthLength(mp, EndsLeap(c, q, r)) = IF EndsLeap(c, q, r) THEN 29 ELSE 28
    BY <1>2 DEF MonthLength
  <2> QED
    BY <2>1, <2>2, <2>3, <2>4
<1>3. CASE mp # 11
  <2>1. d[2] # 2
    BY <1>0, <1>1, <1>3
  <2>2. T!DaysOf(d[1], d[2]) = IF d[2] \in {4, 6, 9, 11} THEN 30 ELSE 31
    BY <2>1 DEF T!DaysOf
  <2>3. MonthLength(mp, EndsLeap(c, q, r)) = MonthStart[mp + 2] - MonthStart[mp + 1]
    BY <1>3 DEF MonthLength
  <2>4. \/ mp \in {1, 3, 6, 8} /\ d[2] \in {4, 6, 9, 11}
        \/ mp \in {0, 2, 4, 5, 7, 9, 10} /\ d[2] \notin {4, 6, 9, 11}
    BY <1>0, <1>1, <1>3
  <2>5. mp \in {1, 3, 6, 8} => MonthStart[mp + 2] - MonthStart[mp + 1] = 30
    BY DEF MonthStart
  <2>6. mp \in {0, 2, 4, 5, 7, 9, 10} => MonthStart[mp + 2] - MonthStart[mp + 1] = 31
    BY DEF MonthStart
  <2> QED
    BY <2>2, <2>3, <2>4, <2>5, <2>6
<1> QED
  BY <1>2, <1>3

\* Every month has days.
LEMMA LengthIs ==
  ASSUME NEW mp \in 0..11, NEW leap
  PROVE  MonthLength(mp, leap) \in Nat /\ MonthLength(mp, leap) >= 28
<1>1. CASE mp = 11
  BY <1>1 DEF MonthLength
<1>2. CASE mp # 11
  <2>1. MonthStart[mp + 2] - MonthStart[mp + 1] \in {30, 31}
    BY <1>2 DEF MonthStart
  <2> QED
    BY <1>2, <2>1 DEF MonthLength
<1> QED
  BY <1>1, <1>2

\* The first of March.
LEMMA FirstOfMarch ==
  ASSUME NEW n \in Nat, NEW e, NEW c, NEW q, NEW r, InCycle(e, c, q, r, 0),
         n + 719468 = 146097 * e + 36524 * c + 1461 * q + 365 * r,
         NEW y, y = 400 * e + 100 * c + 4 * q + r
  PROVE  OnDay(n, e, c, q, r, 0, 0) /\ DateOn(e, c, q, r, 0, 0) = <<y, 3, 1>>
<1>1. e \in Nat /\ c \in 0..3 /\ q \in 0..24 /\ r \in 0..3
  BY DEF InCycle
<1>2. InMonth(c, q, r, 0, 0) /\ DayOf(0, 0) = 0
  BY DEF InMonth, MonthLength, MonthStart, DayOf
<1>3. OnDay(n, e, c, q, r, 0, 0)
  BY <1>1, <1>2 DEF OnDay
<1>4. DateOn(e, c, q, r, 0, 0) = <<y, 3, 1>>
  BY <1>1 DEF DateOn
<1> QED
  BY <1>3, <1>4

\* The day behind a day has the date behind its date.
LEMMA DayBehind ==
  ASSUME NEW n \in Nat, NEW e, NEW c, NEW q, NEW r, NEW mp, NEW dd, OnDay(n, e, c, q, r, mp, dd)
  PROVE  \E f, h, i, j, k, l : /\ OnDay(n + 1, f, h, i, j, k, l)
                               /\ DateOn(f, h, i, j, k, l) = T!NextDate(DateOn(e, c, q, r, mp, dd))
<1>1. /\ e \in Nat /\ c \in 0..3 /\ q \in 0..24 /\ r \in 0..3 /\ mp \in 0..11
      /\ InMonth(c, q, r, mp, dd)
      /\ n + 719468 = 146097 * e + 36524 * c + 1461 * q + 365 * r + DayOf(mp, dd)
  BY DEF OnDay, InMonth
<1>2. PICK len \in Nat : len = MonthLength(mp, EndsLeap(c, q, r))
  BY <1>1, LengthIs
<1>3. dd \in Nat /\ dd < len /\ len > 1
  <2>1. len > 1
    BY <1>1, <1>2, LengthIs
  <2>2. dd \in 0..MonthLength(mp, EndsLeap(c, q, r)) - 1
    BY <1>1 DEF InMonth
  <2> QED
    BY <1>2, <2>1, <2>2
<1>4. PICK y \in Nat : y = 400 * e + 100 * c + 4 * q + r
  BY <1>1
<1>5. PICK yy \in Nat : yy = IF mp < 10 THEN y ELSE y + 1
  BY <1>1
<1>6. PICK m \in Nat : m = IF mp < 10 THEN mp + 3 ELSE mp - 9
  BY <1>1
<1>7. DateOn(e, c, q, r, mp, dd) = <<yy, m, dd + 1>>
  BY <1>4, <1>5, <1>6 DEF DateOn
<1>8. T!DaysOf(yy, m) = len
  <2>1. PICK d : d = DateOn(e, c, q, r, mp, 0)
    OBVIOUS
  <2>2. d[1] = yy /\ d[2] = m
    <3>1. /\ d[1] = (IF mp < 10 THEN 400 * e + 100 * c + 4 * q + r ELSE 400 * e + 100 * c + 4 * q + r + 1)
          /\ d[2] = (IF mp < 10 THEN mp + 3 ELSE mp - 9)
      BY <2>1 DEF DateOn
    <3> QED
      BY <1>4, <1>5, <1>6, <3>1
  <2>3. T!DaysOf(d[1], d[2]) = MonthLength(mp, EndsLeap(c, q, r))
    <3>1. InCycle(e, c, q, r, mp)
      BY <1>1 DEF InCycle
    <3> QED
      BY <2>1, <3>1, MonthDays
  <2> QED
    BY <1>2, <2>2, <2>3
<1>9. T!NextDate(<<yy, m, dd + 1>>) =
        IF dd + 1 < len THEN <<yy, m, dd + 2>>
        ELSE IF m < 12 THEN <<yy, m + 1, 1>> ELSE <<yy + 1, 1, 1>>
  BY <1>3, <1>8 DEF T!NextDate
<1>10. CASE dd + 1 < len
  <2>1. InMonth(c, q, r, mp, dd + 1)
    BY <1>1, <1>2, <1>3, <1>10 DEF InMonth
  <2>2. DayOf(mp, dd + 1) = DayOf(mp, dd) + 1 /\ DayOf(mp, dd) \in Nat
    BY <1>1, <1>3 DEF DayOf, MonthStart
  <2>3. OnDay(n + 1, e, c, q, r, mp, dd + 1)
    BY <1>1, <2>1, <2>2 DEF OnDay
  <2>4. DateOn(e, c, q, r, mp, dd + 1) = <<yy, m, dd + 2>>
    BY <1>3, <1>4, <1>5, <1>6 DEF DateOn
  <2> QED
    BY <1>7, <1>9, <1>10, <2>3, <2>4
<1>11. CASE dd + 1 = len /\ mp # 11
  <2>1. PICK k \in 0..11 : k = mp + 1
    BY <1>1, <1>11
  <2>2. InMonth(c, q, r, k, 0)
    BY <2>1 DEF InMonth, MonthLength, MonthStart
  <2>3. DayOf(k, 0) = DayOf(mp, dd) + 1 /\ DayOf(mp, dd) \in Nat
    BY <1>1, <1>2, <1>3, <1>11, <2>1 DEF DayOf, MonthLength, MonthStart
  <2>4. OnDay(n + 1, e, c, q, r, k, 0)
    BY <1>1, <2>2, <2>3 DEF OnDay
  <2>5. DateOn(e, c, q, r, k, 0) = IF m < 12 THEN <<yy, m + 1, 1>> ELSE <<yy + 1, 1, 1>>
    BY <1>1, <1>4, <1>5, <1>6, <1>11, <2>1 DEF DateOn
  <2> QED
    BY <1>3, <1>7, <1>9, <1>11, <2>4, <2>5
<1>12. CASE dd + 1 = len /\ mp = 11
  <2>1. DayOf(mp, dd) = IF EndsLeap(c, q, r) THEN 365 ELSE 364
    BY <1>2, <1>3, <1>12 DEF DayOf, MonthLength, MonthStart
  <2>2. T!NextDate(<<yy, m, dd + 1>>) = <<y + 1, 3, 1>>
    BY <1>3, <1>5, <1>6, <1>9, <1>12
  <2>4. PICK nn \in Nat, ny \in Nat : nn = n + 1 /\ ny = y + 1
    OBVIOUS
  <2>5. CASE r < 3
    <3>1. ~EndsLeap(c, q, r)
      BY <2>5 DEF EndsLeap
    <3>2. PICK f, h, i, j : f = e /\ h = c /\ i = q /\ j = r + 1
      OBVIOUS
    <3>3. InCycle(f, h, i, j, 0)
      BY <1>1, <2>5, <3>2 DEF InCycle
    <3>4. nn + 719468 = 146097 * f + 36524 * h + 1461 * i + 365 * j
      BY <1>1, <2>1, <2>4, <2>5, <3>1, <3>2
    <3>5. ny = 400 * f + 100 * h + 4 * i + j
      BY <1>1, <1>4, <2>4, <2>5, <3>2
    <3>6. OnDay(nn, f, h, i, j, 0, 0) /\ DateOn(f, h, i, j, 0, 0) = <<ny, 3, 1>>
      BY <3>3, <3>4, <3>5, FirstOfMarch
    <3> QED
      BY <1>7, <2>2, <2>4, <3>6
  <2>6. CASE r = 3 /\ q < 24
    <3>1. EndsLeap(c, q, r)
      BY <1>1, <2>6 DEF EndsLeap
    <3>2. PICK f, h, i, j : f = e /\ h = c /\ i = q + 1 /\ j = 0
      OBVIOUS
    <3>3. InCycle(f, h, i, j, 0)
      BY <1>1, <2>6, <3>2 DEF InCycle
    <3>4. nn + 719468 = 146097 * f + 36524 * h + 1461 * i + 365 * j
      BY <1>1, <2>1, <2>4, <2>6, <3>1, <3>2
    <3>5. ny = 400 * f + 100 * h + 4 * i + j
      BY <1>1, <1>4, <2>4, <2>6, <3>2
    <3>6. OnDay(nn, f, h, i, j, 0, 0) /\ DateOn(f, h, i, j, 0, 0) = <<ny, 3, 1>>
      BY <3>3, <3>4, <3>5, FirstOfMarch
    <3> QED
      BY <1>7, <2>2, <2>4, <3>6
  <2>7. CASE r = 3 /\ q = 24 /\ c < 3
    <3>1. ~EndsLeap(c, q, r)
      BY <1>1, <2>7 DEF EndsLeap
    <3>2. PICK f, h, i, j : f = e /\ h = c + 1 /\ i = 0 /\ j = 0
      OBVIOUS
    <3>3. InCycle(f, h, i, j, 0)
      BY <1>1, <2>7, <3>2 DEF InCycle
    <3>4. nn + 719468 = 146097 * f + 36524 * h + 1461 * i + 365 * j
      BY <1>1, <2>1, <2>4, <2>7, <3>1, <3>2
    <3>5. ny = 400 * f + 100 * h + 4 * i + j
      BY <1>1, <1>4, <2>4, <2>7, <3>2
    <3>6. OnDay(nn, f, h, i, j, 0, 0) /\ DateOn(f, h, i, j, 0, 0) = <<ny, 3, 1>>
      BY <3>3, <3>4, <3>5, FirstOfMarch
    <3> QED
      BY <1>7, <2>2, <2>4, <3>6
  <2>8. CASE r = 3 /\ q = 24 /\ c = 3
    <3>1. EndsLeap(c, q, r)
      BY <2>8 DEF EndsLeap
    <3>2. PICK f, h, i, j : f = e + 1 /\ h = 0 /\ i = 0 /\ j = 0
      OBVIOUS
    <3>3. InCycle(f, h, i, j, 0)
      BY <1>1, <2>8, <3>2 DEF InCycle
    <3>4. nn + 719468 = 146097 * f + 36524 * h + 1461 * i + 365 * j
      BY <1>1, <2>1, <2>4, <2>8, <3>1, <3>2
    <3>5. ny = 400 * f + 100 * h + 4 * i + j
      BY <1>1, <1>4, <2>4, <2>8, <3>2
    <3>6. OnDay(nn, f, h, i, j, 0, 0) /\ DateOn(f, h, i, j, 0, 0) = <<ny, 3, 1>>
      BY <3>3, <3>4, <3>5, FirstOfMarch
    <3> QED
      BY <1>7, <2>2, <2>4, <3>6
  <2> QED
    BY <1>1, <2>5, <2>6, <2>7, <2>8
<1> QED
  BY <1>1, <1>3, <1>10, <1>11, <1>12

-----------------------------------------------------------------------------
(* The times of an entry                                                     *)

\* A second of day n, in hours, minutes and seconds.
OnClock(secs, n, h, m, x) ==
  /\ n \in Nat /\ h \in Nat /\ h <= 23 /\ m \in Nat /\ m <= 59 /\ x \in Nat /\ x <= 59
  /\ secs = 86400 * n + (3600 * h + (60 * m + x))

LEMMA ClockOf ==
  ASSUME NEW secs, NEW n, NEW h, NEW m, NEW x, OnClock(secs, n, h, m, x)
  PROVE  T!Clock(secs) = <<h, m, x>> /\ secs \div 86400 = n
<1>1. /\ n \in Nat /\ h \in Nat /\ h <= 23 /\ m \in Nat /\ m <= 59 /\ x \in Nat /\ x <= 59
      /\ secs = 86400 * n + (3600 * h + (60 * m + x))
  BY DEF OnClock
<1>2. PICK u \in Nat : u = 60 * m + x
  BY <1>1
<1>3. PICK s \in Nat : s = 3600 * h + u
  BY <1>1, <1>2
<1>4. u < 3600 /\ s < 86400
  BY <1>1, <1>2, <1>3
<1>5. secs % 86400 = s /\ secs \div 86400 = n
  BY <1>1, <1>2, <1>3, <1>4
<1>6. s \div 3600 = h /\ s % 3600 = u
  BY <1>1, <1>3, <1>4
<1>7. u \div 60 = m
  BY <1>1, <1>2
<1>8. s % 60 = x
  BY <1>1, <1>2, <1>3
<1> QED
  BY <1>5, <1>6, <1>7, <1>8 DEF T!Clock

LEMMA ClockParts ==
  ASSUME NEW s \in Nat, s <= 86399, NEW n \in Nat
  PROVE  \E h, m, x : OnClock(86400 * n + s, n, h, m, x)
<1>1. PICK h \in Nat : h = s \div 3600
  OBVIOUS
<1>2. PICK u \in Nat : u = s % 3600
  OBVIOUS
<1>3. s = 3600 * h + u /\ u < 3600 /\ h <= 23
  BY <1>1, <1>2
<1>4. PICK m \in Nat : m = u \div 60
  OBVIOUS
<1>5. PICK x \in Nat : x = u % 60
  OBVIOUS
<1>6. u = 60 * m + x /\ x <= 59 /\ m <= 59
  BY <1>3, <1>4, <1>5
<1>7. OnClock(86400 * n + s, n, h, m, x)
  BY <1>3, <1>6 DEF OnClock
<1> QED
  BY <1>7

\* The time of day knows no day.
LEMMA ClockOfDay ==
  ASSUME NEW s, NEW n, NEW secs, secs = 86400 * n + s, NEW h, NEW m, NEW x,
         s \in Nat, OnClock(secs, n, h, m, x)
  PROVE  OnClock(s, 0, h, m, x)
BY DEF OnClock

\* The clock of the next second.
LEMMA ClockTicks ==
  ASSUME NEW s \in Nat, s < 86399
  PROVE  T!NextTime(T!Clock(s)) = T!Clock(s + 1)
<1>1. PICK h, m, x : OnClock(s, 0, h, m, x)
  <2>1. PICK n \in Nat : n = 0
    OBVIOUS
  <2>2. PICK h, m, x : OnClock(86400 * n + s, n, h, m, x)
    BY ClockParts
  <2>3. 86400 * n + s = s
    BY <2>1
  <2> QED
    BY <2>1, <2>2, <2>3
<1>2. T!Clock(s) = <<h, m, x>>
  BY <1>1, ClockOf
<1>3. /\ h \in Nat /\ h <= 23 /\ m \in Nat /\ m <= 59 /\ x \in Nat /\ x <= 59
      /\ s = 3600 * h + (60 * m + x)
  BY <1>1 DEF OnClock
<1>4. T!NextTime(<<h, m, x>>) = IF x < 59 THEN <<h, m, x + 1>>
                                ELSE IF m < 59 THEN <<h, m + 1, 0>> ELSE <<h + 1, 0, 0>>
  BY DEF T!NextTime
<1>5. PICK z \in Nat : z = s + 1
  OBVIOUS
<1>6. CASE x < 59
  <2>1. PICK y : y = x + 1
    OBVIOUS
  <2>2. OnClock(z, 0, h, m, y)
    BY <1>3, <1>5, <1>6, <2>1 DEF OnClock
  <2>3. T!Clock(z) = <<h, m, y>>
    BY <2>2, ClockOf
  <2> QED
    BY <1>2, <1>4, <1>5, <1>6, <2>1, <2>3
<1>7. CASE x = 59 /\ m < 59
  <2>1. PICK k : k = m + 1
    OBVIOUS
  <2>2. OnClock(z, 0, h, k, 0)
    BY <1>3, <1>5, <1>7, <2>1 DEF OnClock
  <2>3. T!Clock(z) = <<h, k, 0>>
    BY <2>2, ClockOf
  <2> QED
    BY <1>2, <1>4, <1>5, <1>7, <2>1, <2>3
<1>8. CASE x = 59 /\ m = 59
  <2>1. PICK k : k = h + 1
    OBVIOUS
  <2>2. OnClock(z, 0, k, 0, 0)
    BY <1>3, <1>5, <1>8, <2>1 DEF OnClock
  <2>3. T!Clock(z) = <<k, 0, 0>>
    BY <2>2, ClockOf
  <2> QED
    BY <1>2, <1>4, <1>5, <1>8, <2>1, <2>3
<1> QED
  BY <1>3, <1>6, <1>7, <1>8

\* Midnight.
LEMMA ClockAtMidnight == T!Clock(0) = <<0, 0, 0>>
<1>1. OnClock(0, 0, 0, 0, 0)
  BY DEF OnClock
<1> QED
  BY <1>1, ClockOf

\* Multiples of k up to a number are those of the quotient's numbers.
LEMMA Multiples ==
  ASSUME NEW k \in Nat \ {0}, NEW n \in Nat
  PROVE  /\ n \div k \in Nat
         /\ \A x \in Nat : x * k <= n <=> x <= n \div k
<1>1. PICK d \in Nat : d = n \div k /\ k * d <= n /\ n < k * d + k
  <2>1. n = k * (n \div k) + (n % k) /\ n \div k \in Nat /\ n % k \in Nat /\ n % k < k
    OBVIOUS
  <2> QED
    BY <2>1
<1>2. ASSUME NEW x \in Nat PROVE x * k <= n <=> x <= d
  <2>1. CASE x <= d
    <3>1. PICK z \in Nat : d = x + z
      BY <2>1
    <3>2. k * d = x * k + z * k /\ z * k >= 0
      BY <3>1
    <3> QED
      BY <1>1, <2>1, <3>2
  <2>2. CASE x > d
    <3>1. PICK z \in Nat : x = d + 1 + z
      <4>1. x - d - 1 \in Nat /\ x = d + 1 + (x - d - 1)
        BY <2>2
      <4> QED
        BY <4>1
    <3>2. x * k = k * d + k + z * k /\ z * k >= 0
      BY <3>1
    <3> QED
      BY <1>1, <2>2, <3>2
  <2> QED
    BY <2>1, <2>2
<1> QED
  BY <1>1, <1>2

\* What a FILETIME keeps of the seconds.
LEMMA FiletimeKeeps ==
  ASSUME NEW secs \in Nat, NEW ticks, ticks = T!unix_to_filetime(secs)
  PROVE  /\ ~T!BeforeUnix(ticks)
         /\ T!unix_secs(ticks) = T!Smaller(secs, MAX \div TICKS_PER_SEC - EPOCH_DIFF)
<1>1. /\ EPOCH_DIFF \in Nat /\ MAX \in Nat /\ TICKS_PER_SEC \in Nat \ {0}
      /\ EPOCH_DIFF * TICKS_PER_SEC <= MAX
  BY PartsAssumption DEF T!TimesConstants
<1>2. PICK d \in Nat : d = MAX \div TICKS_PER_SEC
  BY <1>1, Multiples
<1>3. \A x \in Nat : x * TICKS_PER_SEC <= MAX <=> x <= d
  BY <1>1, <1>2, Multiples
<1>4. EPOCH_DIFF <= d
  BY <1>1, <1>3
<1>5. PICK a \in Nat : a = secs + EPOCH_DIFF
  BY <1>1
<1>6. CASE a <= d
  <2>1. a * TICKS_PER_SEC <= MAX /\ a * TICKS_PER_SEC \in Nat
    BY <1>1, <1>3, <1>6
  <2>2. a <= a * TICKS_PER_SEC
    <3>1. PICK j \in Nat : TICKS_PER_SEC = j + 1
      <4>1. TICKS_PER_SEC - 1 \in Nat /\ TICKS_PER_SEC = (TICKS_PER_SEC - 1) + 1
        BY <1>1
      <4> QED
        BY <4>1
    <3>2. a * TICKS_PER_SEC = a * j + a /\ a * j >= 0
      BY <3>1
    <3> QED
      BY <3>2
  <2>3. ticks = a * TICKS_PER_SEC
    BY <1>1, <1>5, <2>1, <2>2 DEF T!unix_to_filetime, T!Smaller
  <2>4. EPOCH_DIFF * TICKS_PER_SEC <= a * TICKS_PER_SEC
    <3>1. a * TICKS_PER_SEC = secs * TICKS_PER_SEC + EPOCH_DIFF * TICKS_PER_SEC
      BY <1>1, <1>5
    <3>2. secs * TICKS_PER_SEC >= 0
      BY <1>1
    <3> QED
      BY <1>1, <3>1, <3>2
  <2>5. ticks \div TICKS_PER_SEC = a
    <3>1. a * TICKS_PER_SEC = TICKS_PER_SEC * a + 0 /\ 0 < TICKS_PER_SEC
      BY <1>1
    <3> QED
      BY <1>1, <2>3, <3>1, Quotient
  <2>6. ~T!BeforeUnix(ticks)
    BY <1>1, <2>1, <2>3, <2>4 DEF T!BeforeUnix
  <2>7. T!unix_secs(ticks) = secs
    BY <1>1, <1>5, <2>5 DEF T!unix_secs, T!SaturatingSub
  <2>8. T!Smaller(secs, d - EPOCH_DIFF) = secs
    BY <1>1, <1>5, <1>6 DEF T!Smaller
  <2> QED
    BY <1>2, <2>6, <2>7, <2>8
<1>7. CASE a > d
  <2>1. a * TICKS_PER_SEC > MAX /\ a * TICKS_PER_SEC \in Nat
    BY <1>1, <1>3, <1>7
  <2>2. MAX * TICKS_PER_SEC >= MAX /\ MAX * TICKS_PER_SEC \in Nat
    <3>1. PICK j \in Nat : TICKS_PER_SEC = j + 1
      <4>1. TICKS_PER_SEC - 1 \in Nat /\ TICKS_PER_SEC = (TICKS_PER_SEC - 1) + 1
        BY <1>1
      <4> QED
        BY <4>1
    <3>2. MAX * TICKS_PER_SEC = MAX * j + MAX /\ MAX * j >= 0
      BY <1>1, <3>1
    <3> QED
      BY <1>1, <3>2
  <2>3. ticks = MAX
    <3>1. PICK b \in Nat : b = T!Smaller(a, MAX) /\ (b = a \/ b = MAX)
      BY <1>1 DEF T!Smaller
    <3>2. b * TICKS_PER_SEC >= MAX /\ b * TICKS_PER_SEC \in Nat
      BY <1>1, <2>1, <2>2, <3>1
    <3>3. ticks = T!Smaller(b * TICKS_PER_SEC, MAX)
      BY <1>5, <3>1 DEF T!unix_to_filetime
    <3> QED
      BY <1>1, <3>2, <3>3 DEF T!Smaller
  <2>4. ~T!BeforeUnix(ticks)
    BY <1>1, <2>3 DEF T!BeforeUnix
  <2>5. T!unix_secs(ticks) = d - EPOCH_DIFF
    BY <1>1, <1>2, <1>4, <2>3 DEF T!unix_secs, T!SaturatingSub
  <2>6. T!Smaller(secs, d - EPOCH_DIFF) = d - EPOCH_DIFF
    BY <1>1, <1>5, <1>7 DEF T!Smaller
  <2> QED
    BY <1>2, <2>4, <2>5, <2>6
<1> QED
  BY <1>6, <1>7

\* The calendar stands on a day of a cycle, and the time is that of its second.
Calendar ==
  /\ day \in Nat /\ second \in Nat /\ second <= 86399
  /\ time = T!Clock(second)
  /\ \E e, c, q, r, mp, dd : OnDay(day, e, c, q, r, mp, dd) /\ date = DateOn(e, c, q, r, mp, dd)

LEMMA CalendarInit == T!Init => Calendar
<1> SUFFICES ASSUME T!Init PROVE Calendar
  OBVIOUS
<1>1. day = 0 /\ second = 0 /\ date = <<1970, 1, 1>> /\ time = <<0, 0, 0>>
  BY DEF T!Init
<1>2. T!Clock(0) = <<0, 0, 0>>
  BY ClockAtMidnight
<1>3. OnDay(0, 4, 3, 17, 1, 10, 0)
  BY DEF OnDay, InMonth, MonthLength, MonthStart, DayOf
<1>4. DateOn(4, 3, 17, 1, 10, 0) = <<1970, 1, 1>>
  BY DEF DateOn
<1> QED
  BY <1>1, <1>2, <1>3, <1>4 DEF Calendar

LEMMA CalendarGoesOn == Calendar /\ [T!Next]_T!vars => Calendar'
<1> SUFFICES ASSUME Calendar, [T!Next]_T!vars PROVE Calendar'
  OBVIOUS
<1>1. /\ day \in Nat /\ second \in Nat /\ second <= 86399
      /\ time = T!Clock(second)
  BY DEF Calendar
<1>2. PICK e, c, q, r, mp, dd :
        OnDay(day, e, c, q, r, mp, dd) /\ date = DateOn(e, c, q, r, mp, dd)
  BY DEF Calendar
<1>3. CASE T!Tick
  <2>1. second < 86399 /\ second' = second + 1 /\ time' = T!NextTime(time) /\ UNCHANGED <<day, date>>
    BY <1>3 DEF T!Tick
  <2>2. time' = T!Clock(second')
    BY <1>1, <2>1, ClockTicks
  <2>3. PICK n, d : n = day' /\ d = date'
    OBVIOUS
  <2>4. OnDay(n, e, c, q, r, mp, dd) /\ d = DateOn(e, c, q, r, mp, dd)
    BY <1>2, <2>1, <2>3
  <2> QED
    BY <1>1, <2>1, <2>2, <2>3, <2>4 DEF Calendar
<1>4. CASE T!Midnight
  <2>1. day' = day + 1 /\ date' = T!NextDate(date) /\ second' = 0 /\ time' = <<0, 0, 0>>
    BY <1>4 DEF T!Midnight
  <2>2. T!Clock(0) = <<0, 0, 0>>
    BY ClockAtMidnight
  <2>3. PICK f, h, i, j, k, l : /\ OnDay(day + 1, f, h, i, j, k, l)
                                /\ DateOn(f, h, i, j, k, l) = T!NextDate(date)
    BY <1>1, <1>2, DayBehind
  <2>4. PICK n, d : n = day' /\ d = date'
    OBVIOUS
  <2>5. OnDay(n, f, h, i, j, k, l) /\ d = DateOn(f, h, i, j, k, l)
    BY <2>1, <2>3, <2>4
  <2> QED
    BY <1>1, <2>1, <2>2, <2>4, <2>5 DEF Calendar
<1>5. CASE UNCHANGED T!vars
  <2>1. UNCHANGED <<day, second, date, time>>
    BY <1>5 DEF T!vars
  <2> QED
    BY <2>1 DEF Calendar
<1> QED
  BY <1>3, <1>4, <1>5 DEF T!Next

LEMMA CalendarIsRight == Calendar => TimesAreRight
<1> SUFFICES ASSUME Calendar PROVE TimesAreRight
  OBVIOUS
<1>1. /\ day \in Nat /\ second \in Nat /\ second <= 86399
      /\ time = T!Clock(second)
  BY DEF Calendar
<1>2. T!DateIsRight
  <2>1. PICK e, c, q, r, mp, dd :
          OnDay(day, e, c, q, r, mp, dd) /\ date = DateOn(e, c, q, r, mp, dd)
    BY DEF Calendar
  <2> QED
    BY <1>1, <2>1, DateOfDay DEF T!DateIsRight
<1>3. PICK secs \in Nat : secs = 86400 * day + second
  BY <1>1
<1>4. T!Clock(secs) = time /\ secs \div 86400 = day
  <2>1. PICK h, m, x : OnClock(86400 * day + second, day, h, m, x)
    BY <1>1, ClockParts
  <2>2. OnClock(secs, day, h, m, x)
    BY <1>3, <2>1
  <2>3. T!Clock(secs) = <<h, m, x>> /\ secs \div 86400 = day
    BY <2>2, ClockOf
  <2>4. OnClock(second, 0, h, m, x)
    BY <1>1, <1>3, <2>2, ClockOfDay
  <2>5. T!Clock(second) = <<h, m, x>>
    BY <2>4, ClockOf
  <2> QED
    BY <1>1, <2>3, <2>5
<1>5. PICK ticks : ticks = T!unix_to_filetime(secs)
  OBVIOUS
<1>6. /\ ~T!BeforeUnix(ticks)
      /\ T!unix_secs(ticks) = T!Smaller(secs, MAX \div TICKS_PER_SEC - EPOCH_DIFF)
  BY <1>5, FiletimeKeeps
<1>7. T!TimeIsKept
  BY <1>3, <1>4, <1>5, <1>6 DEF T!TimeIsKept, T!Seconds
<1> QED
  BY <1>2, <1>7 DEF TimesAreRight

\* The date and the time of an entry are those of the calendar, whichever day it
\* is, and the time comes back from the FILETIME it is stored in as long as the
\* ticks fit (unix_to_filetime, format_filetime, days_to_ymd and set_file_time).
THEOREM TimesStayRight == T!Spec => []TimesAreRight
<1>1. T!Spec => []Calendar
  BY CalendarInit, CalendarGoesOn, PTL DEF T!Spec
<1> QED
  BY <1>1, CalendarIsRight, PTL

-----------------------------------------------------------------------------
(* The numbers of a set in their order                                       *)

Positions(S) == \E n \in Nat : S \in SUBSET (0..n)
UpTo(S, k) == {j \in S : j <= k}

LEMMA PositionsFacts ==
  ASSUME NEW S, Positions(S)
  PROVE  S \subseteq Nat /\ IsFiniteSet(S) /\ \E n \in Nat : \A j \in S : j <= n
<1>1. PICK n \in Nat : S \in SUBSET (0..n)
  BY DEF Positions
<1>2. IsFiniteSet(0..n)
  BY FS_Interval
<1>3. IsFiniteSet(S)
  BY <1>1, <1>2, FS_Subset
<1>4. \A j \in S : j \in Nat /\ j <= n
  BY <1>1
<1> QED
  BY <1>3, <1>4

LEMMA SizeIs == \A S : N!Cardinality(S) = Cardinality(S)
BY DEF N!Cardinality, Cardinality

LEMMA RankIs == \A S, k : N!Rank(k, S) = Cardinality(UpTo(S, k))
BY SizeIs DEF N!Rank, UpTo

LEMMA UpToFacts ==
  ASSUME NEW S, Positions(S), NEW k
  PROVE  /\ IsFiniteSet(UpTo(S, k)) /\ N!Rank(k, S) \in Nat
         /\ N!Rank(k, S) <= Cardinality(S) /\ Cardinality(S) \in Nat
<1>1. UpTo(S, k) \in SUBSET S /\ IsFiniteSet(S)
  BY PositionsFacts DEF UpTo
<1>2. IsFiniteSet(UpTo(S, k)) /\ Cardinality(UpTo(S, k)) <= Cardinality(S)
  BY <1>1, FS_Subset
<1> QED
  BY <1>1, <1>2, FS_CardinalityType, RankIs

LEMMA RankGrows ==
  ASSUME NEW S, Positions(S), NEW k \in S, NEW j \in Nat, j < k
  PROVE  N!Rank(j, S) < N!Rank(k, S)
<1>0. S \subseteq Nat
  BY PositionsFacts
<1>1. UpTo(S, j) \in SUBSET UpTo(S, k)
  <2>1. ASSUME NEW m \in S, m <= j PROVE m <= k
    BY <1>0, <2>1
  <2> QED
    BY <2>1 DEF UpTo
<1>2. k \in UpTo(S, k) /\ k \notin UpTo(S, j)
  BY <1>0 DEF UpTo
<1>3. UpTo(S, j) # UpTo(S, k)
  BY <1>2
<1>4. N!Rank(j, S) <= N!Rank(k, S) /\ N!Rank(j, S) # N!Rank(k, S)
  BY <1>1, <1>3, UpToFacts, FS_Subset, RankIs
<1>5. N!Rank(j, S) \in Nat /\ N!Rank(k, S) \in Nat
  BY UpToFacts
<1> QED
  BY <1>4, <1>5

LEMMA RankOfLast ==
  ASSUME NEW S, Positions(S), NEW k, \A j \in S : j <= k
  PROVE  N!Rank(k, S) = Cardinality(S)
<1>1. UpTo(S, k) = S
  BY DEF UpTo
<1> QED
  BY <1>1, RankIs

LEMMA RankOfFirst ==
  ASSUME NEW S, Positions(S), NEW k \in S, \A j \in S : k <= j
  PROVE  N!Rank(k, S) = 1
<1>1. UpTo(S, k) = {k}
  <2>1. ASSUME NEW j \in S, j <= k PROVE j = k
    <3>1. j \in Nat /\ k \in Nat /\ k <= j
      BY PositionsFacts
    <3> QED
      BY <2>1, <3>1
  <2>2. k \in Nat
    BY PositionsFacts
  <2> QED
    BY <2>1, <2>2 DEF UpTo
<1> QED
  BY <1>1, FS_Singleton, RankIs

LEMMA NthIs ==
  ASSUME NEW S, Positions(S), NEW k \in S
  PROVE  N!Nth(S, N!Rank(k, S)) = k
<1>1. ASSUME NEW m \in S, N!Rank(m, S) = N!Rank(k, S) PROVE m = k
  <2>1. m \in Nat /\ k \in Nat
    BY PositionsFacts
  <2>2. N!Rank(k, S) \in Nat /\ N!Rank(m, S) \in Nat
    BY UpToFacts
  <2>3. ~ (m < k) /\ ~ (k < m)
    BY <1>1, <2>1, <2>2, RankGrows
  <2> QED
    BY <2>1, <2>3
<1> QED
  BY <1>1 DEF N!Nth

\* Every set of numbers that is not empty has a first one.
LEMMA LeastNumber ==
  ASSUME NEW S \in SUBSET Nat, S # {}
  PROVE  \E i \in S : \A j \in S : i <= j
<1> DEFINE R == {ss \in Nat \X Nat : ss[1] < ss[2]}
<1>1. IsWellFoundedOn(R, Nat)
  BY NatLessThanWellFounded DEF OpToRel
<1>2. \E i \in S : \A j \in S : ~ (<<j, i>> \in R)
  <2> HIDE DEF R
  <2> QED
    BY <1>1, WFMin
<1>3. PICK i \in S : \A j \in S : ~ (<<j, i>> \in R)
  BY <1>2
<1>4. ASSUME NEW j \in S PROVE i <= j
  <2>1. i \in Nat /\ j \in Nat
    OBVIOUS
  <2>2. <<j, i>> \in Nat \X Nat /\ <<j, i>>[1] = j /\ <<j, i>>[2] = i
    BY <2>1
  <2>3. ~ (j < i)
    BY <1>3, <2>2
  <2> QED
    BY <2>1, <2>3
<1> QED
  BY <1>4

LEMMA NthFacts ==
  ASSUME NEW S, Positions(S), NEW i \in 1..Cardinality(S)
  PROVE  N!Nth(S, i) \in S /\ N!Rank(N!Nth(S, i), S) = i
<1>0. S \subseteq Nat /\ IsFiniteSet(S) /\ Cardinality(S) \in Nat
  BY UpToFacts, PositionsFacts
<1>1. PICK b \in Nat : \A j \in S : j <= b
  BY PositionsFacts
<1>2. N!Rank(b, S) >= i
  <2>1. N!Rank(b, S) = Cardinality(S)
    BY <1>1, RankOfLast
  <2> QED
    BY <1>0, <2>1
<1> DEFINE B == {m \in Nat : N!Rank(m, S) >= i}
<1>3. PICK k \in B : \A j \in B : k <= j
  <2>1. B \in SUBSET Nat /\ b \in B
    BY <1>2
  <2>2. B # {}
    BY <2>1
  <2> HIDE DEF B
  <2> QED
    BY <2>1, <2>2, LeastNumber
<1>4. k \in Nat /\ N!Rank(k, S) \in Nat /\ N!Rank(k, S) >= i
  BY UpToFacts
<1> DEFINE Below == UpTo(S, k) \ {k}
<1>5. IsFiniteSet(Below) /\ Cardinality(Below) \in Nat
  <2>1. Below \in SUBSET UpTo(S, k) /\ IsFiniteSet(UpTo(S, k))
    BY UpToFacts
  <2> HIDE DEF Below
  <2> QED
    BY <2>1, FS_Subset, FS_CardinalityType
<1>6. Cardinality(Below) < i
  <2>1. CASE k = 0
    <3>1. Below = {}
      <4>1. ASSUME NEW j \in S, j <= 0 PROVE j = 0
        BY <1>0, <4>1
      <4> QED
        BY <2>1, <4>1 DEF UpTo
    <3> QED
      BY <3>1, FS_EmptySet
  <2>2. CASE k # 0
    <3>1. PICK m \in Nat : k = m + 1
      <4>1. k - 1 \in Nat /\ k = (k - 1) + 1
        BY <1>4, <2>2
      <4> QED
        BY <4>1
    <3>2. Below = UpTo(S, m)
      <4>1. ASSUME NEW j \in S PROVE j <= k /\ j # k <=> j <= m
        BY <1>0, <3>1
      <4> QED
        BY <4>1 DEF UpTo
    <3>3. m \notin B
      <4>1. ~ (k <= m)
        BY <3>1
      <4> QED
        BY <1>3, <4>1
    <3>4. N!Rank(m, S) \in Nat /\ ~ (N!Rank(m, S) >= i)
      BY <3>3, UpToFacts
    <3> QED
      BY <3>2, <3>4, RankIs
  <2> QED
    BY <2>1, <2>2
<1>7. k \in S
  <2>1. ASSUME k \notin S PROVE FALSE
    <3>1. Below = UpTo(S, k)
      BY <2>1 DEF UpTo
    <3> QED
      BY <1>4, <1>5, <1>6, <3>1, RankIs
  <2> QED
    BY <2>1
<1>8. N!Rank(k, S) = i
  <2>1. UpTo(S, k) = Below \cup {k} /\ k \notin Below
    BY <1>4, <1>7 DEF UpTo
  <2>2. Cardinality(UpTo(S, k)) = Cardinality(Below) + 1
    <3> HIDE DEF Below
    <3> QED
      BY <1>5, <2>1, FS_AddElement
  <2> QED
    BY <1>4, <1>5, <1>6, <2>2, RankIs
<1> QED
  BY <1>7, <1>8, NthIs

LEMMA NthOrder ==
  ASSUME NEW S, Positions(S), NEW i \in 1..Cardinality(S), NEW j \in 1..Cardinality(S), i < j
  PROVE  N!Nth(S, i) < N!Nth(S, j)
<1>1. PICK k \in S : k = N!Nth(S, i) /\ N!Rank(k, S) = i
  BY NthFacts
<1>2. PICK l \in S : l = N!Nth(S, j) /\ N!Rank(l, S) = j
  BY NthFacts
<1>3. k \in Nat /\ l \in Nat
  BY PositionsFacts
<1>4. k # l
  BY <1>1, <1>2
<1>5. ~ (l < k)
  BY <1>1, <1>2, <1>3, RankGrows
<1> QED
  BY <1>1, <1>2, <1>3, <1>4, <1>5

\* Nothing lies between neighbours.
LEMMA NthNext ==
  ASSUME NEW S, Positions(S), NEW i \in 1..Cardinality(S), NEW h \in 1..Cardinality(S),
         h = i + 1, NEW k \in S, N!Nth(S, i) < k, k < N!Nth(S, h)
  PROVE  FALSE
<1>1. PICK a \in S : a = N!Nth(S, i) /\ N!Rank(a, S) = i
  BY NthFacts
<1>2. PICK b \in S : b = N!Nth(S, h) /\ N!Rank(b, S) = i + 1
  BY NthFacts
<1>3. a \in Nat /\ b \in Nat /\ k \in Nat /\ N!Rank(k, S) \in Nat
  BY UpToFacts, PositionsFacts
<1>4. N!Rank(a, S) < N!Rank(k, S) /\ N!Rank(k, S) < N!Rank(b, S)
  BY <1>1, <1>2, <1>3, RankGrows
<1> QED
  BY <1>1, <1>2, <1>3, <1>4

\* An initial part of a set counts like the set.
LEMMA NthInitial ==
  ASSUME NEW S, Positions(S), NEW m \in Nat, NEW i \in 1..N!Rank(m, S)
  PROVE  N!Nth(UpTo(S, m), i) = N!Nth(S, i)
<1>1. Positions(UpTo(S, m))
  BY DEF Positions, UpTo
<1>2. PICK k \in UpTo(S, m) : k = N!Nth(UpTo(S, m), i) /\ N!Rank(k, UpTo(S, m)) = i
  BY <1>1, NthFacts, RankIs
<1>3. k \in S /\ k \in Nat /\ k <= m
  BY PositionsFacts DEF UpTo
<1>4. UpTo(UpTo(S, m), k) = UpTo(S, k)
  <2>1. ASSUME NEW j \in S, j <= k PROVE j <= m
    BY <1>3, <2>1, PositionsFacts
  <2> QED
    BY <2>1 DEF UpTo
<1>5. N!Rank(k, S) = i
  BY <1>2, <1>4, RankIs
<1> QED
  BY <1>2, <1>3, <1>5, NthIs

LEMMA NthOfInterval ==
  ASSUME NEW n \in Nat, NEW i \in 1..n
  PROVE  Positions(1..n) /\ Cardinality(1..n) = n /\ N!Nth(1..n, i) = i
<1>1. Positions(1..n)
  <2>1. 1..n \in SUBSET (0..n)
    OBVIOUS
  <2> QED
    BY <2>1 DEF Positions
<1>4. Cardinality(1..n) = n
  BY FS_Interval
<1>2. UpTo(1..n, i) = 1..i
  BY DEF UpTo
<1>3. N!Rank(i, 1..n) = i
  BY <1>2, FS_Interval, RankIs
<1> QED
  BY <1>1, <1>3, <1>4, NthIs

-----------------------------------------------------------------------------
(* The pieces of a name                                                      *)

LEMMA PositionsIn ==
  ASSUME NEW n \in Nat, NEW S \in SUBSET (1..n)
  PROVE  Positions(S) /\ Cardinality(S) \in Nat
<1>1. S \in SUBSET (0..n)
  OBVIOUS
<1>2. Positions(S)
  BY <1>1 DEF Positions
<1> QED
  BY <1>2, UpToFacts

\* What is kept of a sequence.
LEMMA KeptFacts ==
  ASSUME NEW X, NEW s \in Seq(X), NEW S \in SUBSET (1..Len(s))
  PROVE  /\ N!Kept(s, S) \in Seq(X)
         /\ Len(N!Kept(s, S)) = Cardinality(S)
         /\ \A i \in 1..Cardinality(S) : N!Nth(S, i) \in S /\ N!Kept(s, S)[i] = s[N!Nth(S, i)]
<1>1. Positions(S) /\ Cardinality(S) \in Nat
  BY PositionsIn, LenProperties
<1>2. \A i \in 1..Cardinality(S) : N!Nth(S, i) \in S
  BY <1>1, NthFacts
<1>3. N!Kept(s, S) = [i \in 1..Cardinality(S) |-> s[N!Nth(S, i)]]
  BY SizeIs DEF N!Kept
<1>4. \A i \in 1..Cardinality(S) : s[N!Nth(S, i)] \in X
  BY <1>2, ElementOfSeq
<1>5. N!Kept(s, S) \in [1..Cardinality(S) -> X]
  BY <1>3, <1>4
<1>6. N!Kept(s, S) \in Seq(X)
  BY <1>1, <1>5, SeqDef
<1>7. Len(N!Kept(s, S)) = Cardinality(S)
  BY <1>1, <1>5, <1>6, LenProperties
<1> QED
  BY <1>2, <1>3, <1>6, <1>7

\* normalize_path leaves neither a backslash nor a control character.
LEMMA NormalizedFacts ==
  ASSUME NEW s \in Seq(Chars)
  PROVE  /\ N!Normalized(s) \in Seq(Chars)
         /\ \A i \in 1..Len(N!Normalized(s)) : N!Normalized(s)[i] \notin {"\\"} \cup Controls
<1>1. PICK t : t = N!Slashed(s)
  OBVIOUS
<1>2. t \in Seq(Chars \ {"\\"})
  <2>1. t = [k \in 1..Len(s) |-> IF s[k] = "\\" THEN "/" ELSE s[k]] /\ Len(s) \in Nat
    BY <1>1, LenProperties DEF N!Slashed
  <2>2. \A k \in 1..Len(s) : s[k] \in Chars
    BY ElementOfSeq
  <2>3. "/" \in Chars \ {"\\"}
    <3>1. "/" # "\\"
      OBVIOUS
    <3>2. "/" \in Chars
      BY PartsAssumption DEF N!NamesConstants
    <3> QED
      BY <3>1, <3>2
  <2>4. t \in [1..Len(s) -> Chars \ {"\\"}]
    BY <2>1, <2>2, <2>3
  <2> QED
    BY <2>1, <2>4, SeqDef
<1>3. PICK u : u = N!TrimStart(t)
  OBVIOUS
<1>4. u \in Seq(Chars \ {"\\"})
  <2>1. CASE N!From(t) = {}
    BY <1>3, <2>1 DEF N!TrimStart
  <2>2. CASE N!From(t) # {}
    <3>1. N!From(t) \in SUBSET Nat
      BY DEF N!From
    <3>2. PICK k \in N!From(t) : \A j \in N!From(t) : k <= j
      BY <2>2, <3>1, LeastNumber
    <3>3. PICK l \in N!From(t) : l = CHOOSE k1 \in N!From(t) : \A j \in N!From(t) : k1 <= j
      BY <3>2
    <3>4. u = SubSeq(t, l, Len(t)) /\ l \in 1..Len(t)
      BY <1>3, <2>2, <3>3 DEF N!TrimStart, N!From
    <3> QED
      BY <1>2, <3>4, SubSeqProperties, LenProperties
  <2> QED
    BY <2>1, <2>2
<1>5. PICK S : S = {k \in 1..Len(u) : u[k] \notin Controls}
  OBVIOUS
<1>6. N!Normalized(s) = N!Kept(u, S)
  BY <1>1, <1>3, <1>5 DEF N!Normalized, N!Printable
<1>7. S \in SUBSET (1..Len(u))
  BY <1>5
<1>8. /\ N!Kept(u, S) \in Seq(Chars \ {"\\"})
      /\ Len(N!Kept(u, S)) = Cardinality(S)
      /\ \A i \in 1..Cardinality(S) : N!Nth(S, i) \in S /\ N!Kept(u, S)[i] = u[N!Nth(S, i)]
  BY <1>4, <1>7, KeptFacts
<1>9. N!Kept(u, S) \in Seq(Chars)
  BY <1>8, SeqDef
<1>10. \A i \in 1..Len(N!Kept(u, S)) : N!Kept(u, S)[i] \notin {"\\"} \cup Controls
  <2>1. ASSUME NEW i \in 1..Len(N!Kept(u, S)) PROVE N!Kept(u, S)[i] \notin {"\\"} \cup Controls
    <3>1. N!Kept(u, S)[i] \in Chars \ {"\\"}
      BY <1>8, ElementOfSeq
    <3>2. N!Kept(u, S)[i] \notin Controls
      BY <1>5, <1>8
    <3> QED
      BY <3>1, <3>2
  <2> QED
    BY <2>1
<1> QED
  BY <1>6, <1>9, <1>10

\* The cuts of a name: one in front, one behind.
LEMMA CutsFacts ==
  ASSUME NEW X, NEW s \in Seq(X), NEW C, C = N!Cuts(s)
  PROVE  /\ Positions(C) /\ Cardinality(C) \in Nat /\ Cardinality(C) > 1
         /\ C \in SUBSET (0..Len(s) + 1)
         /\ N!Nth(C, 1) = 0 /\ N!Nth(C, Cardinality(C)) = Len(s) + 1
<1>0. Len(s) \in Nat
  BY LenProperties
<1>1. C \in SUBSET (0..Len(s) + 1) /\ 0 \in C /\ Len(s) + 1 \in C
  BY <1>0 DEF N!Cuts
<1>2. Positions(C)
  BY <1>0, <1>1 DEF Positions
<1>3. N!Rank(0, C) = 1
  BY <1>1, <1>2, RankOfFirst
<1>4. N!Rank(Len(s) + 1, C) = Cardinality(C)
  <2>1. \A j \in C : j <= Len(s) + 1
    BY <1>1
  <2> QED
    BY <1>2, <2>1, RankOfLast
<1>5. Cardinality(C) \in Nat
  BY <1>2, UpToFacts
<1>6. Cardinality(C) > 1
  <2>1. N!Rank(0, C) < N!Rank(Len(s) + 1, C)
    BY <1>0, <1>1, <1>2, RankGrows
  <2> QED
    BY <1>3, <1>4, <1>5, <2>1
<1> QED
  BY <1>1, <1>2, <1>3, <1>4, <1>5, <1>6, NthIs

\* A piece lies between two cuts, and no slash is in it.
PiecesOf(X, s, C, P) ==
  /\ P \in Seq(Seq(X)) /\ Len(P) = Cardinality(C) - 1
  /\ \A i \in 1..Len(P) :
       /\ N!Nth(C, i) \in 0..Len(s) /\ N!Nth(C, i + 1) \in 1..Len(s) + 1
       /\ N!Nth(C, i) < N!Nth(C, i + 1)
       /\ P[i] = SubSeq(s, N!Nth(C, i) + 1, N!Nth(C, i + 1) - 1)
       /\ Len(P[i]) = N!Nth(C, i + 1) - 1 - N!Nth(C, i)
       /\ \A j \in 1..Len(P[i]) : P[i][j] = s[N!Nth(C, i) + j] /\ P[i][j] # "/"

LEMMA PiecesFacts ==
  ASSUME NEW X, NEW s \in Seq(X), NEW C, C = N!Cuts(s), NEW P, P = N!Pieces(s)
  PROVE  PiecesOf(X, s, C, P)
<1>0. Len(s) \in Nat
  BY LenProperties
<1>1. /\ Positions(C) /\ Cardinality(C) \in Nat /\ Cardinality(C) > 1
      /\ C \in SUBSET (0..Len(s) + 1)
  BY CutsFacts
<1>2. PICK m \in Nat : m = Cardinality(C) - 1
  BY <1>1
<1>3. P = [k \in 1..m |-> SubSeq(s, N!Nth(C, k) + 1, N!Nth(C, k + 1) - 1)]
  BY <1>2, SizeIs DEF N!Pieces
<1>4. ASSUME NEW i \in 1..m
      PROVE  /\ N!Nth(C, i) \in 0..Len(s) /\ N!Nth(C, i + 1) \in 1..Len(s) + 1
             /\ N!Nth(C, i) < N!Nth(C, i + 1)
             /\ P[i] = SubSeq(s, N!Nth(C, i) + 1, N!Nth(C, i + 1) - 1)
             /\ P[i] \in Seq(X)
             /\ Len(P[i]) = N!Nth(C, i + 1) - 1 - N!Nth(C, i)
             /\ \A j \in 1..Len(P[i]) : P[i][j] = s[N!Nth(C, i) + j] /\ P[i][j] # "/"
  <2>1. PICK k \in 1..Cardinality(C) : k = i + 1
    BY <1>1, <1>2
  <2>2. i \in 1..Cardinality(C) /\ i < k
    BY <1>1, <1>2, <2>1
  <2>3. PICK a \in C : a = N!Nth(C, i)
    BY <1>1, <2>2, NthFacts
  <2>4. PICK b \in C : b = N!Nth(C, k)
    BY <1>1, NthFacts
  <2>5. a < b
    BY <1>1, <2>2, <2>3, <2>4, NthOrder
  <2>6. a \in Nat /\ a <= Len(s) /\ b \in Nat /\ b >= 1 /\ b <= Len(s) + 1
    BY <1>0, <1>1, <2>5
  <2>7. P[i] = SubSeq(s, a + 1, b - 1)
    BY <1>3, <2>1, <2>3, <2>4
  <2>8. /\ P[i] \in Seq(X) /\ Len(P[i]) = b - 1 - a
        /\ \A j \in 1..Len(P[i]) : P[i][j] = s[a + j]
    BY <1>0, <2>5, <2>6, <2>7, SubSeqProperties
  <2>9. ASSUME NEW j \in 1..Len(P[i]), P[i][j] = "/" PROVE FALSE
    <3>1. PICK c \in Nat : c = a + j
      BY <2>6, <2>8
    <3>2. a < c /\ c < b /\ c \in 1..Len(s)
      BY <2>6, <2>8, <3>1
    <3>3. s[c] = "/"
      BY <2>8, <2>9, <3>1
    <3>4. c \in C
      BY <3>2, <3>3 DEF N!Cuts
    <3> QED
      BY <1>1, <2>1, <2>2, <2>3, <2>4, <3>2, <3>4, NthNext
  <2>10. N!Nth(C, i) = a /\ N!Nth(C, i + 1) = b
    BY <2>1, <2>3, <2>4
  <2>11. a \in 0..Len(s) /\ b \in 1..Len(s) + 1
    BY <1>0, <2>6
  <2>12. \A j \in 1..Len(P[i]) : P[i][j] # "/"
    BY <2>9
  <2> QED
    BY <2>5, <2>7, <2>8, <2>10, <2>11, <2>12
<1>5. P \in Seq(Seq(X)) /\ Len(P) = m
  <2>1. P \in [1..m -> Seq(X)]
    BY <1>3, <1>4
  <2> QED
    BY <1>2, <2>1, SeqDef, LenProperties
<1> QED
  BY <1>2, <1>4, <1>5 DEF PiecesOf

\* A component is a piece that is neither empty nor the directory itself.
LEMMA ComponentsFacts ==
  ASSUME NEW X, NEW s \in Seq(X), NEW c, c = N!Components(s), NEW P, P = N!Pieces(s)
  PROVE  /\ c \in Seq(Seq(X))
         /\ \A i \in 1..Len(c) : c[i] \notin {<< >>, <<".">>} /\ \E k \in 1..Len(P) : c[i] = P[k]
<1>1. PICK S : S = {k \in 1..Len(P) : P[k] \notin {<< >>, <<".">>}}
  OBVIOUS
<1>2. c = N!Kept(P, S)
  BY <1>1 DEF N!Components
<1>3. P \in Seq(Seq(X)) /\ S \in SUBSET (1..Len(P))
  <2>1. PiecesOf(X, s, N!Cuts(s), P)
    BY PiecesFacts
  <2> QED
    BY <1>1, <2>1 DEF PiecesOf
<1>4. /\ c \in Seq(Seq(X)) /\ Len(c) = Cardinality(S)
      /\ \A i \in 1..Cardinality(S) : N!Nth(S, i) \in S /\ c[i] = P[N!Nth(S, i)]
  BY <1>2, <1>3, KeptFacts
<1>5. ASSUME NEW i \in 1..Len(c)
      PROVE  c[i] \notin {<< >>, <<".">>} /\ \E k \in 1..Len(P) : c[i] = P[k]
  <2>1. PICK k : k = N!Nth(S, i)
    OBVIOUS
  <2>2. k \in S /\ c[i] = P[k]
    BY <1>4, <2>1
  <2>3. k \in 1..Len(P) /\ P[k] \notin {<< >>, <<".">>}
    BY <1>1, <2>2
  <2> QED
    BY <2>2, <2>3
<1> QED
  BY <1>4, <1>5

-----------------------------------------------------------------------------
(* Names that begin alike                                                    *)

LEMMA GreatestNumber ==
  ASSUME NEW S, Positions(S), S # {}
  PROVE  \E k \in S : \A j \in S : j <= k
<1>1. PICK m \in Nat : m = Cardinality(S)
  BY UpToFacts
<1>2. m \in 1..Cardinality(S)
  <2>1. m # 0
    BY <1>1, PositionsFacts, FS_EmptySet
  <2> QED
    BY <1>1, <2>1
<1>3. PICK k \in S : N!Rank(k, S) = m
  BY <1>2, NthFacts
<1>4. ASSUME NEW j \in S PROVE j <= k
  <2>1. j \in Nat /\ k \in Nat
    BY PositionsFacts
  <2>2. ASSUME k < j PROVE FALSE
    <3>1. N!Rank(k, S) < N!Rank(j, S) /\ N!Rank(j, S) <= Cardinality(S) /\ N!Rank(j, S) \in Nat
      BY <2>1, <2>2, RankGrows, UpToFacts
    <3> QED
      BY <1>1, <1>3, <3>1
  <2> QED
    BY <2>1, <2>2
<1> QED
  BY <1>4

LEMMA PrefixIs ==
  ASSUME NEW X, NEW s \in Seq(X), NEW t \in Seq(X)
  PROVE  N!IsPrefix(s, t) <=> Len(s) <= Len(t) /\ \A i \in 1..Len(s) : s[i] = t[i]
<1>1. Len(s) \in Nat /\ Len(t) \in Nat
  BY LenProperties
<1>2. SubSeq(s, 1, Len(s)) = s
  BY SubSeqFull
<1>3. ASSUME Len(s) <= Len(t)
      PROVE  /\ SubSeq(t, 1, Len(s)) \in Seq(X) /\ Len(SubSeq(t, 1, Len(s))) = Len(s)
             /\ \A i \in 1..Len(s) : SubSeq(t, 1, Len(s))[i] = t[i]
  <2>1. \A i \in 1..Len(s) : t[i] \in X
    BY <1>1, <1>3, ElementOfSeq
  <2> QED
    BY <1>1, <2>1, SubSeqProperties
<1>4. ASSUME Len(s) <= Len(t)
      PROVE  s = SubSeq(t, 1, Len(s)) <=> \A i \in 1..Len(s) : s[i] = t[i]
  BY <1>3, <1>4, SeqEqual
<1> QED
  BY <1>1, <1>2, <1>4 DEF N!IsPrefix

\* trim_end_matches takes off slashes, and all of them.
LEMMA TrimEndFacts ==
  ASSUME NEW X, NEW s \in Seq(X), NEW p, p = N!TrimEnd(s)
  PROVE  /\ p \in Seq(X) /\ Len(p) <= Len(s) /\ \A i \in 1..Len(p) : p[i] = s[i]
         /\ \A i \in 1..Len(s) : i > Len(p) => s[i] = "/"
<1>0. Len(s) \in Nat
  BY LenProperties
<1>1. CASE N!From(s) = {}
  <2>1. p = << >>
    BY <1>1 DEF N!TrimEnd
  <2>2. \A i \in 1..Len(s) : s[i] = "/"
    BY <1>1 DEF N!From
  <2> QED
    BY <1>0, <2>1, <2>2, EmptySeq
<1>2. CASE N!From(s) # {}
  <2>1. N!From(s) \in SUBSET (1..Len(s))
    BY DEF N!From
  <2>2. Positions(N!From(s))
    BY <1>0, <2>1, PositionsIn
  <2>3. PICK k \in N!From(s) : \A j \in N!From(s) : j <= k
    BY <1>2, <2>2, GreatestNumber
  <2>4. PICK l \in N!From(s) : /\ l = CHOOSE k1 \in N!From(s) : \A j \in N!From(s) : j <= k1
                               /\ \A j \in N!From(s) : j <= l
    BY <2>3
  <2>5. p = SubSeq(s, 1, l) /\ l \in 1..Len(s)
    BY <1>2, <2>1, <2>4 DEF N!TrimEnd
  <2>6. \A i \in 1..l : s[i] \in X
    BY <1>0, <2>5, ElementOfSeq
  <2>7. p \in Seq(X) /\ Len(p) = l /\ \A i \in 1..l : p[i] = s[i]
    BY <1>0, <2>5, <2>6, SubSeqProperties
  <2>8. ASSUME NEW i \in 1..Len(s), i > l PROVE s[i] = "/"
    <3>1. ~ (i <= l)
      BY <1>0, <2>5, <2>8
    <3> QED
      BY <2>4, <3>1 DEF N!From
  <2> QED
    BY <1>0, <2>5, <2>7, <2>8
<1> QED
  BY <1>1, <1>2

\* matches_filter finds a name by itself.
LEMMA MatchesItself ==
  ASSUME NEW n \in Seq(Chars)
  PROVE  N!Matches(n, n)
<1>1. PICK p : p = N!TrimEnd(n)
  OBVIOUS
<1>2. /\ p \in Seq(Chars) /\ Len(p) <= Len(n) /\ \A i \in 1..Len(p) : p[i] = n[i]
      /\ \A i \in 1..Len(n) : i > Len(p) => n[i] = "/"
  BY <1>1, TrimEndFacts
<1>3. Len(p) \in Nat /\ Len(n) \in Nat
  BY <1>2, LenProperties
<1>4. CASE Len(p) = Len(n)
  <2>1. p = n
    BY <1>2, <1>4, SeqEqual
  <2> QED
    BY <1>1, <2>1 DEF N!Matches
<1>5. CASE Len(p) # Len(n)
  <2>1. "/" \in Chars
    BY PartsAssumption DEF N!NamesConstants
  <2>2. PICK t : t = Append(p, "/")
    OBVIOUS
  <2>3. t \in Seq(Chars) /\ Len(t) = Len(p) + 1 /\ t[Len(p) + 1] = "/" /\ \A i \in 1..Len(p) : t[i] = p[i]
    BY <1>2, <1>3, <2>1, <2>2, AppendProperties
  <2>4. Len(p) + 1 \in 1..Len(n) /\ n[Len(p) + 1] = "/"
    BY <1>2, <1>3, <1>5
  <2>5. ASSUME NEW i \in 1..Len(t) PROVE t[i] = n[i]
    BY <1>2, <1>3, <2>3, <2>4
  <2>6. N!IsPrefix(t, n)
    BY <1>3, <2>3, <2>4, <2>5, PrefixIs
  <2> QED
    BY <1>1, <2>2, <2>6 DEF N!Matches
<1> QED
  BY <1>4, <1>5

\* A name that goes on with a slash, or not at all, begins with the same pieces.
Continues(p, s) ==
  /\ Len(p) <= Len(s) /\ \A i \in 1..Len(p) : p[i] = s[i]
  /\ Len(p) = Len(s) \/ s[Len(p) + 1] = "/"

\* A run of c items of a sequence that has them.
LEMMA SliceIs ==
  ASSUME NEW X, NEW s \in Seq(X), NEW a \in Nat, NEW c \in Nat, a + c <= Len(s)
  PROVE  /\ SubSeq(s, a + 1, a + c) \in Seq(X) /\ Len(SubSeq(s, a + 1, a + c)) = c
         /\ \A j \in 1..c : SubSeq(s, a + 1, a + c)[j] = s[a + j]
<1>1. Len(s) \in Nat
  BY LenProperties
<1>2. \A j \in a + 1..a + c : s[j] \in X
  BY <1>1, ElementOfSeq
<1>3. SubSeq(s, a + 1, a + c) \in Seq(X)
  BY <1>2, SubSeqProperties
<1>4. Len(SubSeq(s, a + 1, a + c)) = c
  <2>1. Len(SubSeq(s, a + 1, a + c)) = IF a + 1 <= a + c THEN a + c - (a + 1) + 1 ELSE 0
    BY <1>2, SubSeqProperties
  <2> QED
    BY <2>1
<1>5. ASSUME NEW j \in 1..c PROVE SubSeq(s, a + 1, a + c)[j] = s[a + j]
  <2>1. j \in 1..a + c - (a + 1) + 1
    OBVIOUS
  <2>2. SubSeq(s, a + 1, a + c)[j] = s[a + 1 + j - 1]
    BY <1>2, <2>1, SubSeqProperties
  <2>3. a + 1 + j - 1 = a + j
    OBVIOUS
  <2> QED
    BY <2>2, <2>3
<1> QED
  BY <1>3, <1>4, <1>5

LEMMA SharedPieces ==
  ASSUME NEW X, NEW p \in Seq(X), NEW s \in Seq(X), Continues(p, s),
         NEW P, P = N!Pieces(p), NEW Q, Q = N!Pieces(s), NEW D, D = N!Cuts(s)
  PROVE  /\ Len(P) <= Len(Q) /\ \A i \in 1..Len(P) : P[i] = Q[i]
         /\ N!Nth(D, Len(P) + 1) = Len(p) + 1
<1>1. PICK l \in Nat : l = Len(p) /\ l <= Len(s)
  BY LenProperties DEF Continues
<1>2. Len(s) \in Nat
  BY LenProperties
<1>3. PICK C : C = N!Cuts(p)
  OBVIOUS
<1>4. \A k \in 1..l : p[k] = s[k]
  BY <1>1 DEF Continues
<1>5. l = Len(s) \/ s[l + 1] = "/"
  BY <1>1 DEF Continues
<1>6. C = UpTo(D, l + 1)
  <2>1. ASSUME NEW k \in C PROVE k \in D /\ k <= l + 1
    <3>1. CASE k = 0
      BY <1>1, <3>1 DEF N!Cuts
    <3>2. CASE k = l + 1
      BY <1>1, <1>2, <1>5, <3>2 DEF N!Cuts
    <3>3. CASE k \in 1..l /\ p[k] = "/"
      BY <1>1, <1>2, <1>4, <3>3 DEF N!Cuts
    <3> QED
      BY <1>1, <1>3, <3>1, <3>2, <3>3 DEF N!Cuts
  <2>2. ASSUME NEW k \in D, k <= l + 1 PROVE k \in C
    <3>1. k \in 0..Len(s) + 1 /\ (k = 0 \/ k = Len(s) + 1 \/ (k \in 1..Len(s) /\ s[k] = "/"))
      BY <1>2 DEF N!Cuts
    <3>2. k = 0 \/ k = l + 1 \/ (k \in 1..l /\ p[k] = "/")
      BY <1>1, <1>2, <1>4, <2>2, <3>1
    <3> QED
      BY <1>1, <1>3, <3>2 DEF N!Cuts
  <2> QED
    BY <2>1, <2>2 DEF UpTo
<1>7. /\ Positions(C) /\ Cardinality(C) \in Nat /\ Cardinality(C) > 1
      /\ N!Nth(C, Cardinality(C)) = l + 1
  BY <1>1, <1>3, CutsFacts
<1>8. Positions(D) /\ Cardinality(D) \in Nat
  BY CutsFacts
<1>9. PICK m \in Nat : m = Cardinality(C) /\ m > 1 /\ m <= Cardinality(D) /\ m = N!Rank(l + 1, D)
  <2>1. N!Rank(l + 1, D) = Cardinality(C)
    BY <1>6, RankIs
  <2>2. N!Rank(l + 1, D) <= Cardinality(D)
    BY <1>8, UpToFacts
  <2> QED
    BY <1>7, <2>1, <2>2
<1>10. ASSUME NEW i \in 1..m PROVE N!Nth(C, i) = N!Nth(D, i)
  <2>1. l + 1 \in Nat
    OBVIOUS
  <2> QED
    BY <1>6, <1>8, <1>9, <2>1, NthInitial
<1>14. PiecesOf(X, p, C, P)
  BY <1>3, PiecesFacts
<1>15. PiecesOf(X, s, D, Q)
  BY PiecesFacts
<1>11. P \in Seq(Seq(X)) /\ Len(P) = m - 1 /\ Len(Q) = Cardinality(D) - 1
  BY <1>9, <1>14, <1>15 DEF PiecesOf
<1>12. ASSUME NEW i \in 1..Len(P) PROVE P[i] = Q[i]
  <2>1. PICK k \in 1..m : k = i + 1
    BY <1>9, <1>11
  <2>2. i \in 1..m /\ i \in 1..Len(Q)
    BY <1>8, <1>9, <1>11
  <2>3. PICK a, b : a = N!Nth(C, i) /\ b = N!Nth(C, k)
    OBVIOUS
  <2>4. a = N!Nth(D, i) /\ b = N!Nth(D, k)
    BY <1>10, <2>2, <2>3
  <2>5. /\ a \in 0..l /\ b \in 1..l + 1 /\ a < b
        /\ P[i] = SubSeq(p, a + 1, b - 1)
    BY <1>1, <1>14, <2>1, <2>3 DEF PiecesOf
  <2>6. Q[i] = SubSeq(s, a + 1, b - 1)
    BY <1>15, <2>1, <2>2, <2>4 DEF PiecesOf
  <2>7. \A j \in a + 1..b - 1 : j \in 1..l
    BY <2>5
  <2>8. \A j \in a + 1..b - 1 : p[j] \in X /\ p[j] = s[j]
    BY <1>1, <1>4, <2>7, ElementOfSeq
  <2>9. PICK c \in Nat : c = b - 1 - a
    BY <2>5
  <2>14. P[i] = SubSeq(p, a + 1, a + c) /\ Q[i] = SubSeq(s, a + 1, a + c)
    <3>1. b - 1 = a + c
      BY <2>5, <2>9
    <3> QED
      BY <2>5, <2>6, <3>1
  <2>15. a \in Nat /\ a + c <= Len(p) /\ a + c <= Len(s)
    BY <1>1, <1>2, <2>5, <2>9
  <2>10. /\ P[i] \in Seq(X) /\ Len(P[i]) = c
         /\ \A j \in 1..c : P[i][j] = p[a + j]
    BY <2>14, <2>15, SliceIs
  <2>11. /\ Q[i] \in Seq(X) /\ Len(Q[i]) = c
         /\ \A j \in 1..c : Q[i][j] = s[a + j]
    BY <2>14, <2>15, SliceIs
  <2>12. \A j \in 1..c : a + j \in a + 1..b - 1
    BY <2>5, <2>9
  <2>13. \A j \in 1..c : P[i][j] = Q[i][j]
    BY <2>8, <2>10, <2>11, <2>12
  <2> QED
    BY <2>10, <2>11, <2>13, SeqEqual
<1>13. N!Nth(D, m) = l + 1
  BY <1>7, <1>9, <1>10
<1> QED
  BY <1>1, <1>8, <1>9, <1>11, <1>12, <1>13

\* The first pieces of a name are kept whole when all others are nothing.
LEMMA KeepsFirst ==
  ASSUME NEW X, NEW P \in Seq(X), NEW Q \in Seq(X), Len(P) <= Len(Q),
         \A i \in 1..Len(P) : P[i] = Q[i]
  PROVE  N!Kept(Q, 1..Len(P)) = P
<1>1. PICK n \in Nat : n = Len(P) /\ n <= Len(Q)
  BY LenProperties
<1>2. Len(Q) \in Nat
  BY LenProperties
<1>3. 1..n \in SUBSET (1..Len(Q))
  BY <1>1, <1>2
<1>4. Cardinality(1..n) = n /\ \A i \in 1..n : N!Nth(1..n, i) = i
  <2>1. \A i \in 1..n : N!Nth(1..n, i) = i
    BY NthOfInterval
  <2>2. Cardinality(1..n) = n
    BY FS_Interval
  <2> QED
    BY <2>1, <2>2
<1>5. PICK K : K = N!Kept(Q, 1..n)
  OBVIOUS
<1>6. /\ K \in Seq(X) /\ Len(K) = n
      /\ \A i \in 1..n : K[i] = Q[N!Nth(1..n, i)]
  BY <1>3, <1>4, <1>5, KeptFacts
<1>7. \A i \in 1..n : K[i] = P[i]
  BY <1>1, <1>4, <1>6
<1>8. K = P
  BY <1>1, <1>6, <1>7, SeqEqual
<1> QED
  BY <1>1, <1>5, <1>8

\* The components of an operand are the pieces in front of its trailing slashes.
LEMMA TrimComponents ==
  ASSUME NEW X, NEW s \in Seq(X), NEW p \in Seq(X), Continues(p, s), N!Plain(p),
         \A i \in 1..Len(s) : i > Len(p) => s[i] = "/"
  PROVE  N!Components(s) = N!Pieces(p)
<1>1. PICK P, Q, D : P = N!Pieces(p) /\ Q = N!Pieces(s) /\ D = N!Cuts(s)
  OBVIOUS
<1>2. /\ Len(P) <= Len(Q) /\ \A i \in 1..Len(P) : P[i] = Q[i]
      /\ N!Nth(D, Len(P) + 1) = Len(p) + 1
  BY <1>1, SharedPieces
<1>3. PiecesOf(X, s, D, Q)
  BY <1>1, PiecesFacts
<1>4. PiecesOf(X, p, N!Cuts(p), P)
  BY <1>1, PiecesFacts
<1>5. P \in Seq(Seq(X)) /\ Q \in Seq(Seq(X)) /\ Len(P) \in Nat /\ Len(Q) \in Nat
  BY <1>3, <1>4, LenProperties DEF PiecesOf
<1>6. Len(p) \in Nat /\ Len(s) \in Nat
  BY LenProperties
<1>7. Positions(D) /\ Cardinality(D) \in Nat /\ Len(Q) = Cardinality(D) - 1
  <2>1. Positions(D)
    BY <1>1, CutsFacts
  <2> QED
    BY <1>3, <2>1, UpToFacts DEF PiecesOf
<1>8. ASSUME NEW k \in 1..Len(Q), k > Len(P) PROVE Q[k] = << >>
  <2>1. PICK a : a = N!Nth(D, k)
    OBVIOUS
  <2>2. /\ a \in 0..Len(s) /\ N!Nth(D, k + 1) \in 1..Len(s) + 1 /\ a < N!Nth(D, k + 1)
        /\ Len(Q[k]) = N!Nth(D, k + 1) - 1 - a
        /\ \A j \in 1..Len(Q[k]) : Q[k][j] = s[a + j] /\ Q[k][j] # "/"
    BY <1>3, <2>1 DEF PiecesOf
  <2>3. a >= Len(p) + 1
    <3>1. PICK i \in 1..Cardinality(D) : i = Len(P) + 1
      BY <1>5, <1>7, <1>8
    <3>2. k \in 1..Cardinality(D) /\ (i = k \/ i < k)
      BY <1>5, <1>7, <1>8, <3>1
    <3>3. i < k => N!Nth(D, i) < N!Nth(D, k)
      BY <1>7, <3>2, NthOrder
    <3>4. N!Nth(D, i) = Len(p) + 1
      BY <1>2, <3>1
    <3> QED
      BY <1>6, <2>1, <2>2, <3>2, <3>3, <3>4
  <2>4. Q[k] \in Seq(X)
    BY <1>5, ElementOfSeq
  <2>5. ASSUME Len(Q[k]) # 0 PROVE FALSE
    <3>1. 1 \in 1..Len(Q[k])
      BY <2>4, <2>5, LenProperties
    <3>2. a + 1 \in 1..Len(s) /\ a + 1 > Len(p)
      BY <1>6, <2>2, <2>3, <3>1
    <3> QED
      BY <2>2, <3>1, <3>2
  <2> QED
    BY <2>4, <2>5, EmptySeq
<1>9. ASSUME NEW k \in 1..Len(P) PROVE Q[k] \notin {<< >>, <<".">>}
  BY <1>1, <1>2 DEF N!Plain
<1>10. {k \in 1..Len(Q) : Q[k] \notin {<< >>, <<".">>}} = 1..Len(P)
  BY <1>2, <1>5, <1>8, <1>9
<1>11. N!Components(s) = N!Kept(Q, 1..Len(P))
  BY <1>1, <1>10 DEF N!Components
<1> QED
  BY <1>1, <1>2, <1>5, <1>11, KeepsFirst

\* Names that begin with the same pieces begin with the same characters.
LEMMA SamePieces ==
  ASSUME NEW X, NEW p \in Seq(X), NEW s \in Seq(X),
         NEW P, P = N!Pieces(p), NEW Q, Q = N!Pieces(s),
         Len(P) <= Len(Q), \A i \in 1..Len(P) : P[i] = Q[i]
  PROVE  Continues(p, s)
<1>1. PICK C, D : C = N!Cuts(p) /\ D = N!Cuts(s)
  OBVIOUS
<1>2. PiecesOf(X, p, C, P) /\ PiecesOf(X, s, D, Q)
  BY <1>1, PiecesFacts
<1>3. /\ Positions(C) /\ Cardinality(C) \in Nat /\ Cardinality(C) > 1
      /\ C \in SUBSET (0..Len(p) + 1)
      /\ N!Nth(C, 1) = 0 /\ N!Nth(C, Cardinality(C)) = Len(p) + 1
  BY <1>1, CutsFacts
<1>4. /\ Positions(D) /\ Cardinality(D) \in Nat /\ Cardinality(D) > 1
      /\ D \in SUBSET (0..Len(s) + 1)
      /\ N!Nth(D, 1) = 0
  BY <1>1, CutsFacts
<1>5. Len(p) \in Nat /\ Len(s) \in Nat
  BY LenProperties
<1>6. PICK m \in Nat : m = Cardinality(C) /\ m > 1 /\ Len(P) = m - 1 /\ m <= Cardinality(D)
  BY <1>2, <1>3, <1>4 DEF PiecesOf
<1>13. Len(Q) \in Nat
  BY <1>2, <1>4 DEF PiecesOf
<1>14. ASSUME NEW h \in 1..m - 1 PROVE h \in 1..Len(P) /\ h \in 1..Len(Q) /\ P[h] = Q[h]
  BY <1>6, <1>13
<1> DEFINE Other == {i \in 1..m : N!Nth(C, i) # N!Nth(D, i)}
<1>7. Other = {}
  <2>1. SUFFICES ASSUME Other # {} PROVE FALSE
    OBVIOUS
  <2>2. PICK i \in Other : \A j \in Other : i <= j
    <3>1. Other \in SUBSET Nat
      OBVIOUS
    <3> HIDE DEF Other
    <3> QED
      BY <2>1, <3>1, LeastNumber
  <2>3. i \in 1..m /\ N!Nth(C, i) # N!Nth(D, i) /\ i # 1
    BY <1>3, <1>4
  <2>4. PICK h \in 1..m - 1 : i = h + 1
    <3>1. i - 1 \in 1..m - 1 /\ i = (i - 1) + 1
      BY <1>6, <2>3
    <3> QED
      BY <3>1
  <2>5. N!Nth(C, h) = N!Nth(D, h)
    <3>1. h \in 1..m /\ ~ (i <= h)
      BY <1>6, <2>4
    <3> QED
      BY <2>2, <3>1
  <2>6. h \in 1..Len(P) /\ h \in 1..Len(Q) /\ P[h] = Q[h]
    BY <1>14, <2>4
  <2>7. /\ N!Nth(C, h) \in 0..Len(p) /\ N!Nth(C, i) \in 1..Len(p) + 1
        /\ Len(P[h]) = N!Nth(C, i) - 1 - N!Nth(C, h)
    BY <1>2, <2>4, <2>6 DEF PiecesOf
  <2>8. /\ N!Nth(D, i) \in 1..Len(s) + 1
        /\ Len(Q[h]) = N!Nth(D, i) - 1 - N!Nth(D, h)
    BY <1>2, <2>4, <2>6 DEF PiecesOf
  <2>9. N!Nth(C, i) = N!Nth(D, i)
    BY <1>5, <2>5, <2>6, <2>7, <2>8
  <2> QED
    BY <2>3, <2>9
<1>8. \A i \in 1..m : N!Nth(C, i) = N!Nth(D, i)
  BY <1>7
<1>9. ASSUME NEW c \in C PROVE c \in D
  <2>1. PICK i \in 1..m : N!Nth(C, i) = c
    <3>1. N!Rank(c, C) \in Nat /\ N!Rank(c, C) <= m
      BY <1>3, <1>6, UpToFacts
    <3>2. N!Rank(c, C) # 0
      <4>1. c \in UpTo(C, c)
        BY <1>3, PositionsFacts DEF UpTo
      <4>2. UpTo(C, c) # {} /\ IsFiniteSet(UpTo(C, c))
        BY <1>3, <4>1, UpToFacts
      <4> QED
        BY <4>2, RankIs, FS_EmptySet
    <3>3. N!Nth(C, N!Rank(c, C)) = c
      BY <1>3, NthIs
    <3> QED
      BY <1>6, <3>1, <3>2, <3>3
  <2>2. i \in 1..Cardinality(D)
    BY <1>4, <1>6
  <2> QED
    BY <1>4, <1>8, <2>1, <2>2, NthFacts
<1>10. Len(p) + 1 \in D
  <2>1. N!Nth(C, m) = N!Nth(D, m) /\ N!Nth(C, m) = Len(p) + 1 /\ m \in 1..Cardinality(D)
    BY <1>3, <1>4, <1>6, <1>8
  <2> QED
    BY <1>4, <2>1, NthFacts
<1>11. Len(p) <= Len(s) /\ (Len(p) = Len(s) \/ s[Len(p) + 1] = "/")
  BY <1>1, <1>5, <1>10 DEF N!Cuts
<1>12. ASSUME NEW k \in 1..Len(p) PROVE p[k] = s[k]
  <2>1. CASE p[k] = "/"
    <3>1. k \in C
      BY <1>1, <2>1 DEF N!Cuts
    <3>2. k \in D /\ k # 0 /\ k # Len(s) + 1
      BY <1>5, <1>9, <1>11, <3>1
    <3> QED
      BY <1>1, <2>1, <3>2 DEF N!Cuts
  <2>2. CASE p[k] # "/"
    <3> DEFINE Later == {i \in 1..m : N!Nth(C, i) > k}
    <3>1. m \in Later
      BY <1>3, <1>5, <1>6
    <3>2. PICK i \in Later : \A j \in Later : i <= j
      <4>1. Later \in SUBSET Nat /\ Later # {}
        BY <3>1
      <4> HIDE DEF Later
      <4> QED
        BY <4>1, LeastNumber
    <3>3. i # 1
      BY <1>3
    <3>4. PICK h \in 1..m - 1 : i = h + 1
      <4>1. i \in 1..m /\ i - 1 \in 1..m - 1 /\ i = (i - 1) + 1
        BY <1>6, <3>3
      <4> QED
        BY <4>1
    <3>5. h \in 1..m /\ h \notin Later
      <4>1. h \in 1..m /\ ~ (i <= h)
        BY <1>6, <3>4
      <4> HIDE DEF Later
      <4> QED
        BY <3>2, <4>1
    <3>6. PICK a \in C : a = N!Nth(C, h)
      BY <1>3, <1>6, <3>5, NthFacts
    <3>7. k \notin C
      BY <1>1, <1>5, <2>2 DEF N!Cuts
    <3>8. a \in Nat /\ a < k
      <4>1. a \in Nat /\ ~ (a > k) /\ a # k
        BY <1>3, <3>5, <3>6, <3>7
      <4> QED
        BY <4>1
    <3>9. PICK b : b = N!Nth(C, i)
      OBVIOUS
    <3>10. k < b
      BY <3>2, <3>9
    <3>11. h \in 1..Len(P) /\ h \in 1..Len(Q) /\ P[h] = Q[h]
      BY <1>14, <3>4
    <3>12. /\ b \in 1..Len(p) + 1 /\ Len(P[h]) = b - 1 - a
           /\ \A j \in 1..Len(P[h]) : P[h][j] = p[a + j]
      BY <1>2, <3>4, <3>6, <3>9, <3>11 DEF PiecesOf
    <3>13. \A j \in 1..Len(Q[h]) : Q[h][j] = s[a + j]
      <4>1. a = N!Nth(D, h)
        BY <1>8, <3>5, <3>6
      <4> QED
        BY <1>2, <3>11, <4>1 DEF PiecesOf
    <3>14. PICK j \in Nat : k = a + j /\ j \in 1..Len(P[h])
      <4>1. k - a \in Nat /\ k = a + (k - a) /\ k - a \in 1..Len(P[h])
        BY <3>8, <3>10, <3>12
      <4> QED
        BY <4>1
    <3> QED
      BY <3>11, <3>12, <3>13, <3>14
  <2> QED
    BY <2>1, <2>2
<1> QED
  BY <1>11, <1>12 DEF Continues

\* matches_filter compares pieces.
LEMMA MatchesPieces ==
  ASSUME NEW n \in Seq(Chars), NEW s \in Seq(Chars), NEW p, p = N!TrimEnd(s)
  PROVE  N!Matches(n, s) <=> N!IsPrefix(N!Pieces(p), N!Pieces(n))
<1>1. p \in Seq(Chars)
  BY TrimEndFacts
<1>2. Len(p) \in Nat /\ Len(n) \in Nat
  BY <1>1, LenProperties
<1>3. N!Matches(n, s) <=> Continues(p, n)
  <2>1. PICK t : t = Append(p, "/")
    OBVIOUS
  <2>2. "/" \in Chars
    BY PartsAssumption DEF N!NamesConstants
  <2>3. t \in Seq(Chars) /\ Len(t) = Len(p) + 1 /\ t[Len(p) + 1] = "/" /\ \A i \in 1..Len(p) : t[i] = p[i]
    BY <1>1, <1>2, <2>1, <2>2, AppendProperties
  <2>4. N!IsPrefix(t, n) <=> Len(t) <= Len(n) /\ \A i \in 1..Len(t) : t[i] = n[i]
    BY <2>3, PrefixIs
  <2>5. n = p <=> Len(p) = Len(n) /\ \A i \in 1..Len(p) : p[i] = n[i]
    BY <1>1, SeqEqual
  <2>6. N!IsPrefix(t, n) <=> /\ Len(p) + 1 <= Len(n) /\ n[Len(p) + 1] = "/"
                             /\ \A i \in 1..Len(p) : p[i] = n[i]
    <3>1. 1..Len(t) = 1..Len(p) \cup {Len(p) + 1}
      BY <1>2, <2>3
    <3> QED
      BY <2>3, <2>4, <3>1
  <2>7. N!Matches(n, s) <=> n = p \/ N!IsPrefix(t, n)
    BY <2>1 DEF N!Matches
  <2> QED
    BY <1>2, <2>5, <2>6, <2>7 DEF Continues
<1>4. PICK P, Q : P = N!Pieces(p) /\ Q = N!Pieces(n)
  OBVIOUS
<1>5. P \in Seq(Seq(Chars)) /\ Q \in Seq(Seq(Chars))
  <2>1. PiecesOf(Chars, p, N!Cuts(p), P) /\ PiecesOf(Chars, n, N!Cuts(n), Q)
    BY <1>1, <1>4, PiecesFacts
  <2> QED
    BY <2>1 DEF PiecesOf
<1>6. N!IsPrefix(P, Q) <=> Len(P) <= Len(Q) /\ \A i \in 1..Len(P) : P[i] = Q[i]
  <2>1. PICK X : X = Seq(Chars)
    OBVIOUS
  <2>2. P \in Seq(X) /\ Q \in Seq(X)
    BY <1>5, <2>1
  <2>3. \A f \in Seq(X), g \in Seq(X) : N!IsPrefix(f, g) <=> Len(f) <= Len(g) /\ \A i \in 1..Len(f) : f[i] = g[i]
    BY PrefixIs
  <2> QED
    BY <2>2, <2>3
<1>7. Continues(p, n) => Len(P) <= Len(Q) /\ \A i \in 1..Len(P) : P[i] = Q[i]
  BY <1>1, <1>4, SharedPieces
<1>8. Len(P) <= Len(Q) /\ (\A i \in 1..Len(P) : P[i] = Q[i]) => Continues(p, n)
  BY <1>1, <1>4, SamePieces
<1> QED
  BY <1>3, <1>4, <1>6, <1>7, <1>8

\* And so it compares components.
LEMMA MatchesComponents ==
  ASSUME NEW n \in Seq(Chars), NEW s \in Seq(Chars), N!Plain(n), N!Plain(N!TrimEnd(s))
  PROVE  N!Matches(n, s) <=> N!IsPrefix(N!Components(s), N!Components(n))
<1>1. PICK p : p = N!TrimEnd(s)
  OBVIOUS
<1>2. /\ p \in Seq(Chars) /\ Len(p) <= Len(s) /\ \A i \in 1..Len(p) : p[i] = s[i]
      /\ \A i \in 1..Len(s) : i > Len(p) => s[i] = "/"
  BY <1>1, TrimEndFacts
<1>3. Len(p) \in Nat /\ Len(s) \in Nat /\ Len(n) \in Nat
  BY <1>2, LenProperties
<1>4. Continues(p, s)
  <2>1. Len(p) # Len(s) => Len(p) + 1 \in 1..Len(s) /\ Len(p) + 1 > Len(p)
    BY <1>2, <1>3
  <2> QED
    BY <1>2, <2>1 DEF Continues
<1>5. Continues(n, n) /\ \A i \in 1..Len(n) : i > Len(n) => n[i] = "/"
  BY <1>3 DEF Continues
<1>6. N!Components(s) = N!Pieces(p)
  BY <1>1, <1>2, <1>4, TrimComponents
<1>7. N!Components(n) = N!Pieces(n)
  BY <1>5, TrimComponents
<1> QED
  BY <1>1, <1>6, <1>7, MatchesPieces

-----------------------------------------------------------------------------
(* The name of an entry                                                      *)

\* Where the name, the choice and the path come from.
Named ==
  /\ raw \in RawNames /\ asked \in Patterns \cup {<< >>} /\ selected \in BOOLEAN
  /\ n_pc \in {"parse", "select", "join", "joined", "refused"}
  /\ IF n_pc = "parse" THEN name = << >> /\ asked = << >> ELSE name = N!Normalized(raw)
  /\ asked # << >> => selected = N!Matches(name, asked)
  /\ n_pc \in {"joined", "refused"} => selected
  /\ IF n_pc = "joined" THEN path = N!Components(name) /\ ~N!Refuses(name) ELSE path = << >>

LEMMA NamedInit == N!Init => Named
BY DEF N!Init, Named

LEMMA NamedAlways == Named /\ [N!Next \/ N!Done]_N!vars => Named'
<1> SUFFICES ASSUME Named, [N!Next \/ N!Done]_N!vars PROVE Named'
  OBVIOUS
<1>1. CASE N!Parse
  BY <1>1 DEF N!Parse, Named
<1>2. ASSUME NEW pat \in Patterns, N!Select(pat) PROVE Named'
  <2>1. N!Matches(name, pat) \in BOOLEAN
    BY DEF N!Matches, N!IsPrefix
  <2> QED
    BY <1>2, <2>1 DEF N!Select, Named
<1>3. CASE N!SelectAll
  BY <1>3 DEF N!SelectAll, Named
<1>4. CASE N!Join
  BY <1>4 DEF N!Join, N!ToJoin, Named
<1>5. CASE UNCHANGED N!vars
  BY <1>5 DEF N!vars, Named
<1>6. CASE N!Done
  BY <1>5, <1>6 DEF N!Done
<1> QED
  BY <1>1, <1>2, <1>3, <1>4, <1>5, <1>6 DEF N!Next

LEMMA NamedIsSafe == Named => NamesAreSafe
<1> SUFFICES ASSUME Named PROVE NamesAreSafe
  OBVIOUS
<1>1. "/" \in Chars /\ raw \in Seq(Chars) /\ asked \in Seq(Chars)
  <2>1. RawNames \cup Patterns \subseteq Seq(Chars)
    BY PartsAssumption DEF N!NamesConstants
  <2> QED
    BY <2>1, EmptySeq, PartsAssumption DEF Named, N!NamesConstants
<1>2. /\ N!Normalized(raw) \in Seq(Chars)
      /\ \A i \in 1..Len(N!Normalized(raw)) : N!Normalized(raw)[i] \notin {"\\"} \cup Controls
  BY <1>1, NormalizedFacts
<1>3. name \in Seq(Chars)
  BY <1>2, EmptySeq DEF Named
<1>4. n_pc = "joined" =>
        /\ path \in Seq(Seq(Chars))
        /\ \A k \in 1..Len(path) : path[k] \notin {<< >>, <<".">>}
                                   /\ \E i \in 1..Len(N!Pieces(name)) : path[k] = N!Pieces(name)[i]
  BY <1>3, ComponentsFacts DEF Named
<1>5. N!TypeOK
  <2>1. CASE n_pc = "joined"
    <3>1. \A k \in 1..Len(path) : path[k] \in Seq(Chars)
      BY <1>4, <2>1, ElementOfSeq
    <3> QED
      BY <1>3, <3>1 DEF N!TypeOK, Named
  <2>2. CASE n_pc # "joined"
    <3>1. path = << >> /\ Len(path) = 0
      BY <2>2, EmptySeq DEF Named
    <3> QED
      BY <1>3, <3>1 DEF N!TypeOK, Named
  <2> QED
    BY <2>1, <2>2
<1>6. N!NeverUp
  <2>1. SUFFICES ASSUME n_pc = "joined" PROVE N!NeverUp
    BY DEF N!NeverUp
  <2>2. path = N!Components(name) /\ ~N!Refuses(name) /\ name = N!Normalized(raw)
    BY <2>1 DEF Named
  <2>3. path # << >> /\ ~ N!Contains(path, <<".", ".">>)
    BY <2>2 DEF N!Refuses, N!HasParent
  <2>4. ASSUME NEW k \in 1..Len(path) PROVE path[k] \notin {<< >>, <<".">>, <<".", ".">>}
    BY <1>4, <2>1, <2>3 DEF N!Contains
  <2>5. ASSUME NEW k \in 1..Len(path)
        PROVE  N!ToSet(path[k]) \cap ({"/", "\\"} \cup Controls) = {}
    <3>1. PICK P : P = N!Pieces(name)
      OBVIOUS
    <3>2. PICK i \in 1..Len(P) : path[k] = P[i]
      BY <1>4, <2>1, <3>1
    <3>3. PiecesOf(Chars, name, N!Cuts(name), P)
      BY <1>3, <3>1, PiecesFacts
    <3>4. PICK a : a = N!Nth(N!Cuts(name), i)
      OBVIOUS
    <3>5. PICK b : b = N!Nth(N!Cuts(name), i + 1)
      OBVIOUS
    <3>6. /\ P[i] \in Seq(Chars)
          /\ a \in 0..Len(name) /\ b \in 1..Len(name) + 1
          /\ Len(P[i]) = b - 1 - a
          /\ \A j \in 1..Len(P[i]) : P[i][j] = name[a + j] /\ P[i][j] # "/"
      BY <3>3, <3>4, <3>5, ElementOfSeq DEF PiecesOf
    <3>7. ASSUME NEW j \in 1..Len(P[i]) PROVE P[i][j] \notin {"/", "\\"} \cup Controls
      <4>1. a + j \in 1..Len(name)
        BY <1>3, <3>6, LenProperties
      <4>2. P[i][j] = name[a + j] /\ P[i][j] # "/"
        BY <3>6
      <4>3. name[a + j] \notin {"\\"} \cup Controls
        BY <1>2, <2>2, <4>1
      <4> QED
        BY <4>2, <4>3
    <3>8. DOMAIN P[i] = 1..Len(P[i])
      BY <3>6, LenProperties
    <3> QED
      BY <3>2, <3>7, <3>8 DEF N!ToSet
  <2> QED
    BY <2>3, <2>4, <2>5 DEF N!NeverUp
<1>7. N!SelectsByComponent
  <2>1. N!Matches(name, name)
    BY <1>3, MatchesItself
  <2>2. ASSUME asked # << >>, N!Plain(name), N!Plain(N!TrimEnd(asked))
        PROVE  selected = N!IsPrefix(N!Components(asked), N!Components(name))
    <3>1. selected = N!Matches(name, asked)
      BY <2>2 DEF Named
    <3>2. N!Matches(name, asked) <=> N!IsPrefix(N!Components(asked), N!Components(name))
      BY <1>1, <1>3, <2>2, MatchesComponents
    <3>3. N!IsPrefix(N!Components(asked), N!Components(name)) \in BOOLEAN
      BY DEF N!IsPrefix
    <3>4. selected \in BOOLEAN
      BY DEF Named
    <3> QED
      BY <3>1, <3>2, <3>3, <3>4
  <2> QED
    BY <2>1, <2>2 DEF N!SelectsByComponent
<1> QED
  BY <1>5, <1>6, <1>7 DEF NamesAreSafe

\* Whatever an archive calls an entry, the path it is given leads down from the
\* destination through names that can stand in a directory (normalize_path and
\* safe_join), and a FILE operand selects by whole components (matches_filter).
THEOREM NamesStaySafe == N!Spec => []NamesAreSafe
<1>1. N!Spec => []Named
  BY NamedInit, NamedAlways, PTL DEF N!Spec
<1> QED
  BY <1>1, NamedIsSafe, PTL
-----------------------------------------------------------------------------
(* How a word is read                                                        *)

\* A place in what was typed, with what was understood up to there: in front of a
\* word, or, with a letter that is not 0, inside of a cluster.
At(i, j, d, c, s) == [word |-> i, letter |-> j, ended |-> d, cli |-> c, status |-> s]
Beginning == At(1, 0, FALSE, A!NoCli, "none")

Words == Seq(Chars)
RestOf(s, k) == SubSeq(s, k, Len(s))
Readable(w) == NotUnicode \notin A!ToSet(w)
IsOption(w) == Len(w) > 1 /\ w[1] = "-"
IsCluster(w) == Readable(w) /\ IsOption(w) /\ w[2] # "-"

Signs(w) == {k \in 3..Len(w) : w[k] = "="}
Sign(w) == CHOOSE k \in Signs(w) : \A j \in Signs(w) : k <= j
NameOf(w) == SubSeq(w, 3, IF Signs(w) # {} THEN Sign(w) - 1 ELSE Len(w))
ValueOf(w) == SubSeq(w, Sign(w) + 1, Len(w))
Spells(set, w) == \E n \in set : NameOf(w) = <<n>>

WithFlag(c, n) == [c EXCEPT !.flags = @ \cup {n}]
Halted(x, why) == At(x.word, x.letter, x.ended, x.cli, why)
Passed(x, k, c) == At(x.word + k, 0, x.ended, c, "none")
Taken(x, o, v) ==
  IF Readable(v) THEN Passed(x, 2, A!WithValue(x.cli, o, v)) ELSE Halted(x, "panic")

\* Where the reading goes on from a word w, with v behind it.
AfterLong(x, w, v) ==
  IF Spells(A!Long(A!Flag), w) THEN Passed(x, 1, WithFlag(x.cli, NameOf(w)[1]))
  ELSE IF Spells(A!Long(A!Option), w)
    THEN IF Signs(w) # {} THEN Passed(x, 1, A!WithValue(x.cli, NameOf(w)[1], ValueOf(w)))
                          ELSE Taken(x, NameOf(w)[1], v)
  ELSE IF Spells(A!Long(A!Stop), w) THEN Halted(x, NameOf(w)[1])
  ELSE Halted(x, "usage")
AfterWord(x, w, v) ==
  IF ~Readable(w) THEN Halted(x, "panic")
  ELSE IF x.ended \/ ~IsOption(w) THEN Passed(x, 1, A!WithOperand(x.cli, w))
  ELSE IF w = <<"-", "-">> THEN At(x.word + 1, 0, TRUE, x.cli, "none")
  ELSE IF w[2] = "-" THEN AfterLong(x, w, v)
  ELSE At(x.word, 2, x.ended, x.cli, "none")
AfterLetter(x, w, v) ==
  IF x.letter > Len(w) THEN Passed(x, 1, x.cli)
  ELSE IF w[x.letter] \in DOMAIN A!Option
    THEN IF x.letter < Len(w)
           THEN Passed(x, 1, A!WithValue(x.cli, A!Option[w[x.letter]], RestOf(w, x.letter + 1)))
           ELSE Taken(x, A!Option[w[x.letter]], v)
  ELSE IF w[x.letter] \in DOMAIN A!Flag
    THEN At(x.word, x.letter + 1, x.ended, WithFlag(x.cli, A!Flag[w[x.letter]]), "none")
  ELSE IF w[x.letter] \in DOMAIN A!Stop THEN Halted(x, A!Stop[w[x.letter]])
  ELSE Halted(x, "usage")
After(ws, x) ==
  IF x.letter = 0 THEN AfterWord(x, ws[x.word], ws[x.word + 1])
                  ELSE AfterLetter(x, ws[x.word], ws[x.word + 1])

\* Whether it goes on when the first m words will not change and of a last one the
\* letters up to now.
LongAsks(w) ==
  /\ Readable(w) /\ IsOption(w) /\ w[2] = "-" /\ w # <<"-", "-">>
  /\ Signs(w) = {} /\ Spells(A!Long(A!Option), w)
LetterAsks(w, k) == k = Len(w) /\ w[k] \in DOMAIN A!Option
GoesOn(ws, m, x) ==
  /\ x.status = "none" /\ x.word \in 1..Len(ws) /\ x.letter \in Nat
  /\ IF x.letter = 0
       THEN IF x.word <= m THEN LongAsks(ws[x.word]) /\ ~x.ended => x.word < m
                           ELSE IsCluster(ws[x.word]) /\ ~x.ended
       ELSE IF x.word <= m THEN LetterAsks(ws[x.word], x.letter) => x.word < m
                           ELSE x.letter <= Len(ws[x.word]) /\ ws[x.word][x.letter] \notin DOMAIN A!Option

\* What is read from x on passes through f.
LeadsTo(ws, m, x, f) ==
  \A S : x \in S /\ (\A y \in S : GoesOn(ws, m, y) => After(ws, y) \in S) => f \in S

LEMMA LeadsBegin == \A ws, m, x : LeadsTo(ws, m, x, x)
BY DEF LeadsTo

LEMMA LeadsOn ==
  ASSUME NEW ws, NEW m, NEW x, NEW f, LeadsTo(ws, m, x, f), GoesOn(ws, m, f)
  PROVE  LeadsTo(ws, m, x, After(ws, f))
BY DEF LeadsTo

LEMMA LeadsNext ==
  ASSUME NEW ws, NEW m, NEW x, NEW f, LeadsTo(ws, m, x, f), GoesOn(ws, m, x), f # x
  PROVE  LeadsTo(ws, m, After(ws, x), f)
<1> SUFFICES ASSUME NEW S, After(ws, x) \in S, \A y \in S : GoesOn(ws, m, y) => After(ws, y) \in S
             PROVE  f \in S
  BY DEF LeadsTo
<1>1. PICK R : R = S \cup {x}
  OBVIOUS
<1>2. \A y \in R : GoesOn(ws, m, y) => After(ws, y) \in R
  BY <1>1
<1>3. f \in R
  BY <1>1, <1>2 DEF LeadsTo
<1> QED
  BY <1>1, <1>3

LEMMA LeadsNowhere ==
  ASSUME NEW ws, NEW m, NEW x, NEW f, LeadsTo(ws, m, x, f), ~GoesOn(ws, m, x)
  PROVE  f = x
<1>1. PICK S : S = {x}
  OBVIOUS
<1> QED
  BY <1>1 DEF LeadsTo

-----------------------------------------------------------------------------
(* More is typed                                                             *)

Grown(ws, m, vs, n) ==
  /\ m \in Nat /\ n \in Nat /\ m <= n /\ Len(ws) <= Len(vs)
  /\ \A i \in 1..m : vs[i] = ws[i]
  /\ \A i \in m + 1..Len(ws) :
       /\ Len(ws[i]) <= Len(vs[i]) /\ \A j \in 1..Len(ws[i]) : vs[i][j] = ws[i][j]
       /\ Readable(ws[i]) => Readable(vs[i])

LEMMA TakenAlike ==
  ASSUME NEW x, NEW w, NEW u, NEW v, ~(LongAsks(w) /\ ~x.ended)
  PROVE  AfterWord(x, w, u) = AfterWord(x, w, v)
<1>1. CASE ~Readable(w) \/ x.ended \/ ~IsOption(w) \/ w = <<"-", "-">> \/ w[2] # "-"
  BY <1>1 DEF AfterWord
<1>2. CASE Readable(w) /\ ~x.ended /\ IsOption(w) /\ w # <<"-", "-">> /\ w[2] = "-"
  <2>1. Signs(w) # {} \/ ~Spells(A!Long(A!Option), w)
    BY <1>2 DEF LongAsks
  <2>2. AfterLong(x, w, u) = AfterLong(x, w, v)
    BY <2>1 DEF AfterLong
  <2> QED
    BY <2>2 DEF AfterWord
<1> QED
  BY <1>1, <1>2

LEMMA GrownOn ==
  ASSUME NEW ws \in Seq(Words), NEW vs \in Seq(Words), NEW m, NEW n, Grown(ws, m, vs, n),
         NEW x, GoesOn(ws, m, x)
  PROVE  GoesOn(vs, n, x) /\ After(vs, x) = After(ws, x)
<1>1. Len(ws) \in Nat /\ Len(vs) \in Nat
  BY LenProperties
<1>2. PICK i : i = x.word
  OBVIOUS
<1>3. i \in 1..Len(ws) /\ i \in 1..Len(vs) /\ x.letter \in Nat /\ x.status = "none"
  BY <1>1, <1>2 DEF GoesOn, Grown
<1>4. PICK w, u : w = ws[i] /\ u = vs[i]
  OBVIOUS
<1>5. m \in Nat /\ n \in Nat /\ m <= n
  BY DEF Grown
<1>6. CASE i <= m
  <2>1. u = w
    BY <1>3, <1>4, <1>5, <1>6 DEF Grown
  <2>2. ASSUME i < m PROVE vs[i + 1] = ws[i + 1]
    <3>1. i + 1 \in 1..m
      BY <1>3, <1>5, <2>2
    <3> QED
      BY <3>1 DEF Grown
  <2>3. CASE x.letter = 0
    <3>1. LongAsks(w) /\ ~x.ended => i < m
      BY <1>2, <1>4, <1>6, <2>3 DEF GoesOn
    <3>2. GoesOn(vs, n, x)
      BY <1>2, <1>3, <1>4, <1>5, <1>6, <2>1, <2>3, <3>1 DEF GoesOn
    <3>3. AfterWord(x, w, ws[i + 1]) = AfterWord(x, w, vs[i + 1])
      BY <2>2, <3>1, TakenAlike
    <3> QED
      BY <1>2, <1>4, <2>1, <2>3, <3>2, <3>3 DEF After
  <2>4. CASE x.letter # 0
    <3>1. LetterAsks(w, x.letter) => i < m
      BY <1>2, <1>4, <1>6, <2>4 DEF GoesOn
    <3>2. GoesOn(vs, n, x)
      BY <1>2, <1>3, <1>4, <1>5, <1>6, <2>1, <2>4, <3>1 DEF GoesOn
    <3>3. Len(w) \in Nat
      BY <1>3, <1>4, ElementOfSeq, LenProperties DEF Words
    <3>4. AfterLetter(x, w, ws[i + 1]) = AfterLetter(x, w, vs[i + 1])
      <4>1. CASE x.letter > Len(w) \/ w[x.letter] \notin DOMAIN A!Option \/ x.letter < Len(w)
        BY <4>1 DEF AfterLetter
      <4>2. CASE ~(x.letter > Len(w) \/ w[x.letter] \notin DOMAIN A!Option \/ x.letter < Len(w))
        <5>1. LetterAsks(w, x.letter)
          BY <1>3, <3>3, <4>2 DEF LetterAsks
        <5> QED
          BY <2>2, <3>1, <5>1
      <4> QED
        BY <4>1, <4>2
    <3> QED
      BY <1>2, <1>4, <2>1, <2>4, <3>2, <3>4 DEF After
  <2> QED
    BY <2>3, <2>4
<1>7. CASE i > m
  <2>1. i \in m + 1..Len(ws)
    BY <1>1, <1>3, <1>5, <1>7
  <2>2. /\ Len(w) <= Len(u) /\ \A j \in 1..Len(w) : u[j] = w[j]
        /\ Readable(w) => Readable(u)
    BY <1>4, <2>1 DEF Grown
  <2>3. Len(w) \in Nat /\ Len(u) \in Nat
    BY <1>3, <1>4, ElementOfSeq, LenProperties DEF Words
  <2>4. ~(i <= m)
    BY <1>3, <1>5, <1>7
  <2>5. CASE x.letter = 0
    <3>1. IsCluster(w) /\ ~x.ended
      BY <1>2, <1>4, <2>4, <2>5 DEF GoesOn
    <3>2. 1 \in 1..Len(w) /\ 2 \in 1..Len(w)
      BY <2>3, <3>1 DEF IsCluster, IsOption
    <3>3. IsCluster(u)
      BY <2>2, <2>3, <3>1, <3>2 DEF IsCluster, IsOption
    <3>4. ~LongAsks(u)
      BY <3>3 DEF IsCluster, LongAsks
    <3>5. GoesOn(vs, n, x)
      BY <1>2, <1>3, <1>4, <2>5, <3>1, <3>3, <3>4 DEF GoesOn
    <3>6. \A z, v : IsCluster(z) => AfterWord(x, z, v) = At(x.word, 2, x.ended, x.cli, "none")
      <4>1. \A z : z = <<"-", "-">> => z[2] = "-"
        OBVIOUS
      <4> QED
        BY <3>1, <4>1 DEF AfterWord, IsCluster
    <3> QED
      BY <1>2, <1>4, <2>5, <3>1, <3>3, <3>5, <3>6 DEF After
  <2>6. CASE x.letter # 0
    <3>1. x.letter <= Len(w) /\ w[x.letter] \notin DOMAIN A!Option
      BY <1>2, <1>4, <2>4, <2>6 DEF GoesOn
    <3>2. x.letter \in 1..Len(w)
      BY <1>3, <2>3, <2>6, <3>1
    <3>3. u[x.letter] = w[x.letter] /\ x.letter <= Len(u)
      BY <2>2, <2>3, <3>2
    <3>4. GoesOn(vs, n, x)
      BY <1>2, <1>3, <1>4, <2>6, <3>1, <3>3 DEF GoesOn, LetterAsks
    <3>5. ~(x.letter > Len(w)) /\ ~(x.letter > Len(u))
      BY <1>3, <2>3, <3>1, <3>3
    <3>6. AfterLetter(x, w, ws[i + 1]) = AfterLetter(x, u, vs[i + 1])
      BY <3>1, <3>3, <3>5 DEF AfterLetter
    <3> QED
      BY <1>2, <1>4, <2>6, <3>4, <3>6 DEF After
  <2> QED
    BY <2>5, <2>6
<1> QED
  BY <1>3, <1>5, <1>6, <1>7

LEMMA LeadsGrown ==
  ASSUME NEW ws \in Seq(Words), NEW vs \in Seq(Words), NEW m, NEW n, Grown(ws, m, vs, n),
         NEW x, NEW f, LeadsTo(ws, m, x, f)
  PROVE  LeadsTo(vs, n, x, f)
<1> SUFFICES ASSUME NEW S, x \in S, \A y \in S : GoesOn(vs, n, y) => After(vs, y) \in S
             PROVE  f \in S
  BY DEF LeadsTo
<1>1. \A y \in S : GoesOn(ws, m, y) => After(ws, y) \in S
  BY GrownOn
<1> QED
  BY <1>1 DEF LeadsTo

-----------------------------------------------------------------------------
(* Letters and names                                                         *)

LEMMA Tables ==
  /\ DOMAIN A!Flag = {"l", "p", "q"} /\ DOMAIN A!Option = {"d", "P"} /\ DOMAIN A!Stop = {"h", "V"}
  /\ A!Long(A!Flag) = {"list", "pipe", "quiet"}
  /\ A!Long(A!Option) = {"output-dir", "password"}
  /\ A!Long(A!Stop) = {"help", "version"}
  /\ \A c \in DOMAIN A!Flag : A!Flag[c] \in A!Long(A!Flag)
  /\ \A c \in DOMAIN A!Option : A!Option[c] \in A!Long(A!Option)
  /\ \A c \in DOMAIN A!Stop : A!Stop[c] \in A!Long(A!Stop)
<1>1. DOMAIN A!Flag = {"l", "p", "q"} /\ DOMAIN A!Option = {"d", "P"} /\ DOMAIN A!Stop = {"h", "V"}
  BY DEF A!Flag, A!Option, A!Stop
<1>2. /\ A!Flag["l"] = "list" /\ A!Flag["p"] = "pipe" /\ A!Flag["q"] = "quiet"
      /\ A!Option["d"] = "output-dir" /\ A!Option["P"] = "password"
      /\ A!Stop["h"] = "help" /\ A!Stop["V"] = "version"
  BY DEF A!Flag, A!Option, A!Stop
<1> QED
  BY <1>1, <1>2 DEF A!Long

\* A letter and a name are in one table.
LEMMA OneTable ==
  /\ \A c \in DOMAIN A!Flag : c \notin DOMAIN A!Option
  /\ \A c \in DOMAIN A!Stop : c \notin DOMAIN A!Option \cup DOMAIN A!Flag
  /\ "x" \notin DOMAIN A!Option \cup DOMAIN A!Flag \cup DOMAIN A!Stop
  /\ \A n \in A!Long(A!Option) : n \notin A!Long(A!Flag)
  /\ \A n \in A!Long(A!Stop) : n \notin A!Long(A!Flag) \cup A!Long(A!Option)
  /\ "x" \notin A!Long(A!Option) \cup A!Long(A!Flag) \cup A!Long(A!Stop)
  /\ \A n \in A!Long(A!Stop) : n \notin {"none", "run", "usage", "panic"}
BY Tables

Lettered == DOMAIN A!Flag \cup DOMAIN A!Option \cup DOMAIN A!Stop \cup {"x"}
Named2 == A!Long(A!Flag) \cup A!Long(A!Option) \cup A!Long(A!Stop) \cup {"x"}

LEMMA SymbolsAre ==
  /\ {"-", "="} \cup Lettered \cup Named2 \subseteq Chars
  /\ \A c \in {"-", "="} \cup Lettered \cup Named2 : c # NotUnicode
  /\ \A c \in Lettered : c # "-"
  /\ \A n \in Named2 : n # "="
<1>1. A!Symbols = {"-", "="} \cup Lettered \cup Named2
  BY DEF A!Symbols, Lettered, Named2
<1>2. A!Symbols \subseteq Chars /\ NotUnicode \notin A!Symbols
  BY PartsAssumption DEF A!CommandLineConstants
<1>3. \A c \in Lettered : c # "-"
  BY Tables DEF Lettered
<1>4. \A n \in Named2 : n # "="
  BY Tables DEF Named2
<1> QED
  BY <1>1, <1>2, <1>3, <1>4

LEMMA ReadableIs ==
  ASSUME NEW w \in Words
  PROVE  Readable(w) <=> \A k \in 1..Len(w) : w[k] # NotUnicode
<1>1. DOMAIN w = 1..Len(w)
  BY LenProperties DEF Words
<1> QED
  BY <1>1 DEF Readable, A!ToSet

LEMMA PairIs ==
  ASSUME NEW a1 \in Chars, NEW a2 \in Chars, NEW w, w = <<a1, a2>>
  PROVE  w \in Words /\ Len(w) = 2 /\ w[1] = a1 /\ w[2] = a2
BY DEF Words

\* A letter on its own and a letter with its argument.
LEMMA LetterWord ==
  ASSUME NEW c \in Lettered, NEW w, w = <<"-", c>>
  PROVE  w \in Words /\ Len(w) = 2 /\ w[2] = c /\ IsCluster(w)
<1>1. "-" \in Chars /\ c \in Chars /\ c # "-" /\ "-" # NotUnicode /\ c # NotUnicode
  BY SymbolsAre
<1>2. w \in Words /\ Len(w) = 2 /\ w[1] = "-" /\ w[2] = c
  BY <1>1, PairIs
<1>3. Readable(w)
  BY <1>1, <1>2, ReadableIs
<1> QED
  BY <1>1, <1>2, <1>3 DEF IsCluster, IsOption

Joined(w, v) == w \o v

LEMMA JoinedLength ==
  ASSUME NEW w \in Words, NEW v \in Words
  PROVE  /\ Joined(w, v) \in Words /\ Len(Joined(w, v)) = Len(w) + Len(v)
         /\ Len(w) \in Nat /\ Len(v) \in Nat
BY ConcatProperties, LenProperties DEF Words, Joined

LEMMA JoinedFirst ==
  ASSUME NEW w \in Words, NEW v \in Words, NEW k \in 1..Len(w)
  PROVE  Joined(w, v)[k] = w[k]
<1>1. /\ k <= Len(w) /\ k \in 1..Len(w) + Len(v)
  BY JoinedLength
<1>2. Joined(w, v)[k] = IF k <= Len(w) THEN w[k] ELSE v[k - Len(w)]
  BY <1>1, ConcatProperties DEF Words, Joined
<1> QED
  BY <1>1, <1>2

LEMMA JoinedLast ==
  ASSUME NEW w \in Words, NEW v \in Words, NEW k \in 1..Len(v)
  PROVE  Joined(w, v)[Len(w) + k] = v[k]
<1>1. PICK i : i = Len(w) + k
  OBVIOUS
<1>2. i \in 1..Len(w) + Len(v) /\ ~(i <= Len(w)) /\ i - Len(w) = k
  <2>1. Len(w) \in Nat /\ Len(v) \in Nat
    BY JoinedLength
  <2> QED
    BY <1>1, <2>1
<1>3. Joined(w, v)[i] = IF i <= Len(w) THEN w[i] ELSE v[i - Len(w)]
  BY <1>2, ConcatProperties DEF Words, Joined
<1> QED
  BY <1>1, <1>2, <1>3

LEMMA JoinedRest ==
  ASSUME NEW w \in Words, NEW v \in Words
  PROVE  RestOf(Joined(w, v), Len(w) + 1) = v
<1>1. PICK u : u = Joined(w, v)
  OBVIOUS
<1>2. u \in Words /\ Len(u) = Len(w) + Len(v) /\ Len(w) \in Nat /\ Len(v) \in Nat
  BY <1>1, JoinedLength
<1>3. PICK z : z = SubSeq(u, Len(w) + 1, Len(w) + Len(v))
  OBVIOUS
<1>4. z \in Words /\ Len(z) = Len(v) /\ \A j \in 1..Len(v) : z[j] = u[Len(w) + j]
  BY <1>2, <1>3, SliceIs DEF Words
<1>5. \A j \in 1..Len(v) : z[j] = v[j]
  BY <1>1, <1>4, JoinedLast
<1>6. z = v
  BY <1>4, <1>5, SeqEqual DEF Words
<1> QED
  BY <1>1, <1>2, <1>3, <1>6 DEF RestOf

LEMMA JoinedReadable ==
  ASSUME NEW w \in Words, NEW v \in Words
  PROVE  Readable(Joined(w, v)) <=> Readable(w) /\ Readable(v)
<1>1. PICK u : u = Joined(w, v)
  OBVIOUS
<1>2. u \in Words /\ Len(u) = Len(w) + Len(v) /\ Len(w) \in Nat /\ Len(v) \in Nat
  BY <1>1, JoinedLength
<1>3. ASSUME Readable(w), Readable(v), NEW k \in 1..Len(u) PROVE u[k] # NotUnicode
  <2>1. CASE k \in 1..Len(w)
    BY <1>1, <1>3, <2>1, JoinedFirst, ReadableIs
  <2>2. CASE k \notin 1..Len(w)
    <3>1. PICK j \in 1..Len(v) : k = Len(w) + j
      <4>1. k - Len(w) \in 1..Len(v) /\ k = Len(w) + (k - Len(w))
        BY <1>2, <2>2
      <4> QED
        BY <4>1
    <3>2. u[k] = v[j]
      BY <1>1, <3>1, JoinedLast
    <3> QED
      BY <1>3, <3>2, ReadableIs
  <2> QED
    BY <2>1, <2>2
<1>4. ASSUME Readable(u), NEW k \in 1..Len(w) PROVE w[k] # NotUnicode
  <2>1. k \in 1..Len(u)
    BY <1>2
  <2> QED
    BY <1>1, <1>2, <1>4, <2>1, JoinedFirst, ReadableIs
<1>5. ASSUME Readable(u), NEW k \in 1..Len(v) PROVE v[k] # NotUnicode
  <2>1. PICK j : j = Len(w) + k
    OBVIOUS
  <2>2. j \in 1..Len(u)
    BY <1>2, <2>1
  <2>3. u[j] = v[k]
    BY <1>1, <2>1, JoinedLast
  <2> QED
    BY <1>2, <1>5, <2>2, <2>3, ReadableIs
<1> QED
  BY <1>1, <1>2, <1>3, <1>4, <1>5, ReadableIs

LEMMA OneLetter ==
  ASSUME NEW n \in Chars, NEW z \in Words, Len(z) = 1, z[1] = n
  PROVE  z = <<n>>
<1>1. PICK y : y = <<n>>
  OBVIOUS
<1>2. y \in Words /\ Len(y) = 1 /\ y[1] = n
  BY <1>1 DEF Words
<1>3. \A i \in 1..Len(z) : z[i] = y[i]
  BY <1>2
<1> QED
  BY <1>1, <1>2, <1>3, SeqEqual DEF Words

\* The name of a long option, alone and with a value behind a sign.
LEMMA NameWord ==
  ASSUME NEW n \in Named2, NEW w, w = <<"-", "-", n>>
  PROVE  /\ w \in Words /\ Readable(w) /\ IsOption(w) /\ w[2] = "-" /\ w # <<"-", "-">>
         /\ Signs(w) = {} /\ NameOf(w) = <<n>>
<1>1. "-" \in Chars /\ n \in Chars /\ n # "=" /\ "-" # NotUnicode /\ n # NotUnicode
  BY SymbolsAre
<1>2. w \in Words /\ Len(w) = 3 /\ w[1] = "-" /\ w[2] = "-" /\ w[3] = n
  BY <1>1 DEF Words
<1>3. Readable(w)
  BY <1>1, <1>2, ReadableIs
<1>4. Signs(w) = {}
  BY <1>1, <1>2 DEF Signs
<1>5. NameOf(w) = <<n>>
  <2>1. NameOf(w) = SubSeq(w, 3, 3)
    BY <1>2, <1>4 DEF NameOf
  <2>2. SubSeq(w, 3, 3) \in Words /\ Len(SubSeq(w, 3, 3)) = 1 /\ SubSeq(w, 3, 3)[1] = w[3]
    BY <1>2, SliceIs DEF Words
  <2> QED
    BY <1>1, <1>2, <2>1, <2>2, OneLetter
<1>6. w # <<"-", "-">>
  <2>1. Len(<<"-", "-">>) = 2
    OBVIOUS
  <2> QED
    BY <1>2, <2>1
<1> QED
  BY <1>2, <1>3, <1>4, <1>5, <1>6 DEF IsOption

LEMMA SignIs ==
  ASSUME NEW s \in Words, NEW t \in Words, Len(s) = 3, Len(t) = 1, NEW w, w = Joined(s, t)
  PROVE  w \in Words /\ Len(w) = 4 /\ w[1] = s[1] /\ w[2] = s[2] /\ w[3] = s[3] /\ w[4] = t[1]
<1>1. w \in Words /\ Len(w) = 3 + 1
  BY JoinedLength
<1>2. 1 \in 1..Len(s) /\ 2 \in 1..Len(s) /\ 3 \in 1..Len(s) /\ 1 \in 1..Len(t)
  OBVIOUS
<1>3. w[1] = s[1] /\ w[2] = s[2] /\ w[3] = s[3]
  BY <1>2, JoinedFirst
<1>4. w[Len(s) + 1] = t[1]
  BY <1>2, JoinedLast
<1>5. 3 + 1 = 4 /\ Len(s) + 1 = 4
  OBVIOUS
<1> QED
  BY <1>1, <1>3, <1>4, <1>5

LEMMA SignedWord ==
  ASSUME NEW n \in Named2, NEW v \in Words, NEW u, NEW w \in Words, u = Joined(w, v),
         Len(w) = 4, w[1] = "-", w[2] = "-", w[3] = n, w[4] = "="
  PROVE  /\ u \in Words /\ IsOption(u) /\ u[2] = "-" /\ u # <<"-", "-">>
         /\ Signs(u) # {} /\ NameOf(u) = <<n>> /\ ValueOf(u) = v
         /\ (Readable(u) <=> Readable(v))
<1>1. "-" \in Chars /\ "=" \in Chars /\ n \in Chars /\ n # "="
      /\ "-" # NotUnicode /\ "=" # NotUnicode /\ n # NotUnicode
  BY SymbolsAre
<1>3. w \in Words /\ Len(w) = 4 /\ w[1] = "-" /\ w[2] = "-" /\ w[3] = n /\ w[4] = "="
  OBVIOUS
<1>5. Len(v) \in Nat
  BY LenProperties DEF Words
<1>6. /\ u \in Words /\ Len(u) = 4 + Len(v) /\ u[1] = "-" /\ u[2] = "-" /\ u[3] = n /\ u[4] = "="
      /\ RestOf(u, 5) = v
      /\ (Readable(u) <=> Readable(w) /\ Readable(v))
  <2>1. 1 \in 1..Len(w) /\ 2 \in 1..Len(w) /\ 3 \in 1..Len(w) /\ 4 \in 1..Len(w) /\ Len(w) + 1 = 5
    BY <1>3
  <2>2. u \in Words /\ Len(u) = Len(w) + Len(v)
    BY JoinedLength
  <2>3. u[1] = w[1] /\ u[2] = w[2] /\ u[3] = w[3] /\ u[4] = w[4]
    BY <2>1, JoinedFirst
  <2>4. RestOf(u, Len(w) + 1) = v
    BY JoinedRest
  <2>5. Readable(u) <=> Readable(w) /\ Readable(v)
    BY JoinedReadable
  <2> QED
    BY <1>3, <2>1, <2>2, <2>3, <2>4, <2>5
<1>7. Readable(w)
  BY <1>1, <1>3, ReadableIs
<1>8. Signs(u) # {} /\ Sign(u) = 4
  <2>1. 4 \in Signs(u) /\ \A j \in Signs(u) : j \in Nat /\ 4 <= j
    BY <1>1, <1>5, <1>6 DEF Signs
  <2>2. \A k \in Signs(u) : (\A j \in Signs(u) : k <= j) => k = 4
    BY <2>1
  <2> QED
    BY <2>1, <2>2 DEF Sign
<1>9. ValueOf(u) = v
  BY <1>6, <1>8 DEF ValueOf, RestOf
<1>10. NameOf(u) = <<n>>
  <2>1. NameOf(u) = SubSeq(u, 3, 3)
    BY <1>8 DEF NameOf
  <2>2. SubSeq(u, 3, 3) \in Words /\ Len(SubSeq(u, 3, 3)) = 1 /\ SubSeq(u, 3, 3)[1] = u[3]
    <3>1. 3 <= Len(u) /\ Len(u) \in Nat
      BY <1>5, <1>6
    <3>2. \A i \in 3..3 : u[i] \in Chars
      BY <1>6, <3>1, ElementOfSeq DEF Words
    <3> QED
      BY <3>2, SubSeqProperties DEF Words
  <2> QED
    BY <1>1, <1>6, <2>1, <2>2, OneLetter
<1>11. u # <<"-", "-">>
  <2>1. Len(<<"-", "-">>) = 2
    OBVIOUS
  <2> QED
    BY <1>5, <1>6, <2>1
<1> QED
  BY <1>5, <1>6, <1>7, <1>8, <1>9, <1>10, <1>11 DEF IsOption

-----------------------------------------------------------------------------
(* What the next word or letter adds                                         *)

Reached(ws, m, f) == LeadsTo(ws, m, Beginning, f)

LEMMA AtIs ==
  \A i, j, d, c, s : /\ At(i, j, d, c, s).word = i /\ At(i, j, d, c, s).letter = j
                     /\ At(i, j, d, c, s).ended = d /\ At(i, j, d, c, s).cli = c
                     /\ At(i, j, d, c, s).status = s
BY DEF At

\* A letter that does not ask for an argument.
LEMMA PlainLetter ==
  ASSUME NEW ws \in Seq(Words), NEW m, NEW k \in 1..Len(ws), NEW j \in 1..Len(ws[k]), NEW d, NEW c,
         Reached(ws, m, At(k, j, d, c, "none")), NEW a1, a1 = ws[k][j], a1 \notin DOMAIN A!Option
  PROVE  /\ a1 \in DOMAIN A!Flag => Reached(ws, m, At(k, j + 1, d, WithFlag(c, A!Flag[a1]), "none"))
         /\ a1 \in DOMAIN A!Stop => Reached(ws, m, At(k, j, d, c, A!Stop[a1]))
         /\ a1 \notin DOMAIN A!Flag \cup DOMAIN A!Stop => Reached(ws, m, At(k, j, d, c, "usage"))
<1>1. PICK p : p = At(k, j, d, c, "none")
  OBVIOUS
<1>2. p.word = k /\ p.letter = j /\ p.ended = d /\ p.cli = c /\ p.status = "none"
  BY <1>1, AtIs
<1>3. Len(ws[k]) \in Nat
  BY ElementOfSeq, LenProperties DEF Words
<1>4. j # 0 /\ j \in Nat /\ j <= Len(ws[k]) /\ ~(j > Len(ws[k]))
  BY <1>3
<1>5. GoesOn(ws, m, p)
  BY <1>2, <1>4 DEF GoesOn, LetterAsks
<1>6. Reached(ws, m, After(ws, p))
  BY <1>1, <1>5, LeadsOn DEF Reached
<1>7. After(ws, p) = AfterLetter(p, ws[k], ws[k + 1])
  BY <1>2, <1>4 DEF After
<1>8. ASSUME a1 \in DOMAIN A!Flag
      PROVE  After(ws, p) = At(k, j + 1, d, WithFlag(c, A!Flag[a1]), "none")
  BY <1>2, <1>4, <1>7, <1>8 DEF AfterLetter
<1>9. ASSUME a1 \in DOMAIN A!Stop PROVE After(ws, p) = At(k, j, d, c, A!Stop[a1])
  BY <1>2, <1>4, <1>7, <1>9, OneTable DEF AfterLetter, Halted
<1>10. ASSUME a1 \notin DOMAIN A!Flag \cup DOMAIN A!Stop PROVE After(ws, p) = At(k, j, d, c, "usage")
  BY <1>2, <1>4, <1>7, <1>10 DEF AfterLetter, Halted
<1> QED
  BY <1>6, <1>8, <1>9, <1>10

\* A letter whose argument is the rest of its word, or the next word.
LEMMA AskingLetter ==
  ASSUME NEW ws \in Seq(Words), NEW m \in 0..Len(ws), NEW k \in 1..m, NEW j \in 1..Len(ws[k]),
         NEW d, NEW c, Reached(ws, m, At(k, j, d, c, "none")), NEW a1, a1 = ws[k][j], a1 \in DOMAIN A!Option
  PROVE  /\ j < Len(ws[k]) =>
              Reached(ws, m, At(k + 1, 0, d, A!WithValue(c, A!Option[a1], RestOf(ws[k], j + 1)), "none"))
         /\ j = Len(ws[k]) /\ k < m /\ Readable(ws[k + 1]) =>
              Reached(ws, m, At(k + 2, 0, d, A!WithValue(c, A!Option[a1], ws[k + 1]), "none"))
         /\ j = Len(ws[k]) /\ k < m /\ ~Readable(ws[k + 1]) =>
              Reached(ws, m, At(k, j, d, c, "panic"))
<1>1. PICK p : p = At(k, j, d, c, "none")
  OBVIOUS
<1>2. p.word = k /\ p.letter = j /\ p.ended = d /\ p.cli = c /\ p.status = "none"
  BY <1>1, AtIs
<1>3. Len(ws) \in Nat /\ k \in 1..Len(ws) /\ k <= m
  BY LenProperties
<1>4. Len(ws[k]) \in Nat
  BY <1>3, ElementOfSeq, LenProperties DEF Words
<1>5. j # 0 /\ j \in Nat /\ ~(j > Len(ws[k]))
  BY <1>4
<1>6. ASSUME j < Len(ws[k]) \/ k < m PROVE GoesOn(ws, m, p)
  BY <1>2, <1>3, <1>4, <1>5, <1>6 DEF GoesOn, LetterAsks
<1>7. After(ws, p) = AfterLetter(p, ws[k], ws[k + 1])
  BY <1>2, <1>5 DEF After
<1>8. ASSUME j < Len(ws[k]) \/ k < m PROVE Reached(ws, m, AfterLetter(p, ws[k], ws[k + 1]))
  BY <1>1, <1>6, <1>7, <1>8, LeadsOn DEF Reached
<1>9. ASSUME j < Len(ws[k])
      PROVE  AfterLetter(p, ws[k], ws[k + 1]) =
               At(k + 1, 0, d, A!WithValue(c, A!Option[a1], RestOf(ws[k], j + 1)), "none")
  BY <1>2, <1>5, <1>9 DEF AfterLetter, Passed
<1>10. ASSUME j = Len(ws[k])
       PROVE  AfterLetter(p, ws[k], ws[k + 1]) = Taken(p, A!Option[a1], ws[k + 1])
  BY <1>2, <1>4, <1>5, <1>10 DEF AfterLetter
<1>11. \A o, v : Taken(p, o, v) = IF Readable(v) THEN At(k + 2, 0, d, A!WithValue(c, o, v), "none")
                                                ELSE At(k, j, d, c, "panic")
  BY <1>2 DEF Taken, Passed, Halted
<1> QED
  BY <1>8, <1>9, <1>10, <1>11

Ends(w) == w = <<"-", "-">>

\* A word in front of which the reading has come: it is no option, it ends the
\* options, or it is a long one.
LEMMA WholeWord ==
  ASSUME NEW ws \in Seq(Words), NEW m \in 0..Len(ws), NEW k \in 1..m, NEW d, NEW c,
         Reached(ws, m, At(k, 0, d, c, "none")), NEW w, w = ws[k],
         ~Readable(w) \/ d \/ ~IsOption(w)
  PROVE  /\ ~Readable(w) => Reached(ws, m, At(k, 0, d, c, "panic"))
         /\ Readable(w) => Reached(ws, m, At(k + 1, 0, d, A!WithOperand(c, w), "none"))
<1>1. PICK p : p = At(k, 0, d, c, "none")
  OBVIOUS
<1>2. p.word = k /\ p.letter = 0 /\ p.ended = d /\ p.cli = c /\ p.status = "none"
  BY <1>1, AtIs
<1>3. k \in 1..Len(ws) /\ k <= m /\ 0 \in Nat
  BY LenProperties
<1>4. GoesOn(ws, m, p)
  BY <1>2, <1>3 DEF GoesOn, LongAsks
<1>5. Reached(ws, m, AfterWord(p, w, ws[k + 1]))
  <2>1. Reached(ws, m, After(ws, p))
    BY <1>1, <1>4, LeadsOn DEF Reached
  <2>2. After(ws, p) = AfterWord(p, w, ws[k + 1])
    BY <1>2 DEF After
  <2> QED
    BY <2>1, <2>2
<1>6. ASSUME ~Readable(w) PROVE AfterWord(p, w, ws[k + 1]) = At(k, 0, d, c, "panic")
  BY <1>2, <1>6 DEF AfterWord, Halted
<1>7. ASSUME Readable(w) PROVE AfterWord(p, w, ws[k + 1]) = At(k + 1, 0, d, A!WithOperand(c, w), "none")
  BY <1>2, <1>7 DEF AfterWord, Passed
<1> QED
  BY <1>5, <1>6, <1>7

LEMMA EndWord ==
  ASSUME NEW ws \in Seq(Words), NEW m \in 0..Len(ws), NEW k \in 1..m, NEW d, ~d, NEW c,
         Reached(ws, m, At(k, 0, d, c, "none")), Ends(ws[k]), Readable(ws[k])
  PROVE  \A e \in {TRUE} : Reached(ws, m, At(k + 1, 0, e, c, "none"))
<1>1. PICK p : p = At(k, 0, d, c, "none")
  OBVIOUS
<1>2. p.word = k /\ p.letter = 0 /\ p.ended = d /\ p.cli = c /\ p.status = "none"
  BY <1>1, AtIs
<1>3. k \in 1..Len(ws) /\ k <= m /\ 0 \in Nat
  BY LenProperties
<1>4. PICK w : w = ws[k]
  OBVIOUS
<1>5. w = <<"-", "-">> /\ IsOption(w) /\ Readable(w)
  BY <1>4 DEF Ends, IsOption
<1>6. GoesOn(ws, m, p)
  BY <1>2, <1>3, <1>4, <1>5 DEF GoesOn, LongAsks
<1>7. After(ws, p) = At(k + 1, 0, TRUE, c, "none")
  BY <1>2, <1>4, <1>5 DEF After, AfterWord
<1>8. Reached(ws, m, After(ws, p))
  BY <1>1, <1>6, LeadsOn DEF Reached
<1> QED
  BY <1>7, <1>8

LEMMA LongWord ==
  ASSUME NEW ws \in Seq(Words), NEW m \in 0..Len(ws), NEW k \in 1..m, NEW d, ~d, NEW c, NEW p,
         p = At(k, 0, d, c, "none"), Reached(ws, m, p), NEW w, w = ws[k],
         Readable(w), IsOption(w), ~Ends(w), w[2] = "-", LongAsks(w) => k < m
  PROVE  Reached(ws, m, AfterLong(p, w, ws[k + 1]))
<1>2. p.word = k /\ p.letter = 0 /\ p.ended = d /\ p.cli = c /\ p.status = "none"
  BY AtIs
<1>3. k \in 1..Len(ws) /\ k <= m /\ 0 \in Nat
  BY LenProperties
<1>6. GoesOn(ws, m, p)
  BY <1>2, <1>3 DEF GoesOn
<1>7. After(ws, p) = AfterLong(p, w, ws[k + 1])
  BY <1>2 DEF After, AfterWord, Ends
<1>8. Reached(ws, m, After(ws, p))
  BY <1>6, LeadsOn DEF Reached
<1> QED
  BY <1>7, <1>8

\* What a long option adds, by its table.
LEMMA LongName ==
  ASSUME NEW x, NEW w, NEW v, NEW n, NameOf(w) = <<n>>
  PROVE  /\ n \in A!Long(A!Flag) => AfterLong(x, w, v) = Passed(x, 1, WithFlag(x.cli, n))
         /\ n \in A!Long(A!Option) /\ Signs(w) # {} =>
              AfterLong(x, w, v) = Passed(x, 1, A!WithValue(x.cli, n, ValueOf(w)))
         /\ n \in A!Long(A!Option) /\ Signs(w) = {} => AfterLong(x, w, v) = Taken(x, n, v)
         /\ n \in A!Long(A!Stop) => AfterLong(x, w, v) = Halted(x, n)
         /\ n \notin A!Long(A!Flag) \cup A!Long(A!Option) \cup A!Long(A!Stop) =>
              AfterLong(x, w, v) = Halted(x, "usage")
<1>1. NameOf(w)[1] = n
  OBVIOUS
<1>2. \A set : Spells(set, w) <=> n \in set
  <2>1. \A h : <<h>> = <<n>> <=> h = n
    OBVIOUS
  <2> QED
    BY <2>1 DEF Spells
<1> QED
  BY <1>1, <1>2, OneTable DEF AfterLong

LEMMA ClusterWord ==
  ASSUME NEW ws, NEW m, NEW k \in 1..Len(ws), NEW d, ~d, NEW c,
         Reached(ws, m, At(k, 0, d, c, "none")), IsCluster(ws[k])
  PROVE  Reached(ws, m, At(k, 2, d, c, "none"))
<1>1. PICK p : p = At(k, 0, d, c, "none")
  OBVIOUS
<1>2. p.word = k /\ p.letter = 0 /\ p.ended = d /\ p.cli = c /\ p.status = "none"
  BY <1>1, AtIs
<1>3. PICK w : w = ws[k]
  OBVIOUS
<1>4. Readable(w) /\ IsOption(w) /\ w[2] # "-" /\ w # <<"-", "-">>
  <2>1. \A z : z = <<"-", "-">> => z[2] = "-"
    OBVIOUS
  <2> QED
    BY <1>3, <2>1 DEF IsCluster
<1>5. GoesOn(ws, m, p)
  BY <1>2, <1>3, <1>4 DEF GoesOn, LongAsks
<1>6. After(ws, p) = At(k, 2, d, c, "none")
  BY <1>2, <1>3, <1>4 DEF After, AfterWord
<1> QED
  BY <1>1, <1>5, <1>6, LeadsOn DEF Reached

LEMMA ClusterEnds ==
  ASSUME NEW ws \in Seq(Words), NEW m \in 0..Len(ws), NEW k \in 1..m, NEW d, NEW c,
         Reached(ws, m, At(k, Len(ws[k]) + 1, d, c, "none"))
  PROVE  Reached(ws, m, At(k + 1, 0, d, c, "none"))
<1>1. PICK p : p = At(k, Len(ws[k]) + 1, d, c, "none")
  OBVIOUS
<1>2. p.word = k /\ p.letter = Len(ws[k]) + 1 /\ p.ended = d /\ p.cli = c /\ p.status = "none"
  BY <1>1, AtIs
<1>3. Len(ws) \in Nat /\ k \in 1..Len(ws) /\ k <= m
  BY LenProperties
<1>4. Len(ws[k]) \in Nat
  BY <1>3, ElementOfSeq, LenProperties DEF Words
<1>5. p.letter > Len(ws[k]) /\ p.letter # 0 /\ p.letter # Len(ws[k]) /\ p.letter \in Nat
  BY <1>2, <1>4
<1>6. GoesOn(ws, m, p)
  BY <1>2, <1>3, <1>5 DEF GoesOn, LetterAsks
<1>7. After(ws, p) = At(k + 1, 0, d, c, "none")
  BY <1>2, <1>5 DEF After, AfterLetter, Passed
<1> QED
  BY <1>1, <1>6, <1>7, LeadsOn DEF Reached

-----------------------------------------------------------------------------
(* What was typed, and how far it is understood                              *)

Understandings ==
  [flags : SUBSET A!Long(A!Flag), value : [A!Long(A!Option) -> Words \cup {None}],
   positional : Seq(Words)]
Meanings == [cli : Understandings, stop : {"none", "help", "version", "usage", "panic"}]

\* The words that will not change, and the place behind everything.
Fixed(ws, b) == IF b THEN Len(ws) - 1 ELSE Len(ws)
EndOf(ws, b, d, c) ==
  IF b THEN At(Len(ws), Len(ws[Len(ws)]) + 1, d, c, "none") ELSE At(Len(ws) + 1, 0, d, c, "none")

Missing(ws, f) ==
  /\ f.status = "none" /\ f.word = Len(ws) /\ Len(ws) > 0 /\ f.letter \in Nat
  /\ IF f.letter = 0 THEN LongAsks(ws[f.word]) /\ ~f.ended ELSE LetterAsks(ws[f.word], f.letter)
Heard(ws, b, d, mt, it, f) ==
  \/ mt.stop # "none" /\ f.status = mt.stop
  \/ mt.stop = "none" /\ f = EndOf(ws, b, d, mt.cli)
  \/ mt.stop = "usage" /\ it = MaxItems /\ ~b /\ Missing(ws, f)

TypedAs(ws, b, d, mt, it) ==
  /\ ws \in Seq(Words) /\ b \in BOOLEAN /\ d \in BOOLEAN /\ mt \in Meanings
  /\ b => ~d /\ Len(ws) > 0 /\ IsCluster(ws[Len(ws)])
  /\ \E f : Reached(ws, Fixed(ws, b), f) /\ Heard(ws, b, d, mt, it, f)

LEMMA MoreWords ==
  ASSUME NEW ws, NEW b, NEW d, NEW mt, NEW it, TypedAs(ws, b, d, mt, it),
         NEW us \in Seq(Words), NEW vs, vs = Joined(ws, us)
  PROVE  /\ vs \in Seq(Words) /\ Len(vs) = Len(ws) + Len(us)
         /\ \A i \in 1..Len(ws) : vs[i] = ws[i]
         /\ \A i \in 1..Len(us) : vs[Len(ws) + i] = us[i]
         /\ \A n \in Len(ws)..Len(vs) : Grown(ws, Fixed(ws, b), vs, n)
<1>1. ws \in Seq(Words) /\ b \in BOOLEAN /\ (b => Len(ws) > 0)
  BY DEF TypedAs
<1>2. Len(ws) \in Nat /\ Len(us) \in Nat
  BY <1>1, LenProperties
<1>3. vs \in Seq(Words) /\ Len(vs) = Len(ws) + Len(us)
  BY <1>1, ConcatProperties DEF Joined
<1>4. \A i \in 1..Len(ws) + Len(us) : vs[i] = IF i <= Len(ws) THEN ws[i] ELSE us[i - Len(ws)]
  BY <1>1, ConcatProperties DEF Joined
<1>5. ASSUME NEW i \in 1..Len(ws) PROVE vs[i] = ws[i]
  <2>1. i \in 1..Len(ws) + Len(us) /\ i <= Len(ws)
    BY <1>2
  <2> QED
    BY <1>4, <2>1
<1>6. ASSUME NEW i \in 1..Len(us) PROVE vs[Len(ws) + i] = us[i]
  <2>1. PICK k : k = Len(ws) + i
    OBVIOUS
  <2>2. k \in 1..Len(ws) + Len(us) /\ ~(k <= Len(ws)) /\ k - Len(ws) = i
    BY <1>2, <2>1
  <2>3. vs[k] = IF k <= Len(ws) THEN ws[k] ELSE us[k - Len(ws)]
    BY <1>4, <2>2
  <2> QED
    BY <2>1, <2>2, <2>3
<1>7. ASSUME NEW n \in Len(ws)..Len(vs) PROVE Grown(ws, Fixed(ws, b), vs, n)
  <2>1. PICK m : m = Fixed(ws, b)
    OBVIOUS
  <2>2. m \in Nat /\ m <= Len(ws)
    BY <1>1, <1>2, <2>1 DEF Fixed
  <2>3. n \in Nat /\ m <= n /\ Len(ws) <= Len(vs)
    BY <1>2, <1>3, <2>2
  <2>4. \A i \in 1..m : i \in 1..Len(ws)
    BY <1>2, <2>2
  <2>5. \A i \in m + 1..Len(ws) : i \in 1..Len(ws)
    BY <1>2, <2>2
  <2>6. \A i \in 1..Len(ws) : Len(ws[i]) \in Nat
    BY <1>1, ElementOfSeq, LenProperties DEF Words
  <2>7. \A i \in m + 1..Len(ws) :
          /\ Len(ws[i]) <= Len(vs[i]) /\ \A j \in 1..Len(ws[i]) : vs[i][j] = ws[i][j]
          /\ Readable(ws[i]) => Readable(vs[i])
    BY <1>5, <2>5, <2>6
  <2> QED
    BY <1>5, <2>1, <2>2, <2>3, <2>4, <2>7 DEF Grown
<1> QED
  BY <1>3, <1>5, <1>6, <1>7

Longer(w, u) == Len(w) <= Len(u) /\ Readable(u) /\ \A j \in 1..Len(w) : u[j] = w[j]

LEMMA LongerCluster ==
  ASSUME NEW w \in Words, NEW u \in Words, Longer(w, u), IsCluster(w)
  PROVE  IsCluster(u)
<1>1. Len(w) \in Nat /\ Len(u) \in Nat
  BY LenProperties DEF Words
<1>2. Len(w) > 1 /\ w[1] = "-" /\ w[2] # "-"
  BY DEF IsCluster, IsOption
<1>3. 1 \in 1..Len(w) /\ 2 \in 1..Len(w)
  BY <1>1, <1>2
<1>4. u[1] = w[1] /\ u[2] = w[2] /\ Len(u) > 1 /\ Readable(u)
  BY <1>1, <1>2, <1>3 DEF Longer
<1> QED
  BY <1>2, <1>4 DEF IsCluster, IsOption

LEMMA MoreLetters ==
  ASSUME NEW ws, NEW b, NEW d, NEW mt, NEW it, TypedAs(ws, b, d, mt, it), Fixed(ws, b) = Len(ws) - 1,
         Len(ws) > 0,
         NEW us \in Seq(Words), Len(us) > 0, Longer(ws[Len(ws)], us[1]),
         NEW vs, vs = Joined(A!Front(ws), us)
  PROVE  /\ vs \in Seq(Words) /\ Len(vs) = Len(ws) - 1 + Len(us)
         /\ \A i \in 1..Len(us) : vs[Len(ws) - 1 + i] = us[i]
         /\ \A n \in Len(ws) - 1..Len(vs) : Grown(ws, Fixed(ws, b), vs, n)
<1>1. ws \in Seq(Words)
  BY DEF TypedAs
<1>2. Len(ws) \in Nat /\ Len(us) \in Nat
  BY <1>1, LenProperties
<1>3. PICK h : h = A!Front(ws)
  OBVIOUS
<1>4. PICK m \in Nat : m = Len(ws) - 1 /\ m = Fixed(ws, b)
  <2>1. Len(ws) - 1 \in Nat
    BY <1>2
  <2> QED
    BY <2>1
<1>5. h \in Seq(Words) /\ Len(h) = m /\ \A i \in 1..m : h[i] = ws[i]
  <2>1. h = SubSeq(ws, 0 + 1, 0 + m)
    BY <1>3, <1>4 DEF A!Front
  <2>2. 0 \in Nat /\ 0 + m <= Len(ws)
    BY <1>2, <1>4
  <2>3. h \in Seq(Words) /\ Len(h) = m /\ \A i \in 1..m : h[i] = ws[0 + i]
    BY <1>1, <2>1, <2>2, SliceIs
  <2> QED
    BY <2>3
<1>11. vs = h \o us
  BY <1>3 DEF Joined
<1>6. vs \in Seq(Words) /\ Len(vs) = m + Len(us)
  BY <1>5, <1>11, ConcatProperties
<1>7. \A i \in 1..m + Len(us) : vs[i] = IF i <= m THEN h[i] ELSE us[i - m]
  BY <1>5, <1>11, ConcatProperties
<1>8. ASSUME NEW i \in 1..m PROVE vs[i] = ws[i]
  <2>1. i \in 1..m + Len(us) /\ i <= m
    BY <1>2
  <2> QED
    BY <1>5, <1>7, <2>1
<1>9. ASSUME NEW i \in 1..Len(us) PROVE vs[m + i] = us[i]
  <2>1. PICK k : k = m + i
    OBVIOUS
  <2>2. k \in 1..m + Len(us) /\ ~(k <= m) /\ k - m = i
    BY <1>2, <2>1
  <2>3. vs[k] = IF k <= m THEN h[k] ELSE us[k - m]
    BY <1>7, <2>2
  <2> QED
    BY <2>1, <2>2, <2>3
<1>12. Len(ws) = m + 1 /\ 1 \in 1..Len(us)
  BY <1>2, <1>4
<1>13. vs[m + 1] = us[1]
  BY <1>9, <1>12
<1>14. ASSUME NEW i \in m + 1..Len(ws) PROVE Longer(ws[i], vs[i])
  <2>1. \A k \in m + 1..m + 1 : k = m + 1
    OBVIOUS
  <2>2. i \in m + 1..m + 1
    BY <1>12
  <2> QED
    BY <1>12, <1>13, <2>1, <2>2
<1>10. ASSUME NEW n \in m..Len(vs) PROVE Grown(ws, m, vs, n)
  <2>1. Len(vs) \in Nat /\ Len(ws) <= Len(vs)
    BY <1>2, <1>6, <1>12
  <2>2. n \in Nat /\ m <= n
    BY <2>1
  <2> QED
    BY <1>8, <1>14, <2>2, <2>1 DEF Grown, Longer
<1> QED
  BY <1>4, <1>6, <1>9, <1>10

\* In front of a new word, and in front of one more letter.
LEMMA AtNewWord ==
  ASSUME NEW ws, NEW b, NEW d, NEW mt, NEW it, TypedAs(ws, b, d, mt, it), it # MaxItems,
         mt.stop = "none", NEW vs \in Seq(Words), NEW n \in Len(ws)..Len(vs),
         \A i \in 1..Len(ws) : vs[i] = ws[i], Grown(ws, Fixed(ws, b), vs, n)
  PROVE  Reached(vs, n, At(Len(ws) + 1, 0, d, mt.cli, "none"))
<1>1. ws \in Seq(Words) /\ b \in BOOLEAN /\ (b => Len(ws) > 0)
  BY DEF TypedAs
<1>2. Reached(ws, Fixed(ws, b), EndOf(ws, b, d, mt.cli))
  BY DEF TypedAs, Heard
<1>3. Reached(vs, n, EndOf(ws, b, d, mt.cli))
  BY <1>1, <1>2, LeadsGrown DEF Reached
<1>4. CASE ~b
  BY <1>3, <1>4 DEF EndOf
<1>5. CASE b
  <2>1. PICK k : k = Len(ws)
    OBVIOUS
  <2>2. Len(vs) \in Nat /\ k \in Nat
    BY <1>1, <2>1, LenProperties
  <2>3. k \in 1..n /\ n \in 0..Len(vs)
    BY <1>1, <1>5, <2>1, <2>2
  <2>4. vs[k] = ws[k]
    BY <2>1, <2>3
  <2>5. Reached(vs, n, At(k, Len(vs[k]) + 1, d, mt.cli, "none"))
    BY <1>3, <1>5, <2>1, <2>4 DEF EndOf
  <2> QED
    BY <2>1, <2>3, <2>5, ClusterEnds
<1> QED
  BY <1>1, <1>4, <1>5

LEMMA AtNewLetter ==
  ASSUME NEW ws, NEW b, NEW d, NEW mt, NEW it, TypedAs(ws, b, d, mt, it), it # MaxItems, b = TRUE,
         mt.stop = "none", NEW vs \in Seq(Words), NEW n, Grown(ws, Fixed(ws, b), vs, n)
  PROVE  Reached(vs, n, At(Len(ws), Len(ws[Len(ws)]) + 1, d, mt.cli, "none"))
<1>1. ws \in Seq(Words)
  BY DEF TypedAs
<1>2. Reached(ws, Fixed(ws, b), EndOf(ws, b, d, mt.cli))
  BY DEF TypedAs, Heard
<1> QED
  BY <1>1, <1>2, LeadsGrown DEF Reached, EndOf

\* What stopped the program stops it whatever is typed behind.
LEMMA TypedFurther ==
  ASSUME NEW ws, NEW b, NEW d, NEW mt, NEW it, TypedAs(ws, b, d, mt, it), it # MaxItems,
         NEW vs \in Seq(Words), NEW e \in BOOLEAN, NEW g \in BOOLEAN, NEW nt \in Meanings, NEW jt,
         Grown(ws, Fixed(ws, b), vs, Fixed(vs, e)),
         e => ~g /\ Len(vs) > 0 /\ IsCluster(vs[Len(vs)]),
         mt.stop # "none" => nt.stop = mt.stop,
         mt.stop = "none" => \E f : Reached(vs, Fixed(vs, e), f) /\ Heard(vs, e, g, nt, jt, f)
  PROVE  TypedAs(vs, e, g, nt, jt)
<1>1. ASSUME mt.stop # "none"
      PROVE  \E f : Reached(vs, Fixed(vs, e), f) /\ Heard(vs, e, g, nt, jt, f)
  <2>1. PICK f : Reached(ws, Fixed(ws, b), f) /\ Heard(ws, b, d, mt, it, f)
    BY DEF TypedAs
  <2>2. f.status = mt.stop
    BY <1>1, <2>1 DEF Heard
  <2>3. ws \in Seq(Words)
    BY DEF TypedAs
  <2>4. Reached(vs, Fixed(vs, e), f)
    BY <2>1, <2>3, LeadsGrown DEF Reached
  <2> QED
    BY <1>1, <2>2, <2>4 DEF Heard
<1> QED
  BY <1>1 DEF TypedAs

-----------------------------------------------------------------------------
(* One more option or operand                                                *)

More(mt, c) == IF mt.stop = "none" THEN [mt EXCEPT !.cli = c] ELSE mt
Halts(mt, why) == IF mt.stop = "none" THEN [mt EXCEPT !.stop = why] ELSE mt
MoreWord(mt, v, c) == IF Readable(v) THEN More(mt, c) ELSE Halts(mt, "panic")

LEMMA MoreFacts ==
  ASSUME NEW mt \in Meanings, NEW c \in Understandings
  PROVE  /\ More(mt, c) \in Meanings
         /\ mt.stop # "none" => More(mt, c).stop = mt.stop
         /\ mt.stop = "none" => More(mt, c).stop = "none" /\ More(mt, c).cli = c
BY DEF More, Meanings

LEMMA HaltsFacts ==
  ASSUME NEW mt \in Meanings, NEW why \in {"help", "version", "usage", "panic"}
  PROVE  /\ Halts(mt, why) \in Meanings
         /\ mt.stop # "none" => Halts(mt, why).stop = mt.stop
         /\ mt.stop = "none" => Halts(mt, why).stop = why
BY DEF Halts, Meanings

LEMMA UnderstandingFacts ==
  ASSUME NEW c \in Understandings
  PROVE  /\ \A n \in A!Long(A!Flag) : WithFlag(c, n) \in Understandings
         /\ \A o \in A!Long(A!Option), v \in Words : A!WithValue(c, o, v) \in Understandings
         /\ \A w \in Words : A!WithOperand(c, w) \in Understandings
<1>1. \A n \in A!Long(A!Flag) : WithFlag(c, n) \in Understandings
  BY DEF WithFlag, Understandings
<1>2. \A o \in A!Long(A!Option), v \in Words : A!WithValue(c, o, v) \in Understandings
  BY DEF A!WithValue, Understandings
<1>3. ASSUME NEW w \in Words PROVE A!WithOperand(c, w) \in Understandings
  <2>1. Append(c.positional, w) \in Seq(Words)
    BY AppendProperties DEF Understandings
  <2> QED
    BY <2>1 DEF A!WithOperand, Understandings
<1> QED
  BY <1>1, <1>2, <1>3

LEMMA FixedIs ==
  ASSUME NEW vs
  PROVE  /\ Fixed(vs, FALSE) = Len(vs) /\ Fixed(vs, TRUE) = Len(vs) - 1
         /\ \A d, c : EndOf(vs, FALSE, d, c) = At(Len(vs) + 1, 0, d, c, "none")
         /\ \A d, c : EndOf(vs, TRUE, d, c) = At(Len(vs), Len(vs[Len(vs)]) + 1, d, c, "none")
BY DEF Fixed, EndOf

\* A new word.
LEMMA NewWord ==
  ASSUME NEW ws, NEW b, NEW d, NEW mt, NEW it, TypedAs(ws, b, d, mt, it), it # MaxItems,
         NEW us \in Seq(Words), Len(us) > 0, NEW vs, vs = Joined(ws, us),
         NEW k, k = Len(ws) + 1
  PROVE  /\ vs \in Seq(Words) /\ Len(vs) = Len(ws) + Len(us) /\ Len(ws) \in Nat /\ Len(us) \in Nat
         /\ vs[k] = us[1] /\ (Len(us) > 1 => vs[k + 1] = us[2])
         /\ Grown(ws, Fixed(ws, b), vs, Len(vs))
         /\ mt.stop = "none" => Reached(vs, Len(vs), At(k, 0, d, mt.cli, "none"))
<1>1. /\ vs \in Seq(Words) /\ Len(vs) = Len(ws) + Len(us)
      /\ \A i \in 1..Len(ws) : vs[i] = ws[i]
      /\ \A i \in 1..Len(us) : vs[Len(ws) + i] = us[i]
      /\ \A n \in Len(ws)..Len(vs) : Grown(ws, Fixed(ws, b), vs, n)
  BY MoreWords
<1>2. Len(ws) \in Nat /\ Len(us) \in Nat
  <2>1. ws \in Seq(Words)
    BY DEF TypedAs
  <2> QED
    BY <2>1, LenProperties
<1>3. Len(vs) \in Len(ws)..Len(vs)
  BY <1>1, <1>2
<1>4. Grown(ws, Fixed(ws, b), vs, Len(vs))
  BY <1>1, <1>3
<1>5. vs[k] = us[1]
  <2>1. 1 \in 1..Len(us)
    BY <1>2
  <2> QED
    BY <1>1, <2>1
<1>6. ASSUME Len(us) > 1 PROVE vs[k + 1] = us[2]
  <2>1. 2 \in 1..Len(us) /\ Len(ws) + 2 = k + 1
    BY <1>2, <1>6
  <2> QED
    BY <1>1, <2>1
<1>7. ASSUME mt.stop = "none" PROVE Reached(vs, Len(vs), At(k, 0, d, mt.cli, "none"))
  BY <1>1, <1>3, <1>4, <1>7, AtNewWord
<1> QED
  BY <1>1, <1>2, <1>4, <1>5, <1>6, <1>7

\* A letter in a new word, or one more in the last word.
Adds(ws, b, us, vs, k, j) ==
  \/ vs = Joined(ws, us) /\ k = Len(ws) + 1 /\ j = 2 /\ IsCluster(us[1])
  \/ /\ b /\ vs = Joined(A!Front(ws), us) /\ k = Len(ws) /\ j = Len(ws[k]) + 1
     /\ Longer(ws[k], us[1])

LEMMA NewLetter ==
  ASSUME NEW ws, NEW b, NEW d, NEW mt, NEW it, TypedAs(ws, b, d, mt, it), it # MaxItems, ~d,
         NEW us \in Seq(Words), Len(us) > 0, NEW vs, NEW k, NEW j, Adds(ws, b, us, vs, k, j)
  PROVE  /\ vs \in Seq(Words) /\ k \in Nat \ {0} /\ Len(vs) = k - 1 + Len(us)
         /\ vs[k] = us[1] /\ (Len(us) > 1 => vs[k + 1] = us[2]) /\ IsCluster(us[1]) /\ j \in Nat \ {0}
         /\ \A n \in k - 1..Len(vs) :
              /\ Grown(ws, Fixed(ws, b), vs, n)
              /\ mt.stop = "none" => Reached(vs, n, At(k, j, d, mt.cli, "none"))
<1>1. ws \in Seq(Words) /\ b \in BOOLEAN /\ (b => Len(ws) > 0 /\ IsCluster(ws[Len(ws)]))
  BY DEF TypedAs
<1>2. Len(ws) \in Nat /\ Len(us) \in Nat
  BY <1>1, LenProperties
<1>3. CASE vs = Joined(ws, us) /\ k = Len(ws) + 1 /\ j = 2 /\ IsCluster(us[1])
  <2>1. /\ vs \in Seq(Words) /\ Len(vs) = Len(ws) + Len(us)
        /\ \A i \in 1..Len(ws) : vs[i] = ws[i]
        /\ \A n \in Len(ws)..Len(vs) : Grown(ws, Fixed(ws, b), vs, n)
    BY <1>3, MoreWords
  <2>2. vs[k] = us[1] /\ (Len(us) > 1 => vs[k + 1] = us[2])
    BY <1>3, NewWord
  <2>3. k \in 1..Len(vs) /\ k - 1 = Len(ws)
    BY <1>2, <1>3, <2>1
  <2>4. ASSUME NEW n \in k - 1..Len(vs), mt.stop = "none" PROVE Reached(vs, n, At(k, j, d, mt.cli, "none"))
    <3>1. n \in Len(ws)..Len(vs)
      BY <2>3
    <3>2. Reached(vs, n, At(k, 0, d, mt.cli, "none"))
      BY <1>3, <2>1, <2>4, <3>1, AtNewWord
    <3> QED
      BY <1>3, <2>2, <2>3, <3>2, ClusterWord
  <2> QED
    BY <1>2, <1>3, <2>1, <2>2, <2>3, <2>4
<1>4. CASE /\ b /\ vs = Joined(A!Front(ws), us) /\ k = Len(ws) /\ j = Len(ws[k]) + 1
           /\ Longer(ws[k], us[1])
  <2>1. b = TRUE
    BY <1>1, <1>4
  <2>2. Fixed(ws, b) = Len(ws) - 1
    BY <2>1, FixedIs
  <2>3. Len(ws) > 0 /\ IsCluster(ws[k])
    BY <1>1, <1>4
  <2>4. /\ vs \in Seq(Words) /\ Len(vs) = Len(ws) - 1 + Len(us)
        /\ \A i \in 1..Len(us) : vs[Len(ws) - 1 + i] = us[i]
        /\ \A n \in Len(ws) - 1..Len(vs) : Grown(ws, Fixed(ws, b), vs, n)
    BY <1>4, <2>2, <2>3, MoreLetters
  <2>5. vs[k] = us[1]
    <3>1. 1 \in 1..Len(us) /\ Len(ws) - 1 + 1 = k
      BY <1>2, <1>4
    <3> QED
      BY <2>4, <3>1
  <2>6. ASSUME Len(us) > 1 PROVE vs[k + 1] = us[2]
    <3>1. 2 \in 1..Len(us) /\ Len(ws) - 1 + 2 = k + 1
      BY <1>2, <1>4, <2>6
    <3> QED
      BY <2>4, <3>1
  <2>7. k \in Nat \ {0} /\ Len(ws[k]) \in Nat /\ Len(us[1]) \in Nat
    <3>1. k \in 1..Len(ws) /\ 1 \in 1..Len(us)
      BY <1>2, <1>4, <2>3
    <3> QED
      BY <1>1, <3>1, ElementOfSeq, LenProperties DEF Words
  <2>8. IsCluster(us[1])
    <3>1. k \in 1..Len(ws) /\ 1 \in 1..Len(us)
      BY <1>2, <1>4, <2>3
    <3>2. ws[k] \in Words /\ us[1] \in Words
      BY <1>1, <3>1, ElementOfSeq
    <3> QED
      BY <1>4, <2>3, <3>2, LongerCluster
  <2>9. ASSUME NEW n \in k - 1..Len(vs), mt.stop = "none" PROVE Reached(vs, n, At(k, j, d, mt.cli, "none"))
    BY <1>4, <2>1, <2>4, <2>9, AtNewLetter
  <2>10. Len(vs) = k - 1 + Len(us) /\ \A n \in k - 1..Len(vs) : Grown(ws, Fixed(ws, b), vs, n)
    BY <1>4, <2>4
  <2>11. j \in Nat \ {0}
    BY <1>4, <2>7
  <2> QED
    BY <2>4, <2>5, <2>6, <2>7, <2>8, <2>9, <2>10, <2>11
<1> QED
  BY <1>3, <1>4 DEF Adds

LEMMA OneWord ==
  ASSUME NEW u \in Words
  PROVE  <<u>> \in Seq(Words) /\ Len(<<u>>) = 1 /\ <<u>>[1] = u
OBVIOUS

LEMMA TwoWords ==
  ASSUME NEW u \in Words, NEW v \in Words
  PROVE  <<u, v>> \in Seq(Words) /\ Len(<<u, v>>) = 2 /\ <<u, v>>[1] = u /\ <<u, v>>[2] = v
OBVIOUS

Alone(us) == Len(us) = 1
Paired(us) == Len(us) = 2

LEMMA TypedOpen ==
  ASSUME NEW ws, NEW b, NEW d, NEW mt, NEW it, TypedAs(ws, b, d, mt, it), it # MaxItems, ~d,
         d \in BOOLEAN, NEW vs \in Seq(Words), NEW n, n = Len(vs) - 1, Grown(ws, Fixed(ws, b), vs, n),
         Len(vs) > 0, IsCluster(vs[Len(vs)]), NEW nt \in Meanings, NEW jt,
         mt.stop # "none" => nt.stop = mt.stop, NEW f,
         mt.stop = "none" => Reached(vs, n, f) /\ Heard(vs, TRUE, d, nt, jt, f)
  PROVE  TypedAs(vs, TRUE, d, nt, jt)
<1>1. PICK e \in BOOLEAN : e = TRUE
  OBVIOUS
<1>2. Fixed(vs, e) = n
  BY <1>1, FixedIs
<1>3. e => ~d /\ Len(vs) > 0 /\ IsCluster(vs[Len(vs)])
  OBVIOUS
<1>4. mt.stop = "none" => \E h : Reached(vs, Fixed(vs, e), h) /\ Heard(vs, e, d, nt, jt, h)
  BY <1>1, <1>2
<1>5. TypedAs(vs, e, d, nt, jt)
  BY <1>2, <1>3, <1>4, TypedFurther
<1> QED
  BY <1>1, <1>5

\* An option or a stop on its own: the word can take another letter.
LEMMA SingleLetter ==
  ASSUME NEW ws, NEW b, NEW d, NEW mt, NEW it, TypedAs(ws, b, d, mt, it), it # MaxItems, ~d,
         NEW us \in Seq(Words), Len(us) \in {1}, NEW vs, NEW k, NEW j, Adds(ws, b, us, vs, k, j),
         NEW u, u = us[1], j = Len(u), NEW c, c = u[j], c \notin DOMAIN A!Option, NEW jt
  PROVE  /\ c \in DOMAIN A!Flag => TypedAs(vs, TRUE, d, More(mt, WithFlag(mt.cli, A!Flag[c])), jt)
         /\ c \in DOMAIN A!Stop => TypedAs(vs, TRUE, d, Halts(mt, A!Stop[c]), jt)
         /\ c \notin DOMAIN A!Flag \cup DOMAIN A!Stop => TypedAs(vs, TRUE, d, Halts(mt, "usage"), jt)
<1>1. mt \in Meanings /\ mt.cli \in Understandings /\ d \in BOOLEAN
  BY DEF TypedAs, Meanings
<1>3. Len(us) > 0
  OBVIOUS
<1>4. /\ vs \in Seq(Words) /\ k \in Nat \ {0} /\ Len(vs) = k - 1 + Len(us)
      /\ vs[k] = us[1] /\ (Len(us) > 1 => vs[k + 1] = us[2]) /\ IsCluster(us[1]) /\ j \in Nat \ {0}
      /\ \A n \in k - 1..Len(vs) :
           /\ Grown(ws, Fixed(ws, b), vs, n)
           /\ mt.stop = "none" => Reached(vs, n, At(k, j, d, mt.cli, "none"))
  BY <1>3, NewLetter
<1>5. Len(vs) = k /\ k \in 1..Len(vs) /\ k - 1 \in k - 1..Len(vs) /\ k > 0
  <2>1. Len(us) = 1
    OBVIOUS
  <2>2. Len(vs) = k - 1 + 1 /\ k \in Nat \ {0}
    BY <1>4, <2>1
  <2> QED
    BY <2>2
<1>6. PICK n : n = k - 1
  OBVIOUS
<1>7. n = Len(vs) - 1 /\ n \in k - 1..Len(vs) /\ Len(vs) > 0 /\ IsCluster(vs[Len(vs)])
  BY <1>3, <1>4, <1>5, <1>6
<1>14. Grown(ws, Fixed(ws, b), vs, n)
  BY <1>4, <1>7
<1>8. ASSUME mt.stop = "none" PROVE Reached(vs, n, At(k, j, d, mt.cli, "none"))
  BY <1>4, <1>7, <1>8
<1>9. j \in 1..Len(vs[k]) /\ c = vs[k][j] /\ j = Len(vs[k])
  <2>1. vs[k] = u
    BY <1>3, <1>4
  <2>2. j \in 1..j
    BY <1>4
  <2> QED
    BY <2>1, <2>2
<1>10. ASSUME c \in DOMAIN A!Flag
       PROVE  TypedAs(vs, TRUE, d, More(mt, WithFlag(mt.cli, A!Flag[c])), jt)
  <2>1. PICK e, nt : e = WithFlag(mt.cli, A!Flag[c]) /\ nt = More(mt, e)
    OBVIOUS
  <2>2. e \in Understandings
    BY <1>1, <1>10, <2>1, UnderstandingFacts, Tables
  <2>3. /\ nt \in Meanings /\ (mt.stop # "none" => nt.stop = mt.stop)
        /\ (mt.stop = "none" => nt.stop = "none" /\ nt.cli = e)
    BY <1>1, <2>1, <2>2, MoreFacts
  <2>5. PICK f : f = At(k, j + 1, d, e, "none")
    OBVIOUS
  <2>4. ASSUME mt.stop = "none"
        PROVE  Reached(vs, n, f) /\ Heard(vs, TRUE, d, nt, jt, f)
    <3>1. Reached(vs, n, f)
      BY <1>4, <1>5, <1>8, <1>9, <1>10, <2>1, <2>4, <2>5, PlainLetter
    <3>2. EndOf(vs, TRUE, d, nt.cli) = f
      BY <1>5, <1>9, <2>3, <2>4, <2>5, FixedIs
    <3> QED
      BY <2>3, <2>4, <3>1, <3>2 DEF Heard
  <2>6. TypedAs(vs, TRUE, d, nt, jt)
    BY <1>1, <1>4, <1>7, <1>14, <2>3, <2>4, TypedOpen
  <2> QED
    BY <2>1, <2>6
<1>11. ASSUME NEW why \in {"help", "version", "usage"},
              mt.stop = "none" => Reached(vs, n, At(k, j, d, mt.cli, why))
       PROVE  TypedAs(vs, TRUE, d, Halts(mt, why), jt)
  <2>1. PICK nt, f : nt = Halts(mt, why) /\ f = At(k, j, d, mt.cli, why)
    OBVIOUS
  <2>2. /\ nt \in Meanings /\ (mt.stop # "none" => nt.stop = mt.stop)
        /\ (mt.stop = "none" => nt.stop = why)
    BY <1>1, <2>1, HaltsFacts
  <2>3. ASSUME mt.stop = "none"
        PROVE  Reached(vs, n, f) /\ Heard(vs, TRUE, d, nt, jt, f)
    <3>1. f.status = why /\ why # "none"
      BY <2>1, AtIs
    <3> QED
      BY <1>11, <2>1, <2>2, <2>3, <3>1 DEF Heard
  <2>4. TypedAs(vs, TRUE, d, nt, jt)
    BY <1>1, <1>4, <1>7, <1>14, <2>2, <2>3, TypedOpen
  <2> QED
    BY <2>1, <2>4
<1>12. ASSUME c \in DOMAIN A!Stop PROVE TypedAs(vs, TRUE, d, Halts(mt, A!Stop[c]), jt)
  <2>1. A!Stop[c] \in {"help", "version", "usage"}
    BY <1>12, Tables
  <2>2. mt.stop = "none" => Reached(vs, n, At(k, j, d, mt.cli, A!Stop[c]))
    BY <1>4, <1>5, <1>8, <1>9, <1>12, PlainLetter
  <2> QED
    BY <1>11, <2>1, <2>2
<1>13. ASSUME c \notin DOMAIN A!Flag \cup DOMAIN A!Stop PROVE TypedAs(vs, TRUE, d, Halts(mt, "usage"), jt)
  <2>1. mt.stop = "none" => Reached(vs, n, At(k, j, d, mt.cli, "usage"))
    BY <1>4, <1>5, <1>8, <1>9, <1>13, PlainLetter
  <2> QED
    BY <1>11, <2>1
<1> QED
  BY <1>10, <1>12, <1>13

\* What a new end of the words comes to: it is understood, or it stops.
LEMMA TypedEnd ==
  ASSUME NEW ws, NEW b, NEW d, NEW mt, NEW it, TypedAs(ws, b, d, mt, it), it # MaxItems,
         NEW vs \in Seq(Words), Grown(ws, Fixed(ws, b), vs, Len(vs)), NEW g \in BOOLEAN, NEW jt
  PROVE  /\ \A c \in Understandings :
              (mt.stop = "none" => Reached(vs, Len(vs), At(Len(vs) + 1, 0, g, c, "none"))) =>
              TypedAs(vs, FALSE, g, More(mt, c), jt)
         /\ \A why \in {"help", "version", "usage", "panic"} : \A f :
              (mt.stop = "none" => Reached(vs, Len(vs), f)) /\ f.status = why =>
              TypedAs(vs, FALSE, g, Halts(mt, why), jt)
         /\ \A f : (mt.stop = "none" => Reached(vs, Len(vs), f)) /\ jt = MaxItems /\ Missing(vs, f) =>
              TypedAs(vs, FALSE, g, Halts(mt, "usage"), jt)
<1>1. mt \in Meanings
  BY DEF TypedAs
<1>2. Fixed(vs, FALSE) = Len(vs)
  BY FixedIs
<1>3. ASSUME NEW nt \in Meanings, mt.stop # "none" => nt.stop = mt.stop,
             mt.stop = "none" => \E f : Reached(vs, Len(vs), f) /\ Heard(vs, FALSE, g, nt, jt, f)
      PROVE  TypedAs(vs, FALSE, g, nt, jt)
  BY <1>2, <1>3, TypedFurther
<1>4. ASSUME NEW c \in Understandings,
             mt.stop = "none" => Reached(vs, Len(vs), At(Len(vs) + 1, 0, g, c, "none"))
      PROVE  TypedAs(vs, FALSE, g, More(mt, c), jt)
  <2>1. PICK nt : nt = More(mt, c)
    OBVIOUS
  <2>2. /\ nt \in Meanings /\ (mt.stop # "none" => nt.stop = mt.stop)
        /\ (mt.stop = "none" => nt.stop = "none" /\ nt.cli = c)
    BY <1>1, <2>1, MoreFacts
  <2>3. ASSUME mt.stop = "none" PROVE Heard(vs, FALSE, g, nt, jt, At(Len(vs) + 1, 0, g, c, "none"))
    BY <2>2, <2>3, FixedIs DEF Heard
  <2> QED
    BY <1>3, <1>4, <2>1, <2>2, <2>3
<1>5. ASSUME NEW why \in {"help", "version", "usage", "panic"}, NEW f,
             mt.stop = "none" => Reached(vs, Len(vs), f) /\ Heard(vs, FALSE, g, Halts(mt, why), jt, f)
      PROVE  TypedAs(vs, FALSE, g, Halts(mt, why), jt)
  <2>1. PICK nt : nt = Halts(mt, why)
    OBVIOUS
  <2>2. nt \in Meanings /\ (mt.stop # "none" => nt.stop = mt.stop)
    BY <1>1, <2>1, HaltsFacts
  <2> QED
    BY <1>3, <1>5, <2>1, <2>2
<1>6. ASSUME NEW why \in {"help", "version", "usage", "panic"}, NEW f, f.status = why, mt.stop = "none"
      PROVE  Heard(vs, FALSE, g, Halts(mt, why), jt, f)
  <2>1. PICK nt : nt = Halts(mt, why)
    OBVIOUS
  <2>2. nt.stop = why /\ why # "none"
    BY <1>1, <1>6, <2>1, HaltsFacts
  <2> QED
    BY <1>6, <2>1, <2>2 DEF Heard
<1>7. ASSUME NEW f, jt = MaxItems, Missing(vs, f), mt.stop = "none"
      PROVE  Heard(vs, FALSE, g, Halts(mt, "usage"), jt, f)
  <2>1. PICK nt : nt = Halts(mt, "usage")
    OBVIOUS
  <2>2. nt.stop = "usage"
    BY <1>1, <1>7, <2>1, HaltsFacts
  <2> QED
    BY <1>7, <2>1, <2>2 DEF Heard
<1> QED
  BY <1>4, <1>5, <1>6, <1>7

LEMMA TypedStop ==
  ASSUME NEW ws, NEW b, NEW d, NEW mt, NEW it, TypedAs(ws, b, d, mt, it), it # MaxItems,
         NEW vs \in Seq(Words), Grown(ws, Fixed(ws, b), vs, Len(vs)), NEW g \in BOOLEAN, NEW jt,
         NEW why \in {"help", "version", "usage", "panic"}, NEW f, f.status = why,
         mt.stop = "none" => Reached(vs, Len(vs), f)
  PROVE  TypedAs(vs, FALSE, g, Halts(mt, why), jt)
BY TypedEnd

\* An option whose argument is missing, is the rest of its word or the next one.
LEMMA OptionLetter ==
  ASSUME NEW ws, NEW b, NEW d, NEW mt, NEW it, TypedAs(ws, b, d, mt, it), it # MaxItems, ~d,
         NEW us \in Seq(Words), Len(us) > 0, NEW vs, NEW k, NEW j, Adds(ws, b, us, vs, k, j),
         NEW u, u = us[1], j <= Len(u), NEW c, c = u[j], c \in DOMAIN A!Option, NEW jt
  PROVE  /\ Len(us) = 1 /\ j = Len(u) /\ jt = MaxItems => TypedAs(vs, FALSE, d, Halts(mt, "usage"), jt)
         /\ Len(us) = 1 /\ j < Len(u) =>
              TypedAs(vs, FALSE, d, More(mt, A!WithValue(mt.cli, A!Option[c], RestOf(u, j + 1))), jt)
         /\ Len(us) = 2 /\ j = Len(u) =>
              TypedAs(vs, FALSE, d, MoreWord(mt, us[2], A!WithValue(mt.cli, A!Option[c], us[2])), jt)
<1>1. mt \in Meanings /\ mt.cli \in Understandings /\ d \in BOOLEAN
  BY DEF TypedAs, Meanings
<1>2. /\ vs \in Seq(Words) /\ k \in Nat \ {0} /\ Len(vs) = k - 1 + Len(us)
      /\ vs[k] = u /\ (Len(us) > 1 => vs[k + 1] = us[2]) /\ IsCluster(u) /\ j \in Nat \ {0}
      /\ \A n \in k - 1..Len(vs) :
           /\ Grown(ws, Fixed(ws, b), vs, n)
           /\ mt.stop = "none" => Reached(vs, n, At(k, j, d, mt.cli, "none"))
  BY NewLetter
<1>3. Len(us) \in Nat /\ Len(vs) \in Nat
  BY <1>2, LenProperties
<1>4. PICK n : n = Len(vs)
  OBVIOUS
<1>5. k \in 1..n /\ n \in k - 1..n /\ n \in 0..n
  BY <1>2, <1>3, <1>4
<1>6. Grown(ws, Fixed(ws, b), vs, n)
  BY <1>2, <1>4, <1>5
<1>7. ASSUME mt.stop = "none" PROVE Reached(vs, n, At(k, j, d, mt.cli, "none"))
  BY <1>2, <1>4, <1>5, <1>7
<1>8. u \in Words /\ Len(u) \in Nat /\ j \in 1..Len(u)
  <2>1. 1 \in 1..Len(us)
    BY <1>3
  <2>2. u \in Words
    BY <2>1, ElementOfSeq
  <2> QED
    BY <1>2, <2>2, LenProperties DEF Words
<1>9. A!Option[c] \in A!Long(A!Option)
  BY Tables
<1>10. ASSUME Len(us) = 1, j = Len(u), jt = MaxItems PROVE TypedAs(vs, FALSE, d, Halts(mt, "usage"), jt)
  <2>1. PICK f : f = At(k, j, d, mt.cli, "none")
    OBVIOUS
  <2>2. f.word = k /\ f.letter = j /\ f.status = "none"
    BY <2>1, AtIs
  <2>3. Len(vs) = k /\ k > 0 /\ j # 0 /\ j \in Nat
    BY <1>2, <1>10
  <2>4. Missing(vs, f)
    BY <1>2, <1>10, <2>2, <2>3 DEF Missing, LetterAsks
  <2> QED
    BY <1>1, <1>2, <1>4, <1>6, <1>7, <1>10, <2>1, <2>4, TypedEnd
<1>11. ASSUME Len(us) = 1, j < Len(u)
       PROVE  TypedAs(vs, FALSE, d, More(mt, A!WithValue(mt.cli, A!Option[c], RestOf(u, j + 1))), jt)
  <2>1. PICK e, r : r = RestOf(u, j + 1) /\ e = A!WithValue(mt.cli, A!Option[c], r)
    OBVIOUS
  <2>2. r \in Words
    <3>1. \A i \in j + 1..Len(u) : u[i] \in Chars
      BY <1>8, ElementOfSeq DEF Words
    <3> QED
      BY <1>8, <2>1, <3>1, SubSeqProperties DEF RestOf, Words
  <2>3. e \in Understandings
    BY <1>1, <1>9, <2>1, <2>2, UnderstandingFacts
  <2>4. Len(vs) = k
    BY <1>2, <1>11
  <2>5. ASSUME mt.stop = "none" PROVE Reached(vs, n, At(k + 1, 0, d, e, "none"))
    BY <1>2, <1>4, <1>5, <1>7, <1>8, <1>11, <2>1, <2>5, AskingLetter
  <2> QED
    BY <1>1, <1>2, <1>4, <1>6, <2>1, <2>3, <2>4, <2>5, TypedEnd
<1>12. ASSUME Len(us) = 2, j = Len(u)
       PROVE  TypedAs(vs, FALSE, d, MoreWord(mt, us[2], A!WithValue(mt.cli, A!Option[c], us[2])), jt)
  <2>1. PICK e, v : v = us[2] /\ e = A!WithValue(mt.cli, A!Option[c], v)
    OBVIOUS
  <2>2. v \in Words
    <3>1. 2 \in 1..Len(us)
      BY <1>12
    <3> QED
      BY <2>1, <3>1, ElementOfSeq
  <2>3. e \in Understandings
    BY <1>1, <1>9, <2>1, <2>2, UnderstandingFacts
  <2>4. Len(vs) = k + 1 /\ k < n /\ k + 2 = Len(vs) + 1 /\ vs[k + 1] = v
    BY <1>2, <1>4, <1>12, <2>1
  <2>5. CASE Readable(v)
    <3>1. ASSUME mt.stop = "none" PROVE Reached(vs, n, At(k + 2, 0, d, e, "none"))
      BY <1>2, <1>4, <1>5, <1>7, <1>8, <1>12, <2>1, <2>4, <2>5, <3>1, AskingLetter
    <3>2. TypedAs(vs, FALSE, d, More(mt, e), jt)
      BY <1>1, <1>2, <1>4, <1>6, <2>3, <2>4, <3>1, TypedEnd
    <3> QED
      BY <2>1, <2>5, <3>2 DEF MoreWord
  <2>6. CASE ~Readable(v)
    <3>1. PICK f : f = At(k, j, d, mt.cli, "panic")
      OBVIOUS
    <3>2. ASSUME mt.stop = "none" PROVE Reached(vs, n, f)
      BY <1>2, <1>4, <1>5, <1>7, <1>8, <1>12, <2>4, <2>6, <3>1, <3>2, AskingLetter
    <3>3. f.status = "panic"
      BY <3>1, AtIs
    <3>4. TypedAs(vs, FALSE, d, Halts(mt, "panic"), jt)
      BY <1>1, <1>2, <1>4, <1>6, <3>2, <3>3, TypedEnd
    <3> QED
      BY <2>1, <2>6, <3>4 DEF MoreWord
  <2> QED
    BY <2>5, <2>6
<1> QED
  BY <1>10, <1>11, <1>12

-----------------------------------------------------------------------------
(* The forms of an option                                                    *)

\* A letter of its own word, or one more of the last one, with v behind it.
Written(ws, b, c, v, us, vs) ==
  \/ vs = Joined(ws, us) /\ us[1] = Joined(<<"-", c>>, v)
  \/ b /\ vs = Joined(A!Front(ws), us) /\ us[1] = Joined(Append(A!Last(ws), c), v)

LEMMA LongerStill ==
  ASSUME NEW x \in Words, NEW w \in Words, NEW u \in Words, Longer(x, w), Longer(w, u)
  PROVE  Longer(x, u)
<1>1. Len(x) \in Nat /\ Len(w) \in Nat /\ Len(u) \in Nat
  BY LenProperties DEF Words
<1>2. \A j \in 1..Len(x) : j \in 1..Len(w)
  BY <1>1 DEF Longer
<1> QED
  BY <1>1, <1>2 DEF Longer

LEMMA StemLonger ==
  ASSUME NEW x \in Words, Readable(x), NEW c \in Lettered, NEW w, w = Append(x, c)
  PROVE  w \in Words /\ Longer(x, w) /\ Len(w) = Len(x) + 1 /\ w[Len(w)] = c /\ Readable(w)
<1>1. c \in Chars /\ c # NotUnicode
  BY SymbolsAre
<1>2. Len(x) \in Nat
  BY LenProperties DEF Words
<1>3. /\ w \in Words /\ Len(w) = Len(x) + 1 /\ w[Len(x) + 1] = c
      /\ \A i \in 1..Len(x) : w[i] = x[i]
  BY <1>1, AppendProperties DEF Words
<1>4. Readable(w)
  <2>1. ASSUME NEW i \in 1..Len(w) PROVE w[i] # NotUnicode
    <3>1. i \in 1..Len(x) \/ i = Len(x) + 1
      BY <1>2, <1>3
    <3> QED
      BY <1>1, <1>3, <3>1, ReadableIs
  <2> QED
    BY <1>3, <2>1, ReadableIs
<1> QED
  BY <1>2, <1>3, <1>4 DEF Longer

LEMMA JoinedLonger ==
  ASSUME NEW w \in Words, NEW v \in Words, Readable(w), Readable(v), NEW u, u = Joined(w, v)
  PROVE  /\ u \in Words /\ Longer(w, u) /\ Len(u) = Len(w) + Len(v)
         /\ RestOf(u, Len(w) + 1) = v
<1>1. u \in Words /\ Len(u) = Len(w) + Len(v) /\ Len(w) \in Nat /\ Len(v) \in Nat
  BY JoinedLength
<1>2. Readable(u)
  BY JoinedReadable
<1>3. \A j \in 1..Len(w) : u[j] = w[j]
  BY JoinedFirst
<1>4. RestOf(u, Len(w) + 1) = v
  BY JoinedRest
<1> QED
  BY <1>1, <1>2, <1>3, <1>4 DEF Longer

LEMMA WrittenAdds ==
  ASSUME NEW ws, NEW b, NEW d, NEW mt, NEW it, TypedAs(ws, b, d, mt, it),
         NEW c \in Lettered, NEW v \in Words, Readable(v), NEW us, NEW vs,
         Written(ws, b, c, v, us, vs)
  PROVE  \E k, j : /\ Adds(ws, b, us, vs, k, j) /\ us[1] \in Words
                   /\ j \in 1..Len(us[1]) /\ us[1][j] = c /\ Len(us[1]) = j + Len(v)
                   /\ RestOf(us[1], j + 1) = v
<1>1. PICK u : u = us[1]
  OBVIOUS
<1>2. Len(v) \in Nat
  BY LenProperties DEF Words
<1>s. ASSUME NEW x \in Words, Readable(x), NEW w, w = Append(x, c)
      PROVE  w \in Words /\ Longer(x, w) /\ Len(w) = Len(x) + 1 /\ w[Len(w)] = c /\ Readable(w)
  BY <1>s, StemLonger
<1>3. ASSUME NEW w \in Words, Readable(w), Len(w) > 0, w[Len(w)] = c, u = Joined(w, v)
      PROVE  /\ u \in Words /\ Longer(w, u) /\ Len(w) \in 1..Len(u) /\ u[Len(w)] = c
             /\ Len(u) = Len(w) + Len(v) /\ RestOf(u, Len(w) + 1) = v
  <2>1. u \in Words /\ Longer(w, u) /\ Len(u) = Len(w) + Len(v) /\ RestOf(u, Len(w) + 1) = v
    BY <1>3, JoinedLonger
  <2>2. Len(w) \in Nat
    BY LenProperties DEF Words
  <2>3. Len(w) \in 1..Len(w) /\ Len(w) \in 1..Len(u)
    BY <1>2, <1>3, <2>1, <2>2
  <2>4. u[Len(w)] = w[Len(w)]
    BY <2>1, <2>3 DEF Longer
  <2> QED
    BY <1>3, <2>1, <2>3, <2>4
<1>4. CASE vs = Joined(ws, us) /\ us[1] = Joined(<<"-", c>>, v)
  <2>1. PICK w : w = <<"-", c>>
    OBVIOUS
  <2>2. w \in Words /\ Len(w) = 2 /\ w[2] = c /\ IsCluster(w) /\ Readable(w) /\ Len(w) > 0
    <3>1. w \in Words /\ Len(w) = 2 /\ w[2] = c /\ IsCluster(w)
      BY <2>1, LetterWord
    <3> QED
      BY <3>1 DEF IsCluster
  <2>3. w[Len(w)] = c /\ u = Joined(w, v)
    BY <1>1, <1>4, <2>1, <2>2
  <2>4. /\ u \in Words /\ Longer(w, u) /\ Len(w) \in 1..Len(u) /\ u[Len(w)] = c
        /\ Len(u) = Len(w) + Len(v) /\ RestOf(u, Len(w) + 1) = v
    BY <1>3, <2>2, <2>3
  <2>5. IsCluster(u)
    BY <2>2, <2>4, LongerCluster
  <2>6. PICK k, j : k = Len(ws) + 1 /\ j = Len(w)
    OBVIOUS
  <2>7. Adds(ws, b, us, vs, k, j)
    BY <1>1, <1>4, <2>2, <2>5, <2>6 DEF Adds
  <2> QED
    BY <1>1, <2>4, <2>6, <2>7
<1>5. CASE b /\ vs = Joined(A!Front(ws), us) /\ us[1] = Joined(Append(A!Last(ws), c), v)
  <2>1. ws \in Seq(Words) /\ b \in BOOLEAN /\ Len(ws) > 0 /\ IsCluster(ws[Len(ws)])
    BY <1>5 DEF TypedAs
  <2>2. PICK x, w : x = ws[Len(ws)] /\ w = Append(x, c)
    OBVIOUS
  <2>3. x \in Words /\ Readable(x)
    <3>1. Len(ws) \in 1..Len(ws)
      BY <2>1, LenProperties
    <3>2. x \in Words
      BY <2>1, <2>2, <3>1, ElementOfSeq
    <3> QED
      BY <2>1, <2>2, <3>2 DEF IsCluster
  <2>4. w \in Words /\ Longer(x, w) /\ Len(w) = Len(x) + 1 /\ w[Len(w)] = c /\ Readable(w)
    BY <1>s, <2>2, <2>3
  <2>5. u = Joined(w, v)
    BY <1>1, <1>5, <2>2 DEF A!Last
  <2>6. Len(w) > 0
    <3>1. Len(x) \in Nat
      BY <2>3, LenProperties DEF Words
    <3> QED
      BY <2>4, <3>1
  <2>7. /\ u \in Words /\ Longer(w, u) /\ Len(w) \in 1..Len(u) /\ u[Len(w)] = c
        /\ Len(u) = Len(w) + Len(v) /\ RestOf(u, Len(w) + 1) = v
    BY <1>3, <2>4, <2>5, <2>6
  <2>8. Longer(x, u)
    BY <2>3, <2>4, <2>7, LongerStill
  <2>9. PICK k, j : k = Len(ws) /\ j = Len(w)
    OBVIOUS
  <2>10. Adds(ws, b, us, vs, k, j)
    BY <1>1, <1>5, <2>2, <2>4, <2>8, <2>9 DEF Adds
  <2> QED
    BY <1>1, <2>7, <2>9, <2>10
<1> QED
  BY <1>4, <1>5 DEF Written

-----------------------------------------------------------------------------
(* One more item of each form                                                *)

LEMMA OperandTyped ==
  ASSUME NEW ws, NEW b, NEW d, NEW mt, NEW it, TypedAs(ws, b, d, mt, it), it # MaxItems,
         NEW us \in Seq(Words), Alone(us), NEW vs, vs = Joined(ws, us),
         NEW w, w = us[1], ~Readable(w) \/ d \/ ~IsOption(w), NEW jt
  PROVE  TypedAs(vs, FALSE, d, MoreWord(mt, w, A!WithOperand(mt.cli, w)), jt)
<1>1. mt \in Meanings /\ mt.cli \in Understandings /\ d \in BOOLEAN
  BY DEF TypedAs, Meanings
<1>2. PICK k, n : k = Len(ws) + 1 /\ n = Len(vs)
  OBVIOUS
<1>3. /\ vs \in Seq(Words) /\ Len(vs) = Len(ws) + Len(us) /\ Len(ws) \in Nat /\ Len(us) \in Nat
      /\ vs[k] = us[1] /\ Grown(ws, Fixed(ws, b), vs, n)
      /\ mt.stop = "none" => Reached(vs, n, At(k, 0, d, mt.cli, "none"))
  <2>1. Len(us) > 0
    BY DEF Alone
  <2> QED
    BY <1>2, <2>1, NewWord
<1>4. n = k /\ k \in 1..n /\ n \in 0..Len(vs)
  BY <1>2, <1>3 DEF Alone
<1>5. w \in Words /\ w = vs[k]
  <2>1. 1 \in 1..Len(us)
    BY DEF Alone
  <2> QED
    BY <1>3, <2>1, ElementOfSeq
<1>7. CASE Readable(w)
  <2>1. PICK e : e = A!WithOperand(mt.cli, w)
    OBVIOUS
  <2>2. e \in Understandings
    BY <1>1, <1>5, <2>1, UnderstandingFacts
  <2>3. ASSUME mt.stop = "none" PROVE Reached(vs, n, At(Len(vs) + 1, 0, d, e, "none"))
    <3>1. Reached(vs, n, At(k + 1, 0, d, e, "none"))
      BY <1>3, <1>4, <1>5, <1>7, <2>1, <2>3, WholeWord
    <3> QED
      BY <1>2, <1>4, <3>1
  <2>4. TypedAs(vs, FALSE, d, More(mt, e), jt)
    BY <1>1, <1>2, <1>3, <2>2, <2>3, TypedEnd
  <2> QED
    BY <1>7, <2>1, <2>4 DEF MoreWord
<1>8. CASE ~Readable(w)
  <2>1. PICK f : f = At(k, 0, d, mt.cli, "panic")
    OBVIOUS
  <2>2. ASSUME mt.stop = "none" PROVE Reached(vs, n, f)
    BY <1>3, <1>4, <1>5, <1>8, <2>1, <2>2, WholeWord
  <2>3. f.status = "panic"
    BY <2>1, AtIs
  <2>4. TypedAs(vs, FALSE, d, Halts(mt, "panic"), jt)
    BY <1>1, <1>2, <1>3, <2>2, <2>3, TypedEnd
  <2> QED
    BY <1>8, <2>4 DEF MoreWord
<1> QED
  BY <1>7, <1>8

\* A word that is not Unicode, whatever it begins with.
LEMMA UnreadableTyped ==
  ASSUME NEW ws, NEW b, NEW d, NEW mt, NEW it, TypedAs(ws, b, d, mt, it), it # MaxItems,
         NEW us \in Seq(Words), Alone(us), NEW vs, vs = Joined(ws, us),
         ~Readable(us[1]), NEW jt
  PROVE  TypedAs(vs, FALSE, d, Halts(mt, "panic"), jt)
<1>1. TypedAs(vs, FALSE, d, MoreWord(mt, us[1], A!WithOperand(mt.cli, us[1])), jt)
  BY OperandTyped
<1> QED
  BY <1>1 DEF MoreWord

Open(d) == ~d

LEMMA EndOfOptionsTyped ==
  ASSUME NEW ws, NEW b, NEW d, NEW mt, NEW it, TypedAs(ws, b, d, mt, it), it # MaxItems, Open(d),
         NEW us \in Seq(Words), Alone(us), NEW vs, vs = Joined(ws, us),
         Ends(us[1]), NEW jt
  PROVE  TypedAs(vs, FALSE, TRUE, mt, jt)
<1>1. mt \in Meanings /\ mt.cli \in Understandings /\ d \in BOOLEAN
  BY DEF TypedAs, Meanings
<1>2. PICK k, n, w : k = Len(ws) + 1 /\ n = Len(vs) /\ w = us[1]
  OBVIOUS
<1>3. /\ vs \in Seq(Words) /\ Len(vs) = Len(ws) + Len(us) /\ Len(ws) \in Nat /\ Len(us) \in Nat
      /\ vs[k] = us[1] /\ Grown(ws, Fixed(ws, b), vs, n)
      /\ mt.stop = "none" => Reached(vs, n, At(k, 0, d, mt.cli, "none"))
  <2>1. Len(us) > 0
    BY DEF Alone
  <2> QED
    BY <1>2, <2>1, NewWord
<1>4. n = k /\ k \in 1..n /\ n \in 0..Len(vs)
  BY <1>2, <1>3 DEF Alone
<1>5. Readable(w)
  <2>1. "-" \in Chars /\ "-" # NotUnicode
    BY SymbolsAre
  <2>2. w \in Words /\ Len(w) = 2 /\ w[1] = "-" /\ w[2] = "-"
    BY <1>2, <2>1, PairIs DEF Ends
  <2> QED
    BY <2>1, <2>2, ReadableIs
<1>10. w = vs[k] /\ vs \in Seq(Words) /\ n \in 0..Len(vs) /\ k \in 1..n
  BY <1>2, <1>3, <1>4
<1>12. ~d
  BY DEF Open
<1>7. ASSUME mt.stop = "none" PROVE Reached(vs, n, At(Len(vs) + 1, 0, TRUE, mt.cli, "none"))
  <2>2. Reached(vs, n, At(k, 0, d, mt.cli, "none"))
    BY <1>3, <1>7
  <2>3. \A e \in {TRUE} : Reached(vs, n, At(k + 1, 0, e, mt.cli, "none"))
    BY <1>2, <1>5, <1>10, <1>12, <2>2, EndWord
  <2>1. Reached(vs, n, At(k + 1, 0, TRUE, mt.cli, "none"))
    BY <2>3
  <2> QED
    BY <1>2, <1>4, <2>1
<1>8. TypedAs(vs, FALSE, TRUE, More(mt, mt.cli), jt)
  BY <1>1, <1>2, <1>3, <1>7, TypedEnd
<1>9. More(mt, mt.cli) = mt
  BY <1>1 DEF More, Meanings
<1> QED
  BY <1>8, <1>9

\* What every form of a long option has in common.
LongForm(us, w, n) ==
  /\ w = us[1] /\ w \in Words /\ Readable(w) /\ IsOption(w) /\ w[2] = "-" /\ ~Ends(w)
  /\ NameOf(w) = <<n>>

LongGoes(ws, b, d, mt, us, vs, w, k) ==
  /\ vs \in Seq(Words) /\ Grown(ws, Fixed(ws, b), vs, Len(vs)) /\ vs[k] = w
  /\ Len(vs) = k - 1 + Len(us) /\ k \in Nat \ {0} /\ Len(us) \in Nat
  /\ (Len(us) > 1 => vs[k + 1] = us[2])
  /\ mt.stop = "none" => Reached(vs, Len(vs), At(k, 0, d, mt.cli, "none"))
  /\ (LongAsks(w) => Len(us) > 1) =>
       \E p : /\ p = At(k, 0, d, mt.cli, "none")
              /\ mt.stop = "none" => Reached(vs, Len(vs), AfterLong(p, w, vs[k + 1]))

LEMMA LongReached ==
  ASSUME NEW ws, NEW b, NEW d, NEW mt, NEW it, TypedAs(ws, b, d, mt, it), it # MaxItems, ~d,
         NEW us \in Seq(Words), Len(us) > 0, NEW vs, vs = Joined(ws, us), NEW w, NEW n,
         LongForm(us, w, n), NEW k, k = Len(ws) + 1
  PROVE  LongGoes(ws, b, d, mt, us, vs, w, k)
<1>1. /\ vs \in Seq(Words) /\ Len(vs) = Len(ws) + Len(us) /\ Len(ws) \in Nat /\ Len(us) \in Nat
      /\ vs[k] = us[1] /\ (Len(us) > 1 => vs[k + 1] = us[2])
      /\ Grown(ws, Fixed(ws, b), vs, Len(vs))
      /\ mt.stop = "none" => Reached(vs, Len(vs), At(k, 0, d, mt.cli, "none"))
  BY NewWord
<1>2. Len(vs) = k - 1 + Len(us) /\ k \in Nat \ {0}
  BY <1>1
<1>3. vs[k] = w /\ Readable(w) /\ IsOption(w) /\ w[2] = "-" /\ ~Ends(w)
  BY <1>1 DEF LongForm
<1>4. PICK p : p = At(k, 0, d, mt.cli, "none")
  OBVIOUS
<1>5. PICK m : m = Len(vs)
  OBVIOUS
<1>6. m \in 0..Len(vs) /\ k \in 1..m /\ (Len(us) > 1 => k < m)
  BY <1>1, <1>2, <1>5
<1>7. ASSUME LongAsks(w) => Len(us) > 1, mt.stop = "none"
      PROVE  Reached(vs, m, AfterLong(p, w, vs[k + 1]))
  <2>1. Reached(vs, m, p) /\ (LongAsks(w) => k < m)
    BY <1>1, <1>4, <1>5, <1>6, <1>7
  <2> QED
    BY <1>1, <1>3, <1>4, <1>6, <2>1, LongWord
<1> QED
  BY <1>1, <1>2, <1>3, <1>4, <1>5, <1>7 DEF LongGoes

LEMMA PassedHalted ==
  ASSUME NEW k, NEW d, NEW c, NEW s, NEW p, p = At(k, 0, d, c, s)
  PROVE  /\ p.cli = c
         /\ \A i, e : Passed(p, i, e) = At(k + i, 0, d, e, "none")
         /\ \A why : Halted(p, why).status = why
         /\ \A o, v : Taken(p, o, v) = IF Readable(v) THEN At(k + 2, 0, d, A!WithValue(c, o, v), "none")
                                                      ELSE Halted(p, "panic")
BY AtIs DEF Passed, Halted, Taken

LEMMA LongAlone ==
  ASSUME NEW ws, NEW b, NEW d, NEW mt, NEW it, TypedAs(ws, b, d, mt, it), it # MaxItems, ~d,
         NEW us \in Seq(Words), Alone(us), NEW vs, vs = Joined(ws, us),
         NEW n, NEW w, LongForm(us, w, n), Signs(w) = {}, NEW jt
  PROVE  /\ n \in A!Long(A!Flag) => TypedAs(vs, FALSE, d, More(mt, WithFlag(mt.cli, n)), jt)
         /\ n \in A!Long(A!Stop) => TypedAs(vs, FALSE, d, Halts(mt, n), jt)
         /\ n \notin A!Long(A!Flag) \cup A!Long(A!Option) \cup A!Long(A!Stop) =>
              TypedAs(vs, FALSE, d, Halts(mt, "usage"), jt)
         /\ n \in A!Long(A!Option) /\ jt = MaxItems => TypedAs(vs, FALSE, d, Halts(mt, "usage"), jt)
<1>1. mt \in Meanings /\ mt.cli \in Understandings /\ d \in BOOLEAN
  BY DEF TypedAs, Meanings
<1>2. PICK k : k = Len(ws) + 1
  OBVIOUS
<1>4. Len(us) > 0 /\ ~(Len(us) > 1)
  BY DEF Alone
<1>5. /\ vs \in Seq(Words) /\ Grown(ws, Fixed(ws, b), vs, Len(vs)) /\ vs[k] = w
      /\ Len(vs) = k - 1 + Len(us) /\ k \in Nat \ {0} /\ Len(us) \in Nat
      /\ (Len(us) > 1 => vs[k + 1] = us[2])
      /\ mt.stop = "none" => Reached(vs, Len(vs), At(k, 0, d, mt.cli, "none"))
      /\ (LongAsks(w) => Len(us) > 1) =>
           \E p : /\ p = At(k, 0, d, mt.cli, "none")
                  /\ mt.stop = "none" => Reached(vs, Len(vs), AfterLong(p, w, vs[k + 1]))
  <2>1. LongGoes(ws, b, d, mt, us, vs, w, k)
    BY <1>2, <1>4, LongReached
  <2> QED
    BY <2>1 DEF LongGoes
<1>6. Len(vs) = k
  BY <1>5 DEF Alone
<1>7. LongAsks(w) <=> n \in A!Long(A!Option)
  <2>1. \A h : <<h>> = <<n>> <=> h = n
    OBVIOUS
  <2> QED
    BY <2>1 DEF LongForm, LongAsks, Spells, Ends
<1>16. vs \in Seq(Words) /\ Grown(ws, Fixed(ws, b), vs, Len(vs)) /\ d \in BOOLEAN
  BY <1>1, <1>5
<1>8. PICK p : p = At(k, 0, d, mt.cli, "none")
  OBVIOUS
<1>9. ASSUME n \notin A!Long(A!Option), mt.stop = "none"
      PROVE  Reached(vs, Len(vs), AfterLong(p, w, vs[k + 1]))
  BY <1>5, <1>7, <1>8, <1>9
<1>10. NameOf(w) = <<n>>
  BY DEF LongForm
<1>11. ASSUME n \in A!Long(A!Flag) PROVE TypedAs(vs, FALSE, d, More(mt, WithFlag(mt.cli, n)), jt)
  <2>1. PICK e : e = WithFlag(mt.cli, n)
    OBVIOUS
  <2>2. e \in Understandings
    BY <1>1, <1>11, <2>1, UnderstandingFacts
  <2>3. AfterLong(p, w, vs[k + 1]) = At(Len(vs) + 1, 0, d, e, "none")
    BY <1>6, <1>8, <1>10, <1>11, <2>1, LongName, PassedHalted
  <2>4. ASSUME mt.stop = "none" PROVE Reached(vs, Len(vs), At(Len(vs) + 1, 0, d, e, "none"))
    BY <1>9, <1>11, <2>3, <2>4, OneTable
  <2>5. TypedAs(vs, FALSE, d, More(mt, e), jt)
    BY <1>16, <2>2, <2>4, TypedEnd
  <2> QED
    BY <2>1, <2>5
<1>12. ASSUME NEW why \in {"help", "version", "usage", "panic"}, n \notin A!Long(A!Option),
              AfterLong(p, w, vs[k + 1]) = Halted(p, why)
       PROVE  TypedAs(vs, FALSE, d, Halts(mt, why), jt)
  <2>1. PICK f : f = Halted(p, why)
    OBVIOUS
  <2>2. f.status = why
    BY <1>8, <2>1, PassedHalted
  <2>3. mt.stop = "none" => Reached(vs, Len(vs), f)
    BY <1>9, <1>12, <2>1
  <2> QED
    BY <1>16, <2>2, <2>3, TypedStop
<1>13. ASSUME n \in A!Long(A!Stop) PROVE TypedAs(vs, FALSE, d, Halts(mt, n), jt)
  <2>1. n \in {"help", "version", "usage", "panic"}
    BY <1>13, Tables
  <2>2. AfterLong(p, w, vs[k + 1]) = Halted(p, n)
    BY <1>10, <1>13, LongName
  <2> QED
    BY <1>12, <1>13, <2>1, <2>2, OneTable
<1>14. ASSUME n \notin A!Long(A!Flag) \cup A!Long(A!Option) \cup A!Long(A!Stop)
       PROVE  TypedAs(vs, FALSE, d, Halts(mt, "usage"), jt)
  <2>1. AfterLong(p, w, vs[k + 1]) = Halted(p, "usage")
    BY <1>10, <1>14, LongName
  <2> QED
    BY <1>12, <1>14, <2>1
<1>15. ASSUME n \in A!Long(A!Option), jt = MaxItems PROVE TypedAs(vs, FALSE, d, Halts(mt, "usage"), jt)
  <2>1. p.word = k /\ p.letter = 0 /\ p.ended = d /\ p.cli = mt.cli /\ p.status = "none"
    BY <1>8, AtIs
  <2>2. Missing(vs, p)
    BY <1>5, <1>6, <1>7, <1>15, <2>1 DEF Missing
  <2>3. ASSUME mt.stop = "none" PROVE Reached(vs, Len(vs), p)
    BY <1>5, <1>8, <2>3
  <2> QED
    BY <1>15, <1>16, <2>2, <2>3, TypedEnd
<1> QED
  BY <1>11, <1>13, <1>14, <1>15

LEMMA LongWithWord ==
  ASSUME NEW ws, NEW b, NEW d, NEW mt, NEW it, TypedAs(ws, b, d, mt, it), it # MaxItems, ~d,
         NEW us \in Seq(Words), Paired(us), NEW vs, vs = Joined(ws, us),
         NEW n \in A!Long(A!Option), NEW w, LongForm(us, w, n), Signs(w) = {},
         NEW v \in Words, v = us[2], NEW jt
  PROVE  TypedAs(vs, FALSE, d, MoreWord(mt, v, A!WithValue(mt.cli, n, v)), jt)
<1>1. mt \in Meanings /\ mt.cli \in Understandings /\ d \in BOOLEAN
  BY DEF TypedAs, Meanings
<1>2. PICK k : k = Len(ws) + 1
  OBVIOUS
<1>3. Len(us) > 0 /\ Len(us) > 1
  BY DEF Paired
<1>4. /\ vs \in Seq(Words) /\ Grown(ws, Fixed(ws, b), vs, Len(vs)) /\ vs[k] = w
      /\ Len(vs) = k - 1 + Len(us) /\ k \in Nat \ {0} /\ Len(us) \in Nat
      /\ (Len(us) > 1 => vs[k + 1] = us[2])
      /\ mt.stop = "none" => Reached(vs, Len(vs), At(k, 0, d, mt.cli, "none"))
      /\ (LongAsks(w) => Len(us) > 1) =>
           \E p : /\ p = At(k, 0, d, mt.cli, "none")
                  /\ mt.stop = "none" => Reached(vs, Len(vs), AfterLong(p, w, vs[k + 1]))
  <2>1. LongGoes(ws, b, d, mt, us, vs, w, k)
    BY <1>2, <1>3, LongReached
  <2> QED
    BY <2>1 DEF LongGoes
<1>5. vs \in Seq(Words) /\ Grown(ws, Fixed(ws, b), vs, Len(vs)) /\ vs[k + 1] = v /\ k + 2 = Len(vs) + 1
  <2>1. Len(us) = 2
    BY DEF Paired
  <2>2. Len(vs) = k - 1 + 2 /\ k \in Nat
    BY <1>4, <2>1
  <2>3. k + 2 = Len(vs) + 1
    BY <2>2
  <2> QED
    BY <1>3, <1>4, <2>3
<1>6. PICK p : p = At(k, 0, d, mt.cli, "none")
  OBVIOUS
<1>7. mt.stop = "none" => Reached(vs, Len(vs), AfterLong(p, w, v))
  BY <1>3, <1>4, <1>5, <1>6
<1>8. NameOf(w) = <<n>>
  BY DEF LongForm
<1>9. AfterLong(p, w, v) = Taken(p, n, v)
  BY <1>8, LongName
<1>10. PICK e : e = A!WithValue(mt.cli, n, v)
  OBVIOUS
<1>11. e \in Understandings
  BY <1>1, <1>10, UnderstandingFacts
<1>12. CASE Readable(v)
  <2>1. Taken(p, n, v) = At(Len(vs) + 1, 0, d, e, "none")
    BY <1>5, <1>6, <1>10, <1>12, PassedHalted
  <2>2. mt.stop = "none" => Reached(vs, Len(vs), At(Len(vs) + 1, 0, d, e, "none"))
    BY <1>7, <1>9, <2>1
  <2>3. TypedAs(vs, FALSE, d, More(mt, e), jt)
    BY <1>1, <1>5, <1>11, <2>2, TypedEnd
  <2> QED
    BY <1>10, <1>12, <2>3 DEF MoreWord
<1>13. CASE ~Readable(v)
  <2>1. PICK f : f = Halted(p, "panic")
    OBVIOUS
  <2>2. Taken(p, n, v) = f /\ f.status = "panic"
    BY <1>6, <1>13, <2>1, PassedHalted
  <2>3. mt.stop = "none" => Reached(vs, Len(vs), f)
    BY <1>7, <1>9, <2>2
  <2>4. TypedAs(vs, FALSE, d, Halts(mt, "panic"), jt)
    BY <1>1, <1>5, <2>2, <2>3, TypedEnd
  <2> QED
    BY <1>13, <2>4 DEF MoreWord
<1> QED
  BY <1>12, <1>13

LEMMA LongSigned ==
  ASSUME NEW ws, NEW b, NEW d, NEW mt, NEW it, TypedAs(ws, b, d, mt, it), it # MaxItems, ~d,
         NEW us \in Seq(Words), Alone(us), NEW vs, vs = Joined(ws, us),
         NEW n \in A!Long(A!Option), NEW w, LongForm(us, w, n), Signs(w) # {},
         ValueOf(w) \in Words, NEW jt
  PROVE  TypedAs(vs, FALSE, d, More(mt, A!WithValue(mt.cli, n, ValueOf(w))), jt)
<1>1. mt \in Meanings /\ mt.cli \in Understandings /\ d \in BOOLEAN
  BY DEF TypedAs, Meanings
<1>2. PICK k : k = Len(ws) + 1
  OBVIOUS
<1>3. Len(us) > 0
  BY DEF Alone
<1>4. /\ vs \in Seq(Words) /\ Grown(ws, Fixed(ws, b), vs, Len(vs)) /\ vs[k] = w
      /\ Len(vs) = k - 1 + Len(us) /\ k \in Nat \ {0} /\ Len(us) \in Nat
      /\ (Len(us) > 1 => vs[k + 1] = us[2])
      /\ mt.stop = "none" => Reached(vs, Len(vs), At(k, 0, d, mt.cli, "none"))
      /\ (LongAsks(w) => Len(us) > 1) =>
           \E p : /\ p = At(k, 0, d, mt.cli, "none")
                  /\ mt.stop = "none" => Reached(vs, Len(vs), AfterLong(p, w, vs[k + 1]))
  <2>1. LongGoes(ws, b, d, mt, us, vs, w, k)
    BY <1>2, <1>3, LongReached
  <2> QED
    BY <2>1 DEF LongGoes
<1>5. vs \in Seq(Words) /\ Grown(ws, Fixed(ws, b), vs, Len(vs)) /\ Len(vs) = k
  BY <1>4 DEF Alone
<1>6. PICK p : p = At(k, 0, d, mt.cli, "none")
  OBVIOUS
<1>7. ~LongAsks(w)
  BY DEF LongAsks
<1>8. mt.stop = "none" => Reached(vs, Len(vs), AfterLong(p, w, vs[k + 1]))
  BY <1>4, <1>6, <1>7
<1>9. NameOf(w) = <<n>>
  BY DEF LongForm
<1>10. PICK e : e = A!WithValue(mt.cli, n, ValueOf(w))
  OBVIOUS
<1>11. e \in Understandings
  BY <1>1, <1>10, UnderstandingFacts
<1>12. AfterLong(p, w, vs[k + 1]) = Passed(p, 1, A!WithValue(p.cli, n, ValueOf(w)))
  BY <1>9, LongName
<1>13. AfterLong(p, w, vs[k + 1]) = At(Len(vs) + 1, 0, d, e, "none")
  BY <1>5, <1>6, <1>10, <1>12, PassedHalted
<1>14. mt.stop = "none" => Reached(vs, Len(vs), At(Len(vs) + 1, 0, d, e, "none"))
  BY <1>8, <1>13
<1>15. TypedAs(vs, FALSE, d, More(mt, e), jt)
  BY <1>1, <1>5, <1>11, <1>14, TypedEnd
<1> QED
  BY <1>10, <1>15

-----------------------------------------------------------------------------
(* The user types                                                            *)

Typed == TypedAs(words, bundle, closed, meant, items) /\ items \in Nat


Dash == <<"-">>

LEMMA OptionIs ==
  ASSUME NEW v \in Words
  PROVE  IsOption(v) <=> A!IsPrefix(Dash, v) /\ v # Dash
<1>1. PICK t : t = Dash /\ t = <<"-">>
  BY DEF Dash
<1>2. t \in Words /\ Len(t) = 1 /\ t[1] = "-"
  BY <1>1, SymbolsAre DEF Words
<1>3. Len(v) \in Nat
  BY LenProperties DEF Words
<1>4. ASSUME NEW w \in Words, Len(w) >= 1
      PROVE  SubSeq(w, 1, 1) \in Words /\ Len(SubSeq(w, 1, 1)) = 1 /\ SubSeq(w, 1, 1)[1] = w[1]
  <2>1. 0 \in Nat /\ 1 \in Nat /\ 0 + 1 <= Len(w) /\ 1 \in 1..1
    BY <1>4
  <2>2. PICK h : h = SubSeq(w, 0 + 1, 0 + 1)
    OBVIOUS
  <2>3. h \in Words /\ Len(h) = 1 /\ \A i \in 1..1 : h[i] = w[0 + i]
    BY <1>4, <2>1, <2>2, SliceIs DEF Words
  <2> QED
    BY <2>1, <2>2, <2>3
<1>5. SubSeq(t, 1, 1) = t
  <2>1. Len(t) >= 1
    BY <1>2
  <2> QED
    BY <1>1, <1>2, <1>4, <2>1, OneLetter, SymbolsAre
<1>6. A!IsPrefix(t, v) <=> Len(v) >= 1 /\ SubSeq(v, 1, 1) = t
  BY <1>2, <1>3, <1>5 DEF A!IsPrefix
<1>7. ASSUME Len(v) >= 1 PROVE SubSeq(v, 1, 1) = t <=> v[1] = "-"
  <2>1. SubSeq(v, 1, 1) \in Words /\ Len(SubSeq(v, 1, 1)) = 1 /\ SubSeq(v, 1, 1)[1] = v[1]
    BY <1>4, <1>7
  <2>2. v[1] = "-" => SubSeq(v, 1, 1) = t
    BY <1>1, <2>1, OneLetter, SymbolsAre
  <2> QED
    BY <1>2, <2>1, <2>2
<1>8. Len(v) = 1 /\ v[1] = "-" => v = t
  BY <1>1, OneLetter, SymbolsAre
<1>9. v = t => Len(v) = 1
  BY <1>2
<1>10. ASSUME IsOption(v) PROVE A!IsPrefix(t, v) /\ v # t
  <2>1. Len(v) >= 1 /\ Len(v) # 1 /\ v[1] = "-"
    BY <1>3, <1>10 DEF IsOption
  <2> QED
    BY <1>6, <1>7, <1>9, <2>1
<1>11. ASSUME A!IsPrefix(t, v), v # t PROVE IsOption(v)
  <2>1. Len(v) >= 1 /\ v[1] = "-"
    BY <1>6, <1>7, <1>11
  <2>2. Len(v) # 1
    BY <1>8, <1>11, <2>1
  <2>3. PICK n : n = Len(v)
    OBVIOUS
  <2>4. n \in Nat /\ n >= 1 /\ n # 1
    BY <1>3, <2>1, <2>2, <2>3
  <2>5. n > 1
    BY <2>4
  <2> QED
    BY <2>1, <2>3, <2>5 DEF IsOption
<1>12. IsOption(v) \in BOOLEAN
  BY DEF IsOption
<1> QED
  BY <1>1, <1>10, <1>11, <1>12

LEMMA NothingJoined ==
  ASSUME NEW w \in Words
  PROVE  Joined(w, << >>) = w /\ << >> \in Words /\ Readable(<< >>)
<1>1. << >> \in Words /\ Joined(w, << >>) = w
  BY ConcatEmptySeq DEF Words, Joined
<1>2. Readable(<< >>)
  BY <1>1, ReadableIs
<1> QED
  BY <1>1, <1>2

LEMMA Stems ==
  ASSUME NEW ws, NEW b, NEW d, NEW mt, NEW it, TypedAs(ws, b, d, mt, it), NEW c \in Lettered
  PROVE  /\ <<"-", c>> \in Words
         /\ b => Append(A!Last(ws), c) \in Words /\ Readable(Append(A!Last(ws), c))
<1>1. <<"-", c>> \in Words
  BY LetterWord
<1>2. ASSUME b PROVE Append(A!Last(ws), c) \in Words /\ Readable(Append(A!Last(ws), c))
  <2>1. ws \in Seq(Words) /\ Len(ws) > 0 /\ IsCluster(ws[Len(ws)])
    BY <1>2 DEF TypedAs
  <2>2. PICK x : x = ws[Len(ws)]
    OBVIOUS
  <2>3. x \in Words /\ Readable(x)
    <3>1. Len(ws) \in 1..Len(ws)
      BY <2>1, LenProperties
    <3>2. x \in Words
      BY <2>1, <2>2, <3>1, ElementOfSeq
    <3> QED
      BY <2>1, <2>2, <3>2 DEF IsCluster
  <2>4. PICK w : w = Append(x, c)
    OBVIOUS
  <2>5. w \in Words /\ Readable(w)
    BY <2>3, <2>4, StemLonger
  <2> QED
    BY <2>2, <2>4, <2>5 DEF A!Last
<1> QED
  BY <1>1, <1>2

LEMMA AloneIs ==
  ASSUME NEW u \in Words
  PROVE  \E us \in Seq(Words) : us = <<u>> /\ Alone(us) /\ us[1] = u
<1>1. <<u>> \in Seq(Words) /\ Len(<<u>>) = 1 /\ <<u>>[1] = u
  BY OneWord
<1> QED
  BY <1>1 DEF Alone

LEMMA PairedIs ==
  ASSUME NEW u \in Words, NEW v \in Words
  PROVE  \E us \in Seq(Words) : us = <<u, v>> /\ Paired(us) /\ us[1] = u /\ us[2] = v
<1>1. <<u, v>> \in Seq(Words) /\ Len(<<u, v>>) = 2 /\ <<u, v>>[1] = u /\ <<u, v>>[2] = v
  BY TwoWords
<1> QED
  BY <1>1 DEF Paired

LEMMA LetterForms ==
  ASSUME Typed, NEW c \in Lettered, A!Letter(c)
  PROVE  \E us \in Seq(Words) : Alone(us) /\ Written(words, bundle, c, << >>, us, words')
<1>1. PICK ws, b, d, mt, it, vs :
        ws = words /\ b = bundle /\ d = closed /\ mt = meant /\ it = items /\ vs = words'
  OBVIOUS
<1>2. TypedAs(ws, b, d, mt, it)
  BY <1>1 DEF Typed
<1>3. /\ <<"-", c>> \in Words
      /\ b => Append(A!Last(ws), c) \in Words /\ Readable(Append(A!Last(ws), c))
  BY <1>2, Stems
<1>4. CASE vs = Joined(ws, <<<<"-", c>>>>)
  <2>1. PICK w : w = <<"-", c>> /\ w \in Words
    BY <1>3
  <2>2. PICK us \in Seq(Words) : us = <<w>> /\ Alone(us) /\ us[1] = w
    BY <2>1, AloneIs
  <2>3. Joined(w, << >>) = w
    BY <2>1, NothingJoined
  <2>4. Written(ws, b, c, << >>, us, vs)
    BY <1>4, <2>1, <2>2, <2>3 DEF Written
  <2> QED
    BY <1>1, <2>2, <2>4
<1>5. CASE b /\ vs = Joined(A!Front(ws), <<Append(A!Last(ws), c)>>)
  <2>1. PICK w : w = Append(A!Last(ws), c) /\ w \in Words
    BY <1>3, <1>5
  <2>2. PICK us \in Seq(Words) : us = <<w>> /\ Alone(us) /\ us[1] = w
    BY <2>1, AloneIs
  <2>3. Joined(w, << >>) = w
    BY <2>1, NothingJoined
  <2>4. Written(ws, b, c, << >>, us, vs)
    BY <1>5, <2>1, <2>2, <2>3 DEF Written
  <2> QED
    BY <1>1, <2>2, <2>4
<1> QED
  BY <1>1, <1>4, <1>5 DEF A!Letter, A!Types, Joined

LEMMA LetterWithForms ==
  ASSUME Typed, NEW c \in Lettered, NEW v \in Words, A!LetterWith(c, v)
  PROVE  \E us \in Seq(Words) :
           \/ Paired(us) /\ us[2] = v /\ Written(words, bundle, c, << >>, us, words')
           \/ Alone(us) /\ v # << >> /\ Readable(v) /\ Written(words, bundle, c, v, us, words')
           \/ Alone(us) /\ ~Readable(v) /\ ~Readable(us[1]) /\ words' = Joined(words, us)
<1>1. PICK ws, b, d, mt, it, vs :
        ws = words /\ b = bundle /\ d = closed /\ mt = meant /\ it = items /\ vs = words'
  OBVIOUS
<1>2. TypedAs(ws, b, d, mt, it)
  BY <1>1 DEF Typed
<1>3. /\ <<"-", c>> \in Words
      /\ b => Append(A!Last(ws), c) \in Words /\ Readable(Append(A!Last(ws), c))
  BY <1>2, Stems
<1>4. CASE vs = Joined(ws, <<<<"-", c>>, v>>)
  <2>1. PICK w : w = <<"-", c>> /\ w \in Words
    BY <1>3
  <2>2. PICK us \in Seq(Words) : us = <<w, v>> /\ Paired(us) /\ us[1] = w /\ us[2] = v
    BY <2>1, PairedIs
  <2>3. Joined(w, << >>) = w
    BY <2>1, NothingJoined
  <2>4. Written(ws, b, c, << >>, us, vs)
    BY <1>4, <2>1, <2>2, <2>3 DEF Written
  <2> QED
    BY <1>1, <2>2, <2>4
<1>5. CASE v # << >> /\ vs = Joined(ws, <<Joined(<<"-", c>>, v)>>)
  <2>1. PICK w : w = <<"-", c>> /\ w \in Words
    BY <1>3
  <2>2. PICK u : u = Joined(w, v) /\ u \in Words
    BY <2>1, JoinedLength
  <2>3. PICK us \in Seq(Words) : us = <<u>> /\ Alone(us) /\ us[1] = u
    BY <2>2, AloneIs
  <2>4. CASE Readable(v)
    <3>1. Written(ws, b, c, v, us, vs)
      BY <1>5, <2>1, <2>2, <2>3 DEF Written
    <3> QED
      BY <1>1, <1>5, <2>3, <2>4, <3>1
  <2>5. CASE ~Readable(v)
    <3>1. ~Readable(u)
      BY <2>1, <2>2, <2>5, JoinedReadable
    <3>2. vs = Joined(ws, us)
      BY <1>5, <2>1, <2>2, <2>3
    <3> QED
      BY <1>1, <2>3, <2>5, <3>1, <3>2
  <2> QED
    BY <2>4, <2>5
<1>6. CASE b /\ vs = Joined(A!Front(ws), <<Append(A!Last(ws), c), v>>)
  <2>1. PICK w : w = Append(A!Last(ws), c) /\ w \in Words
    BY <1>3, <1>6
  <2>2. PICK us \in Seq(Words) : us = <<w, v>> /\ Paired(us) /\ us[1] = w /\ us[2] = v
    BY <2>1, PairedIs
  <2>3. Joined(w, << >>) = w
    BY <2>1, NothingJoined
  <2>4. Written(ws, b, c, << >>, us, vs)
    BY <1>6, <2>1, <2>2, <2>3 DEF Written
  <2> QED
    BY <1>1, <2>2, <2>4
<1>7. CASE /\ b /\ v # << >> /\ Readable(v)
           /\ vs = Joined(A!Front(ws), <<Joined(Append(A!Last(ws), c), v)>>)
  <2>1. PICK w : w = Append(A!Last(ws), c) /\ w \in Words
    BY <1>3, <1>7
  <2>2. PICK u : u = Joined(w, v) /\ u \in Words
    BY <2>1, JoinedLength
  <2>3. PICK us \in Seq(Words) : us = <<u>> /\ Alone(us) /\ us[1] = u
    BY <2>2, AloneIs
  <2>4. Written(ws, b, c, v, us, vs)
    BY <1>7, <2>1, <2>2, <2>3 DEF Written
  <2> QED
    BY <1>1, <1>7, <2>3, <2>4
<1> QED
  BY <1>1, <1>4, <1>5, <1>6, <1>7 DEF A!LetterWith, A!Types, Joined, Readable

LEMMA LetterItem ==
  ASSUME NEW ws, NEW b, NEW d, NEW mt, NEW it, TypedAs(ws, b, d, mt, it), it # MaxItems, ~d,
         NEW c \in Lettered, NEW us \in Seq(Words), Alone(us), NEW vs,
         Written(ws, b, c, << >>, us, vs), NEW jt
  PROVE  /\ c \in DOMAIN A!Flag => TypedAs(vs, TRUE, d, More(mt, WithFlag(mt.cli, A!Flag[c])), jt)
         /\ c \in DOMAIN A!Stop => TypedAs(vs, TRUE, d, Halts(mt, A!Stop[c]), jt)
         /\ c = "x" => TypedAs(vs, TRUE, d, Halts(mt, "usage"), jt)
         /\ c \in DOMAIN A!Option /\ jt = MaxItems => TypedAs(vs, FALSE, d, Halts(mt, "usage"), jt)
<1>1. PICK v : v = << >>
  OBVIOUS
<1>2. v \in Words /\ Readable(v) /\ Len(v) = 0
  <2>1. << >> \in Words
    BY DEF Words
  <2> QED
    BY <1>1, <2>1, NothingJoined
<1>3. PICK k, j, u : /\ Adds(ws, b, us, vs, k, j) /\ u = us[1] /\ u \in Words
                     /\ j \in 1..Len(u) /\ u[j] = c /\ Len(u) = j + Len(v)
  BY <1>1, <1>2, WrittenAdds
<1>4. Len(us) = 1 /\ Len(us) > 0
  BY DEF Alone
<1>5. j = Len(u) /\ j <= Len(u)
  BY <1>2, <1>3
<1>6. ASSUME c \notin DOMAIN A!Option
      PROVE  /\ c \in DOMAIN A!Flag => TypedAs(vs, TRUE, d, More(mt, WithFlag(mt.cli, A!Flag[c])), jt)
             /\ c \in DOMAIN A!Stop => TypedAs(vs, TRUE, d, Halts(mt, A!Stop[c]), jt)
             /\ c \notin DOMAIN A!Flag \cup DOMAIN A!Stop => TypedAs(vs, TRUE, d, Halts(mt, "usage"), jt)
  <2>1. Len(us) \in {1}
    BY <1>4
  <2> QED
    BY <1>3, <1>5, <1>6, <2>1, SingleLetter
<1>7. ASSUME c \in DOMAIN A!Option, jt = MaxItems PROVE TypedAs(vs, FALSE, d, Halts(mt, "usage"), jt)
  BY <1>3, <1>4, <1>5, <1>7, OptionLetter
<1> QED
  BY <1>6, <1>7, OneTable

LEMMA OptionItem ==
  ASSUME NEW ws, NEW b, NEW d, NEW mt, NEW it, TypedAs(ws, b, d, mt, it), it # MaxItems, ~d,
         NEW c \in DOMAIN A!Option, NEW v \in Words, NEW us \in Seq(Words), NEW vs, NEW jt,
         \/ Paired(us) /\ us[2] = v /\ Written(ws, b, c, << >>, us, vs)
         \/ Alone(us) /\ v # << >> /\ Readable(v) /\ Written(ws, b, c, v, us, vs)
         \/ Alone(us) /\ ~Readable(v) /\ ~Readable(us[1]) /\ vs = Joined(ws, us)
  PROVE  TypedAs(vs, FALSE, d, MoreWord(mt, v, A!WithValue(mt.cli, A!Option[c], v)), jt)
<1>1. c \in Lettered
  BY DEF Lettered
<1>2. CASE Paired(us) /\ us[2] = v /\ Written(ws, b, c, << >>, us, vs)
  <2>1. PICK z : z = << >>
    OBVIOUS
  <2>2. z \in Words /\ Readable(z) /\ Len(z) = 0
    <3>1. << >> \in Words
      BY DEF Words
    <3> QED
      BY <2>1, <3>1, NothingJoined
  <2>3. PICK k, j, u : /\ Adds(ws, b, us, vs, k, j) /\ u = us[1] /\ u \in Words
                       /\ j \in 1..Len(u) /\ u[j] = c /\ Len(u) = j + Len(z)
    BY <1>1, <1>2, <2>1, <2>2, WrittenAdds
  <2>4. Len(us) = 2 /\ Len(us) > 0
    BY <1>2 DEF Paired
  <2>5. j = Len(u) /\ j <= Len(u)
    BY <2>2, <2>3
  <2>6. TypedAs(vs, FALSE, d, MoreWord(mt, us[2], A!WithValue(mt.cli, A!Option[c], us[2])), jt)
    BY <2>3, <2>4, <2>5, OptionLetter
  <2> QED
    BY <1>2, <2>6
<1>3. CASE Alone(us) /\ v # << >> /\ Readable(v) /\ Written(ws, b, c, v, us, vs)
  <2>1. PICK k, j, u : /\ Adds(ws, b, us, vs, k, j) /\ u = us[1] /\ u \in Words
                       /\ j \in 1..Len(u) /\ u[j] = c /\ Len(u) = j + Len(v) /\ RestOf(u, j + 1) = v
    BY <1>1, <1>3, WrittenAdds
  <2>2. Len(us) = 1 /\ Len(us) > 0
    BY <1>3 DEF Alone
  <2>3. Len(v) \in Nat /\ Len(v) # 0
    BY <1>3, LenProperties, EmptySeq DEF Words
  <2>4. j <= Len(u) /\ j < Len(u)
    BY <2>1, <2>3
  <2>5. TypedAs(vs, FALSE, d, More(mt, A!WithValue(mt.cli, A!Option[c], RestOf(u, j + 1))), jt)
    BY <2>1, <2>2, <2>4, OptionLetter
  <2> QED
    BY <1>3, <2>1, <2>5 DEF MoreWord
<1>4. CASE Alone(us) /\ ~Readable(v) /\ ~Readable(us[1]) /\ vs = Joined(ws, us)
  <2>1. TypedAs(vs, FALSE, d, Halts(mt, "panic"), jt)
    BY <1>4, UnreadableTyped
  <2> QED
    BY <1>4, <2>1 DEF MoreWord
<1> QED
  BY <1>2, <1>3, <1>4

\* The same for the long forms.
LEMMA LongItem ==
  ASSUME NEW ws, NEW b, NEW d, NEW mt, NEW it, TypedAs(ws, b, d, mt, it), it # MaxItems, ~d,
         NEW n \in Named2, NEW vs, vs = Joined(ws, <<<<"-", "-", n>>>>), NEW jt
  PROVE  /\ n \in A!Long(A!Flag) => TypedAs(vs, FALSE, d, More(mt, WithFlag(mt.cli, n)), jt)
         /\ n \in A!Long(A!Stop) => TypedAs(vs, FALSE, d, Halts(mt, n), jt)
         /\ n = "x" => TypedAs(vs, FALSE, d, Halts(mt, "usage"), jt)
         /\ n \in A!Long(A!Option) /\ jt = MaxItems => TypedAs(vs, FALSE, d, Halts(mt, "usage"), jt)
<1>1. PICK w : w = <<"-", "-", n>>
  OBVIOUS
<1>2. /\ w \in Words /\ Readable(w) /\ IsOption(w) /\ w[2] = "-" /\ w # <<"-", "-">>
      /\ Signs(w) = {} /\ NameOf(w) = <<n>>
  BY <1>1, NameWord
<1>3. PICK us \in Seq(Words) : us = <<w>> /\ Alone(us) /\ us[1] = w
  BY <1>2, AloneIs
<1>4. LongForm(us, w, n)
  BY <1>2, <1>3 DEF LongForm, Ends
<1>5. vs = Joined(ws, us) /\ Alone(us) /\ Signs(w) = {}
  BY <1>1, <1>2, <1>3
<1>6. /\ n \in A!Long(A!Flag) => TypedAs(vs, FALSE, d, More(mt, WithFlag(mt.cli, n)), jt)
      /\ n \in A!Long(A!Stop) => TypedAs(vs, FALSE, d, Halts(mt, n), jt)
      /\ n \notin A!Long(A!Flag) \cup A!Long(A!Option) \cup A!Long(A!Stop) =>
           TypedAs(vs, FALSE, d, Halts(mt, "usage"), jt)
      /\ n \in A!Long(A!Option) /\ jt = MaxItems => TypedAs(vs, FALSE, d, Halts(mt, "usage"), jt)
  BY <1>4, <1>5, LongAlone
<1> QED
  BY <1>6, OneTable

LEMMA LongOptionItem ==
  ASSUME NEW ws, NEW b, NEW d, NEW mt, NEW it, TypedAs(ws, b, d, mt, it), it # MaxItems, ~d,
         NEW n \in A!Long(A!Option), NEW v \in Words, NEW vs, NEW jt,
         \/ vs = Joined(ws, <<<<"-", "-", n>>, v>>)
         \/ vs = Joined(ws, <<Joined(Joined(<<"-", "-", n>>, <<"=">>), v)>>)
  PROVE  TypedAs(vs, FALSE, d, MoreWord(mt, v, A!WithValue(mt.cli, n, v)), jt)
<1>1. PICK w : w = <<"-", "-", n>>
  OBVIOUS
<1>2. /\ w \in Words /\ Readable(w) /\ IsOption(w) /\ w[2] = "-" /\ w # <<"-", "-">>
      /\ Signs(w) = {} /\ NameOf(w) = <<n>>
  BY <1>1, NameWord DEF Named2
<1>3. CASE vs = Joined(ws, <<<<"-", "-", n>>, v>>)
  <2>1. PICK us \in Seq(Words) : us = <<w, v>> /\ Paired(us) /\ us[1] = w /\ us[2] = v
    BY <1>2, PairedIs
  <2>2. LongForm(us, w, n)
    BY <1>2, <2>1 DEF LongForm, Ends
  <2>3. vs = Joined(ws, us) /\ Paired(us) /\ Signs(w) = {} /\ v = us[2]
    BY <1>1, <1>2, <1>3, <2>1
  <2> QED
    BY <2>2, <2>3, LongWithWord
<1>4. CASE vs = Joined(ws, <<Joined(Joined(<<"-", "-", n>>, <<"=">>), v)>>)
  <2>1. PICK t, z, u : t = <<"=">> /\ z = Joined(w, t) /\ u = Joined(z, v)
    OBVIOUS
  <2>2. t \in Words /\ Len(t) = 1 /\ t[1] = "="
    <3>1. "=" \in Chars
      BY SymbolsAre
    <3> QED
      BY <2>1, <3>1 DEF Words
  <2>3. Len(w) = 3 /\ w[1] = "-" /\ w[2] = "-" /\ w[3] = n
    BY <1>1
  <2>4. z \in Words /\ Len(z) = 4 /\ z[1] = "-" /\ z[2] = "-" /\ z[3] = n /\ z[4] = "="
    BY <1>2, <2>1, <2>2, <2>3, SignIs
  <2>5. n \in Named2
    BY DEF Named2
  <2>6. /\ u \in Words /\ IsOption(u) /\ u[2] = "-" /\ u # <<"-", "-">>
        /\ Signs(u) # {} /\ NameOf(u) = <<n>> /\ ValueOf(u) = v
        /\ (Readable(u) <=> Readable(v))
    BY <2>1, <2>4, <2>5, SignedWord
  <2>7. PICK us \in Seq(Words) : us = <<u>> /\ Alone(us) /\ us[1] = u
    BY <2>6, AloneIs
  <2>8. vs = Joined(ws, us) /\ Alone(us)
    BY <1>1, <1>4, <2>1, <2>7
  <2>9. CASE Readable(v)
    <3>1. LongForm(us, u, n) /\ Signs(u) # {} /\ ValueOf(u) \in Words
      BY <2>6, <2>7, <2>9 DEF LongForm, Ends
    <3>2. TypedAs(vs, FALSE, d, More(mt, A!WithValue(mt.cli, n, ValueOf(u))), jt)
      BY <2>8, <3>1, LongSigned
    <3> QED
      BY <2>6, <2>9, <3>2 DEF MoreWord
  <2>10. CASE ~Readable(v)
    <3>1. ~Readable(us[1])
      BY <2>6, <2>7, <2>10
    <3>2. TypedAs(vs, FALSE, d, Halts(mt, "panic"), jt)
      BY <2>8, <3>1, UnreadableTyped
    <3> QED
      BY <2>10, <3>2 DEF MoreWord
  <2> QED
    BY <2>9, <2>10
<1> QED
  BY <1>3, <1>4

\* The actions of the user keep what was typed understood.
LEMMA MeansAre ==
  /\ \A c : A!Means(c) <=> meant' = More(meant, c)
  /\ \A why : A!Stops(why) <=> meant' = Halts(meant, why)
  /\ \A v, c : A!MeansWord(v, c) <=> meant' = MoreWord(meant, v, c)
BY DEF A!Means, A!Stops, A!MeansWord, More, Halts, MoreWord, Readable

LEMMA SingleStep ==
  ASSUME Typed, NEW c, NEW n, A!Single(c, n)
  PROVE  /\ c \in DOMAIN A!Flag /\ n = A!Flag[c] =>
              TypedAs(words', bundle', closed', More(meant, WithFlag(meant.cli, n)), items')
         /\ c \in DOMAIN A!Stop /\ n = A!Stop[c] =>
              TypedAs(words', bundle', closed', Halts(meant, n), items')
         /\ c = "x" /\ n = "x" => TypedAs(words', bundle', closed', Halts(meant, "usage"), items')
<1>1. PICK ws, b, d, mt, it, vs, jt :
        /\ ws = words /\ b = bundle /\ d = closed /\ mt = meant /\ it = items
        /\ vs = words' /\ jt = items'
  OBVIOUS
<1>2. closed' = closed /\ ~closed /\ it # MaxItems
  <2>1. MaxItems \in Nat /\ items \in Nat
    BY PartsAssumption DEF A!CommandLineConstants, Typed
  <2> QED
    BY <1>1, <2>1 DEF A!Single, A!TypingOption, A!Typing
<1>3. TypedAs(ws, b, d, mt, it) /\ it # MaxItems /\ ~d
  BY <1>1, <1>2 DEF Typed
<1>4. CASE A!Letter(c) /\ bundle' = TRUE
  <2>1. ASSUME c \in Lettered
        PROVE  /\ c \in DOMAIN A!Flag => TypedAs(vs, TRUE, d, More(mt, WithFlag(mt.cli, A!Flag[c])), jt)
               /\ c \in DOMAIN A!Stop => TypedAs(vs, TRUE, d, Halts(mt, A!Stop[c]), jt)
               /\ c = "x" => TypedAs(vs, TRUE, d, Halts(mt, "usage"), jt)
    <3>1. PICK us \in Seq(Words) : Alone(us) /\ Written(ws, b, c, << >>, us, vs)
      BY <1>1, <1>4, <2>1, LetterForms
    <3> QED
      BY <1>3, <2>1, <3>1, LetterItem
  <2>2. c \in DOMAIN A!Flag \/ c \in DOMAIN A!Stop \/ c = "x" => c \in Lettered
    BY DEF Lettered
  <2> QED
    BY <1>1, <1>2, <1>4, <2>1, <2>2
<1>5. CASE words' = Joined(words, <<<<"-", "-", n>>>>) /\ bundle' = FALSE
  <2>1. ASSUME n \in Named2
        PROVE  /\ n \in A!Long(A!Flag) => TypedAs(vs, FALSE, d, More(mt, WithFlag(mt.cli, n)), jt)
               /\ n \in A!Long(A!Stop) => TypedAs(vs, FALSE, d, Halts(mt, n), jt)
               /\ n = "x" => TypedAs(vs, FALSE, d, Halts(mt, "usage"), jt)
    <3>1. vs = Joined(ws, <<<<"-", "-", n>>>>)
      BY <1>1, <1>5
    <3> QED
      BY <1>3, <2>1, <3>1, LongItem
  <2>2. /\ c \in DOMAIN A!Flag /\ n = A!Flag[c] => n \in A!Long(A!Flag)
        /\ c \in DOMAIN A!Stop /\ n = A!Stop[c] => n \in A!Long(A!Stop)
    BY Tables
  <2>3. n \in A!Long(A!Flag) \/ n \in A!Long(A!Stop) \/ n = "x" => n \in Named2
    BY DEF Named2
  <2> QED
    BY <1>1, <1>2, <1>5, <2>1, <2>2, <2>3
<1> QED
  BY <1>4, <1>5 DEF A!Single, A!Types, Joined

LEMMA OptionStep ==
  ASSUME Typed, NEW c \in DOMAIN A!Option, NEW v \in Values, A!TypeOption(c, v)
  PROVE  TypedAs(words', bundle', closed', meant', items')
<1>1. PICK ws, b, d, mt, it, vs, jt :
        /\ ws = words /\ b = bundle /\ d = closed /\ mt = meant /\ it = items
        /\ vs = words' /\ jt = items'
  OBVIOUS
<1>2. closed' = closed /\ ~closed /\ it # MaxItems /\ bundle' = FALSE
  <2>1. MaxItems \in Nat /\ items \in Nat
    BY PartsAssumption DEF A!CommandLineConstants, Typed
  <2> QED
    BY <1>1, <2>1 DEF A!TypeOption, A!TypingOption, A!Typing
<1>3. TypedAs(ws, b, d, mt, it) /\ it # MaxItems /\ ~d
  BY <1>1, <1>2 DEF Typed
<1>4. v \in Words /\ c \in Lettered
  BY PartsAssumption DEF A!CommandLineConstants, Words, Lettered
<1>5. PICK n : n = A!Option[c] /\ n \in A!Long(A!Option)
  BY Tables
<1>6. meant' = MoreWord(mt, v, A!WithValue(mt.cli, n, v))
  BY <1>1, <1>5, MeansAre DEF A!TypeOption
<1>7. TypedAs(vs, FALSE, d, MoreWord(mt, v, A!WithValue(mt.cli, n, v)), jt)
  <2>1. CASE A!LetterWith(c, v)
    <3>1. PICK us \in Seq(Words) :
            \/ Paired(us) /\ us[2] = v /\ Written(ws, b, c, << >>, us, vs)
            \/ Alone(us) /\ v # << >> /\ Readable(v) /\ Written(ws, b, c, v, us, vs)
            \/ Alone(us) /\ ~Readable(v) /\ ~Readable(us[1]) /\ vs = Joined(ws, us)
      BY <1>1, <1>4, <2>1, LetterWithForms
    <3>2. TypedAs(vs, FALSE, d, MoreWord(mt, v, A!WithValue(mt.cli, A!Option[c], v)), jt)
      BY <1>3, <1>4, <3>1, OptionItem
    <3> QED
      BY <1>5, <3>2
  <2>2. CASE \/ words' = Joined(words, <<<<"-", "-", n>>, v>>)
             \/ words' = Joined(words, <<Joined(Joined(<<"-", "-", n>>, <<"=">>), v)>>)
    <3>1. \/ vs = Joined(ws, <<<<"-", "-", n>>, v>>)
          \/ vs = Joined(ws, <<Joined(Joined(<<"-", "-", n>>, <<"=">>), v)>>)
      BY <1>1, <2>2
    <3> QED
      BY <1>3, <1>4, <1>5, <3>1, LongOptionItem
  <2> QED
    BY <1>5, <2>1, <2>2 DEF A!TypeOption, A!Types, Joined
<1> QED
  BY <1>1, <1>2, <1>6, <1>7

LEMMA DanglingStep ==
  ASSUME Typed, NEW c \in DOMAIN A!Option, A!TypeDangling(c)
  PROVE  TypedAs(words', bundle', closed', meant', items')
<1>1. PICK ws, b, d, mt, it, vs, jt :
        /\ ws = words /\ b = bundle /\ d = closed /\ mt = meant /\ it = items
        /\ vs = words' /\ jt = items'
  OBVIOUS
<1>2. closed' = closed /\ ~closed /\ it # MaxItems /\ bundle' = FALSE /\ jt = MaxItems
  <2>1. MaxItems \in Nat /\ items \in Nat
    BY PartsAssumption DEF A!CommandLineConstants, Typed
  <2> QED
    BY <1>1, <2>1 DEF A!TypeDangling, A!TypingOption, A!Typing
<1>3. TypedAs(ws, b, d, mt, it) /\ it # MaxItems /\ ~d
  BY <1>1, <1>2 DEF Typed
<1>4. c \in Lettered
  BY DEF Lettered
<1>5. PICK n : n = A!Option[c] /\ n \in A!Long(A!Option)
  BY Tables
<1>6. meant' = Halts(mt, "usage")
  BY <1>1, MeansAre DEF A!TypeDangling
<1>7. TypedAs(vs, FALSE, d, Halts(mt, "usage"), jt)
  <2>1. CASE A!Letter(c)
    <3>1. PICK us \in Seq(Words) : Alone(us) /\ Written(ws, b, c, << >>, us, vs)
      BY <1>1, <1>4, <2>1, LetterForms
    <3> QED
      BY <1>2, <1>3, <1>4, <3>1, LetterItem
  <2>2. CASE words' = Joined(words, <<<<"-", "-", n>>>>)
    <3>1. vs = Joined(ws, <<<<"-", "-", n>>>>) /\ n \in Named2
      BY <1>1, <1>5, <2>2 DEF Named2
    <3> QED
      BY <1>2, <1>3, <1>5, <3>1, LongItem
  <2> QED
    BY <1>5, <2>1, <2>2 DEF A!TypeDangling, A!Types, Joined
<1> QED
  BY <1>1, <1>2, <1>6, <1>7

LEMMA OperandStep ==
  ASSUME Typed, NEW v \in Values, A!TypeOperand(v)
  PROVE  TypedAs(words', bundle', closed', meant', items')
<1>1. PICK ws, b, d, mt, it, vs, jt :
        /\ ws = words /\ b = bundle /\ d = closed /\ mt = meant /\ it = items
        /\ vs = words' /\ jt = items'
  OBVIOUS
<1>2. closed' = closed /\ it # MaxItems /\ bundle' = FALSE
  <2>1. MaxItems \in Nat /\ items \in Nat
    BY PartsAssumption DEF A!CommandLineConstants, Typed
  <2> QED
    BY <1>1, <2>1 DEF A!TypeOperand, A!Typing
<1>3. TypedAs(ws, b, d, mt, it) /\ it # MaxItems
  BY <1>1, <1>2 DEF Typed
<1>4. v \in Words
  BY PartsAssumption DEF A!CommandLineConstants, Words
<1>5. d \/ ~IsOption(v)
  <2>1. IsOption(v) => A!IsPrefix(Dash, v) /\ v # Dash
    BY <1>4, OptionIs
  <2>2. A!IsPrefix(Dash, v) => closed \/ v = Dash
    BY DEF A!TypeOperand, Dash
  <2> QED
    BY <1>1, <2>1, <2>2
<1>6. meant' = MoreWord(mt, v, A!WithOperand(mt.cli, v))
  BY <1>1, MeansAre DEF A!TypeOperand
<1>7. PICK us \in Seq(Words) : us = <<v>> /\ Alone(us) /\ us[1] = v
  BY <1>4, AloneIs
<1>8. vs = Joined(ws, us)
  BY <1>1, <1>7 DEF A!TypeOperand, A!Types, Joined
<1>9. TypedAs(vs, FALSE, d, MoreWord(mt, v, A!WithOperand(mt.cli, v)), jt)
  BY <1>3, <1>5, <1>7, <1>8, OperandTyped
<1> QED
  BY <1>1, <1>2, <1>6, <1>9

LEMMA EndOfOptionsStep ==
  ASSUME Typed, A!TypeEndOfOptions
  PROVE  TypedAs(words', bundle', closed', meant', items')
<1>1. PICK ws, b, d, mt, it, vs, jt :
        /\ ws = words /\ b = bundle /\ d = closed /\ mt = meant /\ it = items
        /\ vs = words' /\ jt = items'
  OBVIOUS
<1>2. closed' = TRUE /\ ~closed /\ it # MaxItems /\ bundle' = FALSE /\ meant' = meant
  <2>1. MaxItems \in Nat /\ items \in Nat
    BY PartsAssumption DEF A!CommandLineConstants, Typed
  <2> QED
    BY <1>1, <2>1 DEF A!TypeEndOfOptions, A!Typing
<1>3. TypedAs(ws, b, d, mt, it) /\ it # MaxItems /\ ~d
  BY <1>1, <1>2 DEF Typed
<1>4. PICK w : w = <<"-", "-">>
  OBVIOUS
<1>5. w \in Words
  BY <1>4, SymbolsAre, PairIs
<1>6. PICK us \in Seq(Words) : us = <<w>> /\ Alone(us) /\ us[1] = w
  BY <1>5, AloneIs
<1>7. vs = Joined(ws, us) /\ Ends(us[1])
  BY <1>1, <1>4, <1>6 DEF A!TypeEndOfOptions, A!Types, Joined, Ends
<1>9. us \in Seq(Words) /\ Alone(us)
  BY <1>6
<1>10. Open(d)
  BY <1>3 DEF Open
<1>8. TypedAs(vs, FALSE, TRUE, mt, jt)
  BY <1>3, <1>7, <1>9, <1>10, EndOfOptionsTyped
<1> QED
  BY <1>1, <1>2, <1>8

LEMMA UserStep ==
  ASSUME Typed, A!User
  PROVE  Typed'
<1>1. items' \in Nat
  <2>1. MaxItems \in Nat /\ items \in Nat
    BY PartsAssumption DEF A!CommandLineConstants, Typed
  <2>2. ASSUME NEW c, NEW n, A!Single(c, n) PROVE items' = items + 1
    BY <2>2 DEF A!Single
  <2>3. items' = items + 1 \/ items' = MaxItems
    BY <2>2 DEF A!User, A!TypeFlag, A!TypeStop, A!TypeDangling, A!TypeOption, A!TypeOperand,
                A!TypeUnknown, A!TypeEndOfOptions
  <2> QED
    BY <2>1, <2>3
<1>2. ASSUME NEW c \in Letters \cap DOMAIN A!Flag, A!TypeFlag(c)
      PROVE  TypedAs(words', bundle', closed', meant', items')
  <2>1. A!Single(c, A!Flag[c]) /\ meant' = More(meant, WithFlag(meant.cli, A!Flag[c]))
    BY <1>2, MeansAre DEF A!TypeFlag, WithFlag
  <2> QED
    BY <2>1, SingleStep
<1>3. ASSUME NEW c \in Letters \cap DOMAIN A!Stop, A!TypeStop(c)
      PROVE  TypedAs(words', bundle', closed', meant', items')
  <2>1. A!Single(c, A!Stop[c]) /\ meant' = Halts(meant, A!Stop[c])
    BY <1>3, MeansAre DEF A!TypeStop
  <2> QED
    BY <2>1, SingleStep
<1>4. ASSUME A!TypeUnknown PROVE TypedAs(words', bundle', closed', meant', items')
  <2>1. A!Single("x", "x") /\ meant' = Halts(meant, "usage")
    BY <1>4, MeansAre DEF A!TypeUnknown
  <2> QED
    BY <2>1, SingleStep
<1>5. TypedAs(words', bundle', closed', meant', items')
  BY <1>2, <1>3, <1>4, DanglingStep, OptionStep, OperandStep, EndOfOptionsStep DEF A!User
<1> QED
  BY <1>1, <1>5 DEF Typed

-----------------------------------------------------------------------------
(* The program reads                                                         *)

LEMMA RestFacts ==
  ASSUME NEW X, NEW s \in Seq(X), NEW k \in 1..Len(s)
  PROVE  /\ RestOf(s, k) \in Seq(X) /\ RestOf(s, k) # << >> /\ Len(RestOf(s, k)) = Len(s) - k + 1
         /\ Head(RestOf(s, k)) = s[k] /\ Tail(RestOf(s, k)) = RestOf(s, k + 1)
<1>1. Len(s) \in Nat /\ k \in 1..Len(s) /\ Len(s) \in k..Len(s) /\ k \in Int /\ Len(s) \in Int
      /\ k <= Len(s) /\ Len(s) - k + 1 > 0
  BY LenProperties
<1>2. Head(RestOf(s, k)) = s[k] /\ Tail(RestOf(s, k)) = RestOf(s, k + 1)
  BY <1>1, HeadTailOfSubSeq DEF RestOf
<1>3. \A i \in k..Len(s) : s[i] \in X
  BY <1>1, ElementOfSeq
<1>4. RestOf(s, k) \in Seq(X) /\ Len(RestOf(s, k)) = Len(s) - k + 1
  BY <1>1, <1>3, SubSeqProperties DEF RestOf
<1>5. RestOf(s, k) # << >>
  <2>1. Len(RestOf(s, k)) # 0
    BY <1>1, <1>4
  <2> QED
    BY <1>4, <2>1, EmptySeq
<1> QED
  BY <1>2, <1>4, <1>5

LEMMA RestEnds ==
  ASSUME NEW X, NEW s \in Seq(X)
  PROVE  RestOf(s, Len(s) + 1) = << >> /\ RestOf(s, 1) = s
<1>1. Len(s) \in Int /\ Len(s) + 1 \in Int /\ Len(s) < Len(s) + 1
  BY LenProperties
<1> QED
  BY <1>1, SubSeqEmpty, SubSeqFull DEF RestOf

\* What the program holds at a place x: the words and letters that are left.
InFront(ws, x, a) == x.letter = 0 /\ x.word \in 1..Len(ws) + 1 /\ a = RestOf(ws, x.word)
Inside(ws, x, a, r) ==
  /\ x.word \in 1..Len(ws) /\ x.letter \in 2..Len(ws[x.word]) + 1
  /\ a = RestOf(ws, x.word + 1) /\ r = RestOf(ws[x.word], x.letter)
Stands(ws, x, p, a, r, d, c, s) ==
  /\ x.cli = c /\ x.status = s
  /\ IF s = "none"
       THEN /\ x.ended = d
            /\ \/ p = "word" /\ InFront(ws, x, a)
               \/ p = "cluster" /\ Inside(ws, x, a, r)
       ELSE p = "done"

\* One step of the program is one step of the reading.
Reads(ws, x, p, a, r, d, c, s) ==
  /\ GoesOn(ws, Len(ws), x)
  /\ Stands(ws, After(ws, x), p, a, r, d, c, s)

\* The argument that is the next word, or is missing.
LEMMA NextIs ==
  ASSUME NEW ws \in Seq(Words), NEW k \in 1..Len(ws), NEW a, a = RestOf(ws, k + 1)
  PROVE  /\ a \in Seq(Words)
         /\ a = << >> => k = Len(ws)
         /\ a # << >> => /\ k < Len(ws) /\ k + 1 \in 1..Len(ws) /\ k + 2 \in 1..Len(ws) + 1
                         /\ Head(a) = ws[k + 1] /\ Tail(a) = RestOf(ws, k + 2)
<1>1. PICK n : n = Len(ws)
  OBVIOUS
<1>2. n \in Nat /\ k \in 1..n
  BY <1>1, LenProperties
<1>3. CASE k = n
  <2>1. a = << >>
    BY <1>1, <1>3, RestEnds
  <2> QED
    BY <1>1, <1>3, <2>1, EmptySeq
<1>4. CASE k # n
  <2>1. PICK j : j = k + 1
    OBVIOUS
  <2>2. k < n /\ j \in 1..n /\ k + 2 \in 1..n + 1 /\ j + 1 = k + 2
    BY <1>2, <1>4, <2>1
  <2>3. a \in Seq(Words) /\ a # << >> /\ Head(a) = ws[j] /\ Tail(a) = RestOf(ws, j + 1)
    BY <1>1, <2>1, <2>2, RestFacts
  <2> QED
    BY <1>1, <2>1, <2>2, <2>3
<1> QED
  BY <1>3, <1>4

\* In front of a word that is there.
LEMMA AtWordIs ==
  ASSUME NEW ws \in Seq(Words), NEW x, NEW a, NEW r, NEW d, NEW c,
         Stands(ws, x, "word", a, r, d, c, "none"), a # << >>
  PROVE  /\ x.word \in 1..Len(ws) /\ x.letter = 0 /\ x.status = "none" /\ x.cli = c /\ x.ended = d
         /\ ws[x.word] \in Words /\ Head(a) = ws[x.word]
         /\ Tail(a) = RestOf(ws, x.word + 1) /\ x.word + 1 \in 1..Len(ws) + 1
         /\ After(ws, x) = AfterWord(x, ws[x.word], ws[x.word + 1])
         /\ (LongAsks(ws[x.word]) /\ ~d => x.word < Len(ws)) => GoesOn(ws, Len(ws), x)
<1>1. /\ x.letter = 0 /\ x.status = "none" /\ x.cli = c /\ x.ended = d
      /\ x.word \in 1..Len(ws) + 1 /\ a = RestOf(ws, x.word)
  BY DEF Stands, InFront
<1>2. PICK n, k : n = Len(ws) /\ k = x.word
  OBVIOUS
<1>3. n \in Nat /\ k \in 1..n + 1
  BY <1>1, <1>2, LenProperties
<1>4. k # n + 1
  BY <1>1, <1>2, RestEnds
<1>5. k \in 1..n /\ k <= n /\ k + 1 \in 1..n + 1
  BY <1>3, <1>4
<1>6. ws[k] \in Words
  BY <1>2, <1>5, ElementOfSeq
<1>7. Head(a) = ws[k] /\ Tail(a) = RestOf(ws, k + 1)
  BY <1>1, <1>2, <1>5, RestFacts
<1>8. After(ws, x) = AfterWord(x, ws[k], ws[k + 1])
  BY <1>1, <1>2 DEF After
<1>9. ASSUME LongAsks(ws[k]) /\ ~d => k < n PROVE GoesOn(ws, n, x)
  BY <1>1, <1>2, <1>5, <1>9 DEF GoesOn
<1> QED
  BY <1>1, <1>2, <1>5, <1>6, <1>7, <1>8, <1>9

LEMMA ReadsOn ==
  ASSUME NEW ws \in Seq(Words), NEW x, GoesOn(ws, Len(ws), x), NEW k, NEW e, NEW c, NEW a, NEW r,
         After(ws, x) = At(k, 0, e, c, "none"), k \in 1..Len(ws) + 1, a = RestOf(ws, k)
  PROVE  Reads(ws, x, "word", a, r, e, c, "none")
<1>1. PICK y : y = At(k, 0, e, c, "none")
  OBVIOUS
<1>2. y.word = k /\ y.letter = 0 /\ y.ended = e /\ y.cli = c /\ y.status = "none"
  BY <1>1, AtIs
<1>3. InFront(ws, y, a)
  BY <1>2 DEF InFront
<1>4. Stands(ws, y, "word", a, r, e, c, "none")
  BY <1>2, <1>3 DEF Stands
<1> QED
  BY <1>1, <1>4 DEF Reads

LEMMA ReadsAndHalts ==
  ASSUME NEW ws \in Seq(Words), NEW x, GoesOn(ws, Len(ws), x), NEW why, why # "none",
         After(ws, x) = Halted(x, why), NEW a, NEW r, NEW d
  PROVE  Reads(ws, x, "done", a, r, d, x.cli, why)
<1>1. PICK y : y = Halted(x, why)
  OBVIOUS
<1>2. y.cli = x.cli /\ y.status = why
  BY <1>1, AtIs DEF Halted
<1>3. Stands(ws, y, "done", a, r, d, x.cli, why)
  BY <1>2 DEF Stands
<1> QED
  BY <1>1, <1>3 DEF Reads

LEMMA ReadsPanic ==
  ASSUME NEW ws \in Seq(Words), NEW x, NEW a, NEW r, NEW d, NEW c,
         Stands(ws, x, "word", a, r, d, c, "none"), a # << >>, ~Readable(Head(a))
  PROVE  Reads(ws, x, "done", a, r, d, c, "panic")
<1>1. PICK w, v : w = ws[x.word] /\ v = ws[x.word + 1]
  OBVIOUS
<1>2. x.cli = c /\ Head(a) = w /\ After(ws, x) = AfterWord(x, w, v)
  BY <1>1, AtWordIs
<1>3. ~LongAsks(w)
  BY <1>2 DEF LongAsks
<1>4. GoesOn(ws, Len(ws), x)
  BY <1>1, <1>3, AtWordIs
<1>5. After(ws, x) = Halted(x, "panic")
  BY <1>2 DEF AfterWord
<1> QED
  BY <1>2, <1>4, <1>5, ReadsAndHalts

LEMMA ReadsOperand ==
  ASSUME NEW ws \in Seq(Words), NEW x, NEW a, NEW r, NEW d, NEW c,
         Stands(ws, x, "word", a, r, d, c, "none"), a # << >>, Readable(Head(a)),
         d \/ ~IsOption(Head(a))
  PROVE  Reads(ws, x, "word", Tail(a), r, d, A!WithOperand(c, Head(a)), "none")
<1>1. PICK w, v : w = ws[x.word] /\ v = ws[x.word + 1]
  OBVIOUS
<1>2. /\ x.cli = c /\ x.ended = d /\ Head(a) = w /\ After(ws, x) = AfterWord(x, w, v)
      /\ Tail(a) = RestOf(ws, x.word + 1) /\ x.word + 1 \in 1..Len(ws) + 1
  BY <1>1, AtWordIs
<1>3. ~(LongAsks(w) /\ ~d)
  BY <1>2 DEF LongAsks
<1>4. GoesOn(ws, Len(ws), x)
  BY <1>1, <1>3, AtWordIs
<1>5. After(ws, x) = At(x.word + 1, 0, d, A!WithOperand(c, w), "none")
  BY <1>2 DEF AfterWord, Passed
<1> QED
  BY <1>2, <1>4, <1>5, ReadsOn

LEMMA ReadsEnd ==
  ASSUME NEW ws \in Seq(Words), NEW x, NEW a, NEW r, NEW d, NEW c,
         Stands(ws, x, "word", a, r, d, c, "none"), a # << >>, Readable(Head(a)),
         Open(d), Ends(Head(a))
  PROVE  \A e \in {TRUE} : Reads(ws, x, "word", Tail(a), r, e, c, "none")
<1>1. PICK w, v : w = ws[x.word] /\ v = ws[x.word + 1]
  OBVIOUS
<1>2. /\ x.cli = c /\ x.ended = d /\ Head(a) = w /\ After(ws, x) = AfterWord(x, w, v)
      /\ Tail(a) = RestOf(ws, x.word + 1) /\ x.word + 1 \in 1..Len(ws) + 1
  BY <1>1, AtWordIs
<1>3. w = <<"-", "-">> /\ IsOption(w) /\ Readable(w) /\ ~d
  <2>1. \A z : z = <<"-", "-">> => IsOption(z)
    BY DEF IsOption
  <2> QED
    BY <1>2, <2>1 DEF Ends, Open
<1>7. ~LongAsks(w)
  BY <1>3 DEF LongAsks
<1>4. GoesOn(ws, Len(ws), x)
  BY <1>1, <1>7, AtWordIs
<1>5. After(ws, x) = At(x.word + 1, 0, TRUE, c, "none")
  BY <1>2, <1>3 DEF AfterWord
<1>6. ASSUME NEW e \in {TRUE} PROVE Reads(ws, x, "word", Tail(a), r, e, c, "none")
  <2>1. After(ws, x) = At(x.word + 1, 0, e, c, "none")
    BY <1>5
  <2> QED
    BY <1>2, <1>4, <2>1, ReadsOn
<1> QED
  BY <1>6

LEMMA ReadsCluster ==
  ASSUME NEW ws \in Seq(Words), NEW x, NEW a, NEW r, NEW d, NEW c,
         Stands(ws, x, "word", a, r, d, c, "none"), a # << >>, Open(d), IsCluster(Head(a))
  PROVE  Reads(ws, x, "cluster", Tail(a), Tail(Head(a)), d, c, "none")
<1>1. PICK k, w, v : k = x.word /\ w = ws[k] /\ v = ws[k + 1]
  OBVIOUS
<1>2. /\ x.cli = c /\ x.ended = d /\ Head(a) = w /\ After(ws, x) = AfterWord(x, w, v) /\ w \in Words
      /\ Tail(a) = RestOf(ws, k + 1) /\ k \in 1..Len(ws)
  BY <1>1, AtWordIs
<1>3. Readable(w) /\ IsOption(w) /\ w[2] # "-" /\ w # <<"-", "-">> /\ ~d
  <2>1. \A z : z = <<"-", "-">> => z[2] = "-"
    OBVIOUS
  <2> QED
    BY <1>2, <2>1 DEF IsCluster, Open
<1>4. GoesOn(ws, Len(ws), x)
  BY <1>1, <1>3, AtWordIs DEF LongAsks
<1>5. PICK y : y = At(k, 2, d, c, "none")
  OBVIOUS
<1>6. After(ws, x) = y
  BY <1>1, <1>2, <1>3, <1>5 DEF AfterWord
<1>7. y.word = k /\ y.letter = 2 /\ y.ended = d /\ y.cli = c /\ y.status = "none"
  BY <1>5, AtIs
<1>8. 2 \in 2..Len(w) + 1 /\ 1 \in 1..Len(w)
  <2>1. Len(w) \in Nat
    BY <1>2, LenProperties DEF Words
  <2> QED
    BY <1>3, <2>1 DEF IsOption
<1>9. Tail(w) = RestOf(w, 2)
  <2>1. RestOf(w, 1) = w /\ Tail(RestOf(w, 1)) = RestOf(w, 1 + 1)
    BY <1>2, <1>8, RestFacts, RestEnds DEF Words
  <2> QED
    BY <2>1
<1>10. Inside(ws, y, Tail(a), Tail(w))
  BY <1>1, <1>2, <1>7, <1>8, <1>9 DEF Inside
<1>11. Stands(ws, y, "cluster", Tail(a), Tail(w), d, c, "none")
  BY <1>7, <1>10 DEF Stands
<1> QED
  BY <1>2, <1>4, <1>6, <1>11 DEF Reads

\* A long option: LongRead is what the program has in hand.
LongRead(ws, x, a, r, d, c, w) ==
  /\ Stands(ws, x, "word", a, r, d, c, "none") /\ a # << >> /\ Open(d)
  /\ w = Head(a) /\ Readable(w) /\ IsOption(w) /\ ~Ends(w) /\ w[2] = "-"

LEMMA LongIs ==
  ASSUME NEW ws \in Seq(Words), NEW x, NEW a, NEW r, NEW d, NEW c, NEW w, LongRead(ws, x, a, r, d, c, w)
  PROVE  /\ x.word \in 1..Len(ws) /\ x.letter = 0 /\ x.status = "none" /\ x.cli = c /\ x.ended = d /\ ~d
         /\ w \in Words /\ w = ws[x.word]
         /\ Tail(a) = RestOf(ws, x.word + 1) /\ x.word + 1 \in 1..Len(ws) + 1
         /\ After(ws, x) = AfterLong(x, w, ws[x.word + 1])
         /\ ~LongAsks(w) \/ x.word < Len(ws) => GoesOn(ws, Len(ws), x)
<1>1. PICK v : v = ws[x.word + 1]
  OBVIOUS
<1>2. Stands(ws, x, "word", a, r, d, c, "none") /\ a # << >>
  BY DEF LongRead
<1>3. /\ x.word \in 1..Len(ws) /\ x.letter = 0 /\ x.status = "none" /\ x.cli = c /\ x.ended = d
      /\ ws[x.word] \in Words /\ Head(a) = ws[x.word]
      /\ Tail(a) = RestOf(ws, x.word + 1) /\ x.word + 1 \in 1..Len(ws) + 1
      /\ After(ws, x) = AfterWord(x, ws[x.word], v)
      /\ (LongAsks(ws[x.word]) /\ ~d => x.word < Len(ws)) => GoesOn(ws, Len(ws), x)
  BY <1>1, <1>2, AtWordIs
<1>4. w = ws[x.word] /\ ~d /\ Readable(w) /\ IsOption(w) /\ w # <<"-", "-">> /\ w[2] = "-"
  BY <1>3 DEF LongRead, Open, Ends
<1>5. AfterWord(x, w, v) = AfterLong(x, w, v)
  BY <1>3, <1>4 DEF AfterWord
<1> QED
  BY <1>1, <1>3, <1>4, <1>5

LEMMA LongReadsWord ==
  ASSUME NEW ws \in Seq(Words), NEW x, NEW a, NEW r, NEW d, NEW c, NEW w,
         LongRead(ws, x, a, r, d, c, w), NEW n, NameOf(w) = <<n>>
  PROVE  /\ n \in A!Long(A!Flag) => Reads(ws, x, "word", Tail(a), r, d, WithFlag(c, n), "none")
         /\ n \in A!Long(A!Option) /\ Signs(w) # {} =>
              Reads(ws, x, "word", Tail(a), r, d, A!WithValue(c, n, ValueOf(w)), "none")
         /\ n \in A!Long(A!Stop) => Reads(ws, x, "done", a, r, d, c, n)
<1>1. PICK v : v = ws[x.word + 1]
  OBVIOUS
<1>2. /\ x.cli = c /\ x.ended = d /\ Tail(a) = RestOf(ws, x.word + 1) /\ x.word + 1 \in 1..Len(ws) + 1
      /\ After(ws, x) = AfterLong(x, w, v)
      /\ ~LongAsks(w) => GoesOn(ws, Len(ws), x)
  BY <1>1, LongIs
<1>3. \A set : Spells(set, w) <=> n \in set
  <2>1. \A h : <<h>> = <<n>> <=> h = n
    OBVIOUS
  <2> QED
    BY <2>1 DEF Spells
<1>4. ASSUME n \in A!Long(A!Flag)
      PROVE  Reads(ws, x, "word", Tail(a), r, d, WithFlag(c, n), "none")
  <2>1. GoesOn(ws, Len(ws), x)
    BY <1>2, <1>3, <1>4, OneTable DEF LongAsks
  <2>2. After(ws, x) = At(x.word + 1, 0, d, WithFlag(c, n), "none")
    BY <1>2, <1>4, LongName DEF Passed
  <2> QED
    BY <1>2, <2>1, <2>2, ReadsOn
<1>5. ASSUME n \in A!Long(A!Option), Signs(w) # {}
      PROVE  Reads(ws, x, "word", Tail(a), r, d, A!WithValue(c, n, ValueOf(w)), "none")
  <2>1. GoesOn(ws, Len(ws), x)
    BY <1>2, <1>5 DEF LongAsks
  <2>2. After(ws, x) = At(x.word + 1, 0, d, A!WithValue(c, n, ValueOf(w)), "none")
    BY <1>2, <1>5, LongName DEF Passed
  <2> QED
    BY <1>2, <2>1, <2>2, ReadsOn
<1>6. ASSUME n \in A!Long(A!Stop) PROVE Reads(ws, x, "done", a, r, d, c, n)
  <2>1. GoesOn(ws, Len(ws), x)
    BY <1>2, <1>3, <1>6, OneTable DEF LongAsks
  <2>2. After(ws, x) = Halted(x, n) /\ n # "none"
    BY <1>2, <1>6, LongName, OneTable
  <2> QED
    BY <1>2, <2>1, <2>2, ReadsAndHalts
<1> QED
  BY <1>4, <1>5, <1>6

LEMMA LongReadsUnknown ==
  ASSUME NEW ws \in Seq(Words), NEW x, NEW a, NEW r, NEW d, NEW c, NEW w,
         LongRead(ws, x, a, r, d, c, w),
         ~Spells(A!Long(A!Flag) \cup A!Long(A!Option) \cup A!Long(A!Stop), w)
  PROVE  Reads(ws, x, "done", a, r, d, c, "usage")
<1>1. PICK v : v = ws[x.word + 1]
  OBVIOUS
<1>2. x.cli = c /\ After(ws, x) = AfterLong(x, w, v) /\ (~LongAsks(w) => GoesOn(ws, Len(ws), x))
  BY <1>1, LongIs
<1>3. ~Spells(A!Long(A!Flag), w) /\ ~Spells(A!Long(A!Option), w) /\ ~Spells(A!Long(A!Stop), w)
  BY DEF Spells
<1>4. GoesOn(ws, Len(ws), x)
  BY <1>2, <1>3 DEF LongAsks
<1>5. After(ws, x) = Halted(x, "usage")
  BY <1>2, <1>3 DEF AfterLong
<1> QED
  BY <1>2, <1>4, <1>5, ReadsAndHalts

\* An argument that is the next word, for both forms of an option.
LEMMA TakesNext ==
  ASSUME NEW ws \in Seq(Words), NEW x, x.word \in 1..Len(ws), NEW a, a = RestOf(ws, x.word + 1),
         a # << >>, NEW o, GoesOn(ws, Len(ws), x), After(ws, x) = Taken(x, o, ws[x.word + 1]),
         NEW r, NEW d, x.ended = d
  PROVE  /\ ~Readable(Head(a)) => Reads(ws, x, "done", a, r, d, x.cli, "panic")
         /\ Readable(Head(a)) =>
              Reads(ws, x, "word", Tail(a), r, d, A!WithValue(x.cli, o, Head(a)), "none")
<1>1. PICK k, v : k = x.word /\ v = ws[k + 1]
  OBVIOUS
<1>2. k + 2 \in 1..Len(ws) + 1 /\ Head(a) = v /\ Tail(a) = RestOf(ws, k + 2)
  BY <1>1, NextIs
<1>3. ASSUME ~Readable(v) PROVE Reads(ws, x, "done", a, r, d, x.cli, "panic")
  <2>1. After(ws, x) = Halted(x, "panic")
    BY <1>1, <1>3 DEF Taken
  <2> QED
    BY <2>1, ReadsAndHalts
<1>4. ASSUME Readable(v)
      PROVE  Reads(ws, x, "word", Tail(a), r, d, A!WithValue(x.cli, o, v), "none")
  <2>1. After(ws, x) = At(k + 2, 0, d, A!WithValue(x.cli, o, v), "none")
    BY <1>1, <1>4 DEF Taken, Passed
  <2> QED
    BY <1>2, <2>1, ReadsOn
<1> QED
  BY <1>2, <1>3, <1>4

LEMMA LongReadsNext ==
  ASSUME NEW ws \in Seq(Words), NEW x, NEW a, NEW r, NEW d, NEW c, NEW w,
         LongRead(ws, x, a, r, d, c, w), NEW n \in A!Long(A!Option), NameOf(w) = <<n>>, Signs(w) = {},
         NEW t, t = Tail(a)
  PROVE  /\ t = << >> => Missing(ws, x)
         /\ t # << >> /\ ~Readable(Head(t)) => Reads(ws, x, "done", t, r, d, c, "panic")
         /\ t # << >> /\ Readable(Head(t)) =>
              Reads(ws, x, "word", Tail(t), r, d, A!WithValue(c, n, Head(t)), "none")
<1>1. PICK k, v : k = x.word /\ v = ws[k + 1]
  OBVIOUS
<1>2. /\ k \in 1..Len(ws) /\ x.letter = 0 /\ x.status = "none" /\ x.cli = c /\ x.ended = d /\ ~d
      /\ w = ws[k] /\ t = RestOf(ws, k + 1) /\ After(ws, x) = AfterLong(x, w, v)
      /\ k < Len(ws) => GoesOn(ws, Len(ws), x)
  BY <1>1, LongIs
<1>3. LongAsks(w)
  <2>1. Spells(A!Long(A!Option), w)
    BY DEF Spells
  <2> QED
    BY <2>1 DEF LongAsks, LongRead, Ends
<1>4. AfterLong(x, w, v) = Taken(x, n, v)
  BY LongName
<1>5. ASSUME t = << >> PROVE Missing(ws, x)
  <2>1. k = Len(ws)
    BY <1>2, <1>5, NextIs
  <2>2. Len(ws) > 0 /\ 0 \in Nat
    BY <1>2, <2>1
  <2> QED
    BY <1>1, <1>2, <1>3, <2>1, <2>2 DEF Missing
<1>6. ASSUME t # << >> PROVE GoesOn(ws, Len(ws), x) /\ After(ws, x) = Taken(x, n, v)
  <2>1. k < Len(ws)
    BY <1>2, <1>6, NextIs
  <2> QED
    BY <1>2, <1>4, <2>1
<1>7. ASSUME t # << >>
      PROVE  /\ ~Readable(Head(t)) => Reads(ws, x, "done", t, r, d, x.cli, "panic")
             /\ Readable(Head(t)) =>
                  Reads(ws, x, "word", Tail(t), r, d, A!WithValue(x.cli, n, Head(t)), "none")
  BY <1>1, <1>2, <1>6, <1>7, TakesNext
<1> QED
  BY <1>2, <1>5, <1>7

LetterThere(w, j, r) ==
  /\ j \in 1..Len(w) /\ j <= Len(w) /\ j + 1 \in 2..Len(w) + 1 /\ (Len(r) > 1 <=> j < Len(w))
  /\ Head(r) = w[j] /\ Tail(r) = RestOf(w, j + 1)

LEMMA AtLetterIs ==
  ASSUME NEW ws \in Seq(Words), NEW x, NEW a, NEW r, NEW d, NEW c,
         Stands(ws, x, "cluster", a, r, d, c, "none"), NEW k, NEW j, NEW w, NEW v,
         k = x.word, j = x.letter, w = ws[k], v = ws[k + 1]
  PROVE  /\ k \in 1..Len(ws) /\ k + 1 \in 1..Len(ws) + 1 /\ w \in Words
         /\ x.status = "none" /\ x.cli = c /\ x.ended = d /\ j \in 2..Len(w) + 1
         /\ a = RestOf(ws, k + 1) /\ After(ws, x) = AfterLetter(x, w, v)
         /\ (LetterAsks(w, j) => k < Len(ws)) => GoesOn(ws, Len(ws), x)
         /\ r = << >> => j = Len(w) + 1
         /\ r # << >> => LetterThere(w, j, r)
<1>1. /\ x.status = "none" /\ x.cli = c /\ x.ended = d /\ k \in 1..Len(ws) /\ j \in 2..Len(w) + 1
      /\ a = RestOf(ws, k + 1) /\ r = RestOf(w, j)
  BY DEF Stands, Inside
<1>2. PICK n, m : n = Len(ws) /\ m = Len(w)
  OBVIOUS
<1>3. w \in Words
  BY <1>1, ElementOfSeq
<1>4. n \in Nat /\ m \in Nat
  BY <1>2, <1>3, LenProperties DEF Words
<1>5. k \in 1..n /\ j \in 2..m + 1
  BY <1>1, <1>2
<1>6. k + 1 \in 1..n + 1 /\ k <= n /\ j \in Nat /\ j # 0
  BY <1>4, <1>5
<1>7. After(ws, x) = AfterLetter(x, w, v)
  BY <1>1, <1>6 DEF After
<1>8. ASSUME LetterAsks(w, j) => k < n PROVE GoesOn(ws, n, x)
  BY <1>1, <1>2, <1>6, <1>8 DEF GoesOn
<1>9. CASE j = m + 1
  <2>1. r = << >>
    BY <1>1, <1>2, <1>3, <1>9, RestEnds DEF Words
  <2> QED
    BY <1>1, <1>2, <1>3, <1>6, <1>7, <1>8, <1>9, <2>1
<1>10. CASE j # m + 1
  <2>1. j \in 1..m /\ j <= m /\ j + 1 \in 2..m + 1
    BY <1>4, <1>5, <1>10
  <2>2. r # << >> /\ Head(r) = w[j] /\ Tail(r) = RestOf(w, j + 1) /\ Len(r) = m - j + 1
    BY <1>1, <1>2, <1>3, <2>1, RestFacts DEF Words
  <2>3. Len(r) > 1 <=> j < m
    BY <1>4, <2>1, <2>2
  <2>4. LetterThere(w, j, r)
    BY <1>2, <2>1, <2>2, <2>3 DEF LetterThere
  <2> QED
    BY <1>1, <1>2, <1>3, <1>6, <1>7, <1>8, <2>2, <2>4
<1> QED
  BY <1>9, <1>10

LEMMA LetterReadsEnd ==
  ASSUME NEW ws \in Seq(Words), NEW x, NEW a, NEW r, NEW d, NEW c,
         Stands(ws, x, "cluster", a, r, d, c, "none"), r = << >>
  PROVE  \A s : Reads(ws, x, "word", a, s, d, c, "none")
<1>1. PICK k, j, w, v : k = x.word /\ j = x.letter /\ w = ws[k] /\ v = ws[k + 1]
  OBVIOUS
<1>2. /\ w \in Words /\ x.cli = c /\ x.ended = d /\ j = Len(w) + 1 /\ k + 1 \in 1..Len(ws) + 1
      /\ a = RestOf(ws, k + 1) /\ After(ws, x) = AfterLetter(x, w, v)
      /\ (LetterAsks(w, j) => k < Len(ws)) => GoesOn(ws, Len(ws), x)
  BY <1>1, AtLetterIs
<1>3. j > Len(w) /\ j # Len(w)
  <2>1. Len(w) \in Nat
    BY <1>2, LenProperties DEF Words
  <2> QED
    BY <1>2, <2>1
<1>4. GoesOn(ws, Len(ws), x)
  BY <1>2, <1>3 DEF LetterAsks
<1>5. After(ws, x) = At(k + 1, 0, d, c, "none")
  BY <1>1, <1>2, <1>3 DEF AfterLetter, Passed
<1> QED
  BY <1>2, <1>4, <1>5, ReadsOn

LEMMA LetterReads ==
  ASSUME NEW ws \in Seq(Words), NEW x, NEW a, NEW r, NEW d, NEW c,
         Stands(ws, x, "cluster", a, r, d, c, "none"), r # << >>, NEW h, h = Head(r),
         h \notin DOMAIN A!Option
  PROVE  /\ h \in DOMAIN A!Flag => Reads(ws, x, "cluster", a, Tail(r), d, WithFlag(c, A!Flag[h]), "none")
         /\ h \in DOMAIN A!Stop => Reads(ws, x, "done", a, r, d, c, A!Stop[h])
         /\ h \notin DOMAIN A!Flag \cup DOMAIN A!Stop => Reads(ws, x, "done", a, r, d, c, "usage")
<1>1. PICK k, j, w, v : k = x.word /\ j = x.letter /\ w = ws[k] /\ v = ws[k + 1]
  OBVIOUS
<1>2. /\ k \in 1..Len(ws) /\ x.cli = c /\ x.ended = d
      /\ a = RestOf(ws, k + 1) /\ After(ws, x) = AfterLetter(x, w, v)
      /\ (LetterAsks(w, j) => k < Len(ws)) => GoesOn(ws, Len(ws), x)
      /\ w \in Words /\ LetterThere(w, j, r)
  BY <1>1, AtLetterIs
<1>8. /\ j \in 1..Len(w) /\ j <= Len(w) /\ h = w[j] /\ Tail(r) = RestOf(w, j + 1)
      /\ j + 1 \in 2..Len(w) + 1
  BY <1>2 DEF LetterThere
<1>3. GoesOn(ws, Len(ws), x)
  BY <1>2, <1>8 DEF LetterAsks
<1>4. ~(j > Len(w))
  <2>1. Len(w) \in Nat
    BY <1>2, <1>8, LenProperties DEF Words
  <2> QED
    BY <1>2, <1>8, <2>1
<1>5. ASSUME h \in DOMAIN A!Flag
      PROVE  Reads(ws, x, "cluster", a, Tail(r), d, WithFlag(c, A!Flag[h]), "none")
  <2>1. PICK y : y = At(k, j + 1, d, WithFlag(c, A!Flag[h]), "none")
    OBVIOUS
  <2>2. After(ws, x) = y
    BY <1>1, <1>2, <1>8, <1>4, <1>5, <2>1 DEF AfterLetter
  <2>3. y.word = k /\ y.letter = j + 1 /\ y.ended = d /\ y.cli = WithFlag(c, A!Flag[h]) /\ y.status = "none"
    BY <2>1, AtIs
  <2>4. Inside(ws, y, a, Tail(r))
    BY <1>1, <1>2, <1>8, <2>3 DEF Inside
  <2>5. Stands(ws, y, "cluster", a, Tail(r), d, WithFlag(c, A!Flag[h]), "none")
    BY <2>3, <2>4 DEF Stands
  <2> QED
    BY <1>3, <2>2, <2>5 DEF Reads
<1>6. ASSUME h \in DOMAIN A!Stop PROVE Reads(ws, x, "done", a, r, d, c, A!Stop[h])
  <2>1. After(ws, x) = Halted(x, A!Stop[h])
    BY <1>1, <1>2, <1>8, <1>4, <1>6, OneTable DEF AfterLetter
  <2>2. A!Stop[h] # "none"
    BY <1>6, Tables, OneTable
  <2> QED
    BY <1>2, <1>3, <2>1, <2>2, ReadsAndHalts
<1>7. ASSUME h \notin DOMAIN A!Flag \cup DOMAIN A!Stop PROVE Reads(ws, x, "done", a, r, d, c, "usage")
  <2>1. After(ws, x) = Halted(x, "usage")
    BY <1>1, <1>2, <1>8, <1>4, <1>7 DEF AfterLetter
  <2> QED
    BY <1>2, <1>8, <1>3, <2>1, ReadsAndHalts
<1> QED
  BY <1>5, <1>6, <1>7

LEMMA LetterReadsJoined ==
  ASSUME NEW ws \in Seq(Words), NEW x, NEW a, NEW r, NEW d, NEW c,
         Stands(ws, x, "cluster", a, r, d, c, "none"), r # << >>, NEW h, h = Head(r),
         h \in DOMAIN A!Option
  PROVE  /\ Len(r) > 1 =>
              \A s : Reads(ws, x, "word", a, s, d, A!WithValue(c, A!Option[h], Tail(r)), "none")
         /\ ~(Len(r) > 1) /\ a = << >> => Missing(ws, x)
         /\ ~(Len(r) > 1) /\ a # << >> /\ ~Readable(Head(a)) =>
              \A s : Reads(ws, x, "done", a, s, d, c, "panic")
         /\ ~(Len(r) > 1) /\ a # << >> /\ Readable(Head(a)) =>
              \A s : Reads(ws, x, "word", Tail(a), s, d, A!WithValue(c, A!Option[h], Head(a)), "none")
<1>1. PICK k, j, w, v : k = x.word /\ j = x.letter /\ w = ws[k] /\ v = ws[k + 1]
  OBVIOUS
<1>2. /\ k \in 1..Len(ws) /\ k + 1 \in 1..Len(ws) + 1 /\ x.cli = c /\ x.ended = d /\ x.status = "none"
      /\ a = RestOf(ws, k + 1) /\ After(ws, x) = AfterLetter(x, w, v)
      /\ (LetterAsks(w, j) => k < Len(ws)) => GoesOn(ws, Len(ws), x)
      /\ w \in Words /\ LetterThere(w, j, r)
  BY <1>1, AtLetterIs
<1>8. /\ j \in 1..Len(w) /\ j <= Len(w) /\ h = w[j] /\ Tail(r) = RestOf(w, j + 1)
      /\ (Len(r) > 1 <=> j < Len(w))
  BY <1>2 DEF LetterThere
<1>3. Len(w) \in Nat /\ j \in Nat /\ ~(j > Len(w))
  <2>1. Len(w) \in Nat
    BY <1>2, <1>8, LenProperties DEF Words
  <2> QED
    BY <1>2, <1>8, <2>1
<1>4. ASSUME Len(r) > 1, NEW s
      PROVE  Reads(ws, x, "word", a, s, d, A!WithValue(c, A!Option[h], Tail(r)), "none")
  <2>1. j < Len(w) /\ j # Len(w)
    BY <1>2, <1>8, <1>3, <1>4
  <2>2. GoesOn(ws, Len(ws), x)
    BY <1>2, <1>8, <2>1 DEF LetterAsks
  <2>3. After(ws, x) = At(k + 1, 0, d, A!WithValue(c, A!Option[h], Tail(r)), "none")
    BY <1>1, <1>2, <1>8, <1>3, <2>1 DEF AfterLetter, Passed
  <2> QED
    BY <1>2, <1>8, <2>2, <2>3, ReadsOn
<1>5. ASSUME ~(Len(r) > 1) PROVE j = Len(w) /\ LetterAsks(w, j)
  <2>1. j = Len(w)
    BY <1>2, <1>8, <1>3, <1>5
  <2> QED
    BY <1>2, <1>8, <2>1 DEF LetterAsks
<1>6. ASSUME ~(Len(r) > 1), a = << >> PROVE Missing(ws, x)
  <2>1. k = Len(ws)
    BY <1>2, <1>8, <1>6, NextIs
  <2>2. Len(ws) > 0 /\ j # 0
    BY <1>2, <1>8, <2>1
  <2> QED
    BY <1>1, <1>2, <1>8, <1>3, <1>5, <1>6, <2>1, <2>2 DEF Missing
<1>7. ASSUME ~(Len(r) > 1), a # << >>, NEW s
      PROVE  /\ ~Readable(Head(a)) => Reads(ws, x, "done", a, s, d, x.cli, "panic")
             /\ Readable(Head(a)) =>
                  Reads(ws, x, "word", Tail(a), s, d, A!WithValue(x.cli, A!Option[h], Head(a)), "none")
  <2>1. k < Len(ws)
    BY <1>2, <1>8, <1>7, NextIs
  <2>2. After(ws, x) = Taken(x, A!Option[h], v)
    BY <1>1, <1>2, <1>8, <1>3, <1>5, <1>7 DEF AfterLetter
  <2>3. GoesOn(ws, Len(ws), x)
    BY <1>2, <1>8, <2>1
  <2> QED
    BY <1>1, <1>2, <1>8, <1>7, <2>2, <2>3, TakesNext
<1> QED
  BY <1>2, <1>8, <1>4, <1>6, <1>7

\* What was understood stays a list of options and operands.
LEMMA SignFound ==
  ASSUME NEW w \in Words, Signs(w) # {}
  PROVE  Sign(w) \in 3..Len(w) /\ ValueOf(w) \in Words
<1>1. Len(w) \in Nat
  BY LenProperties DEF Words
<1>2. Signs(w) \subseteq Nat
  BY <1>1 DEF Signs
<1>3. \E k \in Signs(w) : \A j \in Signs(w) : k <= j
  BY <1>2, LeastNumber
<1>4. Sign(w) \in Signs(w)
  BY <1>3 DEF Sign
<1>5. PICK k : k = Sign(w)
  OBVIOUS
<1>6. k \in 3..Len(w)
  BY <1>4, <1>5 DEF Signs
<1>7. SubSeq(w, k + 1, Len(w)) \in Words
  <2>1. k + 1 \in Int /\ Len(w) \in Int /\ \A i \in k + 1..Len(w) : i \in 1..Len(w)
    BY <1>1, <1>6
  <2>2. \A i \in k + 1..Len(w) : w[i] \in Chars
    BY <2>1, ElementOfSeq DEF Words
  <2> QED
    BY <2>1, <2>2, SubSeqProperties DEF Words
<1> QED
  BY <1>5, <1>6, <1>7 DEF ValueOf

LEMMA TakenTyped ==
  ASSUME NEW x, x.cli \in Understandings, NEW o \in A!Long(A!Option), NEW v \in Words
  PROVE  Taken(x, o, v).cli \in Understandings
<1>1. A!WithValue(x.cli, o, v) \in Understandings
  BY UnderstandingFacts
<1>2. CASE Readable(v)
  BY <1>1, <1>2, AtIs DEF Taken, Passed
<1>3. CASE ~Readable(v)
  BY <1>3, AtIs DEF Taken, Halted
<1> QED
  BY <1>2, <1>3

LEMMA AfterTyped ==
  ASSUME NEW ws \in Seq(Words), NEW x, GoesOn(ws, Len(ws), x), x.cli \in Understandings
  PROVE  After(ws, x).cli \in Understandings
<1>1. PICK k, w, v, n : k = x.word /\ w = ws[k] /\ v = ws[k + 1] /\ n = Len(ws)
  OBVIOUS
<1>2. n \in Nat /\ k \in 1..n
  BY <1>1, LenProperties DEF GoesOn
<1>3. w \in Words
  BY <1>1, <1>2, ElementOfSeq
<1>4. ASSUME k < n PROVE v \in Words
  <2>1. PICK i : i = k + 1
    OBVIOUS
  <2>2. i \in 1..n
    BY <1>2, <1>4, <2>1
  <2> QED
    BY <1>1, <2>1, <2>2, ElementOfSeq
<1>5. PICK c : c = x.cli
  OBVIOUS
<1>6. c \in Understandings
  BY <1>5
<1>7. \A i, j, d, e, s : e \in Understandings => At(i, j, d, e, s).cli \in Understandings
  BY AtIs
<1>8. \A why : Halted(x, why).cli \in Understandings
  BY <1>5, <1>6, <1>7 DEF Halted
<1>9. \A e \in Understandings : Passed(x, 1, e).cli \in Understandings
  BY <1>7 DEF Passed
<1>10. CASE x.letter = 0
  <2>1. After(ws, x) = AfterWord(x, w, v)
    BY <1>1, <1>10 DEF After
  <2>2. CASE ~Readable(w)
    BY <1>8, <2>1, <2>2 DEF AfterWord
  <2>3. CASE Readable(w) /\ (x.ended \/ ~IsOption(w))
    <3>1. A!WithOperand(c, w) \in Understandings
      BY <1>3, <1>6, UnderstandingFacts
    <3> QED
      BY <1>5, <1>9, <2>1, <2>3, <3>1 DEF AfterWord
  <2>4. CASE Readable(w) /\ ~x.ended /\ IsOption(w) /\ (w = <<"-", "-">> \/ w[2] # "-")
    BY <1>5, <1>6, <1>7, <2>1, <2>4 DEF AfterWord
  <2>5. CASE Readable(w) /\ ~x.ended /\ IsOption(w) /\ w # <<"-", "-">> /\ w[2] = "-"
    <3>1. After(ws, x) = AfterLong(x, w, v)
      BY <2>1, <2>5 DEF AfterWord
    <3>2. \A set : Spells(set, w) => NameOf(w)[1] \in set
      BY DEF Spells
    <3>3. CASE Spells(A!Long(A!Flag), w)
      <4>1. WithFlag(c, NameOf(w)[1]) \in Understandings
        BY <1>6, <3>2, <3>3, UnderstandingFacts
      <4> QED
        BY <1>5, <1>9, <3>1, <3>3, <4>1 DEF AfterLong
    <3>4. CASE ~Spells(A!Long(A!Flag), w) /\ Spells(A!Long(A!Option), w) /\ Signs(w) # {}
      <4>1. A!WithValue(c, NameOf(w)[1], ValueOf(w)) \in Understandings
        BY <1>3, <1>6, <3>2, <3>4, SignFound, UnderstandingFacts
      <4> QED
        BY <1>5, <1>9, <3>1, <3>4, <4>1 DEF AfterLong
    <3>5. CASE ~Spells(A!Long(A!Flag), w) /\ Spells(A!Long(A!Option), w) /\ Signs(w) = {}
      <4>1. AfterLong(x, w, v) = Taken(x, NameOf(w)[1], v)
        BY <3>5 DEF AfterLong
      <4>2. k < n
        BY <1>1, <1>2, <1>10, <2>5, <3>5 DEF GoesOn, LongAsks
      <4> QED
        BY <1>4, <3>1, <3>2, <3>5, <4>1, <4>2, TakenTyped
    <3>6. CASE ~Spells(A!Long(A!Flag), w) /\ ~Spells(A!Long(A!Option), w)
      BY <1>8, <3>1, <3>6 DEF AfterLong
    <3> QED
      BY <3>3, <3>4, <3>5, <3>6
  <2> QED
    BY <2>2, <2>3, <2>4, <2>5
<1>11. CASE x.letter # 0
  <2>1. After(ws, x) = AfterLetter(x, w, v)
    BY <1>1, <1>11 DEF After
  <2>2. PICK j, h, m : j = x.letter /\ h = w[j] /\ m = Len(w)
    OBVIOUS
  <2>3. j \in Nat /\ j # 0 /\ m \in Nat
    BY <1>3, <1>11, <2>2, LenProperties DEF GoesOn, Words
  <2>4. CASE j > m
    BY <1>5, <1>6, <1>9, <2>1, <2>2, <2>4 DEF AfterLetter
  <2>5. CASE ~(j > m) /\ h \in DOMAIN A!Option /\ j < m
    <3>1. RestOf(w, j + 1) \in Words
      <4>1. PICK i : i = j + 1
        OBVIOUS
      <4>2. i \in 1..m
        BY <2>3, <2>5, <4>1
      <4> QED
        BY <1>3, <2>2, <4>1, <4>2, RestFacts DEF Words
    <3>2. A!WithValue(c, A!Option[h], RestOf(w, j + 1)) \in Understandings
      BY <1>6, <2>5, <3>1, Tables, UnderstandingFacts
    <3> QED
      BY <1>5, <1>9, <2>1, <2>2, <2>5, <3>2 DEF AfterLetter
  <2>6. CASE ~(j > m) /\ h \in DOMAIN A!Option /\ ~(j < m)
    <3>1. j = m
      BY <2>3, <2>6
    <3>2. k < n
      BY <1>1, <1>2, <1>11, <2>2, <2>6, <3>1 DEF GoesOn, LetterAsks
    <3>3. AfterLetter(x, w, v) = Taken(x, A!Option[h], v)
      BY <2>2, <2>6 DEF AfterLetter
    <3> QED
      BY <1>4, <2>1, <2>6, <3>2, <3>3, Tables, TakenTyped
  <2>7. CASE ~(j > m) /\ h \notin DOMAIN A!Option /\ h \in DOMAIN A!Flag
    <3>1. WithFlag(c, A!Flag[h]) \in Understandings
      BY <1>6, <2>7, Tables, UnderstandingFacts
    <3> QED
      BY <1>5, <1>7, <2>1, <2>2, <2>7, <3>1 DEF AfterLetter
  <2>8. CASE ~(j > m) /\ h \notin DOMAIN A!Option /\ h \notin DOMAIN A!Flag
    BY <1>8, <2>1, <2>2, <2>8 DEF AfterLetter
  <2> QED
    BY <2>4, <2>5, <2>6, <2>7, <2>8
<1> QED
  BY <1>10, <1>11

-----------------------------------------------------------------------------
(* The steps of the program                                                  *)

Stand(x) == Stands(words, x, a_pc, args, rest, options_done, a_cli, a_status)
Follows(x) ==
  \/ Reads(words, x, a_pc', args', rest', options_done', a_cli', a_status')
  \/ Missing(words, x) /\ a_pc' = "done" /\ a_status' = "usage" /\ a_cli' = a_cli

LEMMA StandOpen ==
  ASSUME NEW x, Stand(x)
  PROVE  /\ a_pc = "word" => /\ a_status = "none"
                             /\ Stands(words, x, "word", args, rest, options_done, a_cli, "none")
         /\ a_pc = "cluster" => /\ a_status = "none"
                                /\ Stands(words, x, "cluster", args, rest, options_done, a_cli, "none")
<1>1. a_pc # "done" => a_status = "none"
  BY DEF Stand, Stands
<1> QED
  BY <1>1 DEF Stand

LEMMA PositionalIs ==
  ASSUME Head(args) \in Words
  PROVE  A!IsPositional <=> options_done \/ ~IsOption(Head(args))
<1>1. IsOption(Head(args)) <=> A!IsPrefix(Dash, Head(args)) /\ Head(args) # Dash
  BY OptionIs
<1>2. A!IsPositional <=> options_done \/ Head(args) = Dash \/ ~A!IsPrefix(Dash, Head(args))
  BY DEF A!IsPositional, A!Word, Dash
<1> QED
  BY <1>1, <1>2

LEMMA DoneAny ==
  ASSUME NEW ws, NEW x, NEW a, NEW r, NEW d, NEW c, NEW s, s # "none",
         Reads(ws, x, "done", a, r, d, c, s), NEW b, NEW t, NEW e
  PROVE  Reads(ws, x, "done", b, t, e, c, s)
BY DEF Reads, Stands

LEMMA PanicFollows ==
  ASSUME words \in Seq(Words), NEW x, Stand(x), A!Panic
  PROVE  Follows(x)
<1>1. a_pc = "word" /\ args # << >> /\ ~Readable(Head(args))
  BY DEF A!Panic, Readable
<1>2. Reads(words, x, "done", args, rest, options_done, a_cli, "panic")
  BY <1>1, StandOpen, ReadsPanic
<1>3. /\ a_pc' = "done" /\ a_status' = "panic" /\ args' = args /\ rest' = rest
      /\ options_done' = options_done /\ a_cli' = a_cli
  BY DEF A!Panic, A!End
<1> QED
  BY <1>2, <1>3 DEF Follows

\* A readable word, and what Word and IsPositional say of it.
LEMMA AtWordFollows ==
  ASSUME words \in Seq(Words), NEW x, Stand(x), A!AtWord
  PROVE  /\ Stands(words, x, "word", args, rest, options_done, a_cli, "none") /\ args # << >>
         /\ a_status = "none" /\ Head(args) \in Words /\ Readable(Head(args)) /\ A!Word = Head(args)
         /\ (A!IsPositional <=> options_done \/ ~IsOption(Head(args)))
<1>1. a_pc = "word" /\ args # << >> /\ Readable(Head(args))
  BY DEF A!AtWord, Readable
<1>2. Stands(words, x, "word", args, rest, options_done, a_cli, "none") /\ a_status = "none"
  BY <1>1, StandOpen
<1>3. Head(args) \in Words
  <2>1. Head(args) = words[x.word] /\ words[x.word] \in Words
    BY <1>1, <1>2, AtWordIs
  <2> QED
    BY <2>1
<1>4. A!Word = Head(args)
  BY DEF A!Word
<1>5. A!IsPositional <=> options_done \/ ~IsOption(Head(args))
  BY <1>3, PositionalIs
<1> QED
  BY <1>1, <1>2, <1>3, <1>4, <1>5

LEMMA PositionalFollows ==
  ASSUME words \in Seq(Words), NEW x, Stand(x), A!TakePositional
  PROVE  Follows(x)
<1>1. A!AtWord /\ A!IsPositional
  BY DEF A!TakePositional
<1>2. /\ Stands(words, x, "word", args, rest, options_done, a_cli, "none") /\ args # << >>
      /\ a_status = "none" /\ Readable(Head(args)) /\ A!Word = Head(args)
      /\ options_done \/ ~IsOption(Head(args))
  BY <1>1, AtWordFollows
<1>3. Reads(words, x, "word", Tail(args), rest, options_done, A!WithOperand(a_cli, Head(args)), "none")
  BY <1>2, ReadsOperand
<1>4. /\ a_pc' = "word" /\ a_status' = "none" /\ args' = Tail(args) /\ rest' = rest
      /\ options_done' = options_done /\ a_cli' = A!WithOperand(a_cli, Head(args))
  BY <1>2 DEF A!TakePositional, A!NextWord
<1> QED
  BY <1>3, <1>4 DEF Follows

LEMMA OptionsEndFollows ==
  ASSUME words \in Seq(Words), NEW x, Stand(x), A!OptionsEnd
  PROVE  Follows(x)
<1>1. A!AtWord /\ ~A!IsPositional
  BY DEF A!OptionsEnd
<1>2. /\ Stands(words, x, "word", args, rest, options_done, a_cli, "none") /\ args # << >>
      /\ a_status = "none" /\ Readable(Head(args)) /\ A!Word = Head(args) /\ ~options_done
  BY <1>1, AtWordFollows
<1>3. Open(options_done) /\ Ends(Head(args))
  BY <1>2 DEF Open, Ends, A!OptionsEnd
<1>4. \A e \in {TRUE} : Reads(words, x, "word", Tail(args), rest, e, a_cli, "none")
  BY <1>2, <1>3, ReadsEnd
<1>5. /\ a_pc' = "word" /\ a_status' = "none" /\ args' = Tail(args) /\ rest' = rest
      /\ options_done' \in {TRUE} /\ a_cli' = a_cli
  BY <1>2 DEF A!OptionsEnd, A!NextWord
<1> QED
  BY <1>4, <1>5 DEF Follows

LEMMA ClusterFollows ==
  ASSUME words \in Seq(Words), NEW x, Stand(x), A!Cluster
  PROVE  Follows(x)
<1>1. A!AtWord /\ ~A!IsPositional
  BY DEF A!Cluster
<1>2. /\ Stands(words, x, "word", args, rest, options_done, a_cli, "none") /\ args # << >>
      /\ a_status = "none" /\ Readable(Head(args)) /\ A!Word = Head(args)
      /\ ~options_done /\ IsOption(Head(args))
  BY <1>1, AtWordFollows
<1>3. Open(options_done) /\ IsCluster(Head(args))
  BY <1>2 DEF Open, IsCluster, A!Cluster
<1>4. Reads(words, x, "cluster", Tail(args), Tail(Head(args)), options_done, a_cli, "none")
  BY <1>2, <1>3, ReadsCluster
<1>5. /\ a_pc' = "cluster" /\ a_status' = "none" /\ args' = Tail(args) /\ rest' = Tail(Head(args))
      /\ options_done' = options_done /\ a_cli' = a_cli
  BY <1>2 DEF A!Cluster
<1> QED
  BY <1>4, <1>5 DEF Follows

\* What LongOption sees of a word is what the reading sees of it.
LEMMA LongFollows ==
  ASSUME words \in Seq(Words), NEW x, Stand(x), A!LongOption
  PROVE  Follows(x)
<1>1. A!AtWord /\ ~A!IsPositional /\ Len(A!Word) > 2 /\ A!Word[2] = "-"
  BY DEF A!LongOption
<1>2. PICK w, t : w = Head(args) /\ t = Tail(args)
  OBVIOUS
<1>3. /\ Stands(words, x, "word", args, rest, options_done, a_cli, "none") /\ args # << >>
      /\ a_status = "none" /\ Readable(w) /\ A!Word = w /\ ~options_done /\ IsOption(w)
  BY <1>1, <1>2, AtWordFollows
<1>4. LongRead(words, x, args, rest, options_done, a_cli, w)
  <2>1. ~Ends(w)
    <3>1. Len(w) > 2
      BY <1>1, <1>3
    <3>2. \A z : z = <<"-", "-">> => ~(Len(z) > 2)
      OBVIOUS
    <3> QED
      BY <3>1, <3>2 DEF Ends
  <2> QED
    BY <1>1, <1>2, <1>3, <2>1 DEF LongRead, Open
<1>5. A!Equals = Signs(w) /\ A!Cut = Sign(w)
  BY <1>3 DEF A!Equals, A!Cut, Signs, Sign
<1>6. (A!HasInline <=> Signs(w) # {}) /\ A!Name = NameOf(w) /\ A!Inline = ValueOf(w)
  BY <1>3, <1>5 DEF A!HasInline, A!Name, A!Inline, NameOf, ValueOf
<1>7. \A set : A!Named(set) = {n \in set : NameOf(w) = <<n>>}
  BY <1>6 DEF A!Named
<1>8. options_done' = options_done /\ rest' = rest
  BY DEF A!LongOption
<1>9. ASSUME NEW n \in A!Named(A!Long(A!Flag)),
             a_cli' = WithFlag(a_cli, n) /\ args' = t /\ A!NextWord
      PROVE  Follows(x)
  <2>1. n \in A!Long(A!Flag) /\ NameOf(w) = <<n>>
    BY <1>7
  <2>2. Reads(words, x, "word", t, rest, options_done, WithFlag(a_cli, n), "none")
    BY <1>2, <1>4, <2>1, LongReadsWord
  <2> QED
    BY <1>3, <1>8, <1>9, <2>2 DEF Follows, A!NextWord
<1>10. ASSUME NEW n \in A!Named(A!Long(A!Option)), A!HasInline,
              a_cli' = A!WithValue(a_cli, n, A!Inline) /\ args' = t /\ A!NextWord
       PROVE  Follows(x)
  <2>1. n \in A!Long(A!Option) /\ NameOf(w) = <<n>> /\ Signs(w) # {} /\ A!Inline = ValueOf(w)
    BY <1>6, <1>7, <1>10
  <2>2. Reads(words, x, "word", t, rest, options_done, A!WithValue(a_cli, n, ValueOf(w)), "none")
    BY <1>2, <1>4, <2>1, LongReadsWord
  <2> QED
    BY <1>3, <1>8, <1>10, <2>1, <2>2 DEF Follows, A!NextWord
<1>11. ASSUME NEW n \in A!Named(A!Long(A!Option)), ~A!HasInline, A!TakeNext(n, t)
       PROVE  Follows(x)
  <2>1. n \in A!Long(A!Option) /\ NameOf(w) = <<n>> /\ Signs(w) = {}
    BY <1>6, <1>7, <1>11
  <2>2. /\ t = << >> => Missing(words, x)
        /\ t # << >> /\ ~Readable(Head(t)) => Reads(words, x, "done", t, rest, options_done, a_cli, "panic")
        /\ t # << >> /\ Readable(Head(t)) =>
             Reads(words, x, "word", Tail(t), rest, options_done, A!WithValue(a_cli, n, Head(t)), "none")
    BY <1>2, <1>4, <2>1, LongReadsNext
  <2>3. CASE t = << >>
    BY <1>11, <2>2, <2>3 DEF Follows, A!TakeNext, A!End
  <2>4. CASE t # << >> /\ ~Readable(Head(t))
    <3>1. a_pc' = "done" /\ a_status' = "panic" /\ a_cli' = a_cli
      BY <1>11, <2>4 DEF A!TakeNext, A!End, Readable
    <3>2. Reads(words, x, "done", args', rest', options_done', a_cli, "panic")
      BY <2>2, <2>4, DoneAny
    <3> QED
      BY <3>1, <3>2 DEF Follows
  <2>5. CASE t # << >> /\ Readable(Head(t))
    <3>1. /\ a_pc' = "word" /\ a_status' = "none" /\ a_cli' = A!WithValue(a_cli, n, Head(t))
          /\ args' = Tail(t)
      BY <1>3, <1>11, <2>5 DEF A!TakeNext, A!NextWord, Readable
    <3> QED
      BY <1>8, <2>2, <2>5, <3>1 DEF Follows
  <2> QED
    BY <2>3, <2>4, <2>5
<1>12. ASSUME NEW n \in A!Named(A!Long(A!Stop)), A!End(n) /\ UNCHANGED <<a_cli, args>>
       PROVE  Follows(x)
  <2>1. n \in A!Long(A!Stop) /\ NameOf(w) = <<n>>
    BY <1>7
  <2>2. Reads(words, x, "done", args, rest, options_done, a_cli, n)
    BY <1>4, <2>1, LongReadsWord
  <2> QED
    BY <1>8, <1>12, <2>2 DEF Follows, A!End
<1>13. ASSUME A!Named(A!Long(A!Flag) \cup A!Long(A!Option) \cup A!Long(A!Stop)) = {},
              A!End("usage") /\ UNCHANGED <<a_cli, args>>
       PROVE  Follows(x)
  <2>1. ~Spells(A!Long(A!Flag) \cup A!Long(A!Option) \cup A!Long(A!Stop), w)
    BY <1>7, <1>13 DEF Spells
  <2>2. Reads(words, x, "done", args, rest, options_done, a_cli, "usage")
    BY <1>4, <2>1, LongReadsUnknown
  <2> QED
    BY <1>8, <1>13, <2>2 DEF Follows, A!End
<1> QED
  BY <1>2, <1>9, <1>10, <1>11, <1>12, <1>13 DEF A!LongOption, WithFlag

LEMMA ClusterEndFollows ==
  ASSUME words \in Seq(Words), NEW x, Stand(x), A!ClusterEnd
  PROVE  Follows(x)
<1>1. a_pc = "cluster" /\ rest = << >>
  BY DEF A!ClusterEnd
<1>2. Stands(words, x, "cluster", args, rest, options_done, a_cli, "none") /\ a_status = "none"
  BY <1>1, StandOpen
<1>3. \A s : Reads(words, x, "word", args, s, options_done, a_cli, "none")
  BY <1>1, <1>2, LetterReadsEnd
<1>4. /\ a_pc' = "word" /\ a_status' = "none" /\ args' = args /\ rest' = rest
      /\ options_done' = options_done /\ a_cli' = a_cli
  BY <1>2 DEF A!ClusterEnd, A!NextWord
<1> QED
  BY <1>3, <1>4 DEF Follows

LEMMA LetterFollows ==
  ASSUME words \in Seq(Words), NEW x, Stand(x), A!TakeLetter
  PROVE  Follows(x)
<1>1. PICK h : h = Head(rest)
  OBVIOUS
<1>2. a_pc = "cluster" /\ rest # << >> /\ h \notin DOMAIN A!Option
  BY <1>1 DEF A!TakeLetter, A!AtLetter
<1>3. Stands(words, x, "cluster", args, rest, options_done, a_cli, "none") /\ a_status = "none"
  BY <1>2, StandOpen
<1>4. /\ h \in DOMAIN A!Flag =>
           Reads(words, x, "cluster", args, Tail(rest), options_done, WithFlag(a_cli, A!Flag[h]), "none")
      /\ h \in DOMAIN A!Stop => Reads(words, x, "done", args, rest, options_done, a_cli, A!Stop[h])
      /\ h \notin DOMAIN A!Flag \cup DOMAIN A!Stop =>
           Reads(words, x, "done", args, rest, options_done, a_cli, "usage")
  BY <1>1, <1>2, <1>3, LetterReads
<1>5. args' = args /\ options_done' = options_done
  BY DEF A!TakeLetter
<1>6. CASE h \in DOMAIN A!Flag /\ a_cli' = WithFlag(a_cli, A!Flag[h]) /\ A!NextLetter
  BY <1>2, <1>3, <1>4, <1>5, <1>6 DEF Follows, A!NextLetter
<1>7. CASE h \in DOMAIN A!Stop /\ A!End(A!Stop[h]) /\ UNCHANGED <<a_cli, rest>>
  BY <1>4, <1>5, <1>7 DEF Follows, A!End
<1>8. CASE h \notin DOMAIN A!Flag \cup DOMAIN A!Stop /\ A!End("usage") /\ UNCHANGED <<a_cli, rest>>
  BY <1>4, <1>5, <1>8 DEF Follows, A!End
<1> QED
  BY <1>1, <1>6, <1>7, <1>8 DEF A!TakeLetter, WithFlag

LEMMA JoinedFollows ==
  ASSUME words \in Seq(Words), NEW x, Stand(x), A!TakeJoined
  PROVE  Follows(x)
<1>1. PICK h, o : h = Head(rest) /\ o = A!Option[h]
  OBVIOUS
<1>2. a_pc = "cluster" /\ rest # << >> /\ h \in DOMAIN A!Option
  BY <1>1 DEF A!TakeJoined, A!AtLetter
<1>3. Stands(words, x, "cluster", args, rest, options_done, a_cli, "none") /\ a_status = "none"
  BY <1>2, StandOpen
<1>4. /\ Len(rest) > 1 =>
           \A s : Reads(words, x, "word", args, s, options_done, A!WithValue(a_cli, o, Tail(rest)), "none")
      /\ ~(Len(rest) > 1) /\ args = << >> => Missing(words, x)
      /\ ~(Len(rest) > 1) /\ args # << >> /\ ~Readable(Head(args)) =>
           \A s : Reads(words, x, "done", args, s, options_done, a_cli, "panic")
      /\ ~(Len(rest) > 1) /\ args # << >> /\ Readable(Head(args)) =>
           \A s : Reads(words, x, "word", Tail(args), s, options_done, A!WithValue(a_cli, o, Head(args)), "none")
  BY <1>1, <1>2, <1>3, LetterReadsJoined
<1>5. options_done' = options_done
  BY DEF A!TakeJoined
<1>6. CASE Len(rest) > 1
  <2>1. a_cli' = A!WithValue(a_cli, o, Tail(rest)) /\ A!NextWord /\ args' = args
    BY <1>1, <1>6 DEF A!TakeJoined
  <2> QED
    BY <1>3, <1>4, <1>5, <1>6, <2>1 DEF Follows, A!NextWord
<1>7. CASE ~(Len(rest) > 1)
  <2>1. A!TakeNext(o, args)
    BY <1>1, <1>7 DEF A!TakeJoined
  <2>2. CASE args = << >>
    BY <1>4, <1>7, <2>1, <2>2 DEF Follows, A!TakeNext, A!End
  <2>3. CASE args # << >> /\ ~Readable(Head(args))
    <3>1. a_pc' = "done" /\ a_status' = "panic" /\ a_cli' = a_cli /\ args' = args
      BY <2>1, <2>3 DEF A!TakeNext, A!End, Readable
    <3> QED
      BY <1>4, <1>5, <1>7, <2>3, <3>1 DEF Follows
  <2>4. CASE args # << >> /\ Readable(Head(args))
    <3>1. /\ a_pc' = "word" /\ a_status' = "none" /\ a_cli' = A!WithValue(a_cli, o, Head(args))
          /\ args' = Tail(args)
      BY <1>3, <2>1, <2>4 DEF A!TakeNext, A!NextWord, Readable
    <3> QED
      BY <1>4, <1>5, <1>7, <2>4, <3>1 DEF Follows
  <2> QED
    BY <2>2, <2>3, <2>4
<1> QED
  BY <1>6, <1>7

-----------------------------------------------------------------------------
(* What the program understands                                              *)

\* Where the reading of everything that was typed ends.
Settled(ws, mt, f) ==
  \/ mt.stop # "none" /\ f.status = mt.stop
  \/ /\ mt.stop = "none" /\ f.word = Len(ws) + 1 /\ f.letter = 0
     /\ f.status = "none" /\ f.cli = mt.cli
  \/ mt.stop = "usage" /\ Missing(ws, f)

\* The program is on the way from the beginning to there.
OnTheWay(x, f) == Stand(x) /\ LeadsTo(words, Len(words), x, f) /\ Settled(words, meant, f)

Parsing ==
  /\ Typed /\ a_cli \in Understandings /\ args \in Seq(Words)
  /\ \/ a_pc = "typing" /\ a_status = "none" /\ a_cli = A!NoCli /\ options_done = FALSE
     \/ a_pc \in {"word", "cluster"} /\ a_status = "none" /\ \E x, f : OnTheWay(x, f)
     \/ a_pc = "done" /\ a_status = A!Expected /\ (a_status = "run" => a_cli = meant.cli)

LEMMA SettledStops ==
  ASSUME NEW ws \in Seq(Words), NEW mt, NEW f, Settled(ws, mt, f)
  PROVE  ~GoesOn(ws, Len(ws), f)
<1>1. PICK n : n = Len(ws)
  OBVIOUS
<1>2. n \in Nat
  BY <1>1, LenProperties
<1>3. CASE mt.stop # "none" /\ f.status = mt.stop
  BY <1>3 DEF GoesOn
<1>4. CASE f.word = n + 1
  BY <1>1, <1>2, <1>4 DEF GoesOn
<1>5. CASE Missing(ws, f)
  <2>1. f.word = n /\ ~(n < n)
    BY <1>1, <1>2, <1>5 DEF Missing
  <2> QED
    BY <1>1, <1>2, <1>5, <2>1 DEF Missing, GoesOn
<1> QED
  BY <1>1, <1>3, <1>4, <1>5 DEF Settled

\* What was typed leads from the beginning to the end of the words.
LEMMA TypedSettles ==
  ASSUME NEW ws, NEW b, NEW d, NEW mt, NEW it, TypedAs(ws, b, d, mt, it)
  PROVE  \E f : LeadsTo(ws, Len(ws), Beginning, f) /\ Settled(ws, mt, f)
<1>1. ws \in Seq(Words) /\ b \in BOOLEAN /\ (b => Len(ws) > 0)
  BY DEF TypedAs
<1>2. PICK g : Reached(ws, Fixed(ws, b), g) /\ Heard(ws, b, d, mt, it, g)
  BY DEF TypedAs
<1>3. PICK n : n = Len(ws)
  OBVIOUS
<1>4. n \in Nat /\ (b => n > 0)
  BY <1>1, <1>3, LenProperties
<1>5. Reached(ws, n, g)
  <2>1. PICK m : m = Fixed(ws, b)
    OBVIOUS
  <2>2. m \in Nat /\ m <= n
    BY <1>1, <1>3, <1>4, <2>1 DEF Fixed
  <2>3. \A i \in 1..n : Len(ws[i]) \in Nat
    BY <1>1, <1>3, ElementOfSeq, LenProperties DEF Words
  <2>4. \A i \in m + 1..n : i \in 1..n
    BY <1>4, <2>2
  <2>5. \A i \in m + 1..n : Len(ws[i]) <= Len(ws[i])
    BY <2>3, <2>4
  <2>6. Grown(ws, m, ws, n)
    BY <1>3, <1>4, <2>2, <2>5 DEF Grown
  <2> QED
    BY <1>1, <1>2, <2>1, <2>6, LeadsGrown DEF Reached
<1>6. CASE mt.stop # "none" /\ g.status = mt.stop
  BY <1>3, <1>5, <1>6 DEF Settled, Reached
<1>7. CASE mt.stop = "none" /\ g = EndOf(ws, b, d, mt.cli)
  <2>1. PICK f : f = At(n + 1, 0, d, mt.cli, "none")
    OBVIOUS
  <2>2. Reached(ws, n, f)
    <3>1. CASE ~b
      BY <1>3, <1>5, <1>7, <2>1, <3>1 DEF EndOf
    <3>2. CASE b
      <4>1. g = At(n, Len(ws[n]) + 1, d, mt.cli, "none")
        BY <1>3, <1>7, <3>2 DEF EndOf
      <4>2. n \in 0..Len(ws) /\ n \in 1..n
        BY <1>3, <1>4, <3>2
      <4> QED
        BY <1>1, <1>5, <2>1, <4>1, <4>2, ClusterEnds
    <3> QED
      BY <3>1, <3>2
  <2>3. f.word = n + 1 /\ f.letter = 0 /\ f.status = "none" /\ f.cli = mt.cli
    BY <2>1, AtIs
  <2> QED
    BY <1>3, <1>7, <2>2, <2>3 DEF Settled, Reached
<1>8. CASE mt.stop = "usage" /\ Missing(ws, g)
  BY <1>3, <1>5, <1>8 DEF Settled, Reached
<1> QED
  BY <1>2, <1>6, <1>7, <1>8 DEF Heard

LEMMA ParsingBegins ==
  ASSUME A!Init
  PROVE  Parsing
<1>1. A!NoCli \in Understandings
  <2>1. << >> \in Seq(Words)
    BY EmptySeq
  <2> QED
    BY <2>1 DEF A!NoCli, Understandings
<1>2. words = << >> /\ words \in Seq(Words) /\ args \in Seq(Words) /\ Len(words) = 0
  BY EmptySeq DEF A!Init
<1>3. meant \in Meanings /\ meant.stop = "none" /\ meant.cli = A!NoCli
  BY <1>1 DEF A!Init, Meanings
<1>4. TypedAs(words, bundle, closed, meant, items)
  <2>1. PICK ws, b, d, mt, it : ws = words /\ b = bundle /\ d = closed /\ mt = meant /\ it = items
    OBVIOUS
  <2>2. b = FALSE /\ d = FALSE /\ b \in BOOLEAN /\ d \in BOOLEAN
    BY <2>1 DEF A!Init
  <2>3. Reached(ws, Fixed(ws, b), Beginning)
    BY LeadsBegin DEF Reached
  <2>4. Beginning = EndOf(ws, b, d, mt.cli)
    <3>1. PICK k : k = Len(ws) + 1
      OBVIOUS
    <3>2. k = 1 /\ mt.cli = A!NoCli
      BY <1>2, <1>3, <2>1, <3>1
    <3>3. EndOf(ws, b, d, mt.cli) = At(k, 0, d, mt.cli, "none")
      BY <2>2, <3>1 DEF EndOf
    <3>4. At(k, 0, d, mt.cli, "none") = At(1, 0, FALSE, A!NoCli, "none")
      BY <2>2, <3>2
    <3> QED
      BY <3>3, <3>4 DEF Beginning
  <2>5. Heard(ws, b, d, mt, it, Beginning)
    BY <1>3, <2>1, <2>4 DEF Heard
  <2>6. TypedAs(ws, b, d, mt, it)
    BY <1>2, <1>3, <2>1, <2>2, <2>3, <2>5 DEF TypedAs
  <2> QED
    BY <2>1, <2>6
<1>5. items \in Nat
  BY DEF A!Init
<1> QED
  BY <1>1, <1>2, <1>4, <1>5 DEF A!Init, Parsing, Typed

\* One step further on the way.
LEMMA WayFollows ==
  ASSUME words \in Seq(Words), NEW x, NEW f, OnTheWay(x, f), UNCHANGED <<words, meant>>,
         Reads(words, x, a_pc', args', rest', options_done', a_cli', a_status')
  PROVE  /\ a_status' = "none" => a_pc' \in {"word", "cluster"} /\ (\E y, g : OnTheWay(y, g))'
         /\ a_status' # "none" => a_pc' = "done" /\ meant.stop # "none" /\ a_status' = meant.stop
<1>1. PICK ws, mt : ws = words /\ mt = meant
  OBVIOUS
<1>2. PICK y : y = After(ws, x)
  OBVIOUS
<1>3. /\ GoesOn(ws, Len(ws), x)
      /\ Stands(ws, y, a_pc', args', rest', options_done', a_cli', a_status')
  BY <1>1, <1>2 DEF Reads
<1>4. LeadsTo(ws, Len(ws), x, f) /\ Settled(ws, mt, f)
  BY <1>1 DEF OnTheWay
<1>5. f # x
  BY <1>1, <1>3, <1>4, SettledStops
<1>6. LeadsTo(ws, Len(ws), y, f)
  BY <1>2, <1>3, <1>4, <1>5, LeadsNext
<1>7. ASSUME a_status' = "none"
      PROVE  a_pc' \in {"word", "cluster"} /\ (\E z, g : OnTheWay(z, g))'
  <2>1. a_pc' \in {"word", "cluster"}
    BY <1>3, <1>7 DEF Stands
  <2>2. words' = ws /\ meant' = mt
    BY <1>1
  <2>3. Stand(y)'
    BY <1>3, <2>2 DEF Stand
  <2>4. OnTheWay(y, f)'
    BY <1>4, <1>6, <2>2, <2>3 DEF OnTheWay
  <2> QED
    BY <2>1, <2>4
<1>8. ASSUME a_status' # "none"
      PROVE  a_pc' = "done" /\ mt.stop # "none" /\ a_status' = mt.stop
  <2>1. a_pc' = "done" /\ y.status = a_status'
    BY <1>3, <1>8 DEF Stands
  <2>2. ~GoesOn(ws, Len(ws), y)
    BY <1>8, <2>1 DEF GoesOn
  <2>3. f = y
    BY <1>6, <2>2, LeadsNowhere
  <2> QED
    BY <1>4, <1>8, <2>1, <2>3 DEF Settled, Missing
<1> QED
  BY <1>1, <1>7, <1>8

LEMMA FollowsParsing ==
  ASSUME Typed, a_cli \in Understandings, NEW x, NEW f, OnTheWay(x, f), Follows(x),
         UNCHANGED <<items, words, bundle, closed, meant>>, args' \in Seq(Words)
  PROVE  Parsing'
<1>1. words \in Seq(Words) /\ Typed'
  BY DEF Typed, TypedAs
<1>2. CASE Reads(words, x, a_pc', args', rest', options_done', a_cli', a_status')
  <2>1. a_cli' \in Understandings
    <3>1. GoesOn(words, Len(words), x) /\ After(words, x).cli = a_cli' /\ x.cli = a_cli
      BY <1>2 DEF Reads, OnTheWay, Stand, Stands
    <3> QED
      BY <1>1, <3>1, AfterTyped
  <2>2. /\ a_status' = "none" => a_pc' \in {"word", "cluster"} /\ (\E y, g : OnTheWay(y, g))'
        /\ a_status' # "none" => a_pc' = "done" /\ meant.stop # "none" /\ a_status' = meant.stop
    BY <1>1, <1>2, WayFollows
  <2>3. CASE a_status' = "none"
    BY <1>1, <2>1, <2>2, <2>3 DEF Parsing
  <2>4. CASE a_status' # "none"
    <3>1. meant' = meant /\ meant.stop # "run"
      BY <1>1 DEF Typed, TypedAs, Meanings
    <3>2. (A!Expected)' = meant.stop
      BY <2>2, <2>4, <3>1 DEF A!Expected
    <3> QED
      BY <1>1, <2>1, <2>2, <2>4, <3>1, <3>2 DEF Parsing
  <2> QED
    BY <2>3, <2>4
<1>3. CASE Missing(words, x) /\ a_pc' = "done" /\ a_status' = "usage" /\ a_cli' = a_cli
  <2>1. PICK ws, mt, n : ws = words /\ mt = meant /\ n = Len(ws)
    OBVIOUS
  <2>2. n \in Nat
    BY <1>1, <2>1, LenProperties
  <2>3. x.status = "none" /\ x.word = n /\ ~(n < n) /\ n # n + 1
    BY <1>3, <2>1, <2>2 DEF Missing
  <2>4. ~GoesOn(ws, n, x)
    BY <1>3, <2>1, <2>2, <2>3 DEF Missing, GoesOn
  <2>5. LeadsTo(ws, n, x, f) /\ Settled(ws, mt, f)
    BY <2>1 DEF OnTheWay
  <2>6. f = x
    BY <2>4, <2>5, LeadsNowhere
  <2>7. mt.stop = "usage"
    BY <2>1, <2>3, <2>5, <2>6 DEF Settled
  <2>8. (A!Expected)' = "usage"
    BY <2>1, <2>7 DEF A!Expected
  <2> QED
    BY <1>1, <1>3, <2>8 DEF Parsing
<1> QED
  BY <1>2, <1>3 DEF Follows

LEMMA FinishParsing ==
  ASSUME Parsing, A!Finish
  PROVE  Parsing'
<1>1. words \in Seq(Words) /\ a_pc = "word" /\ args = << >>
  BY DEF A!Finish, Parsing, Typed, TypedAs, Meanings
<1>2. PICK x, f : OnTheWay(x, f)
  BY <1>1 DEF Parsing
<1>3. PICK ws, mt, n, k : ws = words /\ mt = meant /\ n = Len(ws) /\ k = x.word
  OBVIOUS
<1>4. n \in Nat
  BY <1>1, <1>3, LenProperties
<1>5. /\ k \in 1..n + 1 /\ RestOf(ws, k) = << >>
      /\ x.letter = 0 /\ x.status = "none" /\ x.cli = a_cli
  <2>1. Stands(words, x, "word", args, rest, options_done, a_cli, "none")
    BY <1>1, <1>2, StandOpen DEF OnTheWay
  <2> QED
    BY <1>1, <1>3, <2>1 DEF Stands, InFront
<1>6. k = n + 1
  <2>1. k \in 1..n => RestOf(ws, k) # << >>
    BY <1>1, <1>3, RestFacts
  <2> QED
    BY <1>4, <1>5, <2>1
<1>7. ~GoesOn(ws, n, x)
  BY <1>3, <1>4, <1>6 DEF GoesOn
<1>8. LeadsTo(ws, n, x, f) /\ Settled(ws, mt, f)
  BY <1>2, <1>3 DEF OnTheWay
<1>9. f = x
  BY <1>7, <1>8, LeadsNowhere
<1>10. mt.stop = "none" /\ a_cli = mt.cli
  <2>1. ~Missing(ws, x)
    BY <1>3, <1>4, <1>6 DEF Missing
  <2> QED
    BY <1>5, <1>8, <1>9, <2>1 DEF Settled
<1>11. /\ UNCHANGED <<items, words, bundle, closed, meant, args, a_cli>> /\ a_pc' = "done"
       /\ a_status' = IF a_cli.positional = << >> THEN "usage" ELSE "run"
  BY DEF A!Finish, A!End, A!user
<1>12. Typed'
  BY <1>11 DEF Parsing, Typed
<1>13. a_status' = (A!Expected)'
  BY <1>3, <1>10, <1>11 DEF A!Expected
<1>14. a_cli' = meant'.cli
  BY <1>3, <1>10, <1>11
<1> QED
  BY <1>11, <1>12, <1>13, <1>14 DEF Parsing

LEMMA StartParsing ==
  ASSUME Parsing, A!Start
  PROVE  Parsing'
<1>1. /\ Typed /\ words \in Seq(Words) /\ a_cli = A!NoCli /\ a_cli \in Understandings
      /\ options_done = FALSE /\ a_status = "none"
  BY DEF A!Start, Parsing, Typed, TypedAs
<1>2. /\ UNCHANGED <<items, words, bundle, closed, meant, rest, options_done, a_cli, a_status>>
      /\ a_pc' = "word" /\ args' = words
  BY DEF A!Start, A!user
<1>3. PICK ws, mt : ws = words /\ mt = meant
  OBVIOUS
<1>4. PICK f : LeadsTo(ws, Len(ws), Beginning, f) /\ Settled(ws, mt, f)
  BY <1>1, <1>3, TypedSettles DEF Typed
<1>5. PICK x : x = Beginning
  OBVIOUS
<1>6. x.word = 1 /\ x.letter = 0 /\ x.ended = FALSE /\ x.cli = A!NoCli /\ x.status = "none"
  BY <1>5 DEF At, Beginning
<1>7. InFront(ws, x, ws)
  <2>1. Len(ws) \in Nat /\ RestOf(ws, 1) = ws
    BY <1>1, <1>3, LenProperties, RestEnds
  <2> QED
    BY <1>6, <2>1 DEF InFront
<1>8. \A r : Stands(ws, x, "word", ws, r, FALSE, A!NoCli, "none")
  BY <1>6, <1>7 DEF Stands
<1>9. Stand(x)'
  BY <1>1, <1>2, <1>3, <1>8 DEF Stand
<1>10. OnTheWay(x, f)'
  BY <1>2, <1>3, <1>4, <1>5, <1>9 DEF OnTheWay
<1>11. Typed'
  BY <1>1, <1>2 DEF Typed
<1> QED
  BY <1>1, <1>2, <1>10, <1>11 DEF Parsing

\* Every action of the program that reads a word or a letter.
Readings ==
  \/ A!Panic \/ A!TakePositional \/ A!OptionsEnd \/ A!LongOption
  \/ A!Cluster \/ A!TakeLetter \/ A!TakeJoined \/ A!ClusterEnd

LEMMA ReadingsTyped ==
  ASSUME args \in Seq(Words), Readings
  PROVE  /\ a_pc \in {"word", "cluster"} /\ args' \in Seq(Words)
         /\ UNCHANGED <<items, words, bundle, closed, meant>>
<1>1. \A s \in Seq(Words) : s # << >> => Tail(s) \in Seq(Words)
  BY HeadTailProperties
<1>2. ASSUME NEW o, NEW s \in Seq(Words), A!TakeNext(o, s) PROVE args' = args \/ args' \in Seq(Words)
  BY <1>1, <1>2 DEF A!TakeNext
<1>3. CASE A!Panic
  BY <1>3 DEF A!Panic, A!user
<1>4. CASE A!TakePositional
  BY <1>1, <1>4 DEF A!TakePositional, A!AtWord, A!user
<1>5. CASE A!OptionsEnd
  BY <1>1, <1>5 DEF A!OptionsEnd, A!AtWord, A!user
<1>6. CASE A!LongOption
  <2>1. a_pc = "word" /\ args # << >> /\ UNCHANGED <<items, words, bundle, closed, meant>>
    BY <1>6 DEF A!LongOption, A!AtWord, A!user
  <2>2. Tail(args) \in Seq(Words)
    BY <1>1, <2>1
  <2>3. args' = Tail(args) \/ (\E n : A!TakeNext(n, Tail(args))) \/ args' = args
    BY <1>6 DEF A!LongOption
  <2>4. args' \in Seq(Words)
    BY <1>2, <2>2, <2>3
  <2> QED
    BY <2>1, <2>4
<1>7. CASE A!Cluster
  BY <1>1, <1>7 DEF A!Cluster, A!AtWord, A!user
<1>8. CASE A!TakeLetter
  BY <1>8 DEF A!TakeLetter, A!AtLetter, A!user
<1>9. CASE A!TakeJoined
  <2>1. a_pc = "cluster" /\ UNCHANGED <<items, words, bundle, closed, meant>>
    BY <1>9 DEF A!TakeJoined, A!AtLetter, A!user
  <2>2. args' = args \/ \E n : A!TakeNext(n, args)
    BY <1>9 DEF A!TakeJoined
  <2>3. args' \in Seq(Words)
    BY <1>2, <2>2
  <2> QED
    BY <2>1, <2>3
<1>10. CASE A!ClusterEnd
  BY <1>10 DEF A!ClusterEnd, A!user
<1> QED
  BY <1>3, <1>4, <1>5, <1>6, <1>7, <1>8, <1>9, <1>10 DEF Readings

LEMMA ReadingsParsing ==
  ASSUME Parsing, Readings
  PROVE  Parsing'
<1>1. Typed /\ words \in Seq(Words) /\ args \in Seq(Words) /\ a_cli \in Understandings
  BY DEF Parsing, Typed, TypedAs
<1>2. a_pc \in {"word", "cluster"} /\ args' \in Seq(Words)
      /\ UNCHANGED <<items, words, bundle, closed, meant>>
  BY <1>1, ReadingsTyped
<1>3. PICK x, f : OnTheWay(x, f)
  BY <1>2 DEF Parsing
<1>4. Stand(x)
  BY <1>3 DEF OnTheWay
<1>5. Follows(x)
  BY <1>1, <1>4, PanicFollows, PositionalFollows, OptionsEndFollows, LongFollows, ClusterFollows,
     LetterFollows, JoinedFollows, ClusterEndFollows DEF Readings
<1> QED
  BY <1>1, <1>2, <1>3, <1>5, FollowsParsing

LEMMA UserParsing ==
  ASSUME Parsing, A!User
  PROVE  Parsing'
<1>1. a_pc = "typing" /\ UNCHANGED <<a_pc, args, rest, options_done, a_cli, a_status>>
  <2>1. A!Typing
    BY DEF A!User, A!TypeFlag, A!TypeStop, A!TypeDangling, A!TypeOption, A!TypeOperand,
           A!TypeUnknown, A!TypeEndOfOptions, A!Single, A!TypingOption
  <2> QED
    BY <2>1 DEF A!Typing
<1>2. Typed'
  BY UserStep DEF Parsing
<1> QED
  BY <1>1, <1>2 DEF Parsing

LEMMA ParsingStep ==
  ASSUME Parsing, [A!Next \/ A!Done]_A!vars
  PROVE  Parsing'
<1>1. CASE A!User
  BY <1>1, UserParsing
<1>2. CASE A!Start
  BY <1>2, StartParsing
<1>3. CASE Readings
  BY <1>3, ReadingsParsing
<1>4. CASE A!Finish
  BY <1>4, FinishParsing
<1>5. CASE UNCHANGED A!vars
  <2>1. UNCHANGED <<items, words, bundle, closed, meant, a_pc, args, rest, options_done, a_cli, a_status>>
    BY <1>5 DEF A!vars, A!user
  <2>2. (A!Expected)' = A!Expected
    BY <2>1 DEF A!Expected
  <2>3. \A x, f : OnTheWay(x, f) => OnTheWay(x, f)'
    BY <2>1 DEF OnTheWay, Stand
  <2>4. Typed => Typed'
    BY <2>1 DEF Typed
  <2> QED
    BY <2>1, <2>2, <2>3, <2>4 DEF Parsing
<1> QED
  BY <1>1, <1>2, <1>3, <1>4, <1>5 DEF A!Next, A!Program, A!Done, Readings

LEMMA ParsingShows ==
  ASSUME Parsing
  PROVE  ParsesWhatWasMeant
<1>1. meant \in Meanings /\ a_cli \in Understandings /\ args \in Seq(Words)
  BY DEF Parsing, Typed, TypedAs
<1>2. ASSUME NEW c \in Understandings PROVE A!IsCli(c)
  <2>1. \A k \in 1..Len(c.positional) : c.positional[k] \in Words
    BY ElementOfSeq DEF Understandings
  <2> QED
    BY <2>1 DEF A!IsCli, A!IsWord, Understandings, Words
<1>3. A!IsCli(a_cli) /\ A!IsCli(meant.cli)
  BY <1>1, <1>2 DEF Meanings
<1>4. \A k \in 1..Len(args) : A!IsWord(args[k])
  BY <1>1, ElementOfSeq DEF A!IsWord, Words
<1>5. A!Expected \in {"run", "help", "version", "usage", "panic"}
  BY <1>1 DEF A!Expected, Meanings
<1>6. /\ a_pc \in {"typing", "word", "cluster", "done"}
      /\ a_pc # "done" => a_status = "none"
      /\ a_pc = "done" => a_status = A!Expected /\ (a_status = "run" => a_cli = meant.cli)
  BY DEF Parsing
<1>7. A!TypeOK
  BY <1>3, <1>4, <1>5, <1>6 DEF A!TypeOK
<1>8. A!ParsesWhatWasMeant
  BY <1>6 DEF A!ParsesWhatWasMeant
<1> QED
  BY <1>7, <1>8 DEF ParsesWhatWasMeant

\* Whatever is typed, in whatever form and order, parse_args runs with what the
\* manual page says it means, or stops for what comes first.
THEOREM ArgumentsAreUnderstood == A!Spec => []ParsesWhatWasMeant
<1>1. A!Init => Parsing
  BY ParsingBegins
<1>2. Parsing /\ [A!Next \/ A!Done]_A!vars => Parsing'
  BY ParsingStep
<1>3. Parsing => ParsesWhatWasMeant
  BY ParsingShows
<1> QED
  BY <1>1, <1>2, <1>3, PTL DEF A!Spec
=============================================================================
