------------------------------ MODULE MCProgram ------------------------------
(***************************************************************************)
(* Program for TLC: a behaviour runs one of its four machines.               *)
(***************************************************************************)
EXTENDS Program

CONSTANTS a, b  \* passwords

VARIABLE part

aVars == <<items, words, bundle, closed, meant, a_pc, args, rest, options_done, a_cli, a_status>>
nVars == <<raw, n_pc, name, asked, selected, path>>
tVars == <<day, second, date, time>>
allVars == <<part, vars, aVars, nVars, tVars>>

-----------------------------------------------------------------------------
(* Values: archives of up to two entries, every kind of call                *)

MCPasswords == {a, b}

Plain == [enc |-> "none", key |-> a, passes |-> {a}, footer |-> FALSE,
          keeps |-> TRUE, content |-> "data", lines |-> TRUE, rest |-> FALSE,
          wanted |-> TRUE]
Locked == [Plain EXCEPT !.enc = "known"]
Bare(e, content) == [e EXCEPT !.content = content, !.lines = FALSE]

Kinds ==
  {Plain,
   [Plain EXCEPT !.rest = TRUE],
   [Plain EXCEPT !.lines = FALSE, !.rest = TRUE],
   [Plain EXCEPT !.keeps = FALSE],
   [Plain EXCEPT !.wanted = FALSE],
   [Locked EXCEPT !.footer = TRUE, !.rest = TRUE],
   [Locked EXCEPT !.footer = TRUE, !.passes = {a, b}],
   [Locked EXCEPT !.passes = {a, b}],       \* one byte of ZipCrypto's header
   [Locked EXCEPT !.key = b, !.passes = {b}],
   [Locked EXCEPT !.wanted = FALSE],
   [Locked EXCEPT !.enc = "unknown"],
   [Locked EXCEPT !.enc = "short"],
   Bare(Plain, "lost"),                     \* and those no password is asked for
   Bare([Locked EXCEPT !.key = b, !.passes = {b}], "empty"),
   Bare([Locked EXCEPT !.enc = "unknown"], "directory")}

MCArchives == UNION {[1..n -> Kinds] : n \in 0..2}

Extractions ==
  [list : {FALSE}, pipe : BOOLEAN, quiet : {FALSE}, unmatched : BOOLEAN,
   password : {None} \cup MCPasswords]
MCClis ==
  Extractions \cup {[list |-> TRUE, pipe |-> FALSE, quiet |-> FALSE,
                     unmatched |-> FALSE, password |-> None]}

\* Words that look like what they are not.
MCValues == {<<"-", "l">>, << >>, <<"-">>, <<"=", "l">>, <<NotUnicode>>}

\* All names of up to four characters.
NameChars == {"a", "b", ".", "/", "\\", "NUL"}
MCRawNames == UNION {[1..n -> NameChars] : n \in 0..4}
MCChars ==
  NameChars \cup {"-", "=", "x", NotUnicode, "l", "p", "q", "d", "P", "h", "V"}
    \cup {"list", "pipe", "quiet", "output-dir", "password", "help", "version"}
MCPatterns == UNION {[1..n -> {"a", ".", "/"}] : n \in 1..3} \cup {<<"a", "/", "b", "/">>}

\* The day that passes second by second; the maximum of the ticks is reached on it.
MCTickDays == {0}

-----------------------------------------------------------------------------

\* A part that does not run stays at one of its initial states.
Inputs(p, set) == IF part = p THEN set ELSE {CHOOSE s \in set : TRUE}

AllInit ==
  /\ part \in {"session", "arguments", "names", "times"}
  /\ cli \in Inputs("session", Clis) /\ entries \in Inputs("session", Archives)
  /\ Init /\ A!Init
  /\ raw \in Inputs("names", RawNames) /\ N!Init
  /\ T!Init

Run       == part = "session" /\ Next /\ UNCHANGED <<part, aVars, nVars, tVars>>
Arguments == part = "arguments" /\ A!Next /\ UNCHANGED <<part, vars, nVars, tVars>>
Naming    == part = "names" /\ N!Next /\ UNCHANGED <<part, vars, aVars, tVars>>
Calendar  == part = "times" /\ T!Next /\ UNCHANGED <<part, vars, aVars, nVars>>

\* The calendar has no end of its own.
Ended ==
  /\ CASE part = "session"   -> Done
       [] part = "arguments" -> A!Done
       [] part = "names"     -> N!Done
       [] OTHER              -> TRUE
  /\ UNCHANGED allVars

AllNext == Run \/ Arguments \/ Naming \/ Calendar \/ Ended

AllSpec == AllInit /\ [][AllNext]_allVars
=============================================================================
