------------------------------ MODULE Program ------------------------------
(***************************************************************************)
(* What surrounds the extraction, as four machines: Session, CommandLine,   *)
(* Names and FileTimes.  They share no state: parse_args is over before run *)
(* begins, and what it understood is an input of Session; names and times   *)
(* belong to one entry at a time.                                            *)
(***************************************************************************)
EXTENDS Session

CONSTANTS
  Chars,                                            \* of CommandLine and Names
  Values, NotUnicode, Letters, MaxItems,            \* of CommandLine
  RawNames, Patterns, Controls,                     \* of Names
  EPOCH_DIFF, TICKS_PER_SEC, MAX, TickDays, LastDay \* of FileTimes

VARIABLES
  items, words, bundle, closed, meant, a_pc, args, rest, options_done, a_cli, a_status,
  raw, n_pc, name, asked, selected, path,
  day, second, date, time

A == INSTANCE CommandLine WITH pc <- a_pc, cli <- a_cli, status <- a_status
N == INSTANCE Names WITH pc <- n_pc
T == INSTANCE FileTimes

ASSUME PartsAssumption ==
  A!CommandLineConstants /\ N!NamesConstants /\ T!TimesConstants

-----------------------------------------------------------------------------

\* parse_args runs with what the manual page says the words mean, or stops
\* with the exit status of what comes first.
ParsesWhatWasMeant == A!TypeOK /\ A!ParsesWhatWasMeant

\* A name leads down from the destination, through components that can stand
\* in a directory, and a FILE operand selects by whole components.
NamesAreSafe == N!TypeOK /\ N!NeverUp /\ N!SelectsByComponent

\* The date and the time of an entry are those of the calendar, and the time
\* does not change on its way through a FILETIME.
TimesAreRight == T!DateIsRight /\ T!TimeIsKept
=============================================================================
