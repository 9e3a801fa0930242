----------------------------- MODULE CommandLine -----------------------------
(***************************************************************************)
(* parse_args of src/src/main.rs and the exit of main for a usage error.    *)
(* A user types options and operands in any of the forms the manual page    *)
(* calls equivalent; then the program reads the words one by one.           *)
(*                                                                          *)
(* A word is a sequence of characters; the name of a long option is one     *)
(* character, and so is a byte that is not Unicode, which the standard      *)
(* library refuses when the word is its turn.                               *)
(***************************************************************************)
EXTENDS Integers, Sequences, SequencesExt

CONSTANTS
  Chars,      \* characters
  Values,     \* words that follow an option or stand for themselves
  NotUnicode, \* a character
  Letters,    \* options that are typed
  MaxItems,   \* options and operands a user types
  None

VARIABLES
  items,     \* how many were typed
  words,     \* what was typed
  bundle,    \* the last word consists of flags and can take another one
  closed,    \* "--" was typed
  meant,     \* what the manual page says the words mean
  pc,        \* "typing", "word", "cluster", "done"
  args,      \* words that were not read yet
  rest,      \* characters of a cluster that were not read yet
  options_done,
  cli,       \* what was understood so far
  status     \* "none", "run", "help", "version", "usage" or "panic"

user == <<items, words, bundle, closed, meant>>
vars == <<user, pc, args, rest, options_done, cli, status>>

Flag == [l |-> "list", p |-> "pipe", q |-> "quiet"]
Option == [d |-> "output-dir", P |-> "password"]
Stop == [h |-> "help", V |-> "version"]
Long(table) == {table[c] : c \in DOMAIN table}

\* What has a meaning is a character, and Unicode.
Symbols == {"-", "=", "x"} \cup DOMAIN Flag \cup DOMAIN Option \cup DOMAIN Stop
             \cup Long(Flag) \cup Long(Option) \cup Long(Stop)
CommandLineConstants ==
  /\ Symbols \subseteq Chars /\ NotUnicode \notin Symbols
  /\ Values \subseteq Seq(Chars) /\ MaxItems \in Nat

NoCli == [flags |-> {}, value |-> [o \in Long(Option) |-> None], positional |-> << >>]

Init ==
  /\ items = 0 /\ words = << >> /\ bundle = FALSE /\ closed = FALSE
  /\ meant = [cli |-> NoCli, stop |-> "none"]
  /\ pc = "typing" /\ args = << >> /\ rest = << >>
  /\ options_done = FALSE /\ cli = NoCli /\ status = "none"

-----------------------------------------------------------------------------
(* The user                                                                 *)

\* Nothing counts behind the word that ends the program.
Means(c) == meant' = IF meant.stop = "none" THEN [meant EXCEPT !.cli = c] ELSE meant
Stops(why) == meant' = IF meant.stop = "none" THEN [meant EXCEPT !.stop = why] ELSE meant
MeansWord(v, c) == IF NotUnicode \in ToSet(v) THEN Stops("panic") ELSE Means(c)

WithValue(c, o, v) == [c EXCEPT !.value[o] = v]
WithOperand(c, w) == [c EXCEPT !.positional = Append(@, w)]

Types(ws) == words' = words \o ws
\* A short option: a word of its own, or one more letter of the last word.
Letter(c) == \/ Types(<<<<"-", c>>>>)
             \/ bundle /\ words' = Front(words) \o <<Append(Last(words), c)>>
LetterWith(c, v) ==
  \/ Types(<<<<"-", c>>, v>>)
  \/ v # << >> /\ Types(<<<<"-", c>> \o v>>)
  \/ bundle /\ words' = Front(words) \o <<Append(Last(words), c), v>>
  \/ /\ bundle /\ v # << >> /\ NotUnicode \notin ToSet(v)
     /\ words' = Front(words) \o <<Append(Last(words), c) \o v>>

Typing ==
  /\ pc = "typing" /\ items < MaxItems
  /\ UNCHANGED <<pc, args, rest, options_done, cli, status>>
TypingOption == Typing /\ ~closed /\ closed' = closed

\* A letter of an option without argument, or its long form.
Single(c, name) ==
  /\ TypingOption /\ items' = items + 1
  /\ \/ Letter(c) /\ bundle' = TRUE
     \/ Types(<<<<"-", "-", name>>>>) /\ bundle' = FALSE

TypeFlag(c) == Single(c, Flag[c]) /\ Means([meant.cli EXCEPT !.flags = @ \cup {Flag[c]}])
TypeStop(c) == Single(c, Stop[c]) /\ Stops(Stop[c])
TypeUnknown == Single("x", "x") /\ Stops("usage")

TypeOption(c, v) ==
  /\ TypingOption /\ items' = items + 1 /\ bundle' = FALSE
  /\ LET name == <<"-", "-", Option[c]>> IN
       LetterWith(c, v) \/ Types(<<name, v>>) \/ Types(<<name \o <<"=">> \o v>>)
  /\ MeansWord(v, WithValue(meant.cli, Option[c], v))

\* The argument is missing, and nothing follows.
TypeDangling(c) ==
  /\ TypingOption /\ items' = MaxItems /\ bundle' = FALSE
  /\ Letter(c) \/ Types(<<<<"-", "-", Option[c]>>>>)
  /\ Stops("usage")

TypeOperand(v) ==
  /\ Typing /\ closed' = closed /\ items' = items + 1 /\ bundle' = FALSE
  /\ IsPrefix(<<"-">>, v) => closed \/ v = <<"-">>
  /\ Types(<<v>>)
  /\ MeansWord(v, WithOperand(meant.cli, v))

TypeEndOfOptions ==
  /\ Typing /\ ~closed /\ closed' = TRUE /\ items' = items + 1 /\ bundle' = FALSE
  /\ Types(<<<<"-", "-">>>>)
  /\ meant' = meant

User ==
  \/ \E c \in Letters \cap DOMAIN Flag : TypeFlag(c)
  \/ \E c \in Letters \cap DOMAIN Stop : TypeStop(c)
  \/ \E c \in Letters \cap DOMAIN Option : TypeDangling(c) \/ \E v \in Values : TypeOption(c, v)
  \/ \E v \in Values : TypeOperand(v)
  \/ TypeUnknown \/ TypeEndOfOptions

-----------------------------------------------------------------------------
(* The program                                                              *)

Start ==
  /\ pc = "typing"
  /\ pc' = "word" /\ args' = words
  /\ UNCHANGED <<user, rest, options_done, cli, status>>

EndUnset(why) == pc' = "done" /\ status' = status  \* mutant: no exit status
End(why) == pc' = "done" /\ status' = why
NextWord == pc' = "word" /\ status' = status

\* args.next(), which panics for a word that is not Unicode.
AtWord == pc = "word" /\ args # << >> /\ NotUnicode \notin ToSet(Head(args))
Word == Head(args)

Panic ==
  /\ pc = "word" /\ args # << >> /\ NotUnicode \in ToSet(Head(args))
  /\ End("panic")
  /\ UNCHANGED <<user, args, rest, options_done, cli>>

IsPositional == options_done \/ Word = <<"-">> \/ ~IsPrefix(<<"-">>, Word)

TakePositional ==
  /\ AtWord /\ IsPositional
  /\ cli' = WithOperand(cli, Word)
  /\ args' = Tail(args) /\ NextWord
  /\ UNCHANGED <<user, rest, options_done>>

OptionsEnd ==
  /\ AtWord /\ ~IsPositional /\ Word = <<"-", "-">>
  /\ options_done' = TRUE /\ args' = Tail(args) /\ NextWord
  /\ UNCHANGED <<user, rest, cli>>

\* The next word is the argument of an option: it is taken as it is.
TakeNext(o, left) ==
  IF left = << >> THEN End("usage") /\ UNCHANGED <<cli, args>>
  ELSE IF NotUnicode \in ToSet(Head(left)) THEN End("panic") /\ UNCHANGED <<cli, args>>
  ELSE cli' = WithValue(cli, o, Head(left)) /\ args' = Tail(left) /\ NextWord

\* split_once cuts at the first "=".
Equals == {k \in 3..Len(Word) : Word[k] = "="}
HasInline == Equals # {}
Cut == CHOOSE k \in Equals : \A j \in Equals : k <= j
Name == SubSeq(Word, 3, IF HasInline THEN Cut - 1 ELSE Len(Word))
Inline == SubSeq(Word, Cut + 1, Len(Word))
Named(set) == {n \in set : Name = <<n>>}

LongOption ==
  /\ AtWord /\ ~IsPositional /\ Len(Word) > 2 /\ Word[2] = "-"
  /\ \/ \E n \in Named(Long(Flag)) :
          cli' = [cli EXCEPT !.flags = @ \cup {n}] /\ args' = Tail(args) /\ NextWord
     \/ \E n \in Named(Long(Option)) :
          IF HasInline THEN cli' = WithValue(cli, n, Inline) /\ args' = Tail(args) /\ NextWord
                       ELSE TakeNext(n, Tail(args))
     \/ \E n \in Named(Long(Stop)) : End(n) /\ UNCHANGED <<cli, args>>
     \/ /\ Named(Long(Flag) \cup Long(Option) \cup Long(Stop)) = {}
        /\ End("usage") /\ UNCHANGED <<cli, args>>
  /\ UNCHANGED <<user, rest, options_done>>

Cluster ==
  /\ AtWord /\ ~IsPositional /\ Word[2] # "-"
  /\ rest' = Tail(Word) /\ args' = Tail(args)
  /\ pc' = "cluster"
  /\ UNCHANGED <<user, options_done, cli, status>>

AtLetter == pc = "cluster" /\ rest # << >>

NextLetter == rest' = Tail(rest) /\ UNCHANGED <<pc, status>>

TakeLetter ==
  /\ AtLetter /\ Head(rest) \notin DOMAIN Option
  /\ \/ /\ Head(rest) \in DOMAIN Flag
        /\ cli' = [cli EXCEPT !.flags = @ \cup {Flag[Head(rest)]}]
        /\ NextLetter
     \/ Head(rest) \in DOMAIN Stop /\ End(Stop[Head(rest)]) /\ UNCHANGED <<cli, rest>>
     \/ Head(rest) \notin DOMAIN Flag \cup DOMAIN Stop /\ End("usage") /\ UNCHANGED <<cli, rest>>
  /\ UNCHANGED <<user, args, options_done>>

\* The rest of the word is the argument, or else the next word.
TakeJoinedNever ==  \* mutant: the argument is always the next word
  /\ AtLetter /\ Head(rest) \in DOMAIN Option
  /\ TakeNext(Option[Head(rest)], args) /\ rest' = << >>
  /\ UNCHANGED <<user, options_done>>
TakeJoined ==
  /\ AtLetter /\ Head(rest) \in DOMAIN Option
  /\ IF Len(rest) > 1
       THEN cli' = WithValue(cli, Option[Head(rest)], Tail(rest)) /\ NextWord /\ UNCHANGED args
       ELSE TakeNext(Option[Head(rest)], args)
  /\ rest' = << >>
  /\ UNCHANGED <<user, options_done>>

ClusterEnd ==
  /\ pc = "cluster" /\ rest = << >>
  /\ NextWord
  /\ UNCHANGED <<user, args, rest, options_done, cli>>

\* main exits with 2 when there is no archive.
Finish ==
  /\ pc = "word" /\ args = << >>
  /\ End(IF cli.positional = << >> THEN "usage" ELSE "run")
  /\ UNCHANGED <<user, args, rest, options_done, cli>>

Program ==
  \/ Start \/ Panic \/ TakePositional \/ OptionsEnd \/ LongOption
  \/ Cluster \/ TakeLetter \/ TakeJoined \/ ClusterEnd \/ Finish

Next == User \/ Program

Done == pc = "done" /\ UNCHANGED vars

Spec == Init /\ [][Next \/ Done]_vars

-----------------------------------------------------------------------------

IsWord(w) == w \in Seq(Chars)

IsCli(c) ==
  /\ c.flags \subseteq Long(Flag)
  /\ \A o \in Long(Option) : c.value[o] = None \/ IsWord(c.value[o])
  /\ \A k \in 1..Len(c.positional) : IsWord(c.positional[k])

TypeOK ==
  /\ pc \in {"typing", "word", "cluster", "done"}
  /\ IsCli(cli) /\ IsCli(meant.cli)
  /\ \A k \in 1..Len(args) : IsWord(args[k])
  /\ status \in {"none", "run", "help", "version", "usage", "panic"}
  /\ (status = "none") = (pc # "done")

\* "Short options may be bundled", "An option that takes an argument accepts it
\* joined or separate, and long options accept it with `=` or as the next
\* argument" (the manual page): whatever the form and the order, the program
\* runs with what was meant, and stops for what comes first.
Expected ==
  IF meant.stop # "none" THEN meant.stop
  ELSE IF meant.cli.positional = << >> THEN "usage" ELSE "run"
ParsesWhatWasMeant ==
  pc = "done" => status = Expected /\ (status = "run" => cli = meant.cli)
=============================================================================
