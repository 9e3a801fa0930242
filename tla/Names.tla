-------------------------------- MODULE Names --------------------------------
(***************************************************************************)
(* The name of an entry on its way from the archive to the disk:            *)
(* normalize_path of src/src/encoding.rs when it is parsed, matches_filter  *)
(* when FILE operands are given, safe_join of src/src/extract.rs when it is *)
(* extracted.  A name is a sequence of characters.  Path::components is     *)
(* external (Unix): it cuts at slashes and passes over what is empty, and   *)
(* over "." except in first place.                                          *)
(***************************************************************************)
EXTENDS Integers, Sequences, SequencesExt, FiniteSets

CONSTANTS
  Chars,     \* characters
  RawNames,  \* names as they are decoded
  Patterns,  \* FILE operands
  Controls   \* control characters

NamesConstants == "/" \in Chars /\ RawNames \cup Patterns \subseteq Seq(Chars)

VARIABLES
  raw,      \* never changes
  pc,       \* "parse", "select", "join", "joined", "refused"
  name,     \* file_name
  asked,    \* the FILE operand, << >> if there is none
  selected, \* should_extract
  path      \* components below the destination

vars == <<raw, pc, name, asked, selected, path>>

Init ==
  /\ raw \in RawNames /\ pc = "parse"
  /\ name = << >> /\ asked = << >> /\ selected = TRUE /\ path = << >>

-----------------------------------------------------------------------------

\* trim_start_matches and trim_end_matches of a slash.
From(s) == {k \in 1..Len(s) : s[k] # "/"}
TrimStart(s) == IF From(s) = {} THEN << >>
                ELSE SubSeq(s, CHOOSE k \in From(s) : \A j \in From(s) : k <= j, Len(s))
TrimEnd(s) == IF From(s) = {} THEN << >>
              ELSE SubSeq(s, 1, CHOOSE k \in From(s) : \A j \in From(s) : j <= k)

\* The numbers of a set in their order, and what a sequence holds at them.
Rank(k, S) == Cardinality({j \in S : j <= k})
Nth(S, i) == CHOOSE k \in S : Rank(k, S) = i
Kept(s, S) == [i \in 1..Cardinality(S) |-> s[Nth(S, i)]]

Slashed(s) == [k \in 1..Len(s) |-> IF s[k] = "\\" THEN "/" ELSE s[k]]
Printable(s) == Kept(s, {k \in 1..Len(s) : s[k] \notin Controls})

Normalized(s) == Printable(TrimStart(Slashed(s)))

\* parse_file_entry.
Parse ==
  /\ pc = "parse"
  /\ name' = Normalized(raw) /\ pc' = "select"
  /\ UNCHANGED <<raw, asked, selected, path>>

MatchesPrefix(n, pat) == IsPrefix(TrimEnd(pat), n)  \* mutant: any beginning
Matches(n, pat) ==
  LET p == TrimEnd(pat) IN n = p \/ IsPrefix(Append(p, "/"), n)

\* extract_files; without operands extract_all takes every entry.
Select(pat) ==
  /\ pc = "select"
  /\ asked' = pat /\ selected' = Matches(name, pat)
  /\ pc' = "join"
  /\ UNCHANGED <<raw, name, path>>

SelectAll ==
  /\ pc = "select" /\ pc' = "join"
  /\ UNCHANGED <<raw, name, asked, selected, path>>

\* The pieces between slashes.
Cuts(s) == {0, Len(s) + 1} \cup {k \in 1..Len(s) : s[k] = "/"}
Pieces(s) ==
  [k \in 1..Cardinality(Cuts(s)) - 1 |-> SubSeq(s, Nth(Cuts(s), k) + 1, Nth(Cuts(s), k + 1) - 1)]
Components(s) == Kept(Pieces(s), {k \in 1..Len(Pieces(s)) : Pieces(s)[k] \notin {<< >>, <<".">>}})
IsRooted(s) == IsPrefix(<<"/">>, s)
HasParent(s) == Contains(Components(s), <<".", ".">>)

\* safe_join: a name that leads up or starts at the root, then one without
\* any component.
RefusesRootOnly(n) == IsRooted(n) \/ Components(n) = << >>  \* mutant: ".." is a name
Refuses(n) == IsRooted(n) \/ HasParent(n) \/ Components(n) = << >>

ToJoinAll == pc = "join"  \* mutant: the filter is not asked
ToJoin == pc = "join" /\ selected

Join ==
  /\ ToJoin
  /\ IF Refuses(name) THEN pc' = "refused" /\ path' = path
                      ELSE pc' = "joined" /\ path' = Components(name)
  /\ UNCHANGED <<raw, name, asked, selected>>

Next == Parse \/ (\E pat \in Patterns : Select(pat)) \/ SelectAll \/ Join

Done == (pc \in {"joined", "refused"} \/ ~selected) /\ UNCHANGED vars

Spec == Init /\ [][Next \/ Done]_vars

-----------------------------------------------------------------------------

TypeOK ==
  /\ raw \in RawNames /\ asked \in Patterns \cup {<< >>}
  /\ pc \in {"parse", "select", "join", "joined", "refused"}
  /\ name \in Seq(Chars) /\ selected \in BOOLEAN
  /\ pc \in {"joined", "refused"} => selected
  /\ \A k \in 1..Len(path) : path[k] \in Seq(Chars)

\* A joined path goes down from the destination at every step, through names
\* that can stand in a directory, whatever the archive's name is made of.
NeverUp ==
  pc = "joined" =>
    /\ path # << >>
    /\ \A k \in 1..Len(path) :
         /\ path[k] \notin {<< >>, <<".">>, <<".", ".">>}
         /\ ToSet(path[k]) \cap ({"/", "\\"} \cup Controls) = {}

\* FILE names an entry or one of its parent directories, component by
\* component, and never a part of a component; the name that a listing shows
\* selects its entry.
Plain(s) == \A k \in 1..Len(Pieces(s)) : Pieces(s)[k] \notin {<< >>, <<".">>}
SelectsByComponent ==
  /\ pc # "parse" /\ asked # << >> /\ Plain(name) /\ Plain(TrimEnd(asked)) =>
       selected = IsPrefix(Components(asked), Components(name))
  /\ pc # "parse" => Matches(name, name)
=============================================================================
