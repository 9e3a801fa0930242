-------------------------- MODULE MCArchiveParser --------------------------
(***************************************************************************)
(* Archives as an archiver writes them, the same cut short, and broken ones *)
(***************************************************************************)
EXTENDS ArchiveParser, TLC

MCComponents == {"a", "b", "c", "d", "e", "f", "g"}

Rec(loop, sig, ext, size, bytes) ==
  [loop |-> loop, sig |-> sig, pos |-> 0, ext |-> ext, size |-> size, bytes |-> bytes]

\* A record with flags and a two byte size, and its body.
Field(loop, sig, size) == Rec(loop, sig, 3, size, 7 + size)

EGG == Rec("egg", "EGG", 0, 0, 14)
End(loop) == Rec(loop, "END", 0, 0, 4)
Solid(size) == Field("prefix", "SOLID", size)
SplitOf(size) == Field("prefix", "SPLIT", size) @@ [prev |-> 5, next |-> 6]
Comment(size) == Field("entries", "COMMENT", size)
OwnComment(size) == Field("sub", "COMMENT", size)
Dummy(size) == Field("entries", "DUMMY", size)
File(id) == Rec("entries", "FILE", 0, 0, 16) @@ [id |-> id, usize |-> 5]
\* A name of four bytes a component behind its fixed part.
Name(name, area, parent) ==
  Field("sub", "NAME", 4 * Len(name) + (IF area THEN 2 ELSE 0) + (IF parent # NoId THEN 4 ELSE 0))
    @@ [name |-> name, area |-> area, parent |-> parent]
Windows(size, time, dir) == Field("sub", "WINDOWS", size) @@ [time |-> time, dir |-> dir]
Posix(size, time, dir) == Field("sub", "POSIX", size) @@ [time |-> time, dir |-> dir]
\* A payload of "true" bytes is there, whatever the size says.
Encrypt(method, size, true) ==
  Rec("sub", "ENCRYPT", 3, size, 8 + true) @@ [method |-> method, true |-> true]
Block(csize) == Rec("blocks", "BLOCK", 0, 0, 18) @@ [csize |-> csize]
\* A block's data is part of the end marker in front of it.
BlockEnd(csize) == Rec("data", "END", 0, 0, 4 + csize)
Blocks(csizes) ==
  LET all[n \in 0..Len(csizes)] ==
        IF n = 0 THEN << >> ELSE all[n - 1] \o <<Block(csizes[n]), BlockEnd(csizes[n])>>
  IN  all[Len(csizes)]

Place(items) ==
  LET at[n \in 1..Len(items)] == IF n = 1 THEN 0 ELSE at[n - 1] + items[n - 1].bytes
  IN  [n \in 1..Len(items) |-> [items[n] EXCEPT !.pos = at[n]]]

Whole(items) ==
  LET last == items[Len(items)] IN
  [items |-> items, len |-> last.pos + last.bytes]

\* Followed by bytes that are not the archive's, fewer or more than a signature.
Followed(items) == {[Whole(items) EXCEPT !.len = @ + n] : n \in {0, 2, 6}}

\* Cut in front of, inside and behind every record's signature, and before its
\* last byte.
Cuts(items) ==
  {[Whole(items) EXCEPT !.len = l] :
     l \in UNION {{r.pos, r.pos + 3, r.pos + 4, r.pos + r.bytes - 1} :
                    r \in {items[n] : n \in 1..Len(items)}}}

-----------------------------------------------------------------------------

Prefixes ==
  { << >>, <<SplitOf(8)>>, <<SplitOf(10), Solid(0)>>,
    <<Field("prefix", "SKIP", 2), Solid(1)>>,
    <<Field("prefix", "GLOBAL", 5), SplitOf(8)>> }

Infos ==
  { << >>, <<Windows(9, 7, FALSE)>>, <<Windows(11, 7, TRUE), Posix(20, 8, FALSE)>>,
    <<Posix(21, 8, TRUE), Windows(9, 0, FALSE)>>, <<Posix(20, 0, FALSE), Posix(20, 9, TRUE)>> }

Ciphers ==
  { << >>, <<Encrypt("Zip", 17, 16)>>, <<Encrypt("Zip", 24, 16)>>,
    <<Encrypt("Aes128", 11, 10)>>, <<Encrypt("Aes128", 21, 10)>>, <<Encrypt("Aes128", 21, 20)>>,
    <<Encrypt("Aes256", 40, 28)>>, <<Encrypt("Aes256", 29, 18)>> }

Sizes == { << >>, <<0>>, <<3>>, <<4, 2>> }

Archive(prefix, body) ==
  Place(<<EGG>> \o prefix \o <<End("prefix")>> \o body \o <<End("entries")>>)

Entry(id, headers, csizes) ==
  <<File(id)>> \o headers \o <<End("sub")>> \o Blocks(csizes)

Dir == Name(<<"d">>, FALSE, NoId)

\* One entry: every prefix, and every set of sub-headers.
OfPrefix == {Archive(p, Entry(1, <<Dir>>, <<3>>)) : p \in Prefixes}
OfOne(infos, ciphers, sizes) ==
  {Archive(<< >>, Entry(1, <<Name(<<"d">>, TRUE, NoId), OwnComment(2)>> \o t \o c, s)) :
     t \in infos, c \in ciphers, s \in sizes}

\* Two entries: comments, padding and a volume's end between and behind them.
Between == { << >>, <<Comment(2)>>, <<Dummy(3)>>, <<End("entries")>>,
             <<End("entries"), Comment(0)>>, <<Dummy(0), End("entries")>> }
OfTwo(infos, ends) ==
  {Archive(<< >>, Entry(1, <<Dir>> \o c, s) \o b \o
                  Entry(2, <<Name(<<"e">>, FALSE, p)>> \o t, z) \o e) :
     c \in {<< >>, <<Encrypt("Aes128", 21, 10)>>}, s \in {<< >>, <<3>>}, b \in Between,
     p \in {NoId, 1}, t \in infos, z \in {<< >>, <<4, 2>>}, e \in ends}

\* Three entries with every choice of parents: none, each other, themselves
\* and an entry that is not there.
Parents == {NoId, 1, 2, 3, 9}
OfThree ==
  {Archive(<< >>, Entry(1, <<Name(<<"a">>, FALSE, p)>>, << >>) \o
                  Entry(2, <<Name(<<"b">>, TRUE, q)>>, <<0>>) \o
                  Entry(3, << Name(<<"c">>, FALSE, r)>>, << >>)) :
     p \in Parents, q \in Parents, r \in Parents}

-----------------------------------------------------------------------------
(* Archives no archiver writes                                              *)

BrokenBodies ==
  {Entry(1, <<Dir, h>>, <<3>>) :
     h \in { Windows(8, 7, FALSE), Posix(19, 8, FALSE), Encrypt("Zip", 0, 0),
             Encrypt("Aes128", 1, 0), Encrypt("Aes128", 4, 3), Encrypt("Unknown", 4, 3),
             Name(<<"f", "g">>, TRUE, 7), [Name(<< >>, TRUE, 1) EXCEPT !.size = 5],
             Solid(0), Dummy(0), [OwnComment(0) EXCEPT !.size = 900] }}
  \cup { <<File(1), End("sub"), Block(3)>>, <<Block(3), BlockEnd(3)>>, <<Dir>>, <<EGG>>,
         <<File(1), End("sub"), Block(900), BlockEnd(3)>>,
         Entry(1, <<Dir>>, << >>) \o Entry(1, <<Name(<<"e">>, FALSE, 1)>>, << >>) }

BrokenFiles ==
  {Whole(Archive(<< >>, b)) : b \in BrokenBodies}
  \cup {Whole(Place(<<r, End("prefix")>>)) : r \in {EGG, End("entries")}}

Cut == UNION {Cuts(a) : a \in OfPrefix \cup OfOne({<<Windows(11, 7, TRUE)>>}, Ciphers, {<<4, 2>>})
                                 \cup OfTwo({<< >>}, {<< >>})}
Longer == UNION {Followed(a) : a \in OfPrefix \cup OfTwo({<<Posix(20, 8, TRUE)>>},
                                                          {<< >>, <<Dummy(1)>>})}
Exact == {Whole(a) : a \in OfOne(Infos, Ciphers, Sizes) \cup OfThree}

\* The archives above are what archivers write, and not all of the broken ones.
ASSUME FilesAreSane ==
  /\ \A f \in Cut \cup Longer \cup Exact : Sane(f)
  /\ \E f \in Cut : ~IsWhole(f)
  /\ \A f \in Longer \cup Exact : IsWhole(f)
  /\ \E f \in BrokenFiles : ~Sane(f)

MCFiles == Cut \cup Longer \cup Exact \cup BrokenFiles
=============================================================================
