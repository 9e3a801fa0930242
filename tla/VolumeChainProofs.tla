------------------------- MODULE VolumeChainProofs -------------------------
(***************************************************************************)
(* For every directory, every listing order and every limit: what try_open  *)
(* returns is a whole chain of distinct volumes whose segments lie end to    *)
(* end, which is the assumption VolumeReader starts from.                    *)
(***************************************************************************)
EXTENDS VolumeChain, TLAPS

SegmentType == [file : dir, phys_start : Nat, logical_start : Nat, data_size : Nat]

\* Segment k follows its predecessor: in the chain of ids and in the stream.
Linked(k) ==
  /\ segments[k].file.id = NextOf(segments[k - 1].file)
  /\ segments[k].file.ends
  /\ segments[k].phys_start = segments[k].file.start
  /\ segments[k].data_size = segments[k].file.len - segments[k].file.start
  /\ segments[k].logical_start
       = segments[k - 1].logical_start + segments[k - 1].data_size

\* The opened volumes, while the loop runs and when it has ended.  The first
\* volume can only come back when its id was not read, and then as the last
\* one, for its own link was followed already.
Opened ==
  /\ Len(segments) > 0 /\ Len(segments) <= MaxVolumes
  /\ segments[1] = [file |-> first, phys_start |-> 0, logical_start |-> 0,
                    data_size |-> first.len]
  /\ NextOf(first) # 0
  /\ next = NextOf(segments[Len(segments)].file)
  /\ \A k \in 2..Len(segments) : Linked(k)
  /\ \A k \in 2..Len(segments) : segments[k].file.id \in seen
  /\ \A j, k \in 2..Len(segments) :
       j < k => segments[j].file.id # segments[k].file.id
  /\ \A k \in 2..Len(segments) : segments[k].file = first => next \in seen
  /\ \A j, k \in 1..Len(segments) :
       j <= k => segments[j].logical_start <= segments[k].logical_start

Inv ==
  /\ TypeOK
  /\ pc \in {"first", "single"} => segments = << >>
  /\ pc \in {"follow", "ok"} => Opened
  /\ pc = "ok" => next = 0
  /\ 0 \notin seen
  /\ Len(segments) <= MaxVolumes

-----------------------------------------------------------------------------

\* A link is an id or 0, and only EGG files have one.
LEMMA LinkFacts ==
  ASSUME NEW f, IsFile(f)
  PROVE  /\ NextOf(f) \in Nat
         /\ NextOf(f) # 0 => f.id \in Nat /\ f.id # 0
  BY NotEggAssumption DEF IsFile, NextOf

\* Before the first file is opened nothing is claimed.
LEMMA InitInv == Init => Inv
<1> SUFFICES ASSUME Init PROVE Inv
  OBVIOUS
<1>1. PICK o \in Others : dir = {first} \cup o
  BY DEF Init
<1>2. first \in Firsts
  BY DEF Init
<1>3. \A f \in dir : IsFile(f)
  BY <1>1, <1>2, FilesAssumption
<1>4. first \in dir
  BY <1>1
<1>5. segments = << >> /\ Len(segments) = 0 /\ segments \in Seq(SegmentType)
  BY DEF Init
<1>6. TypeOK
  BY <1>3, <1>4, <1>5 DEF Init, TypeOK, SegmentType
<1>7. pc = "first" /\ seen = {}
  BY DEF Init
<1> QED BY <1>5, <1>6, <1>7, MaxVolumesAssumption DEF Inv

\* A failure keeps the segments, and claims nothing of them.
LEMMA FailInv ==
  ASSUME Inv, NEW e, Fail(e), seen' \subseteq Nat, 0 \notin seen'
  PROVE  Inv'
<1>1. /\ dir' = dir /\ first' = first /\ next' = next /\ segments' = segments
      /\ pc' = "failed"
  BY DEF Fail
<1>2. TypeOK'
  BY <1>1 DEF Inv, TypeOK, IsFile
<1> QED BY <1>1, <1>2 DEF Inv

\* The first volume alone is a chain of one.
LEMMA OpenFirstInv == Inv /\ OpenFirst => Inv'
<1> SUFFICES ASSUME Inv, OpenFirst PROVE Inv'
  OBVIOUS
<1> DEFINE s == [file |-> first, phys_start |-> 0, logical_start |-> 0,
                 data_size |-> first.len]
<1>1. first \in dir /\ IsFile(first)
  BY DEF Inv, TypeOK
<1>2. /\ dir' = dir /\ first' = first /\ pc' = "follow"
      /\ next' = NextOf(first) /\ NextOf(first) # 0
      /\ seen' \in {{first.id}, {}}
      /\ segments' = <<s>>
  BY DEF OpenFirst
<1>3. next' \in Nat /\ first.id \in Nat /\ first.id # 0
  BY <1>1, <1>2, LinkFacts
<1>4. s \in SegmentType
  BY <1>1 DEF IsFile, SegmentType
<1>5. segments' \in Seq(SegmentType) /\ Len(segments') = 1 /\ segments'[1] = s
  BY <1>2, <1>4
<1>6. TypeOK'
  BY <1>2, <1>3, <1>5 DEF Inv, TypeOK, SegmentType
<1>7. seen' \subseteq Nat /\ 0 \notin seen'
  BY <1>2, <1>3
<1>8. Opened'
  <2>1. NextOf(first)' = NextOf(first) /\ s' = s
    BY <1>2 DEF NextOf
  <2>2. segments'[1].file = first
    BY <1>5
  <2>3. NextOf(segments[Len(segments)].file)' = NextOf(first)
    BY <1>5, <2>2 DEF NextOf
  <2>4. \A j, k \in 1..Len(segments') :
          j <= k => segments'[j].logical_start <= segments'[k].logical_start
    <3>1. 1..Len(segments') = {1} /\ segments'[1].logical_start = 0
      BY <1>5
    <3> QED BY <3>1
  <2> QED BY <1>2, <1>5, <2>1, <2>3, <2>4, MaxVolumesAssumption DEF Opened
<1> QED BY <1>2, <1>5, <1>6, <1>7, <1>8, MaxVolumesAssumption DEF Inv

\* A volume that is followed extends the chain: its id was not asked for before.
LEMMA FollowInv ==
  ASSUME Inv, NEW f \in Candidates, Follow(f)
  PROVE  Inv'
<1> DEFINE n == Len(segments)
           last == segments[n]
           s == [file |-> f, phys_start |-> f.start,
                 logical_start |-> LogicalEnd, data_size |-> DataSize(f)]
<1>1. /\ f \in dir /\ f.id = next /\ IsFile(f) /\ f.ends
      /\ pc = "follow" /\ next # 0 /\ next \notin seen /\ next \in Nat
      /\ n < MaxVolumes /\ n \in Nat
      /\ segments \in Seq(SegmentType)
  BY MaxVolumesAssumption
  DEF Candidates, Follow, Asking, Following, Seen, TooLong, Inv, TypeOK,
      SegmentType
<1>2. /\ dir' = dir /\ first' = first /\ pc' = pc
      /\ next' = NextOf(f) /\ seen' = seen \cup {next}
      /\ segments' = Append(segments, s)
  BY DEF Follow, Asking
<1>3. Opened /\ TypeOK
  BY <1>1 DEF Inv
<1>4. n > 0 /\ last \in SegmentType
  BY <1>1, <1>3 DEF Opened
<1>5. LogicalEnd \in Nat /\ LogicalEnd = last.logical_start + last.data_size
  BY <1>4 DEF LogicalEnd, SegmentType
<1>6. DataSize(f) \in Nat /\ f.start \in Nat
  BY <1>1 DEF IsFile, DataSize
<1>7. s \in SegmentType
  BY <1>1, <1>5, <1>6 DEF SegmentType
<1> HIDE DEF s
<1>8. /\ segments' \in Seq(SegmentType) /\ Len(segments') = n + 1
      /\ segments'[n + 1] = s
      /\ \A k \in 1..n : segments'[k] = segments[k]
  BY <1>1, <1>2, <1>7
<1>9. next' \in Nat
  BY <1>1, <1>2, LinkFacts
<1>10. TypeOK'
  BY <1>1, <1>2, <1>3, <1>8, <1>9 DEF TypeOK, SegmentType, IsFile
<1>11. s.file = f /\ s.phys_start = f.start /\ s.logical_start = LogicalEnd
       /\ s.data_size = f.len - f.start
  BY DEF s, DataSize
<1>12. \A k \in 2..Len(segments') : Linked(k)'
  <2> SUFFICES ASSUME NEW k \in 2..n + 1 PROVE Linked(k)'
    BY <1>8
  <2>1. CASE k <= n
    <3>1. segments'[k] = segments[k] /\ segments'[k - 1] = segments[k - 1]
      BY <1>1, <1>8, <2>1
    <3>2. Linked(k)
      BY <1>1, <1>3, <2>1 DEF Opened
    <3> QED BY <3>1, <3>2 DEF Linked, NextOf
  <2>2. CASE k = n + 1
    <3>1. segments'[k] = s /\ segments'[k - 1] = last
      BY <1>1, <1>4, <1>8, <2>2
    <3>2. next = NextOf(last.file)
      BY <1>3 DEF Opened
    <3> QED BY <1>1, <1>5, <1>11, <3>1, <3>2 DEF Linked, NextOf
  <2> QED BY <1>1, <2>1, <2>2
<1>13. \A k \in 2..Len(segments') :
         segments'[k].file.id = (IF k <= n THEN segments[k].file.id ELSE next)
  BY <1>1, <1>8, <1>11
<1>14. \A k \in 2..n : segments[k].file.id \in seen
  BY <1>3 DEF Opened
<1>15. \A k \in 2..Len(segments') : segments'[k].file.id \in seen'
  BY <1>1, <1>2, <1>8, <1>13, <1>14
<1>16. \A j, k \in 2..Len(segments') :
         j < k => segments'[j].file.id # segments'[k].file.id
  <2> SUFFICES ASSUME NEW j \in 2..n + 1, NEW k \in 2..n + 1, j < k
               PROVE  segments'[j].file.id # segments'[k].file.id
    BY <1>8
  <2>1. j <= n /\ j \in 2..n
    BY <1>1
  <2>2. CASE k <= n
    BY <1>1, <1>3, <1>8, <1>13, <2>1, <2>2 DEF Opened
  <2>3. CASE k = n + 1
    BY <1>1, <1>8, <1>13, <1>14, <2>1, <2>3
  <2> QED BY <1>1, <2>2, <2>3
<1>17. \A k \in 2..Len(segments') : segments'[k].file = first => next' \in seen'
  <2> SUFFICES ASSUME NEW k \in 2..n + 1, segments'[k].file = first
               PROVE  next' \in seen'
    BY <1>8
  <2>1. CASE k <= n
    <3>1. segments[k].file = first /\ k \in 2..n
      BY <1>1, <1>8, <2>1
    <3> QED BY <1>1, <1>3, <3>1 DEF Opened
  <2>2. CASE k = n + 1
    <3>1. f = first
      BY <1>8, <1>11, <2>2
    <3>2. next' = NextOf(first) /\ segments[1].file = first
      BY <1>2, <1>3, <3>1 DEF Opened
    <3>3. CASE n = 1
      BY <1>2, <1>3, <3>2, <3>3 DEF Opened
    <3>4. CASE n > 1
      <4>1. 2 \in 2..n /\ 2 - 1 = 1
        BY <1>1, <3>4
      <4>2. Linked(2)
        BY <1>3, <4>1 DEF Opened
      <4>3. segments[2].file.id = NextOf(first)
        BY <3>2, <4>1, <4>2 DEF Linked
      <4> QED BY <1>2, <1>14, <3>2, <4>1, <4>3
    <3>5. n \in Nat /\ n > 0
      BY <1>1, <1>4
    <3>6. n = 1 \/ n > 1
      BY <3>5
    <3> QED BY <3>3, <3>4, <3>6
  <2> QED BY <1>1, <2>1, <2>2
<1>18. \A j, k \in 1..Len(segments') :
         j <= k => segments'[j].logical_start <= segments'[k].logical_start
  <2> SUFFICES ASSUME NEW j \in 1..n + 1, NEW k \in 1..n + 1, j <= k
               PROVE  segments'[j].logical_start <= segments'[k].logical_start
    BY <1>8
  <2>1. \A i \in 1..n : /\ segments[i].logical_start \in Nat
                        /\ segments[i].data_size \in Nat
    <3> SUFFICES ASSUME NEW i \in 1..n
                 PROVE  /\ segments[i].logical_start \in Nat
                        /\ segments[i].data_size \in Nat
      OBVIOUS
    <3>1. segments[i] \in SegmentType
      BY <1>1
    <3> QED BY <3>1 DEF SegmentType
  <2>2. \A h, i \in 1..n :
          h <= i => segments[h].logical_start <= segments[i].logical_start
    BY <1>3 DEF Opened
  <2>3. CASE k <= n
    BY <1>1, <1>8, <2>2, <2>3
  <2>4. CASE k = n + 1 /\ j = n + 1
    BY <1>5, <1>8, <1>11, <2>4
  <2>5. CASE k = n + 1 /\ j <= n
    <3>1. j \in 1..n /\ n \in 1..n /\ segments'[j] = segments[j]
          /\ segments'[k].logical_start = LogicalEnd
      BY <1>1, <1>4, <1>8, <1>11, <2>5
    <3>2. segments[j].logical_start <= segments[n].logical_start
      BY <1>1, <2>2, <3>1
    <3> QED BY <1>5, <2>1, <3>1, <3>2
  <2> QED BY <1>1, <2>3, <2>4, <2>5
<1>19. Opened'
  <2>1. NextOf(segments[Len(segments)].file)' = NextOf(f)
    BY <1>8, <1>11 DEF NextOf
  <2>2. segments'[1] = segments[1]
    BY <1>1, <1>4, <1>8
  <2>3. /\ segments[1] = [file |-> first, phys_start |-> 0,
                          logical_start |-> 0, data_size |-> first.len]
        /\ NextOf(first) # 0
    BY <1>3 DEF Opened
  <2>4. NextOf(first)' # 0
    BY <1>2, <2>3 DEF NextOf
  <2>5. Len(segments') > 0 /\ Len(segments') <= MaxVolumes
    BY <1>1, <1>4, <1>8, MaxVolumesAssumption
  <2>6. segments'[1] = [file |-> first', phys_start |-> 0,
                        logical_start |-> 0, data_size |-> first'.len]
    BY <1>2, <2>2, <2>3
  <2> QED BY <1>2, <1>12, <1>15, <1>16, <1>17, <1>18, <2>1, <2>4, <2>5, <2>6
           DEF Opened
<1>20. 0 \notin seen' /\ Len(segments') <= MaxVolumes
  BY <1>1, <1>2, <1>8, MaxVolumesAssumption DEF Inv
<1> QED BY <1>1, <1>2, <1>10, <1>19, <1>20 DEF Inv

\* Only pc changes: nothing was opened, or the last volume names no other.
LEMMA EndInv == Inv /\ (OpenSingle \/ Finish \/ UNCHANGED vars) => Inv'
<1> SUFFICES ASSUME Inv, OpenSingle \/ Finish \/ UNCHANGED vars PROVE Inv'
  OBVIOUS
<1>1. /\ dir' = dir /\ first' = first /\ next' = next /\ seen' = seen
      /\ segments' = segments
      /\ \/ pc = "first" /\ pc' = "single"
         \/ pc = "follow" /\ pc' = "ok" /\ next = 0
         \/ pc' = pc
  BY DEF OpenSingle, Finish, vars
<1>2. TypeOK'
  BY <1>1 DEF Inv, TypeOK, IsFile
<1>3. Opened => Opened'
  BY <1>1 DEF Opened, Linked, NextOf
<1> QED BY <1>1, <1>2, <1>3 DEF Inv

\* Every step of try_open keeps the invariant.
LEMMA NextInv == Inv /\ [Next \/ Done]_vars => Inv'
<1> SUFFICES ASSUME Inv, [Next \/ Done]_vars PROVE Inv'
  OBVIOUS
<1>0. seen \subseteq Nat /\ 0 \notin seen /\ next \in Nat
  BY DEF Inv, TypeOK
<1>1. CASE OpenSingle \/ Finish \/ Done \/ UNCHANGED vars
  BY <1>1, EndInv DEF Done
<1>2. CASE OpenFirst
  BY <1>2, OpenFirstInv
<1>3. CASE OpenFails
  <2>1. Fail("io") /\ seen' = seen
    BY <1>3 DEF OpenFails
  <2> QED BY <1>0, <2>1, FailInv
<1>4. CASE RefuseCycle
  <2>1. Fail("cycle") /\ seen' = seen
    BY <1>4 DEF RefuseCycle
  <2> QED BY <1>0, <2>1, FailInv
<1>5. CASE RefuseLong
  <2>1. Fail("too long") /\ seen' = seen \cup {next} /\ next # 0
    BY <1>5 DEF RefuseLong, Following
  <2> QED BY <1>0, <2>1, FailInv
<1>6. ASSUME Asking PROVE seen' \subseteq Nat /\ 0 \notin seen'
  BY <1>0, <1>6 DEF Asking, Following
<1>7. CASE NotFound
  <2>1. Fail("missing") /\ Asking
    BY <1>7 DEF NotFound
  <2> QED BY <1>6, <2>1, FailInv
<1>8. CASE FollowFails
  <2>1. Fail("io") /\ Asking
    BY <1>8 DEF FollowFails
  <2> QED BY <1>6, <2>1, FailInv
<1>9. CASE BadHeader
  <2>1. Fail("header") /\ Asking
    BY <1>9 DEF BadHeader
  <2> QED BY <1>6, <2>1, FailInv
<1>10. CASE \E f \in Candidates : Follow(f)
  BY <1>10, FollowInv
<1> QED BY <1>1, <1>2, <1>3, <1>4, <1>5, <1>7, <1>8, <1>9, <1>10 DEF Next

\* The inductive invariant of the opening holds in every reachable state.
THEOREM ChainInvariant == Spec => []Inv
  BY InitInv, NextInv, PTL DEF Spec

\* At no time are more than MAX_VOLUMES files open (volume.rs 58, 69-71).
THEOREM ChainBoundsOpenFiles == Spec => []OpenFilesBounded
<1>1. Inv => OpenFilesBounded
  BY DEF Inv, OpenFilesBounded
<1> QED BY <1>1, ChainInvariant, PTL

\* Every variable of the opening keeps its type (volume.rs 30-104).
THEOREM ChainTypeOK == Spec => []TypeOK
<1>1. Inv => TypeOK
  BY DEF Inv
<1> QED BY <1>1, ChainInvariant, PTL

\* No volume is missing from what was opened and none is in it twice, also
\* when the id of the first volume could not be read (volume.rs 59-75).
THEOREM ChainIsWhole == Spec => []OpensWholeChain
<1>1. Inv => OpensWholeChain
  <2> SUFFICES ASSUME Inv, pc = "ok" PROVE IsChain(Files)
    BY DEF OpensWholeChain
  <2> DEFINE n == Len(segments)
  <2>1. Opened /\ next = 0 /\ 0 \notin seen /\ segments \in Seq(SegmentType)
    BY DEF Inv, TypeOK, SegmentType
  <2>2. n \in Nat /\ n > 0
    BY <2>1 DEF Opened
  <2>3. Len(Files) = n /\ \A k \in 1..n : Files[k] = segments[k].file
    BY <2>2 DEF Files
  <2>4. Files[1] = first
    BY <2>1, <2>2, <2>3 DEF Opened
  <2>5. \A k \in 1..n : Files[k] \in dir
    <3> SUFFICES ASSUME NEW k \in 1..n PROVE Files[k] \in dir
      OBVIOUS
    <3>1. segments[k] \in SegmentType
      BY <2>1
    <3> QED BY <2>3, <3>1 DEF SegmentType
  <2>6. \A k \in 2..n : Files[k].ends /\ Files[k].id = NextOf(Files[k - 1])
    BY <2>1, <2>2, <2>3 DEF Opened, Linked
  <2>7. NextOf(Files[n]) = 0
    <3>1. n \in 1..n /\ NextOf(segments[n].file) = 0
      BY <2>1, <2>2 DEF Opened
    <3> QED BY <2>3, <3>1
  <2>8. \A k \in 2..n : Files[k] # first
    BY <2>1, <2>2, <2>3 DEF Opened
  <2>9. \A j, k \in 2..n : j < k => Files[j].id # Files[k].id
    BY <2>1, <2>2, <2>3 DEF Opened
  <2>10. \A k \in 1..n : k < n => Files[k + 1].id = NextOf(Files[k])
    <3> SUFFICES ASSUME NEW k \in 1..n, k < n
                 PROVE  Files[k + 1].id = NextOf(Files[k])
      OBVIOUS
    <3>1. k + 1 \in 2..n /\ (k + 1) - 1 = k
      BY <2>2
    <3> QED BY <2>6, <3>1
  <2>11. \A k \in 1..n : k > 1 => Files[k].ends
    BY <2>2, <2>6
  <2>12. \A j, k \in 1..n : j < k => /\ Files[j] # Files[k]
                                     /\ j > 1 => Files[j].id # Files[k].id
    <3> SUFFICES ASSUME NEW j \in 1..n, NEW k \in 1..n, j < k
                 PROVE  /\ Files[j] # Files[k]
                        /\ j > 1 => Files[j].id # Files[k].id
      OBVIOUS
    <3>1. k \in 2..n
      BY <2>2
    <3>2. CASE j = 1
      BY <2>4, <2>8, <3>1, <3>2
    <3>3. CASE j > 1
      BY <2>2, <2>9, <3>1, <3>3
    <3> QED BY <2>2, <3>2, <3>3
  <2> QED BY <2>2, <2>3, <2>4, <2>5, <2>7, <2>10, <2>11, <2>12 DEF IsChain
<1> QED BY <1>1, ChainInvariant, PTL

\* For every directory, however its volumes point at each other, the guards
\* bound the open files and let only a whole chain through (volume.rs 58-76).
THEOREM ChainIsWholeWithinLimit == Spec => []WholeWithinLimit
<1>1. OpenFilesBounded /\ OpensWholeChain => WholeWithinLimit
  BY DEF WholeWithinLimit
<1> QED BY <1>1, ChainBoundsOpenFiles, ChainIsWhole, PTL

\* What try_open returns is what the reader assumes: the segments start at 0,
\* lie end to end, and each covers its file from the first data byte to the
\* end (volume.rs 84-96).
THEOREM ChainHandsOverLayout == Spec => []HandsOverLayout
<1>1. Inv => HandsOverLayout
  <2> SUFFICES ASSUME Inv, pc = "ok"
               PROVE  /\ IsLayout(Layout)
                      /\ \A v \in 0..Layout.n - 1 :
                           Layout.start[v] + (Layout.cut[v + 1] - Layout.cut[v])
                             = segments[v + 1].file.len
    BY DEF HandsOverLayout
  <2> DEFINE n == Len(segments)
             start == [v \in 0..n - 1 |-> segments[v + 1].phys_start]
             cut == [v \in 0..n |-> IF v < n THEN segments[v + 1].logical_start
                                            ELSE LogicalEnd]
  <2>1. /\ Opened /\ segments \in Seq(SegmentType) /\ first \in dir
        /\ \A f \in dir : IsFile(f)
    BY DEF Inv, TypeOK, SegmentType
  <2>2. n \in Nat /\ n > 0
    BY <2>1 DEF Opened
  <2>3. \A k \in 1..n : segments[k] \in SegmentType
    BY <2>1
  <2>4. \A k \in 1..n : /\ segments[k].phys_start \in Nat
                        /\ segments[k].logical_start \in Nat
                        /\ segments[k].data_size \in Nat
    BY <2>3 DEF SegmentType
  <2>5. LogicalEnd = segments[n].logical_start + segments[n].data_size
    BY DEF LogicalEnd
  <2>6. Layout.n = n /\ Layout.start = start /\ Layout.cut = cut
    BY DEF Layout
  <2>7. n \in 1..n /\ LogicalEnd \in Nat
    BY <2>2, <2>4, <2>5
  <2>8. start \in [0..n - 1 -> Nat] /\ cut \in [0..n -> Nat]
    <3>1. \A v \in 0..n - 1 : v + 1 \in 1..n
      BY <2>2
    <3>2. \A v \in 0..n : v < n => v + 1 \in 1..n
      BY <2>2
    <3> QED BY <2>4, <2>7, <3>1, <3>2
  \* Each segment starts where the one before it ends.
  <2>9. \A v \in 0..n - 1 : cut[v + 1] = cut[v] + segments[v + 1].data_size
    <3> SUFFICES ASSUME NEW v \in 0..n - 1
                 PROVE  cut[v + 1] = cut[v] + segments[v + 1].data_size
      OBVIOUS
    <3>1. cut[v] = segments[v + 1].logical_start
      BY <2>2
    <3>2. CASE v + 1 < n
      <4>1. cut[v + 1] = segments[v + 2].logical_start
        BY <2>2, <3>2
      <4>2. v + 2 \in 2..n /\ (v + 2) - 1 = v + 1
        BY <2>2, <3>2
      <4>3. Linked(v + 2)
        BY <2>1, <4>2 DEF Opened
      <4> QED BY <3>1, <4>1, <4>2, <4>3 DEF Linked
    <3>3. CASE v + 1 = n
      <4>1. cut[v + 1] = LogicalEnd
        BY <2>2, <3>3
      <4> QED BY <2>5, <3>1, <3>3, <4>1
    <3> QED BY <2>2, <3>2, <3>3
  <2>10. start[0] = 0 /\ cut[0] = 0
    BY <2>1, <2>2 DEF Opened
  <2>11. \A v \in 0..n - 1 : start[v] + segments[v + 1].data_size
                               = segments[v + 1].file.len
    <3> SUFFICES ASSUME NEW v \in 0..n - 1
                 PROVE  start[v] + segments[v + 1].data_size
                          = segments[v + 1].file.len
      OBVIOUS
    <3>1. start[v] = segments[v + 1].phys_start
      OBVIOUS
    <3>2. CASE v = 0
      <4>1. segments[v + 1] = [file |-> first, phys_start |-> 0,
                               logical_start |-> 0, data_size |-> first.len]
        BY <2>1, <3>2 DEF Opened
      <4>2. first.len \in Nat
        BY <2>1 DEF IsFile
      <4> QED BY <3>1, <4>1, <4>2
    <3>3. CASE v > 0
      <4>1. v + 1 \in 2..n /\ v + 1 \in 1..n
        BY <2>2, <3>3
      <4>2. Linked(v + 1)
        BY <2>1, <4>1 DEF Opened
      <4>3. segments[v + 1].file \in dir
        BY <2>3, <4>1 DEF SegmentType
      <4>4. segments[v + 1].file.len \in Nat /\ segments[v + 1].file.start \in Nat
        BY <2>1, <4>3 DEF IsFile
      <4> QED BY <3>1, <4>2, <4>4 DEF Linked
    <3> QED BY <2>2, <3>2, <3>3
  <2> HIDE DEF start, cut
  <2>12. \A i, j \in 0..n : i <= j => cut[i] <= cut[j]
    <3> SUFFICES ASSUME NEW i \in 0..n, NEW j \in 0..n, i <= j
                 PROVE  cut[i] <= cut[j]
      OBVIOUS
    <3>1. \A v \in 0..n - 1 : cut[v] = segments[v + 1].logical_start
      BY <2>2 DEF cut
    <3>2. cut[n] = LogicalEnd
      BY <2>2 DEF cut
    <3>3. CASE j < n
      <4>1. i + 1 \in 1..n /\ j + 1 \in 1..n /\ i + 1 <= j + 1
        BY <2>2, <3>3
      <4>2. segments[i + 1].logical_start <= segments[j + 1].logical_start
        BY <2>1, <4>1 DEF Opened
      <4> QED BY <2>2, <3>1, <3>3, <4>2
    <3>4. CASE j = n /\ i < n
      <4>1. i + 1 \in 1..n /\ i + 1 <= n
        BY <2>2, <3>4
      <4>2. segments[i + 1].logical_start <= segments[n].logical_start
        BY <2>1, <2>7, <4>1 DEF Opened
      <4>3. cut[i] = segments[i + 1].logical_start
        BY <2>2, <3>1, <3>4
      <4> QED BY <2>4, <2>5, <2>7, <3>2, <3>4, <4>1, <4>2, <4>3
    <3>5. CASE j = n /\ i = n
      BY <2>7, <3>2, <3>5
    <3> QED BY <2>2, <3>3, <3>4, <3>5
  <2>13. \A v \in 0..n - 1 : start[v] + (cut[v + 1] - cut[v])
                               = segments[v + 1].file.len
    <3> SUFFICES ASSUME NEW v \in 0..n - 1
                 PROVE  start[v] + (cut[v + 1] - cut[v])
                          = segments[v + 1].file.len
      OBVIOUS
    <3>1. v + 1 \in 1..n /\ v \in 0..n
      BY <2>2
    <3>2. cut[v] \in Nat /\ segments[v + 1].data_size \in Nat
      BY <2>4, <2>8, <3>1
    <3>3. cut[v + 1] - cut[v] = segments[v + 1].data_size
      BY <2>9, <3>2
    <3> QED BY <2>11, <3>3
  <2>14. IsLayout(Layout)
    BY <2>2, <2>6, <2>8, <2>10, <2>12 DEF IsLayout
  <2> QED BY <2>6, <2>13, <2>14
<1> QED BY <1>1, ChainInvariant, PTL

-----------------------------------------------------------------------------
(* The guards of the loop refuse no complete set of volumes.                *)

\* c is a complete set of n volumes in a directory where an id names one file.
Complete(n, c) ==
  Unambiguous /\ n \in 1..MaxVolumes /\ c \in [1..n -> dir] /\ IsChain(c)

\* While it is followed the open files are its beginning, only their ids were
\* asked for, and nothing but the system has refused anything.
Along(c, n) ==
  /\ err \in {"none", "io"}
  /\ pc = "follow" =>
       /\ Len(segments) <= n
       /\ \A k \in 1..Len(segments) : segments[k].file = c[k]
       /\ \A i \in seen : \E k \in 1..Len(segments) : i = c[k].id

\* What a complete set of volumes is: links, distinct ids, and an end.
LEMMA CompleteFacts ==
  ASSUME NEW n, NEW c, Complete(n, c), \A f \in dir : IsFile(f)
  PROVE  /\ n \in Nat /\ n > 0 /\ n <= MaxVolumes
         /\ c[1] = first
         /\ \A k \in 1..n : c[k] \in dir
         /\ \A k \in 1..n : k < n => c[k + 1].id = NextOf(c[k])
         /\ \A k \in 1..n : k > 1 => c[k].ends
         /\ NextOf(c[n]) = 0
         /\ \A j, k \in 1..n : j < k => c[j] # c[k]
         /\ \A f, h \in dir : f.id = h.id /\ f.id # NotEgg => f = h
<1>1. n \in Nat /\ n > 0 /\ n <= MaxVolumes
  BY MaxVolumesAssumption DEF Complete
<1>2. c \in [1..n -> dir] /\ IsChain(c)
  BY DEF Complete
<1>3. c \in Seq(dir) /\ Len(c) = n
  BY <1>1, <1>2
<1> QED BY <1>1, <1>2, <1>3 DEF IsChain, Complete, Unambiguous

\* The volume behind the last open one, if one is asked for: it is in the set,
\* it was not asked for before, and no other file has its id.
LEMMA NextOfSet ==
  ASSUME Inv, NEW n, NEW c, Complete(n, c), Along(c, n), pc = "follow", next # 0
  PROVE  LET m == Len(segments) + 1
         IN  /\ m \in 2..n /\ c[m] \in dir /\ c[m].id = next /\ c[m].ends
             /\ next \notin seen
             /\ \A f \in Candidates : f = c[m]
<1> DEFINE l == Len(segments)
           m == l + 1
<1>1. Opened /\ TypeOK
  BY DEF Inv
<1>2. l \in Nat /\ l > 0 /\ l <= n /\ segments[l].file = c[l] /\ l \in 1..l
  <2>1. l \in Nat
    BY <1>1 DEF TypeOK
  <2>2. l > 0
    BY <1>1 DEF Opened
  <2>3. l \in 1..l
    BY <2>1, <2>2
  <2> QED BY <2>1, <2>2, <2>3 DEF Along
<1>3. next = NextOf(c[l]) /\ next \in Nat /\ (\A f \in dir : IsFile(f))
  BY <1>1, <1>2 DEF Opened, TypeOK
<1>4. /\ n \in Nat /\ n > 0
      /\ \A k \in 1..n : c[k] \in dir
      /\ \A k \in 1..n : k < n => c[k + 1].id = NextOf(c[k])
      /\ \A k \in 1..n : k > 1 => c[k].ends
      /\ NextOf(c[n]) = 0
      /\ \A j, k \in 1..n : j < k => c[j] # c[k]
      /\ \A f, h \in dir : f.id = h.id /\ f.id # NotEgg => f = h
  BY <1>3, CompleteFacts
<1>5. l # n
  BY <1>3, <1>4
<1>6. l < n /\ l \in 1..n /\ m \in 2..n /\ m \in 1..n /\ m > 1
  BY <1>2, <1>4, <1>5
<1>7. c[m] \in dir /\ c[m].id = next /\ c[m].ends
  BY <1>3, <1>4, <1>6
<1>8. next # NotEgg
  BY <1>3, NotEggAssumption
<1>9. \A f \in Candidates : f = c[m]
  BY <1>4, <1>7, <1>8 DEF Candidates
<1>10. next \notin seen
  <2> SUFFICES ASSUME next \in seen PROVE FALSE
    OBVIOUS
  <2>1. PICK k \in 1..l : next = c[k].id
    BY DEF Along
  <2>2. k \in 1..n /\ k < m
    BY <1>2, <1>4, <1>6, <2>1
  <2>3. c[k] = c[m]
    <3>1. c[k] \in dir /\ c[m] \in dir /\ c[k].id = c[m].id /\ c[k].id # NotEgg
      BY <1>4, <1>7, <1>8, <2>1, <2>2
    <3> QED BY <1>4, <3>1
  <2> QED BY <1>4, <1>6, <2>2, <2>3
<1> QED BY <1>6, <1>7, <1>9, <1>10

\* A complete set is followed to its end.
LEMMA AlongNext ==
  ASSUME Inv, NEW n, NEW c, Complete(n, c), Along(c, n), [Next \/ Done]_vars
  PROVE  Along(c, n)'
<1> DEFINE l == Len(segments)
<1>0. TypeOK /\ l \in Nat /\ MaxVolumes \in Nat
  BY MaxVolumesAssumption DEF Inv, TypeOK
<1>1. /\ n \in Nat /\ n > 0 /\ n <= MaxVolumes /\ c[1] = first
  BY <1>0, CompleteFacts DEF TypeOK
<1>2. CASE OpenSingle \/ Finish \/ Done \/ UNCHANGED vars
  <2>1. /\ err' = err /\ segments' = segments /\ seen' = seen
        /\ pc' = "follow" => pc = "follow"
    BY <1>2 DEF OpenSingle, Finish, Done, vars
  <2> QED BY <2>1 DEF Along
<1>3. CASE OpenFirst
  <2>1. /\ err' = err /\ Len(segments') = 1 /\ segments'[1].file = c[1]
        /\ \A i \in seen' : i = c[1].id
    BY <1>1, <1>3 DEF OpenFirst
  <2>2. 1..Len(segments') = {1}
    BY <2>1
  <2> QED BY <1>1, <2>1, <2>2 DEF Along
<1>4. CASE OpenFails \/ FollowFails
  BY <1>4 DEF OpenFails, FollowFails, Fail, Along
<1>5. ASSUME Following
      PROVE  /\ l + 1 \in 2..n /\ c[l + 1] \in dir /\ c[l + 1].id = next
             /\ c[l + 1].ends /\ next \notin seen
             /\ \A f \in Candidates : f = c[l + 1]
  BY <1>5, NextOfSet DEF Following
<1>6. CASE RefuseCycle
  BY <1>5, <1>6 DEF RefuseCycle, Seen
<1>7. CASE RefuseLong
  <2>1. l >= MaxVolumes /\ l + 1 \in 2..n
    BY <1>5, <1>7 DEF RefuseLong, TooLong
  <2> QED BY <1>0, <1>1, <2>1
<1>8. CASE NotFound
  BY <1>5, <1>8 DEF NotFound, Asking, Candidates
<1>9. CASE BadHeader
  BY <1>5, <1>9 DEF BadHeader, Asking
<1>10. CASE \E f \in Candidates : Follow(f)
  <2>1. PICK f \in Candidates : Follow(f)
    BY <1>10
  <2>2. Following /\ err' = err /\ seen' = seen \cup {next}
    BY <2>1 DEF Follow, Asking
  <2>3. f = c[l + 1] /\ f.id = next /\ l + 1 \in 2..n
    BY <1>5, <2>1, <2>2
  <2>4. /\ Len(segments') = l + 1 /\ segments'[l + 1].file = f
        /\ \A k \in 1..l : segments'[k] = segments[k]
    BY <1>0, <2>1 DEF Follow, TypeOK
  <2>5. \A k \in 1..l + 1 : k = l + 1 \/ k \in 1..l
    BY <1>0
  <2>6. pc = "follow"
    BY <2>2 DEF Following
  <2>7. \A k \in 1..Len(segments') : segments'[k].file = c[k]
    BY <2>3, <2>4, <2>5, <2>6 DEF Along
  <2>8. \A i \in seen' : \E k \in 1..Len(segments') : i = c[k].id
    <3>1. l + 1 \in 1..l + 1 /\ 1..l \subseteq 1..l + 1
      BY <1>0
    <3> QED BY <2>2, <2>3, <2>4, <2>6, <3>1 DEF Along
  <2>9. Len(segments') <= n
    BY <1>1, <2>3, <2>4
  <2> QED BY <2>2, <2>7, <2>8, <2>9 DEF Along
<1> QED BY <1>2, <1>3, <1>4, <1>6, <1>7, <1>8, <1>9, <1>10 DEF Next

\* A set that is complete stays so: the directory does not change.
LEMMA CompleteStays ==
  ASSUME [Next \/ Done]_vars, NEW n, NEW c
  PROVE  Complete(n, c)' <=> Complete(n, c)
<1>1. dir' = dir /\ first' = first
  BY DEF Next, Done, vars, OpenSingle, OpenFirst, OpenFails, RefuseCycle,
         RefuseLong, NotFound, FollowFails, BadHeader, Follow, Finish, Fail
<1> QED BY <1>1 DEF Complete, Unambiguous, IsChain, NextOf

\* Every complete set is followed, in every reachable state.
FollowsSets == \A n \in 1..MaxVolumes : \A c \in [1..n -> dir] :
                 Complete(n, c) => Along(c, n)

LEMMA SetsInvariant == Spec => []FollowsSets
<1>1. Init => FollowsSets
  BY DEF Init, FollowsSets, Along
<1>2. Inv /\ FollowsSets /\ [Next \/ Done]_vars => FollowsSets'
  <2> SUFFICES ASSUME Inv, FollowsSets, [Next \/ Done]_vars,
                      NEW n, NEW c, Complete(n, c)'
               PROVE  Along(c, n)'
    BY DEF FollowsSets
  <2>1. Complete(n, c)
    BY CompleteStays
  <2>2. Along(c, n)
    BY <2>1 DEF FollowsSets, Complete
  <2> QED BY <2>1, <2>2, AlongNext
<1> QED BY <1>1, <1>2, ChainInvariant, PTL DEF Spec

\* A complete set of volumes within the limit is opened, whatever else is in the
\* directory, unless the system refuses to read it: neither the guard against
\* cycles nor the limit, nor the search by id, refuses it (volume.rs 58-95).
THEOREM ChainCompleteSetOpens == Spec => []CompleteSetOpens
<1>1. FollowsSets => CompleteSetOpens
  BY DEF FollowsSets, CompleteSetOpens, Complete, Along
<1> QED BY <1>1, SetsInvariant, PTL
=============================================================================
