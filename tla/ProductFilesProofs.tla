------------------------- MODULE ProductFilesProofs -------------------------
(***************************************************************************)
(* Every address in the archive that actool writes leads to the bytes it was *)
(* written for, whatever the catalogs are and in whatever order the writer   *)
(* goes through its hash tables.  The bytes of the file are shown to be runs  *)
(* that lie inside what they belong to; each operation of the store keeps     *)
(* them there, as long as there is room in the table; and the writer reserves *)
(* the room that it needs.                                                  *)
(***************************************************************************)
EXTENDS ProductFiles, SequenceTheorems, FiniteSetTheorems, NaturalsInduction, WellFoundedInduction, TLAPS

-----------------------------------------------------------------------------
(* The bytes of a file.                                                     *)

RunType == [from : Nat, upto : Nat, owner : Int]

\* Each byte of the file is in one run.
Tiled(memory, size) ==
  /\ memory \subseteq RunType
  /\ \A r \in memory : r.from < r.upto /\ r.upto <= size
  /\ \A q, r \in memory : q # r => q.upto <= r.from \/ r.upto <= q.from
  /\ \A x \in 0..(size - 1) : \E r \in memory : r.from <= x /\ x < r.upto

LEMMA TiledFileIsFull ==
  ASSUME NEW memory, NEW size \in Nat, Tiled(memory, size)
  PROVE  Fills(memory, size)
<1>1. SUFFICES ASSUME NEW r \in memory
               PROVE  /\ r.from < r.upto
                      /\ \A q \in memory : q # r => q.upto <= r.from \/ r.upto <= q.from
                      /\ r.from # 0 => \E q \in memory : q.upto = r.from
                      /\ r.upto # size => \E q \in memory : q.from = r.upto
  BY DEF Fills
<1>2. /\ \A q \in memory : q.from \in Nat /\ q.upto \in Nat /\ q.from < q.upto /\ q.upto <= size
      /\ \A q \in memory : q # r => q.upto <= r.from \/ r.upto <= q.from
      /\ \A x \in 0..(size - 1) : \E q \in memory : q.from <= x /\ x < q.upto
  BY DEF Tiled, RunType
<1>3. r.from # 0 => \E q \in memory : q.upto = r.from
  <2>1. SUFFICES ASSUME r.from # 0 PROVE \E q \in memory : q.upto = r.from
    OBVIOUS
  <2>2. r.from - 1 \in 0..(size - 1)
    BY <1>2, <2>1
  <2>3. PICK q \in memory : q.from <= r.from - 1 /\ r.from - 1 < q.upto
    BY <1>2, <2>2
  <2>4. QED
    BY <1>2, <2>3
<1>4. r.upto # size => \E q \in memory : q.from = r.upto
  <2>1. SUFFICES ASSUME r.upto # size PROVE \E q \in memory : q.from = r.upto
    OBVIOUS
  <2>2. r.upto \in 0..(size - 1)
    BY <1>2, <2>1
  <2>3. PICK q \in memory : q.from <= r.upto /\ r.upto < q.upto
    BY <1>2, <2>2
  <2>4. QED
    BY <1>2, <2>3
<1>5. QED
  BY <1>2, <1>3, <1>4

\* What is left of a run when bytes are written over.
Cut(s, r, from, upto) ==
  \/ s = r /\ (r.upto <= from \/ r.from >= upto)
  \/ s = Run(r.from, from, r.owner) /\ r.from < from /\ r.upto > from
  \/ s = Run(upto, r.upto, r.owner) /\ r.from < upto /\ r.upto > upto

LEMMA RunsThatAreWritten ==
  ASSUME NEW memory, NEW from, NEW upto, NEW owner, NEW s
  PROVE  s \in Write(memory, from, upto, owner) <=>
           \/ from < upto /\ s = Run(from, upto, owner)
           \/ \E r \in memory : Cut(s, r, from, upto)
<1>1. s \in {r \in memory : r.upto <= from \/ r.from >= upto}
        <=> \E r \in memory : s = r /\ (r.upto <= from \/ r.from >= upto)
  OBVIOUS
<1>2. s \in {Run(r.from, from, r.owner) : r \in {x \in memory : x.from < from /\ x.upto > from}}
        <=> \E r \in memory : s = Run(r.from, from, r.owner) /\ r.from < from /\ r.upto > from
  OBVIOUS
<1>3. s \in {Run(upto, r.upto, r.owner) : r \in {x \in memory : x.from < upto /\ x.upto > upto}}
        <=> \E r \in memory : s = Run(upto, r.upto, r.owner) /\ r.from < upto /\ r.upto > upto
  OBVIOUS
<1>4. s \in (IF from < upto THEN {Run(from, upto, owner)} ELSE {}) <=> from < upto /\ s = Run(from, upto, owner)
  OBVIOUS
<1>5. QED
  BY <1>1, <1>2, <1>3, <1>4 DEF Write, Cut

\* A piece of a run has the owner of the run, and lies in it.
LEMMA PiecesAreInside ==
  ASSUME NEW r \in RunType, NEW from \in Nat, NEW upto \in Nat, from <= upto,
         r.from < r.upto, NEW s, Cut(s, r, from, upto)
  PROVE  /\ s \in RunType /\ s.owner = r.owner
         /\ s.from < s.upto /\ r.from <= s.from /\ s.upto <= r.upto
         /\ s.upto <= from \/ upto <= s.from
  BY DEF Cut, Run, RunType

LEMMA PiecesAreApart ==
  ASSUME NEW r \in RunType, NEW from \in Nat, NEW upto \in Nat, from <= upto,
         r.from < r.upto, NEW s, NEW t, Cut(s, r, from, upto), Cut(t, r, from, upto), s # t
  PROVE  s.upto <= t.from \/ t.upto <= s.from
  BY DEF Cut, Run, RunType

\* What is written over a part of a file takes the place of what was there.
LEMMA WritingOver ==
  ASSUME NEW memory, NEW size \in Nat, Tiled(memory, size),
         NEW from \in Nat, NEW upto \in Nat, from <= upto, upto <= size, NEW owner \in Int
  PROVE  /\ Tiled(Write(memory, from, upto, owner), size)
         /\ \A s \in Write(memory, from, upto, owner) :
              \/ s = Run(from, upto, owner)
              \/ \E r \in memory : s.owner = r.owner /\ r.from <= s.from /\ s.upto <= r.upto
<1> DEFINE N == Write(memory, from, upto, owner)
           new == Run(from, upto, owner)
<1>1. /\ memory \subseteq RunType
      /\ \A r \in memory : r.from \in Nat /\ r.upto \in Nat /\ r.from < r.upto /\ r.upto <= size
      /\ \A q, r \in memory : q # r => q.upto <= r.from \/ r.upto <= q.from
      /\ \A x \in 0..(size - 1) : \E r \in memory : r.from <= x /\ x < r.upto
  BY DEF Tiled, RunType
<1>2. \A s : s \in N <=> (from < upto /\ s = new) \/ \E r \in memory : Cut(s, r, from, upto)
  BY RunsThatAreWritten
<1>3. new \in RunType /\ new.from = from /\ new.upto = upto /\ new.owner = owner
  BY DEF Run, RunType
<1> HIDE DEF N, new
<1>4. ASSUME NEW s, NEW r \in memory, Cut(s, r, from, upto)
      PROVE  /\ s \in RunType /\ s.owner = r.owner
             /\ s.from < s.upto /\ r.from <= s.from /\ s.upto <= r.upto
             /\ s.upto <= from \/ upto <= s.from
  BY <1>1, <1>4, PiecesAreInside
<1>5. ASSUME NEW s \in N
      PROVE  s \in RunType /\ s.from \in Nat /\ s.upto \in Nat /\ s.from < s.upto /\ s.upto <= size
  <2>1. CASE from < upto /\ s = new
    BY <1>3, <2>1
  <2>2. CASE \E r \in memory : Cut(s, r, from, upto)
    <3>1. PICK r \in memory : Cut(s, r, from, upto)
      BY <2>2
    <3>2. s \in RunType /\ s.from < s.upto /\ s.upto <= r.upto
      BY <1>4, <3>1
    <3>3. QED
      BY <1>1, <3>2 DEF RunType
  <2>3. QED
    BY <1>2, <2>1, <2>2
<1>6. ASSUME NEW s \in N, NEW t \in N, s # t
      PROVE  s.upto <= t.from \/ t.upto <= s.from
  <2>1. CASE s = new
    <3>1. PICK r \in memory : Cut(t, r, from, upto)
      BY <1>2, <1>6, <2>1
    <3>2. QED
      BY <1>3, <1>4, <2>1, <3>1
  <2>2. CASE t = new
    <3>1. PICK r \in memory : Cut(s, r, from, upto)
      BY <1>2, <1>6, <2>2
    <3>2. QED
      BY <1>3, <1>4, <2>2, <3>1
  <2>3. CASE s # new /\ t # new
    <3>1. PICK q \in memory : Cut(s, q, from, upto)
      BY <1>2, <2>3
    <3>2. PICK r \in memory : Cut(t, r, from, upto)
      BY <1>2, <2>3
    <3>3. CASE q = r
      BY <1>1, <1>6, <3>1, <3>2, <3>3, PiecesAreApart
    <3>4. CASE q # r
      <4>1. q.upto <= r.from \/ r.upto <= q.from
        BY <1>1, <3>4
      <4>2. q.from <= s.from /\ s.upto <= q.upto /\ r.from <= t.from /\ t.upto <= r.upto
        BY <1>4, <3>1, <3>2
      <4>3. s.from \in Nat /\ s.upto \in Nat /\ t.from \in Nat /\ t.upto \in Nat
        BY <1>5
      <4>4. QED
        BY <1>1, <4>1, <4>2, <4>3
    <3>5. QED
      BY <3>3, <3>4
  <2>4. QED
    BY <2>1, <2>2, <2>3
<1>7. ASSUME NEW x \in 0..(size - 1)
      PROVE  \E s \in N : s.from <= x /\ x < s.upto
  <2>1. PICK r \in memory : r.from <= x /\ x < r.upto
    BY <1>1
  <2>2. CASE from <= x /\ x < upto
    <3>1. new \in N
      BY <1>2, <2>2
    <3>2. QED
      BY <1>3, <2>2, <3>1
  <2>3. CASE r.upto <= from \/ r.from >= upto
    <3>1. Cut(r, r, from, upto)
      BY <2>3 DEF Cut
    <3>2. QED
      BY <1>2, <2>1, <3>1
  <2>4. CASE ~(r.upto <= from \/ r.from >= upto) /\ x < from
    <3>1. r.from < from /\ r.upto > from
      BY <1>1, <2>1, <2>4
    <3>2. Cut(Run(r.from, from, r.owner), r, from, upto)
      BY <3>1 DEF Cut
    <3>3. Run(r.from, from, r.owner) \in N
      BY <1>2, <3>2
    <3>4. QED
      BY <2>1, <2>4, <3>3 DEF Run
  <2>5. CASE ~(r.upto <= from \/ r.from >= upto) /\ upto <= x
    <3>1. r.from < upto /\ r.upto > upto
      BY <1>1, <2>1, <2>5
    <3>2. Cut(Run(upto, r.upto, r.owner), r, from, upto)
      BY <3>1 DEF Cut
    <3>3. Run(upto, r.upto, r.owner) \in N
      BY <1>2, <3>2
    <3>4. QED
      BY <2>1, <2>5, <3>3 DEF Run
  <2>6. QED
    BY <1>1, <2>2, <2>3, <2>4, <2>5
<1>8. Tiled(N, size)
  BY <1>5, <1>6, <1>7 DEF Tiled
<1>9. ASSUME NEW s \in N
      PROVE  \/ s = new
             \/ \E r \in memory : s.owner = r.owner /\ r.from <= s.from /\ s.upto <= r.upto
  BY <1>2, <1>4
<1>10. QED
  BY <1>8, <1>9 DEF N, new

\* Where a run, or a part of it, is after bytes came in at a point.
Shifted(s, r, point, delta) ==
  \/ s = r /\ r.upto <= point
  \/ s = Run(r.from, point, r.owner) /\ r.from < point /\ point < r.upto
  \/ s = Run(point + delta, r.upto + delta, r.owner) /\ r.from < point /\ point < r.upto
  \/ s = Run(r.from + delta, r.upto + delta, r.owner) /\ r.from >= point

LEMMA RunsThatMove ==
  ASSUME NEW memory, NEW point, NEW delta, NEW s
  PROVE  s \in MoveBytes(memory, point, delta) <=> \E r \in memory : Shifted(s, r, point, delta)
<1> DEFINE across == {r \in memory : r.from < point /\ point < r.upto}
<1>1. s \in {r \in memory : r.upto <= point} <=> \E r \in memory : s = r /\ r.upto <= point
  OBVIOUS
<1>2. s \in {Run(r.from, point, r.owner) : r \in across}
        <=> \E r \in memory : s = Run(r.from, point, r.owner) /\ r.from < point /\ point < r.upto
  OBVIOUS
<1>3. s \in {Run(point + delta, r.upto + delta, r.owner) : r \in across}
        <=> \E r \in memory : s = Run(point + delta, r.upto + delta, r.owner) /\ r.from < point /\ point < r.upto
  OBVIOUS
<1>4. s \in {Run(r.from + delta, r.upto + delta, r.owner) : r \in {x \in memory : x.from >= point}}
        <=> \E r \in memory : s = Run(r.from + delta, r.upto + delta, r.owner) /\ r.from >= point
  OBVIOUS
<1>5. QED
  BY <1>1, <1>2, <1>3, <1>4 DEF MoveBytes, Shifted

\* What lies before the point stays, what lies behind moves, and no byte is
\* where the new ones come.
LEMMA ShiftedRuns ==
  ASSUME NEW r \in RunType, NEW point \in Nat, NEW delta \in Nat, r.from < r.upto,
         NEW s, Shifted(s, r, point, delta)
  PROVE  /\ s \in RunType /\ s.owner = r.owner /\ s.from < s.upto
         /\ \/ s.upto <= point /\ r.from <= s.from /\ s.upto <= r.upto
            \/ point + delta <= s.from /\ r.from + delta <= s.from /\ s.upto <= r.upto + delta
  BY DEF Shifted, Run, RunType

LEMMA ShiftedPiecesAreApart ==
  ASSUME NEW r \in RunType, NEW point \in Nat, NEW delta \in Nat, r.from < r.upto,
         NEW s, NEW t, Shifted(s, r, point, delta), Shifted(t, r, point, delta), s # t
  PROVE  s.upto <= t.from \/ t.upto <= s.from
  BY DEF Shifted, Run, RunType

\* Runs stay apart when they move.
LEMMA ShiftedRunsAreApart ==
  ASSUME NEW q \in RunType, NEW r \in RunType, NEW point \in Nat, NEW delta \in Nat,
         q.from < q.upto, r.from < r.upto, q.upto <= r.from,
         NEW s, NEW t, Shifted(s, q, point, delta), Shifted(t, r, point, delta)
  PROVE  s.upto <= t.from
  BY DEF Shifted, Run, RunType

\* Room is made for bytes of an owner: the others stay or move as they are.
LEMMA MakingRoom ==
  ASSUME NEW memory, NEW size \in Nat, Tiled(memory, size),
         NEW point \in 0..size, NEW delta \in Nat, NEW owner \in Int
  PROVE  LET N == Write(MoveBytes(memory, point, delta), point, point + delta, owner)
         IN  /\ Tiled(N, size + delta)
             /\ \A s \in N :
                  \/ s = Run(point, point + delta, owner)
                  \/ \E r \in memory : s.owner = r.owner /\ Shifted(s, r, point, delta)
<1> DEFINE moved == MoveBytes(memory, point, delta)
           new   == Run(point, point + delta, owner)
           N     == Write(moved, point, point + delta, owner)
<1>1. /\ memory \subseteq RunType
      /\ \A r \in memory : r.from \in Nat /\ r.upto \in Nat /\ r.from < r.upto /\ r.upto <= size
      /\ \A q, r \in memory : q # r => q.upto <= r.from \/ r.upto <= q.from
      /\ \A x \in 0..(size - 1) : \E r \in memory : r.from <= x /\ x < r.upto
  BY DEF Tiled, RunType
<1>2. new \in RunType /\ new.from = point /\ new.upto = point + delta /\ new.owner = owner
  BY DEF Run, RunType
<1>3. ASSUME NEW s, NEW r \in memory, Shifted(s, r, point, delta)
      PROVE  /\ s \in RunType /\ s.owner = r.owner /\ s.from < s.upto
             /\ \/ s.upto <= point /\ r.from <= s.from /\ s.upto <= r.upto
                \/ point + delta <= s.from /\ r.from + delta <= s.from /\ s.upto <= r.upto + delta
  BY <1>1, <1>3, ShiftedRuns
<1>4. \A s : s \in moved <=> \E r \in memory : Shifted(s, r, point, delta)
  BY RunsThatMove
<1>5. \A s : s \in N <=> (point < point + delta /\ s = new) \/ \E r \in moved : Cut(s, r, point, point + delta)
  BY RunsThatAreWritten
<1> HIDE DEF N, moved, new
<1>6. \A s \in moved : s.upto <= point \/ s.from >= point + delta
  BY <1>3, <1>4 DEF RunType
<1>7. \A s, r : r \in moved => (Cut(s, r, point, point + delta) <=> s = r)
  <2>1. SUFFICES ASSUME NEW s, NEW r \in moved
                 PROVE  Cut(s, r, point, point + delta) <=> s = r
    OBVIOUS
  <2>2. r \in RunType /\ r.from < r.upto /\ (r.upto <= point \/ r.from >= point + delta)
    BY <1>3, <1>4, <1>6
  <2>3. r.from \in Nat /\ r.upto \in Nat
    BY <2>2 DEF RunType
  <2>4. QED
    BY <2>2, <2>3 DEF Cut
<1>8. \A s : s \in N <=> (0 < delta /\ s = new) \/ s \in moved
  BY <1>5, <1>7
<1>9. ASSUME NEW s \in N
      PROVE  s \in RunType /\ s.from \in Nat /\ s.upto \in Nat /\ s.from < s.upto /\ s.upto <= size + delta
  <2>1. CASE s = new /\ 0 < delta
    BY <1>2, <2>1
  <2>2. CASE s \in moved
    <3>1. PICK r \in memory : Shifted(s, r, point, delta)
      BY <1>4, <2>2
    <3>2. /\ s \in RunType /\ s.from < s.upto
          /\ s.upto <= point \/ s.upto <= r.upto + delta
      BY <1>3, <3>1
    <3>3. QED
      BY <1>1, <3>2 DEF RunType
  <2>3. QED
    BY <1>8, <2>1, <2>2
<1>10. ASSUME NEW s \in N, NEW t \in N, s # t
       PROVE  s.upto <= t.from \/ t.upto <= s.from
  <2>1. CASE s = new \/ t = new
    BY <1>2, <1>6, <1>8, <1>9, <1>10, <2>1
  <2>2. CASE s # new /\ t # new
    <3>1. PICK q \in memory : Shifted(s, q, point, delta)
      BY <1>4, <1>8, <2>2
    <3>2. PICK r \in memory : Shifted(t, r, point, delta)
      BY <1>4, <1>8, <2>2
    <3>3. CASE q = r
      BY <1>1, <1>10, <3>1, <3>2, <3>3, ShiftedPiecesAreApart
    <3>4. CASE q # r
      <4>1. q.upto <= r.from \/ r.upto <= q.from
        BY <1>1, <3>4
      <4>2. q \in RunType /\ r \in RunType /\ q.from < q.upto /\ r.from < r.upto /\ point \in Nat
        BY <1>1
      <4>3. QED
        BY <3>1, <3>2, <4>1, <4>2, ShiftedRunsAreApart
    <3>5. QED
      BY <3>3, <3>4
  <2>3. QED
    BY <2>1, <2>2
<1>11. ASSUME NEW x \in 0..(size + delta - 1)
       PROVE  \E s \in N : s.from <= x /\ x < s.upto
  <2>1. CASE point <= x /\ x < point + delta
    BY <1>2, <1>8, <2>1
  <2>2. CASE x < point
    <3>1. PICK r \in memory : r.from <= x /\ x < r.upto
      BY <1>1, <2>2
    <3>2. CASE r.upto <= point
      <4>1. Shifted(r, r, point, delta)
        BY <3>2 DEF Shifted
      <4>2. QED
        BY <1>4, <1>8, <3>1, <4>1
    <3>3. CASE point < r.upto
      <4>1. r.from < point
        BY <1>1, <2>2, <3>1
      <4>2. Shifted(Run(r.from, point, r.owner), r, point, delta)
        BY <3>3, <4>1 DEF Shifted
      <4>3. Run(r.from, point, r.owner) \in N
        BY <1>4, <1>8, <4>2
      <4>4. QED
        BY <2>2, <3>1, <4>3 DEF Run
    <3>4. QED
      BY <1>1, <3>2, <3>3
  <2>3. CASE point + delta <= x
    <3>1. x - delta \in 0..(size - 1)
      BY <2>3
    <3>2. PICK r \in memory : r.from <= x - delta /\ x - delta < r.upto
      BY <1>1, <3>1
    <3>3. CASE r.from >= point
      <4>1. Shifted(Run(r.from + delta, r.upto + delta, r.owner), r, point, delta)
        BY <3>3 DEF Shifted
      <4>2. Run(r.from + delta, r.upto + delta, r.owner) \in N
        BY <1>4, <1>8, <4>1
      <4>3. r.from + delta <= x /\ x < r.upto + delta
        BY <1>1, <3>2
      <4>4. QED
        BY <4>2, <4>3 DEF Run
    <3>4. CASE r.from < point
      <4>1. point < r.upto
        BY <1>1, <2>3, <3>2
      <4>2. Shifted(Run(point + delta, r.upto + delta, r.owner), r, point, delta)
        BY <3>4, <4>1 DEF Shifted
      <4>3. Run(point + delta, r.upto + delta, r.owner) \in N
        BY <1>4, <1>8, <4>2
      <4>4. x < r.upto + delta
        BY <1>1, <3>2
      <4>5. QED
        BY <2>3, <4>3, <4>4 DEF Run
    <3>5. QED
      BY <1>1, <3>3, <3>4
  <2>4. QED
    BY <2>1, <2>2, <2>3
<1>12. Tiled(N, size + delta)
  BY <1>9, <1>10, <1>11 DEF Tiled
<1>13. ASSUME NEW s \in N
       PROVE  s = new \/ \E r \in memory : s.owner = r.owner /\ Shifted(s, r, point, delta)
  BY <1>3, <1>4, <1>8
<1>14. QED
  BY <1>12, <1>13 DEF N, moved, new

-----------------------------------------------------------------------------
(* Where things are.                                                       *)

PathType      == [key : Nat, value : Nat]
PathsType     == [kind : {"paths"}, paths : Seq(PathType), forward : {0}]
PlaceType     == [address : Nat, length : Nat]

\* The names that the writer of an archive gives.
Names == {"CARHEADER", "KEYFORMAT", "FACETKEYS", "RENDITIONS"}

NamedType     == [name : Names, index : Nat, upto : Nat]

StoreOf(size, memory, tableOffset, tableLength, variablesOffset, trailer, blockCount, table, blocks, variables) ==
  [size |-> size, memory |-> memory, tableOffset |-> tableOffset, tableLength |-> tableLength,
   variablesOffset |-> variablesOffset, trailer |-> trailer, blockCount |-> blockCount,
   table |-> table, blocks |-> blocks, variables |-> variables]

IsStore(b) ==
  /\ b = StoreOf(b.size, b.memory, b.tableOffset, b.tableLength, b.variablesOffset, b.trailer,
                 b.blockCount, b.table, b.blocks, b.variables)
  /\ b.size \in Nat /\ b.tableOffset \in Nat /\ b.tableLength \in Nat
  /\ b.variablesOffset \in Nat /\ b.trailer \in Nat /\ b.blockCount \in Nat
  /\ b.table \in Seq(PlaceType) /\ b.variables \in Seq(NamedType)
  /\ \E S : b.blocks \in Seq(S)

\* What bytes may belong to, and the bytes that do.
Owners(b) == {Header, Table, Variables} \cup 0..(b.blockCount - 1)

Begins(b, x) ==
  IF x = Header THEN 0 ELSE IF x = Table THEN b.tableOffset
  ELSE IF x = Variables THEN b.variablesOffset ELSE b.table[x + 1].address

Ends(b, x) ==
  IF x = Header THEN HeaderSize ELSE IF x = Table THEN b.tableOffset + b.tableLength
  ELSE IF x = Variables THEN b.variablesOffset + b.trailer ELSE b.table[x + 1].address + b.table[x + 1].length

\* The header, the table, the variables and then the blocks, none over another.
LaidOut(b) ==
  /\ b.tableOffset = HeaderSize
  /\ b.variablesOffset = b.tableOffset + b.tableLength
  /\ VariablesEnd(b) \in Nat /\ VariablesSize + VariablesEnd(b) <= b.trailer
  /\ b.variablesOffset + b.trailer <= b.size
  /\ b.blockCount <= Len(b.blocks) /\ b.blockCount <= Count(b)
  /\ TableHeaderSize + EntrySize * Count(b) <= b.tableLength

BlocksAreApart(b) ==
  \A i \in 1..b.blockCount :
    /\ b.variablesOffset + b.trailer <= b.table[i].address
    /\ b.table[i].address + b.table[i].length <= b.size
    /\ \A j \in 1..b.blockCount : i # j =>
         \/ b.table[i].address + b.table[i].length <= b.table[j].address
         \/ b.table[j].address + b.table[j].length <= b.table[i].address

\* Each run lies inside of what it belongs to.
RunsLieInside(b) ==
  \A r \in b.memory : r.owner \in Owners(b) /\ Begins(b, r.owner) <= r.from /\ r.upto <= Ends(b, r.owner)

PathsFit(b) ==
  \A i \in 1..b.blockCount : b.blocks[i].kind = "paths" =>
    b.blocks[i] \in PathsType /\ PathsSize + PathSize * Len(b.blocks[i].paths) <= b.table[i].length

Whole(b) ==
  IsStore(b) /\ LaidOut(b) /\ BlocksAreApart(b) /\ Tiled(b.memory, b.size) /\ RunsLieInside(b) /\ PathsFit(b)

Sizes ==
  /\ HeaderSize = 32 /\ TableHeaderSize = 4 /\ EntrySize = 8 /\ VariablesSize = 4
  /\ VariableSize = 5 /\ TreeSize = 21 /\ PathsSize = 12 /\ PathSize = 8
  /\ Header = -1 /\ Table = -2 /\ Variables = -3

LEMMA TheSizes == Sizes
  BY DEF Sizes, HeaderSize, TableHeaderSize, EntrySize, VariablesSize, VariableSize, TreeSize, PathsSize,
         PathSize, Header, Table, Variables

\* The places of a block are numbers, and no block has the number of another owner.
LEMMA PlacesOfBlocks ==
  ASSUME NEW b, Whole(b), NEW n \in 0..(b.blockCount - 1)
  PROVE  /\ b.table[n + 1] \in PlaceType
         /\ Begins(b, n) = b.table[n + 1].address /\ Begins(b, n) \in Nat
         /\ Ends(b, n) = b.table[n + 1].address + b.table[n + 1].length /\ Ends(b, n) \in Nat
         /\ Begins(b, n) <= Ends(b, n)
<1>1. n # Header /\ n # Table /\ n # Variables
  BY TheSizes DEF Sizes
<1>2. b.table[n + 1] \in PlaceType
  <2>1. b.table \in Seq(PlaceType) /\ b.blockCount \in Nat /\ b.blockCount <= Len(b.table)
    BY DEF Whole, IsStore, LaidOut, Count
  <2>2. n + 1 \in 1..Len(b.table)
    BY <2>1
  <2>3. QED
    BY <2>1, <2>2
<1>3. QED
  BY <1>1, <1>2 DEF Begins, Ends, PlaceType

\* All that bytes may belong to is apart from the rest, and within the file.
LEMMA OwnersAreApart ==
  ASSUME NEW b, Whole(b), NEW x \in Owners(b)
  PROVE  /\ Begins(b, x) \in Nat /\ Ends(b, x) \in Nat
         /\ Begins(b, x) <= Ends(b, x) /\ Ends(b, x) <= b.size
         /\ \A y \in Owners(b) : x # y => Ends(b, x) <= Begins(b, y) \/ Ends(b, y) <= Begins(b, x)
<1> DEFINE Fixed == {Header, Table, Variables}
           Placed(y) == Begins(b, y) \in Nat /\ Ends(b, y) \in Nat /\ Begins(b, y) <= Ends(b, y) /\ Ends(b, y) <= b.size
           Apart(y, z) == Ends(b, y) <= Begins(b, z) \/ Ends(b, z) <= Begins(b, y)
<1>1. /\ b.size \in Nat /\ b.tableOffset \in Nat /\ b.tableLength \in Nat
      /\ b.variablesOffset \in Nat /\ b.trailer \in Nat /\ b.blockCount \in Nat
      /\ b.tableOffset = 32 /\ b.variablesOffset = b.tableOffset + b.tableLength
      /\ b.variablesOffset + b.trailer <= b.size
  BY TheSizes DEF Whole, IsStore, LaidOut, Sizes
<1>2. /\ Begins(b, Header) = 0 /\ Ends(b, Header) = 32
      /\ Begins(b, Table) = 32 /\ Ends(b, Table) = b.variablesOffset
      /\ Begins(b, Variables) = b.variablesOffset /\ Ends(b, Variables) = b.variablesOffset + b.trailer
  BY <1>1, TheSizes DEF Begins, Ends, Sizes
<1>3. ASSUME NEW n \in 0..(b.blockCount - 1)
      PROVE  /\ Begins(b, n) = b.table[n + 1].address /\ Ends(b, n) = b.table[n + 1].address + b.table[n + 1].length
             /\ Begins(b, n) \in Nat /\ Ends(b, n) \in Nat /\ Begins(b, n) <= Ends(b, n)
             /\ b.variablesOffset + b.trailer <= Begins(b, n) /\ Ends(b, n) <= b.size
  <2>1. n + 1 \in 1..b.blockCount
    BY <1>1
  <2>2. b.variablesOffset + b.trailer <= b.table[n + 1].address
           /\ b.table[n + 1].address + b.table[n + 1].length <= b.size
    BY <2>1 DEF Whole, BlocksAreApart
  <2>3. QED
    BY <2>2, PlacesOfBlocks
<1>4. ASSUME NEW m \in 0..(b.blockCount - 1), NEW n \in 0..(b.blockCount - 1), m # n
      PROVE  Apart(m, n)
  <2>1. m + 1 \in 1..b.blockCount /\ n + 1 \in 1..b.blockCount /\ m + 1 # n + 1
    BY <1>1, <1>4
  <2>2. \/ b.table[m + 1].address + b.table[m + 1].length <= b.table[n + 1].address
        \/ b.table[n + 1].address + b.table[n + 1].length <= b.table[m + 1].address
    BY <2>1 DEF Whole, BlocksAreApart
  <2>3. QED
    BY <1>3, <2>2
<1>5. \A y \in Fixed : Placed(y) /\ Ends(b, y) <= b.variablesOffset + b.trailer
  BY <1>1, <1>2
<1>6. \A y, z \in Fixed : y # z => Apart(y, z)
  BY <1>1, <1>2
<1>7. Placed(x)
  BY <1>3, <1>5 DEF Owners
<1>8. ASSUME NEW y \in Owners(b), x # y
      PROVE  Apart(x, y)
  <2>1. CASE x \in Fixed /\ y \in Fixed
    BY <1>6, <1>8, <2>1
  <2>2. CASE x \in Fixed /\ y \in 0..(b.blockCount - 1)
    <3>1. Ends(b, x) <= b.variablesOffset + b.trailer /\ Ends(b, x) \in Nat
      BY <1>5, <2>2
    <3>2. b.variablesOffset + b.trailer <= Begins(b, y) /\ Begins(b, y) \in Nat
      BY <1>3, <2>2
    <3>3. QED
      BY <1>1, <3>1, <3>2
  <2>3. CASE y \in Fixed /\ x \in 0..(b.blockCount - 1)
    <3>1. Ends(b, y) <= b.variablesOffset + b.trailer /\ Ends(b, y) \in Nat
      BY <1>5, <2>3
    <3>2. b.variablesOffset + b.trailer <= Begins(b, x) /\ Begins(b, x) \in Nat
      BY <1>3, <2>3
    <3>3. QED
      BY <1>1, <3>1, <3>2
  <2>4. CASE x \in 0..(b.blockCount - 1) /\ y \in 0..(b.blockCount - 1)
    BY <1>4, <1>8, <2>4
  <2>5. QED
    BY <2>1, <2>2, <2>3, <2>4 DEF Owners
<1>9. QED
  BY <1>7, <1>8

\* What lies where an owner is belongs to it.
LEMMA BytesBelong ==
  ASSUME NEW b, Whole(b), NEW x \in Owners(b), NEW length \in Nat, Begins(b, x) + length <= Ends(b, x)
  PROVE  Belongs(b, x, Begins(b, x), length)
<1>1. /\ Begins(b, x) \in Nat /\ Ends(b, x) \in Nat
      /\ Begins(b, x) <= Ends(b, x) /\ Ends(b, x) <= b.size
      /\ \A y \in Owners(b) : x # y => Ends(b, x) <= Begins(b, y) \/ Ends(b, y) <= Begins(b, x)
  BY OwnersAreApart
<1>2. b.size \in Nat
  BY DEF Whole, IsStore
<1>3. ASSUME NEW r \in b.memory
      PROVE  /\ r.owner \in Owners(b) /\ Begins(b, r.owner) <= r.from /\ r.upto <= Ends(b, r.owner)
             /\ r.from \in Nat /\ r.upto \in Nat /\ r.from < r.upto
  BY DEF Whole, RunsLieInside, Tiled, RunType
<1>4. ASSUME NEW r \in b.memory, r.from < Begins(b, x) + length, Begins(b, x) < r.upto
      PROVE  r.owner = x
  <2>1. Begins(b, r.owner) \in Nat /\ Ends(b, r.owner) \in Nat
    BY <1>3, OwnersAreApart
  <2>2. ~(Ends(b, x) <= Begins(b, r.owner)) /\ ~(Ends(b, r.owner) <= Begins(b, x))
    BY <1>1, <1>3, <1>4, <2>1
  <2>3. QED
    BY <1>1, <1>3, <2>2
<1>5. \A r \in b.memory : r.owner = x => r.from >= Begins(b, x)
  BY <1>1, <1>3
<1>6. Begins(b, x) + length <= b.size
  BY <1>1, <1>2
<1>7. QED
  BY <1>4, <1>5, <1>6 DEF Belongs

LEMMA WholeStoresHaveWholeBlocks == Whole(bom) => BlocksAreWhole
<1> SUFFICES ASSUME Whole(bom) PROVE BlocksAreWhole
  OBVIOUS
<1>1. /\ bom.size \in Nat /\ bom.tableLength \in Nat /\ bom.trailer \in Nat /\ bom.blockCount \in Nat
      /\ bom.tableOffset \in Nat /\ bom.variablesOffset \in Nat
  BY DEF Whole, IsStore
<1>2. Header \in Owners(bom) /\ Table \in Owners(bom) /\ Variables \in Owners(bom)
  BY DEF Owners
<1>3. /\ Begins(bom, Header) = 0 /\ Ends(bom, Header) = HeaderSize
      /\ Begins(bom, Table) = bom.tableOffset /\ Ends(bom, Table) = bom.tableOffset + bom.tableLength
      /\ Begins(bom, Variables) = bom.variablesOffset /\ Ends(bom, Variables) = bom.variablesOffset + bom.trailer
  BY TheSizes DEF Begins, Ends, Sizes
<1>4. HeaderSize \in Nat
  BY DEF HeaderSize
<1>5. Belongs(bom, Header, 0, HeaderSize)
  BY <1>2, <1>3, <1>4, BytesBelong
<1>6. Belongs(bom, Table, bom.tableOffset, bom.tableLength)
  <2>1. Begins(bom, Table) + bom.tableLength <= Ends(bom, Table)
    BY <1>1, <1>3
  <2>2. QED
    BY <1>1, <1>2, <1>3, <2>1, BytesBelong
<1>7. Belongs(bom, Variables, bom.variablesOffset, bom.trailer)
  <2>1. Begins(bom, Variables) + bom.trailer <= Ends(bom, Variables)
    BY <1>1, <1>3
  <2>2. QED
    BY <1>1, <1>2, <1>3, <2>1, BytesBelong
<1>8. ASSUME NEW n \in 0..(bom.blockCount - 1)
      PROVE  /\ Belongs(bom, n, Entry(bom, n).address, Entry(bom, n).length)
             /\ \A r \in bom.memory : r.owner = n => r.upto <= Entry(bom, n).address + Entry(bom, n).length
             /\ bom.blocks[n + 1].kind = "paths" =>
                  PathsSize + PathSize * Len(bom.blocks[n + 1].paths) <= Entry(bom, n).length
  <2>1. n \in Owners(bom)
    BY DEF Owners
  <2>2. /\ Entry(bom, n) = bom.table[n + 1] /\ Entry(bom, n) \in PlaceType
        /\ Begins(bom, n) = Entry(bom, n).address
        /\ Ends(bom, n) = Entry(bom, n).address + Entry(bom, n).length
    BY PlacesOfBlocks DEF Entry
  <2>3. Belongs(bom, n, Entry(bom, n).address, Entry(bom, n).length)
    <3>1. Entry(bom, n).length \in Nat /\ Begins(bom, n) + Entry(bom, n).length <= Ends(bom, n)
      BY <2>2 DEF PlaceType
    <3>2. Belongs(bom, n, Begins(bom, n), Entry(bom, n).length)
      BY <2>1, <3>1, BytesBelong
    <3>3. QED
      BY <2>2, <3>2
  <2>4. \A r \in bom.memory : r.owner = n => r.upto <= Entry(bom, n).address + Entry(bom, n).length
    BY <2>2 DEF Whole, RunsLieInside
  <2>5. n + 1 \in 1..bom.blockCount
    BY <1>1
  <2>6. bom.blocks[n + 1].kind = "paths" =>
          PathsSize + PathSize * Len(bom.blocks[n + 1].paths) <= Entry(bom, n).length
    BY <2>2, <2>5 DEF Whole, PathsFit
  <2>7. QED
    BY <2>3, <2>4, <2>6
<1>9. TableHeaderSize + EntrySize * Count(bom) <= bom.tableLength
  BY DEF Whole, LaidOut
<1>10. Fills(bom.memory, bom.size)
  BY <1>1, TiledFileIsFull DEF Whole
<1>11. QED
  BY <1>5, <1>6, <1>7, <1>8, <1>9, <1>10 DEF BlocksAreWhole

(***************************************************************************)
(* Who reads a block of a whole file gets what was written for it, unless the*)
(* block is empty.                                                          *)
(***************************************************************************)
LEMMA BlocksAreRead ==
  ASSUME NEW b, Whole(b), NEW n \in 0..(b.blockCount - 1), Entry(b, n).length # 0
  PROVE  IndexGet(b, n) = b.blocks[n + 1]
<1> DEFINE at    == Entry(b, n)
           found == {r \in b.memory : r.from = at.address /\ r.owner >= 0 /\ Belongs(b, r.owner, at.address, at.length)}
<1>1. /\ at \in PlaceType /\ Begins(b, n) = at.address /\ Ends(b, n) = at.address + at.length
      /\ at.address \in Nat /\ at.length \in Nat
  BY PlacesOfBlocks DEF Entry, PlaceType
<1>2. b.size \in Nat /\ b.blockCount \in Nat /\ b.blockCount <= Count(b) /\ Count(b) \in Nat
  BY DEF Whole, IsStore, LaidOut, Count
<1>3. n \in Owners(b) /\ n \in 0..(Count(b) - 1)
  BY <1>2 DEF Owners
<1>4. at.address + at.length <= b.size
  BY <1>1, <1>3, OwnersAreApart
<1>5. Belongs(b, n, at.address, at.length)
  <2>1. Belongs(b, n, Begins(b, n), at.length)
    BY <1>1, <1>3, BytesBelong
  <2>2. QED
    BY <1>1, <2>1
<1>6. ASSUME NEW r \in b.memory
      PROVE  r.from \in Nat /\ r.upto \in Nat /\ r.from < r.upto /\ r.owner \in Int
  BY DEF Whole, Tiled, RunType
<1>7. PICK r \in b.memory : r.from <= at.address /\ at.address < r.upto
  <2>1. at.address \in 0..(b.size - 1)
    BY <1>1, <1>2, <1>4
  <2>2. QED
    BY <2>1 DEF Whole, Tiled
<1>8. r.owner = n /\ r.from = at.address
  <2>1. r.from < at.address + at.length
    BY <1>1, <1>6, <1>7
  <2>2. r.owner = n
    BY <1>5, <1>7, <2>1 DEF Belongs
  <2>3. r.from >= at.address
    BY <1>5, <2>2 DEF Belongs
  <2>4. QED
    BY <1>1, <1>6, <1>7, <2>2, <2>3
<1>9. r \in found
  BY <1>5, <1>8
<1>10. ASSUME NEW q \in found
       PROVE  q.owner = n
  <2>1. q.from = at.address /\ q \in b.memory
    OBVIOUS
  <2>2. q.from < at.address + at.length /\ at.address < q.upto
    BY <1>1, <1>6, <2>1
  <2>3. QED
    BY <1>5, <2>1, <2>2 DEF Belongs
<1>11. (CHOOSE q \in found : TRUE).owner = n
  <2> HIDE DEF found
  <2> QED
    BY <1>9, <1>10
<1>12. IndexGet(b, n) = IF at.length = 0 \/ found = {} THEN Torn ELSE b.blocks[(CHOOSE q \in found : TRUE).owner + 1]
  BY <1>3, <1>4, <1>1, <1>2 DEF IndexGet
<1> HIDE DEF found
<1>13. QED
  BY <1>9, <1>11, <1>12

-----------------------------------------------------------------------------
(* The operations of the store keep it whole.                               *)

\* Where an owner is when room was made: it is before the room, behind it, or
\* it is the one that the room was made for.
StaysInPlace(b, c, x, point, delta, owner) ==
  \/ Begins(b, x) < point /\ Ends(b, x) <= point /\ Begins(c, x) = Begins(b, x) /\ Ends(c, x) = Ends(b, x)
  \/ point <= Begins(b, x) /\ Begins(c, x) = Begins(b, x) + delta /\ Ends(c, x) = Ends(b, x) + delta
  \/ /\ x = owner /\ Begins(b, x) < point /\ point <= Ends(b, x)
     /\ Begins(c, x) = Begins(b, x) /\ Ends(c, x) = Ends(b, x) + delta

LEMMA RoomIsInside ==
  ASSUME NEW b, Whole(b), NEW c, NEW point \in 0..b.size, NEW delta \in Nat, NEW owner \in Int,
         c.memory = Write(MoveBytes(b.memory, point, delta), point, point + delta, owner),
         owner \in Owners(c), Begins(c, owner) <= point, point + delta <= Ends(c, owner),
         \A x \in Owners(b) : x \in Owners(c) /\ StaysInPlace(b, c, x, point, delta, owner)
  PROVE  Tiled(c.memory, b.size + delta) /\ RunsLieInside(c)
<1>1. b.size \in Nat /\ Tiled(b.memory, b.size)
  BY DEF Whole, IsStore
<1>2. /\ Tiled(c.memory, b.size + delta)
      /\ \A s \in c.memory :
           \/ s = Run(point, point + delta, owner)
           \/ \E r \in b.memory : s.owner = r.owner /\ Shifted(s, r, point, delta)
  <2> DEFINE N == Write(MoveBytes(b.memory, point, delta), point, point + delta, owner)
  <2>1. /\ Tiled(N, b.size + delta)
        /\ \A s \in N :
             \/ s = Run(point, point + delta, owner)
             \/ \E r \in b.memory : s.owner = r.owner /\ Shifted(s, r, point, delta)
    BY <1>1, MakingRoom
  <2>2. c.memory = N
    OBVIOUS
  <2> HIDE DEF N
  <2>3. QED
    BY <2>1, <2>2
<1>3. ASSUME NEW s \in c.memory
      PROVE  s.owner \in Owners(c) /\ Begins(c, s.owner) <= s.from /\ s.upto <= Ends(c, s.owner)
  <2>1. CASE s = Run(point, point + delta, owner)
    BY <2>1 DEF Run
  <2>2. CASE \E r \in b.memory : s.owner = r.owner /\ Shifted(s, r, point, delta)
    <3>1. PICK r \in b.memory : s.owner = r.owner /\ Shifted(s, r, point, delta)
      BY <2>2
    <3>2. /\ r \in RunType /\ r.from < r.upto /\ r.owner \in Owners(b)
          /\ Begins(b, r.owner) <= r.from /\ r.upto <= Ends(b, r.owner)
      BY <1>1 DEF Whole, RunsLieInside, Tiled
    <3>3. /\ s \in RunType /\ s.from < s.upto
          /\ \/ s.upto <= point /\ r.from <= s.from /\ s.upto <= r.upto
             \/ point + delta <= s.from /\ r.from + delta <= s.from /\ s.upto <= r.upto + delta
      BY <3>1, <3>2, ShiftedRuns
    <3>4. s.from \in Nat /\ s.upto \in Nat /\ r.from \in Nat /\ r.upto \in Nat
      BY <3>2, <3>3 DEF RunType
    <3>5. Begins(b, r.owner) \in Nat /\ Ends(b, r.owner) \in Nat
      BY <3>2, OwnersAreApart
    <3>6. r.owner \in Owners(c) /\ StaysInPlace(b, c, r.owner, point, delta, owner)
      BY <3>2
    <3>7. Begins(c, r.owner) <= s.from /\ s.upto <= Ends(c, r.owner)
      BY <3>2, <3>3, <3>4, <3>5, <3>6 DEF StaysInPlace
    <3>8. QED
      BY <3>1, <3>6, <3>7
  <2>3. QED
    BY <1>2, <2>1, <2>2
<1>4. QED
  BY <1>2, <1>3 DEF RunsLieInside

\* What was there is still there, where it was.
SamePlaces(b, c) ==
  \A x \in Owners(b) : /\ x \in Owners(c) /\ Begins(c, x) = Begins(b, x) /\ Ends(c, x) = Ends(b, x)
                       /\ Begins(b, x) \in Nat /\ Ends(b, x) \in Nat

\* Bytes that are written over inside of what they belong to stay inside.
LEMMA WrittenInside ==
  ASSUME NEW b, NEW c, NEW size \in Nat, Tiled(b.memory, size), RunsLieInside(b),
         NEW from \in Nat, NEW upto \in Nat, from <= upto, upto <= size, NEW owner \in Owners(b),
         owner \in Int, Begins(b, owner) <= from, upto <= Ends(b, owner),
         c.memory = Write(b.memory, from, upto, owner),
         SamePlaces(b, c)
  PROVE  Tiled(c.memory, size) /\ RunsLieInside(c)
<1>1. /\ Tiled(c.memory, size)
      /\ \A s \in c.memory :
           \/ s = Run(from, upto, owner)
           \/ \E r \in b.memory : s.owner = r.owner /\ r.from <= s.from /\ s.upto <= r.upto
  <2> DEFINE N == Write(b.memory, from, upto, owner)
  <2>1. /\ Tiled(N, size)
        /\ \A s \in N :
             \/ s = Run(from, upto, owner)
             \/ \E r \in b.memory : s.owner = r.owner /\ r.from <= s.from /\ s.upto <= r.upto
    BY WritingOver
  <2>2. c.memory = N
    OBVIOUS
  <2> HIDE DEF N
  <2>3. QED
    BY <2>1, <2>2
<1>2. ASSUME NEW s \in c.memory
      PROVE  s.owner \in Owners(c) /\ Begins(c, s.owner) <= s.from /\ s.upto <= Ends(c, s.owner)
  <2>1. CASE s = Run(from, upto, owner)
    BY <2>1 DEF Run, SamePlaces
  <2>2. CASE \E r \in b.memory : s.owner = r.owner /\ r.from <= s.from /\ s.upto <= r.upto
    <3>1. PICK r \in b.memory : s.owner = r.owner /\ r.from <= s.from /\ s.upto <= r.upto
      BY <2>2
    <3>2. /\ r \in RunType /\ s \in RunType /\ r.owner \in Owners(b)
          /\ Begins(b, r.owner) <= r.from /\ r.upto <= Ends(b, r.owner)
      BY <1>1 DEF Tiled, RunsLieInside
    <3>3. QED
      BY <3>1, <3>2 DEF RunType, SamePlaces
  <2>3. QED
    BY <1>1, <2>1, <2>2
<1>3. QED
  BY <1>1, <1>2 DEF RunsLieInside

\* A store after room was made, but for what the owner of the room now has.
LEMMA ResizedStore ==
  ASSUME NEW b, IsStore(b), NEW point \in Nat, NEW delta \in Nat, NEW owner
  PROVE  LET c     == Resize(b, point, delta, owner)
             table == [i \in DOMAIN b.table |-> [b.table[i] EXCEPT !.address = Moved(@, point, delta)]]
         IN  /\ c = StoreOf(b.size + delta,
                            Write(MoveBytes(b.memory, point, delta), point, point + delta, owner),
                            Moved(b.tableOffset, point, delta), b.tableLength,
                            Moved(b.variablesOffset, point, delta), b.trailer, b.blockCount,
                            table, b.blocks, b.variables)
             /\ table \in Seq(PlaceType) /\ Len(table) = Len(b.table)
             /\ \A i \in 1..Len(b.table) :
                  /\ table[i].address = Moved(b.table[i].address, point, delta)
                  /\ table[i].length = b.table[i].length
<1> DEFINE table == [i \in DOMAIN b.table |-> [b.table[i] EXCEPT !.address = Moved(@, point, delta)]]
           moved == Write(MoveBytes(b.memory, point, delta), point, point + delta, owner)
           c     == Resize(b, point, delta, owner)
<1>1. b.table \in Seq(PlaceType) /\ DOMAIN b.table = 1..Len(b.table) /\ Len(b.table) \in Nat
  BY DEF IsStore
<1>2. ASSUME NEW i \in 1..Len(b.table)
      PROVE  /\ table[i] \in PlaceType
             /\ table[i].address = Moved(b.table[i].address, point, delta)
             /\ table[i].length = b.table[i].length
  <2>1. b.table[i] \in PlaceType
    BY <1>1
  <2>2. table[i] = [b.table[i] EXCEPT !.address = Moved(@, point, delta)]
    BY <1>1
  <2>3. Moved(b.table[i].address, point, delta) \in Nat
    BY <2>1 DEF Moved, PlaceType
  <2>4. QED
    BY <2>1, <2>2, <2>3 DEF PlaceType
<1>3. table \in [1..Len(b.table) -> PlaceType]
  BY <1>1, <1>2
<1>4. table \in Seq(PlaceType) /\ Len(table) = Len(b.table)
  <2> HIDE DEF table
  <2> QED
    BY <1>1, <1>3
<1>5. c = StoreOf(b.size + delta, moved, Moved(b.tableOffset, point, delta), b.tableLength,
                  Moved(b.variablesOffset, point, delta), b.trailer, b.blockCount,
                  table, b.blocks, b.variables)
  <2> DEFINE u == UpdateAddresses(b, point, delta)
  <2>1. b = StoreOf(b.size, b.memory, b.tableOffset, b.tableLength, b.variablesOffset, b.trailer,
                    b.blockCount, b.table, b.blocks, b.variables)
    BY DEF IsStore
  <2>2. u = StoreOf(b.size, b.memory, Moved(b.tableOffset, point, delta), b.tableLength,
                    Moved(b.variablesOffset, point, delta), b.trailer, b.blockCount,
                    table, b.blocks, b.variables)
    <3>1. u = [b EXCEPT !.table = table, !.tableOffset = Moved(b.tableOffset, point, delta),
                        !.variablesOffset = Moved(b.variablesOffset, point, delta)]
      BY DEF UpdateAddresses
    <3> HIDE DEF u, table
    <3>2. QED
      BY <2>1, <3>1 DEF StoreOf
  <2>3. c = [u EXCEPT !.size = b.size + delta, !.memory = moved]
    <3>1. u.size = b.size /\ u.memory = b.memory
      <4> HIDE DEF u, table
      <4> QED
        BY <2>2 DEF StoreOf
    <3>2. c = [u EXCEPT !.size = u.size + delta, !.memory = Write(MoveBytes(u.memory, point, delta), point, point + delta, owner)]
      BY DEF Resize
    <3>3. QED
      BY <3>1, <3>2
  <2> HIDE DEF u, c, table, moved
  <2>4. QED
    BY <2>2, <2>3 DEF StoreOf
<1>6. QED
  BY <1>2, <1>4, <1>5

\* A store with as many blocks, in which room was made.
LEMMA BlocksStayApart ==
  ASSUME NEW b, Whole(b), NEW c, IsStore(c), NEW point \in 0..b.size, NEW delta \in Nat, NEW owner,
         c.size = b.size + delta, c.blockCount = b.blockCount, b.blockCount <= Count(c),
         \A n \in 0..(b.blockCount - 1) :
           StaysInPlace(b, c, n, point, delta, owner) /\ c.variablesOffset + c.trailer <= Begins(c, n)
  PROVE  BlocksAreApart(c)
<1>1. b.size \in Nat /\ b.blockCount \in Nat /\ point \in Nat
  BY DEF Whole, IsStore
<1>2. ASSUME NEW i \in 1..b.blockCount
      PROVE  /\ i - 1 \in 0..(b.blockCount - 1) /\ i - 1 \in Owners(b)
             /\ Begins(b, i - 1) = b.table[i].address /\ Ends(b, i - 1) = b.table[i].address + b.table[i].length
             /\ Begins(c, i - 1) = c.table[i].address /\ Ends(c, i - 1) = c.table[i].address + c.table[i].length
             /\ Begins(b, i - 1) \in Nat /\ Ends(b, i - 1) \in Nat
             /\ Begins(b, i - 1) <= Ends(b, i - 1) /\ Ends(b, i - 1) <= b.size
             /\ StaysInPlace(b, c, i - 1, point, delta, owner)
             /\ c.variablesOffset + c.trailer <= Begins(c, i - 1)
             /\ \A j \in 1..b.blockCount : i # j => Ends(b, i - 1) <= Begins(b, j - 1) \/ Ends(b, j - 1) <= Begins(b, i - 1)
  <2>1. i - 1 \in 0..(b.blockCount - 1) /\ i - 1 \in Owners(b) /\ (i - 1) + 1 = i
    BY <1>1 DEF Owners
  <2>2. \A j \in 1..b.blockCount : j - 1 \in Owners(b) /\ (i # j => i - 1 # j - 1)
    BY <1>1 DEF Owners
  <2>3. /\ Begins(b, i - 1) \in Nat /\ Ends(b, i - 1) \in Nat
        /\ Begins(b, i - 1) <= Ends(b, i - 1) /\ Ends(b, i - 1) <= b.size
        /\ \A y \in Owners(b) : i - 1 # y => Ends(b, i - 1) <= Begins(b, y) \/ Ends(b, y) <= Begins(b, i - 1)
    BY <2>1, OwnersAreApart
  <2>4. i - 1 # Header /\ i - 1 # Table /\ i - 1 # Variables
    BY <2>1, TheSizes DEF Sizes
  <2>5. /\ Begins(b, i - 1) = b.table[i].address /\ Ends(b, i - 1) = b.table[i].address + b.table[i].length
        /\ Begins(c, i - 1) = c.table[i].address /\ Ends(c, i - 1) = c.table[i].address + c.table[i].length
    BY <2>1, <2>4 DEF Begins, Ends
  <2>6. QED
    BY <2>1, <2>2, <2>3, <2>5
<1>3. ASSUME NEW i \in 1..b.blockCount, NEW j \in 1..b.blockCount, i # j
      PROVE  Ends(c, i - 1) <= Begins(c, j - 1) \/ Ends(c, j - 1) <= Begins(c, i - 1)
  <2> DEFINE x == i - 1
             y == j - 1
  <2>1. /\ Begins(b, x) \in Nat /\ Ends(b, x) \in Nat /\ Begins(b, x) <= Ends(b, x)
        /\ Begins(b, y) \in Nat /\ Ends(b, y) \in Nat /\ Begins(b, y) <= Ends(b, y)
        /\ Ends(b, x) <= Begins(b, y) \/ Ends(b, y) <= Begins(b, x)
    BY <1>2, <1>3
  <2>2. StaysInPlace(b, c, x, point, delta, owner) /\ StaysInPlace(b, c, y, point, delta, owner)
    BY <1>2
  <2>3. x # y
    BY <1>3
  <2> HIDE DEF x, y
  <2>4. QED
    <3>1. Ends(c, x) <= Begins(c, y) \/ Ends(c, y) <= Begins(c, x)
      BY <1>1, <2>1, <2>2, <2>3 DEF StaysInPlace
    <3>2. QED
      BY <3>1 DEF x, y
<1>4. ASSUME NEW i \in 1..b.blockCount
      PROVE  /\ c.variablesOffset + c.trailer <= c.table[i].address
             /\ c.table[i].address + c.table[i].length <= c.size
  <2>1. Ends(c, i - 1) <= c.size
    BY <1>1, <1>2 DEF StaysInPlace
  <2>2. QED
    BY <1>2, <2>1
<1>5. QED
  BY <1>2, <1>3, <1>4 DEF BlocksAreApart

\* The blocks of one store are in another, and as long.
Keeps(b, c) ==
  /\ b.blockCount <= c.blockCount
  /\ \A i \in 1..b.blockCount : c.blocks[i] = b.blocks[i] /\ c.table[i].length = b.table[i].length

LEMMA TheLayout ==
  ASSUME NEW b, Whole(b)
  PROVE  /\ IsStore(b) /\ b.size \in Nat /\ b.tableLength \in Nat /\ b.trailer \in Nat /\ b.blockCount \in Nat
         /\ b.tableOffset = 32 /\ b.variablesOffset = 32 + b.tableLength
         /\ 4 <= b.trailer /\ 32 + b.tableLength + b.trailer <= b.size
         /\ VariablesEnd(b) \in Nat /\ 4 + VariablesEnd(b) <= b.trailer
         /\ b.blockCount <= Len(b.blocks) /\ b.blockCount <= Len(b.table) /\ Count(b) = Len(b.table)
         /\ Len(b.table) \in Nat /\ 4 + 8 * Len(b.table) <= b.tableLength
<1>1. /\ IsStore(b) /\ b.size \in Nat /\ b.tableLength \in Nat /\ b.trailer \in Nat /\ b.blockCount \in Nat
      /\ b.tableOffset = 32 /\ b.variablesOffset = 32 + b.tableLength
      /\ VariablesEnd(b) \in Nat /\ 4 + VariablesEnd(b) <= b.trailer /\ 32 + b.tableLength + b.trailer <= b.size
      /\ b.blockCount <= Len(b.blocks) /\ b.blockCount <= Len(b.table)
      /\ 4 + 8 * Len(b.table) <= b.tableLength
      /\ b.table \in Seq(PlaceType)
  BY TheSizes DEF Whole, IsStore, LaidOut, Sizes, Count
<1>2. Len(b.table) \in Nat /\ 4 <= b.trailer /\ Count(b) = Len(b.table)
  BY <1>1 DEF Count
<1>3. QED
  BY <1>1, <1>2

LEMMA TheOwners ==
  ASSUME NEW b, Whole(b)
  PROVE  /\ Begins(b, Header) = 0 /\ Ends(b, Header) = 32
         /\ Begins(b, Table) = 32 /\ Ends(b, Table) = 32 + b.tableLength
         /\ Begins(b, Variables) = 32 + b.tableLength /\ Ends(b, Variables) = 32 + b.tableLength + b.trailer
<1>1. b.tableOffset = 32 /\ b.variablesOffset = 32 + b.tableLength
  BY TheLayout
<1>2. QED
  BY <1>1, TheSizes DEF Begins, Ends, Sizes

LEMMA BlocksHaveEntries ==
  ASSUME NEW b, Whole(b), NEW n \in 0..(b.blockCount - 1)
  PROVE  n + 1 \in 1..b.blockCount /\ n + 1 \in 1..Len(b.table) /\ b.table[n + 1] \in PlaceType
<1>1. n + 1 \in 1..b.blockCount /\ n + 1 \in 1..Len(b.table)
  BY TheLayout
<1>2. QED
  BY <1>1, PlacesOfBlocks

LEMMA TheBlocks ==
  ASSUME NEW b, Whole(b), NEW n \in 0..(b.blockCount - 1)
  PROVE  /\ b.table[n + 1].address \in Nat /\ b.table[n + 1].length \in Nat
         /\ Begins(b, n) = b.table[n + 1].address /\ Ends(b, n) = b.table[n + 1].address + b.table[n + 1].length
         /\ Begins(b, n) \in Nat /\ Ends(b, n) \in Nat /\ Begins(b, n) <= Ends(b, n)
         /\ 32 + b.tableLength + b.trailer <= Begins(b, n) /\ Ends(b, n) <= b.size
<1>1. n + 1 \in 1..b.blockCount /\ b.table[n + 1] \in PlaceType
  BY BlocksHaveEntries
<1>2. /\ Begins(b, n) = b.table[n + 1].address /\ Ends(b, n) = b.table[n + 1].address + b.table[n + 1].length
      /\ Begins(b, n) \in Nat /\ Ends(b, n) \in Nat /\ Begins(b, n) <= Ends(b, n)
  BY PlacesOfBlocks
<1>3. b.variablesOffset + b.trailer <= b.table[n + 1].address
         /\ b.table[n + 1].address + b.table[n + 1].length <= b.size
  BY <1>1 DEF Whole, BlocksAreApart
<1>4. b.variablesOffset = 32 + b.tableLength
  BY TheLayout
<1>5. QED
  BY <1>1, <1>2, <1>3, <1>4 DEF PlaceType

\* The same as numbers: the file, the table, the variables, the blocks and the entries.
Numbers(b, S, T, V, k, L) ==
  S = b.size /\ T = b.tableLength /\ V = b.trailer /\ k = b.blockCount /\ L = Len(b.table)

LEMMA TheNumbers ==
  ASSUME NEW b, Whole(b)
  PROVE  \E S, T, V, k, L \in Nat :
           Numbers(b, S, T, V, k, L) /\ 32 + T + V <= S /\ k <= L /\ 4 + 8 * L <= T /\ 4 <= V
  BY TheLayout DEF Numbers

\* A block that the room does not come into moves as a whole, or stays.
LEMMA BlocksThatMove ==
  ASSUME NEW b, Whole(b), NEW c, NEW point \in Nat, NEW delta \in Nat, NEW owner,
         NEW n \in 0..(b.blockCount - 1),
         c.table[n + 1].address = Moved(b.table[n + 1].address, point, delta),
         \/ c.table[n + 1].length = b.table[n + 1].length /\ (Ends(b, n) <= point \/ point <= Begins(b, n))
         \/ /\ n = owner /\ Begins(b, n) < point /\ point = Ends(b, n)
            /\ c.table[n + 1].length = b.table[n + 1].length + delta
  PROVE  StaysInPlace(b, c, n, point, delta, owner)
<1>1. /\ b.table[n + 1].address \in Nat /\ b.table[n + 1].length \in Nat
      /\ Begins(b, n) = b.table[n + 1].address /\ Ends(b, n) = b.table[n + 1].address + b.table[n + 1].length
  BY TheBlocks
<1>2. Begins(c, n) = c.table[n + 1].address /\ Ends(c, n) = c.table[n + 1].address + c.table[n + 1].length
  BY TheSizes DEF Begins, Ends, Sizes
<1>3. CASE Begins(b, n) < point
  <2>1. c.table[n + 1].address = b.table[n + 1].address
    BY <1>1, <1>3 DEF Moved
  <2>2. QED
    BY <1>1, <1>2, <1>3, <2>1 DEF StaysInPlace
<1>4. CASE point <= Begins(b, n)
  <2>1. c.table[n + 1].address = b.table[n + 1].address + delta
    BY <1>1, <1>4 DEF Moved
  <2>2. QED
    BY <1>1, <1>2, <1>4, <2>1 DEF StaysInPlace
<1>5. QED
  BY <1>1, <1>3, <1>4

\* A store with as many blocks, where room was made for an owner.
LEMMA RoomLeavesStoresWhole ==
  ASSUME NEW b, Whole(b), NEW point \in 0..b.size, NEW delta \in Nat, NEW owner \in Owners(b), owner \in Int,
         NEW c, IsStore(c), LaidOut(c), c.size = b.size + delta,
         c.memory = Write(MoveBytes(b.memory, point, delta), point, point + delta, owner),
         c.blockCount = b.blockCount, c.blocks = b.blocks,
         Begins(c, owner) <= point, point + delta <= Ends(c, owner),
         \A x \in Owners(b) : StaysInPlace(b, c, x, point, delta, owner),
         \A n \in 0..(b.blockCount - 1) : c.variablesOffset + c.trailer <= Begins(c, n),
         \A i \in 1..b.blockCount : b.table[i].length <= c.table[i].length
  PROVE  Whole(c)
<1>1. Owners(c) = Owners(b)
  BY DEF Owners
<1>2. Tiled(c.memory, c.size) /\ RunsLieInside(c)
  BY <1>1, RoomIsInside
<1>3. BlocksAreApart(c)
  <2>1. b.blockCount <= Count(c)
    BY DEF LaidOut
  <2>2. \A n \in 0..(b.blockCount - 1) : n \in Owners(b)
    BY DEF Owners
  <2>3. QED
    BY <2>1, <2>2, BlocksStayApart
<1>4. PathsFit(c)
  <2>1. SUFFICES ASSUME NEW i \in 1..c.blockCount, c.blocks[i].kind = "paths"
                 PROVE  c.blocks[i] \in PathsType /\ PathsSize + PathSize * Len(c.blocks[i].paths) <= c.table[i].length
    BY DEF PathsFit
  <2>2. b.blocks[i] \in PathsType /\ PathsSize + PathSize * Len(b.blocks[i].paths) <= b.table[i].length
    BY <2>1 DEF Whole, PathsFit
  <2>3. b.table[i].length \in Nat /\ c.table[i].length \in Nat /\ b.table[i].length <= c.table[i].length
    <3>1. /\ i \in 1..Len(b.table) /\ b.table \in Seq(PlaceType)
          /\ i \in 1..Len(c.table) /\ c.table \in Seq(PlaceType)
      <4>1. b.table \in Seq(PlaceType) /\ b.blockCount \in Nat /\ b.blockCount <= Len(b.table)
        BY DEF Whole, LaidOut, Count, IsStore
      <4>2. c.table \in Seq(PlaceType) /\ c.blockCount \in Nat /\ c.blockCount <= Len(c.table)
        BY DEF LaidOut, Count, IsStore
      <4>3. QED
        BY <4>1, <4>2
    <3>2. b.table[i] \in PlaceType /\ c.table[i] \in PlaceType
      BY <3>1
    <3>3. QED
      BY <3>2 DEF PlaceType
  <2>4. Len(b.blocks[i].paths) \in Nat
    BY <2>2 DEF PathsType
  <2>5. 12 + 8 * Len(b.blocks[i].paths) <= b.table[i].length
    BY <2>2, TheSizes DEF Sizes
  <2>6. 12 + 8 * Len(b.blocks[i].paths) <= c.table[i].length
    <3> DEFINE needed == 12 + 8 * Len(b.blocks[i].paths)
               before == b.table[i].length
               after == c.table[i].length
    <3>1. needed \in Nat /\ needed <= before /\ before <= after /\ before \in Nat /\ after \in Nat
      BY <2>3, <2>4, <2>5
    <3> HIDE DEF needed, before, after
    <3>2. needed <= after
      BY <3>1
    <3>3. QED
      BY <3>2 DEF needed, after
  <2>7. QED
    BY <2>2, <2>6, TheSizes DEF Sizes
<1>5. QED
  BY <1>2, <1>3, <1>4 DEF Whole

\* A store that is made of parts.
HasParts(c, S, memory, T, V, k, table, blocks, variables) ==
  /\ c.size = S /\ c.memory = memory /\ c.tableOffset = 32 /\ c.tableLength = T
  /\ c.variablesOffset = 32 + T /\ c.trailer = V /\ c.blockCount = k
  /\ c.table = table /\ c.blocks = blocks /\ c.variables = variables
  /\ Begins(c, Header) = 0 /\ Ends(c, Header) = 32
  /\ Begins(c, Table) = 32 /\ Ends(c, Table) = 32 + T
  /\ Begins(c, Variables) = 32 + T /\ Ends(c, Variables) = 32 + T + V

LEMMA PartsOfStores ==
  ASSUME NEW S \in Nat, NEW H \in Nat, NEW T \in Nat, NEW offset \in Nat, NEW V \in Nat, NEW k \in Nat, NEW memory,
         NEW table \in Seq(PlaceType), NEW X, NEW blocks \in Seq(X), NEW variables \in Seq(NamedType), NEW c,
         c = StoreOf(S, memory, H, T, offset, V, k, table, blocks, variables), H = 32, offset = 32 + T,
         VariablesEnd(c) \in Nat, 4 + VariablesEnd(c) <= V, 32 + T + V <= S,
         k <= Len(blocks), k <= Len(table), 4 + 8 * Len(table) <= T
  PROVE  HasParts(c, S, memory, T, V, k, table, blocks, variables) /\ IsStore(c) /\ LaidOut(c)
<1>1. /\ c.size = S /\ c.memory = memory /\ c.tableOffset = 32 /\ c.tableLength = T
      /\ c.variablesOffset = 32 + T /\ c.trailer = V /\ c.blockCount = k
      /\ c.table = table /\ c.blocks = blocks /\ c.variables = variables
  BY DEF StoreOf
<1>2. IsStore(c)
  <2>1. c = StoreOf(c.size, c.memory, c.tableOffset, c.tableLength, c.variablesOffset, c.trailer,
                    c.blockCount, c.table, c.blocks, c.variables)
    BY <1>1
  <2>2. /\ c.size \in Nat /\ c.tableOffset \in Nat /\ c.tableLength \in Nat
        /\ c.variablesOffset \in Nat /\ c.trailer \in Nat /\ c.blockCount \in Nat
    BY <1>1
  <2>3. c.table \in Seq(PlaceType) /\ c.variables \in Seq(NamedType) /\ \E Y : c.blocks \in Seq(Y)
    BY <1>1
  <2>4. QED
    BY <2>1, <2>2, <2>3 DEF IsStore
<1>3. LaidOut(c)
  <2>1. c.tableOffset = HeaderSize /\ c.variablesOffset = c.tableOffset + c.tableLength
    BY <1>1, TheSizes DEF Sizes
  <2>2. VariablesEnd(c) \in Nat /\ VariablesSize + VariablesEnd(c) <= c.trailer
    BY <1>1, TheSizes DEF Sizes
  <2>3. c.variablesOffset + c.trailer <= c.size
    BY <1>1
  <2>4. c.blockCount <= Len(c.blocks) /\ c.blockCount <= Count(c)
    BY <1>1 DEF Count
  <2>5. TableHeaderSize + EntrySize * Count(c) <= c.tableLength
    BY <1>1, TheSizes DEF Sizes, Count
  <2>6. QED
    BY <2>1, <2>2, <2>3, <2>4, <2>5 DEF LaidOut
<1>4. /\ Begins(c, Header) = 0 /\ Ends(c, Header) = 32
      /\ Begins(c, Table) = 32 /\ Ends(c, Table) = 32 + T
      /\ Begins(c, Variables) = 32 + T /\ Ends(c, Variables) = 32 + T + V
  BY <1>1, TheSizes DEF Begins, Ends, Sizes
<1>5. QED
  BY <1>1, <1>2, <1>3, <1>4 DEF HasParts

\* The table after the addresses behind a point were corrected.
PlacesMoved(b, table, point, delta, owner) ==
  /\ table \in Seq(PlaceType) /\ Len(table) = Len(b.table)
  /\ \A i \in 1..Len(b.table) :
       /\ table[i].address = Moved(b.table[i].address, point, delta)
       /\ i # owner + 1 => table[i].length = b.table[i].length

\* Where room is made: at the end of the table, of the variables, or of a block.
InTable(T0, V0, point, delta, T, V) == point = 32 + T0 /\ T = T0 + delta /\ V = V0

InVariables(T0, V0, point, delta, T, V) ==
  T = T0 /\ V = V0 + delta /\ 36 + T0 <= point /\ point <= 32 + T0 + V0

InBlock(b, T0, V0, point, delta, owner, T, V, table) ==
  /\ T = T0 /\ V = V0 /\ Begins(b, owner) < point /\ point = Ends(b, owner)
  /\ table[owner + 1].length = b.table[owner + 1].length + delta

RoomIn(b, T0, V0, point, delta, owner, T, V, table) ==
  \/ owner = Table /\ InTable(T0, V0, point, delta, T, V)
  \/ owner = Variables /\ InVariables(T0, V0, point, delta, T, V)
  \/ owner \in 0..(b.blockCount - 1) /\ InBlock(b, T0, V0, point, delta, owner, T, V, table)

IsResized(b, c, S, T, V, point, delta, owner, table, variables) ==
  c = StoreOf(S + delta, Write(MoveBytes(b.memory, point, delta), point, point + delta, owner),
              32, T, 32 + T, V, b.blockCount, table, b.blocks, variables)

\* The contents of the blocks.
IsRest(b, blocks, k) == blocks = b.blocks /\ k <= Len(blocks) /\ k = b.blockCount

LengthOf(b, n) == b.table[n + 1].length

LEMMA BlocksOfResizedStores ==
  ASSUME NEW b, Whole(b), NEW S \in Nat, NEW T0 \in Nat, NEW V0 \in Nat, NEW k \in Nat, NEW L \in Nat,
         Numbers(b, S, T0, V0, k, L), 32 + T0 + V0 <= S,
         NEW point \in Nat, NEW delta \in Nat, NEW owner, NEW T \in Nat, NEW V \in Nat,
         NEW c, PlacesMoved(b, c.table, point, delta, owner),
         RoomIn(b, T0, V0, point, delta, owner, T, V, c.table),
         NEW n \in 0..(b.blockCount - 1)
  PROVE  /\ StaysInPlace(b, c, n, point, delta, owner) /\ 32 + T + V <= Begins(c, n)
         /\ b.table[n + 1].length <= c.table[n + 1].length
<1>1. PICK from \in Nat, upto \in Nat, length \in Nat :
        /\ from = Begins(b, n) /\ upto = Ends(b, n) /\ length = b.table[n + 1].length
        /\ 32 + T0 + V0 <= from /\ upto = from + length
  <2>1. T0 = b.tableLength /\ V0 = b.trailer
    BY DEF Numbers
  <2>2. /\ Begins(b, n) \in Nat /\ Ends(b, n) \in Nat /\ b.table[n + 1].length \in Nat
        /\ 32 + T0 + V0 <= Begins(b, n) /\ Ends(b, n) = Begins(b, n) + b.table[n + 1].length
    BY <2>1, TheBlocks
  <2>3. QED
    BY <2>2
<1>2. /\ n + 1 \in 1..Len(b.table) /\ n \in Int
  BY BlocksHaveEntries
<1>3. /\ c.table[n + 1].address = Moved(b.table[n + 1].address, point, delta)
      /\ n + 1 # owner + 1 => c.table[n + 1].length = length
  BY <1>1, <1>2 DEF PlacesMoved
<1>4. Begins(c, n) = c.table[n + 1].address /\ Ends(c, n) = c.table[n + 1].address + c.table[n + 1].length
  BY TheSizes DEF Begins, Ends, Sizes
<1>5. ASSUME \/ owner = Table /\ InTable(T0, V0, point, delta, T, V)
             \/ owner = Variables /\ InVariables(T0, V0, point, delta, T, V)
      PROVE  /\ StaysInPlace(b, c, n, point, delta, owner) /\ 32 + T + V <= Begins(c, n)
             /\ b.table[n + 1].length <= c.table[n + 1].length
  <2>1. point <= from /\ 32 + T + V <= from + delta
    BY <1>1, <1>5 DEF InTable, InVariables
  <2>2. n + 1 # owner + 1
    BY <1>5, TheSizes DEF Sizes
  <2>3. c.table[n + 1].length = length
    BY <1>3, <2>2
  <2>4. StaysInPlace(b, c, n, point, delta, owner)
    BY <1>1, <1>3, <2>1, <2>3, BlocksThatMove
  <2>5. Begins(c, n) = from + delta
    BY <1>1, <2>1, <2>4 DEF StaysInPlace
  <2>6. QED
    BY <1>1, <2>1, <2>3, <2>4, <2>5
<1>6. ASSUME owner \in 0..(b.blockCount - 1), InBlock(b, T0, V0, point, delta, owner, T, V, c.table)
      PROVE  /\ StaysInPlace(b, c, n, point, delta, owner) /\ 32 + T + V <= Begins(c, n)
             /\ b.table[n + 1].length <= c.table[n + 1].length
  <2>1. /\ T = T0 /\ V = V0 /\ Begins(b, owner) < point /\ point = Ends(b, owner)
        /\ c.table[owner + 1].length = b.table[owner + 1].length + delta
    BY <1>6 DEF InBlock
  <2>2. n # owner => upto <= point \/ point <= from
    <3>1. SUFFICES ASSUME n # owner PROVE upto <= point \/ point <= from
      OBVIOUS
    <3>2. n \in Owners(b) /\ owner \in Owners(b)
      BY <1>6 DEF Owners
    <3>3. PICK f \in Nat : f = Begins(b, owner) /\ (upto <= f \/ point <= from)
      BY <1>1, <2>1, <3>1, <3>2, OwnersAreApart
    <3>4. QED
      BY <1>1, <2>1, <3>3
  <2>3. n # owner => c.table[n + 1].length = length
    <3>1. owner \in Int
      BY <1>6
    <3>2. QED
      BY <1>2, <1>3, <3>1
  <2>4. n = owner => c.table[n + 1].length = length + delta
    BY <1>1, <2>1
  <2>5. StaysInPlace(b, c, n, point, delta, owner)
    <3>1. CASE n = owner
      <4>1. /\ n = owner /\ Begins(b, n) < point /\ point = Ends(b, n)
            /\ c.table[n + 1].length = b.table[n + 1].length + delta
        BY <2>1, <3>1
      <4>2. QED
        BY <1>3, <4>1, BlocksThatMove
    <3>2. CASE n # owner
      <4>1. c.table[n + 1].length = b.table[n + 1].length /\ (Ends(b, n) <= point \/ point <= Begins(b, n))
        BY <1>1, <2>2, <2>3, <3>2
      <4>2. QED
        BY <1>3, <4>1, BlocksThatMove
    <3>3. QED
      BY <3>1, <3>2
  <2>6. Begins(c, n) = from \/ Begins(c, n) = from + delta
    BY <1>1, <2>5 DEF StaysInPlace
  <2>7. 32 + T + V <= Begins(c, n)
    BY <1>1, <2>1, <2>6
  <2>8. b.table[n + 1].length <= c.table[n + 1].length
    BY <1>1, <2>3, <2>4
  <2>9. QED
    BY <2>5, <2>7, <2>8
<1>7. CASE owner = Table /\ InTable(T0, V0, point, delta, T, V)
  BY <1>5, <1>7
<1>8. CASE owner = Variables /\ InVariables(T0, V0, point, delta, T, V)
  BY <1>5, <1>8
<1>9. CASE owner \in 0..(b.blockCount - 1) /\ InBlock(b, T0, V0, point, delta, owner, T, V, c.table)
  BY <1>6, <1>9
<1>10. QED
  BY <1>7, <1>8, <1>9 DEF RoomIn

\* The sizes of a store, and what comes of it when room is made.
AreBounds(S, T, V, k, L) == 32 + T + V <= S /\ k <= L /\ 4 + 8 * L <= T /\ 4 <= V

VariablesFit(c, V) == VariablesEnd(c) \in Nat /\ 4 + VariablesEnd(c) <= V

IsMade(b, c, S, T, V, k, L, table, variables) ==
  /\ Whole(c) /\ Numbers(c, S, T, V, k, L) /\ c.blocks = b.blocks /\ c.table = table
  /\ c.variables = variables

LEMMA MakingRoomIsSafe ==
  ASSUME NEW b, Whole(b), NEW S \in Nat, NEW T0 \in Nat, NEW V0 \in Nat, NEW k \in Nat, NEW L \in Nat,
         Numbers(b, S, T0, V0, k, L), AreBounds(S, T0, V0, k, L),
         NEW point \in Nat, NEW delta \in Nat, NEW owner, NEW T \in Nat, NEW V \in Nat,
         NEW table, NEW variables \in Seq(NamedType), NEW c,
         IsResized(b, c, S, T, V, point, delta, owner, table, variables), VariablesFit(c, V),
         PlacesMoved(b, table, point, delta, owner),
         RoomIn(b, T0, V0, point, delta, owner, T, V, table)
  PROVE  IsMade(b, c, S + delta, T, V, k, L, table, variables)
<1> USE DEF AreBounds, VariablesFit
<1>1. S = b.size /\ T0 = b.tableLength /\ V0 = b.trailer /\ k = b.blockCount
  BY DEF Numbers
<1>2. PICK X, blocks : blocks \in Seq(X) /\ IsRest(b, blocks, k)
  <2>1. PICK X : b.blocks \in Seq(X)
    BY DEF Whole, IsStore
  <2>2. IsRest(b, b.blocks, k)
    BY TheLayout DEF IsRest, Numbers
  <2>3. QED
    BY <2>1, <2>2
<1>3. ASSUME NEW n \in 0..(b.blockCount - 1)
      PROVE  \E from, upto \in Nat : from = Begins(b, n) /\ upto = Ends(b, n) /\ 32 + T0 + V0 <= from
               /\ from <= upto /\ upto <= S
  <2>1. /\ Begins(b, n) \in Nat /\ Ends(b, n) \in Nat /\ 32 + T0 + V0 <= Begins(b, n)
        /\ Begins(b, n) <= Ends(b, n) /\ Ends(b, n) <= S
    BY <1>1, TheBlocks
  <2>2. QED
    BY <2>1
<1>4. /\ owner \in Owners(b) /\ owner \in Int
      /\ point <= S /\ 36 <= point /\ T >= T0 /\ 32 + T + V <= S + delta
  <2>1. CASE owner = Table /\ InTable(T0, V0, point, delta, T, V)
    <3>1. owner \in Owners(b) /\ owner \in Int
      BY <2>1, TheSizes DEF Sizes, Owners
    <3>2. QED
      BY <2>1, <3>1 DEF InTable
  <2>2. CASE owner = Variables /\ InVariables(T0, V0, point, delta, T, V)
    <3>1. owner \in Owners(b) /\ owner \in Int
      BY <2>2, TheSizes DEF Sizes, Owners
    <3>2. QED
      BY <2>2, <3>1 DEF InVariables
  <2>3. CASE owner \in 0..(b.blockCount - 1) /\ InBlock(b, T0, V0, point, delta, owner, T, V, table)
    <3>1. owner \in Owners(b) /\ owner \in Int
      BY <2>3 DEF Owners
    <3>2. PICK from \in Nat, upto \in Nat : from = Begins(b, owner) /\ upto = Ends(b, owner)
             /\ 32 + T0 + V0 <= from /\ from <= upto /\ upto <= S
      BY <1>3, <2>3
    <3>3. T = T0 /\ V = V0 /\ from < point /\ point = upto
      BY <2>3, <3>2 DEF InBlock
    <3>4. QED
      BY <3>1, <3>2, <3>3
  <2>4. QED
    BY <2>1, <2>2, <2>3 DEF RoomIn
<1> DEFINE memory == Write(MoveBytes(b.memory, point, delta), point, point + delta, owner)
<1>5. HasParts(c, S + delta, memory, T, V, k, table, blocks, variables) /\ IsStore(c) /\ LaidOut(c)
  <2> DEFINE H == 32
             offset == 32 + T
             size == S + delta
  <2>1. /\ H \in Nat /\ H = 32 /\ offset \in Nat /\ offset = 32 + T
        /\ size \in Nat /\ 32 + T + V <= size
    BY <1>4
  <2>2. c = StoreOf(size, memory, H, T, offset, V, k, table, blocks, variables)
    BY <1>1, <1>2 DEF IsResized, IsRest
  <2>3. table \in Seq(PlaceType) /\ Len(table) = L /\ k <= Len(blocks)
    BY <1>2 DEF PlacesMoved, Numbers, IsRest
  <2>4. k <= Len(table) /\ 4 + 8 * Len(table) <= T
    BY <1>4, <2>3
  <2> HIDE DEF memory, H, offset, size
  <2>5. HasParts(c, size, memory, T, V, k, table, blocks, variables) /\ IsStore(c) /\ LaidOut(c)
    BY <1>2, <2>1, <2>2, <2>3, <2>4, PartsOfStores
  <2>6. QED
    BY <2>5 DEF size
<1>50. /\ Begins(c, Header) = 0 /\ Ends(c, Header) = 32
       /\ Begins(c, Table) = 32 /\ Ends(c, Table) = 32 + T
       /\ Begins(c, Variables) = 32 + T /\ Ends(c, Variables) = 32 + T + V
  BY <1>5 DEF HasParts
<1>6. ASSUME NEW n \in 0..(b.blockCount - 1)
      PROVE  /\ StaysInPlace(b, c, n, point, delta, owner) /\ 32 + T + V <= Begins(c, n)
             /\ b.table[n + 1].length <= c.table[n + 1].length
  <2>1. PlacesMoved(b, c.table, point, delta, owner) /\ RoomIn(b, T0, V0, point, delta, owner, T, V, c.table)
    BY <1>5 DEF HasParts
  <2>2. QED
    BY <2>1, BlocksOfResizedStores
<1>7. /\ Begins(b, Header) = 0 /\ Ends(b, Header) = 32
      /\ Begins(b, Table) = 32 /\ Ends(b, Table) = 32 + T0
      /\ Begins(b, Variables) = 32 + T0 /\ Ends(b, Variables) = 32 + T0 + V0
  BY <1>1, TheOwners
<1>8. \/ owner = Table /\ InTable(T0, V0, point, delta, T, V)
      \/ owner = Variables /\ InVariables(T0, V0, point, delta, T, V)
      \/ T = T0 /\ V = V0 /\ 32 + T0 + V0 < point
  <2>1. CASE owner \in 0..(b.blockCount - 1) /\ InBlock(b, T0, V0, point, delta, owner, T, V, table)
    <3>1. PICK from \in Nat : from = Begins(b, owner) /\ 32 + T0 + V0 <= from
      BY <1>3, <2>1
    <3>2. T = T0 /\ V = V0 /\ from < point
      BY <2>1, <3>1 DEF InBlock
    <3>3. QED
      BY <3>1, <3>2
  <2>2. QED
    BY <2>1 DEF RoomIn
<1>9. ASSUME NEW x \in Owners(b) PROVE StaysInPlace(b, c, x, point, delta, owner)
  <2>1. CASE x = Header
    BY <1>4, <1>50, <1>7, <2>1 DEF StaysInPlace
  <2>2. CASE x = Table
    <3>1. /\ Begins(b, x) = 32 /\ Ends(b, x) = 32 + T0 /\ Begins(c, x) = 32 /\ Ends(c, x) = 32 + T
      BY <1>50, <1>7, <2>2
    <3>2. \/ x = owner /\ point = 32 + T0 /\ T = T0 + delta
          \/ T = T0 /\ 32 + T0 < point
      BY <1>8, <2>2 DEF InTable, InVariables
    <3>3. QED
      BY <1>4, <3>1, <3>2 DEF StaysInPlace
  <2>3. CASE x = Variables
    <3>1. /\ Begins(b, x) = 32 + T0 /\ Ends(b, x) = 32 + T0 + V0 /\ Begins(c, x) = 32 + T /\ Ends(c, x) = 32 + T + V
      BY <1>50, <1>7, <2>3
    <3>2. \/ point = 32 + T0 /\ T = T0 + delta /\ V = V0
          \/ x = owner /\ T = T0 /\ V = V0 + delta /\ 32 + T0 < point /\ point <= 32 + T0 + V0
          \/ T = T0 /\ V = V0 /\ 32 + T0 + V0 < point
      BY <1>8, <2>3 DEF InTable, InVariables
    <3>3. QED
      BY <3>1, <3>2 DEF StaysInPlace
  <2>4. QED
    BY <1>6, <2>1, <2>2, <2>3 DEF Owners
<1>10. Begins(c, owner) <= point /\ point + delta <= Ends(c, owner)
  <2>1. CASE owner = Table /\ InTable(T0, V0, point, delta, T, V)
    BY <1>50, <2>1 DEF InTable
  <2>2. CASE owner = Variables /\ InVariables(T0, V0, point, delta, T, V)
    BY <1>50, <2>2 DEF InVariables
  <2>3. CASE owner \in 0..(b.blockCount - 1) /\ InBlock(b, T0, V0, point, delta, owner, T, V, table)
    <3>1. PICK from \in Nat, upto \in Nat : from = Begins(b, owner) /\ upto = Ends(b, owner)
      BY <1>3, <2>3
    <3>2. from < point /\ point = upto
      BY <2>3, <3>1 DEF InBlock
    <3>3. StaysInPlace(b, c, owner, point, delta, owner)
      BY <1>6, <2>3
    <3>4. Begins(c, owner) = from
      BY <3>1, <3>2, <3>3 DEF StaysInPlace
    <3>5. owner # Header /\ owner # Table /\ owner # Variables
      BY <2>3, TheSizes DEF Sizes
    <3>6. Ends(c, owner) = Begins(c, owner) + LengthOf(c, owner)
      BY <3>5 DEF Begins, Ends, LengthOf
    <3>7. PICK length \in Nat : length = LengthOf(b, owner) /\ upto = from + length
      BY <2>3, <3>1, TheBlocks DEF LengthOf
    <3>8. Ends(c, owner) = upto + delta
      <4>1. LengthOf(c, owner) = LengthOf(b, owner) + delta
        BY <1>5, <2>3 DEF InBlock, LengthOf, HasParts
      <4>2. QED
        BY <3>4, <3>6, <3>7, <4>1
    <3>9. QED
      BY <3>1, <3>2, <3>4, <3>8
  <2>4. QED
    BY <2>1, <2>2, <2>3 DEF RoomIn
<1>11. \A i \in 1..b.blockCount : b.table[i].length <= c.table[i].length
  <2>1. ASSUME NEW i \in 1..b.blockCount PROVE b.table[i].length <= c.table[i].length
    <3>1. i - 1 \in 0..(b.blockCount - 1) /\ (i - 1) + 1 = i
      BY <1>1
    <3>2. b.table[(i - 1) + 1].length <= c.table[(i - 1) + 1].length
      BY <1>6, <3>1
    <3>3. QED
      BY <3>1, <3>2
  <2>2. QED
    BY <2>1
<1>12. Whole(c)
  <2>1. \A n \in 0..(b.blockCount - 1) : c.variablesOffset + c.trailer <= Begins(c, n)
    BY <1>5, <1>6 DEF HasParts
  <2>2. IsStore(c) /\ LaidOut(c) /\ c.size = b.size + delta /\ c.memory = memory /\ c.blockCount = b.blockCount
        /\ c.blocks = b.blocks
    BY <1>1, <1>2, <1>5 DEF HasParts, IsRest
  <2>3. point \in 0..b.size
    BY <1>1, <1>4
  <2>4. QED
    BY <1>4, <1>9, <1>10, <1>11, <2>1, <2>2, <2>3, RoomLeavesStoresWhole
<1>13. Numbers(c, S + delta, T, V, k, L)
  <2>1. Len(c.table) = L
    BY <1>2, <1>5 DEF PlacesMoved, Numbers, HasParts, IsRest
  <2>2. QED
    BY <1>5, <2>1 DEF Numbers, HasParts
<1>14. QED
  BY <1>2, <1>5, <1>12, <1>13 DEF HasParts, IsRest, IsMade

\* The addresses are corrected, and nothing else of the table.
PlacesShifted(b, table, point, delta) ==
  /\ table \in Seq(PlaceType) /\ Len(table) = Len(b.table)
  /\ \A i \in 1..Len(b.table) :
       /\ table[i].address = Moved(b.table[i].address, point, delta)
       /\ table[i].length = b.table[i].length

HasRoom(b, r, S, T0, V0, k, point, delta, owner, table) ==
  r = StoreOf(S + delta, Write(MoveBytes(b.memory, point, delta), point, point + delta, owner),
              Moved(32, point, delta), T0, Moved(32 + T0, point, delta), V0, k, table, b.blocks, b.variables)

LEMMA RoomIsMade ==
  ASSUME NEW b, Whole(b), NEW S \in Nat, NEW T0 \in Nat, NEW V0 \in Nat, NEW k \in Nat, NEW L \in Nat,
         Numbers(b, S, T0, V0, k, L), NEW point \in Nat, NEW delta \in Nat, NEW owner
  PROVE  \E table : /\ PlacesShifted(b, table, point, delta)
                    /\ HasRoom(b, Resize(b, point, delta, owner), S, T0, V0, k, point, delta, owner, table)
<1> DEFINE table == [i \in DOMAIN b.table |-> [b.table[i] EXCEPT !.address = Moved(@, point, delta)]]
<1>1. IsStore(b) /\ b.tableOffset = 32 /\ b.variablesOffset = 32 + T0
  BY TheLayout DEF Numbers
<1>2. /\ Resize(b, point, delta, owner)
           = StoreOf(b.size + delta,
                     Write(MoveBytes(b.memory, point, delta), point, point + delta, owner),
                     Moved(b.tableOffset, point, delta), b.tableLength,
                     Moved(b.variablesOffset, point, delta), b.trailer, b.blockCount,
                     table, b.blocks, b.variables)
      /\ table \in Seq(PlaceType) /\ Len(table) = Len(b.table)
      /\ \A i \in 1..Len(b.table) :
           /\ table[i].address = Moved(b.table[i].address, point, delta)
           /\ table[i].length = b.table[i].length
  BY <1>1, ResizedStore
<1> HIDE DEF table
<1>3. PlacesShifted(b, table, point, delta)
  BY <1>2 DEF PlacesShifted
<1>4. HasRoom(b, Resize(b, point, delta, owner), S, T0, V0, k, point, delta, owner, table)
  BY <1>1, <1>2 DEF HasRoom, Numbers
<1>5. QED
  BY <1>3, <1>4

LEMMA ShiftedPlacesMove ==
  ASSUME NEW b, NEW table, NEW point, NEW delta, NEW owner, PlacesShifted(b, table, point, delta)
  PROVE  PlacesMoved(b, table, point, delta, owner)
  BY DEF PlacesShifted, PlacesMoved

\* As many blocks as entries, and room in the table for more of them.
Ready(b, room) ==
  /\ Whole(b) /\ Len(b.blocks) = b.blockCount /\ Len(b.table) = b.blockCount
  /\ 20 + 8 * (b.blockCount + room) <= b.tableLength

SameLengths(b, c) == \A n \in 0..(b.blockCount - 1) : LengthOf(c, n) = LengthOf(b, n)

LEMMA ShiftedPlacesAreAsLong ==
  ASSUME NEW b, Whole(b), NEW c, NEW point, NEW delta, PlacesShifted(b, c.table, point, delta)
  PROVE  SameLengths(b, c)
  BY BlocksHaveEntries DEF SameLengths, LengthOf, PlacesShifted

LEMMA ReservingIsSafe ==
  ASSUME NEW b, NEW room \in Nat, Ready(b, room), NEW n \in Nat
  PROVE  LET c == IndexReserve(b, n)
         IN  /\ Ready(c, room + n) /\ c.blockCount = b.blockCount /\ c.blocks = b.blocks
             /\ c.variables = b.variables /\ SameLengths(b, c)
<1> DEFINE c == IndexReserve(b, n)
           delta == 8 * n
<1>1. Whole(b)
  BY DEF Ready
<1>2. PICK S \in Nat, T0 \in Nat, V0 \in Nat, k \in Nat, L \in Nat :
        Numbers(b, S, T0, V0, k, L) /\ AreBounds(S, T0, V0, k, L)
  BY <1>1, TheNumbers DEF AreBounds
<1> DEFINE point == 32 + T0
           T == T0 + delta
<1>3. delta \in Nat /\ point \in Nat /\ point = 32 + T0 /\ T \in Nat /\ T = T0 + delta
  OBVIOUS
<1>4. c = [Resize(b, point, delta, Table) EXCEPT !.tableLength = T]
  <2>1. b.tableOffset + b.tableLength = point /\ EntrySize * n = delta /\ b.tableLength = T0
    BY <1>1, <1>2, TheLayout, TheSizes DEF Numbers, Sizes
  <2>2. Resize(b, point, delta, Table).tableLength = T0
    <3> HIDE DEF point, delta
    <3>1. PICK table : HasRoom(b, Resize(b, point, delta, Table), S, T0, V0, k, point, delta, Table, table)
      BY <1>1, <1>2, <1>3, RoomIsMade
    <3>2. QED
      BY <3>1 DEF HasRoom, StoreOf
  <2> HIDE DEF point, delta
  <2>3. QED
    BY <2>1, <2>2 DEF IndexReserve
<1> HIDE DEF point, delta, T, c
<1>5. PICK table : PlacesShifted(b, table, point, delta)
         /\ HasRoom(b, Resize(b, point, delta, Table), S, T0, V0, k, point, delta, Table, table)
  BY <1>1, <1>2, <1>3, RoomIsMade
<1>6. IsResized(b, c, S, T, V0, point, delta, Table, table, b.variables)
  <2>1. Moved(32, point, delta) = 32 /\ Moved(32 + T0, point, delta) = 32 + T
    <3>1. 32 + T0 + delta = 32 + T
      BY <1>3
    <3>2. 32 < point \/ (32 = point /\ T0 = 0)
      BY <1>3
    <3>3. T0 # 0
      BY <1>2 DEF AreBounds
    <3>4. QED
      BY <1>3, <3>1, <3>2, <3>3 DEF Moved
  <2>2. k = b.blockCount
    BY <1>2 DEF Numbers
  <2>3. QED
    BY <1>4, <1>5, <2>1, <2>2 DEF HasRoom, IsResized, StoreOf
<1>7. VariablesFit(c, V0)
  <2>1. c.variables = b.variables
    BY <1>6 DEF IsResized, StoreOf
  <2>2. VariablesEnd(c) = VariablesEnd(b)
    BY <2>1 DEF VariablesEnd
  <2>3. QED
    BY <1>1, <1>2, <2>2, TheLayout DEF Numbers, VariablesFit
<1>8. RoomIn(b, T0, V0, point, delta, Table, T, V0, table)
  BY <1>3 DEF RoomIn, InTable
<1>9. PlacesMoved(b, table, point, delta, Table)
  BY <1>5, ShiftedPlacesMove
<1>10. b.variables \in Seq(NamedType)
  BY <1>1 DEF Whole, IsStore
<1>11. IsMade(b, c, S + delta, T, V0, k, L, table, b.variables)
  BY <1>1, <1>2, <1>3, <1>6, <1>7, <1>8, <1>9, <1>10, MakingRoomIsSafe
<1>12. Ready(c, room + n)
  <2>1. Len(b.blocks) = k /\ L = k /\ 20 + 8 * (k + room) <= T0
    BY <1>2 DEF Ready, Numbers
  <2>2. 20 + 8 * (k + (room + n)) <= T
    BY <1>3, <2>1 DEF delta
  <2>3. QED
    BY <1>11, <2>1, <2>2 DEF Ready, Numbers, IsMade
<1>13. SameLengths(b, c)
  BY <1>1, <1>5, <1>11, ShiftedPlacesAreAsLong DEF IsMade
<1>14. QED
  BY <1>2, <1>11, <1>12, <1>13 DEF c, Numbers, IsMade

\* A store with the same blocks.
SameBlocks(b, c) == c.blockCount = b.blockCount /\ c.blocks = b.blocks /\ SameLengths(b, c)

\* As many bytes as before, or up to four more.
LEMMA RoundingUp ==
  ASSUME NEW x \in Nat
  PROVE  RoundedUp(x) \in Nat /\ x < RoundedUp(x)
<1>1. x % 4 \in 0..3
  OBVIOUS
<1>2. QED
  BY <1>1 DEF RoundedUp

LEMMA LastOfVariables ==
  ASSUME NEW c, NEW variables \in Seq(NamedType), NEW v \in NamedType, c.variables = Append(variables, v)
  PROVE  VariablesEnd(c) = v.upto /\ c.variables \in Seq(NamedType)
<1>1. Append(variables, v) # << >> /\ Last(Append(variables, v)) = v /\ Append(variables, v) \in Seq(NamedType)
  BY DEF Last
<1>2. QED
  BY <1>1 DEF VariablesEnd

WithVariables(r, variables, V) == [r EXCEPT !.variables = variables, !.trailer = V]

LEMMA StoresWithVariables ==
  ASSUME NEW size, NEW memory, NEW H, NEW T, NEW offset, NEW V0, NEW V, NEW k, NEW table, NEW blocks, NEW old,
          NEW variables
  PROVE  WithVariables(StoreOf(size, memory, H, T, offset, V0, k, table, blocks, old), variables, V)
           = StoreOf(size, memory, H, T, offset, V, k, table, blocks, variables)
<1> DEFINE r == StoreOf(size, memory, H, T, offset, V0, k, table, blocks, old)
           q == StoreOf(size, memory, H, T, offset, V0, k, table, blocks, variables)
<1>1. [r EXCEPT !.variables = variables] = q
  BY DEF StoreOf
<1>2. [q EXCEPT !.trailer = V] = StoreOf(size, memory, H, T, offset, V, k, table, blocks, variables)
  BY DEF StoreOf
<1> HIDE DEF r, q
<1>3. [r EXCEPT !.variables = variables, !.trailer = V] = [[r EXCEPT !.variables = variables] EXCEPT !.trailer = V]
  OBVIOUS
<1>4. QED
  BY <1>1, <1>2, <1>3 DEF r, WithVariables

Variable(b, name, n) == [name |-> name, index |-> n, upto |-> VariablesEnd(b) + VariableSize + Len(name)]

LEMMA AddingVariablesIsSafe ==
  ASSUME NEW b, NEW room \in Nat, Ready(b, room), NEW name \in Names, Len(name) \in Nat, NEW n \in Nat
  PROVE  LET c == VariableAdd(b, name, n)
         IN  /\ Ready(c, room) /\ SameBlocks(b, c) /\ Variable(b, name, n) \in NamedType
             /\ c.variables = Append(b.variables, Variable(b, name, n))
<1> DEFINE c == VariableAdd(b, name, n)
           variables == Append(b.variables, Variable(b, name, n))
<1>1. Whole(b)
  BY DEF Ready
<1>2. PICK S \in Nat, T0 \in Nat, V0 \in Nat, k \in Nat, L \in Nat :
        Numbers(b, S, T0, V0, k, L) /\ AreBounds(S, T0, V0, k, L)
  BY <1>1, TheNumbers DEF AreBounds
<1>3. PICK E \in Nat : E = VariablesEnd(b) /\ 4 + E <= V0
  BY <1>1, <1>2, TheLayout DEF Numbers
<1>4. PICK N \in Nat : N = Len(name)
  OBVIOUS
<1>5. PICK delta \in Nat : delta = RoundedUp(5 + N) /\ 5 + N < delta
  BY RoundingUp
<1>6. PICK point \in Nat : point = 36 + T0 + E
  OBVIOUS
<1>7. PICK V \in Nat : V = V0 + delta
  OBVIOUS
<1>8. PICK table : PlacesShifted(b, table, point, delta)
         /\ HasRoom(b, Resize(b, point, delta, Variables), S, T0, V0, k, point, delta, Variables, table)
  BY <1>1, <1>2, RoomIsMade
<1>9. c = [Resize(b, point, delta, Variables) EXCEPT !.variables = variables, !.trailer = V]
  <2>1. b.variablesOffset + VariablesSize + VariablesEnd(b) = point
    <3>1. b.variablesOffset = 32 + T0
      BY <1>1, <1>2, TheLayout DEF Numbers
    <3>2. QED
      BY <1>3, <1>6, <3>1, TheSizes DEF Sizes
  <2>2. RoundedUp(VariableSize + Len(name)) = delta
    BY <1>4, <1>5, TheSizes DEF Sizes
  <2>3. Resize(b, point, delta, Variables).variables = b.variables /\ Resize(b, point, delta, Variables).trailer = V0
    BY <1>8 DEF HasRoom, StoreOf
  <2>4. c = [Resize(b, point, delta, Variables) EXCEPT
               !.variables = Append(Resize(b, point, delta, Variables).variables, Variable(b, name, n)),
               !.trailer = Resize(b, point, delta, Variables).trailer + delta]
    BY <2>1, <2>2 DEF VariableAdd, Variable
  <2>5. QED
    BY <1>7, <2>3, <2>4
<1>10. Variable(b, name, n) \in NamedType /\ Variable(b, name, n).upto = E + 5 + N
  BY <1>3, <1>4, TheSizes DEF Variable, NamedType, Sizes
<1>11. b.variables \in Seq(NamedType)
  BY <1>1 DEF Whole, IsStore
<1>12. variables \in Seq(NamedType)
  BY <1>10, <1>11
<1> HIDE DEF variables, c
<1>13. IsResized(b, c, S, T0, V, point, delta, Variables, table, variables)
  <2>1. Moved(32, point, delta) = 32 /\ Moved(32 + T0, point, delta) = 32 + T0
    <3>1. 32 < point /\ 32 + T0 < point
      BY <1>6
    <3>2. QED
      BY <3>1 DEF Moved
  <2>2. k = b.blockCount
    BY <1>2 DEF Numbers
  <2>3. QED
    <3>1. PICK memory, offset, H, size :
            /\ memory = Write(MoveBytes(b.memory, point, delta), point, point + delta, Variables)
            /\ offset = 32 + T0 /\ H = 32 /\ size = S + delta
      OBVIOUS
    <3> DEFINE blocks == b.blocks
               old == b.variables
    <3>2. Resize(b, point, delta, Variables) = StoreOf(size, memory, H, T0, offset, V0, k, table, blocks, old)
      BY <1>8, <2>1, <3>1 DEF HasRoom
    <3>3. c = StoreOf(size, memory, H, T0, offset, V, k, table, blocks, variables)
      <4> HIDE DEF blocks, old
      <4>1. c = WithVariables(Resize(b, point, delta, Variables), variables, V)
        BY <1>9 DEF WithVariables
      <4>2. QED
        BY <3>2, <4>1, StoresWithVariables
    <3>4. QED
      BY <2>2, <3>1, <3>3 DEF IsResized
<1>14. c.variables = variables
  BY <1>13 DEF IsResized, StoreOf
<1>15. VariablesFit(c, V)
  <2>1. VariablesEnd(c) = E + 5 + N
    BY <1>10, <1>11, <1>14, LastOfVariables DEF variables
  <2> DEFINE end == VariablesEnd(c)
  <2> HIDE DEF end
  <2>2. end = E + 5 + N
    BY <2>1 DEF end
  <2>3. 4 + E <= V0 /\ 5 + N < delta /\ V = V0 + delta
    BY <1>3, <1>5, <1>7
  <2>4. end \in Nat /\ 4 + end <= V
    BY ONLY <2>2, <2>3, E \in Nat, N \in Nat, V0 \in Nat, delta \in Nat, V \in Nat
  <2>5. QED
    BY ONLY <2>4 DEF VariablesFit, end
<1>16. RoomIn(b, T0, V0, point, delta, Variables, T0, V, table)
  <2>1. 36 + T0 <= point /\ point <= 32 + T0 + V0
    BY <1>3, <1>6
  <2>2. QED
    BY <1>7, <2>1 DEF RoomIn, InVariables
<1>17. PlacesMoved(b, table, point, delta, Variables)
  BY <1>8, ShiftedPlacesMove
<1>18. IsMade(b, c, S + delta, T0, V, k, L, table, variables)
  BY <1>1, <1>2, <1>12, <1>13, <1>15, <1>16, <1>17, MakingRoomIsSafe
<1>19. Ready(c, room)
  <2>1. Len(b.blocks) = k /\ L = k /\ 20 + 8 * (k + room) <= T0
    BY <1>2 DEF Ready, Numbers
  <2>2. QED
    BY <1>18, <2>1 DEF Ready, Numbers, IsMade
<1>20. SameLengths(b, c)
  BY <1>1, <1>8, <1>18, ShiftedPlacesAreAsLong DEF IsMade
<1>21. QED
  BY <1>2, <1>10, <1>18, <1>19, <1>20 DEF c, variables, Numbers, IsMade, SameBlocks

\* A block with more room at its end.
LEMMA AppendingIsSafe ==
  ASSUME NEW b, NEW room \in Nat, Ready(b, room), NEW n \in 0..(b.blockCount - 1), NEW length \in Nat,
         LengthOf(b, n) # 0
  PROVE  LET c == IndexAppend(b, n, length)
         IN  /\ Ready(c, room) /\ c.blockCount = b.blockCount /\ c.blocks = b.blocks /\ c.variables = b.variables
             /\ LengthOf(c, n) = LengthOf(b, n) + length
             /\ \A m \in 0..(b.blockCount - 1) : m # n => LengthOf(c, m) = LengthOf(b, m)
<1> DEFINE c == IndexAppend(b, n, length)
<1>1. Whole(b)
  BY DEF Ready
<1>2. PICK S \in Nat, T0 \in Nat, V0 \in Nat, k \in Nat, L \in Nat :
        Numbers(b, S, T0, V0, k, L) /\ AreBounds(S, T0, V0, k, L)
  BY <1>1, TheNumbers DEF AreBounds
<1>3. PICK from \in Nat, point \in Nat, old \in Nat :
        /\ from = Begins(b, n) /\ point = Ends(b, n) /\ old = LengthOf(b, n) /\ 32 + T0 + V0 <= from
        /\ point = from + old /\ from < point
  <2>1. T0 = b.tableLength /\ V0 = b.trailer
    BY <1>2 DEF Numbers
  <2>2. PICK from \in Nat, point \in Nat, old \in Nat :
        /\ from = Begins(b, n) /\ point = Ends(b, n) /\ old = LengthOf(b, n) /\ 32 + T0 + V0 <= from
        /\ point = from + old
    BY <1>1, <2>1, TheBlocks DEF LengthOf
  <2>3. QED
    BY <2>2
<1>4. PICK moved : PlacesShifted(b, moved, point, length)
         /\ HasRoom(b, Resize(b, point, length, n), S, T0, V0, k, point, length, n, moved)
  BY <1>1, <1>2, RoomIsMade
<1>5. PICK new \in Nat : new = old + length
  OBVIOUS
<1> DEFINE table == [moved EXCEPT ![n + 1].length = new]
<1>6. n + 1 \in 1..Len(b.table) /\ n \in Int
  BY <1>1, BlocksHaveEntries
<1>7. moved \in Seq(PlaceType) /\ Len(moved) = Len(b.table) /\ moved[n + 1].length = old
  BY <1>3, <1>4, <1>6 DEF PlacesShifted, LengthOf
<1>8. c = [Resize(b, point, length, n) EXCEPT !.table = table]
  <2>1. Entry(b, n).address + Entry(b, n).length = point
    BY <1>1, <1>3, TheBlocks DEF Entry
  <2>2. Resize(b, point, length, n).table = moved
    BY <1>4 DEF HasRoom, StoreOf
  <2>3. c = [Resize(b, point, length, n) EXCEPT !.table
          = [Resize(b, point, length, n).table EXCEPT ![n + 1].length = Resize(b, point, length, n).table[n + 1].length + length]]
    BY <2>1 DEF IndexAppend
  <2>4. QED
    BY <1>5, <1>7, <2>2, <2>3
<1>9. /\ table \in Seq(PlaceType) /\ Len(table) = Len(b.table) /\ table[n + 1].length = new
      /\ \A i \in 1..Len(b.table) : table[i].address = moved[i].address /\ (i # n + 1 => table[i].length = moved[i].length)
  <2>1. DOMAIN moved = 1..Len(b.table) /\ \A i \in 1..Len(b.table) : moved[i] \in PlaceType
    BY <1>7
  <2>2. DOMAIN table = 1..Len(b.table)
    BY <2>1
  <2>3. ASSUME NEW i \in 1..Len(b.table)
        PROVE  /\ table[i] \in PlaceType /\ table[i].address = moved[i].address
               /\ i # n + 1 => table[i].length = moved[i].length
               /\ i = n + 1 => table[i].length = new
    BY <2>1 DEF PlaceType
  <2>4. Len(b.table) \in Nat
    BY <1>1, TheLayout
  <2>5. table \in [1..Len(b.table) -> PlaceType]
    BY <2>2, <2>3
  <2> HIDE DEF table
  <2>6. table \in Seq(PlaceType) /\ Len(table) = Len(b.table)
    BY <2>4, <2>5
  <2>7. QED
    BY <1>6, <2>3, <2>6
<1> HIDE DEF table, c
<1>10. PlacesMoved(b, table, point, length, n)
  BY <1>4, <1>6, <1>9 DEF PlacesMoved, PlacesShifted
<1>11. IsResized(b, c, S, T0, V0, point, length, n, table, b.variables)
  <2>1. Moved(32, point, length) = 32 /\ Moved(32 + T0, point, length) = 32 + T0
    <3>1. 32 < point /\ 32 + T0 < point
      BY <1>3
    <3>2. QED
      BY <3>1 DEF Moved
  <2>2. k = b.blockCount
    BY <1>2 DEF Numbers
  <2>3. QED
    BY <1>4, <1>8, <2>1, <2>2 DEF HasRoom, IsResized, StoreOf
<1>12. VariablesFit(c, V0)
  <2>1. c.variables = b.variables
    BY <1>11 DEF IsResized, StoreOf
  <2>2. VariablesEnd(c) = VariablesEnd(b)
    BY <2>1 DEF VariablesEnd
  <2>3. QED
    BY <1>1, <1>2, <2>2, TheLayout DEF Numbers, VariablesFit
<1>13. RoomIn(b, T0, V0, point, length, n, T0, V0, table)
  <2>1. table[n + 1].length = b.table[n + 1].length + length
    BY <1>3, <1>5, <1>9 DEF LengthOf
  <2>2. Begins(b, n) < point /\ point = Ends(b, n)
    BY <1>3
  <2>3. QED
    BY <2>1, <2>2 DEF RoomIn, InBlock
<1>14. b.variables \in Seq(NamedType)
  BY <1>1 DEF Whole, IsStore
<1>15. IsMade(b, c, S + length, T0, V0, k, L, table, b.variables)
  BY <1>1, <1>2, <1>10, <1>11, <1>12, <1>13, <1>14, MakingRoomIsSafe
<1>16. Ready(c, room)
  <2>1. Len(b.blocks) = k /\ L = k /\ 20 + 8 * (k + room) <= T0
    BY <1>2 DEF Ready, Numbers
  <2>2. QED
    BY <1>15, <2>1 DEF Ready, Numbers, IsMade
<1>17. LengthOf(c, n) = LengthOf(b, n) + length
  BY <1>3, <1>5, <1>9, <1>15 DEF IsMade, LengthOf
<1>18. ASSUME NEW m \in 0..(b.blockCount - 1), m # n PROVE LengthOf(c, m) = LengthOf(b, m)
  <2>1. m + 1 \in 1..Len(b.table) /\ m \in Int
    BY <1>1, BlocksHaveEntries
  <2>2. table[m + 1].length = b.table[m + 1].length
    BY <1>6, <1>10, <1>18, <2>1 DEF PlacesMoved
  <2>3. QED
    BY <1>15, <2>2 DEF IsMade, LengthOf
<1>19. QED
  BY <1>2, <1>15, <1>16, <1>17, <1>18 DEF c, Numbers, IsMade

\* A store with one more block, at its end, when the table has room for its entry.
NewPlace(S, length) == [address |-> S, length |-> length]

ContentFits(content, length) ==
  content.kind = "paths" => content \in PathsType /\ PathsSize + PathSize * Len(content.paths) <= length

LEMMA LongerSequences ==
  ASSUME NEW X, NEW s \in Seq(X), NEW e
  PROVE  /\ Len(s) \in Nat /\ Append(s, e) \in Seq(X \cup {e}) /\ Len(Append(s, e)) = Len(s) + 1
         /\ \A i \in 1..Len(s) : Append(s, e)[i] = s[i]
         /\ Append(s, e)[Len(s) + 1] = e
<1>1. s \in [1..Len(s) -> X \cup {e}] /\ Len(s) \in Nat
  OBVIOUS
<1>2. s \in Seq(X \cup {e})
  BY <1>1
<1>3. QED
  BY <1>1, <1>2

LEMMA PartsOfExtendedStores ==
  ASSUME NEW b, Whole(b), NEW S \in Nat, NEW T \in Nat, NEW V \in Nat, NEW k \in Nat,
         Numbers(b, S, T, V, k, k), 32 + T + V <= S, 20 + 8 * (k + 1) <= T, NEW length \in Nat, NEW content,
         NEW moved, PlacesShifted(b, moved, S, length), NEW n \in k..(k + 1), NEW memory, NEW c,
         c = StoreOf(S + length, memory, 32, T, 32 + T, V, n,
                     Append(moved, NewPlace(S, length)), Append(b.blocks, content), b.variables)
  PROVE  /\ HasParts(c, S + length, memory, T, V, n, Append(moved, NewPlace(S, length)),
          Append(b.blocks, content), b.variables)
         /\ IsStore(c) /\ LaidOut(c)
<1> DEFINE size == S + length
           H == 32
           offset == 32 + T
           table == Append(moved, NewPlace(S, length))
           blocks == Append(b.blocks, content)
<1>1. size \in Nat /\ H \in Nat /\ H = 32 /\ offset \in Nat /\ offset = 32 + T /\ n \in Nat /\ n <= k + 1
         /\ 32 + T + V <= size
  OBVIOUS
<1>2. moved \in Seq(PlaceType) /\ Len(moved) = k /\ NewPlace(S, length) \in PlaceType
  BY DEF PlacesShifted, Numbers, NewPlace, PlaceType
<1>3. table \in Seq(PlaceType) /\ Len(table) = k + 1
  BY <1>2
<1>4. PICK X : b.blocks \in Seq(X)
  BY DEF Whole, IsStore
<1>5. k <= Len(b.blocks)
  BY TheLayout DEF Numbers
<1>6. Len(b.blocks) \in Nat /\ blocks \in Seq(X \cup {content}) /\ Len(blocks) = Len(b.blocks) + 1
  BY <1>4, LongerSequences
<1>7. k + 1 <= Len(blocks)
  BY <1>5, <1>6
<1>8. b.variables \in Seq(NamedType)
  BY DEF Whole, IsStore
<1>9. VariablesEnd(c) \in Nat /\ 4 + VariablesEnd(c) <= V
  <2>1. c.variables = b.variables
    BY DEF StoreOf
  <2>2. VariablesEnd(c) = VariablesEnd(b)
    BY <2>1 DEF VariablesEnd
  <2>3. QED
    BY <2>2, TheLayout DEF Numbers
<1>10. n <= Len(blocks) /\ n <= Len(table) /\ 4 + 8 * Len(table) <= T
  <2>1. n <= k + 1 /\ 4 + 8 * (k + 1) <= T /\ Len(blocks) \in Nat
    BY <1>5, <1>6
  <2> HIDE DEF table, blocks
  <2>2. QED
    BY <1>1, <1>3, <1>7, <2>1
<1>11. c = StoreOf(size, memory, H, T, offset, V, n, table, blocks, b.variables)
  OBVIOUS
<1> HIDE DEF size, H, offset, table, blocks
<1>12. HasParts(c, size, memory, T, V, n, table, blocks, b.variables) /\ IsStore(c) /\ LaidOut(c)
  BY <1>1, <1>3, <1>6, <1>8, <1>9, <1>10, <1>11, PartsOfStores
<1>13. QED
  BY <1>12 DEF size, table, blocks

AsManyBlocks(b) == Len(b.blocks) = b.blockCount

\* What is known when a block is appended.
Appending(b, S, T, V, k, length, moved, content) ==
  /\ Numbers(b, S, T, V, k, k) /\ 32 + T + V <= S /\ 20 + 8 * (k + 1) <= T /\ 4 <= V
  /\ AsManyBlocks(b) /\ PlacesShifted(b, moved, S, length) /\ ContentFits(content, length)

HasTable(c, moved, S, length) == c.table = Append(moved, NewPlace(S, length))

\* The blocks that were there, in a store where one was appended.
LEMMA BlocksOfExtendedStores ==
  ASSUME NEW b, Whole(b), NEW S \in Nat, NEW T \in Nat, NEW V \in Nat, NEW k \in Nat, NEW length \in Nat,
         NEW moved, NEW content, Appending(b, S, T, V, k, length, moved, content),
         NEW c, HasTable(c, moved, S, length), NEW n \in 0..(k - 1)
  PROVE  /\ n \in 0..(b.blockCount - 1) /\ n + 1 \in 1..Len(b.table) /\ n + 1 \in 1..k
         /\ StaysInPlace(b, c, n, S, length, k) /\ 32 + T + V <= Begins(c, n)
         /\ c.table[n + 1].length = b.table[n + 1].length
         /\ Begins(c, n) \in Nat /\ Ends(c, n) \in Nat
         /\ Ends(c, n) <= S + length /\ (Ends(c, n) <= S \/ S + length <= Begins(c, n))
<1>1. S = b.size /\ T = b.tableLength /\ V = b.trailer /\ k = b.blockCount /\ k = Len(b.table)
  BY DEF Appending, Numbers
<1>2. n \in 0..(b.blockCount - 1) /\ n + 1 \in 1..Len(b.table) /\ n + 1 \in 1..k
  BY <1>1
<1>3. c.table[n + 1] = moved[n + 1]
  BY <1>1, <1>2 DEF Appending, PlacesShifted, HasTable
<1>4. /\ c.table[n + 1].address = Moved(b.table[n + 1].address, S, length)
      /\ c.table[n + 1].length = b.table[n + 1].length
  BY <1>2, <1>3 DEF Appending, PlacesShifted
<1>5. PICK from \in Nat, upto \in Nat :
        from = Begins(b, n) /\ upto = Ends(b, n) /\ 32 + T + V <= from /\ from <= upto /\ upto <= S
  <2>1. /\ Begins(b, n) \in Nat /\ Ends(b, n) \in Nat /\ 32 + T + V <= Begins(b, n)
        /\ Begins(b, n) <= Ends(b, n) /\ Ends(b, n) <= S
    BY <1>1, <1>2, TheBlocks
  <2>2. QED
    BY <2>1
<1>6. Ends(b, n) <= S \/ S <= Begins(b, n)
  BY <1>5
<1>7. StaysInPlace(b, c, n, S, length, k)
  BY <1>2, <1>4, <1>6, BlocksThatMove
<1>8. n # k
  OBVIOUS
<1>9. \/ Begins(c, n) = from /\ Ends(c, n) = upto
      \/ Begins(c, n) = from + length /\ Ends(c, n) = upto + length /\ S <= from
  BY <1>5, <1>7, <1>8 DEF StaysInPlace
<1>10. 32 + T + V <= Begins(c, n) /\ Begins(c, n) \in Nat /\ Ends(c, n) \in Nat
       /\ Ends(c, n) <= S + length /\ (Ends(c, n) <= S \/ S + length <= Begins(c, n))
  BY <1>5, <1>9
<1>11. QED
  BY <1>2, <1>4, <1>7, <1>10

IsAsBefore(b, c, n, S, T, V, k, length) ==
  /\ n \in 0..(b.blockCount - 1) /\ n + 1 \in 1..Len(b.table) /\ n + 1 \in 1..k
  /\ StaysInPlace(b, c, n, S, length, k) /\ 32 + T + V <= Begins(c, n)
  /\ c.table[n + 1].length = b.table[n + 1].length
  /\ Begins(c, n) \in Nat /\ Ends(c, n) \in Nat
  /\ Ends(c, n) <= S + length /\ (Ends(c, n) <= S \/ S + length <= Begins(c, n))

LEMMA BlocksAreAsBefore ==
  ASSUME NEW b, Whole(b), NEW S \in Nat, NEW T \in Nat, NEW V \in Nat, NEW k \in Nat, NEW length \in Nat,
         NEW moved, NEW content, Appending(b, S, T, V, k, length, moved, content),
         NEW c, HasTable(c, moved, S, length), NEW n \in 0..(k - 1)
  PROVE  IsAsBefore(b, c, n, S, T, V, k, length)
  BY BlocksOfExtendedStores DEF IsAsBefore

LEMMA TheNewBlock ==
  ASSUME NEW b, Whole(b), NEW S \in Nat, NEW T \in Nat, NEW V \in Nat, NEW k \in Nat, NEW length \in Nat,
         NEW moved, NEW content, Appending(b, S, T, V, k, length, moved, content),
         NEW c, HasTable(c, moved, S, length)
  PROVE  /\ c.table[k + 1].address = S /\ c.table[k + 1].length = length
         /\ Begins(c, k) = S /\ Ends(c, k) = S + length
<1>1. c.table[k + 1] = NewPlace(S, length)
  <2>1. moved \in Seq(PlaceType) /\ Len(moved) = k
    BY DEF Appending, PlacesShifted, Numbers
  <2>2. QED
    BY <2>1 DEF HasTable
<1>2. c.table[k + 1].address = S /\ c.table[k + 1].length = length
  BY <1>1 DEF NewPlace
<1>3. k # Header /\ k # Table /\ k # Variables
  BY TheSizes DEF Sizes
<1>4. QED
  BY <1>2, <1>3 DEF Begins, Ends

LEMMA TheNewBlockIsAsLong ==
  ASSUME NEW b, Whole(b), NEW S \in Nat, NEW T \in Nat, NEW V \in Nat, NEW k \in Nat, NEW length \in Nat,
         NEW moved, NEW content, Appending(b, S, T, V, k, length, moved, content),
         NEW c, HasTable(c, moved, S, length)
  PROVE  LengthOf(c, k) = length
  BY TheNewBlock DEF LengthOf

\* Where the header, the table and the variables are.
LEMMA PartsBegin ==
  ASSUME NEW c, NEW S, NEW memory, NEW T, NEW V, NEW k, NEW table, NEW blocks, NEW variables,
         HasParts(c, S, memory, T, V, k, table, blocks, variables)
  PROVE  /\ Begins(c, Header) = 0 /\ Ends(c, Header) = 32
         /\ Begins(c, Table) = 32 /\ Ends(c, Table) = 32 + T
         /\ Begins(c, Variables) = 32 + T /\ Ends(c, Variables) = 32 + T + V
  BY DEF HasParts

LEMMA OwnersOfExtendedStores ==
  ASSUME NEW b, Whole(b), NEW S \in Nat, NEW T \in Nat, NEW V \in Nat, NEW k \in Nat, NEW length \in Nat,
         NEW moved, NEW content, Appending(b, S, T, V, k, length, moved, content), NEW memory,
         NEW c, HasParts(c, S + length, memory, T, V, k + 1, Append(moved, NewPlace(S, length)),
                 Append(b.blocks, content), b.variables)
  PROVE  /\ k \in Owners(c) /\ Table \in Owners(c) /\ Begins(c, k) = S /\ Ends(c, k) = S + length
         /\ \A x \in Owners(b) : x \in Owners(c) /\ StaysInPlace(b, c, x, S, length, k)
         /\ \A x \in Owners(c) : Begins(c, x) \in Nat /\ Ends(c, x) \in Nat
<1>1. c.blockCount = k + 1 /\ HasTable(c, moved, S, length) /\ b.blockCount = k
  BY DEF HasParts, HasTable, Appending, Numbers
<1>2. Owners(c) = Owners(b) \cup {k}
  BY <1>1 DEF Owners
<1>3. k \in Owners(c) /\ Table \in Owners(c)
  BY <1>2 DEF Owners
<1>4. Begins(c, k) = S /\ Ends(c, k) = S + length
  BY <1>1, TheNewBlock
<1>5. /\ Begins(b, Header) = 0 /\ Ends(b, Header) = 32
      /\ Begins(b, Table) = 32 /\ Ends(b, Table) = 32 + T
      /\ Begins(b, Variables) = 32 + T /\ Ends(b, Variables) = 32 + T + V
  BY TheOwners DEF Appending, Numbers
<1>6. /\ Begins(c, Header) = 0 /\ Ends(c, Header) = 32
      /\ Begins(c, Table) = 32 /\ Ends(c, Table) = 32 + T
      /\ Begins(c, Variables) = 32 + T /\ Ends(c, Variables) = 32 + T + V
  BY PartsBegin
<1>7. 32 + T + V <= S /\ 20 < T /\ 4 <= V
  BY DEF Appending
<1>8. ASSUME NEW x \in Owners(b)
      PROVE  x \in Owners(c) /\ StaysInPlace(b, c, x, S, length, k) /\ Begins(c, x) \in Nat /\ Ends(c, x) \in Nat
  <2>1. CASE x \in 0..(k - 1)
    BY <1>1, <1>2, <2>1, BlocksOfExtendedStores
  <2>2. CASE x = Header
    BY <1>2, <1>5, <1>6, <1>7, <2>2 DEF StaysInPlace
  <2>3. CASE x = Table
    BY <1>2, <1>5, <1>6, <1>7, <2>3 DEF StaysInPlace
  <2>4. CASE x = Variables
    <3>1. Begins(b, x) = 32 + T /\ Ends(b, x) = 32 + T + V /\ Begins(c, x) = 32 + T /\ Ends(c, x) = 32 + T + V
      BY <1>5, <1>6, <2>4
    <3>2. QED
      BY <1>2, <1>7, <3>1 DEF StaysInPlace
  <2>5. QED
    BY <1>1, <2>1, <2>2, <2>3, <2>4 DEF Owners
<1>9. QED
  BY <1>2, <1>3, <1>4, <1>8

\* The memory of a file at whose end room was made, and whose table was written to.
Room(b, S, length, k) == Write(MoveBytes(b.memory, S, length), S, S + length, k)
Entered(b, S, length, k) == Write(Room(b, S, length, k), 36 + 8 * k, 36 + 8 * (k + 1), Table)

LEMMA RunsOfExtendedStores ==
  ASSUME NEW b, Whole(b), NEW S \in Nat, NEW T \in Nat, NEW V \in Nat, NEW k \in Nat, NEW length \in Nat,
         NEW moved, NEW content, Appending(b, S, T, V, k, length, moved, content), NEW c, NEW d,
         HasParts(d, S + length, Room(b, S, length, k), T, V, k + 1, Append(moved, NewPlace(S, length)),
                  Append(b.blocks, content), b.variables),
         HasParts(c, S + length, Entered(b, S, length, k), T, V, k + 1, Append(moved, NewPlace(S, length)),
                  Append(b.blocks, content), b.variables)
  PROVE  Tiled(c.memory, S + length) /\ RunsLieInside(c)
<1>1. /\ k \in Owners(d) /\ Table \in Owners(d) /\ Begins(d, k) = S /\ Ends(d, k) = S + length
      /\ \A x \in Owners(b) : x \in Owners(d) /\ StaysInPlace(b, d, x, S, length, k)
      /\ \A x \in Owners(d) : Begins(d, x) \in Nat /\ Ends(d, x) \in Nat
  BY OwnersOfExtendedStores
<1>2. S = b.size /\ 20 + 8 * (k + 1) <= T /\ 32 + T <= S
  BY DEF Appending, Numbers
<1>3. Tiled(d.memory, S + length) /\ RunsLieInside(d)
  <2>1. S \in 0..b.size /\ k \in Int /\ Begins(d, k) <= S /\ S + length <= Ends(d, k)
    BY <1>1, <1>2
  <2>2. d.memory = Write(MoveBytes(b.memory, S, length), S, S + length, k)
    BY DEF HasParts, Room
  <2>3. QED
    BY <1>1, <1>2, <2>1, <2>2, RoomIsInside
<1>4. SamePlaces(d, c)
  <2>1. c.table = d.table /\ c.tableOffset = d.tableOffset /\ c.tableLength = d.tableLength
        /\ c.variablesOffset = d.variablesOffset /\ c.trailer = d.trailer /\ c.blockCount = d.blockCount
    BY DEF HasParts
  <2>2. \A x : Begins(c, x) = Begins(d, x) /\ Ends(c, x) = Ends(d, x)
    BY <2>1 DEF Begins, Ends
  <2>3. Owners(c) = Owners(d)
    BY <2>1 DEF Owners
  <2>4. QED
    BY <1>1, <2>2, <2>3 DEF SamePlaces
<1>5. PICK size \in Nat, from \in Nat, upto \in Nat :
        size = S + length /\ from = 36 + 8 * k /\ upto = 36 + 8 * (k + 1)
  OBVIOUS
<1>6. Begins(d, Table) <= from /\ upto <= Ends(d, Table) /\ from <= upto /\ upto <= size
  <2>1. Begins(d, Table) = 32 /\ Ends(d, Table) = 32 + T
    BY PartsBegin
  <2>2. QED
    BY <1>2, <1>5, <2>1
<1>7. c.memory = Write(d.memory, from, upto, Table)
  BY <1>5 DEF HasParts, Entered
<1>8. Table \in Int
  BY TheSizes DEF Sizes
<1>9. Tiled(c.memory, size) /\ RunsLieInside(c)
  <2>1. Tiled(d.memory, size)
    BY <1>3, <1>5
  <2>2. QED
    BY <1>1, <1>3, <1>4, <1>6, <1>7, <1>8, <2>1, WrittenInside
<1>10. QED
  BY <1>5, <1>9

IsExtended(b, c, S, T, V, k, length, moved, content) ==
  c = StoreOf(S + length, Entered(b, S, length, k), 32, T, 32 + T, V, k + 1,
              Append(moved, NewPlace(S, length)), Append(b.blocks, content), b.variables)

LEMMA ExtendedStoresAreWhole ==
  ASSUME NEW b, Whole(b), NEW S \in Nat, NEW T \in Nat, NEW V \in Nat, NEW k \in Nat, NEW length \in Nat,
         NEW moved, NEW content, Appending(b, S, T, V, k, length, moved, content), NEW c,
         IsExtended(b, c, S, T, V, k, length, moved, content)
  PROVE  /\ Whole(c) /\ Numbers(c, S + length, T, V, k + 1, k + 1) /\ HasTable(c, moved, S, length)
         /\ c.blocks = Append(b.blocks, content) /\ c.variables = b.variables
<1> DEFINE table == Append(moved, NewPlace(S, length))
           blocks == Append(b.blocks, content)
           d == StoreOf(S + length, Room(b, S, length, k), 32, T, 32 + T, V, k + 1, table, blocks, b.variables)
<1>1. /\ Numbers(b, S, T, V, k, k) /\ 32 + T + V <= S /\ 20 + 8 * (k + 1) <= T
      /\ PlacesShifted(b, moved, S, length) /\ ContentFits(content, length)
  BY DEF Appending
<1>2. k + 1 \in k..(k + 1)
  OBVIOUS
<1>3. /\ HasParts(c, S + length, Entered(b, S, length, k), T, V, k + 1, table, blocks, b.variables)
      /\ IsStore(c) /\ LaidOut(c)
  BY <1>1, <1>2, PartsOfExtendedStores DEF IsExtended
<1>4. HasParts(d, S + length, Room(b, S, length, k), T, V, k + 1, table, blocks, b.variables)
  BY <1>1, <1>2, PartsOfExtendedStores
<1>5. Tiled(c.memory, S + length) /\ RunsLieInside(c)
  <2> HIDE DEF d
  <2> QED
    BY <1>3, <1>4, RunsOfExtendedStores
<1> HIDE DEF table, blocks, d
<1>6. HasTable(c, moved, S, length)
  BY <1>3 DEF HasParts, HasTable, table
<1>7. BlocksAreApart(c)
  <2> DEFINE e == StoreOf(S + length, Entered(b, S, length, k), 32, T, 32 + T, V, k, Append(moved, NewPlace(S, length)), Append(b.blocks, content), b.variables)
  <2>1. k \in k..(k + 1)
    OBVIOUS
  <2>2. /\ HasParts(e, S + length, Entered(b, S, length, k), T, V, k, Append(moved, NewPlace(S, length)),
          Append(b.blocks, content), b.variables)
        /\ IsStore(e)
    BY <1>1, <2>1, PartsOfExtendedStores
  <2> HIDE DEF e
  <2>3. /\ HasTable(e, moved, S, length) /\ e.blockCount = k /\ e.size = S + length
        /\ e.variablesOffset = 32 + T /\ e.trailer = V /\ c.table = e.table
        /\ c.variablesOffset = 32 + T /\ c.trailer = V /\ c.size = S + length /\ c.blockCount = k + 1
    BY <1>3, <2>2 DEF HasParts, HasTable, table
  <2>4. b.blockCount = k /\ S = b.size
    BY <1>1 DEF Numbers
  <2>5. \A n \in 0..(b.blockCount - 1) : StaysInPlace(b, e, n, S, length, k)
           /\ e.variablesOffset + e.trailer <= Begins(e, n)
    <3>1. ASSUME NEW n \in 0..(k - 1) PROVE IsAsBefore(b, e, n, S, T, V, k, length)
      BY <2>3, BlocksAreAsBefore
    <3>2. QED
      BY <2>3, <2>4, <3>1 DEF IsAsBefore
  <2>6. b.blockCount <= Count(e)
    <3>1. Len(moved) = k /\ moved \in Seq(PlaceType)
      BY <1>1 DEF PlacesShifted, Numbers
    <3>2. Len(e.table) = k + 1
      BY <2>3, <3>1 DEF HasTable
    <3>3. QED
      BY <2>4, <3>2 DEF Count
  <2>7. BlocksAreApart(e)
    <3>1. S \in 0..b.size
      BY <2>4
    <3>2. QED
      BY <2>2, <2>3, <2>4, <2>5, <2>6, <3>1, BlocksStayApart
  <2>8. c.table[k + 1].address = S /\ c.table[k + 1].length = length
    BY <1>6, TheNewBlock
  <2>9. ASSUME NEW i \in 1..k
        PROVE  \E from, length0 \in Nat :
                 /\ from = c.table[i].address /\ length0 = c.table[i].length
                 /\ 32 + T + V <= from /\ from + length0 <= S + length
                 /\ from + length0 <= S \/ S + length <= from
    <3>1. i - 1 \in 0..(k - 1) /\ (i - 1) + 1 = i
      OBVIOUS
    <3>2. PICK n \in 0..(k - 1) : n = i - 1 /\ n + 1 = i
      BY <3>1
    <3>3. /\ 32 + T + V <= Begins(c, n) /\ Begins(c, n) \in Nat /\ Ends(c, n) \in Nat
          /\ Ends(c, n) <= S + length /\ (Ends(c, n) <= S \/ S + length <= Begins(c, n))
          /\ c.table[n + 1].length = b.table[n + 1].length /\ n \in 0..(b.blockCount - 1)
      <4>1. IsAsBefore(b, c, n, S, T, V, k, length)
        BY <1>6, BlocksAreAsBefore
      <4>2. QED
        BY <4>1 DEF IsAsBefore
    <3>4. Begins(c, n) = c.table[i].address /\ Ends(c, n) = c.table[i].address + c.table[i].length
      <4>1. n # Header /\ n # Table /\ n # Variables
        BY TheSizes DEF Sizes
      <4>2. QED
        BY <3>2, <4>1 DEF Begins, Ends
    <3>5. c.table[i].length \in Nat
      BY <3>2, <3>3, TheBlocks
    <3>6. PICK from \in Nat, length0 \in Nat : from = c.table[i].address /\ length0 = c.table[i].length
      BY <3>3, <3>4, <3>5
    <3>7. Begins(c, n) = from /\ Ends(c, n) = from + length0
      BY <3>4, <3>6
    <3>8. QED
      BY <3>3, <3>6, <3>7
  <2>10. ASSUME NEW i \in 1..(k + 1)
         PROVE  32 + T + V <= c.table[i].address /\ c.table[i].address + c.table[i].length <= S + length
    <3>1. CASE i \in 1..k
      BY <2>9, <3>1
    <3>2. CASE i = k + 1
      BY <1>1, <2>8, <3>2
    <3>3. QED
      BY <3>1, <3>2
  <2>11. ASSUME NEW i \in 1..(k + 1), NEW j \in 1..(k + 1), i # j
         PROVE  \/ c.table[i].address + c.table[i].length <= c.table[j].address
                \/ c.table[j].address + c.table[j].length <= c.table[i].address
    <3>1. CASE i \in 1..k /\ j \in 1..k
      BY <2>3, <2>7, <2>11, <3>1 DEF BlocksAreApart
    <3>2. CASE i \in 1..k /\ j = k + 1
      <4>1. PICK from \in Nat, length0 \in Nat :
                 /\ from = c.table[i].address /\ length0 = c.table[i].length
                 /\ from + length0 <= S \/ S + length <= from
        BY <2>9, <3>2
      <4>2. QED
        BY <2>8, <3>2, <4>1
    <3>3. CASE i = k + 1 /\ j \in 1..k
      <4>1. PICK from \in Nat, length0 \in Nat :
                 /\ from = c.table[j].address /\ length0 = c.table[j].length
                 /\ from + length0 <= S \/ S + length <= from
        BY <2>9, <3>3
      <4>2. QED
        BY <2>8, <3>3, <4>1
    <3>4. QED
      BY <2>11, <3>1, <3>2, <3>3
  <2>12. QED
    BY <2>3, <2>10, <2>11 DEF BlocksAreApart
<1>8. PathsFit(c)
  <2>1. SUFFICES ASSUME NEW i \in 1..(k + 1), c.blocks[i].kind = "paths"
                 PROVE  c.blocks[i] \in PathsType /\ PathsSize + PathSize * Len(c.blocks[i].paths) <= c.table[i].length
    BY <1>3 DEF PathsFit, HasParts
  <2>2. PICK X : b.blocks \in Seq(X)
    BY DEF Whole, IsStore
  <2>3. Len(b.blocks) = k
    BY <1>1 DEF Appending, AsManyBlocks, Numbers
  <2>4. /\ \A j \in 1..k : c.blocks[j] = b.blocks[j]
        /\ c.blocks[k + 1] = content
    <3>1. c.blocks = Append(b.blocks, content)
      BY <1>3 DEF HasParts, blocks
    <3>2. QED
      BY <2>2, <2>3, <3>1, LongerSequences
  <2>5. CASE i \in 1..k
    <3>1. c.blocks[i] = b.blocks[i] /\ i \in 1..b.blockCount
      BY <1>1, <2>4, <2>5 DEF Numbers
    <3>2. c.blocks[i] \in PathsType /\ PathsSize + PathSize * Len(c.blocks[i].paths) <= b.table[i].length
      BY <2>1, <3>1 DEF Whole, PathsFit
    <3>3. PICK n \in 0..(k - 1) : n + 1 = i
      <4>1. i - 1 \in 0..(k - 1) /\ (i - 1) + 1 = i
        BY <2>5
      <4>2. QED
        BY <4>1
    <3>4. c.table[i].length = b.table[i].length
      <4>1. IsAsBefore(b, c, n, S, T, V, k, length)
        BY <1>6, BlocksAreAsBefore
      <4>2. QED
        BY <3>3, <4>1 DEF IsAsBefore
    <3>5. QED
      BY <3>2, <3>4
  <2>6. CASE i = k + 1
    <3>1. c.table[i].length = length
      BY <1>6, <2>6, TheNewBlock
    <3>2. c.blocks[i] = content
      BY <2>4, <2>6
    <3>3. content.kind = "paths"
      BY <2>1, <3>2
    <3>4. content \in PathsType /\ PathsSize + PathSize * Len(content.paths) <= length
      BY <1>1, <3>3 DEF ContentFits
    <3>5. QED
      BY <3>1, <3>2, <3>4
  <2>7. QED
    BY <2>5, <2>6
<1>9. c.size = S + length
  BY <1>3 DEF HasParts
<1>10. Numbers(c, S + length, T, V, k + 1, k + 1)
  <2>1. Len(moved) = k /\ moved \in Seq(PlaceType)
    BY <1>1 DEF PlacesShifted, Numbers
  <2>2. Len(table) = k + 1
    BY <2>1 DEF table
  <2>3. QED
    BY <1>3, <2>2 DEF HasParts, Numbers
<1>11. c.blocks = blocks /\ c.variables = b.variables
  BY <1>3 DEF HasParts
<1>12. QED
  BY <1>3, <1>5, <1>6, <1>7, <1>8, <1>9, <1>10, <1>11 DEF Whole, blocks

WithBlock(r, table, blocks, memory, count) ==
  [r EXCEPT !.table = table, !.blocks = blocks, !.memory = memory, !.blockCount = count]

LEMMA StoresWithBlocks ==
  ASSUME NEW size, NEW old, NEW H, NEW T, NEW offset, NEW V, NEW k, NEW places, NEW rest, NEW variables,
         NEW table, NEW blocks, NEW memory, NEW count
  PROVE  WithBlock(StoreOf(size, old, H, T, offset, V, k, places, rest, variables), table, blocks, memory, count)
           = StoreOf(size, memory, H, T, offset, V, count, table, blocks, variables)
<1> DEFINE r1 == StoreOf(size, old, H, T, offset, V, k, places, rest, variables)
           r2 == StoreOf(size, old, H, T, offset, V, k, table, rest, variables)
           r3 == StoreOf(size, old, H, T, offset, V, k, table, blocks, variables)
           r4 == StoreOf(size, memory, H, T, offset, V, k, table, blocks, variables)
           r5 == StoreOf(size, memory, H, T, offset, V, count, table, blocks, variables)
<1>1. [r1 EXCEPT !.table = table] = r2
  BY DEF StoreOf
<1>2. [r2 EXCEPT !.blocks = blocks] = r3
  BY DEF StoreOf
<1>3. [r3 EXCEPT !.memory = memory] = r4
  BY DEF StoreOf
<1>4. [r4 EXCEPT !.blockCount = count] = r5
  BY DEF StoreOf
<1> HIDE DEF r1, r2, r3, r4, r5
<1>5. WithBlock(r1, table, blocks, memory, count)
        = [[[[r1 EXCEPT !.table = table] EXCEPT !.blocks = blocks] EXCEPT !.memory = memory] EXCEPT !.blockCount = count]
  BY DEF WithBlock
<1>6. WithBlock(r1, table, blocks, memory, count) = r5
  BY <1>1, <1>2, <1>3, <1>4, <1>5
<1>7. QED
  BY <1>6 DEF r1, r5

\* The table has room for as many entries as it was made ready for.
LEMMA ReadyTablesAreKept ==
  ASSUME NEW b, NEW room \in Nat, Ready(b, room), NEW n \in Nat, n <= room
  PROVE  GrowTable(b, n) = b
<1>1. Whole(b)
  BY DEF Ready
<1>2. PICK T \in Nat, k \in Nat : T = b.tableLength /\ k = b.blockCount /\ Count(b) = k /\ 20 + 8 * (k + room) <= T
  BY <1>1, TheLayout DEF Ready
<1>3. ~(4 + 8 * (k + n) > T - 16)
  BY <1>2
<1>4. ~TableFull(b, n)
  BY <1>2, <1>3, TheSizes DEF TableFull, Sizes
<1>5. QED
  BY <1>4 DEF GrowTable

LEMMA AppendedBlocks ==
  ASSUME NEW b, Whole(b), NEW S \in Nat, NEW T \in Nat, NEW V \in Nat, NEW k \in Nat,
         Numbers(b, S, T, V, k, k), NEW length \in Nat, NEW content, 32 + T + V <= S, 4 <= V
  PROVE  \E moved : /\ PlacesShifted(b, moved, S, length)
                    /\ IsExtended(b, AppendBlock(b, content, length), S, T, V, k, length, moved, content)
<1> DEFINE r == Resize(b, S, length, k)
           c == AppendBlock(b, content, length)
<1>1. PICK moved : PlacesShifted(b, moved, S, length) /\ HasRoom(b, r, S, T, V, k, S, length, k, moved)
  BY RoomIsMade
<1>2. Count(b) = k /\ b.size = S /\ EntryAt(b, k) = 36 + 8 * k /\ EntryAt(b, k + 1) = 36 + 8 * (k + 1)
  BY TheLayout, TheSizes DEF Numbers, EntryAt, Sizes
<1>3. PICK room, H, offset, size : room = Room(b, S, length, k) /\ H = 32 /\ offset = 32 + T /\ size = S + length
  OBVIOUS
<1> DEFINE rest == b.blocks
           variables == b.variables
<1>4. r = StoreOf(size, room, H, T, offset, V, k, moved, rest, variables)
  <2>1. Moved(32, S, length) = 32 /\ Moved(32 + T, S, length) = 32 + T
    <3>1. 32 < S /\ 32 + T < S
      OBVIOUS
    <3>2. QED
      BY <3>1 DEF Moved
  <2>2. QED
    BY <1>1, <1>3, <2>1 DEF HasRoom, Room
<1> HIDE DEF r, rest, variables
<1>5. r.table = moved /\ r.blocks = rest /\ r.memory = room
  BY <1>4 DEF StoreOf
<1>6. PICK table, blocks, memory, count :
        /\ table = Append(moved, NewPlace(S, length)) /\ blocks = Append(rest, content)
        /\ memory = Write(room, 36 + 8 * k, 36 + 8 * (k + 1), Table) /\ count = k + 1
  OBVIOUS
<1>7. c = WithBlock(r, table, blocks, memory, count)
  <2>1. c = [r EXCEPT !.table = Append(r.table, NewPlace(S, length)), !.blocks = Append(r.blocks, content),
                      !.memory = Write(r.memory, EntryAt(b, k), EntryAt(b, k + 1), Table), !.blockCount = k + 1]
    BY <1>2 DEF AppendBlock, NewPlace, r
  <2>2. QED
    BY <1>2, <1>5, <1>6, <2>1 DEF WithBlock
<1> HIDE DEF c
<1>8. c = StoreOf(size, memory, H, T, offset, V, count, table, blocks, variables)
  BY <1>4, <1>7, StoresWithBlocks
<1>9. IsExtended(b, c, S, T, V, k, length, moved, content)
  BY <1>3, <1>6, <1>8 DEF IsExtended, Entered, rest, variables
<1>10. QED
  BY <1>1, <1>9 DEF c

LEMMA AddingIsSafe ==
  ASSUME NEW b, NEW room \in Nat, Ready(b, room + 1), NEW length \in Nat, NEW content, ContentFits(content, length)
  PROVE  LET c == IndexAdd(b, content, length)
         IN  /\ Ready(c, room) /\ c.blockCount = b.blockCount + 1 /\ c.blocks = Append(b.blocks, content)
             /\ c.variables = b.variables /\ SameLengths(b, c) /\ LengthOf(c, b.blockCount) = length
<1> DEFINE c == IndexAdd(b, content, length)
<1>1. Whole(b)
  BY DEF Ready
<1>2. PICK S \in Nat, T \in Nat, V \in Nat, k \in Nat, L \in Nat :
        Numbers(b, S, T, V, k, L) /\ AreBounds(S, T, V, k, L)
  BY <1>1, TheNumbers DEF AreBounds
<1>3. L = k /\ 20 + 8 * (k + (room + 1)) <= T /\ AsManyBlocks(b)
  BY <1>2 DEF Ready, Numbers, AsManyBlocks
<1>4. 32 + T + V <= S /\ 4 <= V /\ 20 + 8 * (k + 1) <= T
  BY <1>2, <1>3 DEF AreBounds
<1>5. c = AppendBlock(b, content, length)
  <2>1. 1 \in Nat /\ 1 <= room + 1 /\ room + 1 \in Nat
    OBVIOUS
  <2>2. GrowTable(b, 1) = b
    BY <2>1, ReadyTablesAreKept
  <2>3. QED
    BY <2>2 DEF IndexAdd
<1> HIDE DEF c
<1>6. Numbers(b, S, T, V, k, k)
  BY <1>2, <1>3
<1>7. PICK moved : PlacesShifted(b, moved, S, length) /\ IsExtended(b, c, S, T, V, k, length, moved, content)
  BY <1>1, <1>4, <1>5, <1>6, AppendedBlocks
<1>8. Appending(b, S, T, V, k, length, moved, content)
  BY <1>3, <1>4, <1>6, <1>7 DEF Appending
<1>9. /\ Whole(c) /\ Numbers(c, S + length, T, V, k + 1, k + 1) /\ HasTable(c, moved, S, length)
      /\ c.blocks = Append(b.blocks, content) /\ c.variables = b.variables
  BY <1>1, <1>7, <1>8, ExtendedStoresAreWhole
<1>10. Len(c.blocks) = k + 1
  <2>1. PICK X : b.blocks \in Seq(X)
    BY <1>1 DEF Whole, IsStore
  <2>2. Len(b.blocks) = k
    BY <1>3, <1>6 DEF AsManyBlocks, Numbers
  <2>3. QED
    BY <1>9, <2>1, <2>2, LongerSequences
<1>11. Ready(c, room)
  <2>1. c.blockCount = k + 1 /\ Len(c.table) = k + 1 /\ c.tableLength = T
    BY <1>9 DEF Numbers
  <2>2. 20 + 8 * ((k + 1) + room) <= T
    BY <1>3
  <2>3. QED
    BY <1>9, <1>10, <2>1, <2>2 DEF Ready
<1>12. SameLengths(b, c)
  <2>1. ASSUME NEW n \in 0..(k - 1) PROVE IsAsBefore(b, c, n, S, T, V, k, length)
    BY <1>1, <1>8, <1>9, BlocksAreAsBefore
  <2>2. b.blockCount = k
    BY <1>6 DEF Numbers
  <2>3. QED
    BY <2>1, <2>2 DEF SameLengths, LengthOf, IsAsBefore
<1>13. LengthOf(c, k) = length
  BY <1>1, <1>8, <1>9, TheNewBlockIsAsLong
<1>14. QED
  BY <1>6, <1>9, <1>11, <1>12, <1>13 DEF Numbers, c

IsAdded(b, c, room, content, length) ==
  /\ Ready(c, room) /\ c.blockCount = b.blockCount + 1 /\ c.blocks = Append(b.blocks, content)
  /\ c.variables = b.variables /\ SameLengths(b, c) /\ LengthOf(c, b.blockCount) = length

LEMMA AddedBlocks ==
  ASSUME NEW b, NEW room \in Nat, NEW more \in Nat, more = room + 1, Ready(b, more),
         NEW length \in Nat, NEW content, ContentFits(content, length)
  PROVE  IsAdded(b, IndexAdd(b, content, length), room, content, length)
  BY AddingIsSafe DEF IsAdded

-----------------------------------------------------------------------------
(* Variables and trees.                                                     *)

\* The names that the variables of a store have.
NamesIn(b, S) == \A i \in 1..Len(b.variables) : b.variables[i].name \in S

LEMMA TheFirstOfAName ==
  ASSUME NEW variables \in Seq(NamedType), NEW v \in NamedType, NEW c, c.variables = Append(variables, v),
         \A i \in 1..Len(variables) : variables[i].name # v.name
  PROVE  VariableGet(c, v.name) = v.index
<1> DEFINE all == Append(variables, v)
           found == {i \in 1..Len(all) : all[i].name = v.name}
<1>1. /\ Len(variables) \in Nat /\ Len(all) = Len(variables) + 1 /\ all[Len(variables) + 1] = v
      /\ \A i \in 1..Len(variables) : all[i] = variables[i]
  OBVIOUS
<1> HIDE DEF all
<1>2. found = {Len(variables) + 1}
  BY <1>1
<1>3. Min(found) = Len(variables) + 1
  <2>1. \E x \in found : \A y \in found : x <= y
    <3> DEFINE last == Len(variables) + 1
    <3>1. last \in Nat /\ found = {last}
      BY <1>1, <1>2
    <3> HIDE DEF last, found
    <3>2. QED
      BY <3>1
  <2>2. Min(found) \in found
    BY <2>1 DEF Min
  <2>3. QED
    BY <1>2, <2>2
<1>4. SelectInSeq(all, LAMBDA w : w.name = v.name) = Len(variables) + 1
  <2>1. found # {}
    BY <1>2
  <2>2. SelectInSeq(all, LAMBDA w : w.name = v.name) = Min(found)
    BY <2>1 DEF SelectInSeq
  <2>3. QED
    BY <1>3, <2>2
<1>5. Len(variables) + 1 # 0
  BY <1>1
<1>6. QED
  BY <1>1, <1>4, <1>5 DEF VariableGet, all

LEMMA NamesOfMoreVariables ==
  ASSUME NEW b, NEW c, NEW v, NEW S, b.variables \in Seq(NamedType), NamesIn(b, S), c.variables = Append(b.variables, v)
  PROVE  NamesIn(c, S \cup {v.name})
<1> DEFINE old == b.variables
<1>1. old \in Seq(NamedType) /\ \A i \in 1..Len(old) : old[i].name \in S
  BY DEF NamesIn
<1>2. c.variables = Append(old, v)
  OBVIOUS
<1> HIDE DEF old
<1>3. /\ Len(old) \in Nat /\ Len(Append(old, v)) = Len(old) + 1 /\ Append(old, v)[Len(old) + 1] = v
      /\ \A i \in 1..Len(old) : Append(old, v)[i] = old[i]
  BY <1>1
<1>4. QED
  BY <1>1, <1>2, <1>3 DEF NamesIn

TreeType(p) == [kind : {"tree"}, child : {p}, pathCount : Nat]

\* A tree by a name, with the block of its paths and room in it for more of them.
HasPaths(b, p, n) ==
  b.blocks[p + 1] \in PathsType /\ LengthOf(b, p) = 12 + 8 * (Len(b.blocks[p + 1].paths) + n)

HasTree(b, name, p, n) ==
  /\ p + 1 < b.blockCount /\ VariableGet(b, name) = p + 1
  /\ b.blocks[p + 2] \in TreeType(p) /\ HasPaths(b, p, n)

LEMMA NewPathsFit == ContentFits(PathsBlock, PathsSize) /\ ContentFits(TreeBlock(0), TreeSize)
         /\ PathsBlock \in PathsType
  BY TheSizes DEF ContentFits, PathsBlock, TreeBlock, PathsType, Sizes

LEMMA TreeIsAllocated ==
  ASSUME NEW b, NEW room \in Nat, Ready(b, room + 2), NEW name \in Names, Len(name) \in Nat,
         NEW S, NamesIn(b, S), name \notin S
  PROVE  LET c == TreeAllocEmpty(b, name)
         IN  Ready(c, room) /\ NamesIn(c, S \cup {name}) /\ \E p \in Nat : HasTree(c, name, p, 0)
<1> DEFINE p == Count(b)
           b1 == IndexAdd(b, PathsBlock, PathsSize)
           b2 == IndexAdd(b1, TreeBlock(p), TreeSize)
           c == VariableAdd(b2, name, p + 1)
           v == Variable(b2, name, p + 1)
<1>1. Whole(b) /\ p = b.blockCount /\ p \in Nat /\ Len(b.blocks) = p
  BY TheLayout DEF Ready
<1>2. /\ Ready(b1, room + 1) /\ b1.blockCount = p + 1 /\ b1.blocks = Append(b.blocks, PathsBlock)
      /\ b1.variables = b.variables /\ LengthOf(b1, p) = 12
  <2>1. PICK less \in Nat, more \in Nat : less = room + 1 /\ more = less + 1 /\ more = room + 2
    OBVIOUS
  <2>2. PathsSize \in Nat /\ PathsSize = 12 /\ ContentFits(PathsBlock, PathsSize)
    BY NewPathsFit, TheSizes DEF Sizes
  <2>3. IsAdded(b, b1, less, PathsBlock, PathsSize)
    BY <2>1, <2>2, AddedBlocks
  <2> HIDE DEF p, b1
  <2>4. QED
    BY <1>1, <2>1, <2>2, <2>3 DEF IsAdded
<1> HIDE DEF b1
<1>3. /\ Ready(b2, room) /\ b2.blockCount = p + 2 /\ b2.blocks = Append(b1.blocks, TreeBlock(p))
      /\ b2.variables = b1.variables /\ LengthOf(b2, p) = 12
  <2>1. TreeSize \in Nat /\ ContentFits(TreeBlock(p), TreeSize)
    BY TheSizes DEF ContentFits, TreeBlock, Sizes
  <2> HIDE DEF p
  <2>5. PICK more \in Nat : more = room + 1 /\ Ready(b1, more)
    BY <1>2
  <2>6. IsAdded(b1, b2, room, TreeBlock(p), TreeSize)
    BY <2>1, <2>5, AddedBlocks
  <2>2. /\ Ready(b2, room) /\ b2.blockCount = b1.blockCount + 1 /\ b2.blocks = Append(b1.blocks, TreeBlock(p))
        /\ b2.variables = b1.variables /\ SameLengths(b1, b2)
    BY <2>6 DEF IsAdded
  <2>3. LengthOf(b2, p) = LengthOf(b1, p)
    BY <1>1, <1>2, <2>2 DEF SameLengths
  <2>4. QED
    BY <1>1, <1>2, <2>2, <2>3
<1> HIDE DEF b2
<1>4. /\ Ready(c, room) /\ SameBlocks(b2, c) /\ v \in NamedType /\ c.variables = Append(b2.variables, v)
  <2>1. p + 1 \in Nat
    BY <1>1
  <2> HIDE DEF p
  <2>2. QED
    BY <1>3, <2>1, AddingVariablesIsSafe
<1>5. v.name = name /\ v.index = p + 1
  BY DEF Variable
<1> HIDE DEF c, v
<1>6. b.variables \in Seq(NamedType) /\ c.variables = Append(b.variables, v)
  BY <1>1, <1>2, <1>3, <1>4 DEF Whole, IsStore
<1>7. NamesIn(c, S \cup {name})
  BY <1>5, <1>6, NamesOfMoreVariables
<1>8. VariableGet(c, name) = p + 1
  <2>1. \A i \in 1..Len(b.variables) : b.variables[i].name # name
    BY DEF NamesIn
  <2> DEFINE old == b.variables
  <2>2. old \in Seq(NamedType) /\ c.variables = Append(old, v) /\ \A i \in 1..Len(old) : old[i].name # v.name
    BY <1>5, <1>6, <2>1
  <2> HIDE DEF old
  <2>3. VariableGet(c, v.name) = v.index
    BY <1>4, <2>2, TheFirstOfAName
  <2>4. QED
    BY <1>5, <2>3
<1>9. c.blocks[p + 1] = PathsBlock /\ c.blocks[p + 2] = TreeBlock(p)
  <2>1. PICK X : b.blocks \in Seq(X)
    BY <1>1 DEF Whole, IsStore
  <2> DEFINE s == b.blocks
             s1 == Append(s, PathsBlock)
  <2> HIDE DEF p
  <2>2. s \in Seq(X) /\ Len(s) = p /\ p \in Nat
    BY <1>1, <2>1
  <2>3. s1 \in Seq(X \cup {PathsBlock}) /\ Len(s1) = p + 1 /\ s1[p + 1] = PathsBlock
    <3> HIDE DEF s
    <3> QED
      BY <2>2, LongerSequences
  <2>4. b1.blocks = s1 /\ c.blocks = Append(s1, TreeBlock(p))
    BY <1>2, <1>3, <1>4 DEF SameBlocks
  <2> HIDE DEF s, s1
  <2>5. Append(s1, TreeBlock(p))[p + 1] = PathsBlock /\ Append(s1, TreeBlock(p))[(p + 1) + 1] = TreeBlock(p)
    BY <2>2, <2>3, LongerSequences
  <2>6. (p + 1) + 1 = p + 2
    BY <2>2
  <2>7. QED
    BY <2>4, <2>5, <2>6
<1>10. LengthOf(c, p) = 12 /\ c.blockCount = p + 2
  BY <1>1, <1>3, <1>4 DEF SameBlocks, SameLengths
<1>11. HasTree(c, name, p, 0)
  <2>1. PathsBlock \in PathsType /\ Len(PathsBlock.paths) = 0 /\ TreeBlock(p) \in TreeType(p)
    BY NewPathsFit DEF PathsBlock, TreeBlock, TreeType
  <2>2. HasPaths(c, p, 0)
    BY <1>9, <1>10, <2>1 DEF HasPaths
  <2>3. p + 1 < c.blockCount
    BY <1>1, <1>10
  <2>4. QED
    BY <1>8, <1>9, <2>1, <2>2, <2>3 DEF HasTree
<1>12. QED
  BY <1>1, <1>4, <1>7, <1>11 DEF TreeAllocEmpty, b1, b2, c

LEMMA PathsOfTrees ==
  ASSUME NEW b, NEW name, NEW p \in Nat, NEW n \in Nat, HasTree(b, name, p, n)
  PROVE  PathsOf(b, name) = p /\ TreeOf(b, name) = p + 1
<1>1. VariableGet(b, name) = p + 1 /\ b.blocks[p + 2] \in TreeType(p)
  BY DEF HasTree
<1>2. b.blocks[p + 2].child = p
  BY <1>1 DEF TreeType
<1>3. (p + 1) + 1 = p + 2
  OBVIOUS
<1>4. QED
  BY <1>1, <1>2, <1>3 DEF PathsOf, TreeOf

LEMMA SameVariables ==
  ASSUME NEW b, NEW c, c.variables = b.variables, NEW name, NEW S
  PROVE  VariableGet(c, name) = VariableGet(b, name) /\ (NamesIn(b, S) => NamesIn(c, S))
  BY DEF VariableGet, NamesIn

LEMMA TreeIsReserved ==
  ASSUME NEW b, NEW room \in Nat, Ready(b, room), NEW name, NEW S, NamesIn(b, S),
         NEW p \in Nat, HasTree(b, name, p, 0), NEW n \in Nat
  PROVE  LET c == TreeReserve(b, name, n)
         IN  Ready(c, room) /\ NamesIn(c, S) /\ HasTree(c, name, p, n)
<1> DEFINE length == 8 * n
           c == IndexAppend(b, p, length)
<1>1. length \in Nat /\ TreeReserve(b, name, n) = c
  <2>1. PathsOf(b, name) = p
    BY PathsOfTrees
  <2>2. QED
    BY <2>1, TheSizes DEF TreeReserve, Sizes
<1>2. PICK k \in Nat : k = b.blockCount /\ p + 1 < k
  BY TheLayout DEF HasTree, Ready
<1>3. PICK old \in Nat, count \in Nat : old = LengthOf(b, p) /\ count = Len(b.blocks[p + 1].paths)
         /\ old = 12 + 8 * count
  <2>1. b.blocks[p + 1] \in PathsType /\ LengthOf(b, p) = 12 + 8 * (Len(b.blocks[p + 1].paths) + 0)
    BY DEF HasTree, HasPaths
  <2>2. b.blocks[p + 1].paths \in Seq(PathType)
    BY <2>1 DEF PathsType
  <2> DEFINE count == Len(b.blocks[p + 1].paths)
             old == LengthOf(b, p)
  <2>3. count \in Nat
    BY <2>2
  <2>4. old = 12 + 8 * (count + 0)
    BY <2>1
  <2> HIDE DEF count, old
  <2>5. old \in Nat /\ old = 12 + 8 * count
    BY <2>3, <2>4
  <2>6. QED
    BY <2>3, <2>5 DEF count, old
<1> HIDE DEF length
<1>4. /\ Ready(c, room) /\ c.blockCount = b.blockCount /\ c.blocks = b.blocks /\ c.variables = b.variables
      /\ LengthOf(c, p) = LengthOf(b, p) + length
  <2>1. p \in 0..(b.blockCount - 1) /\ LengthOf(b, p) # 0
    BY <1>2, <1>3
  <2>2. QED
    BY <1>1, <2>1, AppendingIsSafe
<1> HIDE DEF c
<1>5. HasPaths(c, p, n)
  <2>1. LengthOf(c, p) = 12 + 8 * (count + n)
    <3>1. LengthOf(c, p) = old + length
      BY <1>3, <1>4
    <3>2. (12 + 8 * count) + 8 * n = 12 + 8 * (count + n)
      OBVIOUS
    <3>3. LengthOf(c, p) = (12 + 8 * count) + 8 * n
      BY <1>3, <3>1 DEF length
    <3>4. QED
      BY <3>2, <3>3
  <2>2. QED
    BY <1>3, <1>4, <2>1 DEF HasTree, HasPaths
<1>6. HasTree(c, name, p, n) /\ NamesIn(c, S)
  BY <1>4, <1>5, SameVariables DEF HasTree
<1>7. QED
  BY <1>1, <1>4, <1>6

-----------------------------------------------------------------------------
(* The search for the place of a key.                                       *)

LEMMA LeastNatural ==
  ASSUME NEW T, T \subseteq Nat, T # {}
  PROVE  \E x \in T : \A y \in T : x <= y
<1>1. PICK x \in T : \A y \in T : ~(<<y, x>> \in OpToRel(<, Nat))
  BY NatLessThanWellFounded, WFMin
<1>2. \A y \in T : ~(y < x)
  BY <1>1 DEF OpToRel
<1>3. QED
  BY <1>2

Spans(n) == [lo : 0..n, hi : 0..n, at : 0..n]

Middle(s) == (s.hi - s.lo) \div 2 + s.lo

\* A step of the search from a span, when the places for the shorter ones are known.
Searched(b, paths, key, place, s) ==
  IF s.lo >= s.hi THEN s.at
  ELSE CASE Against(b, key, paths[Middle(s) + 1]) < 0 -> place[Span(s.lo, Middle(s), Middle(s))]
         [] Against(b, key, paths[Middle(s) + 1]) > 0 -> place[Span(Middle(s) + 1, s.hi, Middle(s))]
         [] OTHER -> Middle(s)

LEMMA MiddlesAreBetween ==
  ASSUME NEW n \in Nat, NEW s \in Spans(n), s.lo < s.hi
  PROVE  /\ Middle(s) \in 0..n
         /\ Span(s.lo, Middle(s), Middle(s)) \in Spans(n)
         /\ Span(s.lo, Middle(s), Middle(s)).hi - Span(s.lo, Middle(s), Middle(s)).lo < s.hi - s.lo
         /\ Span(Middle(s) + 1, s.hi, Middle(s)) \in Spans(n)
         /\ Span(Middle(s) + 1, s.hi, Middle(s)).hi - Span(Middle(s) + 1, s.hi, Middle(s)).lo < s.hi - s.lo
<1>1. PICK lo \in Nat, hi \in Nat : lo = s.lo /\ hi = s.hi /\ lo < hi /\ hi <= n
  BY DEF Spans
<1>2. PICK middle \in Nat : middle = Middle(s) /\ lo <= middle /\ middle < hi
  <2>1. PICK d \in Nat : d = hi - lo /\ 0 < d
    BY <1>1
  <2>2. d \div 2 \in Nat /\ d \div 2 < d
    BY <2>1
  <2>3. d \div 2 + lo \in Nat /\ lo <= d \div 2 + lo /\ d \div 2 + lo < hi
    BY <1>1, <2>1, <2>2
  <2>4. Middle(s) = d \div 2 + lo
    BY <1>1, <2>1 DEF Middle
  <2>5. QED
    BY <2>3, <2>4
<1>3. middle \in 0..n /\ lo \in 0..n /\ hi \in 0..n /\ middle + 1 \in 0..n
  BY <1>1, <1>2
<1>4. QED
  BY <1>1, <1>2, <1>3 DEF Span, Spans

\* The search ends, and it ends at one of the paths or behind them.
LEMMA SearchesExist ==
  ASSUME NEW b, NEW paths, NEW key, NEW n \in Nat
  PROVE  \E place : place = [s \in Spans(n) |-> Searched(b, paths, key, place, s)]
<1> DEFINE Upto(f, m) == \A s \in Spans(n) : s.hi - s.lo <= m => f[s] = Searched(b, paths, key, f, s)
           T == {m \in Nat : ~ \E f : Upto(f, m) /\ f = [s \in Spans(n) |-> f[s]]}
<1>1. ASSUME NEW m \in Nat, NEW f, NEW g, g = [s \in Spans(n) |-> Searched(b, paths, key, f, s)],
             \A s \in Spans(n) : s.hi - s.lo < m => f[s] = g[s]
      PROVE  Upto(g, m)
  <2>1. SUFFICES ASSUME NEW s \in Spans(n), s.hi - s.lo <= m
                 PROVE  g[s] = Searched(b, paths, key, g, s)
    OBVIOUS
  <2>2. g[s] = Searched(b, paths, key, f, s)
    BY <1>1
  <2>3. CASE s.lo >= s.hi
    BY <2>2, <2>3 DEF Searched
  <2>4. CASE s.lo < s.hi
    <3> DEFINE low == Span(s.lo, Middle(s), Middle(s))
               high == Span(Middle(s) + 1, s.hi, Middle(s))
    <3>1. low \in Spans(n) /\ high \in Spans(n) /\ low.hi - low.lo < s.hi - s.lo /\ high.hi - high.lo < s.hi - s.lo
      BY <2>4, MiddlesAreBetween
    <3>2. s.hi - s.lo \in Int /\ low.hi - low.lo \in Int /\ high.hi - high.lo \in Int
      BY <3>1 DEF Spans
    <3> HIDE DEF low, high
    <3>3. low.hi - low.lo < m /\ high.hi - high.lo < m
      BY <2>1, <3>1, <3>2
    <3>4. f[low] = g[low] /\ f[high] = g[high]
      BY <1>1, <3>1, <3>3
    <3>5. Searched(b, paths, key, f, s) = Searched(b, paths, key, g, s)
      BY <3>4 DEF Searched, low, high
    <3>6. QED
      BY <2>2, <3>5
  <2>5. s.lo \in Int /\ s.hi \in Int
    BY DEF Spans
  <2>6. QED
    BY <2>3, <2>4, <2>5
<1>2. T = {}
  <2>1. SUFFICES ASSUME T # {} PROVE FALSE
    OBVIOUS
  <2>2. PICK m \in T : \A l \in T : m <= l
    <3>1. T \subseteq Nat
      OBVIOUS
    <3> HIDE DEF T
    <3>2. QED
      BY <2>1, <3>1, LeastNatural
  <2>3. PICK f : \A s \in Spans(n) : s.hi - s.lo < m => f[s] = Searched(b, paths, key, f, s)
    <3>1. CASE m = 0
      <4> DEFINE f == [s \in Spans(n) |-> s.at]
      <4>1. ASSUME NEW s \in Spans(n), s.hi - s.lo < m PROVE f[s] = Searched(b, paths, key, f, s)
        <5>1. s.lo \in Int /\ s.hi \in Int
          BY DEF Spans
        <5>2. s.lo >= s.hi
          BY <3>1, <4>1, <5>1
        <5>3. QED
          BY <5>2 DEF Searched
      <4> HIDE DEF f
      <4>2. QED
        BY <4>1
    <3>2. CASE m # 0
      <4>1. m \in Nat /\ m - 1 \in Nat /\ ~(m <= m - 1)
        BY <3>2
      <4>2. PICK f : Upto(f, m - 1)
        BY <2>2, <4>1
      <4>3. \A s \in Spans(n) : s.hi - s.lo < m => s.hi - s.lo <= m - 1
        BY <4>1 DEF Spans
      <4>4. QED
        BY <4>2, <4>3
    <3>3. QED
      BY <3>1, <3>2
  <2> DEFINE g == [s \in Spans(n) |-> Searched(b, paths, key, f, s)]
  <2>4. Upto(g, m)
    <3>1. m \in Nat
      OBVIOUS
    <3>2. \A s \in Spans(n) : s.hi - s.lo < m => f[s] = g[s]
      BY <2>3
    <3>3. QED
      BY <1>1, <3>1, <3>2
  <2>5. g = [s \in Spans(n) |-> g[s]]
    OBVIOUS
  <2> HIDE DEF g, Upto
  <2>6. QED
    BY <2>2, <2>4, <2>5
<1>3. PICK f : Upto(f, n) /\ f = [s \in Spans(n) |-> f[s]]
  <2> HIDE DEF Upto
  <2> QED
    BY <1>2
<1>4. \A s \in Spans(n) : f[s] = Searched(b, paths, key, f, s)
  <2>1. \A s \in Spans(n) : s.hi - s.lo <= n
    BY DEF Spans
  <2>2. QED
    BY <1>3, <2>1
<1>5. f = [s \in Spans(n) |-> Searched(b, paths, key, f, s)]
  BY <1>3, <1>4
<1>6. QED
  BY <1>5

LEMMA SearchesEndAtPaths ==
  ASSUME NEW b, NEW paths, NEW key, NEW n \in Nat, NEW place,
         place = [s \in Spans(n) |-> Searched(b, paths, key, place, s)]
  PROVE  \A s \in Spans(n) : place[s] \in 0..n
<1> DEFINE T == {m \in Nat : \E s \in Spans(n) : s.hi - s.lo <= m /\ place[s] \notin 0..n}
<1>1. SUFFICES ASSUME T # {} PROVE FALSE
  <2>1. \A s \in Spans(n) : s.hi - s.lo <= n
    BY DEF Spans
  <2>2. T = {} => \A s \in Spans(n) : place[s] \in 0..n
    BY <2>1
  <2>3. QED
    BY <2>2
<1>2. PICK m \in T : \A l \in T : m <= l
  <2>1. T \subseteq Nat
    OBVIOUS
  <2> HIDE DEF T
  <2>2. QED
    BY <1>1, <2>1, LeastNatural
<1>3. PICK s \in Spans(n) : s.hi - s.lo <= m /\ place[s] \notin 0..n
  OBVIOUS
<1>4. place[s] = Searched(b, paths, key, place, s)
  OBVIOUS
<1>5. s.lo \in Int /\ s.hi \in Int /\ s.at \in 0..n
  BY DEF Spans
<1>6. s.lo < s.hi
  <2>1. ~(s.lo >= s.hi)
    BY <1>3, <1>4, <1>5 DEF Searched
  <2>2. QED
    BY <1>5, <2>1
<1> DEFINE low == Span(s.lo, Middle(s), Middle(s))
           high == Span(Middle(s) + 1, s.hi, Middle(s))
<1>7. /\ Middle(s) \in 0..n /\ low \in Spans(n) /\ high \in Spans(n)
      /\ low.hi - low.lo < s.hi - s.lo /\ high.hi - high.lo < s.hi - s.lo
  BY <1>6, MiddlesAreBetween
<1>8. low.hi - low.lo \in Int /\ high.hi - high.lo \in Int
  BY <1>7 DEF Spans
<1>9. place[s] \in {place[low], place[high], Middle(s)}
  <2>1. ~(s.lo >= s.hi)
    BY <1>5, <1>6
  <2>2. Searched(b, paths, key, place, s) \in {place[low], place[high], Middle(s)}
    BY <2>1 DEF Searched
  <2>3. QED
    BY <1>4, <2>2
<1> HIDE DEF low, high
<1>10. m \in Nat /\ 0 < m
  BY <1>3, <1>5, <1>6
<1>11. m - 1 \in Nat /\ m - 1 \notin T
  BY <1>2, <1>10
<1>12. low.hi - low.lo <= m - 1 /\ high.hi - high.lo <= m - 1
  BY <1>3, <1>5, <1>7, <1>8, <1>10
<1>13. place[low] \in 0..n /\ place[high] \in 0..n
  BY <1>7, <1>11, <1>12
<1>14. QED
  BY <1>3, <1>7, <1>9, <1>13

LEMMA SearchFindsPlaces ==
  ASSUME NEW b, NEW paths, Len(paths) \in Nat, NEW key
  PROVE  Search(b, paths, key) \in 0..Len(paths)
<1> DEFINE n == Len(paths)
           place == CHOOSE f : f = [s \in Spans(n) |-> Searched(b, paths, key, f, s)]
<1>1. place = [s \in Spans(n) |-> Searched(b, paths, key, place, s)]
  BY SearchesExist
<1>2. Search(b, paths, key) = place[Span(0, n, 0)]
  BY DEF Search, Spans, Searched, Middle
<1>3. Span(0, n, 0) \in Spans(n)
  BY DEF Span, Spans
<1>4. n \in Nat
  OBVIOUS
<1> HIDE DEF place, n
<1>5. place[Span(0, n, 0)] \in 0..n
  BY <1>1, <1>3, <1>4, SearchesEndAtPaths
<1>6. QED
  BY <1>2, <1>5 DEF n

LEMMA InsertedSequences ==
  ASSUME NEW S, NEW s \in Seq(S), NEW e \in S, NEW i \in 1..(Len(s) + 1)
  PROVE  InsertAt(s, i, e) \in Seq(S) /\ Len(InsertAt(s, i, e)) = Len(s) + 1
<1> DEFINE front == SubSeq(s, 1, i - 1)
           back  == SubSeq(s, i, Len(s))
<1>1. Len(s) \in Nat /\ i \in Nat /\ 1 <= i /\ i <= Len(s) + 1 /\ i - 1 \in Int /\ \A j \in 1..Len(s) : s[j] \in S
  OBVIOUS
<1>2. front \in Seq(S) /\ Len(front) = i - 1
  <2>1. \A j \in 1..(i - 1) : s[j] \in S
    BY <1>1
  <2>2. front \in Seq(S) /\ Len(front) = IF 1 <= i - 1 THEN (i - 1) - 1 + 1 ELSE 0
    BY <1>1, <2>1, SubSeqProperties
  <2>3. QED
    BY <1>1, <2>2
<1>3. back \in Seq(S) /\ Len(back) = Len(s) + 1 - i
  <2>1. \A j \in i..Len(s) : s[j] \in S
    BY <1>1
  <2>2. back \in Seq(S) /\ Len(back) = IF i <= Len(s) THEN Len(s) - i + 1 ELSE 0
    BY <1>1, <2>1, SubSeqProperties
  <2>3. QED
    BY <1>1, <2>2
<1> HIDE DEF front, back
<1>4. <<e>> \in Seq(S) /\ Len(<<e>>) = 1
  OBVIOUS
<1>5. front \o <<e>> \in Seq(S) /\ Len(front \o <<e>>) = i
  BY <1>1, <1>2, <1>4, ConcatProperties
<1>6. (front \o <<e>>) \o back \in Seq(S) /\ Len((front \o <<e>>) \o back) = Len(s) + 1
  BY <1>1, <1>3, <1>5, ConcatProperties
<1>7. InsertAt(s, i, e) = (front \o <<e>>) \o back
  BY DEF InsertAt, front, back
<1>8. QED
  BY <1>6, <1>7

\* A store whose blocks were written to, in places that they have.
Rewritten(b, c, memory, blocks) ==
  c = StoreOf(b.size, memory, b.tableOffset, b.tableLength, b.variablesOffset, b.trailer, b.blockCount,
              b.table, blocks, b.variables)

AsMany(b, blocks) == Len(blocks) = Len(b.blocks)

LEMMA RewrittenParts ==
  ASSUME NEW b, NEW c, NEW memory, NEW blocks, Rewritten(b, c, memory, blocks)
  PROVE  /\ c.size = b.size /\ c.memory = memory /\ c.tableOffset = b.tableOffset /\ c.tableLength = b.tableLength
         /\ c.variablesOffset = b.variablesOffset /\ c.trailer = b.trailer /\ c.blockCount = b.blockCount
         /\ c.table = b.table /\ c.blocks = blocks /\ c.variables = b.variables
  BY DEF Rewritten, StoreOf

LEMMA RewrittenStores ==
  ASSUME NEW b, Whole(b), NEW c, NEW memory, NEW X, NEW blocks \in Seq(X), Rewritten(b, c, memory, blocks),
         AsMany(b, blocks), NEW n \in 0..(b.blockCount - 1), NEW from \in Nat, NEW upto \in Nat,
         Begins(b, n) <= from, from <= upto, upto <= Ends(b, n), memory = Write(b.memory, from, upto, n),
         PathsFit(c)
  PROVE  Whole(c)
<1>1. /\ c.size = b.size /\ c.memory = memory /\ c.tableOffset = b.tableOffset /\ c.tableLength = b.tableLength
      /\ c.variablesOffset = b.variablesOffset /\ c.trailer = b.trailer /\ c.blockCount = b.blockCount
      /\ c.table = b.table /\ c.blocks = blocks /\ c.variables = b.variables
  BY RewrittenParts
<1>2. IsStore(b)
  BY DEF Whole
<1>3. IsStore(c)
  <2>1. c = StoreOf(c.size, c.memory, c.tableOffset, c.tableLength, c.variablesOffset, c.trailer, c.blockCount,
                    c.table, c.blocks, c.variables)
    BY <1>1 DEF Rewritten
  <2>2. /\ c.size \in Nat /\ c.tableOffset \in Nat /\ c.tableLength \in Nat
        /\ c.variablesOffset \in Nat /\ c.trailer \in Nat /\ c.blockCount \in Nat
        /\ c.table \in Seq(PlaceType) /\ c.variables \in Seq(NamedType)
    BY <1>1, <1>2 DEF IsStore
  <2>3. \E S : c.blocks \in Seq(S)
    BY <1>1
  <2>4. QED
    BY <2>1, <2>2, <2>3 DEF IsStore
<1>4. LaidOut(c)
  <2>1. VariablesEnd(c) = VariablesEnd(b) /\ Count(c) = Count(b) /\ Len(c.blocks) = Len(b.blocks)
    BY <1>1 DEF VariablesEnd, Count, AsMany
  <2>2. LaidOut(b)
    BY DEF Whole
  <2>3. QED
    BY <1>1, <2>1, <2>2 DEF LaidOut
<1>5. BlocksAreApart(c)
  BY <1>1 DEF Whole, BlocksAreApart
<1>6. Tiled(c.memory, c.size) /\ RunsLieInside(c)
  <2>1. \A x : Begins(c, x) = Begins(b, x) /\ Ends(c, x) = Ends(b, x)
    BY <1>1 DEF Begins, Ends
  <2>2. Owners(c) = Owners(b) /\ n \in Owners(b)
    BY <1>1 DEF Owners
  <2>3. SamePlaces(b, c)
    BY <2>1, <2>2, OwnersAreApart DEF SamePlaces
  <2>4. b.size \in Nat /\ upto <= b.size
    BY TheLayout, TheBlocks
  <2>5. Tiled(b.memory, b.size) /\ RunsLieInside(b)
    BY DEF Whole
  <2>6. n \in Int /\ c.memory = Write(b.memory, from, upto, n)
    BY <1>1
  <2>7. QED
    BY <1>1, <2>2, <2>3, <2>4, <2>5, <2>6, WrittenInside
<1>7. QED
  BY <1>3, <1>4, <1>5, <1>6 DEF Whole

WithBlocks(b, blocks) == [b EXCEPT !.blocks = blocks]

WithMemory(b, memory) == [b EXCEPT !.memory = memory]

LEMMA StoresWithOtherBlocks ==
  ASSUME NEW b, IsStore(b), NEW blocks, NEW memory, NEW last, NEW c,
         c = WithMemory(WithBlocks(b, blocks), memory)
  PROVE  Rewritten(b, WithBlocks(c, last), memory, last) /\ c.blocks = blocks
<1>1. PICK size, old, H, T, offset, V, k, places, rest, variables :
        /\ b = StoreOf(size, old, H, T, offset, V, k, places, rest, variables)
        /\ size = b.size /\ H = b.tableOffset /\ T = b.tableLength /\ offset = b.variablesOffset /\ V = b.trailer
        /\ k = b.blockCount /\ places = b.table /\ variables = b.variables
  BY DEF IsStore
<1> DEFINE q == StoreOf(size, old, H, T, offset, V, k, places, blocks, variables)
           r == StoreOf(size, memory, H, T, offset, V, k, places, blocks, variables)
<1>2. [b EXCEPT !.blocks = blocks] = q
  BY <1>1 DEF StoreOf
<1>3. [q EXCEPT !.memory = memory] = r /\ r.blocks = blocks
  BY DEF StoreOf
<1>4. [r EXCEPT !.blocks = last] = StoreOf(size, memory, H, T, offset, V, k, places, last, variables)
  BY DEF StoreOf
<1> HIDE DEF q, r
<1>5. c = r
  BY <1>2, <1>3 DEF WithBlocks, WithMemory
<1>6. QED
  BY <1>1, <1>3, <1>4, <1>5 DEF Rewritten, WithBlocks

LEMMA SequencesWithOthers ==
  ASSUME NEW X, NEW s \in Seq(X), NEW i \in 1..Len(s), NEW e
  PROVE  /\ [s EXCEPT ![i] = e] \in Seq(X \cup {e}) /\ Len([s EXCEPT ![i] = e]) = Len(s)
         /\ [s EXCEPT ![i] = e][i] = e /\ \A j \in 1..Len(s) : j # i => [s EXCEPT ![i] = e][j] = s[j]
<1> DEFINE t == [s EXCEPT ![i] = e]
<1>1. s \in [1..Len(s) -> X] /\ Len(s) \in Nat
  OBVIOUS
<1>2. t \in [1..Len(s) -> X \cup {e}] /\ t[i] = e /\ \A j \in 1..Len(s) : j # i => t[j] = s[j]
  BY <1>1
<1> HIDE DEF t
<1>3. t \in Seq(X \cup {e}) /\ Len(t) = Len(s)
  BY <1>1, <1>2
<1>4. QED
  BY <1>2, <1>3 DEF t

\* The blocks of a tree after a path was inserted.
PathInserted(s, p, paths) == [s EXCEPT ![p + 1] = [s[p + 1] EXCEPT !.paths = paths]]
TreeCounted(s, p) == [s EXCEPT ![p + 2] = [s[p + 2] EXCEPT !.pathCount = s[p + 2].pathCount + 1]]

LEMMA InsertingRewrites ==
  ASSUME NEW b, IsStore(b), NEW p \in Nat, NEW key, NEW value, NEW X, b.blocks \in Seq(X), p + 2 \in 1..Len(b.blocks)
  PROVE  LET paths  == b.blocks[p + 1].paths
             at     == b.table[p + 1].address
             new    == InsertAt(paths, Search(b, paths, key.bytes) + 1, [key |-> key.index, value |-> value])
         IN  Rewritten(b, InsertPath(b, p, p + 1, key, value),
                       Write(b.memory, at, at + PathsSize + PathSize * (Len(paths) + 1), p),
                       TreeCounted(PathInserted(b.blocks, p, new), p))
<1> DEFINE paths  == b.blocks[p + 1].paths
           at     == b.table[p + 1].address
           place  == Search(b, paths, key.bytes)
           pair   == [key |-> key.index, value |-> value]
           new    == InsertAt(paths, place + 1, pair)
           c      == InsertPath(b, p, p + 1, key, value)
           s1     == PathInserted(b.blocks, p, new)
           s2     == TreeCounted(s1, p)
           memory == Write(b.memory, at, at + PathsSize + PathSize * (Len(paths) + 1), p)
<1> DEFINE b1 == [b EXCEPT !.blocks[p + 1].paths = InsertAt(@, place + 1, pair),
                           !.memory = Write(@, at, at + PathsSize + PathSize * (Len(paths) + 1), p)]
<1>1. c = [b1 EXCEPT !.blocks[(p + 1) + 1].pathCount = @ + 1]
  BY DEF InsertPath, Entry
<1>2. (p + 1) + 1 = p + 2
  OBVIOUS
<1> HIDE DEF place, pair, at, c
<1>3. b1 = [[b EXCEPT !.blocks = s1] EXCEPT !.memory = memory]
  BY DEF PathInserted
<1> HIDE DEF b1, s1, memory
<1>4. Rewritten(b, [b1 EXCEPT !.blocks = s2], memory, s2) /\ b1.blocks = s1
  <2> HIDE DEF s2
  <2>3. b1 = WithMemory(WithBlocks(b, s1), memory)
    BY <1>3 DEF WithBlocks, WithMemory
  <2>1. Rewritten(b, WithBlocks(b1, s2), memory, s2) /\ b1.blocks = s1
    BY <2>3, StoresWithOtherBlocks
  <2>2. QED
    BY <2>1 DEF WithBlocks
<1>5. c = [b1 EXCEPT !.blocks = s2]
  BY <1>1, <1>2, <1>4 DEF TreeCounted
<1>6. QED
  BY <1>4, <1>5 DEF c, place, pair, at, s1, memory

LEMMA InsertedBlocks ==
  ASSUME NEW X, NEW s \in Seq(X), NEW p \in Nat, p + 1 \in 1..Len(s), p + 2 \in 1..Len(s),
         NEW new \in Seq(PathType), s[p + 1] \in PathsType, s[p + 2] \in TreeType(p)
  PROVE  LET t == TreeCounted(PathInserted(s, p, new), p)
         IN  /\ \E Y : t \in Seq(Y)
             /\ Len(t) = Len(s) /\ t[p + 1] \in PathsType /\ t[p + 1].paths = new /\ t[p + 2] \in TreeType(p)
             /\ \A j \in 1..Len(s) : j \notin {p + 1, p + 2} => t[j] = s[j]
<1> DEFINE block == [s[p + 1] EXCEPT !.paths = new]
           t1 == [s EXCEPT ![p + 1] = block]
           tree == [t1[p + 2] EXCEPT !.pathCount = t1[p + 2].pathCount + 1]
           t == [t1 EXCEPT ![p + 2] = tree]
<1>1. block \in PathsType /\ block.paths = new
  BY DEF PathsType
<1>2. p + 1 # p + 2
  OBVIOUS
<1> HIDE DEF block
<1>3. /\ t1 \in Seq(X \cup {block}) /\ Len(t1) = Len(s) /\ t1[p + 1] = block
      /\ \A j \in 1..Len(s) : j # p + 1 => t1[j] = s[j]
  BY SequencesWithOthers
<1> HIDE DEF t1
<1>4. tree \in TreeType(p)
  <2>1. t1[p + 2] \in TreeType(p)
    BY <1>2, <1>3
  <2>2. QED
    BY <2>1 DEF TreeType
<1> HIDE DEF tree
<1>5. p + 2 \in 1..Len(t1)
  BY <1>3
<1>6. /\ t \in Seq((X \cup {block}) \cup {tree}) /\ Len(t) = Len(t1) /\ t[p + 2] = tree
      /\ \A j \in 1..Len(t1) : j # p + 2 => t[j] = t1[j]
  BY <1>3, <1>5, SequencesWithOthers
<1> HIDE DEF t
<1>7. TreeCounted(PathInserted(s, p, new), p) = t
  BY DEF TreeCounted, PathInserted, t, tree, t1, block
<1>8. QED
  BY <1>1, <1>2, <1>3, <1>4, <1>6, <1>7

LEMMA PathIsInserted ==
  ASSUME NEW b, NEW room \in Nat, Ready(b, room), NEW name, NEW S, NamesIn(b, S), NEW p \in Nat, NEW n \in Nat,
         NEW more \in Nat, more = n + 1, HasTree(b, name, p, more), NEW key, key.index \in Nat, NEW value \in Nat
  PROVE  LET c == InsertPath(b, p, p + 1, key, value)
         IN  Ready(c, room) /\ NamesIn(c, S) /\ HasTree(c, name, p, n)
<1> DEFINE s     == b.blocks
           paths == s[p + 1].paths
           at    == b.table[p + 1].address
           new   == InsertAt(paths, Search(b, paths, key.bytes) + 1, [key |-> key.index, value |-> value])
           c     == InsertPath(b, p, p + 1, key, value)
           t     == TreeCounted(PathInserted(s, p, new), p)
           memory == Write(b.memory, at, at + PathsSize + PathSize * (Len(paths) + 1), p)
<1>1. Whole(b) /\ IsStore(b) /\ Len(s) = b.blockCount /\ b.blockCount \in Nat
  BY TheLayout DEF Ready
<1>2. PICK k \in Nat : k = b.blockCount /\ k = Len(s) /\ p + 1 < k
  BY <1>1 DEF HasTree
<1>3. p \in 0..(b.blockCount - 1) /\ p + 1 \in 1..Len(s) /\ p + 2 \in 1..Len(s)
  BY <1>2
<1>4. s[p + 1] \in PathsType /\ s[p + 2] \in TreeType(p)
  BY DEF HasTree, HasPaths
<1>5. PICK count \in Nat : count = Len(paths) /\ LengthOf(b, p) = 12 + 8 * (count + more)
  <2>1. paths \in Seq(PathType)
    BY <1>4 DEF PathsType
  <2> DEFINE count == Len(paths)
  <2>2. count \in Nat
    BY <2>1
  <2>3. LengthOf(b, p) = 12 + 8 * (count + more)
    BY DEF HasTree, HasPaths
  <2>4. QED
    BY <2>2, <2>3
<1>6. new \in Seq(PathType) /\ Len(new) = count + 1
  <2> DEFINE place == Search(b, paths, key.bytes) + 1
             pair  == [key |-> key.index, value |-> value]
  <2>1. pair \in PathType
    BY DEF PathType
  <2>2. paths \in Seq(PathType)
    BY <1>4 DEF PathsType
  <2> HIDE DEF paths
  <2>3. place \in 1..(Len(paths) + 1)
    <3>1. Search(b, paths, key.bytes) \in 0..Len(paths)
      BY <1>5, SearchFindsPlaces
    <3>2. QED
      BY <1>5, <3>1
  <2> HIDE DEF place, pair
  <2>4. InsertAt(paths, place, pair) \in Seq(PathType) /\ Len(InsertAt(paths, place, pair)) = Len(paths) + 1
    BY <2>1, <2>2, <2>3, InsertedSequences
  <2>5. QED
    BY <1>5, <2>4 DEF place, pair
<1>7. PICK X : s \in Seq(X)
  BY <1>1 DEF IsStore
<1>8. Rewritten(b, c, memory, t)
  BY <1>1, <1>3, <1>7, InsertingRewrites
<1> HIDE DEF new
<1>9. /\ \E Y : t \in Seq(Y)
      /\ Len(t) = Len(s) /\ t[p + 1] \in PathsType /\ t[p + 1].paths = new /\ t[p + 2] \in TreeType(p)
      /\ \A j \in 1..Len(s) : j \notin {p + 1, p + 2} => t[j] = s[j]
  <2> HIDE DEF s
  <2> QED
    BY <1>3, <1>4, <1>6, <1>7, InsertedBlocks
<1> HIDE DEF c, t
<1>10. /\ c.blocks = t /\ c.variables = b.variables /\ c.blockCount = b.blockCount /\ c.table = b.table
       /\ c.tableLength = b.tableLength
  BY <1>8, RewrittenParts
<1>11. PathsFit(c)
  <2>1. SUFFICES ASSUME NEW i \in 1..k, t[i].kind = "paths"
                 PROVE  t[i] \in PathsType /\ PathsSize + PathSize * Len(t[i].paths) <= b.table[i].length
    BY <1>2, <1>10 DEF PathsFit
  <2>2. CASE i = p + 1
    <3>1. LengthOf(b, p) = b.table[i].length
      BY <2>2 DEF LengthOf
    <3>2. 12 + 8 * (count + 1) <= 12 + 8 * (count + more)
      OBVIOUS
    <3>3. PathsSize + PathSize * Len(t[i].paths) = 12 + 8 * (count + 1)
      BY <1>6, <1>9, <2>2, TheSizes DEF Sizes
    <3>4. QED
      BY <1>5, <1>9, <2>2, <3>1, <3>2, <3>3
  <2>3. CASE i = p + 2
    BY <1>9, <2>1, <2>3 DEF TreeType
  <2>4. CASE i \notin {p + 1, p + 2}
    BY <1>1, <1>2, <1>9, <2>1, <2>4 DEF Whole, PathsFit
  <2>5. QED
    BY <2>2, <2>3, <2>4
<1>12. Whole(c)
  <2>1. PICK from \in Nat, last \in Nat, upto \in Nat :
          /\ from = Begins(b, p) /\ last = Ends(b, p) /\ from = at /\ last = from + (12 + 8 * (count + more))
          /\ upto = from + 12 + 8 * (count + 1)
    <3>1. Begins(b, p) \in Nat /\ Ends(b, p) \in Nat /\ Begins(b, p) = at /\ Ends(b, p) = Begins(b, p) + LengthOf(b, p)
      BY <1>1, <1>3, TheBlocks DEF LengthOf
    <3> HIDE DEF at, paths, s
    <3>2. PICK length \in Nat : length = LengthOf(b, p) /\ length = 12 + 8 * (count + more)
      <4>1. count \in Nat /\ LengthOf(b, p) = 12 + 8 * (count + more)
        BY <1>5
      <4>2. 12 + 8 * (count + more) \in Nat
        BY <4>1
      <4>3. QED
        BY <4>1, <4>2
    <3>3. PICK from \in Nat, last \in Nat : from = Begins(b, p) /\ last = Ends(b, p) /\ from = at
             /\ last = from + length
      BY <3>1, <3>2
    <3>4. from + 12 + 8 * (count + 1) \in Nat
      OBVIOUS
    <3>5. QED
      BY <3>2, <3>3, <3>4
  <2>2. from <= upto /\ upto <= last
    BY <2>1
  <2>3. memory = Write(b.memory, from, upto, p)
    BY <1>5, <2>1, TheSizes DEF Sizes
  <2>4. PICK Y : t \in Seq(Y)
    BY <1>9
  <2>6. AsMany(b, t)
    BY <1>9 DEF AsMany
  <2> HIDE DEF memory, at, s, paths
  <2>7. Begins(b, p) <= from /\ from <= upto /\ upto <= Ends(b, p)
    BY <2>1, <2>2
  <2>8. from \in Nat /\ upto \in Nat
    OBVIOUS
  <2>5. QED
    BY <1>1, <1>3, <1>8, <1>11, <2>3, <2>4, <2>6, <2>7, <2>8, RewrittenStores
<1>13. Ready(c, room)
  BY <1>1, <1>9, <1>10, <1>12 DEF Ready
<1>14. NamesIn(c, S) /\ VariableGet(c, name) = VariableGet(b, name)
  BY <1>10, SameVariables
<1>15. HasPaths(c, p, n)
  <2>1. LengthOf(c, p) = LengthOf(b, p)
    BY <1>10 DEF LengthOf
  <2>2. count + more = (count + 1) + n
    OBVIOUS
  <2>3. Len(c.blocks[p + 1].paths) = count + 1 /\ c.blocks[p + 1] \in PathsType
    BY <1>6, <1>9, <1>10
  <2>4. QED
    BY <1>5, <2>1, <2>2, <2>3 DEF HasPaths
<1>16. HasTree(c, name, p, n)
  BY <1>9, <1>10, <1>14, <1>15 DEF HasTree
<1>17. QED
  BY <1>13, <1>14, <1>16 DEF c

\* A tree stays as it is when a block is added.
LEMMA TreesStay ==
  ASSUME NEW b, NEW more \in Nat, Ready(b, more), NEW c, NEW room, NEW content, NEW length,
         IsAdded(b, c, room, content, length), NEW name, NEW S, NamesIn(b, S), NEW p \in Nat, NEW n \in Nat,
         HasTree(b, name, p, n)
  PROVE  NamesIn(c, S) /\ HasTree(c, name, p, n)
<1>1. Whole(b) /\ IsStore(b)
  BY TheLayout DEF Ready
<1>2. PICK k \in Nat : k = b.blockCount /\ k = Len(b.blocks) /\ p + 1 < k
  BY <1>1, TheLayout DEF HasTree, Ready
<1>3. c.blocks = Append(b.blocks, content) /\ c.variables = b.variables /\ SameLengths(b, c) /\ c.blockCount = k + 1
  BY <1>2 DEF IsAdded
<1>4. PICK X : b.blocks \in Seq(X)
  BY <1>1 DEF IsStore
<1>5. c.blocks[p + 1] = b.blocks[p + 1] /\ c.blocks[p + 2] = b.blocks[p + 2]
  <2>1. p + 1 \in 1..k /\ p + 2 \in 1..k
    BY <1>2
  <2> DEFINE s == b.blocks
  <2>2. s \in Seq(X) /\ Len(s) = k /\ c.blocks = Append(s, content)
    BY <1>2, <1>3, <1>4
  <2> HIDE DEF s
  <2>3. Append(s, content)[p + 1] = s[p + 1] /\ Append(s, content)[p + 2] = s[p + 2]
    BY <2>1, <2>2, LongerSequences
  <2>4. QED
    BY <2>2, <2>3 DEF s
<1>6. LengthOf(c, p) = LengthOf(b, p)
  BY <1>2, <1>3 DEF SameLengths
<1>7. p + 1 < c.blockCount
  BY <1>2, <1>3
<1>8. HasPaths(c, p, n)
  BY <1>5, <1>6 DEF HasPaths, HasTree
<1>9. NamesIn(c, S) /\ VariableGet(c, name) = VariableGet(b, name)
  BY <1>3, SameVariables
<1>10. QED
  BY <1>5, <1>7, <1>8, <1>9 DEF HasTree

\* The room that was reserved for the paths is enough.
LEMMA PathsHaveRoom ==
  ASSUME NEW b, NEW name, NEW p \in Nat, NEW n \in Nat, NEW more \in Nat, more = n + 1, HasTree(b, name, p, more)
  PROVE  RoomForPath(b, p) = b
<1> DEFINE paths == b.blocks[p + 1].paths
<1>1. b.blocks[p + 1] \in PathsType /\ LengthOf(b, p) = 12 + 8 * (Len(paths) + more)
  BY DEF HasTree, HasPaths
<1>2. Len(paths) \in Nat
  <2>1. paths \in Seq(PathType)
    BY <1>1 DEF PathsType
  <2>2. QED
    BY <2>1
<1>3. Entry(b, p).length = LengthOf(b, p)
  BY DEF Entry, LengthOf
<1> HIDE DEF paths
<1>4. PICK count \in Nat, length \in Nat : count = Len(paths) /\ length = LengthOf(b, p)
         /\ length = 12 + 8 * (count + more)
  <2> DEFINE count == Len(paths)
             length == 12 + 8 * (count + more)
  <2>1. count \in Nat /\ length \in Nat
    BY <1>2
  <2>2. QED
    BY <1>1, <2>1
<1>5. ~((count + 1) * 8 > length)
  BY <1>4
<1>6. ~((Len(paths) + 1) * PathSize > Entry(b, p).length)
  BY <1>3, <1>4, <1>5, TheSizes DEF Sizes
<1>7. QED
  BY <1>6 DEF RoomForPath, paths

LEMMA TreeIsAddedTo ==
  ASSUME NEW b, NEW room \in Nat, NEW ready \in Nat, ready = room + 2, Ready(b, ready),
         NEW name, NEW S, NamesIn(b, S), NEW p \in Nat, NEW n \in Nat, NEW more \in Nat, more = n + 1,
         HasTree(b, name, p, more), NEW key, Len(key) \in Nat, NEW value, NEW length \in Nat
  PROVE  LET c == TreeAdd(b, name, key, value, length)
         IN  Ready(c, room) /\ NamesIn(c, S) /\ HasTree(c, name, p, n)
<1> DEFINE k == Count(b)
           size == Len(key)
           b1 == IndexAdd(b, Bytes(key), size)
           b2 == IndexAdd(b1, Bytes(value), length)
           pair == [index |-> k, bytes |-> key]
           c == InsertPath(b2, p, p + 1, pair, k + 1)
<1>1. k \in Nat
  BY TheLayout DEF Ready
<1>2. PICK less \in Nat : less = room + 1 /\ ready = less + 1
  OBVIOUS
<1>3. ContentFits(Bytes(key), size) /\ ContentFits(Bytes(value), length) /\ size \in Nat
  BY DEF ContentFits, Bytes
<1> HIDE DEF size
<1>4. IsAdded(b, b1, less, Bytes(key), size)
  BY <1>2, <1>3, AddedBlocks
<1> HIDE DEF b1
<1>5. Ready(b1, less)
  BY <1>4 DEF IsAdded
<1>6. IsAdded(b1, b2, room, Bytes(value), length)
  BY <1>2, <1>3, <1>5, AddedBlocks
<1> HIDE DEF b2
<1>7. Ready(b2, room)
  BY <1>6 DEF IsAdded
<1>8. NamesIn(b1, S) /\ HasTree(b1, name, p, more)
  BY <1>4, TreesStay
<1>9. NamesIn(b2, S) /\ HasTree(b2, name, p, more)
  BY <1>5, <1>6, <1>8, TreesStay
<1>10. RoomForPath(b2, p) = b2
  BY <1>9, PathsHaveRoom
<1>11. PathsOf(b, name) = p /\ TreeOf(b, name) = p + 1
  BY PathsOfTrees
<1>12. TreeAdd(b, name, key, value, length) = c
  BY <1>10, <1>11 DEF TreeAdd, b1, b2, size
<1>13. Ready(c, room) /\ NamesIn(c, S) /\ HasTree(c, name, p, n)
  <2> DEFINE next == k + 1
  <2>1. pair.index \in Nat /\ next \in Nat
    BY <1>1
  <2> HIDE DEF pair, k, next
  <2>2. QED
    BY <1>7, <1>9, <2>1, PathIsInserted DEF next
<1>14. QED
  BY <1>12, <1>13

-----------------------------------------------------------------------------
(* The last entries, of blocks that are free.                               *)

WithTable(b, table) == [b EXCEPT !.table = table]

FreePlaces(n) == [i \in 1..n |-> [address |-> 0, length |-> 0]]
FreeBlocks(n) == [i \in 1..n |-> [kind |-> "free"]]

LEMMA StoresWithFreeBlocks ==
  ASSUME NEW b, IsStore(b), NEW table, NEW blocks, NEW memory
  PROVE  WithMemory(WithBlocks(WithTable(b, table), blocks), memory)
           = StoreOf(b.size, memory, b.tableOffset, b.tableLength, b.variablesOffset, b.trailer, b.blockCount,
                     table, blocks, b.variables)
<1>1. PICK size, old, H, T, offset, V, k, places, contents, variables :
        /\ b = StoreOf(size, old, H, T, offset, V, k, places, contents, variables)
        /\ size = b.size /\ H = b.tableOffset /\ T = b.tableLength /\ offset = b.variablesOffset /\ V = b.trailer
        /\ k = b.blockCount /\ variables = b.variables
  BY DEF IsStore
<1> DEFINE p == StoreOf(size, old, H, T, offset, V, k, table, contents, variables)
           q == StoreOf(size, old, H, T, offset, V, k, table, blocks, variables)
           r == StoreOf(size, memory, H, T, offset, V, k, table, blocks, variables)
<1>2. [b EXCEPT !.table = table] = p
  BY <1>1 DEF StoreOf
<1>3. [p EXCEPT !.blocks = blocks] = q
  BY DEF StoreOf
<1>4. [q EXCEPT !.memory = memory] = r
  BY DEF StoreOf
<1> HIDE DEF p, q, r
<1>5. WithMemory(WithBlocks(WithTable(b, table), blocks), memory) = r
  BY <1>2, <1>3, <1>4 DEF WithTable, WithBlocks, WithMemory
<1>6. QED
  BY <1>1, <1>5 DEF r

LEMMA FreeEntries ==
  ASSUME NEW n \in Nat
  PROVE  /\ FreePlaces(n) \in Seq(PlaceType) /\ Len(FreePlaces(n)) = n
         /\ FreeBlocks(n) \in Seq({[kind |-> "free"]}) /\ Len(FreeBlocks(n)) = n
<1>1. FreePlaces(n) \in [1..n -> PlaceType]
  BY DEF FreePlaces, PlaceType
<1>2. FreeBlocks(n) \in [1..n -> {[kind |-> "free"]}]
  BY DEF FreeBlocks
<1>3. QED
  BY <1>1, <1>2

LEMMA SequencesBefore ==
  ASSUME NEW X, NEW s \in Seq(X), NEW t \in Seq(X)
  PROVE  s \o t \in Seq(X) /\ Len(s \o t) = Len(s) + Len(t) /\ \A i \in 1..Len(s) : (s \o t)[i] = s[i]
<1>1. Len(s) \in Nat /\ Len(t) \in Nat
  OBVIOUS
<1>2. /\ s \o t \in Seq(X) /\ Len(s \o t) = Len(s) + Len(t)
      /\ \A i \in 1..(Len(s) + Len(t)) : (s \o t)[i] = IF i <= Len(s) THEN s[i] ELSE t[i - Len(s)]
  BY ConcatProperties
<1>3. ASSUME NEW i \in 1..Len(s) PROVE i \in 1..(Len(s) + Len(t)) /\ i <= Len(s)
  BY <1>1
<1>4. QED
  BY <1>2, <1>3

\* A store with more entries and the same blocks.
IsFreed(b, c, S, T, V, k, n, table, blocks) ==
  c = StoreOf(S, Write(b.memory, 36 + 8 * k, 36 + 8 * (k + n), Table), 32, T, 32 + T, V, k, table, blocks, b.variables)

BeginsAlike(b, k, table, blocks) == \A i \in 1..k : table[i] = b.table[i] /\ blocks[i] = b.blocks[i]

LEMMA PartsOfFreedStores ==
  ASSUME NEW b, NEW S \in Nat, NEW T \in Nat, NEW V \in Nat, NEW k \in Nat, Whole(b), Numbers(b, S, T, V, k, k),
         NEW n \in Nat, NEW c, NEW table \in Seq(PlaceType), NEW X, NEW blocks \in Seq(X),
         IsFreed(b, c, S, T, V, k, n, table, blocks), k <= Len(blocks), k <= Len(table), 4 + 8 * Len(table) <= T
  PROVE  /\ HasParts(c, S, Write(b.memory, 36 + 8 * k, 36 + 8 * (k + n), Table), T, V, k, table, blocks, b.variables)
         /\ IsStore(c) /\ LaidOut(c)
<1>1. PICK memory, H, offset, variables :
        /\ memory = Write(b.memory, 36 + 8 * k, 36 + 8 * (k + n), Table) /\ H = 32 /\ offset = 32 + T
        /\ variables = b.variables
  OBVIOUS
<1>2. b.variables \in Seq(NamedType)
  BY DEF Whole, IsStore
<1>3. VariablesEnd(b) \in Nat /\ 4 + VariablesEnd(b) <= V /\ 32 + T + V <= S
  BY TheLayout DEF Numbers
<1>4. c = StoreOf(S, memory, H, T, offset, V, k, table, blocks, variables)
  BY <1>1 DEF IsFreed
<1>5. VariablesEnd(c) = VariablesEnd(b)
  <2>1. c.variables = b.variables
    BY <1>1, <1>4 DEF StoreOf
  <2>2. QED
    BY <2>1 DEF VariablesEnd
<1>6. VariablesEnd(c) \in Nat /\ 4 + VariablesEnd(c) <= V /\ H \in Nat /\ offset \in Nat /\ variables \in Seq(NamedType)
  BY <1>1, <1>2, <1>3, <1>5
<1>7. H = 32 /\ offset = 32 + T
  BY <1>1
<1>8. HasParts(c, S, memory, T, V, k, table, blocks, variables) /\ IsStore(c) /\ LaidOut(c)
  BY <1>3, <1>4, <1>6, <1>7, PartsOfStores
<1>9. QED
  BY <1>1, <1>8

LEMMA PlacesOfFreedStores ==
  ASSUME NEW b, NEW S, NEW T, NEW V, NEW k \in Nat, Whole(b), Numbers(b, S, T, V, k, k),
         NEW c, NEW memory, NEW table, NEW blocks,
         HasParts(c, S, memory, T, V, k, table, blocks, b.variables), BeginsAlike(b, k, table, blocks)
  PROVE  BlocksAreApart(c) /\ PathsFit(c) /\ SamePlaces(b, c)
<1>1. b.blockCount = k /\ b.size = S /\ b.tableLength = T /\ b.trailer = V /\ b.variablesOffset = 32 + T
  BY TheLayout DEF Numbers
<1>2. /\ c.size = S /\ c.variablesOffset = b.variablesOffset /\ c.trailer = b.trailer /\ c.blockCount = b.blockCount
      /\ \A i \in 1..b.blockCount : c.table[i] = b.table[i] /\ c.blocks[i] = b.blocks[i]
  BY <1>1 DEF HasParts, BeginsAlike
<1>3. BlocksAreApart(c)
  BY <1>1, <1>2 DEF Whole, BlocksAreApart
<1>4. PathsFit(c)
  BY <1>2 DEF Whole, PathsFit
<1>5. SamePlaces(b, c)
  <2>1. ASSUME NEW x \in Owners(b)
        PROVE  x \in Owners(c) /\ Begins(c, x) = Begins(b, x) /\ Ends(c, x) = Ends(b, x)
    <3>1. x \in Owners(c)
      BY <1>2 DEF Owners
    <3>2. CASE x \in {Header, Table, Variables}
      <4>1. /\ Begins(c, Header) = Begins(b, Header) /\ Ends(c, Header) = Ends(b, Header)
            /\ Begins(c, Table) = Begins(b, Table) /\ Ends(c, Table) = Ends(b, Table)
            /\ Begins(c, Variables) = Begins(b, Variables) /\ Ends(c, Variables) = Ends(b, Variables)
        BY <1>1, TheOwners DEF HasParts
      <4>2. QED
        BY <3>1, <3>2, <4>1
    <3>3. CASE x \in 0..(k - 1)
      <4>1. x + 1 \in 1..b.blockCount /\ x # Header /\ x # Table /\ x # Variables
        BY <1>1, <3>3, TheSizes DEF Sizes
      <4>2. c.table[x + 1] = b.table[x + 1]
        BY <1>2, <4>1
      <4>3. QED
        BY <3>1, <4>1, <4>2 DEF Begins, Ends
    <3>4. QED
      BY <1>1, <3>2, <3>3 DEF Owners
  <2>2. \A x \in Owners(b) : Begins(b, x) \in Nat /\ Ends(b, x) \in Nat
    BY OwnersAreApart
  <2>3. QED
    BY <2>1, <2>2 DEF SamePlaces
<1>6. QED
  BY <1>3, <1>4, <1>5

LEMMA RunsOfFreedStores ==
  ASSUME NEW b, NEW S \in Nat, NEW T \in Nat, NEW V \in Nat, NEW k \in Nat, Whole(b), Numbers(b, S, T, V, k, k),
         NEW n \in Nat, 4 + 8 * (k + n) <= T, NEW c, SamePlaces(b, c),
         c.memory = Write(b.memory, 36 + 8 * k, 36 + 8 * (k + n), Table)
  PROVE  Tiled(c.memory, S) /\ RunsLieInside(c)
<1>1. 32 + T + V <= S
  BY TheLayout DEF Numbers
<1>2. PICK from \in Nat, upto \in Nat :
        /\ from = 36 + 8 * k /\ upto = 36 + 8 * (k + n) /\ from <= upto /\ upto <= S /\ 32 <= from /\ upto <= 32 + T
  <2>1. /\ 36 + 8 * k \in Nat /\ 36 + 8 * (k + n) \in Nat /\ 36 + 8 * k <= 36 + 8 * (k + n)
        /\ 36 + 8 * (k + n) <= S /\ 32 <= 36 + 8 * k /\ 36 + 8 * (k + n) <= 32 + T
    BY <1>1
  <2>2. QED
    BY <2>1
<1>3. Table \in Owners(b) /\ Table \in Int
  BY TheSizes DEF Owners, Sizes
<1>4. Begins(b, Table) <= from /\ upto <= Ends(b, Table)
  BY <1>2, TheOwners DEF Numbers
<1>5. Tiled(b.memory, S) /\ RunsLieInside(b)
  BY DEF Whole, Numbers
<1>6. c.memory = Write(b.memory, from, upto, Table)
  BY <1>2
<1>7. QED
  BY <1>2, <1>3, <1>4, <1>5, <1>6, WrittenInside

LEMMA FreeingIsSafe ==
  ASSUME NEW b, NEW n \in Nat, Ready(b, n)
  PROVE  Whole(FreeIndicesAdd(b, n))
<1> DEFINE c == FreeIndicesAdd(b, n)
           table == b.table \o FreePlaces(n)
           blocks == b.blocks \o FreeBlocks(n)
<1>1. Whole(b)
  BY DEF Ready
<1>2. PICK S \in Nat, T \in Nat, V \in Nat, k \in Nat, L \in Nat :
        Numbers(b, S, T, V, k, L) /\ AreBounds(S, T, V, k, L)
  BY <1>1, TheNumbers DEF AreBounds
<1>3. L = k /\ Len(b.blocks) = k /\ Len(b.table) = k /\ 20 + 8 * (k + n) <= T
  BY <1>2 DEF Ready, Numbers
<1>4. GrowTable(b, n) = b
  <2>1. n <= n
    OBVIOUS
  <2>2. QED
    BY <2>1, ReadyTablesAreKept
<1>5. Count(b) = k /\ EntryAt(b, k) = 36 + 8 * k /\ EntryAt(b, k + n) = 36 + 8 * (k + n)
  BY <1>1, <1>3, TheLayout, TheSizes DEF EntryAt, Sizes, Count
<1> DEFINE memory == Write(b.memory, 36 + 8 * k, 36 + 8 * (k + n), Table)
<1>6. c = WithMemory(WithBlocks(WithTable(b, table), blocks), memory)
  <2>1. c = [b EXCEPT !.table = table, !.blocks = blocks, !.memory = memory]
    BY <1>4, <1>5 DEF FreeIndicesAdd, FreePlaces, FreeBlocks
  <2> HIDE DEF c, table, blocks, memory
  <2>2. QED
    BY <2>1 DEF WithMemory, WithBlocks, WithTable
<1>7. /\ table \in Seq(PlaceType) /\ Len(table) = k + n /\ \A i \in 1..k : table[i] = b.table[i]
  <2>1. b.table \in Seq(PlaceType)
    BY <1>1 DEF Whole, IsStore
  <2>2. FreePlaces(n) \in Seq(PlaceType) /\ Len(FreePlaces(n)) = n
    BY FreeEntries
  <2>3. QED
    BY <1>3, <2>1, <2>2, SequencesBefore
<1>8. PICK X : b.blocks \in Seq(X)
  BY <1>1 DEF Whole, IsStore
<1> DEFINE Y == X \cup {[kind |-> "free"]}
<1>9. blocks \in Seq(Y) /\ Len(blocks) = k + n /\ \A i \in 1..k : blocks[i] = b.blocks[i]
  <2>1. b.blocks \in Seq(Y)
    BY <1>8
  <2>2. FreeBlocks(n) \in Seq(Y) /\ Len(FreeBlocks(n)) = n
    BY FreeEntries
  <2> HIDE DEF Y
  <2>3. QED
    BY <1>3, <2>1, <2>2, SequencesBefore
<1> HIDE DEF c, table, blocks, memory, Y
<1>10. IsFreed(b, c, S, T, V, k, n, table, blocks)
  <2>1. /\ b.size = S /\ b.tableOffset = 32 /\ b.tableLength = T /\ b.variablesOffset = 32 + T /\ b.trailer = V
        /\ b.blockCount = k /\ IsStore(b)
    BY <1>1, <1>2, TheLayout DEF Numbers
  <2>2. QED
    BY <1>6, <2>1, StoresWithFreeBlocks DEF IsFreed, memory
<1>11. 4 + 8 * (k + n) <= T /\ k <= Len(blocks) /\ k <= Len(table) /\ 4 + 8 * Len(table) <= T
  BY <1>3, <1>7, <1>9
<1>12. Numbers(b, S, T, V, k, k) /\ BeginsAlike(b, k, table, blocks)
  BY <1>2, <1>3, <1>7, <1>9 DEF BeginsAlike
<1>13. HasParts(c, S, memory, T, V, k, table, blocks, b.variables) /\ IsStore(c) /\ LaidOut(c)
  BY <1>1, <1>7, <1>9, <1>10, <1>11, <1>12, PartsOfFreedStores DEF memory
<1>14. BlocksAreApart(c) /\ PathsFit(c) /\ SamePlaces(b, c)
  BY <1>1, <1>12, <1>13, PlacesOfFreedStores
<1>15. Tiled(c.memory, S) /\ RunsLieInside(c)
  <2>1. c.memory = memory
    BY <1>13 DEF HasParts
  <2>2. QED
    BY <1>1, <1>11, <1>12, <1>14, <2>1, RunsOfFreedStores DEF memory
<1>16. QED
  BY <1>13, <1>14, <1>15 DEF Whole, HasParts, c

-----------------------------------------------------------------------------
(* The empty file, and a block with a name.                                 *)

LEMMA EmptyStoresAreReady == Ready(EmptyBom, 0) /\ NamesIn(EmptyBom, {})
<1> DEFINE header == Run(0, 32, -1)
           table  == Run(32, 56, -2)
           rest   == Run(56, 60, -3)
           memory == {header, table, rest}
           none   == << >>
<1>1. EmptyBom = StoreOf(60, memory, 32, 24, 56, 4, 0, none, none, none)
  BY TheSizes DEF EmptyBom, StoreOf, Sizes
<1>2. none \in Seq(PlaceType) /\ none \in Seq(NamedType) /\ none \in Seq({}) /\ Len(none) = 0
  OBVIOUS
<1> DEFINE c == EmptyBom
<1>3. /\ c.size = 60 /\ c.memory = memory /\ c.tableOffset = 32 /\ c.tableLength = 24 /\ c.variablesOffset = 56
      /\ c.trailer = 4 /\ c.blockCount = 0 /\ c.table = none /\ c.blocks = none /\ c.variables = none
  BY <1>1 DEF StoreOf
<1> HIDE DEF c, memory
<1>4. IsStore(c)
  <2>1. c = StoreOf(c.size, c.memory, c.tableOffset, c.tableLength, c.variablesOffset, c.trailer,
                    c.blockCount, c.table, c.blocks, c.variables)
    BY <1>1, <1>3 DEF c
  <2>2. \E S : c.blocks \in Seq(S)
    BY <1>2, <1>3
  <2>3. QED
    BY <1>2, <1>3, <2>1, <2>2 DEF IsStore
<1>5. LaidOut(c)
  <2>1. VariablesEnd(c) = 0
    BY <1>3 DEF VariablesEnd
  <2>2. Count(c) = 0 /\ Len(c.blocks) = 0
    BY <1>3 DEF Count
  <2>3. QED
    BY <1>3, <2>1, <2>2, TheSizes DEF LaidOut, Sizes
<1>6. BlocksAreApart(c) /\ PathsFit(c)
  BY <1>3 DEF BlocksAreApart, PathsFit
<1>7. /\ header \in RunType /\ header.from = 0 /\ header.upto = 32 /\ header.owner = Header
      /\ table \in RunType /\ table.from = 32 /\ table.upto = 56 /\ table.owner = Table
      /\ rest \in RunType /\ rest.from = 56 /\ rest.upto = 60 /\ rest.owner = Variables
  BY TheSizes DEF Run, RunType, Sizes
<1> HIDE DEF header, table, rest
<1>8. Tiled(memory, 60)
  <2>1. memory \subseteq RunType
    BY <1>7 DEF memory
  <2>2. \A r \in memory : r.from < r.upto /\ r.upto <= 60
    BY <1>7 DEF memory
  <2>3. \A q, r \in memory : q # r => q.upto <= r.from \/ r.upto <= q.from
    BY <1>7 DEF memory
  <2>4. \A x \in 0..(60 - 1) : \E r \in memory : r.from <= x /\ x < r.upto
    <3>1. ASSUME NEW x \in 0..(60 - 1) PROVE \E r \in memory : r.from <= x /\ x < r.upto
      <4>1. header \in memory /\ table \in memory /\ rest \in memory
        BY DEF memory
      <4>2. CASE x < 32
        BY <1>7, <4>1, <4>2
      <4>3. CASE 32 <= x /\ x < 56
        BY <1>7, <4>1, <4>3
      <4>4. CASE 56 <= x /\ x < 60
        BY <1>7, <4>1, <4>4
      <4>5. QED
        BY <4>2, <4>3, <4>4
    <3>2. QED
      BY <3>1
  <2>5. QED
    BY <2>1, <2>2, <2>3, <2>4 DEF Tiled
<1>9. RunsLieInside(c)
  <2>1. /\ Begins(c, Header) = 0 /\ Ends(c, Header) = 32
        /\ Begins(c, Table) = 32 /\ Ends(c, Table) = 56
        /\ Begins(c, Variables) = 56 /\ Ends(c, Variables) = 60
    BY <1>3, TheSizes DEF Begins, Ends, Sizes
  <2>2. \A r \in memory : r = header \/ r = table \/ r = rest
    BY DEF memory
  <2>3. QED
    BY <1>3, <1>7, <2>1, <2>2 DEF RunsLieInside, Owners
<1>10. Whole(c)
  BY <1>3, <1>4, <1>5, <1>6, <1>8, <1>9 DEF Whole
<1>11. Ready(c, 0)
  BY <1>2, <1>3, <1>10 DEF Ready
<1>12. NamesIn(c, {})
  BY <1>2, <1>3 DEF NamesIn
<1>13. QED
  BY <1>11, <1>12 DEF c

LEMMA NamedIsAdded ==
  ASSUME NEW b, NEW room \in Nat, NEW more \in Nat, more = room + 1, Ready(b, more), NEW S, NamesIn(b, S),
         NEW name \in Names, Len(name) \in Nat, NEW value, NEW length \in Nat
  PROVE  Ready(AddNamed(b, Bytes(value), length, name), room)
         /\ NamesIn(AddNamed(b, Bytes(value), length, name), S \cup {name})
<1> DEFINE k == Count(b)
           b1 == IndexAdd(b, Bytes(value), length)
           v == Variable(b1, name, k)
           c == VariableAdd(b1, name, k)
<1>1. ContentFits(Bytes(value), length)
  BY DEF ContentFits, Bytes
<1>2. IsAdded(b, b1, room, Bytes(value), length)
  BY <1>1, AddedBlocks
<1>3. k \in Nat
  BY TheLayout DEF Ready
<1> HIDE DEF k, b1
<1>4. Ready(b1, room) /\ b1.variables = b.variables
  BY <1>2 DEF IsAdded
<1>5. Ready(c, room) /\ c.variables = Append(b1.variables, v)
  BY <1>3, <1>4, AddingVariablesIsSafe
<1>6. v.name = name
  BY DEF Variable
<1>7. b1.variables \in Seq(NamedType) /\ NamesIn(b1, S)
  BY <1>4 DEF Ready, Whole, IsStore, NamesIn
<1> HIDE DEF c, v
<1>8. NamesIn(c, S \cup {v.name})
  BY <1>5, <1>7, NamesOfMoreVariables
<1>9. AddNamed(b, Bytes(value), length, name) = c
  BY DEF AddNamed, c, b1, k
<1>10. QED
  BY <1>5, <1>6, <1>8, <1>9

-----------------------------------------------------------------------------
(* The writer.                                                             *)

HasAttributes(attributes) == DOMAIN attributes \subseteq 1..25

HasFacets(w) ==
  /\ IsFiniteSet(DOMAIN w.facets)
  /\ \A n \in DOMAIN w.facets : Len(NameBytes[n]) \in Nat /\ HasAttributes(w.facets[n])

HasRenditions(w) ==
  /\ \E S : w.renditions \in Seq(S)
  /\ \A i \in DOMAIN w.renditions : HasAttributes(w.renditions[i].attributes)

\* A facet of each name, and renditions, with attributes that there are.
IsWriter(w) == w = [facets |-> w.facets, renditions |-> w.renditions] /\ HasFacets(w) /\ HasRenditions(w)

FacetsIn(w) == Cardinality(DOMAIN w.facets)
RenditionsIn(w) == Len(w.renditions)

LEMMA WritersAreCounted ==
  ASSUME NEW w, IsWriter(w)
  PROVE  /\ FacetsIn(w) \in Nat /\ RenditionsIn(w) \in Nat /\ DOMAIN w.renditions = 1..RenditionsIn(w)
         /\ IsFiniteSet(DOMAIN w.renditions) /\ Cardinality(DOMAIN w.renditions) = RenditionsIn(w)
<1>1. FacetsIn(w) \in Nat
  BY FS_CardinalityType DEF IsWriter, HasFacets, FacetsIn
<1>2. PICK S : w.renditions \in Seq(S)
  BY DEF IsWriter, HasRenditions
<1>3. RenditionsIn(w) \in Nat /\ DOMAIN w.renditions = 1..RenditionsIn(w)
  BY <1>2 DEF RenditionsIn
<1>4. IsFiniteSet(1..RenditionsIn(w)) /\ Cardinality(1..RenditionsIn(w)) = RenditionsIn(w)
  <2> DEFINE n == RenditionsIn(w)
  <2>1. n \in Nat
    BY <1>3
  <2> HIDE DEF n
  <2>2. IsFiniteSet(1..n) /\ Cardinality(1..n) = IF 1 > n THEN 0 ELSE n - 1 + 1
    BY <2>1, FS_Interval
  <2>3. QED
    BY <2>1, <2>2 DEF n
<1>5. QED
  BY <1>1, <1>3, <1>4

LEMMA AttributesAreFinite ==
  ASSUME NEW S, S \subseteq 1..25
  PROVE  IsFiniteSet(S) /\ Cardinality(S) \in Nat
<1>1. IsFiniteSet(1..25)
  <2>1. PICK first \in Int, last \in Int : first = 1 /\ last = 25
    OBVIOUS
  <2>2. IsFiniteSet(first..last)
    BY FS_Interval
  <2>3. QED
    BY <2>1, <2>2
<1>2. IsFiniteSet(S)
  BY <1>1, FS_Subset
<1>3. QED
  BY <1>2, FS_CardinalityType

LEMMA ValuesHaveLengths ==
  ASSUME NEW attributes, HasAttributes(attributes)
  PROVE  FacetLength(attributes) \in Nat
<1>1. Cardinality(DOMAIN attributes) \in Nat
  BY AttributesAreFinite DEF HasAttributes
<1>2. QED
  BY <1>1 DEF FacetLength

LEMMA KeyFormatsHaveLengths ==
  ASSUME NEW w, IsWriter(w)
  PROVE  Len(DetermineKeyFormat(w)) \in Nat
<1> DEFINE A == UNION {DOMAIN w.facets[m] : m \in DOMAIN w.facets}
           B == UNION {DOMAIN w.renditions[i].attributes : i \in DOMAIN w.renditions}
           S == A \cup B
           n == Cardinality(S)
           f == [i \in 1..n |-> CHOOSE a \in S : Cardinality({b \in S : b < a}) = i - 1]
<1>1. S \subseteq 1..25
  <2>1. \A m \in DOMAIN w.facets : DOMAIN w.facets[m] \subseteq 1..25
    BY DEF IsWriter, HasFacets, HasAttributes
  <2>2. \A i \in DOMAIN w.renditions : DOMAIN w.renditions[i].attributes \subseteq 1..25
    BY DEF IsWriter, HasRenditions, HasAttributes
  <2>3. A \subseteq 1..25
    BY <2>1
  <2>4. B \subseteq 1..25
    BY <2>2
  <2> HIDE DEF A, B
  <2>5. QED
    BY <2>3, <2>4
<1> HIDE DEF S
<1>2. n \in Nat
  BY <1>1, AttributesAreFinite
<1>3. DetermineKeyFormat(w) = f
  <2>1. DetermineKeyFormat(w) = Ascending(S)
    BY Zenon DEF DetermineKeyFormat, S
  <2>2. QED
    BY <2>1 DEF Ascending
<1> HIDE DEF n
<1>4. DOMAIN f = 1..n
  OBVIOUS
<1> HIDE DEF f
<1>5. Len(f) = n
  BY <1>2, <1>4
<1>6. QED
  BY <1>2, <1>3, <1>5

LEMMA KeysHaveLengths ==
  ASSUME NEW attributes, NEW format, Len(format) \in Nat
  PROVE  Len(WriteAttributes(attributes, format)) \in Nat
<1> DEFINE n == 2 * Len(format)
           f == WriteAttributes(attributes, format)
<1>1. n \in Nat
  OBVIOUS
<1>2. DOMAIN f = 1..n
  BY DEF WriteAttributes
<1> HIDE DEF n, f
<1>3. Len(f) = n
  BY <1>1, <1>2
<1>4. QED
  BY <1>1, <1>3 DEF f

-----------------------------------------------------------------------------
(* The stages of the archive: what is written, and how much room there is    *)
(* left for the rest of it.                                                 *)

IsReady(b, room, names) == Ready(b, room) /\ NamesIn(b, names)

HasTreeFor(b, name, n) == \E p \in Nat : HasTree(b, name, p, n)

\* A tree that has still n paths to take, and more to come behind it.
IsReadyFor(b, name, n, room, names) == IsReady(b, room + 2 * n, names) /\ HasTreeFor(b, name, n)

Progress(b, step, w, rest) ==
  CASE step = "header" -> IsReady(b, 8 + 2 * FacetsIn(w) + 2 * RenditionsIn(w), {})
    [] step = "format" -> IsReady(b, 7 + 2 * FacetsIn(w) + 2 * RenditionsIn(w), {"CARHEADER"})
    [] step = "facetTree" -> IsReady(b, 6 + 2 * FacetsIn(w) + 2 * RenditionsIn(w), {"CARHEADER", "KEYFORMAT"})
    [] step = "facets" ->
         /\ rest \subseteq DOMAIN w.facets
         /\ IsReadyFor(b, "FACETKEYS", Cardinality(rest), 4 + 2 * RenditionsIn(w),
                       {"CARHEADER", "KEYFORMAT", "FACETKEYS"})
    [] step = "renditions" ->
         /\ rest \subseteq DOMAIN w.renditions
         /\ IsReadyFor(b, "RENDITIONS", Cardinality(rest), 2, {"CARHEADER", "KEYFORMAT", "FACETKEYS", "RENDITIONS"})
    [] step = "done" -> Whole(b)
    [] OTHER -> b = EmptyBom

LEMMA NamesHaveLengths == \A name \in Names : Len(name) \in Nat
  BY CarArchiveAssumption, Zenon DEF Names

\* A pair that is added to a tree.
LEMMA TreesAreFilled ==
  ASSUME NEW b, NEW name, NEW n \in Nat, NEW more \in Nat, more = n + 1, NEW room \in Nat, NEW names,
         IsReadyFor(b, name, more, room, names), NEW key, Len(key) \in Nat, NEW value, NEW length \in Nat
  PROVE  IsReadyFor(TreeAdd(b, name, key, value, length), name, n, room, names)
<1> DEFINE c == TreeAdd(b, name, key, value, length)
<1>1. PICK less \in Nat, ready \in Nat : less = room + 2 * n /\ ready = less + 2 /\ ready = room + 2 * more
  <2>1. room + 2 * n \in Nat /\ (room + 2 * n) + 2 \in Nat /\ (room + 2 * n) + 2 = room + 2 * more
    OBVIOUS
  <2>2. QED
    BY <2>1
<1>2. Ready(b, ready) /\ NamesIn(b, names)
  BY <1>1 DEF IsReadyFor, IsReady
<1>3. PICK p \in Nat : HasTree(b, name, p, more)
  BY DEF IsReadyFor, HasTreeFor
<1>4. Ready(c, less) /\ NamesIn(c, names) /\ HasTree(c, name, p, n)
  BY <1>1, <1>2, <1>3, TreeIsAddedTo
<1> HIDE DEF c
<1>5. IsReadyFor(c, name, n, room, names)
  BY <1>1, <1>4 DEF IsReadyFor, IsReady, HasTreeFor
<1>6. QED
  BY <1>5 DEF c

LEMMA TreesAreMade ==
  ASSUME NEW b, NEW name \in Names, Len(name) \in Nat, NEW n \in Nat, NEW room \in Nat, NEW ready \in Nat,
         ready = room + 2 * n + 2, NEW names, name \notin names, IsReady(b, ready, names)
  PROVE  IsReadyFor(TreeReserve(TreeAllocEmpty(b, name), name, n), name, n, room, names \cup {name})
<1> DEFINE c == TreeAllocEmpty(b, name)
           d == TreeReserve(c, name, n)
           all == names \cup {name}
<1>1. PICK less \in Nat : less = room + 2 * n /\ ready = less + 2
  OBVIOUS
<1>2. Ready(b, less + 2) /\ NamesIn(b, names)
  BY <1>1 DEF IsReady
<1>3. Ready(c, less) /\ NamesIn(c, all) /\ \E p \in Nat : HasTree(c, name, p, 0)
  BY <1>2, TreeIsAllocated
<1> HIDE DEF c, all
<1>4. PICK p \in Nat : HasTree(c, name, p, 0)
  BY <1>3
<1>5. Ready(d, less) /\ NamesIn(d, all) /\ HasTree(d, name, p, n)
  BY <1>3, <1>4, TreeIsReserved
<1> HIDE DEF d
<1>6. IsReadyFor(d, name, n, room, all)
  BY <1>1, <1>5 DEF IsReadyFor, IsReady, HasTreeFor
<1>7. QED
  BY <1>6 DEF d, c, all

ArchiveIsSound == IsWriter(writer) /\ Progress(bom, writing, writer, left)

\* What is left is counted down.
LEMMA OneLess ==
  ASSUME NEW S, IsFiniteSet(S), NEW T \in SUBSET S, NEW x \in T
  PROVE  /\ T \ {x} \subseteq S
         /\ \E n, more \in Nat : more = n + 1 /\ Cardinality(T) = more /\ Cardinality(T \ {x}) = n
<1>1. IsFiniteSet(T)
  BY FS_Subset
<1>2. IsFiniteSet(T \ {x}) /\ Cardinality(T \ {x}) = Cardinality(T) - 1
  BY <1>1, FS_RemoveElement
<1>3. Cardinality(T) \in Nat /\ Cardinality(T \ {x}) \in Nat
  BY <1>1, <1>2, FS_CardinalityType
<1>4. QED
  BY <1>2, <1>3

LEMMA ReservingProceeds ==
  ASSUME ArchiveIsSound, WriteReserve
  PROVE  Progress(bom', writing', writer', left')
<1> DEFINE F == FacetsIn(writer)
           R == RenditionsIn(writer)
           n == 8 + 2 * F + 2 * R
<1>1. n \in Nat
  BY WritersAreCounted DEF ArchiveIsSound
<1>2. bom = EmptyBom
  BY DEF ArchiveIsSound, Progress, WriteReserve
<1>3. bom' = IndexReserve(EmptyBom, n) /\ writing' = "header" /\ writer' = writer
  BY <1>2 DEF WriteReserve, ReservedIndexes, FacetsIn, RenditionsIn
<1> HIDE DEF n
<1>4. PICK none \in Nat : none = 0 /\ none + n = n
  BY <1>1
<1>5. Ready(EmptyBom, none) /\ NamesIn(EmptyBom, {})
  BY <1>4, EmptyStoresAreReady
<1>6. Ready(bom', none + n) /\ bom'.variables = EmptyBom.variables
  BY <1>1, <1>3, <1>5, ReservingIsSafe
<1>7. NamesIn(bom', {})
  BY <1>5, <1>6 DEF NamesIn
<1>8. IsReady(bom', n, {})
  BY <1>4, <1>6, <1>7 DEF IsReady
<1>9. QED
  BY <1>3, <1>8 DEF Progress, n

\* A block with a name takes the place of one that was reserved.
LEMMA NamedProceeds ==
  ASSUME NEW b, NEW room \in Nat, NEW more \in Nat, more = room + 1, NEW names, IsReady(b, more, names),
         NEW name \in Names, NEW value, NEW length \in Nat
  PROVE  IsReady(AddNamed(b, Bytes(value), length, name), room, names \cup {name})
<1>1. Len(name) \in Nat
  BY NamesHaveLengths
<1>2. Ready(b, more) /\ NamesIn(b, names)
  BY DEF IsReady
<1>3. QED
  BY <1>1, <1>2, NamedIsAdded DEF IsReady

LEMMA HeaderProceeds ==
  ASSUME ArchiveIsSound, WriteHeader
  PROVE  Progress(bom', writing', writer', left')
<1> DEFINE F == FacetsIn(writer)
           R == RenditionsIn(writer)
<1>1. PICK room \in Nat, more \in Nat : more = room + 1 /\ more = 8 + 2 * F + 2 * R /\ room = 7 + 2 * F + 2 * R
  <2>1. F \in Nat /\ R \in Nat
    BY WritersAreCounted DEF ArchiveIsSound
  <2> HIDE DEF F, R
  <2>2. 7 + 2 * F + 2 * R \in Nat /\ 8 + 2 * F + 2 * R \in Nat /\ 8 + 2 * F + 2 * R = (7 + 2 * F + 2 * R) + 1
    BY <2>1
  <2>3. QED
    BY <2>2
<1>2. IsReady(bom, more, {})
  BY <1>1 DEF ArchiveIsSound, Progress, WriteHeader
<1>3. /\ bom' = AddNamed(bom, Bytes(CarHeader), CarHeaderSize, "CARHEADER")
      /\ writing' = "format" /\ writer' = writer
  BY DEF WriteHeader
<1>4. CarHeaderSize \in Nat /\ "CARHEADER" \in Names
  BY DEF CarHeaderSize, Names
<1>5. IsReady(bom', room, {} \cup {"CARHEADER"})
  BY <1>1, <1>2, <1>3, <1>4, NamedProceeds
<1>6. {} \cup {"CARHEADER"} = {"CARHEADER"}
  OBVIOUS
<1>7. IsReady(bom', 7 + 2 * F + 2 * R, {"CARHEADER"})
  BY <1>1, <1>5, <1>6
<1>8. QED
  BY <1>3, <1>7 DEF Progress

LEMMA FormatProceeds ==
  ASSUME ArchiveIsSound, WriteKeyFormat
  PROVE  Progress(bom', writing', writer', left')
<1> DEFINE F == FacetsIn(writer)
           R == RenditionsIn(writer)
           format == DetermineKeyFormat(writer)
           length == 12 + 4 * Len(format)
<1>1. PICK room \in Nat, more \in Nat : more = room + 1 /\ more = 7 + 2 * F + 2 * R /\ room = 6 + 2 * F + 2 * R
  <2>1. F \in Nat /\ R \in Nat
    BY WritersAreCounted DEF ArchiveIsSound
  <2> HIDE DEF F, R
  <2>2. 6 + 2 * F + 2 * R \in Nat /\ 7 + 2 * F + 2 * R \in Nat /\ 7 + 2 * F + 2 * R = (6 + 2 * F + 2 * R) + 1
    BY <2>1
  <2>3. QED
    BY <2>2
<1>2. IsReady(bom, more, {"CARHEADER"})
  BY <1>1 DEF ArchiveIsSound, Progress, WriteKeyFormat
<1>3. /\ bom' = AddNamed(bom, Bytes(format), length, "KEYFORMAT")
      /\ writing' = "facetTree" /\ writer' = writer
  BY DEF WriteKeyFormat
<1>4. length \in Nat /\ "KEYFORMAT" \in Names
  <2>1. Len(format) \in Nat
    BY KeyFormatsHaveLengths DEF ArchiveIsSound
  <2>2. QED
    BY <2>1 DEF Names
<1> HIDE DEF format, length
<1>5. IsReady(bom', room, {"CARHEADER"} \cup {"KEYFORMAT"})
  BY <1>1, <1>2, <1>3, <1>4, NamedProceeds
<1>6. {"CARHEADER"} \cup {"KEYFORMAT"} = {"CARHEADER", "KEYFORMAT"}
  OBVIOUS
<1>7. IsReady(bom', 6 + 2 * F + 2 * R, {"CARHEADER", "KEYFORMAT"})
  BY <1>1, <1>5, <1>6
<1>8. QED
  BY <1>3, <1>7 DEF Progress

LEMMA FacetTreeProceeds ==
  ASSUME ArchiveIsSound, AllocFacets
  PROVE  Progress(bom', writing', writer', left')
<1> DEFINE F == FacetsIn(writer)
           R == RenditionsIn(writer)
           S == {"CARHEADER", "KEYFORMAT"}
           all == {"CARHEADER", "KEYFORMAT", "FACETKEYS"}
<1>1. PICK n \in Nat, room \in Nat, ready \in Nat :
        n = F /\ room = 4 + 2 * R /\ ready = room + 2 * n + 2 /\ ready = 6 + 2 * F + 2 * R
  <2>1. F \in Nat /\ R \in Nat
    BY WritersAreCounted DEF ArchiveIsSound
  <2> HIDE DEF F, R
  <2>2. 4 + 2 * R \in Nat /\ 6 + 2 * F + 2 * R \in Nat /\ (4 + 2 * R) + 2 * F + 2 = 6 + 2 * F + 2 * R
    BY <2>1
  <2>3. QED
    BY <2>1, <2>2
<1>2. IsReady(bom, ready, S)
  BY <1>1 DEF ArchiveIsSound, Progress, AllocFacets
<1>3. /\ bom' = TreeReserve(TreeAllocEmpty(bom, "FACETKEYS"), "FACETKEYS", n)
      /\ writing' = "facets" /\ writer' = writer /\ left' = DOMAIN writer.facets
  BY <1>1 DEF AllocFacets, FacetsIn
<1>4. "FACETKEYS" \in Names /\ "FACETKEYS" \notin S /\ S \cup {"FACETKEYS"} = all
  BY DEF Names
<1>5. Len("FACETKEYS") \in Nat
  BY <1>4, NamesHaveLengths
<1> HIDE DEF S, all
<1>6. PICK name \in Names : name = "FACETKEYS" /\ Len(name) \in Nat /\ name \notin S /\ S \cup {name} = all
  BY <1>4, <1>5
<1>7. bom' = TreeReserve(TreeAllocEmpty(bom, name), name, n)
  BY <1>3, <1>6
<1>8. IsReadyFor(bom', name, n, room, S \cup {name})
  BY <1>1, <1>2, <1>6, <1>7, TreesAreMade
<1>9. n = Cardinality(left') /\ left' \subseteq DOMAIN writer'.facets /\ RenditionsIn(writer') = R
  BY <1>1, <1>3 DEF FacetsIn
<1>10. IsReadyFor(bom', "FACETKEYS", Cardinality(left'), 4 + 2 * RenditionsIn(writer'), all)
  BY <1>1, <1>6, <1>8, <1>9
<1>11. QED
  BY <1>3, <1>9, <1>10 DEF Progress, all

LEMMA FacetProceeds ==
  ASSUME ArchiveIsSound, NEW name \in DOMAIN writer.facets, WriteFacet(name)
  PROVE  Progress(bom', writing', writer', left')
<1> DEFINE R == RenditionsIn(writer)
           all == {"CARHEADER", "KEYFORMAT", "FACETKEYS"}
           key == NameBytes[name]
           value == FacetValue(writer.facets[name])
           length == FacetLength(writer.facets[name])
           rest == left \ {name}
<1>1. IsWriter(writer) /\ HasFacets(writer) /\ IsFiniteSet(DOMAIN writer.facets)
  BY DEF ArchiveIsSound, IsWriter, HasFacets
<1>2. PICK room \in Nat : room = 4 + 2 * R
  BY <1>1, WritersAreCounted
<1>3. /\ left \subseteq DOMAIN writer.facets
      /\ IsReadyFor(bom, "FACETKEYS", Cardinality(left), room, all)
  BY <1>2 DEF ArchiveIsSound, Progress, WriteFacet
<1>4. /\ bom' = TreeAdd(bom, "FACETKEYS", key, value, length) /\ left' = rest /\ name \in left
      /\ writing' = "facets" /\ writer' = writer
  BY DEF WriteFacet
<1>5. /\ rest \subseteq DOMAIN writer.facets
      /\ \E n, more \in Nat : more = n + 1 /\ Cardinality(left) = more /\ Cardinality(rest) = n
  <2> DEFINE D == DOMAIN writer.facets
  <2>1. IsFiniteSet(D) /\ left \in SUBSET D /\ name \in left
    BY <1>1, <1>3, <1>4
  <2> HIDE DEF D
  <2>2. /\ left \ {name} \subseteq D
        /\ \E n, more \in Nat : more = n + 1 /\ Cardinality(left) = more /\ Cardinality(left \ {name}) = n
    BY <2>1, OneLess
  <2>3. QED
    BY <2>2 DEF D
<1>6. PICK n \in Nat, more \in Nat : more = n + 1 /\ Cardinality(left) = more /\ Cardinality(rest) = n
  BY <1>5
<1>7. Len(key) \in Nat /\ length \in Nat
  BY <1>1, ValuesHaveLengths DEF HasFacets
<1> HIDE DEF key, value, length, rest, all
<1>8. IsReadyFor(bom, "FACETKEYS", more, room, all)
  BY <1>3, <1>6
<1>9. IsReadyFor(bom', "FACETKEYS", n, room, all)
  BY <1>4, <1>6, <1>7, <1>8, TreesAreFilled
<1>10. IsReadyFor(bom', "FACETKEYS", Cardinality(left'), 4 + 2 * RenditionsIn(writer'), all)
  BY <1>2, <1>4, <1>6, <1>9
<1>11. left' \subseteq DOMAIN writer'.facets
  BY <1>4, <1>5
<1>12. QED
  BY <1>4, <1>10, <1>11 DEF Progress, all

LEMMA RenditionTreeProceeds ==
  ASSUME ArchiveIsSound, AllocRenditions
  PROVE  Progress(bom', writing', writer', left')
<1> DEFINE R == RenditionsIn(writer)
           S == {"CARHEADER", "KEYFORMAT", "FACETKEYS"}
           all == {"CARHEADER", "KEYFORMAT", "FACETKEYS", "RENDITIONS"}
<1>1. PICK n \in Nat, room \in Nat, ready \in Nat :
        n = R /\ room = 2 /\ ready = room + 2 * n + 2 /\ ready = 4 + 2 * R + 2 * 0
  <2>1. R \in Nat
    BY WritersAreCounted DEF ArchiveIsSound
  <2> HIDE DEF R
  <2>2. 4 + 2 * R + 2 * 0 \in Nat /\ 2 + 2 * R + 2 = 4 + 2 * R + 2 * 0
    BY <2>1
  <2>3. QED
    BY <2>1, <2>2
<1>2. Cardinality(left) = 0
  BY FS_EmptySet DEF AllocRenditions
<1>3. IsReady(bom, ready, S)
  BY <1>1, <1>2 DEF ArchiveIsSound, Progress, AllocRenditions, IsReadyFor
<1>4. /\ bom' = TreeReserve(TreeAllocEmpty(bom, "RENDITIONS"), "RENDITIONS", n)
      /\ writing' = "renditions" /\ writer' = writer /\ left' = DOMAIN writer.renditions
  BY <1>1 DEF AllocRenditions, RenditionsIn
<1>5. "RENDITIONS" \in Names /\ "RENDITIONS" \notin S /\ S \cup {"RENDITIONS"} = all
  BY DEF Names
<1>6. Len("RENDITIONS") \in Nat
  BY <1>5, NamesHaveLengths
<1> HIDE DEF S, all
<1>7. PICK name \in Names : name = "RENDITIONS" /\ Len(name) \in Nat /\ name \notin S /\ S \cup {name} = all
  BY <1>5, <1>6
<1>8. bom' = TreeReserve(TreeAllocEmpty(bom, name), name, n)
  BY <1>4, <1>7
<1>9. IsReadyFor(bom', name, n, room, S \cup {name})
  BY <1>1, <1>3, <1>7, <1>8, TreesAreMade
<1>10. n = Cardinality(left') /\ left' \subseteq DOMAIN writer'.renditions
  BY <1>1, <1>4, WritersAreCounted DEF ArchiveIsSound
<1>11. IsReadyFor(bom', "RENDITIONS", Cardinality(left'), 2, all)
  BY <1>1, <1>7, <1>9, <1>10
<1>12. QED
  BY <1>4, <1>10, <1>11 DEF Progress, all

LEMMA RenditionProceeds ==
  ASSUME ArchiveIsSound, NEW i \in DOMAIN writer.renditions, WriteRenditionKey(i)
  PROVE  Progress(bom', writing', writer', left')
<1> DEFINE all == {"CARHEADER", "KEYFORMAT", "FACETKEYS", "RENDITIONS"}
           format == DetermineKeyFormat(writer)
           key == WriteAttributes(writer.renditions[i].attributes, format)
           value == WriteRendition(writer.renditions[i])
           rest == left \ {i}
<1>1. IsWriter(writer) /\ IsFiniteSet(DOMAIN writer.renditions)
  BY WritersAreCounted DEF ArchiveIsSound
<1>2. PICK room \in Nat : room = 2
  OBVIOUS
<1>3. /\ left \subseteq DOMAIN writer.renditions
      /\ IsReadyFor(bom, "RENDITIONS", Cardinality(left), room, all)
  BY <1>2 DEF ArchiveIsSound, Progress, WriteRenditionKey
<1>4. /\ bom' = TreeAdd(bom, "RENDITIONS", key, value, ValueLength) /\ left' = rest /\ i \in left
      /\ writing' = "renditions" /\ writer' = writer
  BY DEF WriteRenditionKey
<1>5. /\ rest \subseteq DOMAIN writer.renditions
      /\ \E n, more \in Nat : more = n + 1 /\ Cardinality(left) = more /\ Cardinality(rest) = n
  BY <1>1, <1>3, <1>4, OneLess
<1>6. PICK n \in Nat, more \in Nat : more = n + 1 /\ Cardinality(left) = more /\ Cardinality(rest) = n
  BY <1>5
<1>7. Len(key) \in Nat /\ ValueLength \in Nat
  <2>1. Len(format) \in Nat
    BY <1>1, KeyFormatsHaveLengths
  <2> HIDE DEF format
  <2>2. QED
    BY <2>1, KeysHaveLengths, CarArchiveAssumption
<1> HIDE DEF key, value, rest, all
<1>8. IsReadyFor(bom, "RENDITIONS", more, room, all)
  BY <1>3, <1>6
<1>9. IsReadyFor(bom', "RENDITIONS", n, room, all)
  BY <1>4, <1>6, <1>7, <1>8, TreesAreFilled
<1>10. IsReadyFor(bom', "RENDITIONS", Cardinality(left'), 2, all)
  BY <1>2, <1>4, <1>6, <1>9
<1>11. left' \subseteq DOMAIN writer'.renditions
  BY <1>4, <1>5
<1>12. QED
  BY <1>4, <1>10, <1>11 DEF Progress, all

LEMMA FreeIndicesProceed ==
  ASSUME ArchiveIsSound, AddFreeIndices
  PROVE  Progress(bom', writing', writer', left')
<1>1. Cardinality(left) = 0
  BY FS_EmptySet DEF AddFreeIndices
<1>2. PICK n \in Nat : n = 2 /\ n = 2 + 2 * 0
  OBVIOUS
<1>3. Ready(bom, n)
  BY <1>1, <1>2 DEF ArchiveIsSound, Progress, AddFreeIndices, IsReadyFor, IsReady
<1>4. Whole(FreeIndicesAdd(bom, n))
  BY <1>3, FreeingIsSafe
<1>5. Whole(bom') /\ writing' = "done"
  BY <1>2, <1>4 DEF AddFreeIndices
<1>6. QED
  BY <1>5 DEF Progress

LEMMA WritingIsSound ==
  ASSUME ArchiveIsSound, WriteArchive
  PROVE  ArchiveIsSound'
<1>1. writer' = writer
  BY DEF WriteArchive, WriteReserve, WriteHeader, WriteKeyFormat, AllocFacets, WriteFacet, AllocRenditions,
         WriteRenditionKey, AddFreeIndices
<1>2. Progress(bom', writing', writer', left')
  <2>1. CASE WriteReserve
    BY <2>1, ReservingProceeds
  <2>2. CASE WriteHeader
    BY <2>2, HeaderProceeds
  <2>3. CASE WriteKeyFormat
    BY <2>3, FormatProceeds
  <2>4. CASE AllocFacets
    BY <2>4, FacetTreeProceeds
  <2>5. ASSUME NEW name \in DOMAIN writer.facets, WriteFacet(name)
        PROVE  Progress(bom', writing', writer', left')
    BY <2>5, FacetProceeds
  <2>6. CASE AllocRenditions
    BY <2>6, RenditionTreeProceeds
  <2>7. ASSUME NEW i \in DOMAIN writer.renditions, WriteRenditionKey(i)
        PROVE  Progress(bom', writing', writer', left')
    BY <2>7, RenditionProceeds
  <2>8. CASE AddFreeIndices
    BY <2>8, FreeIndicesProceed
  <2>9. QED
    BY <2>1, <2>2, <2>3, <2>4, <2>5, <2>6, <2>7, <2>8 DEF WriteArchive
<1>3. IsWriter(writer')
  BY <1>1 DEF ArchiveIsSound
<1>4. QED
  BY <1>2, <1>3 DEF ArchiveIsSound

LEMMA SoundArchivesHaveWholeBlocks == ArchiveIsSound => BlocksAreWhole
<1>1. SUFFICES ASSUME ArchiveIsSound PROVE BlocksAreWhole
  OBVIOUS
<1>2. Whole(EmptyBom)
  BY EmptyStoresAreReady DEF Ready
<1>3. Whole(bom)
  BY <1>1, <1>2 DEF ArchiveIsSound, Progress, IsReadyFor, IsReady, Ready
<1>4. QED
  BY <1>3, WholeStoresHaveWholeBlocks

-----------------------------------------------------------------------------
(* What the compiler gives to the writer.                                   *)

LEMMA FacetsAreAdded ==
  ASSUME NEW w, IsWriter(w), NEW name, Len(NameBytes[name]) \in Nat, NEW attributes, HasAttributes(attributes)
  PROVE  IsWriter(WithFacet(w, name, attributes))
<1>1. CASE name \in DOMAIN w.facets
  BY <1>1 DEF WithFacet
<1>2. CASE name \notin DOMAIN w.facets
  <2> DEFINE facets == [n \in DOMAIN w.facets \cup {name} |-> IF n = name THEN attributes ELSE w.facets[n]]
             c == WithFacet(w, name, attributes)
  <2>1. c = [w EXCEPT !.facets = facets]
    BY <1>2 DEF WithFacet
  <2>2. DOMAIN facets = DOMAIN w.facets \cup {name}
    OBVIOUS
  <2>3. \A n \in DOMAIN facets : Len(NameBytes[n]) \in Nat /\ HasAttributes(facets[n])
    BY DEF IsWriter, HasFacets
  <2> HIDE DEF facets
  <2>4. c = [facets |-> facets, renditions |-> w.renditions] /\ c.facets = facets /\ c.renditions = w.renditions
    BY <2>1 DEF IsWriter
  <2> HIDE DEF c
  <2>5. IsFiniteSet(DOMAIN facets)
    BY <2>2, FS_AddElement DEF IsWriter, HasFacets
  <2>6. HasFacets(c) /\ HasRenditions(c)
    BY <2>3, <2>4, <2>5 DEF HasFacets, HasRenditions, IsWriter
  <2>7. QED
    BY <2>4, <2>6 DEF IsWriter, c
<1>3. QED
  BY <1>1, <1>2

LEMMA RenditionsAreAdded ==
  ASSUME NEW w, IsWriter(w), NEW rendition, HasAttributes(rendition.attributes)
  PROVE  IsWriter(WithRendition(w, rendition))
<1>1. CASE ~HasIdentifier(rendition.attributes)
  BY <1>1 DEF WithRendition
<1>2. CASE HasIdentifier(rendition.attributes)
  <2> DEFINE s == w.renditions
             more == Append(s, rendition)
             c == WithRendition(w, rendition)
  <2>1. c = [w EXCEPT !.renditions = more]
    BY <1>2 DEF WithRendition
  <2>2. PICK X : s \in Seq(X)
    BY DEF IsWriter, HasRenditions
  <2>3. \A i \in 1..Len(s) : HasAttributes(s[i].attributes)
    BY <2>2 DEF IsWriter, HasRenditions
  <2>4. c = [facets |-> w.facets, renditions |-> more] /\ c.facets = w.facets /\ c.renditions = more
    <3> HIDE DEF more
    <3> QED
      BY <2>1 DEF IsWriter
  <2> HIDE DEF s, c
  <2>5. /\ Len(s) \in Nat /\ more \in Seq(X \cup {rendition}) /\ Len(more) = Len(s) + 1
        /\ \A i \in 1..Len(s) : more[i] = s[i]
        /\ more[Len(s) + 1] = rendition
    BY <2>2, LongerSequences
  <2> HIDE DEF more
  <2>6. \A i \in DOMAIN more : HasAttributes(more[i].attributes)
    <3>1. ASSUME NEW i \in 1..(Len(s) + 1) PROVE HasAttributes(more[i].attributes)
      <4>1. i \in 1..Len(s) \/ i = Len(s) + 1
        BY <2>5
      <4>2. QED
        BY <2>3, <2>5, <4>1
    <3>2. DOMAIN more = 1..(Len(s) + 1)
      BY <2>5
    <3>3. QED
      BY <3>1, <3>2
  <2>7. HasFacets(c) /\ HasRenditions(c)
    BY <2>4, <2>5, <2>6 DEF HasFacets, HasRenditions, IsWriter
  <2>8. QED
    BY <2>4, <2>7 DEF IsWriter, c
<1>3. QED
  BY <1>1, <1>2

\* The state of a compilation.
Compilation(ids, last, w, count, crashed) ==
  [ids |-> ids, last |-> last, writer |-> w, errors |-> count, crashed |-> crashed]

IsCompilation(s) ==
  s = Compilation(s.ids, s.last, s.writer, s.errors, s.crashed) /\ IsWriter(s.writer)

LEMMA ImagesHaveAttributes ==
  ASSUME NEW entry, NEW image, NEW identifier, NEW junk
  PROVE  /\ HasAttributes(ImageRendition(entry, image, identifier, junk).attributes)
         /\ HasAttributes(IdentifiedBy(identifier))
<1>1. AttributeIdentifiers.idiom = 15 /\ AttributeIdentifiers.scale = 12 /\ AttributeIdentifiers.identifier = 17
  BY DEF AttributeIdentifiers
<1>2. DOMAIN ImageRendition(entry, image, identifier, junk).attributes = {15, 12, 17}
  BY <1>1 DEF ImageRendition
<1>3. DOMAIN IdentifiedBy(identifier) = {17}
  BY <1>1 DEF IdentifiedBy
<1>4. QED
  BY <1>2, <1>3 DEF HasAttributes

LEMMA ImagesAreAdded ==
  ASSUME NEW s, IsCompilation(s), NEW name, Len(NameBytes[name]) \in Nat, NEW entry, NEW image, NEW junk
  PROVE  IsCompilation(AddImage(s, name, entry, image, junk))
<1> DEFINE id == Identified(s.ids, s.last, name)
           ids == Put(s.ids, name, id)
           last == IF name \notin DOMAIN s.ids THEN id ELSE s.last
           facets == IF name \notin DOMAIN s.ids THEN WithFacet(s.writer, name, IdentifiedBy(id)) ELSE s.writer
           rendition == ImageRendition(entry, image, id, junk)
           w == WithRendition(facets, rendition)
           c == AddImage(s, name, entry, image, junk)
<1>1. HasAttributes(IdentifiedBy(id)) /\ HasAttributes(rendition.attributes)
  BY ImagesHaveAttributes
<1>2. c = [s EXCEPT !.ids = ids, !.last = last, !.writer = w]
  BY DEF AddImage
<1> HIDE DEF id, c, rendition
<1>3. IsWriter(facets)
  BY <1>1, FacetsAreAdded DEF IsCompilation
<1> HIDE DEF facets
<1>4. IsWriter(w)
  BY <1>1, <1>3, RenditionsAreAdded
<1> HIDE DEF ids, last, w
<1>5. c = Compilation(ids, last, w, s.errors, s.crashed)
  BY <1>2 DEF IsCompilation, Compilation
<1>6. IsCompilation(c)
  BY <1>4, <1>5 DEF IsCompilation, Compilation
<1>7. QED
  BY <1>6 DEF c

LEMMA ImagesAreCompiled ==
  ASSUME NEW s, IsCompilation(s), NEW path, Len(NameBytes[FullyQualifiedName(path)]) \in Nat, NEW entry, NEW junk
  PROVE  IsCompilation(CompileImage(s, path, entry, junk))
<1> DEFINE c == CompileImage(s, path, entry, junk)
           image == ReadImage(FileOf(path, entry))
<1>1. CASE s.crashed \/ IsSkipped(entry)
  BY <1>1 DEF CompileImage
<1>2. CASE ~(s.crashed \/ IsSkipped(entry))
  <2>1. c = IF image = Nil THEN [s EXCEPT !.errors = @ + 1]
            ELSE IF OutputFormat = "folder" THEN [s EXCEPT !.crashed = TRUE]
            ELSE AddImage(s, FullyQualifiedName(path), entry, image, junk)
    BY <1>2 DEF CompileImage
  <2> HIDE DEF c, image
  <2>2. IsCompilation([s EXCEPT !.errors = @ + 1])
    BY DEF IsCompilation, Compilation
  <2>3. IsCompilation([s EXCEPT !.crashed = TRUE])
    <3>1. \A x : IsCompilation([s EXCEPT !.crashed = x])
      BY DEF IsCompilation, Compilation
    <3>2. QED
      BY <3>1, Zenon
  <2>4. IsCompilation(AddImage(s, FullyQualifiedName(path), entry, image, junk))
    BY ImagesAreAdded
  <2>5. IsCompilation(c)
    BY <2>1, <2>2, <2>3, <2>4
  <2>6. QED
    BY <2>5 DEF c
<1>3. QED
  BY <1>1, <1>2

\* The compilation after each of the images of a set.
After(begin, path, junk, after, i) ==
  IF i = 0 THEN begin ELSE CompileImage(after[i - 1], path, Entries(path)[i], junk)

LEMMA CompilationsExist ==
  ASSUME NEW begin, NEW path, NEW junk, NEW n \in Nat
  PROVE  \E f : f = [i \in 0..n |-> After(begin, path, junk, f, i)]
<1> DEFINE T == {m \in Nat : ~ \E f : f = [i \in 0..m |-> After(begin, path, junk, f, i)]}
<1>1. SUFFICES ASSUME T # {} PROVE FALSE
  OBVIOUS
<1>2. PICK m \in T : \A l \in T : m <= l
  <2>1. T \subseteq Nat
    OBVIOUS
  <2> HIDE DEF T
  <2>2. QED
    BY <1>1, <2>1, LeastNatural
<1>3. CASE m = 0
  <2> DEFINE f == [i \in 0..m |-> begin]
  <2>1. \A i \in 0..m : After(begin, path, junk, f, i) = begin
    BY <1>3 DEF After
  <2>2. f = [i \in 0..m |-> After(begin, path, junk, f, i)]
    <3> HIDE DEF After
    <3>1. [i \in 0..m |-> After(begin, path, junk, f, i)] = [i \in 0..m |-> begin]
      BY <2>1
    <3>2. QED
      BY <3>1
  <2> HIDE DEF f
  <2>3. QED
    BY <2>2
<1>4. CASE m # 0
  <2>1. m \in Nat /\ m - 1 \in Nat /\ ~(m <= m - 1)
    BY <1>4
  <2>2. PICK f : f = [i \in 0..(m - 1) |-> After(begin, path, junk, f, i)]
    BY <1>2, <2>1
  <2> DEFINE g == [i \in 0..m |-> IF i <= m - 1 THEN f[i] ELSE After(begin, path, junk, f, i)]
  <2>3. ASSUME NEW i \in 0..m PROVE g[i] = After(begin, path, junk, g, i)
    <3>1. g[i] = After(begin, path, junk, f, i)
      <4>1. CASE i <= m - 1
        <5>1. i \in 0..(m - 1)
          BY <2>1, <4>1
        <5>2. g[i] = f[i]
          BY <4>1
        <5> HIDE DEF g
        <5>3. QED
          BY <2>2, <5>1, <5>2
      <4>2. CASE ~(i <= m - 1)
        BY <4>2
      <4>3. QED
        BY <4>1, <4>2
    <3>2. i # 0 => g[i - 1] = f[i - 1]
      <4>1. ASSUME i # 0 PROVE i - 1 \in 0..m /\ i - 1 <= m - 1
        BY <2>1, <4>1
      <4>2. QED
        BY <4>1
    <3> HIDE DEF g
    <3>3. After(begin, path, junk, g, i) = After(begin, path, junk, f, i)
      BY <3>2 DEF After
    <3>4. QED
      BY <3>1, <3>3
  <2>4. g = [i \in 0..m |-> g[i]]
    OBVIOUS
  <2> HIDE DEF g
  <2>5. g = [i \in 0..m |-> After(begin, path, junk, g, i)]
    BY <2>3, <2>4
  <2>6. QED
    BY <2>5
<1>5. QED
  BY <1>3, <1>4

LEMMA CompilationsStaySound ==
  ASSUME NEW begin, IsCompilation(begin), NEW path, Len(NameBytes[FullyQualifiedName(path)]) \in Nat, NEW junk,
         NEW n \in Nat, NEW f, f = [i \in 0..n |-> After(begin, path, junk, f, i)]
  PROVE  IsCompilation(f[n])
<1> DEFINE T == {m \in 0..n : ~IsCompilation(f[m])}
<1>1. SUFFICES ASSUME T # {} PROVE FALSE
  <2>1. n \in 0..n
    OBVIOUS
  <2>2. QED
    BY <2>1
<1>2. PICK m \in T : \A l \in T : m <= l
  <2>1. T \subseteq Nat
    OBVIOUS
  <2> HIDE DEF T
  <2>2. QED
    BY <1>1, <2>1, LeastNatural
<1>3. m \in 0..n /\ f[m] = After(begin, path, junk, f, m) /\ ~IsCompilation(f[m])
  OBVIOUS
<1>4. CASE m = 0
  BY <1>3, <1>4 DEF After
<1>5. CASE m # 0
  <2>1. m - 1 \in 0..n /\ ~(m <= m - 1)
    BY <1>3, <1>5
  <2>2. IsCompilation(f[m - 1])
    BY <1>2, <2>1
  <2>3. f[m] = CompileImage(f[m - 1], path, Entries(path)[m], junk)
    BY <1>3, <1>5 DEF After
  <2>4. IsCompilation(CompileImage(f[m - 1], path, Entries(path)[m], junk))
    BY <2>2, ImagesAreCompiled
  <2>5. QED
    BY <1>3, <2>3, <2>4
<1>6. QED
  BY <1>4, <1>5

LEMMA ImageSetsAreCompiled ==
  ASSUME IsWriter(writer), NEW path \in DOMAIN Directories, Kind(path) = "ImageSet", NEW junk
  PROVE  IsWriter(CompileImageSet(path, junk).writer)
<1> DEFINE begin == [ids |-> compiled.ids, last |-> compiled.last, writer |-> writer, errors |-> errors, crashed |-> FALSE]
           n == Len(Entries(path))
           after == CHOOSE f : f = [i \in 0..n |-> After(begin, path, junk, f, i)]
<1>1. n \in Nat /\ Len(NameBytes[FullyQualifiedName(path)]) \in Nat
  BY CatalogAssumption
<1>2. IsCompilation(begin)
  <2>1. \A x : IsCompilation([ids |-> compiled.ids, last |-> compiled.last, writer |-> writer, errors |-> errors, crashed |-> x])
    BY DEF IsCompilation, Compilation
  <2>2. QED
    BY <2>1, Zenon
<1>3. CompileImageSet(path, junk) = after[n]
  BY DEF CompileImageSet, After
<1> HIDE DEF begin, n
<1>4. after = [i \in 0..n |-> After(begin, path, junk, after, i)]
  BY <1>1, CompilationsExist
<1> HIDE DEF after
<1>5. IsCompilation(after[n])
  BY <1>1, <1>2, <1>4, CompilationsStaySound
<1>6. QED
  BY <1>3, <1>5 DEF IsCompilation

-----------------------------------------------------------------------------
(* The compiler.                                                           *)

\* The writer starts when all of the catalogs are compiled.
StartsLate == stage \in {"options", "version", "contents", "compile", "inputs"} => writing = "idle"

CatalogIsSound == ArchiveIsSound /\ StartsLate /\ pending \in Seq(DOMAIN Directories)

\* While nothing is written the file is empty.
LEMMA IdleArchives ==
  ASSUME writing \in {"idle", "reserve"}
  PROVE  ArchiveIsSound <=> IsWriter(writer) /\ bom = EmptyBom
  BY DEF ArchiveIsSound, Progress

LEMMA NewWritersAreSound == IsWriter(NewWriter)
<1> DEFINE none == [n \in {} |-> {}]
           empty == << >>
<1>1. DOMAIN none = {} /\ IsFiniteSet({})
  BY FS_EmptySet
<1>2. empty \in Seq({}) /\ DOMAIN empty = {}
  OBVIOUS
<1>3. NewWriter = [facets |-> none, renditions |-> empty]
  BY DEF NewWriter
<1> HIDE DEF none, empty
<1>4. NewWriter.facets = none /\ NewWriter.renditions = empty
  BY <1>3
<1>5. HasFacets(NewWriter) /\ HasRenditions(NewWriter)
  BY <1>1, <1>2, <1>4 DEF HasFacets, HasRenditions
<1>6. QED
  BY <1>3, <1>4, <1>5 DEF IsWriter

LEMMA CompilersStartSound == StartFiles => CatalogIsSound
<1>1. SUFFICES ASSUME StartFiles PROVE CatalogIsSound
  OBVIOUS
<1>2. /\ stage = "options" /\ writing = "idle" /\ bom = EmptyBom /\ writer = NewWriter /\ pending = << >>
  BY <1>1 DEF StartFiles, Init
<1>3. ArchiveIsSound
  BY <1>2, IdleArchives, NewWritersAreSound
<1>4. QED
  BY <1>2, <1>3 DEF CatalogIsSound, StartsLate

LEMMA OrdersAreSequences ==
  ASSUME NEW path \in DOMAIN Directories, NEW order \in Orders(LoadedChildren(path))
  PROVE  order \in Seq(DOMAIN Directories)
<1> DEFINE S == LoadedChildren(path)
           n == Cardinality(S)
<1>1. S \subseteq DOMAIN Directories
  BY DEF LoadedChildren, LoadsAsset, IsDirectory
<1>2. n \in Nat
  <2>1. IsFiniteSet(S)
    BY <1>1, CatalogAssumption, FS_Subset
  <2> HIDE DEF S
  <2>2. QED
    BY <2>1, FS_CardinalityType
<1>3. order \in [1..n -> S]
  BY DEF Orders, SetToSeqs
<1> HIDE DEF S, n
<1>4. QED
  BY <1>1, <1>2, <1>3

LEMMA PendingStaysSound ==
  ASSUME pending \in Seq(DOMAIN Directories), CompileAsset
  PROVE  Head(pending) \in DOMAIN Directories /\ pending' \in Seq(DOMAIN Directories)
<1>1. pending # << >>
  BY DEF CompileAsset
<1>2. Head(pending) \in DOMAIN Directories /\ Tail(pending) \in Seq(DOMAIN Directories)
  BY <1>1
<1>3. PICK order \in Orders(LoadedChildren(Head(pending))) : pending' = PendingAfter(Head(pending), order)
  BY DEF CompileAsset
<1>4. order \in Seq(DOMAIN Directories)
  BY <1>2, OrdersAreSequences
<1>5. order \o Tail(pending) \in Seq(DOMAIN Directories)
  BY <1>2, <1>4, ConcatProperties
<1>6. QED
  BY <1>2, <1>3, <1>5 DEF PendingAfter

LEMMA AssetsAreCompiled ==
  ASSUME CatalogIsSound, CompileAsset
  PROVE  CatalogIsSound'
<1> DEFINE path == Head(pending)
<1>1. /\ stage = "inputs" /\ writing = "idle" /\ bom = EmptyBom /\ IsWriter(writer)
      /\ pending \in Seq(DOMAIN Directories)
  <2>1. stage = "inputs" /\ writing = "idle"
    BY DEF CompileAsset, CatalogIsSound, StartsLate
  <2>2. QED
    BY <2>1, IdleArchives DEF CatalogIsSound
<1>2. path \in DOMAIN Directories /\ pending' \in Seq(DOMAIN Directories)
  BY <1>1, PendingStaysSound
<1> HIDE DEF path
<1>3. bom' = bom /\ writing' = writing /\ IsWriter(writer')
  <2>1. CASE Kind(path) = "ImageSet"
    <3>1. PICK junk \in Indeterminate : /\ writer' = CompileImageSet(path, junk).writer
                                        /\ UNCHANGED <<bom, writing, left>>
      BY <2>1 DEF CompileAsset, path
    <3>2. QED
      BY <1>1, <1>2, <2>1, <3>1, ImageSetsAreCompiled
  <2>2. CASE Kind(path) # "ImageSet"
    <3>1. UNCHANGED archive
      BY <2>2 DEF CompileAsset, path
    <3>2. QED
      BY <1>1, <3>1 DEF archive
  <2>3. QED
    BY <2>1, <2>2
<1>4. ArchiveIsSound'
  BY <1>1, <1>3 DEF ArchiveIsSound, Progress
<1>5. StartsLate'
  BY <1>1, <1>3 DEF StartsLate
<1>6. QED
  BY <1>2, <1>4, <1>5 DEF CatalogIsSound

LEMMA CompilersBeginSound ==
  ASSUME CatalogIsSound, BeginCompile
  PROVE  CatalogIsSound'
<1>1. /\ stage = "compile" /\ writing = "idle" /\ bom = EmptyBom /\ IsWriter(writer)
      /\ pending \in Seq(DOMAIN Directories)
  <2>1. stage = "compile" /\ writing = "idle"
    BY DEF BeginCompile, CatalogIsSound, StartsLate
  <2>2. QED
    BY <2>1, IdleArchives DEF CatalogIsSound
<1>2. pending' = pending /\ writing' = writing
  BY DEF BeginCompile, archive
<1>3. bom' = EmptyBom /\ IsWriter(writer')
  BY <1>1, NewWritersAreSound DEF BeginCompile, archive
<1>4. ArchiveIsSound'
  BY <1>1, <1>2, <1>3 DEF ArchiveIsSound, Progress
<1>5. QED
  BY <1>1, <1>2, <1>4 DEF CatalogIsSound, StartsLate

LEMMA InputsAreLoaded ==
  ASSUME CatalogIsSound, LoadInput
  PROVE  CatalogIsSound'
<1>1. stage = "inputs" /\ UNCHANGED archive
  BY DEF LoadInput
<1>2. writing = "idle" /\ writing' = "idle"
  BY <1>1 DEF CatalogIsSound, StartsLate, archive
<1>3. pending' \in Seq(DOMAIN Directories)
  <2>1. CASE pending' = pending
    BY <2>1 DEF CatalogIsSound
  <2>2. CASE pending' = <<Head(inputs)>> /\ LoadsAsset(Head(inputs))
    BY <2>2 DEF LoadsAsset, IsDirectory
  <2>3. QED
    BY <2>1, <2>2 DEF LoadInput
<1>4. ArchiveIsSound'
  BY <1>1 DEF CatalogIsSound, ArchiveIsSound, archive
<1>5. QED
  BY <1>2, <1>3, <1>4 DEF CatalogIsSound, StartsLate

LEMMA InputsEnd ==
  ASSUME CatalogIsSound, EndInputs
  PROVE  CatalogIsSound'
<1>1. stage = "inputs" /\ UNCHANGED <<bom, writer, left, pending>> /\ stage' \in {"archive", "copies"}
  BY DEF EndInputs
<1>2. writing = "idle" /\ writing' \in {"idle", "reserve"}
  BY <1>1 DEF CatalogIsSound, StartsLate, EndInputs
<1>3. IsWriter(writer) /\ bom = EmptyBom
  BY <1>2, IdleArchives DEF CatalogIsSound
<1>4. ArchiveIsSound'
  BY <1>1, <1>2, <1>3 DEF ArchiveIsSound, Progress
<1>5. QED
  BY <1>1, <1>4 DEF CatalogIsSound, StartsLate

\* A step that leaves the archive and the assets alone, and does not go back.
LEMMA OthersAreSound ==
  ASSUME CatalogIsSound, UNCHANGED <<archive, pending>>,
         stage' \in {"options", "version", "contents", "compile", "inputs"} =>
           stage \in {"options", "version", "contents", "compile", "inputs"}
  PROVE  CatalogIsSound'
<1>1. bom' = bom /\ writer' = writer /\ writing' = writing /\ left' = left /\ pending' = pending
  BY DEF archive
<1>2. ArchiveIsSound'
  BY <1>1 DEF CatalogIsSound, ArchiveIsSound
<1>3. QED
  BY <1>1, <1>2 DEF CatalogIsSound, StartsLate

LEMMA StepsAreSound ==
  ASSUME CatalogIsSound, Next
  PROVE  CatalogIsSound'
<1>1. CASE ReadOptions
  BY <1>1, OthersAreSound DEF ReadOptions
<1>2. CASE RunVersion
  BY <1>2, OthersAreSound DEF RunVersion
<1>3. CASE RunContents
  BY <1>3, OthersAreSound DEF RunContents
<1>4. CASE BeginCompile
  BY <1>4, CompilersBeginSound
<1>5. CASE LoadInput
  BY <1>5, InputsAreLoaded
<1>6. CASE CompileAsset
  BY <1>6, AssetsAreCompiled
<1>7. CASE EndInputs
  BY <1>7, InputsEnd
<1>8. CASE Archive
  <2>1. ArchiveIsSound' /\ stage = "archive" /\ stage' = stage /\ pending' = pending
    BY <1>8, WritingIsSound DEF Archive, CatalogIsSound
  <2>2. QED
    BY <2>1 DEF CatalogIsSound, StartsLate
<1>9. CASE EndArchive
  BY <1>9, OthersAreSound DEF EndArchive
<1>10. CASE Copy
  BY <1>10, OthersAreSound DEF Copy
<1>11. CASE WriteInfo
  BY <1>11, OthersAreSound DEF WriteInfo
<1>12. CASE WriteDependencies
  BY <1>12, OthersAreSound DEF WriteDependencies
<1>13. CASE ListOutputs
  BY <1>13, OthersAreSound DEF ListOutputs
<1>14. CASE WriteResult
  BY <1>14, OthersAreSound DEF WriteResult
<1>15. QED
  BY <1>1, <1>2, <1>3, <1>4, <1>5, <1>6, <1>7, <1>8, <1>9, <1>10, <1>11, <1>12, <1>13, <1>14 DEF Next

(***************************************************************************)
(* Every address in the archive leads to the bytes it was written for, in    *)
(* every state of the compiler (BlocksAreWhole): bytes move, addresses are    *)
(* corrected, blocks grow and the table fills, and none is over another.     *)
(***************************************************************************)
THEOREM ArchivesAreWhole == FilesSpec => []BlocksAreWhole
<1>1. StartFiles => CatalogIsSound
  BY CompilersStartSound
<1>2. CatalogIsSound /\ [RunActool \/ PassOn \/ RunTool]_<<vars, program, toolVars>> => CatalogIsSound'
  <2>1. SUFFICES ASSUME CatalogIsSound, [RunActool \/ PassOn \/ RunTool]_<<vars, program, toolVars>>
                 PROVE  CatalogIsSound'
    OBVIOUS
  <2>2. CASE RunActool
    BY <2>1, <2>2, StepsAreSound DEF RunActool
  <2>3. CASE UNCHANGED vars
    <3>1. stage' = stage /\ UNCHANGED <<archive, pending>>
      BY <2>3 DEF vars, archive
    <3>2. QED
      BY <2>1, <3>1, OthersAreSound
  <2>4. UNCHANGED vars \/ RunActool
    BY <2>1 DEF PassOn, RunTool
  <2>5. QED
    BY <2>2, <2>3, <2>4
<1>3. CatalogIsSound => BlocksAreWhole
  BY SoundArchivesHaveWholeBlocks DEF CatalogIsSound
<1>4. QED
  BY <1>1, <1>2, <1>3, PTL DEF FilesSpec
================================================================================
