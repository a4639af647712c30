------------------------------- MODULE BomStore --------------------------------
(***************************************************************************)
(* libbom: a file of blocks, with a table of where each block lies, and     *)
(* variables that give names to blocks.  Space is made by moving every byte *)
(* behind a point, and the addresses that are written in the header and in  *)
(* the table are corrected separately.  The bytes themselves are kept here   *)
(* as runs of the file, each with the owner it was written for: the header,  *)
(* the table, the variables, or a block, by its number.                      *)
(***************************************************************************)
EXTENDS Integers, Sequences, FiniteSetsExt, SequencesExt

VARIABLE bom

\* Sizes of the structures, in bytes.
HeaderSize        == 32
TableHeaderSize   == 4
EntrySize         == 8
VariablesSize     == 4
VariableSize      == 5
TreeSize          == 21
PathsSize         == 12
PathSize          == 8

Header    == -1
Table     == -2
Variables == -3

Run(from, upto, owner) == [from |-> from, upto |-> upto, owner |-> owner]

\* An empty file: the table has two entries for free blocks behind its own.
EmptyBom ==
  LET free == TableHeaderSize + 2 * EntrySize
      offset == HeaderSize + TableHeaderSize + free
  IN [size |-> offset + VariablesSize,
      memory |-> {Run(0, HeaderSize, Header), Run(HeaderSize, offset, Table),
                  Run(offset, offset + VariablesSize, Variables)},
      tableOffset |-> HeaderSize, tableLength |-> TableHeaderSize + free,
      variablesOffset |-> offset, trailer |-> VariablesSize, blockCount |-> 0,
      table |-> << >>, blocks |-> << >>, variables |-> << >>]

-----------------------------------------------------------------------------
(* Making room.                                                            *)

\* Variant: what begins at the point stays.
MovedBehind(address, point, delta) == IF address > point THEN address + delta ELSE address

Moved(address, point, delta) == IF address >= point THEN address + delta ELSE address

\* The addresses in the file, when delta bytes come in at the point.
UpdateAddresses(b, point, delta) ==
  [b EXCEPT !.table = [i \in DOMAIN b.table |-> [b.table[i] EXCEPT !.address = Moved(@, point, delta)]],
            !.tableOffset = Moved(b.tableOffset, point, delta),
            !.variablesOffset = Moved(b.variablesOffset, point, delta)]

\* The bytes of the file: those behind the point move, a run across it is cut.
MoveBytes(memory, point, delta) ==
  LET across == {r \in memory : r.from < point /\ point < r.upto}
  IN {r \in memory : r.upto <= point}
     \cup {Run(r.from, point, r.owner) : r \in across}
     \cup {Run(point + delta, r.upto + delta, r.owner) : r \in across}
     \cup {Run(r.from + delta, r.upto + delta, r.owner) : r \in {x \in memory : x.from >= point}}

\* Bytes that are written over lose the owner they had.
Write(memory, from, upto, owner) ==
  {r \in memory : r.upto <= from \/ r.from >= upto}
  \cup {Run(r.from, from, r.owner) : r \in {x \in memory : x.from < from /\ x.upto > from}}
  \cup {Run(upto, r.upto, r.owner) : r \in {x \in memory : x.from < upto /\ x.upto > upto}}
  \cup (IF from < upto THEN {Run(from, upto, owner)} ELSE {})

Resize(b, point, delta, owner) ==
  [UpdateAddresses(b, point, delta) EXCEPT
     !.size = @ + delta,
     !.memory = Write(MoveBytes(@, point, delta), point, point + delta, owner)]

-----------------------------------------------------------------------------
(* Blocks.  A block has the number of its entry, from zero.                 *)

Entry(b, n)  == b.table[n + 1]
Count(b)     == Len(b.table)
EntryAt(b, n) == b.tableOffset + TableHeaderSize + EntrySize * n

\* The table cannot take n more entries before its two free ones.
TableFull(b, n) ==
  TableHeaderSize + EntrySize * (Count(b) + n) > b.tableLength - 2 * EntrySize

IndexReserve(b, n) ==
  [Resize(b, b.tableOffset + b.tableLength, EntrySize * n, Table) EXCEPT
     !.tableLength = @ + EntrySize * n]

GrowTable(b, n) ==
  IF TableFull(b, n)
  THEN [Resize(b, EntryAt(b, Count(b)), EntrySize, Table) EXCEPT !.tableLength = @ + EntrySize * n]
  ELSE b

\* A new block, at the end of the file.
AppendBlock(b, content, length) ==
  LET n == Count(b)
  IN [Resize(b, b.size, length, n) EXCEPT
        !.table = Append(@, [address |-> b.size, length |-> length]),
        !.blocks = Append(@, content),
        !.memory = Write(@, EntryAt(b, n), EntryAt(b, n + 1), Table),
        !.blockCount = n + 1]

IndexAdd(b, content, length) == AppendBlock(GrowTable(b, 1), content, length)

\* More room at the end of a block.
IndexAppend(b, n, length) ==
  [Resize(b, Entry(b, n).address + Entry(b, n).length, length, n) EXCEPT
     !.table[n + 1].length = @ + length]

FreeIndicesAdd(b, n) ==
  LET grown == GrowTable(b, n)
  IN [grown EXCEPT
        !.table = @ \o [i \in 1..n |-> [address |-> 0, length |-> 0]],
        !.blocks = @ \o [i \in 1..n |-> [kind |-> "free"]],
        !.memory = Write(@, EntryAt(grown, Count(b)), EntryAt(grown, Count(b) + n), Table)]

\* The bytes from an address belong to the owner, and begin where its bytes do.
Belongs(b, owner, address, length) ==
  /\ address + length <= b.size
  /\ \A r \in b.memory : r.from < address + length /\ address < r.upto => r.owner = owner
  /\ \A r \in b.memory : r.owner = owner => r.from >= address

Torn == [kind |-> "torn"]
NoBlock == [kind |-> "none"]

\* What is read for a block: whatever lies at its address.
IndexGet(b, n) ==
  IF n \notin 0..(Count(b) - 1) \/ Entry(b, n).address + Entry(b, n).length > b.size THEN NoBlock
  ELSE LET at == Entry(b, n)
           found == {r \in b.memory : r.from = at.address /\ r.owner >= 0
                                      /\ Belongs(b, r.owner, at.address, at.length)}
       IN IF at.length = 0 \/ found = {} THEN Torn ELSE b.blocks[(CHOOSE r \in found : TRUE).owner + 1]

-----------------------------------------------------------------------------
(* Variables.                                                              *)

\* A variable lies right behind the one before it.
VariablesEnd(b) == IF b.variables = << >> THEN 0 ELSE Last(b.variables).upto

\* The length of a variable is rounded up, and never left as it is.
RoundedUp(length) == length + 4 - (length % 4)

VariableAdd(b, name, n) ==
  LET delta == RoundedUp(VariableSize + Len(name))
  IN [Resize(b, b.variablesOffset + VariablesSize + VariablesEnd(b), delta, Variables) EXCEPT
        !.variables = Append(@, [name |-> name, index |-> n, upto |-> VariablesEnd(b) + VariableSize + Len(name)]),
        !.trailer = @ + delta]

\* The first of the name, or -1.
VariableGet(b, name) ==
  LET at == SelectInSeq(b.variables, LAMBDA v : v.name = name)
  IN IF at = 0 THEN -1 ELSE b.variables[at].index

-----------------------------------------------------------------------------
(* Trees: a block that leads to a block of paths, each a pair of the blocks *)
(* of a key and of its value.                                              *)

TreeBlock(child) == [kind |-> "tree", child |-> child, pathCount |-> 0]
PathsBlock       == [kind |-> "paths", paths |-> << >>, forward |-> 0]
Bytes(value)     == [kind |-> "bytes", value |-> value]

TreeAllocEmpty(b, name) ==
  LET withPaths == IndexAdd(b, PathsBlock, PathsSize)
      withTree  == IndexAdd(withPaths, TreeBlock(Count(b)), TreeSize)
  IN VariableAdd(withTree, name, Count(b) + 1)

TreeOf(b, name)  == VariableGet(b, name)
PathsOf(b, name) == b.blocks[TreeOf(b, name) + 1].child

TreeReserve(b, name, n) == IndexAppend(b, PathsOf(b, name), PathSize * n)

\* -1, 0 or 1, as memcmp compares; of two keys alike so far the shorter is first.
Compare(key, other) ==
  LET common == IF Len(key) < Len(other) THEN Len(key) ELSE Len(other)
      differ == SelectInSeq([i \in 1..common |-> key[i] # other[i]], LAMBDA d : d)
      sign(x, y) == IF x < y THEN -1 ELSE IF x > y THEN 1 ELSE 0
  IN IF differ = 0 THEN sign(Len(key), Len(other)) ELSE sign(key[differ], other[differ])

\* A key against that of a path: one that cannot be read counts as greater.
Against(b, key, path) ==
  LET other == IndexGet(b, path.key) IN IF other.kind # "bytes" THEN -1 ELSE Compare(key, other.value)

\* What is left to search: from lo on and before hi, with the last place looked at.
Span(lo, hi, at) == [lo |-> lo, hi |-> hi, at |-> at]

\* The place of a new key among the paths: where a key alike is, or the last one
\* that was looked at.
Search(b, paths, key) ==
  LET n == Len(paths)
      place[s \in [lo : 0..n, hi : 0..n, at : 0..n]] ==
        IF s.lo >= s.hi THEN s.at
        ELSE LET middle == (s.hi - s.lo) \div 2 + s.lo
                 result == Against(b, key, paths[middle + 1])
             IN CASE result < 0 -> place[Span(s.lo, middle, middle)]
                  [] result > 0 -> place[Span(middle + 1, s.hi, middle)]
                  [] OTHER      -> middle
  IN place[Span(0, n, 0)]

\* The room for one more path is compared without the twelve bytes before the paths.
RoomForPath(b, n) ==
  IF (Len(b.blocks[n + 1].paths) + 1) * PathSize > Entry(b, n).length
  THEN IndexAppend(b, n, PathSize) ELSE b

InsertPath(b, n, tree, key, value) ==
  LET at    == Entry(b, n).address
      paths == b.blocks[n + 1].paths
      place == Search(b, paths, key.bytes)
      inserted ==
        [b EXCEPT !.blocks[n + 1].paths = InsertAt(@, place + 1, [key |-> key.index, value |-> value]),
                  !.memory = Write(@, at, at + PathsSize + PathSize * (Len(paths) + 1), n)]
  IN [inserted EXCEPT !.blocks[tree + 1].pathCount = @ + 1]

\* A key of so many bytes, with a value of a given length.
TreeAdd(b, name, key, value, length) ==
  LET n       == Count(b)
      withKey == IndexAdd(b, Bytes(key), Len(key))
      both    == IndexAdd(withKey, Bytes(value), length)
  IN InsertPath(RoomForPath(both, PathsOf(b, name)), PathsOf(b, name), TreeOf(b, name),
                [index |-> n, bytes |-> key], n + 1)

\* The keys and values of a tree, in the order it keeps them.
TreeItems(b, name) ==
  LET tree == IndexGet(b, TreeOf(b, name))
  IN IF tree.kind # "tree" THEN << >>
     ELSE LET paths == IndexGet(b, tree.child)
          IN IF paths.kind # "paths" THEN << >>
             ELSE FoldLeft(LAMBDA items, path :
                      Append(items, [key |-> IndexGet(b, path.key), value |-> IndexGet(b, path.value)]),
                    << >>, paths.paths)

-----------------------------------------------------------------------------

\* The runs follow each other from the beginning of a file to its end.
Fills(memory, size) ==
  \A r \in memory :
    /\ r.from < r.upto
    /\ \A q \in memory : q # r => q.upto <= r.from \/ r.upto <= q.from
    /\ r.from # 0 => \E q \in memory : q.upto = r.from
    /\ r.upto # size => \E q \in memory : q.from = r.upto

(***************************************************************************)
(* Every address leads to the bytes it was written for: the table, the      *)
(* variables and each block lie whole where the header and the table say,   *)
(* the runs fill the file without a gap, and the paths of a tree fit their   *)
(* block.  Bytes move (bom.c:171) and addresses are corrected (bom.c:139)    *)
(* by two separate pieces of code.                                          *)
(***************************************************************************)
BlocksAreWhole ==
  /\ Belongs(bom, Header, 0, HeaderSize)
  /\ Belongs(bom, Table, bom.tableOffset, bom.tableLength)
  /\ TableHeaderSize + EntrySize * Count(bom) <= bom.tableLength
  /\ Belongs(bom, Variables, bom.variablesOffset, bom.trailer)
  /\ \A n \in 0..(bom.blockCount - 1) :
       /\ Belongs(bom, n, Entry(bom, n).address, Entry(bom, n).length)
       /\ \A r \in bom.memory : r.owner = n => r.upto <= Entry(bom, n).address + Entry(bom, n).length
       /\ bom.blocks[n + 1].kind = "paths" =>
            PathsSize + PathSize * Len(bom.blocks[n + 1].paths) <= Entry(bom, n).length
  /\ Fills(bom.memory, bom.size)

(***************************************************************************)
(* "BOM trees store their keys sorted" (bom_tree.c:231).                    *)
(***************************************************************************)
KeysSorted(b, name) ==
  LET items == TreeItems(b, name)
  IN \A i \in 1..(Len(items) - 1) : Compare(items[i].key.value, items[i + 1].key.value) <= 0
================================================================================
