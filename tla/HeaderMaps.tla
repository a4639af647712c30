------------------------------ MODULE HeaderMaps ------------------------------
(***************************************************************************)
(* pbxbuild::HeaderMap: the hash table in which clang looks up where an     *)
(* #include is.  clang starts at the bucket of the name's hash and goes on  *)
(* to the next one until it finds the name or an empty bucket, so an entry  *)
(* that was put anywhere else is in the file and is not found.              *)
(*                                                                         *)
(* A name is a sequence of words, one or (for a framework's header) two;    *)
(* strings are not laid out in memory, a set holds those that have a place. *)
(***************************************************************************)
EXTENDS Integers, FiniteSets, Sequences, SequencesExt

CONSTANTS
  LowerCaseOf,   \* the word a word is, but for its case
  SumOf          \* the sum of its characters in lower case

CanonicalizeKey(key) == [n \in DOMAIN key |-> LowerCaseOf[key[n]]]

\* Names of the same characters have the same hash.  A slash is 47.
HashHMapKey(key) == 13 * (FoldLeft(LAMBDA sum, w : sum + SumOf[w], 0, key) + 47 * (Len(key) - 1))

Empty == [empty |-> TRUE]
Entry(key, prefix, suffix) == [empty |-> FALSE, key |-> key, prefix |-> prefix, suffix |-> suffix]

InitialBuckets == 8
EmptyMap ==
  [buckets |-> [n \in 0..(InitialBuckets - 1) |-> Empty], numBuckets |-> InitialBuckets,
   numEntries |-> 0, keys |-> {}, offsets |-> {}, modified |-> FALSE]

\* The bucket an entry goes to: all but the one before the first are tried.
Probe(buckets, hash, size) ==
  LET RECURSIVE From(_)
      From(n) == CASE n = hash - 1     -> -1
                   [] buckets[n].empty -> n
                   [] OTHER            -> From((n + 1) % size)
  IN  From(hash)

Put(buckets, hash, size, entry) ==
  LET n == Probe(buckets, hash, size)
  IN  IF n = -1 THEN buckets ELSE [buckets EXCEPT ![n] = entry]

(* The entries are put again by their hash, those of one hash in the order  *)
(* of their buckets.  While they are, the table has its old size: an entry  *)
(* that meets another goes on within the buckets there were before.         *)
Rehash(map, size) ==
  LET hashOf(n) == HashHMapKey(map.buckets[n].key) % size
      used      == SelectSeq([n \in 1..map.numBuckets |-> n - 1], LAMBDA n : ~map.buckets[n].empty)
      sorted    == FoldLeft(LAMBDA order, hash : order \o SelectSeq(used, LAMBDA n : hashOf(n) = hash),
                            << >>, [n \in 1..size |-> n - 1])
  IN  [map EXCEPT !.buckets = FoldLeft(LAMBDA b, n : Put(b, hashOf(n), map.numBuckets, map.buckets[n]),
                                       [n \in 0..(size - 1) |-> Empty], sorted),
                  !.numBuckets = size, !.modified = FALSE]

\* At three quarters.
Grow(map) == IF map.numEntries + 1 >= (map.numBuckets * 3) \div 4 THEN Rehash(map, 2 * map.numBuckets) ELSE map

\* A name is taken for a key when it gets its place, not when it has one as a suffix.
AddString(map, string, key) ==
  IF string \in map.offsets THEN map
  ELSE [map EXCEPT !.offsets = @ \cup {string},
                   !.keys = IF key THEN @ \cup {CanonicalizeKey(string)} ELSE @]

Set(map, hash, entry) ==
  [map EXCEPT !.buckets = Put(map.buckets, hash, map.numBuckets, entry),
              !.numEntries = IF Probe(map.buckets, hash, map.numBuckets) = -1 THEN @ ELSE @ + 1,
              !.modified = TRUE]

Insert(map, entry) == Set(map, HashHMapKey(entry.key) % map.numBuckets, entry)

Add(map, entry) ==
  IF << >> \in {entry.key, entry.prefix, entry.suffix} \/ CanonicalizeKey(entry.key) \in map.keys THEN map
  ELSE Insert(Grow(AddString(AddString(AddString(map, entry.key, TRUE), entry.prefix, FALSE), entry.suffix, FALSE)), entry)

\* What is wrong after a table grew is put right before it is written.
WriteAsItIs(map) == map.buckets
Write(map) == IF map.modified THEN Rehash(map, map.numBuckets).buckets ELSE map.buckets

Made(entries) == FoldLeft(Add, EmptyMap, entries)

(* clang::HeaderMap::lookupFilename *)
Lookup(buckets, key) ==
  LET size == Cardinality(DOMAIN buckets)
      RECURSIVE From(_, _)
      From(n, left) ==
        CASE left = 0 \/ buckets[n].empty -> Empty
          [] CanonicalizeKey(buckets[n].key) = CanonicalizeKey(key) -> buckets[n]
          [] OTHER -> From((n + 1) % size, left - 1)
  IN  From(HashHMapKey(key) % size, size)

=============================================================================
