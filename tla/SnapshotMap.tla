---------------------------- MODULE SnapshotMap ----------------------------
(***************************************************************************)
(* The materialised state of src/types.rs: how ops are folded into the map *)
(* with their versions, and how prefix scans and range scans are turned    *)
(* into ranges of it.  Keys are byte strings, over a small byte; commits   *)
(* are batches of ops under one index, as flush_group applies them.        *)
(***************************************************************************)
EXTENDS Naturals, Sequences

CONSTANTS
  MaxByte,   \* u8::MAX
  MaxLen,    \* bound on the length of a key and of a prefix
  Key,       \* the keys written
  Value,     \* the values
  MaxOps,    \* bound on the ops of a batch
  MaxIndex   \* bound on the commits

Bytes == UNION {[1..n -> 0..MaxByte] : n \in 0..MaxLen}

ASSUME SnapshotMapAssumption ==
  {MaxByte, MaxLen, MaxOps, MaxIndex} \subseteq Nat /\ Key \subseteq Bytes

VARIABLES
  data,  \* Snapshot::data
  past   \* the data of every snapshot so far, from index 0

mapVars == <<data, past>>

Op == [type : {"put"}, key : Key, value : Value] \cup [type : {"delete"}, key : Key]
Batch == UNION {[1..n -> Op] : n \in 1..MaxOps}

Index == Len(past) - 1

StartsWith(b, a) == Len(a) <= Len(b) /\ SubSeq(b, 1, Len(a)) = a

\* The order of byte strings.
Less(a, b) ==
  \/ StartsWith(b, a) /\ a # b
  \/ \E i \in 1..Len(a) :
       /\ i <= Len(b) /\ a[i] < b[i]
       /\ SubSeq(a, 1, i - 1) = SubSeq(b, 1, i - 1)

AtMost(a, b) == a = b \/ Less(a, b)

-----------------------------------------------------------------------------
(* Op::apply *)

With(map, k, e) == [j \in DOMAIN map \cup {k} |-> IF j = k THEN e ELSE map[j]]
Without(map, k) == [j \in DOMAIN map \ {k} |-> map[j]]

\* Mutant: overwriting a value keeps the version.
ApplyKeepingVersion(map, op, index) ==
  IF op.type = "delete" THEN Without(map, op.key)
  ELSE IF op.key \in DOMAIN map
  THEN With(map, op.key, [value |-> op.value, version |-> map[op.key].version])
  ELSE With(map, op.key, [value |-> op.value, version |-> index])

\* A put of the value the key already has changes nothing.
Apply(map, op, index) ==
  IF op.type = "delete" THEN Without(map, op.key)
  ELSE IF op.key \in DOMAIN map /\ map[op.key].value = op.value THEN map
  ELSE With(map, op.key, [value |-> op.value, version |-> index])

\* The ops of a batch in order, under one index.
ApplyAll(map, ops, index) ==
  LET after[n \in 0..Len(ops)] == IF n = 0 THEN map ELSE Apply(after[n - 1], ops[n], index)
  IN  after[Len(ops)]

MapInit == data = << >> /\ past = <<data>>

\* One pending commit of flush_group: its ops in order, at the next index.
Commit(ops) ==
  /\ Index < MaxIndex
  /\ data' = ApplyAll(data, ops, Index + 1)
  /\ past' = Append(past, data')

-----------------------------------------------------------------------------
(* Reads *)

\* Mutant: the last byte is incremented, and wraps.
PrefixEndWrapping(prefix) ==
  IF prefix = <<>> THEN <<>>
  ELSE <<[prefix EXCEPT ![Len(prefix)] = (@ + 1) % (MaxByte + 1)]>>

\* prefix_end: drop trailing u8::MAX bytes and increment the last one left;
\* empty when there is none.
PrefixEnd(prefix) ==
  LET below == {i \in 1..Len(prefix) : prefix[i] < MaxByte} IN
  IF below = {} THEN <<>>
  ELSE LET last == CHOOSE i \in below : \A j \in below : j <= i IN
       <<Append(SubSeq(prefix, 1, last - 1), prefix[last] + 1)>>

\* BTreeMap::range from lo, up to hi if there is one; it panics when lo > hi.
RangeFrom(lo) == {k \in DOMAIN data : AtMost(lo, k)}
RangeBetween(lo, hi) == {k \in DOMAIN data : AtMost(lo, k) /\ Less(k, hi)}

Scan(prefix) ==
  IF PrefixEnd(prefix) = <<>> THEN RangeFrom(prefix)
  ELSE RangeBetween(prefix, PrefixEnd(prefix)[1])

\* The bounds range_scan hands to BTreeMap::range.
RangeBounds(lo, hi) == IF Less(lo, hi) THEN <<lo, hi>> ELSE <<lo, lo>>

RangeScan(lo, hi) == LET b == RangeBounds(lo, hi) IN RangeBetween(b[1], b[2])

-----------------------------------------------------------------------------
(* Properties *)

\* A prefix scan returns exactly the live keys that start with the prefix,
\* also when the prefix ends in, or consists of, bytes of the largest value; a
\* range scan exactly those of [lo, hi), and none when the range is inverted.
\* Neither asks the map for an inverted range.
ScansAreExact ==
  /\ \A p \in Bytes :
       /\ Scan(p) = {k \in DOMAIN data : StartsWith(k, p)}
       /\ PrefixEnd(p) # <<>> => AtMost(p, PrefixEnd(p)[1])
  /\ \A lo, hi \in Key \cup {<<>>} :
       /\ RangeScan(lo, hi) = {k \in DOMAIN data : AtMost(lo, k) /\ Less(k, hi)}
       /\ AtMost(RangeBounds(lo, hi)[1], RangeBounds(lo, hi)[2])

\* A version identifies a value: whenever two snapshots give a key the same
\* version they give it the same value, and so does every snapshot between;
\* and a snapshot never shows a version from its future.
VersionIdentifiesValue ==
  \A i, j \in 1..Len(past) : \A k \in DOMAIN past[i] :
    /\ past[i][k].version <= i - 1
    /\ i <= j /\ k \in DOMAIN past[j] /\ past[j][k].version = past[i][k].version =>
         \A n \in i..j : k \in DOMAIN past[n] /\ past[n][k] = past[i][k]

=============================================================================
