------------------------------- MODULE BTree -------------------------------
(***************************************************************************)
(* The B+ tree of src/btree_store.rs: splits on insert, a point delete     *)
(* without rebalancing, reads by separator, and the document the tree is   *)
(* saved as.  One owner calls it; every method is one action.              *)
(*                                                                         *)
(* Keys are numbers, which are ordered as the code's byte strings are.  In *)
(* the document a key, a value and a count are one token each; the magic   *)
(* and the checksums, which an undamaged document passes, are left out.    *)
(***************************************************************************)
EXTENDS Naturals, Sequences, SequencesExt

CONSTANTS
  ORDER,   \* the maximum number of children of an internal node
  MaxKey,  \* keys are 1..MaxKey
  Value,   \* the values
  None     \* no value

ASSUME BTreeAssumption == ORDER \in Nat /\ ORDER >= 3 /\ None \notin Value

VARIABLES
  root,     \* BTree::root
  len,      \* BTree::len
  map,      \* the map the tree stands for
  shrunk    \* has a delete removed an entry?

treeVars == <<root, len, map, shrunk>>

Key == 1..MaxKey
MIN_CHILDREN == (ORDER + 1) \div 2
MIN_LEAF_KEYS == MIN_CHILDREN - 1
MAX_DEPTH == 64

Leaf(entries) == [leaf |-> TRUE, entries |-> entries]
Internal(keys, children) == [leaf |-> FALSE, keys |-> keys, children |-> children]

\* partition_point over sorted keys: how many come before.
Below(entries, k) == Len(SelectSeq(entries, LAMBDA e : e[1] < k))

\* Mutant: a key equal to a separator is routed to the left of it.
RouteLeft(keys, k) == 1 + Len(SelectSeq(keys, LAMBDA s : s < k))

\* The child that owns k: separators are lower bounds of the child on their right.
Route(keys, k) == 1 + Len(SelectSeq(keys, LAMBDA s : s <= k))

-----------------------------------------------------------------------------
(* insert *)

\* What insert_rec leaves at the node, whether the key was new, and the split
\* (at most one) to lift into the parent.
Grown(node, inserted, splits) == [node |-> node, inserted |-> inserted, splits |-> splits]

\* Split a leaf that holds ORDER entries; the median stays in the right half.
SplitLeaf(entries, inserted) ==
  IF Len(entries) <= ORDER - 1 THEN Grown(Leaf(entries), inserted, <<>>)
  ELSE LET mid == Len(entries) \div 2 IN
       Grown(Leaf(SubSeq(entries, 1, mid)), inserted,
             <<[median |-> entries[mid + 1][1],
                right |-> Leaf(SubSeq(entries, mid + 1, Len(entries)))]>>)

\* Replace the value of k, or insert it in its place.
InsertLeaf(entries, k, v) ==
  LET pos == Below(entries, k) + 1 IN
  IF pos <= Len(entries) /\ entries[pos][1] = k
  THEN SplitLeaf([entries EXCEPT ![pos] = <<k, v>>], FALSE)
  ELSE SplitLeaf(InsertAt(entries, pos, <<k, v>>), TRUE)

\* Mutant: the middle separator is also kept in the right half.
SplitInternalKeeping(keys, children, inserted) ==
  IF Len(children) <= ORDER THEN Grown(Internal(keys, children), inserted, <<>>)
  ELSE LET mid == Len(keys) \div 2 IN
       Grown(Internal(SubSeq(keys, 1, mid), SubSeq(children, 1, mid + 1)), inserted,
             <<[median |-> keys[mid + 1],
                right |-> Internal(SubSeq(keys, mid + 1, Len(keys)),
                                   SubSeq(children, mid + 2, Len(children)))]>>)

\* Split a node with more than ORDER children; the middle separator moves up.
SplitInternal(keys, children, inserted) ==
  IF Len(children) <= ORDER THEN Grown(Internal(keys, children), inserted, <<>>)
  ELSE LET mid == Len(keys) \div 2 IN
       Grown(Internal(SubSeq(keys, 1, mid), SubSeq(children, 1, mid + 1)), inserted,
             <<[median |-> keys[mid + 1],
                right |-> Internal(SubSeq(keys, mid + 2, Len(keys)),
                                   SubSeq(children, mid + 2, Len(children)))]>>)

RECURSIVE InsertRec(_, _, _)
InsertRec(node, k, v) ==
  IF node.leaf THEN InsertLeaf(node.entries, k, v)
  ELSE LET i == Route(node.keys, k)
           sub == InsertRec(node.children[i], k, v)
           children == [node.children EXCEPT ![i] = sub.node]
       IN  IF sub.splits = <<>>
           THEN Grown(Internal(node.keys, children), sub.inserted, <<>>)
           ELSE SplitInternal(InsertAt(node.keys, i, sub.splits[1].median),
                              InsertAt(children, i + 1, sub.splits[1].right), sub.inserted)

-----------------------------------------------------------------------------
(* delete *)

RECURSIVE DeleteRec(_, _)
DeleteRec(node, k) ==
  IF node.leaf
  THEN LET pos == Below(node.entries, k) + 1 IN
       IF pos <= Len(node.entries) /\ node.entries[pos][1] = k
       THEN [node |-> Leaf(RemoveAt(node.entries, pos)), removed |-> TRUE]
       ELSE [node |-> node, removed |-> FALSE]
  ELSE LET i == Route(node.keys, k)
           sub == DeleteRec(node.children[i], k)
       IN  [node |-> Internal(node.keys, [node.children EXCEPT ![i] = sub.node]),
            removed |-> sub.removed]

-----------------------------------------------------------------------------
(* Reads *)

RECURSIVE GetRec(_, _)
GetRec(node, k) ==
  IF node.leaf
  THEN LET hits == SelectSeq(node.entries, LAMBDA e : e[1] = k) IN
       IF hits = <<>> THEN None ELSE hits[1][2]
  ELSE GetRec(node.children[Route(node.keys, k)], k)

\* The children that collect_range enters: from the owner of lo on, up to the
\* first whose lower separator is not below hi.
Enters(keys, lo, hi) ==
  {i \in Route(keys, lo)..Len(keys) + 1 : i = 1 \/ keys[i - 1] < hi}

RECURSIVE CollectRange(_, _, _)
CollectRange(node, lo, hi) ==
  IF node.leaf
  THEN SelectSeq(SubSeq(node.entries, Below(node.entries, lo) + 1, Len(node.entries)),
                 LAMBDA e : e[1] < hi)
  ELSE FlattenSeq([i \in 1..Len(node.children) |->
         IF i \in Enters(node.keys, lo, hi) THEN CollectRange(node.children[i], lo, hi)
         ELSE <<>>])

RangeOf(lo, hi) == IF lo < hi THEN CollectRange(root, lo, hi) ELSE <<>>

\* collect, with a predicate that holds of every entry.
RECURSIVE Collect(_)
Collect(node) ==
  IF node.leaf THEN node.entries
  ELSE FlattenSeq([i \in 1..Len(node.children) |-> Collect(node.children[i])])

RECURSIVE Count(_)
Count(node) ==
  IF node.leaf THEN Len(node.entries)
  ELSE FoldSeq(LAMBDA c, n : Count(c) + n, 0, node.children)

-----------------------------------------------------------------------------
(* The document *)

\* node_page: a tag, the counts, and each child after its length.
RECURSIVE NodePage(_)
NodePage(node) ==
  IF node.leaf
  THEN <<0, Len(node.entries)>> \o FlattenSeq(node.entries)
  ELSE <<1, Len(node.keys)>> \o node.keys \o <<Len(node.children)>>
       \o FlattenSeq([i \in 1..Len(node.children) |->
            LET page == NodePage(node.children[i]) IN <<Len(page)>> \o page])

Undecodable == [leaf |-> FALSE, keys |-> <<>>, children |-> <<>>]

\* A leaf page holds its entries and nothing more.
LeafFormOk(n, body) == Len(body) = 2 + 2 * n

\* An internal page has a key, and one child more than keys.
InternalFormOk(n, body) == n >= 1 /\ Len(body) >= n + 3 /\ body[n + 3] = n + 1

\* Where each of n child pages begins, the first at `at`, and where the last ends.
RECURSIVE Starts(_, _, _)
Starts(body, at, n) ==
  IF n = 0 THEN <<at>> ELSE <<at>> \o Starts(body, at + 1 + body[at], n - 1)

\* parse_page.
RECURSIVE ParsePage(_, _)
ParsePage(body, depth) ==
  LET n == body[2] IN
  IF depth > MAX_DEPTH THEN Undecodable
  ELSE IF body[1] = 0
  THEN IF LeafFormOk(n, body)
       THEN Leaf([i \in 1..n |-> <<body[1 + 2 * i], body[2 + 2 * i]>>])
       ELSE Undecodable
  ELSE IF ~InternalFormOk(n, body) THEN Undecodable
  ELSE LET at == Starts(body, n + 4, n + 1)
           children == [i \in 1..n + 1 |->
             ParsePage(SubSeq(body, at[i] + 1, at[i] + body[at[i]]), depth + 1)]
       IN  IF at[n + 2] = Len(body) + 1 /\ \A i \in 1..n + 1 : children[i] # Undecodable
           THEN Internal(SubSeq(body, 3, n + 2), children)
           ELSE Undecodable

-----------------------------------------------------------------------------
(* Operations *)

TreeInit ==
  /\ root = Leaf(<<>>) /\ len = 0
  /\ map = [k \in Key |-> None] /\ shrunk = FALSE

\* insert: a split of the root lifts a new root over the halves.
Insert(k, v) ==
  LET grown == InsertRec(root, k, v) IN
  /\ len' = IF grown.inserted THEN len + 1 ELSE len
  /\ root' = IF grown.splits = <<>> THEN grown.node
             ELSE Internal(<<grown.splits[1].median>>, <<grown.node, grown.splits[1].right>>)
  /\ map' = [map EXCEPT ![k] = v]
  /\ UNCHANGED shrunk

Delete(k) ==
  LET sub == DeleteRec(root, k) IN
  /\ root' = sub.node
  /\ len' = IF sub.removed THEN len - 1 ELSE len
  /\ map' = [map EXCEPT ![k] = None]
  /\ shrunk' = (shrunk \/ sub.removed)

\* commit, then open: the tree is what the document says.
Reload ==
  /\ root' = ParsePage(NodePage(root), 0)
  /\ len' = Count(root')
  /\ UNCHANGED <<map, shrunk>>

TreeNext ==
  \/ \E k \in Key, v \in Value : Insert(k, v)
  \/ \E k \in Key : Delete(k)
  \/ Reload

TreeSpec == TreeInit /\ [][TreeNext]_treeVars

-----------------------------------------------------------------------------
(* Properties *)

RECURSIVE Depths(_)
Depths(node) ==
  IF node.leaf THEN {0}
  ELSE {d + 1 : d \in UNION {Depths(node.children[i]) : i \in 1..Len(node.children)}}

\* node holds keys of lo..hi only, in order, between its separators, and has
\* the size its place in the tree allows.
RECURSIVE WellFormed(_, _, _, _)
WellFormed(node, lo, hi, isRoot) ==
  IF node.leaf
  THEN /\ Len(node.entries) < ORDER
       /\ isRoot \/ shrunk \/ Len(node.entries) >= MIN_LEAF_KEYS
       /\ \A i \in 1..Len(node.entries) :
            /\ node.entries[i][1] \in lo..hi
            /\ i > 1 => node.entries[i - 1][1] < node.entries[i][1]
  ELSE LET n == Len(node.children) IN
       /\ Len(node.keys) = n - 1
       /\ n <= ORDER /\ n >= (IF isRoot THEN 2 ELSE MIN_CHILDREN)
       /\ \A i \in 1..n :
            WellFormed(node.children[i], IF i = 1 THEN lo ELSE node.keys[i - 1],
                       IF i = n THEN hi ELSE node.keys[i] - 1, FALSE)

\* The order and fill rules of assert_invariants hold after any calls, the fill
\* of leaves as long as no delete has removed an entry; every separator is
\* above the keys on its left and a lower bound of those on its right, deleted
\* keys included; and all leaves are at one depth.
Balanced ==
  WellFormed(root, 1, MaxKey, TRUE) /\ \A d, e \in Depths(root) : d = e

\* get finds the last value inserted, and nothing after a delete, however the
\* leaves have been split, emptied, saved and read back since; the counter
\* behind len and the count that open takes agree with it; range returns
\* exactly the entries of [lo, hi), in order, though it skips subtrees; and
\* scan returns them all.
ReadsMatch ==
  LET inOrder == SelectSeq([k \in Key |-> k], LAMBDA k : map[k] # None)
      entries == [i \in 1..Len(inOrder) |-> <<inOrder[i], map[inOrder[i]]>>]
  IN  /\ \A k \in Key : GetRec(root, k) = map[k]
      /\ len = Len(entries) /\ Count(root) = len
      /\ Collect(root) = entries
      /\ \A lo, hi \in 1..MaxKey + 1 :
           RangeOf(lo, hi) = SelectSeq(entries, LAMBDA e : lo <= e[1] /\ e[1] < hi)

=============================================================================
