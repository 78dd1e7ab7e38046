------------------------------ MODULE Checker ------------------------------
(***************************************************************************)
(* The consistency checker of src/checker.rs, watching the store whose     *)
(* snapshots module SnapshotMap describes.  Writers record a write after   *)
(* its commit has returned, outside every lock of the store, so the log of *)
(* a key fills in any order; check sorts it in place and looks up what     *)
(* each recorded read should have seen.  Reads do not affect one another,  *)
(* so the properties quantify over every read that could have been         *)
(* recorded instead of keeping the log of reads.                           *)
(***************************************************************************)
EXTENDS SnapshotMap, Functions

CONSTANT None   \* absent or deleted

ASSUME CheckerAssumption == None \notin Value

VARIABLES
  unrecorded, \* writes that are committed and not yet recorded
  writes      \* Model::writes

allVars == <<data, past, unrecorded, writes>>

Write == [index : 1..MaxIndex, key : Key, value : Value \cup {None}]

\* What a read of k observes in a snapshot's data.
Observed(map, k) == IF k \in DOMAIN map THEN map[k].value ELSE None

WatchedInit ==
  /\ MapInit
  /\ unrecorded = {}
  /\ writes = [k \in Key |-> <<>>]

\* The store commits, and the caller has yet to record the value it left under
\* each key.
WatchedCommit(ops) ==
  /\ Commit(ops)
  /\ unrecorded' = unrecorded \cup
       {[index |-> Index + 1, key |-> ops[i].key, value |-> Observed(data', ops[i].key)] :
          i \in DOMAIN ops}
  /\ UNCHANGED writes

\* record_write.
RecordWrite(w) ==
  /\ unrecorded' = unrecorded \ {w}
  /\ writes' = [writes EXCEPT ![w.key] = Append(@, <<w.index, w.value>>)]
  /\ UNCHANGED mapVars

\* Mutant: the log is taken as it was recorded.
SortedAsRecorded(log) == log

\* sort_by_key; a key has one write per index, so there is one such order.
Sorted(log) ==
  LET order == CHOOSE p \in Bijection(DOMAIN log, DOMAIN log) :
                 \A i, j \in DOMAIN log : i < j => log[p[i]][1] <= log[p[j]][1]
  IN  [i \in DOMAIN log |-> log[order[i]]]

\* check leaves every log sorted.
Check ==
  /\ writes' = [k \in Key |-> Sorted(writes[k])]
  /\ UNCHANGED <<data, past, unrecorded>>

\* (A bound: the last commit is of one op.)
WatchedNext ==
  \/ \E ops \in Batch : (Index + 1 < MaxIndex \/ Len(ops) = 1) /\ WatchedCommit(ops)
  \/ \E w \in unrecorded : RecordWrite(w)
  \/ Check

WatchedSpec == WatchedInit /\ [][WatchedNext]_allVars

\* partition_point: how many leading entries have an index up to r.
UpTo(log, r) ==
  LET after == {i \in 1..Len(log) : log[i][1] > r} IN
  IF after = {} THEN Len(log) ELSE (CHOOSE i \in after : \A j \in after : i <= j) - 1

\* What check expects a read of k at index r to have observed.
Expected(k, r) ==
  LET log == Sorted(writes[k])
      n == UpTo(log, r)
  IN  IF n = 0 THEN None ELSE log[n][2]

\* check reports a read of v.
Violation(k, r, v) == v # Expected(k, r)

-----------------------------------------------------------------------------
(* Properties *)

\* The checker is sound and complete for what has been recorded: once the
\* writes of a key up to index r are in its log, in whatever order and with
\* whatever later writes before, between or after them, a read at r is
\* reported exactly when it observed something else than the store held at r.
CheckIsExact ==
  \A k \in Key, r \in 0..Index, v \in Value \cup {None} :
    (\A w \in unrecorded : w.key = k => w.index > r)
      => (Violation(k, r, v) <=> v # Observed(past[r + 1], k))

=============================================================================
