----------------------------- MODULE DurableLog -----------------------------
(***************************************************************************)
(* What the write-ahead log promises the engine (src/wal.rs as used by     *)
(* src/engine.rs): a durable sequence of records that only grows, spread   *)
(* over numbered segments.  An append in flight, or one that failed and    *)
(* could not be rolled back, leaves a tail whose fate only the next open   *)
(* decides: some prefix of it is found on disk, the rest is cut off.       *)
(*                                                                         *)
(* GroupCommit runs on top of these operations; Wal, the file-level model, *)
(* implements them.                                                        *)
(***************************************************************************)
EXTENDS Naturals, Sequences

VARIABLES
  log,       \* the records every later open will replay, in append order
  segOf,     \* segOf[i]: number of the segment that holds log[i]
  seg,       \* Wal::seg_seq, the segment being appended to
  tail,      \* records written but not (yet) known to be durable
  poisoned   \* Wal::poisoned, the log refuses writes until it is reopened

logVars == <<log, segOf, seg, tail, poisoned>>

LogTypeOK(R) ==
  /\ log \in Seq(R)
  /\ segOf \in Seq(Nat)
  /\ seg \in Nat
  /\ tail \in Seq(R)
  /\ poisoned \in BOOLEAN

LogInit ==
  /\ log = <<>>
  /\ segOf = <<>>
  /\ seg = 1
  /\ tail = <<>>
  /\ poisoned = FALSE

-----------------------------------------------------------------------------

\* append_many, first half: the group fits the current segment or, after a
\* rotation, the next one, and its bytes start to reach the file.
AppendBegin(recs) ==
  /\ ~poisoned
  /\ tail = <<>>
  /\ tail' = recs
  /\ seg' \in {seg, seg + 1}
  /\ UNCHANGED <<log, segOf, poisoned>>

\* write_all and sync_all succeeded: the group is durable.
AppendOk ==
  /\ ~poisoned
  /\ tail # <<>>
  /\ log' = log \o tail
  /\ segOf' = segOf \o [i \in 1..Len(tail) |-> seg]
  /\ tail' = <<>>
  /\ UNCHANGED <<seg, poisoned>>

\* Mutant: roll_back reports success but leaves the bytes in the file.
AppendNotRolledBack ==
  /\ ~poisoned
  /\ tail # <<>>
  /\ UNCHANGED logVars

\* The write or the fsync failed and roll_back cut the segment back.
AppendRolledBack ==
  /\ ~poisoned
  /\ tail # <<>>
  /\ tail' = <<>>
  /\ UNCHANGED <<log, segOf, seg, poisoned>>

\* The write or the fsync failed and so did roll_back.
AppendPoisoned ==
  /\ ~poisoned
  /\ tail # <<>>
  /\ poisoned' = TRUE
  /\ UNCHANGED <<log, segOf, seg, tail>>

\* rotate_segment switched to a fresh segment.
RotateOk ==
  /\ ~poisoned
  /\ tail = <<>>
  /\ seg' = seg + 1
  /\ UNCHANGED <<log, segOf, tail, poisoned>>

\* rotate_segment failed; if it may have left a newer segment beside the
\* current one it poisoned the log.
RotateFailed ==
  /\ ~poisoned
  /\ tail = <<>>
  /\ poisoned' \in BOOLEAN
  /\ UNCHANGED <<log, segOf, seg, tail>>

\* A crash, or closing a poisoned store, followed by Wal::open: replay finds
\* an intact prefix of the tail and the rest is truncated.  The segment
\* resumed is the highest one present, which an interrupted rotation may
\* have created.
Reopen ==
  /\ \E n \in 0..Len(tail) :
       /\ log' = log \o SubSeq(tail, 1, n)
       /\ segOf' = segOf \o [i \in 1..n |-> seg]
  /\ seg' \in {seg, seg + 1}
  /\ tail' = <<>>
  /\ poisoned' = FALSE

LogNext ==
  \/ AppendBegin(tail')
  \/ AppendOk
  \/ AppendRolledBack
  \/ AppendPoisoned
  \/ RotateOk
  \/ RotateFailed
  \/ Reopen

LogSpec == LogInit /\ [][LogNext]_logVars

=============================================================================
