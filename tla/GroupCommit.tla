---------------------------- MODULE GroupCommit ----------------------------
(***************************************************************************)
(* The commit path of src/engine.rs: writers queue their commits, one of   *)
(* them becomes the flusher and commits everything queued as one group     *)
(* (one append, one fsync), publishes the new snapshot and settles the     *)
(* group's tickets, while the others sleep on a condition variable.  A     *)
(* checkpoint claims the same exclusivity for the instant in which it pins *)
(* the snapshot and rotates the log.  The process may crash and reopen at  *)
(* any step.                                                               *)
(*                                                                         *)
(* One process per call: Call is the set of commit_ops calls, Ckpt the set *)
(* of checkpoint calls.  A thread that makes several calls is several      *)
(* processes whose calls happen not to overlap.  The steps are the         *)
(* critical sections of the code: what is done under the queue lock is one *)
(* action, as is each call on the WAL lock and each store to the snapshot  *)
(* cell or the index mirror.                                               *)
(*                                                                         *)
(* Snapshot data is the free model of the key/value map: the sequence of   *)
(* (commit, index) pairs that Op::apply has folded into it.                *)
(***************************************************************************)
EXTENDS DurableLog, FiniteSets

CONSTANTS
  Call,        \* the commit_ops calls
  Unframeable, \* those whose ops wal::check_ops refuses
  Ckpt,        \* the checkpoint calls
  None,        \* no owner
  MaxCrash     \* bound on the number of crashes

ASSUME GroupCommitAssumption ==
  /\ Unframeable \subseteq Call
  /\ Call \cap Ckpt = {}
  /\ None \notin Call \cup Ckpt
  /\ MaxCrash \in Nat

VARIABLES
  pending,   \* CommitQueue::pending
  flushing,  \* CommitQueue::flushing
  pc,        \* where each process is
  group,     \* the group a flusher drained
  cur,       \* the snapshot a flusher or a checkpoint loaded
  ticket,    \* the result slot of each call
  ret,       \* what each call returned
  snap,      \* the published snapshot (RcuSwap)
  index,     \* Store::index, the lockless mirror
  stats,     \* Store::commits and Store::wal_syncs
  ckptOwner, \* who holds the Store::ckpt mutex
  cut,       \* the (snapshot index, boundary) each checkpoint drew
  crashes    \* crashes so far

procVars == <<pc, group, cur, ticket, ret>>
queueVars == <<pending, flushing>>
stateVars == <<snap, index, stats>>
ckptVars == <<ckptOwner, cut>>
vars == <<logVars, queueVars, procVars, stateVars, ckptVars, crashes>>

Proc == Call \cup Ckpt

Entry == [cmd : Call, index : Nat]
Snapshot == [index : Nat, data : Seq(Entry)]
EmptySnapshot == [index |-> 0, data |-> <<>>]

Unset == [state |-> "unset", index |-> 0]
Ok(i) == [state |-> "ok", index |-> i]
Err == [state |-> "err", index |-> 0]
Result == [state : {"unset", "ok", "err"}, index : Nat]

\* "invalid": refused by check_ops; "panic": the call unwound; "lost": the
\* process crashed before the call returned.
Returned(what) == [state |-> what, index |-> 0]
Outcome == [state : {"unset", "ok", "err", "invalid", "panic", "lost"}, index : Nat]

NoCut == [index |-> 0, boundary |-> 0]

\* Steps inside a flush (or an exclusive instant): a FlushGuard is alive.
CallCritical ==
  {"prepare", "append", "sync", "publish", "mirror", "settleOk", "settleErr", "release"}
CkptCritical == {"pin", "rotate", "releaseCut", "releaseErr"}
Critical == CallCritical \cup CkptCritical
CallPC == CallCritical \cup {"idle", "waiting", "woken", "done"}
CkptPC == CkptCritical \cup {"idle", "enter", "waiting", "woken", "write", "done"}

PcTypeOK ==
  /\ pc \in [Proc -> CallPC \cup CkptPC]
  /\ \A c \in Call : pc[c] \in CallPC
  /\ \A k \in Ckpt : pc[k] \in CkptPC

TypeOK ==
  /\ LogTypeOK(Entry)
  /\ pending \in Seq(Call)
  /\ flushing \in BOOLEAN
  /\ PcTypeOK
  /\ group \in [Call -> Seq(Call)]
  /\ cur \in [Proc -> Snapshot]
  /\ ticket \in [Call -> Result]
  /\ ret \in [Call -> Outcome]
  /\ snap \in Snapshot
  /\ index \in Nat
  /\ stats \in [commits : Nat, walSyncs : Nat]
  /\ ckptOwner \in Ckpt \cup {None}
  /\ cut \in [Ckpt -> [index : Nat, boundary : Nat]]
  /\ crashes \in 0..MaxCrash

Init ==
  /\ LogInit
  /\ pending = <<>>
  /\ flushing = FALSE
  /\ pc = [p \in Proc |-> "idle"]
  /\ group = [c \in Call |-> <<>>]
  /\ cur = [p \in Proc |-> EmptySnapshot]
  /\ ticket = [c \in Call |-> Unset]
  /\ ret = [c \in Call |-> Unset]
  /\ snap = EmptySnapshot
  /\ index = 0
  /\ stats = [commits |-> 0, walSyncs |-> 0]
  /\ ckptOwner = None
  /\ cut = [k \in Ckpt |-> NoCut]
  /\ crashes = 0

Goto(p, where) == pc' = [pc EXCEPT ![p] = where]

\* Mutant: the guard is dropped without notify_all.
GotoUnnotified(p, where) == Goto(p, where)

\* notify_all: every sleeper wakes, p moves to where.
GotoNotifying(p, where) ==
  pc' = [q \in Proc |-> IF q = p THEN where
                        ELSE IF pc[q] = "waiting" THEN "woken" ELSE pc[q]]

-----------------------------------------------------------------------------
(* commit_ops *)

\* check_ops refuses the ops before they join a group.
Refuse(c) ==
  /\ pc[c] = "idle"
  /\ c \in Unframeable
  /\ Goto(c, "done")
  /\ ret' = [ret EXCEPT ![c] = Returned("invalid")]
  /\ UNCHANGED <<logVars, queueVars, group, cur, ticket, stateVars, ckptVars, crashes>>

\* Mutant: the flusher copies the queue instead of draining it.
FlushCopyOrWait(c, q) ==
  \/ /\ ~flushing
     /\ flushing' = TRUE
     /\ group' = [group EXCEPT ![c] = q]
     /\ pending' = q
     /\ Goto(c, "prepare")
  \/ /\ flushing
     /\ pending' = q
     /\ Goto(c, "waiting")
     /\ UNCHANGED <<flushing, group>>

\* Under the queue lock: become the flusher of everything in queue q, or
\* sleep until a flush ends.
FlushOrWait(c, q) ==
  \/ /\ ~flushing
     /\ flushing' = TRUE
     /\ group' = [group EXCEPT ![c] = q]
     /\ pending' = <<>>
     /\ Goto(c, "prepare")
  \/ /\ flushing
     /\ pending' = q
     /\ Goto(c, "waiting")
     /\ UNCHANGED <<flushing, group>>

\* Lock the queue, push the ticket; it is unset, so the loop goes on.
Submit(c) ==
  /\ pc[c] = "idle"
  /\ c \notin Unframeable
  /\ FlushOrWait(c, Append(pending, c))
  /\ UNCHANGED <<logVars, cur, ticket, ret, stateVars, ckptVars, crashes>>

\* A condition variable may wake a sleeper without a notification.
SpuriousWake(p) ==
  /\ pc[p] = "waiting"
  /\ Goto(p, "woken")
  /\ UNCHANGED <<logVars, queueVars, group, cur, ticket, ret, stateVars, ckptVars, crashes>>

\* The loop after a wake-up: take a settled ticket and return.
TakeTicket(c) ==
  /\ pc[c] = "woken"
  /\ ticket[c] # Unset
  /\ ret' = [ret EXCEPT ![c] = ticket[c]]
  /\ ticket' = [ticket EXCEPT ![c] = Unset]
  /\ Goto(c, "done")
  /\ UNCHANGED <<logVars, queueVars, group, cur, stateVars, ckptVars, crashes>>

\* The loop after a wake-up that finds the ticket unsettled.
Compete(c) ==
  /\ pc[c] = "woken"
  /\ ticket[c] = Unset
  /\ FlushOrWait(c, pending)
  /\ UNCHANGED <<logVars, cur, ticket, ret, stateVars, ckptVars, crashes>>

-----------------------------------------------------------------------------
(* flush_group, run by the flusher c *)

\* The records of group g on top of snapshot s, one index each.
Records(g, s) == [i \in 1..Len(g) |-> [cmd |-> g[i], index |-> s.index + i]]

\* Load the snapshot; the copy and the records are local to the flusher.
Prepare(c) ==
  /\ pc[c] = "prepare"
  /\ cur' = [cur EXCEPT ![c] = snap]
  /\ Goto(c, "append")
  /\ UNCHANGED <<logVars, queueVars, group, ticket, ret, stateVars, ckptVars, crashes>>

\* A panic before the append: the FlushGuard is dropped by the unwind, the
\* group's tickets stay unset.
Panic(c) ==
  /\ pc[c] \in {"prepare", "append"}
  /\ flushing' = FALSE
  /\ GotoNotifying(c, "done")
  /\ ret' = [ret EXCEPT ![c] = Returned("panic")]
  /\ group' = [group EXCEPT ![c] = <<>>]
  /\ cur' = [cur EXCEPT ![c] = EmptySnapshot]
  /\ UNCHANGED <<logVars, pending, ticket, stateVars, ckptVars, crashes>>

\* append_many with records: rotate if the group overflows the segment, then
\* start writing.
AppendStart(c) ==
  /\ pc[c] = "append"
  /\ group[c] # <<>>
  /\ AppendBegin(Records(group[c], cur[c]))
  /\ Goto(c, "sync")
  /\ UNCHANGED <<queueVars, group, cur, ticket, ret, stateVars, ckptVars, crashes>>

\* append_many fails before it writes: the log is poisoned, or the rotation
\* it needs fails.
AppendRefused(c) ==
  /\ pc[c] = "append"
  /\ \/ poisoned /\ UNCHANGED logVars
     \/ group[c] # <<>> /\ RotateFailed
  /\ Goto(c, "settleErr")
  /\ UNCHANGED <<queueVars, group, cur, ticket, ret, stateVars, ckptVars, crashes>>

\* An empty group appends nothing and succeeds.
AppendNothing(c) ==
  /\ pc[c] = "append"
  /\ group[c] = <<>>
  /\ ~poisoned
  /\ stats' = [stats EXCEPT !.walSyncs = @ + 1]
  /\ Goto(c, "publish")
  /\ UNCHANGED <<logVars, queueVars, group, cur, ticket, ret, snap, index, ckptVars, crashes>>

\* The fsync returned: count the commits.
AppendDone(c) ==
  /\ pc[c] = "sync"
  /\ AppendOk
  /\ stats' = [commits |-> stats.commits + Len(group[c]), walSyncs |-> stats.walSyncs + 1]
  /\ Goto(c, "publish")
  /\ UNCHANGED <<queueVars, group, cur, ticket, ret, snap, index, ckptVars, crashes>>

\* Mutant: the append's error is ignored and the group published.
AppendFailedIgnored(c) ==
  /\ pc[c] = "sync"
  /\ AppendRolledBack \/ AppendPoisoned
  /\ Goto(c, "publish")
  /\ UNCHANGED <<queueVars, group, cur, ticket, ret, stateVars, ckptVars, crashes>>

\* The write or the fsync failed.
AppendFailed(c) ==
  /\ pc[c] = "sync"
  /\ AppendRolledBack \/ AppendPoisoned
  /\ Goto(c, "settleErr")
  /\ UNCHANGED <<queueVars, group, cur, ticket, ret, stateVars, ckptVars, crashes>>

\* snap.store: readers see the whole group at once.
Publish(c) ==
  /\ pc[c] = "publish"
  /\ snap' = [index |-> cur[c].index + Len(group[c]),
              data |-> cur[c].data \o Records(group[c], cur[c])]
  /\ Goto(c, "mirror")
  /\ UNCHANGED <<logVars, queueVars, group, cur, ticket, ret, index, stats, ckptVars, crashes>>

\* index.store.
Mirror(c) ==
  /\ pc[c] = "mirror"
  /\ index' = cur[c].index + Len(group[c])
  /\ Goto(c, "settleOk")
  /\ UNCHANGED <<logVars, queueVars, group, cur, ticket, ret, snap, stats, ckptVars, crashes>>

\* Mutant: every ticket is settled with the group's last index.
SettleLastIndex(c) ==
  /\ pc[c] \in {"settleOk", "settleErr"}
  /\ ticket' = [d \in Call |->
       IF \E i \in 1..Len(group[c]) : group[c][i] = d
       THEN IF pc[c] = "settleOk" THEN Ok(cur[c].index + Len(group[c])) ELSE Err
       ELSE ticket[d]]
  /\ Goto(c, "release")
  /\ UNCHANGED <<logVars, queueVars, group, cur, ret, stateVars, ckptVars, crashes>>

\* Settle every ticket of the group.  Each ticket is touched by the flusher
\* and its owner only, so settling them one by one adds no behaviour.
Settle(c) ==
  /\ pc[c] \in {"settleOk", "settleErr"}
  /\ ticket' = [d \in Call |->
       IF \E i \in 1..Len(group[c]) : group[c][i] = d
       THEN IF pc[c] = "settleOk"
            THEN Ok(cur[c].index + (CHOOSE i \in 1..Len(group[c]) : group[c][i] = d))
            ELSE Err
       ELSE ticket[d]]
  /\ Goto(c, "release")
  /\ UNCHANGED <<logVars, queueVars, group, cur, ret, stateVars, ckptVars, crashes>>

\* Take the flusher's own ticket (a missing one panics) and drop the guard:
\* clear the flag and notify_all.
Release(c) ==
  /\ pc[c] = "release"
  /\ flushing' = FALSE
  /\ GotoNotifying(c, "done")
  /\ ret' = [ret EXCEPT ![c] = IF ticket[c] = Unset THEN Returned("panic") ELSE ticket[c]]
  /\ ticket' = [ticket EXCEPT ![c] = Unset]
  /\ group' = [group EXCEPT ![c] = <<>>]
  /\ cur' = [cur EXCEPT ![c] = EmptySnapshot]
  /\ UNCHANGED <<logVars, pending, stateVars, ckptVars, crashes>>

-----------------------------------------------------------------------------
(* checkpoint *)

\* Take the checkpoint mutex.
LockCkpt(k) ==
  /\ pc[k] = "idle"
  /\ ckptOwner = None
  /\ ckptOwner' = k
  /\ Goto(k, "enter")
  /\ UNCHANGED <<logVars, queueVars, group, cur, ticket, ret, stateVars, cut, crashes>>

\* Mutant: the checkpoint claims the flag without waiting for the flusher.
EnterUnguarded(k) ==
  /\ pc[k] \in {"enter", "woken"}
  /\ flushing' = TRUE
  /\ Goto(k, "pin")
  /\ UNCHANGED <<logVars, pending, group, cur, ticket, ret, stateVars, ckptVars, crashes>>

\* exclusive_instant, under the queue lock: claim the flag, or sleep.
Enter(k) ==
  /\ pc[k] \in {"enter", "woken"}
  /\ \/ ~flushing /\ flushing' = TRUE /\ Goto(k, "pin")
     \/ flushing /\ UNCHANGED flushing /\ Goto(k, "waiting")
  /\ UNCHANGED <<logVars, pending, group, cur, ticket, ret, stateVars, ckptVars, crashes>>

\* Load the snapshot the checkpoint will hold.
Pin(k) ==
  /\ pc[k] = "pin"
  /\ cur' = [cur EXCEPT ![k] = snap]
  /\ Goto(k, "rotate")
  /\ UNCHANGED <<logVars, queueVars, group, ticket, ret, stateVars, ckptVars, crashes>>

\* rotate_segment draws the boundary.
Rotate(k) ==
  /\ pc[k] = "rotate"
  /\ RotateOk
  /\ cut' = [cut EXCEPT ![k] = [index |-> cur[k].index, boundary |-> seg']]
  /\ Goto(k, "releaseCut")
  /\ UNCHANGED <<queueVars, group, cur, ticket, ret, stateVars, ckptOwner, crashes>>

\* rotate_segment fails, or refuses on a poisoned log.
RotateError(k) ==
  /\ pc[k] = "rotate"
  /\ \/ poisoned /\ UNCHANGED logVars
     \/ RotateFailed
  /\ Goto(k, "releaseErr")
  /\ UNCHANGED <<queueVars, group, cur, ticket, ret, stateVars, ckptVars, crashes>>

\* Drop the guard: writers run again while the checkpoint is written, or the
\* call returns the rotation's error and unlocks the mutex.
ReleaseExclusive(k) ==
  /\ pc[k] \in {"releaseCut", "releaseErr"}
  /\ flushing' = FALSE
  /\ GotoNotifying(k, IF pc[k] = "releaseCut" THEN "write" ELSE "done")
  /\ ckptOwner' = IF pc[k] = "releaseCut" THEN ckptOwner ELSE None
  /\ cur' = [cur EXCEPT ![k] = EmptySnapshot]
  /\ UNCHANGED <<logVars, pending, group, ticket, ret, stateVars, cut, crashes>>

\* Write the file and reclaim segments (module Recovery), then unlock.
FinishCkpt(k) ==
  /\ pc[k] = "write"
  /\ ckptOwner' = None
  /\ Goto(k, "done")
  /\ UNCHANGED <<logVars, queueVars, group, cur, ticket, ret, stateVars, cut, crashes>>

-----------------------------------------------------------------------------
(* Crash and Store::open *)

\* The process dies at any step and the store is opened again: calls in
\* flight are lost, the recovered snapshot is the replay of the log.
Crash ==
  /\ crashes < MaxCrash
  /\ crashes' = crashes + 1
  /\ Reopen
  /\ pending' = <<>>
  /\ flushing' = FALSE
  /\ pc' = [p \in Proc |-> IF pc[p] = "idle" THEN "idle" ELSE "done"]
  /\ group' = [c \in Call |-> <<>>]
  /\ cur' = [p \in Proc |-> EmptySnapshot]
  /\ ticket' = [c \in Call |-> Unset]
  /\ ret' = [c \in Call |-> IF pc[c] \in {"idle", "done"} THEN ret[c] ELSE Returned("lost")]
  /\ snap' = [index |-> IF log' = <<>> THEN 0 ELSE log'[Len(log')].index, data |-> log']
  /\ index' = snap'.index
  /\ stats' = [commits |-> 0, walSyncs |-> 0]
  /\ ckptOwner' = None
  /\ UNCHANGED cut

CallStep(c) ==
  \/ Refuse(c)
  \/ Submit(c)
  \/ TakeTicket(c)
  \/ Compete(c)
  \/ Prepare(c)
  \/ Panic(c)
  \/ AppendStart(c)
  \/ AppendRefused(c)
  \/ AppendNothing(c)
  \/ AppendDone(c)
  \/ AppendFailed(c)
  \/ Publish(c)
  \/ Mirror(c)
  \/ Settle(c)
  \/ Release(c)

CkptStep(k) ==
  \/ LockCkpt(k)
  \/ Enter(k)
  \/ Pin(k)
  \/ Rotate(k)
  \/ RotateError(k)
  \/ ReleaseExclusive(k)
  \/ FinishCkpt(k)

Next ==
  \/ \E c \in Call : CallStep(c)
  \/ \E k \in Ckpt : CkptStep(k)
  \/ \E p \in Proc : SpuriousWake(p)
  \/ Crash

Spec == Init /\ [][Next]_vars

\* Every thread that can take a step of its own eventually does; nothing
\* obliges a caller to start, a sleeper to wake without a notification, or
\* the process to crash.
Fairness ==
  /\ \A c \in Call : WF_vars(pc[c] # "idle" /\ CallStep(c))
  /\ \A k \in Ckpt : WF_vars(pc[k] # "idle" /\ CkptStep(k))

FairSpec == Spec /\ Fairness

-----------------------------------------------------------------------------
(* Properties *)

Prefix(s, t) == Len(s) <= Len(t) /\ \A i \in 1..Len(s) : s[i] = t[i]

\* The flag does its work: at no time do two flushers, or a flusher and a
\* checkpoint's exclusive instant, run between claiming CommitQueue::flushing
\* and dropping the FlushGuard, panics and crashes included.
FlushExclusive ==
  \A p, q \in Proc : pc[p] \in Critical /\ pc[q] \in Critical => p = q

\* No lost wake-up: whoever sleeps on Store::flushed sleeps while some guard
\* is alive whose drop will wake it (commit_ops and exclusive_instant re-check
\* the flag under the queue lock before every wait).
NoLostWakeup ==
  (\E p \in Proc : pc[p] = "waiting")
    => flushing /\ \E q \in Proc : pc[q] \in Critical

\* Durable before visible: what a reader can load is a prefix of the durable
\* log, so no crash can take back what a reader saw (flush_group appends
\* before it stores the snapshot).
DurableBeforeVisible == Prefix(snap.data, log)

\* The log numbers commits 1, 2, 3, ... and holds each commit at most once,
\* across failed appends, poisoning, panics and crashes: the "out of order"
\* and "missing records" checks of open_with never fire on it.
LogInOrder ==
  /\ \A i \in 1..Len(log) : log[i].index = i
  /\ \A i, j \in 1..Len(log) : log[i].cmd = log[j].cmd => i = j

\* A call that returned Ok(i) is durable at index i, visible to every later
\* read, and index() has caught up with it.
AckedIsVisible ==
  \A c \in Call : ret[c].state = "ok" =>
    LET i == ret[c].index IN
    /\ i \in 1..Len(snap.data)
    /\ snap.data[i] = [cmd |-> c, index |-> i]
    /\ i <= index

\* The boundary a checkpoint draws separates the log exactly: a record is in
\* the checkpoint's snapshot if and only if it lives in a segment below the
\* boundary.  Reclaiming segments below it is sound only because of this.
CheckpointCut ==
  \A k \in Ckpt : cut[k] # NoCut =>
    \A i \in 1..Len(log) : (log[i].index <= cut[k].index) <=> (segOf[i] < cut[k].boundary)

\* What was published stays published, in the same order, whatever happens,
\* a crash and recovery included.
PublishedIsStable == [][Prefix(snap.data, snap'.data)]_vars

\* Every commit call comes back (with an index, an error or a panic), even
\* when the flusher that drained its ticket panicked, and so does every
\* checkpoint call that took the mutex.
CallsReturn == \A p \in Proc : pc[p] # "idle" ~> pc[p] = "done"

-----------------------------------------------------------------------------
(* Refinement *)

\* The abstract state of call c at step p with answer r: an error is "unknown"
\* ("its outcome is unknown until the store is reopened") while the log is
\* poisoned with its records t; with a healthy log it means that the commit
\* will never be applied.
Fate(c, p, r, isPoisoned, t) ==
  IF p = "idle" THEN "idle"
  ELSE IF r.state = "unset" THEN "active"
  ELSE IF r.state \in {"ok", "lost"} THEN r.state
  ELSE IF isPoisoned /\ \E i \in 1..Len(t) : t[i].cmd = c THEN "unknown" ELSE "failed"

CallStatus(c) == Fate(c, pc[c], ret[c], poisoned, tail)

Store == INSTANCE DurableStore
           WITH hist <- [i \in 1..Len(snap.data) |-> snap.data[i].cmd],
                st <- [c \in Call |-> CallStatus(c)]

\* The commit path implements the store's promise to its callers.
ImplementsDurableStore == Store!StoreSpec

=============================================================================
