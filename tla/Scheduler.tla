----------------------------- MODULE Scheduler -----------------------------
(***************************************************************************)
(* The cooperative runtime, src/rt.rs, and the asynchronous driver that is *)
(* its one client, src/raft/async_driver.rs.  Tasks live in a table of     *)
(* slots that are reused under a new generation, a queue holds the ids to  *)
(* poll, and wakers, which tasks may clone and hand to anyone, push ids    *)
(* onto it.                                                                *)
(*                                                                         *)
(* Two kinds of task.  A plain task's future is abstract: while it is      *)
(* polled, or dropped, it may add tasks, call run again and clone its      *)
(* waker, and it returns Pending or Ready.  A driver's future is a         *)
(* sequence of the driver's calls: each awaits one YieldOnce and then      *)
(* calls the cluster.  A waker may be used at any time, by the task being  *)
(* polled, by another task or by another thread.  Tasks are numbered in    *)
(* the order of add.                                                       *)
(***************************************************************************)
EXTENDS Naturals, Sequences, FiniteSets

CONSTANTS
  Worlds  \* bounds to choose from: the tasks added, the ids a waker may find
          \* queued, the runs inside one another, and the calls of a driver

ASSUME SchedulerAssumption ==
  Worlds \subseteq [tasks : Nat \ {0}, queue : Nat, depth : Nat \ {0}, calls : Nat]

VARIABLES
  world,     \* the bounds of this behaviour
  slots,     \* Table::slots: generation, live, where the future is, and its task
  free,      \* Table::free, a stack
  queue,     \* the ready queue of task ids
  frames,    \* the runs going on, the innermost last: what each is doing, to
             \* which id, and the root when block_on called it
  wakers,    \* the ids for which somebody holds a waker
  idOf,      \* the id each task was given
  work,      \* what is left of each driver, and whether its YieldOnce yielded
  woken,     \* the tasks queued or woken since their last poll began
  skipped,   \* the tasks whose wake-up a run inside their own poll popped
  abandoned  \* the roots whose block_on panicked

vars == <<world, slots, free, queue, frames, wakers, idOf, work, woken, skipped, abandoned>>
table == <<slots, free>>
history == <<woken, skipped, abandoned>>

Task == 1..Len(idOf)
NoId == [slot |-> 0, gen |-> 0]
NoRoot == 0

Init ==
  /\ world \in Worlds
  /\ slots = <<>> /\ free = <<>> /\ queue = <<>> /\ frames = <<>>
  /\ wakers = {} /\ idOf = <<>> /\ work = <<>>
  /\ woken = {} /\ skipped = {} /\ abandoned = {}

\* Is the id the one its slot was last allocated with, and the task alive?
Current(id) ==
  id.slot \in DOMAIN slots /\ slots[id.slot].live /\ slots[id.slot].gen = id.gen

\* The innermost run is popping, polling or dropping.
Top == frames[Len(frames)]
At(what) == frames # <<>> /\ Top.at = what
Go(what, id) == frames' = [frames EXCEPT ![Len(frames)].at = what, ![Len(frames)].id = id]

\* The task the innermost run is polling or dropping.
Polled == slots[Top.id.slot].task

IsDriver(t) == work[t].driver
Plain == [driver |-> FALSE, left |-> 0, yielded |-> FALSE]
Driver(n) == [driver |-> TRUE, left |-> n, yielded |-> FALSE]

live_tasks == Cardinality({s \in DOMAIN slots : slots[s].live})
slot_count == Len(slots)

\* The program is running code of its own: outside run, or in the poll or the
\* destructor of a plain task.
Acting ==
  \/ frames = <<>>
  \/ (At("poll") \/ At("drop")) /\ ~IsDriver(Polled)

-----------------------------------------------------------------------------
(* add *)

NewSlot(gen) == [gen |-> gen, live |-> TRUE, fut |-> "in", task |-> Len(idOf) + 1]

Enqueue(id, w) ==
  /\ queue' = Append(queue, id)
  /\ idOf' = Append(idOf, id)
  /\ work' = Append(work, w)
  /\ woken' = woken \cup {Len(idOf) + 1}

\* A finished slot, under its next generation.
AddReusing(w) ==
  LET s == free[Len(free)] IN
  /\ free # <<>>
  /\ slots' = [slots EXCEPT ![s] = NewSlot(@.gen + 1)]
  /\ free' = SubSeq(free, 1, Len(free) - 1)
  /\ Enqueue([slot |-> s, gen |-> slots[s].gen + 1], w)

\* A new slot.
AddGrowing(w) ==
  /\ free = <<>>
  /\ slots' = Append(slots, NewSlot(0))
  /\ Enqueue([slot |-> Len(slots) + 1, gen |-> 0], w)
  /\ UNCHANGED free

add(w) ==
  /\ Len(idOf) < world.tasks
  /\ AddReusing(w) \/ AddGrowing(w)

Works == {Plain} \cup {Driver(n) : n \in 1..world.calls}

\* add is called outside run, or by the task being polled or dropped.
Add ==
  /\ Acting
  /\ \E w \in Works : add(w)
  /\ UNCHANGED <<world, frames, wakers, skipped, abandoned>>

-----------------------------------------------------------------------------
(* run and block_on *)

Frame(root) == [at |-> "pop", id |-> NoId, root |-> root]

\* run, also from inside a task.
Run ==
  /\ Acting /\ Len(frames) < world.depth
  /\ frames' = Append(frames, Frame(NoRoot))
  /\ UNCHANGED <<world, table, queue, wakers, idOf, work, history>>

\* block_on adds the root and calls run.  (From outside run only.)
BlockOn ==
  /\ frames = <<>> /\ world.calls > 0
  /\ \E w \in Works : add(w)
  /\ frames' = <<Frame(Len(idOf) + 1)>>
  /\ UNCHANGED <<world, wakers, skipped, abandoned>>

\* Poll the task of an id taken from the queue, unless the id is stale or the
\* task is being polled.
Take(id) ==
  /\ slots' = [slots EXCEPT ![id.slot].fut = "taken"]
  /\ Go("poll", id)
  /\ woken' = woken \ {slots[id.slot].task}
  /\ skipped' = skipped \ {slots[id.slot].task}

Skip(id) ==
  /\ skipped' = skipped \cup (IF Current(id) THEN {slots[id.slot].task} \cap woken ELSE {})
  /\ UNCHANGED <<slots, frames, woken>>

\* Mutant: the generation is not compared.
PopAnyGeneration ==
  /\ At("pop") /\ queue # <<>>
  /\ queue' = Tail(queue)
  /\ \E id \in {Head(queue)} :
       IF slots[id.slot].live /\ slots[id.slot].fut = "in" THEN Take(id) ELSE Skip(id)
  /\ UNCHANGED <<world, free, wakers, idOf, work, abandoned>>

\* Mutant: the newest id is taken first.
PopNewest ==
  /\ At("pop") /\ queue # <<>>
  /\ queue' = SubSeq(queue, 1, Len(queue) - 1)
  /\ \E id \in {queue[Len(queue)]} :
       IF Current(id) /\ slots[id.slot].fut = "in" THEN Take(id) ELSE Skip(id)
  /\ UNCHANGED <<world, free, wakers, idOf, work, abandoned>>

Pop ==
  /\ At("pop") /\ queue # <<>>
  /\ queue' = Tail(queue)
  /\ \E id \in {Head(queue)} :
       IF Current(id) /\ slots[id.slot].fut = "in" THEN Take(id) ELSE Skip(id)
  /\ UNCHANGED <<world, free, wakers, idOf, work, abandoned>>

\* A future that is not ready goes back to its slot.
PutBack ==
  /\ slots' = [slots EXCEPT ![Top.id.slot].fut = "in"]
  /\ Go("pop", NoId)

\* Mutant: the queue is cleared of the task's id when its poll ends.
PendingForgetsWakes ==
  /\ At("poll") /\ ~IsDriver(Polled)
  /\ PutBack
  /\ queue' = SelectSeq(queue, LAMBDA id : id # Top.id)
  /\ UNCHANGED <<world, free, wakers, idOf, work, history>>

\* The poll of a plain task returned Pending.
Pending ==
  /\ At("poll") /\ ~IsDriver(Polled)
  /\ PutBack
  /\ UNCHANGED <<world, free, queue, wakers, idOf, work, history>>

\* The poll returned Ready: the future is dropped ...
Ready ==
  /\ At("poll") /\ work[Polled].left = 0
  /\ Go("drop", Top.id)
  /\ UNCHANGED <<world, table, queue, wakers, idOf, work, history>>

\* ... and its slot freed.
Finish ==
  /\ At("drop")
  /\ slots' = [slots EXCEPT ![Top.id.slot].live = FALSE, ![Top.id.slot].fut = "none"]
  /\ free' = Append(free, Top.id.slot)
  /\ woken' = woken \ {Polled}
  /\ skipped' = skipped \ {Polled}
  /\ Go("pop", NoId)
  /\ UNCHANGED <<world, queue, wakers, idOf, work, abandoned>>

\* The queue is empty: run returns.  block_on panics unless its root stowed
\* its output.
Return ==
  /\ At("pop") /\ queue = <<>>
  /\ frames' = SubSeq(frames, 1, Len(frames) - 1)
  /\ abandoned' = abandoned \cup {t \in {Top.root} \ {NoRoot} : Current(idOf[t])}
  /\ UNCHANGED <<world, table, queue, wakers, idOf, work, woken, skipped>>

-----------------------------------------------------------------------------
(* The asynchronous driver *)

\* Mutant: the YieldOnce does not wake its task.
YieldWithoutWake ==
  /\ At("poll") /\ work[Polled].left > 0 /\ ~work[Polled].yielded
  /\ work' = [work EXCEPT ![Polled].yielded = TRUE]
  /\ PutBack
  /\ UNCHANGED <<world, free, queue, wakers, idOf, history>>

\* The first poll of a YieldOnce wakes the task and is Pending.
Yield ==
  /\ At("poll") /\ work[Polled].left > 0 /\ ~work[Polled].yielded
  /\ work' = [work EXCEPT ![Polled].yielded = TRUE]
  /\ queue' = Append(queue, Top.id)
  /\ woken' = woken \cup {Polled}
  /\ PutBack
  /\ UNCHANGED <<world, free, wakers, idOf, skipped, abandoned>>

\* The next is ready: put, get or scan calls the cluster, and the workload goes
\* on to its next call, or ends.
ClusterCall ==
  /\ At("poll") /\ work[Polled].yielded
  /\ work' = [work EXCEPT ![Polled] = Driver(@.left - 1)]
  /\ UNCHANGED <<world, table, queue, frames, wakers, idOf, history>>

-----------------------------------------------------------------------------
(* Wakers *)

\* The task being polled clones its waker.
CloneWaker ==
  /\ At("poll") /\ ~IsDriver(Polled)
  /\ wakers' = wakers \cup {Top.id}
  /\ UNCHANGED <<world, table, queue, frames, idOf, work, history>>

Woken(id) == woken \cup (IF Current(id) THEN {slots[id.slot].task} ELSE {})

\* wake_by_ref, on the waker of the running poll or on a clone; wake, when
\* the clone is given up with it.
Wake(id) ==
  /\ Len(queue) < world.queue
  /\ \/ id \in wakers /\ wakers' \in {wakers, wakers \ {id}}
     \/ At("poll") /\ ~IsDriver(Polled) /\ id = Top.id /\ UNCHANGED wakers
  /\ queue' = Append(queue, id)
  /\ woken' = Woken(id)
  /\ UNCHANGED <<world, table, frames, idOf, work, skipped, abandoned>>

DropWaker(id) ==
  /\ id \in wakers /\ wakers' = wakers \ {id}
  /\ UNCHANGED <<world, table, queue, frames, idOf, work, history>>

Wakeable == wakers \cup (IF At("poll") THEN {Top.id} ELSE {})

Next ==
  \/ Add \/ Run \/ BlockOn \/ Pop \/ Pending \/ Ready \/ Finish \/ Return
  \/ Yield \/ ClusterCall
  \/ CloneWaker
  \/ \E id \in Wakeable : Wake(id)
  \/ \E id \in wakers : DropWaker(id)

Spec == Init /\ [][Next]_vars

\* run goes on until it returns, and a poll or a drop comes to its end, also
\* when it calls run.
Fairness ==
  /\ WF_vars(Pop \/ Return \/ Yield \/ ClusterCall)
  /\ SF_vars(Pending \/ Ready \/ Finish)

-----------------------------------------------------------------------------
(* Properties *)

\* A waker left over from an earlier occupant of a slot is harmless: no two
\* tasks ever have the same id, no slot is lost or offered twice, and the task
\* being polled is the one whose id was queued.
StaleWakersAreHarmless ==
  /\ \A s, t \in Task : idOf[s] = idOf[t] => s = t
  /\ slot_count = live_tasks + Len(free)
  /\ \A i \in DOMAIN frames :
       frames[i].id # NoId => idOf[slots[frames[i].id.slot].task] = frames[i].id

\* No wake-up is lost, whether it comes before, during or after a poll, but to
\* a run inside that very poll: a task woken since its last poll began has its
\* id in the queue, or such a run has skipped it.
NoLostWake ==
  \A t \in woken \ skipped : \E i \in DOMAIN queue : queue[i] = idOf[t]

\* The driver never makes block_on panic, whatever else the scheduler runs:
\* its run is over only when every call of the workload has been made.
DriverIsDriven == \A t \in abandoned : ~IsDriver(t)

\* While run is going, a task that was woken is polled or has finished, or a
\* run inside its own poll has skipped it.
WakesAreServed ==
  \A t \in 1..3 : (t \in woken /\ frames # <<>>) ~> (t \notin woken \/ t \in skipped)

=============================================================================
