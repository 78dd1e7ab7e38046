-------------------------- MODULE SchedulerProofs ---------------------------
(***************************************************************************)
(* Proofs about Scheduler, for any number of tasks, of wake-ups, of runs   *)
(* inside one another and of calls of a driver: the inductive invariant,   *)
(* that every step keeps it, and what follows for every behaviour; then,   *)
(* on top of it, that no slot of the table is lost.                        *)
(***************************************************************************)
EXTENDS Scheduler, TLAPS, FiniteSetTheorems

Id == [slot : Nat, gen : Nat]
Slot == [gen : Nat, live : BOOLEAN, fut : {"in", "taken", "none"}, task : Nat]
RunState == [at : {"pop", "poll", "drop"}, id : Id, root : Nat]
Work == [driver : BOOLEAN, left : Nat, yielded : BOOLEAN]

SchedulerType ==
  /\ world \in Worlds
  /\ slots \in Seq(Slot) /\ free \in Seq(Nat)
  /\ queue \in Seq(Id) /\ wakers \subseteq Id
  /\ frames \in Seq(RunState)
  /\ idOf \in Seq(Id) /\ work \in Seq(Work) /\ Len(work) = Len(idOf)
  /\ woken \subseteq Task /\ skipped \subseteq Task /\ abandoned \subseteq Task

\* The table: each slot knows its last task and that task's id; no id is given
\* twice, because a slot's generation only grows; the free slots are dead.
TableInv ==
  /\ \A s \in DOMAIN slots :
       /\ slots[s].task \in Task
       /\ idOf[slots[s].task] = [slot |-> s, gen |-> slots[s].gen]
       /\ slots[s].live => slots[s].fut # "none"
  /\ \A t \in Task : idOf[t].slot \in DOMAIN slots /\ idOf[t].gen <= slots[idOf[t].slot].gen
  /\ \A s, t \in Task : idOf[s] = idOf[t] => s = t
  /\ \A i \in DOMAIN free : free[i] \in DOMAIN slots /\ ~slots[free[i]].live
  /\ \A i, j \in DOMAIN free : free[i] = free[j] => i = j

\* The runs: all but the innermost are inside the poll, or the destructor, of a
\* plain task; each polls a task of its own, which is alive with its future
\* taken out, and a future is out only while it is polled.
Holds(i, s) == frames[i].at # "pop" /\ frames[i].id.slot = s
FrameInv ==
  /\ \A i \in DOMAIN frames :
       /\ frames[i].at = "pop" => i = Len(frames) /\ frames[i].id = NoId
       /\ frames[i].at # "pop" => Current(frames[i].id) /\ slots[frames[i].id.slot].fut = "taken"
       /\ frames[i].root # NoRoot => i = 1 /\ frames[i].root \in Task
       /\ i # Len(frames) => ~IsDriver(slots[frames[i].id.slot].task)
  /\ \A i, j \in DOMAIN frames : \A s \in DOMAIN slots : Holds(i, s) /\ Holds(j, s) => i = j
  /\ \A s \in DOMAIN slots : slots[s].fut = "taken" => \E i \in DOMAIN frames : Holds(i, s)

\* Only drivers have calls left, and one that has yielded has.
WorkInv ==
  \A t \in Task : /\ ~IsDriver(t) => work[t].left = 0 /\ ~work[t].yielded
                  /\ work[t].yielded => work[t].left > 0

\* The wake-ups: the woken are alive, a driver is never skipped, and a driver
\* that is alive is woken or being polled.
WakeInv ==
  /\ \A t \in woken : Current(idOf[t])
  /\ \A t \in skipped : ~IsDriver(t)
  /\ \A t \in Task : IsDriver(t) /\ Current(idOf[t]) =>
       t \in woken \/ \E i \in DOMAIN frames : Holds(i, idOf[t].slot)

SchedulerInv ==
  /\ SchedulerType /\ TableInv /\ FrameInv /\ WorkInv /\ WakeInv
  /\ NoLostWake /\ DriverIsDriven

-----------------------------------------------------------------------------
(* Facts about a state *)

\* A sequence is a function on its indexes.
LEMMA SeqFacts ==
  ASSUME NEW S, NEW q \in Seq(S)
  PROVE  Len(q) \in Nat /\ DOMAIN q = 1..Len(q) /\ \A i \in DOMAIN q : q[i] \in S
  OBVIOUS

\* A member of a sequence is replaced.
LEMMA SeqUpdate ==
  ASSUME NEW S, NEW q \in Seq(S), NEW r \in DOMAIN q, NEW v \in S
  PROVE  LET p == [q EXCEPT ![r] = v] IN p \in Seq(S) /\ DOMAIN p = DOMAIN q /\ Len(p) = Len(q)
  BY SMTT(30), SMTT(60)

\* What the types say of the members.
LEMMA Members ==
  ASSUME SchedulerType
  PROVE  /\ \A s \in DOMAIN slots : slots[s] \in Slot /\ s \in Nat
         /\ \A t \in Task : idOf[t] \in Id /\ work[t] \in Work /\ t \in Nat
         /\ \A i \in DOMAIN frames : frames[i] \in RunState
         /\ \A i \in DOMAIN queue : queue[i] \in Id
         /\ Task = DOMAIN idOf /\ Task = DOMAIN work /\ Len(idOf) \in Nat
<1>1. /\ slots \in Seq(Slot) /\ idOf \in Seq(Id) /\ work \in Seq(Work) /\ Len(work) = Len(idOf)
      /\ frames \in Seq(RunState) /\ queue \in Seq(Id)
  BY Zenon DEF SchedulerType
<1>2. /\ Len(slots) \in Nat /\ DOMAIN slots = 1..Len(slots) /\ \A i \in DOMAIN slots : slots[i] \in Slot
  BY Zenon, <1>1, SeqFacts
<1>3. /\ Len(idOf) \in Nat /\ DOMAIN idOf = 1..Len(idOf) /\ \A i \in DOMAIN idOf : idOf[i] \in Id
  BY Zenon, <1>1, SeqFacts
<1>4. /\ DOMAIN work = 1..Len(work) /\ \A i \in DOMAIN work : work[i] \in Work
  BY Zenon, <1>1, SeqFacts
<1>5. /\ \A i \in DOMAIN frames : frames[i] \in RunState
      /\ \A i \in DOMAIN queue : queue[i] \in Id
  BY Zenon, <1>1, SeqFacts
<1>6. Task = DOMAIN idOf /\ Task = DOMAIN work /\ \A t \in Task : t \in Nat
  BY <1>1, <1>3, <1>4 DEF Task
<1>7. \A s \in DOMAIN slots : s \in Nat
  BY <1>2
<1> QED
  BY Zenon, <1>2, <1>3, <1>4, <1>5, <1>6, <1>7

\* A task whose id has its slot's generation is the slot's task.
LEMMA Occupant ==
  ASSUME SchedulerType, TableInv, NEW t \in Task, NEW s \in DOMAIN slots,
         idOf[t].slot = s, idOf[t].gen = slots[s].gen
  PROVE  slots[s].task = t
<1>1. idOf[t] = [slot |-> s, gen |-> slots[s].gen]
  BY Zenon, Members DEF Id
<1> QED
  BY <1>1 DEF TableInv

\* The task being polled, or dropped, is alive with its future out, and has the
\* id that was popped.
LEMMA PolledFacts ==
  ASSUME SchedulerInv, At("poll") \/ At("drop")
  PROVE  /\ frames # <<>> /\ Len(frames) \in DOMAIN frames
         /\ Top.id \in Id /\ Top.id.slot \in DOMAIN slots
         /\ Current(Top.id) /\ slots[Top.id.slot].fut = "taken"
         /\ Polled \in Task /\ idOf[Polled] = Top.id
<1>0. frames # <<>> /\ frames \in Seq(RunState)
  BY Zenon DEF At, SchedulerInv, SchedulerType
<1>1. /\ frames # <<>> /\ Len(frames) \in DOMAIN frames /\ Top.at # "pop"
      /\ Top = frames[Len(frames)] /\ Top.id \in Id
  <2>1. Len(frames) \in DOMAIN frames
    BY <1>0
  <2>2. frames[Len(frames)] \in RunState
    BY Zenon, <2>1, Members DEF SchedulerInv
  <2> QED
    BY Zenon, <1>0, <2>1, <2>2 DEF At, Top, RunState
<1>2. Current(Top.id) /\ slots[Top.id.slot].fut = "taken"
  BY Zenon, <1>1 DEF SchedulerInv, FrameInv
<1>3. Top.id.slot \in DOMAIN slots /\ slots[Top.id.slot].gen = Top.id.gen
  BY Zenon, <1>2 DEF Current
<1>4. Polled \in Task /\ idOf[Polled] = [slot |-> Top.id.slot, gen |-> Top.id.gen]
  BY Zenon, <1>3 DEF SchedulerInv, TableInv, Polled
<1> QED
  BY Zenon, <1>1, <1>2, <1>3, <1>4 DEF Id

\* Nothing has happened at first.
LEMMA InitScheduler == Init => SchedulerInv
<1> SUFFICES ASSUME Init PROVE SchedulerInv
  BY Zenon
<1>1. SchedulerType
  BY DEF Init, SchedulerType, Task
<1> QED
  BY <1>1 DEF Init, SchedulerInv, TableInv, FrameInv, WorkInv, WakeInv, NoLostWake,
                    DriverIsDriven, Task

-----------------------------------------------------------------------------
(* add *)

\* What add does: the new id is unlike every other, and its slot, if it is not
\* new, was free.
Added(id, w) ==
  /\ id \in Id /\ w \in Work /\ (~w.driver => w.left = 0) /\ ~w.yielded
  /\ queue' = Append(queue, id) /\ idOf' = Append(idOf, id)
  /\ work' = Append(work, w) /\ woken' = woken \cup {Len(idOf) + 1}
  /\ slots' \in Seq(Slot) /\ DOMAIN slots' = DOMAIN slots \cup {id.slot}
  /\ slots'[id.slot] = NewSlot(id.gen)
  /\ \A s \in DOMAIN slots : s # id.slot => slots'[s] = slots[s]
  /\ id.slot \in DOMAIN slots => ~slots[id.slot].live /\ slots[id.slot].gen < id.gen
  /\ free' \in Seq(Nat) /\ DOMAIN free' \subseteq DOMAIN free
  /\ \A i \in DOMAIN free' : free'[i] = free[i] /\ free[i] # id.slot
  /\ Len(slots') + Len(free) = Len(slots) + Len(free') + 1

\* add reuses the slot freed last, or makes a new one; either way no slot is
\* lost.
LEMMA AddFacts ==
  ASSUME SchedulerInv, NEW w \in Works, add(w)
  PROVE  \E id \in Id : Added(id, w)
<1>0. w \in Work /\ (~w.driver => w.left = 0) /\ ~w.yielded
  <2>1. world.calls \in Nat
    BY Zenon, SchedulerAssumption DEF SchedulerInv, SchedulerType
  <2> QED
    <3>1. Plain \in Work /\ Plain.left = 0 /\ ~Plain.yielded
      BY Zenon DEF Plain, Work
    <3>2. \A n \in 1..world.calls : Driver(n) \in Work /\ Driver(n).driver /\ ~Driver(n).yielded
      BY <2>1 DEF Driver, Work
    <3> QED
      BY Zenon, <3>1, <3>2 DEF Works
<1>1. /\ slots \in Seq(Slot) /\ free \in Seq(Nat) /\ Len(idOf) + 1 \in Nat
      /\ \A s \in DOMAIN slots : slots[s] \in Slot
      /\ DOMAIN slots = 1..Len(slots) /\ Len(slots) \in Nat
      /\ DOMAIN free = 1..Len(free) /\ Len(free) \in Nat
  BY DEF SchedulerInv, SchedulerType
<1>3. CASE AddReusing(w)
  <2> DEFINE s == free[Len(free)]
             id == [slot |-> s, gen |-> slots[s].gen + 1]
  <2>1. /\ free # <<>> /\ Len(free) \in DOMAIN free /\ s \in DOMAIN slots /\ ~slots[s].live
        /\ \A i \in DOMAIN free : i # Len(free) => free[i] # s
    BY SMTT(30), SMTT(60), <1>1, <1>3 DEF AddReusing, SchedulerInv, TableInv
  <2>2. /\ free' = SubSeq(free, 1, Len(free) - 1)
        /\ slots' = [slots EXCEPT ![s] = NewSlot(slots[s].gen + 1)]
        /\ Enqueue(id, w)
    BY Zenon, <1>3 DEF AddReusing
  <2>3. /\ free' \in Seq(Nat) /\ Len(free') = Len(free) - 1 /\ DOMAIN free' = 1..(Len(free) - 1)
        /\ \A i \in DOMAIN free' : free'[i] = free[i]
    BY SMTT(30), SMTT(60), <1>1, <2>1, <2>2
  <2>4. id \in Id /\ NewSlot(slots[s].gen + 1) \in Slot /\ s \in Nat
    BY SMTT(30), SMTT(60), <1>1, <2>1 DEF Id, NewSlot, Slot
  <2>5. slots' \in Seq(Slot) /\ DOMAIN slots' = DOMAIN slots /\ Len(slots') = Len(slots)
    BY <1>1, <2>1, <2>2, <2>4
  <2>6. /\ slots'[s] = NewSlot(slots[s].gen + 1)
        /\ \A r \in DOMAIN slots : r # s => slots'[r] = slots[r]
    BY Zenon, <1>1, <2>1, <2>2
  <2>8. Added(id, w)
    <3>1. \A i \in DOMAIN free' : free[i] # s
      BY <1>1, <2>1, <2>3
    <3>2. slots[s].gen < id.gen
      BY <1>1, <2>1 DEF Slot
    <3>3. Len(slots') + Len(free) = Len(slots) + Len(free') + 1
      BY <1>1, <2>3, <2>5
    <3>4. /\ queue' = Append(queue, id) /\ idOf' = Append(idOf, id)
          /\ work' = Append(work, w) /\ woken' = woken \cup {Len(idOf) + 1}
      BY Zenon, <2>2 DEF Enqueue
    <3>5. id.slot = s /\ id.gen = slots[s].gen + 1 /\ DOMAIN slots' = DOMAIN slots \cup {s}
      BY Zenon, <2>1, <2>5
    <3>6. DOMAIN free' \subseteq DOMAIN free
      BY <1>1, <2>3
    <3> HIDE DEF s, id
    <3> QED
      BY ZenonT(40), <1>0, <2>1, <2>3, <2>4, <2>5, <2>6, <3>1, <3>2, <3>3, <3>4, <3>5, <3>6 DEF Added
  <2> QED
    BY Zenon, <2>4, <2>8
<1>4. CASE AddGrowing(w)
  <2> DEFINE n == Len(slots) + 1
             id == [slot |-> n, gen |-> 0]
  <2>1. free = <<>> /\ free' = free /\ slots' = Append(slots, NewSlot(0)) /\ Enqueue(id, w)
    BY Zenon, <1>4 DEF AddGrowing
  <2>2. id \in Id /\ NewSlot(0) \in Slot /\ n \notin DOMAIN slots
    BY <1>1 DEF Id, NewSlot, Slot
  <2>3. /\ slots' \in Seq(Slot) /\ Len(slots') = n /\ DOMAIN slots' = DOMAIN slots \cup {n}
        /\ slots'[n] = NewSlot(0) /\ \A r \in DOMAIN slots : slots'[r] = slots[r]
    BY SMTT(30), SMTT(60), <1>1, <2>1, <2>2
  <2>5. Added(id, w)
    BY SMTT(30), SMTT(60), <1>0, <1>1, <2>1, <2>2, <2>3 DEF Added, Enqueue
  <2> QED
    BY Zenon, <2>2, <2>5
<1> QED
  BY Zenon, <1>3, <1>4 DEF add

\* The tasks that were there keep their ids and their kind.
LEMMA AddedTasks ==
  ASSUME SchedulerInv, NEW id \in Id, NEW w, Added(id, w)
  PROVE  LET n == Len(idOf) + 1 IN
         /\ n \notin Task /\ Task' = Task \cup {n}
         /\ idOf'[n] = id /\ work'[n] = w
         /\ \A t \in Task : idOf'[t] = idOf[t] /\ work'[t] = work[t]
         /\ idOf' \in Seq(Id) /\ work' \in Seq(Work) /\ Len(work') = Len(idOf')
         /\ queue' \in Seq(Id) /\ queue'[Len(queue')] = id /\ Len(queue') \in DOMAIN queue'
         /\ \A i \in DOMAIN queue : i \in DOMAIN queue' /\ queue'[i] = queue[i]
<1>1. idOf \in Seq(Id) /\ work \in Seq(Work) /\ Len(work) = Len(idOf) /\ queue \in Seq(Id) /\ w \in Work
  BY Zenon DEF SchedulerInv, SchedulerType, Added
<1>2. queue' = Append(queue, id) /\ idOf' = Append(idOf, id) /\ work' = Append(work, w)
  BY Zenon DEF Added
<1> QED
  BY <1>1, <1>2 DEF Task

\* The tasks that were alive still are, in the same slots, and those that were
\* not are not.
LEMMA AddedCurrent ==
  ASSUME SchedulerInv, NEW id \in Id, NEW w, Added(id, w)
  PROVE  /\ Current(id)'
         /\ \A e \in Id : Current(e) =>
              Current(e)' /\ slots'[e.slot] = slots[e.slot] /\ e.slot # id.slot
         /\ \A e \in Id : \A t \in Task : e = idOf[t] /\ Current(e)' => Current(e)
<1>1. \A t \in Task : idOf[t].slot \in DOMAIN slots /\ idOf[t].gen <= slots[idOf[t].slot].gen
  BY Zenon DEF SchedulerInv, TableInv
<1>2. \A s \in DOMAIN slots : slots[s].gen \in Nat
  BY Zenon, Members DEF SchedulerInv, Slot
<1>3. /\ DOMAIN slots' = DOMAIN slots \cup {id.slot} /\ slots'[id.slot] = NewSlot(id.gen)
      /\ \A s \in DOMAIN slots : s # id.slot => slots'[s] = slots[s]
      /\ id.slot \in DOMAIN slots => ~slots[id.slot].live /\ slots[id.slot].gen < id.gen
  BY Zenon DEF Added
<1>4. Current(id)'
  BY <1>3 DEF Current, NewSlot
<1>5. ASSUME NEW e \in Id, Current(e)
      PROVE Current(e)' /\ slots'[e.slot] = slots[e.slot] /\ e.slot # id.slot
  BY Zenon, <1>3, <1>5 DEF Current
<1>6. ASSUME NEW e \in Id, NEW t \in Task, e = idOf[t], Current(e)' PROVE Current(e)
  <2>1. CASE e.slot = id.slot
    <3>1. slots'[id.slot].gen = id.gen
      BY <1>3 DEF NewSlot
    <3>2. e.gen = id.gen /\ e.slot \in DOMAIN slots /\ e.gen <= slots[id.slot].gen
      BY Zenon, <1>1, <1>6, <2>1, <3>1 DEF Current
    <3> QED
      BY SMTT(30), SMTT(60), <1>2, <1>3, <2>1, <3>2 DEF Id
  <2>2. CASE e.slot # id.slot
    BY Zenon, <1>1, <1>3, <1>6, <2>2 DEF Current
  <2> QED
    BY Zenon, <2>1, <2>2
<1> QED
  BY Zenon, <1>4, <1>5, <1>6

\* add keeps the table in order.
LEMMA AddedTable ==
  ASSUME SchedulerInv, NEW id \in Id, NEW w, Added(id, w)
  PROVE  TableInv' /\ WorkInv'
<1> DEFINE n == Len(idOf) + 1
<1>1. /\ n \notin Task /\ Task' = Task \cup {n} /\ idOf'[n] = id /\ work'[n] = w
      /\ \A t \in Task : idOf'[t] = idOf[t] /\ work'[t] = work[t]
  BY Zenon, AddedTasks
<1>2. /\ DOMAIN slots' = DOMAIN slots \cup {id.slot} /\ slots'[id.slot] = NewSlot(id.gen)
      /\ \A s \in DOMAIN slots : s # id.slot => slots'[s] = slots[s]
      /\ id.slot \in DOMAIN slots => ~slots[id.slot].live /\ slots[id.slot].gen < id.gen
      /\ DOMAIN free' \subseteq DOMAIN free
      /\ \A i \in DOMAIN free' : free'[i] = free[i] /\ free[i] # id.slot
  BY Zenon DEF Added
<1>3. NewSlot(id.gen) = [gen |-> id.gen, live |-> TRUE, fut |-> "in", task |-> n]
  BY Zenon DEF NewSlot
<1>4. TableInv
  BY Zenon DEF SchedulerInv
<1>5. \A s \in DOMAIN slots : slots[s].gen \in Nat
  BY Zenon, Members DEF SchedulerInv, Slot
<1> HIDE DEF n
<1>6. ASSUME NEW s \in DOMAIN slots'
      PROVE /\ slots'[s].task \in Task' /\ idOf'[slots'[s].task] = [slot |-> s, gen |-> slots'[s].gen]
            /\ slots'[s].live => slots'[s].fut # "none"
  <2>1. CASE s = id.slot
    BY SMTT(30), SMTT(60), <1>1, <1>2, <1>3, <2>1 DEF Id
  <2>2. CASE s # id.slot
    BY <1>1, <1>2, <1>4, <2>2 DEF TableInv
  <2> QED
    BY Zenon, <2>1, <2>2
<1>7. ASSUME NEW t \in Task'
      PROVE idOf'[t].slot \in DOMAIN slots' /\ idOf'[t].gen <= slots'[idOf'[t].slot].gen
  <2>1. CASE t = n
    BY SMTT(30), SMTT(60), <1>1, <1>2, <1>3, <2>1 DEF Id
  <2>2. CASE t \in Task
    <3>1. /\ idOf'[t] = idOf[t] /\ idOf[t].slot \in DOMAIN slots /\ idOf[t].gen <= slots[idOf[t].slot].gen
          /\ idOf[t].gen \in Nat
      BY Zenon, <1>1, <1>4, <2>2, Members DEF TableInv, SchedulerInv, Id
    <3> QED
      BY SMTT(30), SMTT(60), <1>2, <1>3, <1>5, <3>1 DEF Id
  <2> QED
    BY Zenon, <1>1, <2>1, <2>2
<1>8. \A t \in Task : idOf[t] # id
  BY SMTT(30), SMTT(60), <1>2, <1>4, <1>5 DEF TableInv, Id
<1>9. \A r, t \in Task' : idOf'[r] = idOf'[t] => r = t
  BY SMTT(30), SMTT(60), <1>1, <1>4, <1>8 DEF TableInv
<1>10. /\ \A i \in DOMAIN free' : free'[i] \in DOMAIN slots' /\ ~slots'[free'[i]].live
       /\ \A i, j \in DOMAIN free' : free'[i] = free'[j] => i = j
  BY SMTT(30), SMTT(60), <1>2, <1>4 DEF TableInv
<1>11. TableInv'
  BY ZenonT(40), <1>6, <1>7, <1>9, <1>10 DEF TableInv
<1>12. WorkInv'
  <2>1. w \in Work /\ (~w.driver => w.left = 0) /\ ~w.yielded
    BY Zenon DEF Added
  <2>2. WorkInv /\ \A t \in Task : work[t] \in Work
    BY Zenon, Members DEF SchedulerInv
  <2>3. ASSUME NEW t \in Task'
        PROVE /\ ~work'[t].driver => work'[t].left = 0 /\ ~work'[t].yielded
              /\ work'[t].yielded => work'[t].left > 0
    BY Zenon, <1>1, <2>1, <2>2 DEF WorkInv, IsDriver
  <2> QED
    BY Zenon, <2>3 DEF WorkInv, IsDriver
<1> QED
  BY Zenon, <1>11, <1>12

\* The new task is woken; the others keep what they had.
LEMMA AddedWakes ==
  ASSUME SchedulerInv, NEW id \in Id, NEW w, Added(id, w), UNCHANGED <<skipped, abandoned>>
  PROVE  /\ NoLostWake' /\ DriverIsDriven'
         /\ \A t \in woken' : Current(idOf[t])'
         /\ \A t \in skipped' : ~IsDriver(t)'
<1> DEFINE n == Len(idOf) + 1
<1>1. /\ n \notin Task /\ Task' = Task \cup {n} /\ idOf'[n] = id /\ work'[n] = w
      /\ \A t \in Task : idOf'[t] = idOf[t] /\ work'[t] = work[t] /\ idOf[t] \in Id
      /\ queue'[Len(queue')] = id /\ Len(queue') \in DOMAIN queue'
      /\ \A i \in DOMAIN queue : i \in DOMAIN queue' /\ queue'[i] = queue[i]
  BY Zenon, AddedTasks, Members DEF SchedulerInv
<1>2. woken' = woken \cup {n}
  BY Zenon DEF Added
<1>3. woken \subseteq Task /\ skipped \subseteq Task /\ abandoned \subseteq Task
  BY Zenon DEF SchedulerInv, SchedulerType
<1> HIDE DEF n
<1>4. NoLostWake'
  BY <1>1, <1>2, <1>3 DEF SchedulerInv, NoLostWake
<1>5. DriverIsDriven' /\ \A t \in skipped' : ~IsDriver(t)'
  BY Zenon, <1>1, <1>3 DEF SchedulerInv, WakeInv, DriverIsDriven, IsDriver
<1>6. ASSUME NEW t \in woken' PROVE Current(idOf[t])'
  <2>1. CASE t = n
    BY SMTT(30), SMTT(60), <1>1, <2>1, AddedCurrent DEF Current
  <2>2. CASE t \in woken
    <3>1. Current(idOf[t])
      BY Zenon, <2>2 DEF SchedulerInv, WakeInv
    <3>2. idOf'[t] = idOf[t] /\ idOf[t] \in Id
      BY Zenon, <1>1, <1>3, <2>2
    <3> QED
      BY <3>1, <3>2, AddedCurrent DEF Current
  <2> QED
    BY Zenon, <1>2, <2>1, <2>2
<1> QED
  BY Zenon, <1>4, <1>5, <1>6

\* add, called outside run or by a task, keeps the invariant.
LEMMA AddKeeps ==
  ASSUME SchedulerInv, Add
  PROVE  SchedulerInv'
<1>1. PICK w \in Works : add(w)
  BY Zenon DEF Add
<1>2. \E id \in Id : Added(id, w)
  BY Zenon, <1>1, AddFacts
<1>3. PICK id \in Id : Added(id, w)
  BY Zenon, <1>2
<1>4. UNCHANGED <<world, frames, wakers, skipped, abandoned>>
  BY Zenon DEF Add
<1> DEFINE n == Len(idOf) + 1
<1>5. /\ n \notin Task /\ Task' = Task \cup {n} /\ idOf'[n] = id /\ work'[n] = w
      /\ \A t \in Task : idOf'[t] = idOf[t] /\ work'[t] = work[t] /\ idOf[t] \in Id
      /\ idOf' \in Seq(Id) /\ work' \in Seq(Work) /\ Len(work') = Len(idOf') /\ queue' \in Seq(Id)
  BY Zenon, <1>3, AddedTasks, Members DEF SchedulerInv
<1>6. woken' = woken \cup {n} /\ slots' \in Seq(Slot) /\ free' \in Seq(Nat)
      /\ DOMAIN slots' = DOMAIN slots \cup {id.slot} /\ slots'[id.slot] = NewSlot(id.gen)
      /\ \A s \in DOMAIN slots : s # id.slot => slots'[s] = slots[s]
  BY Zenon, <1>3 DEF Added
<1> HIDE DEF n
<1>7. SchedulerType'
  BY Zenon, <1>4, <1>5, <1>6 DEF SchedulerInv, SchedulerType
<1>8. /\ \A e \in Id : Current(e) => Current(e)' /\ slots'[e.slot] = slots[e.slot] /\ e.slot # id.slot
      /\ \A e \in Id : \A t \in Task : e = idOf[t] /\ Current(e)' => Current(e)
  BY Zenon, <1>3, AddedCurrent
<1>9. FrameInv'
  <2>1. \A i \in DOMAIN frames : frames[i].id \in Id
    BY Zenon, Members DEF SchedulerInv, RunState
  <2>2. ASSUME NEW i \in DOMAIN frames
        PROVE /\ frames[i].at = "pop" => i = Len(frames) /\ frames[i].id = NoId
              /\ frames[i].at # "pop" =>
                   Current(frames[i].id)' /\ slots'[frames[i].id.slot].fut = "taken"
              /\ frames[i].root # NoRoot => i = 1 /\ frames[i].root \in Task'
              /\ i # Len(frames) => ~IsDriver(slots[frames[i].id.slot].task)'
    <3>1. /\ frames[i].at = "pop" => i = Len(frames) /\ frames[i].id = NoId
          /\ frames[i].root # NoRoot => i = 1 /\ frames[i].root \in Task'
      BY Zenon, <1>5 DEF SchedulerInv, FrameInv
    <3>2. CASE frames[i].at # "pop"
      <4>1. Current(frames[i].id) /\ slots[frames[i].id.slot].fut = "taken"
        BY Zenon, <3>2 DEF SchedulerInv, FrameInv
      <4>2. slots'[frames[i].id.slot] = slots[frames[i].id.slot]
        BY Zenon, <1>8, <2>1, <4>1
      <4>3. Current(frames[i].id)'
        BY ZenonT(40), <1>4, <1>8, <2>1, <4>1 DEF Current
      <4>4. slots[frames[i].id.slot].task \in Task
        BY ZenonT(40), <4>1 DEF Current, SchedulerInv, TableInv
      <4>5. i # Len(frames) => ~IsDriver(slots[frames[i].id.slot].task)'
        BY SMTT(30), SMTT(60), <1>4, <1>5, <4>2, <4>4 DEF SchedulerInv, FrameInv, IsDriver
      <4> QED
        BY Zenon, <3>1, <4>1, <4>2, <4>3, <4>5
    <3>3. CASE frames[i].at = "pop"
      BY Zenon, <3>1, <3>3
    <3> QED
      BY Zenon, <3>2, <3>3
  <2>3. \A i, j \in DOMAIN frames : \A s \in DOMAIN slots' : Holds(i, s) /\ Holds(j, s) => i = j
    <3>1. \A i \in DOMAIN frames : \A s \in DOMAIN slots' : Holds(i, s) => s \in DOMAIN slots
      BY SMTT(30), SMTT(60), <2>1 DEF SchedulerInv, FrameInv, Holds, Current
    <3> QED
      BY ZenonT(40), <3>1 DEF SchedulerInv, FrameInv
  <2>4. \A s \in DOMAIN slots' : slots'[s].fut = "taken" => \E i \in DOMAIN frames : Holds(i, s)
    BY <1>6 DEF SchedulerInv, FrameInv, NewSlot
  <2> QED
    BY SMTT(30), SMTT(60), <1>4, <2>2, <2>3, <2>4 DEF FrameInv, Holds
<1>10. ASSUME NEW t \in Task', IsDriver(t)', Current(idOf[t])'
       PROVE t \in woken' \/ \E i \in DOMAIN frames' : Holds(i, idOf[t].slot)'
  <2>1. CASE t = n
    BY Zenon, <1>6, <2>1
  <2>2. CASE t \in Task
    <3>1. IsDriver(t) /\ Current(idOf[t]) /\ idOf'[t] = idOf[t]
      BY SMTT(30), SMTT(60), <1>5, <1>8, <1>10, <2>2 DEF IsDriver, Current
    <3> QED
      BY Zenon, <1>4, <1>6, <2>2, <3>1 DEF SchedulerInv, WakeInv, Holds
  <2> QED
    BY Zenon, <1>5, <2>1, <2>2
<1>11. WakeInv' /\ NoLostWake' /\ DriverIsDriven'
  BY Zenon, <1>3, <1>4, <1>10, AddedWakes DEF WakeInv
<1>12. TableInv' /\ WorkInv'
  BY Zenon, <1>3, AddedTable
<1> QED
  BY Zenon, <1>2, <1>7, <1>9, <1>11, <1>12 DEF SchedulerInv

-----------------------------------------------------------------------------
(* run, block_on, and their returns *)

\* block_on adds its root and starts a run with nothing inside it.
LEMMA BlockOnKeeps ==
  ASSUME SchedulerInv, BlockOn
  PROVE  SchedulerInv'
<1>1. PICK w \in Works : add(w)
  BY Zenon DEF BlockOn
<1>2. \E id \in Id : Added(id, w)
  BY Zenon, <1>1, AddFacts
<1>3. PICK id \in Id : Added(id, w)
  BY Zenon, <1>2
<1> DEFINE n == Len(idOf) + 1
<1>4. /\ UNCHANGED <<world, wakers, skipped, abandoned>> /\ frames = <<>>
      /\ frames' = <<[at |-> "pop", id |-> NoId, root |-> n]>>
  BY Zenon DEF BlockOn, Frame
<1>5. /\ n \notin Task /\ Task' = Task \cup {n} /\ idOf'[n] = id /\ work'[n] = w
      /\ \A t \in Task : idOf'[t] = idOf[t] /\ work'[t] = work[t] /\ idOf[t] \in Id
      /\ idOf' \in Seq(Id) /\ work' \in Seq(Work) /\ Len(work') = Len(idOf') /\ queue' \in Seq(Id)
      /\ n \in Nat
  BY SMTT(30), SMTT(60), <1>3, AddedTasks, Members DEF SchedulerInv
<1>6. woken' = woken \cup {n} /\ slots' \in Seq(Slot) /\ free' \in Seq(Nat)
      /\ DOMAIN slots' = DOMAIN slots \cup {id.slot} /\ slots'[id.slot] = NewSlot(id.gen)
      /\ \A s \in DOMAIN slots : s # id.slot => slots'[s] = slots[s]
  BY Zenon, <1>3 DEF Added
<1> HIDE DEF n
<1>7. /\ frames' \in Seq(RunState)
      /\ DOMAIN frames' = {1} /\ Len(frames') = 1
      /\ frames'[1] = [at |-> "pop", id |-> NoId, root |-> n]
  BY <1>4, <1>5 DEF NoId, Id, RunState
<1>8. SchedulerType'
  BY ZenonT(40), <1>4, <1>5, <1>6, <1>7 DEF SchedulerInv, SchedulerType
<1>9. FrameInv'
  <2>1. \A s \in DOMAIN slots' : slots'[s].fut # "taken"
    BY <1>4, <1>6 DEF SchedulerInv, FrameInv, NewSlot
  <2> QED
    BY SMTT(30), SMTT(60), <1>5, <1>7, <2>1 DEF FrameInv, Holds
<1>10. ASSUME NEW t \in Task', IsDriver(t)', Current(idOf[t])'
       PROVE t \in woken'
  <2>1. CASE t = n
    BY Zenon, <1>6, <2>1
  <2>2. CASE t \in Task
    <3>0. \A e \in Id : e = idOf[t] /\ Current(e)' => Current(e)
      BY Zenon, <1>3, <2>2, AddedCurrent
    <3>1. IsDriver(t) /\ Current(idOf[t])
      BY Zenon, <1>5, <1>10, <2>2, <3>0 DEF IsDriver, Current
    <3> QED
      BY SMTT(30), SMTT(60), <1>4, <1>6, <2>2, <3>1 DEF SchedulerInv, WakeInv
  <2> QED
    BY Zenon, <1>5, <2>1, <2>2
<1>11. WakeInv' /\ NoLostWake' /\ DriverIsDriven'
  BY ZenonT(40), <1>3, <1>4, <1>10, AddedWakes DEF WakeInv
<1>12. TableInv' /\ WorkInv'
  BY Zenon, <1>3, AddedTable
<1> QED
  BY Zenon, <1>2, <1>8, <1>9, <1>11, <1>12 DEF SchedulerInv

\* What an action that leaves the tasks and the table alone need not look at.
LEMMA TableFrame ==
  ASSUME SchedulerInv, UNCHANGED <<world, slots, free, idOf, work, skipped, abandoned>>
  PROVE  /\ TableInv' /\ WorkInv' /\ DriverIsDriven' /\ Task' = Task
         /\ \A t \in skipped' : ~IsDriver(t)'
  BY ZenonT(40) DEF SchedulerInv, TableInv, WorkInv, DriverIsDriven, WakeInv, IsDriver, Task

\* What an action that leaves the table and the runs alone need not look at.
LEMMA FramesFrame ==
  ASSUME SchedulerInv, UNCHANGED <<slots, free, frames, idOf>>,
         \A t \in Task : IsDriver(t)' <=> IsDriver(t)
  PROVE  /\ TableInv' /\ FrameInv' /\ Task' = Task
         /\ \A e : Current(e)' <=> Current(e)
         /\ \A i, s : Holds(i, s)' <=> Holds(i, s)
<1>1. TableInv' /\ Task' = Task
  BY Zenon DEF SchedulerInv, TableInv, Task
<1>2. \A e : Current(e)' <=> Current(e)
  BY Zenon DEF Current
<1>3. \A i, s : Holds(i, s)' <=> Holds(i, s)
  BY Zenon DEF Holds
<1>4. \A i \in DOMAIN frames : frames[i].at # "pop" => Current(frames[i].id)'
  BY Zenon DEF SchedulerInv, FrameInv, Current
<1>5. \A i \in DOMAIN frames :
        i # Len(frames) => ~IsDriver(slots[frames[i].id.slot].task)'
  <2> SUFFICES ASSUME NEW i \in DOMAIN frames, i # Len(frames)
               PROVE ~IsDriver(slots[frames[i].id.slot].task)'
    BY Zenon
  <2>1. Current(frames[i].id) /\ ~IsDriver(slots[frames[i].id.slot].task)
    BY Zenon DEF SchedulerInv, FrameInv
  <2>2. slots[frames[i].id.slot].task \in Task
    BY Zenon, <2>1 DEF Current, SchedulerInv, TableInv
  <2> QED
    BY Zenon, <2>1, <2>2 DEF IsDriver
<1>6. FrameInv'
  BY <1>1, <1>3, <1>4, <1>5 DEF SchedulerInv, FrameInv
<1> QED
  BY Zenon, <1>1, <1>2, <1>3, <1>6

\* run, from outside or from inside a plain task, begins by popping.
LEMMA RunKeeps ==
  ASSUME SchedulerInv, Run
  PROVE  SchedulerInv'
<1>1. /\ UNCHANGED <<world, slots, free, queue, wakers, idOf, work, woken, skipped, abandoned>>
      /\ frames' = Append(frames, Frame(NoRoot)) /\ Acting
  BY Zenon DEF Run, table, history
<1> DEFINE L == Len(frames)
<1>2. frames \in Seq(RunState) /\ Frame(NoRoot) \in RunState /\ L \in Nat /\ DOMAIN frames = 1..L
  BY DEF SchedulerInv, SchedulerType, Frame, NoRoot, NoId, Id, RunState
<1>3. /\ frames' \in Seq(RunState) /\ Len(frames') = L + 1 /\ DOMAIN frames' = 1..(L + 1)
      /\ frames'[L + 1] = Frame(NoRoot) /\ \A i \in 1..L : frames'[i] = frames[i]
  BY SMTT(30), SMTT(60), <1>1, <1>2
<1>4. L # 0 => frames[L].at # "pop" /\ ~IsDriver(slots[frames[L].id.slot].task)
  BY SMTT(30), SMTT(60), <1>1, <1>2 DEF Acting, At, Top, Polled
<1> HIDE DEF L
<1>5. FrameInv'
  <2>1. ASSUME NEW i \in 1..L
        PROVE /\ frames[i].at # "pop" /\ Current(frames[i].id) /\ slots[frames[i].id.slot].fut = "taken"
              /\ frames[i].root # NoRoot => i = 1 /\ frames[i].root \in Task
              /\ ~IsDriver(slots[frames[i].id.slot].task)
    BY <1>2, <1>4 DEF SchedulerInv, FrameInv, L
  <2>2. \A i \in DOMAIN frames' : i = L + 1 \/ i \in 1..L
    BY SMTT(30), SMTT(60), <1>2, <1>3
  <2>3. ASSUME NEW i \in DOMAIN frames'
        PROVE /\ frames'[i].at = "pop" => i = Len(frames') /\ frames'[i].id = NoId
              /\ frames'[i].at # "pop" =>
                   Current(frames[i].id)' /\ slots'[frames'[i].id.slot].fut = "taken"
              /\ frames'[i].root # NoRoot => i = 1 /\ frames'[i].root \in Task'
              /\ i # Len(frames') => ~IsDriver(slots[frames[i].id.slot].task)'
    <3>1. CASE i = L + 1
      BY SMTT(30), SMTT(60), <1>3, <3>1 DEF Frame
    <3>2. CASE i \in 1..L
      BY ZenonT(40), <1>1, <1>3, <2>1, <3>2 DEF Current, IsDriver, Task
    <3> QED
      BY ZenonT(40), <2>2, <3>1, <3>2
  <2>4. \A i \in DOMAIN frames', s \in DOMAIN slots : Holds(i, s)' <=> i \in 1..L /\ Holds(i, s)
    BY SMTT(30), SMTT(60), <1>2, <1>3, <2>2 DEF Holds, Frame
  <2>5. /\ \A i, j \in DOMAIN frames' : \A s \in DOMAIN slots' : Holds(i, s)' /\ Holds(j, s)' => i = j
        /\ \A s \in DOMAIN slots' : slots'[s].fut = "taken" => \E i \in DOMAIN frames' : Holds(i, s)'
    BY SMTT(30), SMTT(60), <1>1, <1>2, <1>3, <2>4 DEF SchedulerInv, FrameInv
  <2> QED
    BY ZenonT(40), <2>3, <2>5 DEF FrameInv
<1>6. WakeInv' /\ NoLostWake'
  <2>1. \A i \in DOMAIN frames : i \in DOMAIN frames' /\ frames'[i] = frames[i]
    BY SMTT(30), SMTT(60), <1>2, <1>3
  <2>2. \A t \in woken' : Current(idOf[t])'
    BY Zenon, <1>1 DEF SchedulerInv, WakeInv, Current
  <2>3. \A t \in Task' : IsDriver(t)' /\ Current(idOf[t])' =>
          t \in woken' \/ \E i \in DOMAIN frames' : Holds(i, idOf[t].slot)'
    BY SMTT(30), SMTT(60), <1>1, <2>1 DEF SchedulerInv, WakeInv, Current, IsDriver, Task, Holds
  <2> QED
    BY ZenonT(40), <1>1, <2>2, <2>3, TableFrame DEF WakeInv, NoLostWake, SchedulerInv
<1>7. SchedulerType'
  BY Zenon, <1>1, <1>3 DEF SchedulerInv, SchedulerType, Task
<1> QED
  BY Zenon, <1>1, <1>5, <1>6, <1>7, TableFrame DEF SchedulerInv

-----------------------------------------------------------------------------
(* Slots change *)

\* Taking a future out of its slot, or putting it back, changes who is alive
\* in no way.
LEMMA FutureMoved ==
  ASSUME SchedulerInv, NEW r \in DOMAIN slots, slots[r].live, NEW where \in {"in", "taken"},
         slots' = [slots EXCEPT ![r].fut = where], UNCHANGED <<free, idOf>>
  PROVE  /\ TableInv' /\ slots' \in Seq(Slot) /\ DOMAIN slots' = DOMAIN slots
         /\ Len(slots') = Len(slots)
         /\ \A s \in DOMAIN slots :
              /\ slots'[s].live = slots[s].live /\ slots'[s].gen = slots[s].gen
              /\ slots'[s].task = slots[s].task
              /\ slots'[s].fut = IF s = r THEN where ELSE slots[s].fut
         /\ \A e : Current(e)' <=> Current(e)
<1>1. slots \in Seq(Slot) /\ \A s \in DOMAIN slots : slots[s] \in Slot
  BY Zenon, Members DEF SchedulerInv, SchedulerType
<1>2. slots[r] \in Slot /\ [slots[r] EXCEPT !.fut = where] \in Slot
  BY Zenon, <1>1 DEF Slot
<1>3. slots' \in Seq(Slot) /\ DOMAIN slots' = DOMAIN slots /\ Len(slots') = Len(slots)
  BY <1>1, <1>2
<1>4. \A s \in DOMAIN slots :
        /\ slots'[s].live = slots[s].live /\ slots'[s].gen = slots[s].gen
        /\ slots'[s].task = slots[s].task
        /\ slots'[s].fut = IF s = r THEN where ELSE slots[s].fut
  BY Zenon, <1>1, <1>2 DEF Slot
<1>5. TableInv'
  BY SMTT(30), SMTT(60), <1>3, <1>4 DEF SchedulerInv, TableInv, Task
<1>8. \A e : Current(e)' <=> Current(e)
  BY <1>3, <1>4 DEF Current
<1> QED
  BY Zenon, <1>3, <1>4, <1>5, <1>8

\* The slot of a finished task is free, and was not before.
LEMMA FinishedTable ==
  ASSUME SchedulerInv, NEW r \in DOMAIN slots, slots[r].live,
         slots' = [slots EXCEPT ![r].live = FALSE, ![r].fut = "none"],
         free' = Append(free, r), UNCHANGED idOf
  PROVE  /\ TableInv' /\ slots' \in Seq(Slot) /\ DOMAIN slots' = DOMAIN slots
         /\ Len(slots') = Len(slots)
         /\ slots'[r].fut = "none" /\ ~slots'[r].live
         /\ free' \in Seq(Nat) /\ Len(free') = Len(free) + 1
         /\ \A s \in DOMAIN slots : s # r => slots'[s] = slots[s]
         /\ \A e : Current(e)' <=> Current(e) /\ e.slot # r
<1> DEFINE new == [[slots[r] EXCEPT !.live = FALSE] EXCEPT !.fut = "none"]
<1>1. /\ slots \in Seq(Slot) /\ free \in Seq(Nat) /\ slots[r] \in Slot /\ r \in Nat
      /\ Len(slots) \in Nat /\ DOMAIN slots = 1..Len(slots)
  BY SMTT(30), SMTT(60), Members DEF SchedulerInv, SchedulerType
<1>2. /\ new \in Slot /\ new.live = FALSE /\ new.fut = "none"
      /\ new.gen = slots[r].gen /\ new.task = slots[r].task
  BY Zenon, <1>1 DEF Slot
<1>3. slots' = [slots EXCEPT ![r] = new]
  BY Zenon, <1>1
<1> HIDE DEF new
<1>4. slots' \in Seq(Slot) /\ DOMAIN slots' = DOMAIN slots /\ Len(slots') = Len(slots)
  <2>1. slots \in Seq(Slot) /\ new \in Slot
    BY Zenon, <1>1, <1>2
  <2>2. LET q == [slots EXCEPT ![r] = new] IN
        q \in Seq(Slot) /\ DOMAIN q = DOMAIN slots /\ Len(q) = Len(slots)
    BY <2>1, SeqUpdate
  <2> QED
    BY Zenon, <1>3, <2>2
<1>5. slots'[r] = new /\ \A s \in DOMAIN slots : s # r => slots'[s] = slots[s]
  BY Zenon, <1>1, <1>3
<1>6. /\ free' \in Seq(Nat) /\ Len(free') = Len(free) + 1 /\ DOMAIN free' = DOMAIN free \cup {Len(free) + 1}
      /\ free'[Len(free) + 1] = r /\ \A i \in DOMAIN free : free'[i] = free[i]
      /\ Len(free) \in Nat
  BY SMTT(30), SMTT(60), <1>1
<1>7. \A i \in DOMAIN free : free[i] # r
  BY Zenon DEF SchedulerInv, TableInv
<1>8. TableInv'
  <2>1. \A s \in DOMAIN slots' :
          /\ slots'[s].task \in Task /\ idOf[slots'[s].task] = [slot |-> s, gen |-> slots'[s].gen]
          /\ slots'[s].live => slots'[s].fut # "none"
    BY SMTT(30), SMTT(60), <1>2, <1>4, <1>5 DEF SchedulerInv, TableInv
  <2>2. \A t \in Task : idOf[t].slot \in DOMAIN slots' /\ idOf[t].gen <= slots'[idOf[t].slot].gen
    BY SMTT(30), SMTT(60), <1>2, <1>4, <1>5 DEF SchedulerInv, TableInv
  <2>3. \A i \in DOMAIN free' : free'[i] \in DOMAIN slots' /\ ~slots'[free'[i]].live
    BY SMTT(30), SMTT(60), <1>2, <1>4, <1>5, <1>6, <1>7 DEF SchedulerInv, TableInv
  <2>4. \A i, j \in DOMAIN free' : free'[i] = free'[j] => i = j
    BY <1>6, <1>7 DEF SchedulerInv, TableInv
  <2>5. \A s, t \in Task : idOf[s] = idOf[t] => s = t
    BY Zenon DEF SchedulerInv, TableInv
  <2> QED
    BY ZenonT(40), <2>1, <2>2, <2>3, <2>4, <2>5 DEF TableInv, Task
<1>10. \A e : Current(e)' <=> Current(e) /\ e.slot # r
  BY Zenon, <1>2, <1>4, <1>5 DEF Current
<1> QED
  BY ZenonT(40), <1>2, <1>4, <1>5, <1>6, <1>8, <1>10

-----------------------------------------------------------------------------
(* Pop *)

\* The id popped, and the queue without it.
LEMMA PoppedFacts ==
  ASSUME SchedulerInv, At("pop"), queue # <<>>
  PROVE  /\ Head(queue) \in Id /\ Tail(queue) \in Seq(Id)
         /\ \A i \in DOMAIN queue :
              queue[i] = Head(queue) \/ \E j \in DOMAIN Tail(queue) : Tail(queue)[j] = queue[i]
         /\ Len(frames) \in DOMAIN frames /\ frames[Len(frames)].at = "pop"
         /\ DOMAIN frames = 1..Len(frames) /\ Len(frames) \in Nat /\ frames \in Seq(RunState)
<1>1. queue \in Seq(Id) /\ frames \in Seq(RunState) /\ frames # <<>>
  BY Zenon DEF SchedulerInv, SchedulerType, At
<1>2. /\ Len(frames) \in DOMAIN frames /\ frames[Len(frames)].at = "pop"
      /\ DOMAIN frames = 1..Len(frames) /\ Len(frames) \in Nat
  BY <1>1 DEF At, Top
<1>3. Head(queue) \in Id /\ Tail(queue) \in Seq(Id) /\ Head(queue) = queue[1]
  BY <1>1
<1>4. /\ DOMAIN queue = 1..Len(queue) /\ Len(queue) \in Nat /\ DOMAIN Tail(queue) = 1..(Len(queue) - 1)
      /\ \A j \in 1..(Len(queue) - 1) : Tail(queue)[j] = queue[j + 1]
  BY <1>1
<1>5. ASSUME NEW i \in DOMAIN queue, i # 1
      PROVE \E j \in DOMAIN Tail(queue) : Tail(queue)[j] = queue[i]
  <2>1. i - 1 \in DOMAIN Tail(queue) /\ Tail(queue)[i - 1] = queue[i]
    BY <1>4, <1>5
  <2> QED
    BY Zenon, <2>1
<1> QED
  BY Zenon, <1>1, <1>2, <1>3, <1>5

\* The innermost run goes to another place: it alone changes.
LEMMA GoFacts ==
  ASSUME SchedulerInv, frames # <<>>, NEW what \in {"pop", "poll", "drop"}, NEW id \in Id, Go(what, id)
  PROVE  LET L == Len(frames) IN
         /\ frames' \in Seq(RunState) /\ DOMAIN frames' = DOMAIN frames /\ Len(frames') = L
         /\ L \in DOMAIN frames
         /\ frames'[L].at = what /\ frames'[L].id = id /\ frames'[L].root = frames[L].root
         /\ \A i \in DOMAIN frames : i # L => frames'[i] = frames[i]
<1> DEFINE L == Len(frames)
<1>1. frames \in Seq(RunState) /\ L \in DOMAIN frames /\ frames[L] \in RunState
  BY DEF SchedulerInv, SchedulerType
<1>2. /\ [frames[L] EXCEPT !.at = what] \in RunState
      /\ [[frames[L] EXCEPT !.at = what] EXCEPT !.id = id] \in RunState
  BY Zenon, <1>1 DEF RunState
<1>3. frames' = [frames EXCEPT ![L] = [[frames[L] EXCEPT !.at = what] EXCEPT !.id = id]]
  BY Zenon, <1>1 DEF Go
<1>4. /\ frames'[L] = [[frames[L] EXCEPT !.at = what] EXCEPT !.id = id]
      /\ frames' \in Seq(RunState) /\ DOMAIN frames' = DOMAIN frames /\ Len(frames') = L
      /\ \A i \in DOMAIN frames : i # L => frames'[i] = frames[i]
  BY <1>1, <1>2, <1>3
<1>5. frames'[L].at = what /\ frames'[L].id = id /\ frames'[L].root = frames[L].root
  BY Zenon, <1>1, <1>4 DEF RunState
<1> QED
  BY Zenon, <1>1, <1>4, <1>5

\* An id that is current is taken for its poll: the wake-up it stands for is
\* used up, and no other task has that id.
LEMMA TakeKeeps ==
  ASSUME SchedulerInv, At("pop"), queue # <<>>, queue' = Tail(queue),
         NEW id, id = Head(queue), Current(id), slots[id.slot].fut = "in", Take(id),
         UNCHANGED <<world, free, wakers, idOf, work, abandoned>>
  PROVE  SchedulerInv'
<1>0. PICK L, k : L = Len(frames) /\ k = slots[id.slot].task
  BY Zenon
<1>1. /\ id \in Id /\ Tail(queue) \in Seq(Id)
      /\ \A i \in DOMAIN queue :
           queue[i] = id \/ \E j \in DOMAIN Tail(queue) : Tail(queue)[j] = queue[i]
      /\ L \in DOMAIN frames /\ frames[L].at = "pop"
  BY Zenon, <1>0, PoppedFacts
<1>2. id.slot \in DOMAIN slots /\ slots[id.slot].live /\ slots[id.slot].gen = id.gen
  BY Zenon DEF Current
<1>3. k \in Task /\ idOf[k] = id
  BY SMTT(30), SMTT(60), <1>0, <1>1, <1>2 DEF SchedulerInv, TableInv, Id
<1>4. /\ slots' = [slots EXCEPT ![id.slot].fut = "taken"] /\ Go("poll", id)
      /\ woken' = woken \ {k} /\ skipped' = skipped \ {k}
  BY Zenon, <1>0 DEF Take
<1>5. /\ TableInv' /\ slots' \in Seq(Slot) /\ DOMAIN slots' = DOMAIN slots
      /\ \A s \in DOMAIN slots :
           /\ slots'[s].live = slots[s].live /\ slots'[s].gen = slots[s].gen
           /\ slots'[s].task = slots[s].task
           /\ slots'[s].fut = IF s = id.slot THEN "taken" ELSE slots[s].fut
      /\ \A e : Current(e)' <=> Current(e)
  BY Zenon, <1>2, <1>4, FutureMoved
<1>6. /\ frames' \in Seq(RunState) /\ DOMAIN frames' = DOMAIN frames /\ Len(frames') = L
      /\ frames'[L].at = "poll" /\ frames'[L].id = id /\ frames'[L].root = frames[L].root
      /\ \A i \in DOMAIN frames : i # L => frames'[i] = frames[i]
  BY Zenon, <1>0, <1>1, <1>4, GoFacts DEF At
<1>7. Task' = Task /\ \A t \in Task : (IsDriver(t)' <=> IsDriver(t)) /\ idOf'[t] = idOf[t]
  BY Zenon DEF Task, IsDriver
<1>8. SchedulerType'
  BY ZenonT(40), <1>1, <1>4, <1>5, <1>6, <1>7 DEF SchedulerInv, SchedulerType
<1>9. FrameInv'
  <2>1. \A i \in DOMAIN frames : i # L => frames[i].at # "pop" /\ Current(frames[i].id)
                                        /\ slots[frames[i].id.slot].fut = "taken"
                                        /\ frames[i].id.slot # id.slot
    BY Zenon, <1>0 DEF SchedulerInv, FrameInv
  <2>2. ASSUME NEW i \in DOMAIN frames'
        PROVE /\ frames'[i].at = "pop" => i = Len(frames') /\ frames'[i].id = NoId
              /\ frames'[i].at # "pop" =>
                   Current(frames[i].id)' /\ slots'[frames'[i].id.slot].fut = "taken"
              /\ frames'[i].root # NoRoot => i = 1 /\ frames'[i].root \in Task'
              /\ i # Len(frames') => ~IsDriver(slots[frames[i].id.slot].task)'
    <3>1. CASE i = L
      <4>1. Current(frames[i].id)'
        BY SMTT(30), SMTT(60), <1>5, <1>6, <3>1 DEF Current
      <4>2. frames[L].root # NoRoot => L = 1 /\ frames[L].root \in Task
        BY ZenonT(40), <1>1 DEF SchedulerInv, FrameInv
      <4> QED
        BY ZenonT(40), <1>2, <1>5, <1>6, <1>7, <3>1, <4>1, <4>2
    <3>2. CASE i # L
      <4>1. /\ i \in DOMAIN frames /\ frames'[i] = frames[i] /\ frames[i].id.slot \in DOMAIN slots
            /\ slots[frames[i].id.slot].task \in Task
        BY ZenonT(40), <1>6, <2>1, <3>2 DEF Current, SchedulerInv, TableInv
      <4>2. Current(frames[i].id)'
        BY SMTT(30), SMTT(60), <1>5, <2>1, <3>2, <4>1 DEF Current
      <4>3. ~IsDriver(slots[frames[i].id.slot].task)'
        BY SMTT(30), SMTT(60), <1>0, <1>5, <1>7, <3>2, <4>1 DEF SchedulerInv, FrameInv, IsDriver
      <4> QED
        BY SMTT(30), SMTT(60), <1>5, <1>7, <2>1, <3>2, <4>1, <4>2, <4>3 DEF SchedulerInv, FrameInv
    <3> QED
      BY Zenon, <3>1, <3>2
  <2>3. \A i \in DOMAIN frames : \A s \in DOMAIN slots :
          Holds(i, s)' <=> IF i = L THEN s = id.slot ELSE Holds(i, s)
    BY ZenonT(40), <1>6 DEF Holds
  <2>4. \A i, j \in DOMAIN frames' : \A s \in DOMAIN slots' : Holds(i, s)' /\ Holds(j, s)' => i = j
    BY SMTT(30), SMTT(60), <1>5, <1>6, <2>1, <2>3 DEF SchedulerInv, FrameInv, Holds
  <2>5. \A s \in DOMAIN slots' : slots'[s].fut = "taken" => \E i \in DOMAIN frames' : Holds(i, s)'
    <3> SUFFICES ASSUME NEW s \in DOMAIN slots, slots'[s].fut = "taken"
                 PROVE \E i \in DOMAIN frames : Holds(i, s)'
      BY Zenon, <1>5, <1>6
    <3>1. CASE s = id.slot
      BY Zenon, <1>1, <2>3, <3>1
    <3>2. CASE s # id.slot
      <4>1. PICK i \in DOMAIN frames : Holds(i, s)
        BY Zenon, <1>5, <3>2 DEF SchedulerInv, FrameInv
      <4>2. i # L
        BY Zenon, <1>1, <4>1 DEF Holds
      <4> QED
        BY ZenonT(40), <2>3, <4>1, <4>2
    <3> QED
      BY Zenon, <3>1, <3>2
  <2> QED
    BY Zenon, <2>2, <2>4, <2>5 DEF FrameInv
<1>10. WakeInv'
  <2>1. \A t \in woken' : Current(idOf[t])'
    BY <1>4, <1>5 DEF SchedulerInv, WakeInv, Current
  <2>2. \A t \in skipped' : ~IsDriver(t)'
    BY Zenon, <1>4 DEF SchedulerInv, WakeInv, IsDriver
  <2>3. ASSUME NEW t \in Task, IsDriver(t), Current(idOf[t]), t # k
        PROVE t \in woken' \/ \E i \in DOMAIN frames' : Holds(i, idOf[t].slot)'
    <3>1. t \in woken \/ \E i \in DOMAIN frames : Holds(i, idOf[t].slot)
      BY Zenon, <2>3 DEF SchedulerInv, WakeInv
    <3>2. \A i \in DOMAIN frames : Holds(i, idOf[t].slot) => Holds(i, idOf[t].slot)'
      BY Zenon, <1>1, <1>6 DEF Holds
    <3> QED
      BY Zenon, <1>4, <1>6, <2>3, <3>1, <3>2
  <2>4. Holds(L, idOf[k].slot)'
    BY Zenon, <1>3, <1>6 DEF Holds
  <2> QED
    <3>1. ASSUME NEW t \in Task', IsDriver(t)', Current(idOf[t])'
          PROVE t \in woken' \/ \E i \in DOMAIN frames' : Holds(i, idOf[t].slot)'
      <4>1. t \in Task /\ IsDriver(t) /\ Current(idOf[t])
        BY Zenon, <1>5, <1>7, <3>1 DEF Current
      <4>2. L \in DOMAIN frames'
        BY ZenonT(40), <1>1, <1>6
      <4> QED
        BY ZenonT(40), <2>3, <2>4, <4>1, <4>2
    <3> QED
      BY Zenon, <2>1, <2>2, <3>1 DEF WakeInv
<1>11. NoLostWake'
  <2>1. ASSUME NEW t \in woken, t # k, t \notin skipped
        PROVE \E i \in DOMAIN queue' : queue'[i] = idOf[t]
    <3>1. t \in Task /\ idOf[t] # id
      BY SMTT(30), SMTT(60), <1>3, <2>1 DEF SchedulerInv, SchedulerType, TableInv
    <3>2. PICK i \in DOMAIN queue : queue[i] = idOf[t]
      BY Zenon, <2>1 DEF SchedulerInv, NoLostWake
    <3> QED
      BY ZenonT(40), <1>1, <3>1, <3>2
  <2> QED
    BY Zenon, <1>4, <2>1 DEF NoLostWake
<1>12. WorkInv' /\ DriverIsDriven'
  BY Zenon, <1>7 DEF SchedulerInv, WorkInv, DriverIsDriven, IsDriver
<1> QED
  BY ZenonT(40), <1>5, <1>8, <1>9, <1>10, <1>11, <1>12 DEF SchedulerInv

\* An id that is stale, or whose task is being polled, is passed over.  In the
\* second case a run outside this one is polling it, so it is no driver.
LEMMA SkipKeeps ==
  ASSUME SchedulerInv, At("pop"), queue # <<>>, queue' = Tail(queue),
         NEW id, id = Head(queue), ~(Current(id) /\ slots[id.slot].fut = "in"), Skip(id),
         UNCHANGED <<world, free, wakers, idOf, work, abandoned>>
  PROVE  SchedulerInv'
<1> DEFINE L == Len(frames)
<1>1. /\ id \in Id /\ Tail(queue) \in Seq(Id)
      /\ \A i \in DOMAIN queue :
           queue[i] = id \/ \E j \in DOMAIN Tail(queue) : Tail(queue)[j] = queue[i]
      /\ L \in DOMAIN frames /\ frames[L].at = "pop"
  BY Zenon, PoppedFacts
<1>2. /\ UNCHANGED <<slots, frames, woken>>
      /\ skipped' = skipped \cup (IF Current(id) THEN {slots[id.slot].task} \cap woken ELSE {})
  BY ZenonT(40) DEF Skip
<1>3. Current(id) => /\ id.slot \in DOMAIN slots /\ slots[id.slot].task \in Task
                     /\ idOf[slots[id.slot].task] = id
                     /\ slots[id.slot].fut = "taken"
  BY SMTT(30), SMTT(60), <1>1, Members DEF Current, SchedulerInv, TableInv, Id, Slot
<1>4. Current(id) => ~IsDriver(slots[id.slot].task)
  <2> SUFFICES ASSUME Current(id) PROVE ~IsDriver(slots[id.slot].task)
    BY Zenon
  <2>1. PICK i \in DOMAIN frames : Holds(i, id.slot)
    BY Zenon, <1>3 DEF SchedulerInv, FrameInv
  <2>2. i # L /\ frames[i].id.slot = id.slot
    BY Zenon, <1>1, <2>1 DEF Holds
  <2> QED
    BY Zenon, <2>2 DEF SchedulerInv, FrameInv
<1>5. NoLostWake'
  <2>1. ASSUME NEW t \in woken, t \notin skipped'
        PROVE \E i \in DOMAIN queue' : queue'[i] = idOf[t]
    <3>1. t \in Task /\ Current(idOf[t])
      BY Zenon DEF SchedulerInv, SchedulerType, WakeInv
    <3>2. idOf[t] # id
      BY ZenonT(40), <1>2, <1>3, <2>1, <3>1 DEF SchedulerInv, TableInv
    <3>3. PICK i \in DOMAIN queue : queue[i] = idOf[t]
      BY Zenon, <1>2, <2>1 DEF SchedulerInv, NoLostWake
    <3> QED
      BY Zenon, <1>1, <3>2, <3>3
  <2> QED
    BY Zenon, <1>2, <2>1 DEF NoLostWake
<1>6. WakeInv'
  <2>1. \A t \in skipped' : ~IsDriver(t)'
    BY Zenon, <1>2, <1>4 DEF SchedulerInv, WakeInv, IsDriver
  <2> QED
    BY ZenonT(40), <1>2, <2>1 DEF SchedulerInv, WakeInv, Current, IsDriver, Holds, Task
<1>7. TableInv' /\ FrameInv' /\ WorkInv' /\ DriverIsDriven'
  <2>1. TableInv' /\ FrameInv'
    BY Zenon, <1>2, FramesFrame DEF IsDriver
  <2> QED
    BY Zenon, <2>1 DEF SchedulerInv, WorkInv, DriverIsDriven, IsDriver, Task
<1>8. SchedulerType'
  <2>1. skipped' \subseteq Task
    BY Zenon, <1>2, <1>3 DEF SchedulerInv, SchedulerType
  <2> QED
    BY Zenon, <1>1, <1>2, <2>1 DEF SchedulerInv, SchedulerType, Task
<1> QED
  BY ZenonT(40), <1>5, <1>6, <1>7, <1>8 DEF SchedulerInv

\* Either way.
LEMMA PopKeeps ==
  ASSUME SchedulerInv, Pop
  PROVE  SchedulerInv'
  BY Zenon, TakeKeeps, SkipKeeps DEF Pop

-----------------------------------------------------------------------------
(* The end of a poll *)

\* The innermost run is done with its task, whose slot alone has changed.
LEMMA LeaveFrame ==
  ASSUME SchedulerInv, At("poll") \/ At("drop"), Go("pop", NoId), Task' = Task,
         DOMAIN slots' = DOMAIN slots, slots'[Top.id.slot].fut # "taken",
         \A s \in DOMAIN slots : s # Top.id.slot => slots'[s] = slots[s],
         \A t \in Task : IsDriver(t)' <=> IsDriver(t)
  PROVE  /\ FrameInv' /\ frames' \in Seq(RunState) /\ DOMAIN frames' = DOMAIN frames
         /\ \A i \in DOMAIN frames, s \in DOMAIN slots :
              Holds(i, s)' <=> Holds(i, s) /\ s # Top.id.slot
<1>0. PICK L, r : L = Len(frames) /\ r = Top.id.slot
  BY Zenon
<1>1. /\ frames # <<>> /\ L \in DOMAIN frames /\ frames[L].id.slot = r /\ frames[L].at # "pop"
      /\ r \in DOMAIN slots
  <2>1. frames # <<>> /\ L \in DOMAIN frames /\ r \in DOMAIN slots
    BY Zenon, <1>0, PolledFacts
  <2> QED
    BY Zenon, <1>0, <2>1 DEF Top, At
<1>2. NoId \in Id
  BY Zenon DEF NoId, Id
<1>3. /\ frames' \in Seq(RunState) /\ DOMAIN frames' = DOMAIN frames /\ Len(frames') = L
      /\ frames'[L].at = "pop" /\ frames'[L].id = NoId /\ frames'[L].root = frames[L].root
      /\ \A i \in DOMAIN frames : i # L => frames'[i] = frames[i]
  BY ZenonT(40), <1>0, <1>1, <1>2, GoFacts
<1>4. \A i \in DOMAIN frames : i # L =>
        /\ frames[i].at # "pop" /\ Current(frames[i].id)
        /\ slots[frames[i].id.slot].fut = "taken" /\ frames[i].id.slot \in DOMAIN slots
        /\ frames[i].id.slot # r
  BY SMTT(30), SMTT(60), <1>0, <1>1 DEF SchedulerInv, FrameInv, Holds, Current
<1>5. \A i \in DOMAIN frames, s \in DOMAIN slots : Holds(i, s)' <=> Holds(i, s) /\ s # r
  BY ZenonT(40), <1>1, <1>3, <1>4 DEF Holds
<1>6. ASSUME NEW i \in DOMAIN frames'
      PROVE /\ frames'[i].at = "pop" => i = Len(frames') /\ frames'[i].id = NoId
            /\ frames'[i].at # "pop" =>
                 Current(frames[i].id)' /\ slots'[frames'[i].id.slot].fut = "taken"
            /\ frames'[i].root # NoRoot => i = 1 /\ frames'[i].root \in Task'
            /\ i # Len(frames') => ~IsDriver(slots[frames[i].id.slot].task)'
  <2>0. frames[i].root # NoRoot => i = 1 /\ frames[i].root \in Task
    BY Zenon, <1>3 DEF SchedulerInv, FrameInv
  <2>1. CASE i = L
    BY ZenonT(40), <1>3, <2>0, <2>1
  <2>2. CASE i # L
    <3>1. /\ frames'[i] = frames[i] /\ slots'[frames[i].id.slot] = slots[frames[i].id.slot]
          /\ slots[frames[i].id.slot].task \in Task
      BY ZenonT(40), <1>0, <1>3, <1>4, <2>2 DEF SchedulerInv, TableInv
    <3>2. Current(frames[i].id)'
      BY SMTT(30), SMTT(60), <1>3, <1>4, <2>2, <3>1 DEF Current
    <3>3. ~IsDriver(slots[frames[i].id.slot].task)
      BY Zenon, <1>0, <1>3, <2>2 DEF SchedulerInv, FrameInv
    <3>4. ~IsDriver(slots[frames[i].id.slot].task)'
      BY Zenon, <3>1, <3>3 DEF IsDriver
    <3> QED
      BY SMTT(30), SMTT(60), <1>3, <1>4, <2>0, <2>2, <3>1, <3>2, <3>4
  <2> QED
    BY Zenon, <2>1, <2>2
<1>7. \A i, j \in DOMAIN frames' : \A s \in DOMAIN slots' : Holds(i, s)' /\ Holds(j, s)' => i = j
  BY Zenon, <1>3, <1>5 DEF SchedulerInv, FrameInv
<1>8. \A s \in DOMAIN slots' : slots'[s].fut = "taken" => \E i \in DOMAIN frames' : Holds(i, s)'
  <2> SUFFICES ASSUME NEW s \in DOMAIN slots, slots'[s].fut = "taken"
               PROVE \E i \in DOMAIN frames : Holds(i, s)'
    BY Zenon, <1>3
  <2>1. s # r /\ slots[s].fut = "taken"
    BY Zenon, <1>0
  <2>2. PICK i \in DOMAIN frames : Holds(i, s)
    BY Zenon, <2>1 DEF SchedulerInv, FrameInv
  <2> QED
    BY ZenonT(40), <1>5, <2>1, <2>2
<1>9. FrameInv'
  BY ZenonT(40), <1>6, <1>7, <1>8 DEF FrameInv
<1> QED
  BY ZenonT(40), <1>0, <1>3, <1>5, <1>9

\* The future goes back to its slot.
LEMMA PutBackFacts ==
  ASSUME SchedulerInv, At("poll"), PutBack, UNCHANGED <<free, idOf>>,
         \A t \in Task : IsDriver(t)' <=> IsDriver(t)
  PROVE  /\ TableInv' /\ FrameInv' /\ Task' = Task
         /\ slots' \in Seq(Slot) /\ frames' \in Seq(RunState) /\ DOMAIN frames' = DOMAIN frames
         /\ \A e : Current(e)' <=> Current(e)
         /\ \A i \in DOMAIN frames, s \in DOMAIN slots :
              Holds(i, s)' <=> Holds(i, s) /\ s # Top.id.slot
<1>1. Top.id.slot \in DOMAIN slots /\ slots[Top.id.slot].live
  BY Zenon, PolledFacts DEF Current
<1>2. slots' = [slots EXCEPT ![Top.id.slot].fut = "in"] /\ Go("pop", NoId)
  BY Zenon DEF PutBack
<1>3. /\ TableInv' /\ slots' \in Seq(Slot) /\ DOMAIN slots' = DOMAIN slots
      /\ slots'[Top.id.slot].fut = "in" /\ \A e : Current(e)' <=> Current(e)
  <2>1. PICK r \in DOMAIN slots : r = Top.id.slot
    BY Zenon, <1>1
  <2>2. slots[r].live /\ slots' = [slots EXCEPT ![r].fut = "in"] /\ "in" \in {"in", "taken"}
    BY Zenon, <1>1, <1>2, <2>1
  <2>3. /\ TableInv' /\ slots' \in Seq(Slot) /\ DOMAIN slots' = DOMAIN slots
        /\ \A s \in DOMAIN slots : slots'[s].fut = IF s = r THEN "in" ELSE slots[s].fut
        /\ \A e : Current(e)' <=> Current(e)
    BY Zenon, <2>2, FutureMoved
  <2> QED
    BY Zenon, <2>1, <2>3
<1>4. Task' = Task
  BY Zenon DEF Task
<1>5. \A s \in DOMAIN slots : s # Top.id.slot => slots'[s] = slots[s]
  BY Zenon, <1>1, <1>2
<1> QED
  BY ZenonT(40), <1>2, <1>3, <1>4, <1>5, LeaveFrame

\* A driver that is not the task polled is woken or polled as before.
LEMMA OtherDrivers ==
  ASSUME SchedulerInv, At("poll") \/ At("drop"), NEW t \in Task, t # Polled,
         IsDriver(t), Current(idOf[t]), t \notin woken
  PROVE  \E i \in DOMAIN frames : Holds(i, idOf[t].slot) /\ idOf[t].slot # Top.id.slot
<1>1. idOf[t].slot \in DOMAIN slots /\ slots[idOf[t].slot].gen = idOf[t].gen
  BY Zenon DEF Current
<1>2. slots[idOf[t].slot].task = t
  BY Zenon, <1>1, Occupant DEF SchedulerInv
<1>3. idOf[t].slot # Top.id.slot
  BY Zenon, <1>2 DEF Polled
<1> QED
  BY Zenon, <1>3 DEF SchedulerInv, WakeInv

\* A plain task that is not ready waits in its slot.
LEMMA PendingKeeps ==
  ASSUME SchedulerInv, Pending
  PROVE  SchedulerInv'
<1>1. /\ At("poll") /\ ~IsDriver(Polled) /\ PutBack
      /\ UNCHANGED <<world, free, queue, wakers, idOf, work, woken, skipped, abandoned>>
  BY Zenon DEF Pending, history
<1>2. \A t \in Task : IsDriver(t)' <=> IsDriver(t)
  BY Zenon, <1>1 DEF IsDriver
<1>3. /\ TableInv' /\ FrameInv' /\ Task' = Task
      /\ slots' \in Seq(Slot) /\ frames' \in Seq(RunState) /\ DOMAIN frames' = DOMAIN frames
      /\ \A e : Current(e)' <=> Current(e)
      /\ \A i \in DOMAIN frames, s \in DOMAIN slots :
           Holds(i, s)' <=> Holds(i, s) /\ s # Top.id.slot
  BY Zenon, <1>1, <1>2, PutBackFacts
<1>4. WakeInv'
  <2>1. \A t \in woken' : Current(idOf[t])'
    BY Zenon, <1>1, <1>3 DEF SchedulerInv, WakeInv, Current
  <2>2. \A t \in skipped' : ~IsDriver(t)'
    BY Zenon, <1>1 DEF SchedulerInv, WakeInv, IsDriver
  <2>3. ASSUME NEW t \in Task, IsDriver(t)', Current(idOf[t])'
        PROVE t \in woken' \/ \E i \in DOMAIN frames' : Holds(i, idOf[t].slot)'
    <3>1. IsDriver(t) /\ Current(idOf[t]) /\ t # Polled
      BY Zenon, <1>1, <1>2, <1>3, <2>3 DEF Current
    <3>2. t \in woken \/ \E i \in DOMAIN frames : Holds(i, idOf[t].slot) /\ idOf[t].slot # Top.id.slot
      BY Zenon, <1>1, <3>1, OtherDrivers
    <3>3. idOf[t].slot \in DOMAIN slots
      BY Zenon, <3>1 DEF Current
    <3>4. \A i \in DOMAIN frames : Holds(i, idOf[t].slot)' <=> Holds(i, idOf[t].slot) /\ idOf[t].slot # Top.id.slot
      BY Zenon, <1>1, <1>3, <3>3 DEF Holds
    <3> QED
      BY Zenon, <1>1, <1>3, <3>2, <3>4
  <2> QED
    BY ZenonT(40), <1>3, <2>1, <2>2, <2>3 DEF WakeInv
<1>5. SchedulerType' /\ WorkInv' /\ NoLostWake' /\ DriverIsDriven'
  BY Zenon, <1>1, <1>3 DEF SchedulerInv, SchedulerType, WorkInv, NoLostWake, DriverIsDriven, IsDriver
<1> QED
  BY Zenon, <1>3, <1>4, <1>5 DEF SchedulerInv

\* A yield wakes the task it suspends.
LEMMA YieldKeeps ==
  ASSUME SchedulerInv, Yield
  PROVE  SchedulerInv'
<1>0. PICK p, id : p = Polled /\ id = Top.id
  BY Zenon
<1>1. /\ At("poll") /\ work[p].left > 0 /\ work' = [work EXCEPT ![p].yielded = TRUE]
      /\ queue' = Append(queue, id) /\ woken' = woken \cup {p} /\ PutBack
      /\ UNCHANGED <<world, free, wakers, idOf, skipped, abandoned>>
  BY Zenon, <1>0 DEF Yield
<1>2. p \in Task /\ idOf[p] = id /\ id \in Id /\ Current(id)
  BY Zenon, <1>0, <1>1, PolledFacts
<1>3. /\ work \in Seq(Work) /\ work[p] \in Work /\ p \in DOMAIN work /\ DOMAIN work = Task
      /\ Len(work) = Len(idOf) /\ work[p].left \in Nat
  BY Zenon, <1>2, Members DEF SchedulerInv, SchedulerType, Work
<1>4. IsDriver(p)
  BY SMTT(30), SMTT(60), <1>1, <1>2, <1>3 DEF SchedulerInv, WorkInv
<1>5. /\ work' \in Seq(Work) /\ Len(work') = Len(idOf)
      /\ \A t \in Task : /\ work'[t].driver = work[t].driver /\ work'[t].left = work[t].left
                         /\ t # p => work'[t].yielded = work[t].yielded
  <2>1. [work[p] EXCEPT !.yielded = TRUE] \in Work
    BY Zenon, <1>3 DEF Work
  <2>2. work' = [work EXCEPT ![p] = [work[p] EXCEPT !.yielded = TRUE]]
    BY Zenon, <1>1
  <2>3. work' \in Seq(Work) /\ Len(work') = Len(work) /\ DOMAIN work' = DOMAIN work
    BY <1>3, <2>1, <2>2
  <2>4. /\ work'[p] = [work[p] EXCEPT !.yielded = TRUE]
        /\ \A t \in Task : t # p => work'[t] = work[t]
    BY Zenon, <1>3, <2>2
  <2>5. work'[p].driver = work[p].driver /\ work'[p].left = work[p].left
    BY Zenon, <1>3, <2>4 DEF Work
  <2> QED
    BY ZenonT(40), <1>3, <2>3, <2>4, <2>5
<1>6. \A t \in Task : IsDriver(t)' <=> IsDriver(t)
  BY Zenon, <1>5 DEF IsDriver
<1>7. /\ TableInv' /\ FrameInv' /\ Task' = Task
      /\ slots' \in Seq(Slot) /\ frames' \in Seq(RunState) /\ DOMAIN frames' = DOMAIN frames
      /\ \A e : Current(e)' <=> Current(e)
      /\ \A i \in DOMAIN frames, s \in DOMAIN slots :
           Holds(i, s)' <=> Holds(i, s) /\ s # Top.id.slot
  BY Zenon, <1>1, <1>6, PutBackFacts
<1>8. /\ queue' \in Seq(Id) /\ queue'[Len(queue')] = id /\ Len(queue') \in DOMAIN queue'
      /\ \A i \in DOMAIN queue : i \in DOMAIN queue' /\ queue'[i] = queue[i]
  <2>1. queue \in Seq(Id)
    BY Zenon DEF SchedulerInv, SchedulerType
  <2> QED
    BY SMTT(30), SMTT(60), <1>1, <1>2, <2>1
<1>9. WakeInv'
  <2>1. \A t \in woken' : Current(idOf[t])'
    BY ZenonT(40), <1>1, <1>2, <1>7 DEF SchedulerInv, WakeInv, Current
  <2>2. \A t \in skipped' : ~IsDriver(t)'
    BY Zenon, <1>1, <1>6 DEF SchedulerInv, SchedulerType, WakeInv
  <2>3. ASSUME NEW t \in Task, IsDriver(t)', Current(idOf[t])', t # p
        PROVE t \in woken' \/ \E i \in DOMAIN frames' : Holds(i, idOf[t].slot)'
    <3>1. IsDriver(t) /\ Current(idOf[t])
      BY ZenonT(40), <1>1, <1>6, <1>7, <2>3 DEF Current
    <3>2. t \in woken \/ \E i \in DOMAIN frames : Holds(i, idOf[t].slot) /\ idOf[t].slot # Top.id.slot
      BY ZenonT(40), <1>0, <1>1, <2>3, <3>1, OtherDrivers
    <3>3. idOf[t].slot \in DOMAIN slots
      BY Zenon, <3>1 DEF Current
    <3>4. \A i \in DOMAIN frames : Holds(i, idOf[t].slot)' <=> Holds(i, idOf[t].slot) /\ idOf[t].slot # Top.id.slot
      BY ZenonT(40), <1>1, <1>7, <3>3 DEF Holds
    <3> QED
      BY Zenon, <1>1, <1>7, <3>2, <3>4
  <2> QED
    BY ZenonT(40), <1>1, <1>7, <2>1, <2>2, <2>3 DEF WakeInv
<1>10. NoLostWake'
  <2>1. ASSUME NEW t \in woken \ skipped
        PROVE \E i \in DOMAIN queue' : queue'[i] = idOf[t]
    <3>1. PICK i \in DOMAIN queue : queue[i] = idOf[t]
      BY Zenon DEF SchedulerInv, NoLostWake
    <3> QED
      BY Zenon, <1>8, <3>1
  <2> QED
    BY SMTT(30), SMTT(60), <1>1, <1>2, <1>8, <2>1 DEF NoLostWake
<1>11. WorkInv'
  BY SMTT(30), SMTT(60), <1>1, <1>4, <1>5, <1>6, <1>7 DEF SchedulerInv, WorkInv
<1>12. DriverIsDriven'
  BY Zenon, <1>1, <1>6 DEF SchedulerInv, SchedulerType, DriverIsDriven
<1>13. SchedulerType'
  BY ZenonT(40), <1>1, <1>2, <1>5, <1>7, <1>8 DEF SchedulerInv, SchedulerType
<1> QED
  BY ZenonT(40), <1>7, <1>9, <1>10, <1>11, <1>12, <1>13 DEF SchedulerInv

\* Ready only moves on to the destructor.
LEMMA ReadyKeeps ==
  ASSUME SchedulerInv, Ready
  PROVE  SchedulerInv'
<1>0. PICK L : L = Len(frames)
  BY Zenon
<1>1. /\ At("poll") /\ Go("drop", Top.id)
      /\ UNCHANGED <<world, slots, free, queue, wakers, idOf, work, woken, skipped, abandoned>>
  BY Zenon DEF Ready, table, history
<1>2. frames # <<>> /\ L \in DOMAIN frames /\ Top.id \in Id /\ Top = frames[L] /\ frames[L].at = "poll"
  BY ZenonT(40), <1>0, <1>1, PolledFacts DEF Top, At
<1>3. /\ frames' \in Seq(RunState) /\ DOMAIN frames' = DOMAIN frames /\ Len(frames') = L
      /\ frames'[L].at = "drop" /\ frames'[L].id = frames[L].id /\ frames'[L].root = frames[L].root
      /\ \A i \in DOMAIN frames : i # L => frames'[i] = frames[i]
  BY ZenonT(40), <1>0, <1>1, <1>2, GoFacts
<1>4. \A i \in DOMAIN frames :
        /\ frames'[i].id = frames[i].id /\ frames'[i].root = frames[i].root
        /\ frames'[i].at = "pop" <=> frames[i].at = "pop"
  BY Zenon, <1>2, <1>3
<1>5. \A i \in DOMAIN frames : \A s : Holds(i, s)' <=> Holds(i, s)
  BY ZenonT(40), <1>4 DEF Holds
<1>6. FrameInv'
  <2>1. \A i \in DOMAIN frames : frames[i].at # "pop" => Current(frames[i].id)'
    BY SMTT(30), SMTT(60), <1>1, <1>4 DEF SchedulerInv, FrameInv, Current
  <2>2. \A i \in DOMAIN frames : i # L => ~IsDriver(slots[frames[i].id.slot].task)'
    BY ZenonT(40), <1>0, <1>1, <1>4 DEF SchedulerInv, FrameInv, IsDriver
  <2>3. ASSUME NEW i \in DOMAIN frames'
        PROVE /\ frames'[i].at = "pop" => i = Len(frames') /\ frames'[i].id = NoId
              /\ frames'[i].at # "pop" =>
                   Current(frames[i].id)' /\ slots'[frames'[i].id.slot].fut = "taken"
              /\ frames'[i].root # NoRoot => i = 1 /\ frames'[i].root \in Task'
              /\ i # Len(frames') => ~IsDriver(slots[frames[i].id.slot].task)'
    BY SMTT(30), SMTT(60), <1>0, <1>1, <1>3, <1>4, <2>1, <2>2 DEF SchedulerInv, FrameInv, Task
  <2>4. /\ \A i, j \in DOMAIN frames' : \A s \in DOMAIN slots' : Holds(i, s)' /\ Holds(j, s)' => i = j
        /\ \A s \in DOMAIN slots' : slots'[s].fut = "taken" => \E i \in DOMAIN frames' : Holds(i, s)'
    BY Zenon, <1>1, <1>3, <1>5 DEF SchedulerInv, FrameInv
  <2> QED
    BY Zenon, <2>3, <2>4 DEF FrameInv
<1>7. WakeInv'
  <2>1. \A t \in woken' : Current(idOf[t])'
    BY ZenonT(40), <1>1 DEF SchedulerInv, WakeInv, Current
  <2>2. \A t \in Task' : IsDriver(t)' /\ Current(idOf[t])' =>
          t \in woken' \/ \E i \in DOMAIN frames' : Holds(i, idOf[t].slot)'
    BY SMTT(30), SMTT(60), <1>1, <1>3, <1>4 DEF SchedulerInv, WakeInv, Current, IsDriver, Task, Holds
  <2> QED
    BY Zenon, <1>1, <2>1, <2>2, TableFrame DEF WakeInv
<1>8. SchedulerType' /\ NoLostWake'
  BY Zenon, <1>1, <1>3 DEF SchedulerInv, SchedulerType, Task, NoLostWake
<1> QED
  BY ZenonT(40), <1>1, <1>6, <1>7, <1>8, TableFrame DEF SchedulerInv

\* The slot of a task that is done is freed.
LEMMA FinishKeeps ==
  ASSUME SchedulerInv, Finish
  PROVE  SchedulerInv'
<1>0. PICK p, r : p = Polled /\ r = Top.id.slot
  BY Zenon
<1>1. /\ At("drop") /\ Go("pop", NoId)
      /\ slots' = [slots EXCEPT ![r].live = FALSE, ![r].fut = "none"] /\ free' = Append(free, r)
      /\ woken' = woken \ {p} /\ skipped' = skipped \ {p}
      /\ UNCHANGED <<world, queue, wakers, idOf, work, abandoned>>
  BY Zenon, <1>0 DEF Finish
<1>2. r \in DOMAIN slots /\ slots[r].live /\ p \in Task /\ idOf[p].slot = r /\ slots[r].task = p
  BY ZenonT(40), <1>0, <1>1, PolledFacts DEF Current, Polled
<1>3. /\ TableInv' /\ slots' \in Seq(Slot) /\ DOMAIN slots' = DOMAIN slots
      /\ slots'[r].fut = "none" /\ free' \in Seq(Nat)
      /\ \A s \in DOMAIN slots : s # r => slots'[s] = slots[s]
      /\ \A e : Current(e)' <=> Current(e) /\ e.slot # r
  BY ZenonT(40), <1>1, <1>2, FinishedTable
<1>4. Task' = Task /\ \A t \in Task : IsDriver(t)' <=> IsDriver(t)
  BY Zenon, <1>1 DEF Task, IsDriver
<1>5. /\ FrameInv' /\ frames' \in Seq(RunState) /\ DOMAIN frames' = DOMAIN frames
      /\ \A i \in DOMAIN frames, s \in DOMAIN slots : Holds(i, s)' <=> Holds(i, s) /\ s # r
  BY ZenonT(40), <1>0, <1>1, <1>3, <1>4, LeaveFrame
<1>6. WakeInv'
  <2>1. ASSUME NEW t \in woken' PROVE Current(idOf[t])'
    <3>1. t \in Task /\ t # p /\ Current(idOf[t])
      BY ZenonT(40), <1>1, <2>1 DEF SchedulerInv, SchedulerType, WakeInv
    <3>2. idOf[t].slot # r
      BY SMTT(30), SMTT(60), <1>2, <3>1, Occupant DEF Current, SchedulerInv
    <3> QED
      BY ZenonT(40), <1>1, <1>3, <3>1, <3>2 DEF Current
  <2>2. \A t \in skipped' : ~IsDriver(t)'
    BY Zenon, <1>1 DEF SchedulerInv, WakeInv, IsDriver
  <2>3. ASSUME NEW t \in Task, IsDriver(t)', Current(idOf[t])'
        PROVE t \in woken' \/ \E i \in DOMAIN frames' : Holds(i, idOf[t].slot)'
    <3>1. IsDriver(t) /\ Current(idOf[t]) /\ idOf[t].slot # r
      BY ZenonT(40), <1>1, <1>3, <1>4, <2>3 DEF Current
    <3>2. t # p
      BY Zenon, <1>2, <3>1
    <3>3. t \in woken \/ \E i \in DOMAIN frames : Holds(i, idOf[t].slot)
      BY Zenon, <3>1 DEF SchedulerInv, WakeInv
    <3>4. idOf[t].slot \in DOMAIN slots
      BY Zenon, <3>1 DEF Current
    <3>5. \A i \in DOMAIN frames : Holds(i, idOf[t].slot)' <=> Holds(i, idOf[t].slot)
      BY SMTT(30), SMTT(60), <1>1, <1>5, <3>1, <3>4 DEF Holds
    <3> QED
      BY ZenonT(40), <1>1, <1>5, <3>2, <3>3, <3>5
  <2> QED
    BY Zenon, <1>4, <2>1, <2>2, <2>3 DEF WakeInv
<1>7. NoLostWake' /\ WorkInv' /\ DriverIsDriven'
  BY Zenon, <1>1, <1>4 DEF SchedulerInv, NoLostWake, WorkInv, DriverIsDriven, IsDriver
<1>8. SchedulerType'
  BY ZenonT(40), <1>1, <1>3, <1>4, <1>5 DEF SchedulerInv, SchedulerType
<1> QED
  BY ZenonT(40), <1>3, <1>5, <1>6, <1>7, <1>8 DEF SchedulerInv

\* run returns when the queue is empty, so no driver is left waiting: one that
\* is alive would be woken, and its id queued.
LEMMA ReturnKeeps ==
  ASSUME SchedulerInv, Return
  PROVE  SchedulerInv'
<1>0. PICK L : L = Len(frames)
  BY Zenon
<1>1. /\ At("pop") /\ queue = <<>> /\ frames' = SubSeq(frames, 1, L - 1)
      /\ abandoned' = abandoned \cup {t \in {Top.root} \ {NoRoot} : Current(idOf[t])}
      /\ UNCHANGED <<world, slots, free, queue, wakers, idOf, work, woken, skipped>>
  BY Zenon, <1>0 DEF Return, table
<1>2. /\ frames \in Seq(RunState) /\ L \in Nat /\ DOMAIN frames = 1..L /\ L \in DOMAIN frames
      /\ Top = frames[L] /\ frames[L].at = "pop"
  <2>1. frames \in Seq(RunState) /\ frames # <<>> /\ Top.at = "pop" /\ Top = frames[L]
    BY Zenon, <1>0, <1>1 DEF SchedulerInv, SchedulerType, At, Top
  <2> QED
    BY SMTT(30), SMTT(60), <1>0, <2>1
<1>3. /\ frames' \in Seq(RunState) /\ Len(frames') = L - 1 /\ DOMAIN frames' = 1..(L - 1)
      /\ \A i \in 1..(L - 1) : frames'[i] = frames[i] /\ i \in DOMAIN frames /\ i # L
  BY SMTT(30), SMTT(60), <1>0, <1>1, <1>2
<1>4. \A i \in DOMAIN frames : \A s : Holds(i, s) => i \in DOMAIN frames'
  BY <1>2, <1>3 DEF Holds
<1>5. \A i \in DOMAIN frames' : \A s : Holds(i, s)' <=> Holds(i, s)
  BY Zenon, <1>3 DEF Holds
<1>6. FrameInv'
  <2>1. ASSUME NEW i \in DOMAIN frames'
        PROVE /\ frames'[i].at # "pop"
              /\ Current(frames[i].id)' /\ slots'[frames'[i].id.slot].fut = "taken"
              /\ frames'[i].root # NoRoot => i = 1 /\ frames'[i].root \in Task'
              /\ ~IsDriver(slots[frames[i].id.slot].task)'
    <3>1. i \in DOMAIN frames /\ i # Len(frames) /\ frames'[i] = frames[i]
      BY Zenon, <1>0, <1>3
    <3>2. /\ frames[i].at # "pop" /\ Current(frames[i].id) /\ slots[frames[i].id.slot].fut = "taken"
          /\ frames[i].root # NoRoot => i = 1 /\ frames[i].root \in Task
          /\ ~IsDriver(slots[frames[i].id.slot].task)
      BY Zenon, <3>1 DEF SchedulerInv, FrameInv
    <3> QED
      BY Zenon, <1>1, <3>1, <3>2 DEF Current, IsDriver, Task
  <2>2. \A i, j \in DOMAIN frames' : \A s \in DOMAIN slots' : Holds(i, s)' /\ Holds(j, s)' => i = j
    BY ZenonT(40), <1>1, <1>3, <1>5 DEF SchedulerInv, FrameInv
  <2>3. \A s \in DOMAIN slots' : slots'[s].fut = "taken" => \E i \in DOMAIN frames' : Holds(i, s)'
    BY Zenon, <1>1, <1>4, <1>5 DEF SchedulerInv, FrameInv
  <2> QED
    BY Zenon, <2>1, <2>2, <2>3 DEF FrameInv
<1>7. WakeInv'
  <2>1. \A t \in woken' : Current(idOf[t])'
    BY Zenon, <1>1 DEF SchedulerInv, WakeInv, Current
  <2>2. \A t \in skipped' : ~IsDriver(t)'
    BY Zenon, <1>1 DEF SchedulerInv, WakeInv, IsDriver
  <2>3. ASSUME NEW t \in Task', IsDriver(t)', Current(idOf[t])', t \notin woken'
        PROVE \E i \in DOMAIN frames' : Holds(i, idOf[t].slot)'
    <3>1. PICK i \in DOMAIN frames : Holds(i, idOf[t].slot)
      BY Zenon, <1>1, <2>3 DEF SchedulerInv, WakeInv, IsDriver, Current, Task
    <3>2. i \in DOMAIN frames' /\ frames'[i] = frames[i]
      BY Zenon, <1>3, <1>4, <3>1
    <3>3. Holds(i, idOf[t].slot)'
      BY Zenon, <1>1, <3>1, <3>2 DEF Holds
    <3> QED
      BY Zenon, <3>2, <3>3
  <2> QED
    BY Zenon, <2>1, <2>2, <2>3 DEF WakeInv
<1>8. ASSUME NEW t, t = Top.root, t # NoRoot, Current(idOf[t])
      PROVE t \in Task /\ ~IsDriver(t)
  <2>1. L = 1 /\ t \in Task
    BY Zenon, <1>2, <1>8 DEF SchedulerInv, FrameInv
  <2>2. \A i \in DOMAIN frames : ~Holds(i, idOf[t].slot)
    BY SMTT(30), SMTT(60), <1>2, <2>1 DEF Holds
  <2>3. IsDriver(t) => t \in woken \ skipped
    BY Zenon, <1>8, <2>1, <2>2 DEF SchedulerInv, WakeInv
  <2>4. t \notin woken \ skipped
    BY SMTT(30), SMTT(60), <1>1 DEF SchedulerInv, NoLostWake
  <2> QED
    BY Zenon, <2>1, <2>3, <2>4
<1>9. DriverIsDriven' /\ abandoned' \subseteq Task
  BY Zenon, <1>1, <1>8 DEF SchedulerInv, SchedulerType, DriverIsDriven, IsDriver
<1>10. TableInv' /\ WorkInv' /\ NoLostWake'
  BY ZenonT(40), <1>1 DEF SchedulerInv, TableInv, WorkInv, NoLostWake, IsDriver, Task
<1>11. SchedulerType'
  BY Zenon, <1>1, <1>3, <1>9 DEF SchedulerInv, SchedulerType, Task
<1> QED
  BY ZenonT(40), <1>6, <1>7, <1>9, <1>10, <1>11 DEF SchedulerInv

\* A driver's call counts down, and its next YieldOnce is to come.
LEMMA ClusterCallKeeps ==
  ASSUME SchedulerInv, ClusterCall
  PROVE  SchedulerInv'
<1>0. PICK p : p = Polled
  BY Zenon
<1>1. /\ At("poll") /\ work[p].yielded /\ work' = [work EXCEPT ![p] = Driver(work[p].left - 1)]
      /\ UNCHANGED <<world, slots, free, queue, frames, wakers, idOf, woken, skipped, abandoned>>
  BY Zenon, <1>0 DEF ClusterCall, table, history
<1>2. p \in Task
  BY Zenon, <1>0, <1>1, PolledFacts
<1>3. /\ work \in Seq(Work) /\ p \in DOMAIN work /\ DOMAIN work = Task /\ Len(work) = Len(idOf)
      /\ work[p].left \in Nat
  BY Zenon, <1>2, Members DEF SchedulerInv, SchedulerType, Work
<1>4. IsDriver(p) /\ work[p].left > 0
  BY Zenon, <1>1, <1>2 DEF SchedulerInv, WorkInv
<1>5. Driver(work[p].left - 1) \in Work
  BY <1>3, <1>4 DEF Driver, Work
<1>6. /\ work' \in Seq(Work) /\ Len(work') = Len(idOf)
      /\ work'[p] = Driver(work[p].left - 1) /\ \A t \in Task : t # p => work'[t] = work[t]
  BY SMTT(30), SMTT(60), <1>1, <1>3, <1>5
<1>7. \A t \in Task : IsDriver(t)' <=> IsDriver(t)
  BY SMTT(30), SMTT(60), <1>4, <1>6 DEF IsDriver, Driver
<1>8. /\ TableInv' /\ FrameInv' /\ Task' = Task
      /\ \A e : Current(e)' <=> Current(e)
      /\ \A i, s : Holds(i, s)' <=> Holds(i, s)
  BY ZenonT(40), <1>1, <1>7, FramesFrame
<1>9. WorkInv'
  BY SMTT(30), SMTT(60), <1>6, <1>7, <1>8 DEF SchedulerInv, WorkInv, IsDriver, Driver
<1>10. WakeInv'
  <2>1. \A t \in woken' : Current(idOf[t])'
    BY Zenon, <1>1 DEF SchedulerInv, WakeInv, Current
  <2>2. \A t \in Task : IsDriver(t)' /\ Current(idOf[t])' =>
          t \in woken' \/ \E i \in DOMAIN frames' : Holds(i, idOf[t].slot)'
    BY Zenon, <1>1, <1>7 DEF SchedulerInv, WakeInv, Current, Holds
  <2>3. \A t \in skipped' : ~IsDriver(t)'
    BY Zenon, <1>1, <1>7 DEF SchedulerInv, SchedulerType, WakeInv
  <2> QED
    BY ZenonT(40), <1>8, <2>1, <2>2, <2>3 DEF WakeInv
<1>11. NoLostWake' /\ DriverIsDriven'
  BY Zenon, <1>1, <1>7 DEF SchedulerInv, SchedulerType, NoLostWake, DriverIsDriven
<1>12. SchedulerType'
  BY ZenonT(40), <1>1, <1>6, <1>8 DEF SchedulerInv, SchedulerType
<1> QED
  BY Zenon, <1>8, <1>9, <1>10, <1>11, <1>12 DEF SchedulerInv

-----------------------------------------------------------------------------
(* Wakers *)

\* A waker carries an id and nothing else.
LEMMA WakersKeep ==
  ASSUME SchedulerInv, wakers' \subseteq Id,
         UNCHANGED <<world, slots, free, queue, frames, idOf, work, woken, skipped, abandoned>>
  PROVE  SchedulerInv'
<1>1. /\ TableInv' /\ FrameInv' /\ Task' = Task
  BY Zenon, FramesFrame DEF IsDriver
<1>2. WorkInv' /\ DriverIsDriven'
  BY ZenonT(40), TableFrame
<1>3. WakeInv' /\ NoLostWake'
  BY DEF SchedulerInv, WakeInv, NoLostWake, Current, IsDriver, Holds, Task
<1>4. SchedulerType'
  BY Zenon, <1>1 DEF SchedulerInv, SchedulerType
<1> QED
  BY Zenon, <1>1, <1>2, <1>3, <1>4 DEF SchedulerInv

\* A wake-up, whenever it comes, queues its id, and wakes the task that has
\* that id if there still is one.
LEMMA WakeKeeps ==
  ASSUME SchedulerInv, NEW id, Wake(id)
  PROVE  SchedulerInv'
<1>1. /\ queue' = Append(queue, id)
      /\ woken' = woken \cup (IF Current(id) THEN {slots[id.slot].task} ELSE {})
      /\ UNCHANGED <<world, slots, free, frames, idOf, work, skipped, abandoned>>
  BY Zenon DEF Wake, Woken, table
<1>2. id \in Id /\ wakers' \subseteq Id
  <2>1. wakers \subseteq Id
    BY Zenon DEF SchedulerInv, SchedulerType
  <2>2. At("poll") => Top.id \in Id
    BY Zenon, PolledFacts
  <2> QED
    BY Zenon, <2>1, <2>2 DEF Wake
<1>3. /\ queue' \in Seq(Id) /\ queue'[Len(queue')] = id /\ Len(queue') \in DOMAIN queue'
      /\ \A i \in DOMAIN queue : i \in DOMAIN queue' /\ queue'[i] = queue[i]
  <2>1. queue \in Seq(Id)
    BY Zenon DEF SchedulerInv, SchedulerType
  <2> QED
    BY SMTT(30), SMTT(60), <1>1, <1>2, <2>1
<1>4. Current(id) => slots[id.slot].task \in Task /\ idOf[slots[id.slot].task] = id
  BY Zenon, <1>2 DEF Current, SchedulerInv, TableInv, Id
<1>5. /\ TableInv' /\ FrameInv' /\ Task' = Task
  BY Zenon, <1>1, FramesFrame DEF IsDriver
<1>6. WorkInv' /\ DriverIsDriven' /\ \A t \in skipped' : ~IsDriver(t)'
  BY Zenon, <1>1, TableFrame
<1>7. WakeInv'
  <2>1. \A t \in woken' : Current(idOf[t])'
    BY ZenonT(40), <1>1, <1>4 DEF SchedulerInv, WakeInv, Current
  <2>2. \A t \in Task : IsDriver(t)' /\ Current(idOf[t])' =>
          t \in woken' \/ \E i \in DOMAIN frames' : Holds(i, idOf[t].slot)'
    BY Zenon, <1>1 DEF SchedulerInv, WakeInv, Current, IsDriver, Holds
  <2> QED
    BY Zenon, <1>5, <1>6, <2>1, <2>2 DEF WakeInv
<1>8. NoLostWake'
  <2>1. ASSUME NEW t \in woken \ skipped
        PROVE \E i \in DOMAIN queue' : queue'[i] = idOf[t]
    <3>1. PICK i \in DOMAIN queue : queue[i] = idOf[t]
      BY Zenon DEF SchedulerInv, NoLostWake
    <3> QED
      BY ZenonT(40), <1>3, <3>1
  <2> QED
    BY SMTT(30), SMTT(60), <1>1, <1>3, <1>4, <2>1 DEF NoLostWake
<1>9. SchedulerType'
  BY ZenonT(40), <1>1, <1>2, <1>3, <1>4, <1>5 DEF SchedulerInv, SchedulerType
<1> QED
  BY ZenonT(40), <1>5, <1>6, <1>7, <1>8, <1>9 DEF SchedulerInv

-----------------------------------------------------------------------------
(* The theorems *)

\* Every step keeps the invariant.
LEMMA SchedulerCorrect == Spec => []SchedulerInv
<1>1. ASSUME SchedulerInv, [Next]_vars PROVE SchedulerInv'
  <2>1. CASE CloneWaker
    <3>1. wakers' \subseteq Id
      BY Zenon, <1>1, <2>1, PolledFacts DEF CloneWaker, SchedulerInv, SchedulerType
    <3> QED
      BY Zenon, <1>1, <2>1, <3>1, WakersKeep DEF CloneWaker, table, history
  <2>2. CASE \E id \in wakers : DropWaker(id)
    <3>1. PICK id \in wakers : DropWaker(id)
      BY Zenon, <2>2
    <3>2. wakers' \subseteq Id
      BY Zenon, <1>1, <3>1 DEF DropWaker, SchedulerInv, SchedulerType
    <3> QED
      BY Zenon, <1>1, <3>1, <3>2, WakersKeep DEF DropWaker, table, history
  <2>3. CASE UNCHANGED vars
    <3>1. wakers' \subseteq Id
      BY Zenon, <1>1, <2>3 DEF vars, SchedulerInv, SchedulerType
    <3> QED
      BY Zenon, <1>1, <2>3, <3>1, WakersKeep DEF vars
  <2>4. CASE Add \/ Run \/ BlockOn \/ Pop \/ Pending \/ Ready \/ Finish \/ Return
    BY ZenonT(40), <1>1, <2>4, AddKeeps, RunKeeps, BlockOnKeeps, PopKeeps, PendingKeeps, ReadyKeeps, FinishKeeps,
       ReturnKeeps
  <2>5. CASE Yield \/ ClusterCall \/ \E id \in Wakeable : Wake(id)
    BY ZenonT(40), <1>1, <2>5, YieldKeeps, ClusterCallKeeps, WakeKeeps
  <2> QED
    BY ZenonT(40), <1>1, <2>1, <2>2, <2>3, <2>4, <2>5 DEF Next
<1> QED
  BY <1>1, InitScheduler, PTL DEF Spec

\* No wake-up is lost, but to a run inside the very poll of the task it is for
\* (rt.rs, Executor::run and the waker), for any number of tasks, wakers and
\* runs inside one another.
THEOREM Wakes == Spec => []NoLostWake
<1>1. SchedulerInv => NoLostWake
  BY Zenon DEF SchedulerInv
<1> QED
  BY <1>1, SchedulerCorrect, PTL

\* block_on never panics over a driver (async_driver.rs), whatever else the
\* executor runs: when run returns, every call of its workload has been made.
THEOREM Driven == Spec => []DriverIsDriven
<1>1. SchedulerInv => DriverIsDriven
  BY Zenon DEF SchedulerInv
<1> QED
  BY <1>1, SchedulerCorrect, PTL

-----------------------------------------------------------------------------
(* Slots *)

Live(sl) == {s \in DOMAIN sl : sl[s].live}
CountInv == Len(slots) = Cardinality(Live(slots)) + Len(free)

\* The lengths, and the number of live slots.
LEMMA CountFacts ==
  ASSUME SchedulerType
  PROVE  /\ Len(slots) \in Nat /\ Len(free) \in Nat
         /\ IsFiniteSet(Live(slots)) /\ Cardinality(Live(slots)) \in Nat
<1>1. slots \in Seq(Slot) /\ free \in Seq(Nat)
  BY Zenon DEF SchedulerType
<1>2. Len(slots) \in Nat /\ Len(free) \in Nat /\ DOMAIN slots = 1..Len(slots)
  BY <1>1
<1>3. IsFiniteSet(1..Len(slots))
  BY <1>2, FS_Interval
<1>4. Live(slots) \in SUBSET (1..Len(slots))
  BY Zenon, <1>2 DEF Live
<1> QED
  BY SMTT(30), SMTT(60), <1>2, <1>3, <1>4, FS_Subset, FS_CardinalityType

\* add makes one more slot live.
LEMMA AddCounts ==
  ASSUME SchedulerInv, SchedulerInv', CountInv, NEW w \in Works, add(w)
  PROVE  CountInv'
<1>1. PICK id \in Id : Added(id, w)
  BY Zenon, AddFacts
<1>2. /\ DOMAIN slots' = DOMAIN slots \cup {id.slot} /\ slots'[id.slot] = NewSlot(id.gen)
      /\ \A s \in DOMAIN slots : s # id.slot => slots'[s] = slots[s]
      /\ id.slot \in DOMAIN slots => ~slots[id.slot].live
      /\ Len(slots') + Len(free) = Len(slots) + Len(free') + 1
  BY ZenonT(40), <1>1 DEF Added
<1>3. Live(slots)' = Live(slots) \cup {id.slot} /\ id.slot \notin Live(slots)
  BY <1>2 DEF Live, NewSlot
<1>4. /\ Len(slots) \in Nat /\ Len(free) \in Nat
      /\ IsFiniteSet(Live(slots)) /\ Cardinality(Live(slots)) \in Nat
  BY Zenon, CountFacts DEF SchedulerInv
<1>5. Len(slots') \in Nat /\ Len(free') \in Nat
  <2>1. slots' \in Seq(Slot) /\ free' \in Seq(Nat)
    BY Zenon DEF SchedulerInv, SchedulerType
  <2> QED
    BY <2>1
<1>6. Cardinality(Live(slots)') = Cardinality(Live(slots)) + 1
  BY Zenon, <1>3, <1>4, FS_AddElement
<1>7. Len(slots) = Cardinality(Live(slots)) + Len(free)
  BY Zenon DEF CountInv
<1>8. Len(slots') + Len(free) = Len(slots) + Len(free') + 1
  BY Zenon, <1>2
<1>9. Len(slots') = Cardinality(Live(slots)') + Len(free')
  BY SMTT(30), SMTT(60), <1>4, <1>5, <1>6, <1>7, <1>8
<1> QED
  BY Zenon, <1>9 DEF CountInv

\* A future that is taken out or put back leaves its slot in use.
LEMMA MoveCounts ==
  ASSUME SchedulerInv, CountInv, NEW r \in DOMAIN slots, slots[r].live, NEW where \in {"in", "taken"},
         slots' = [slots EXCEPT ![r].fut = where], UNCHANGED <<free, idOf>>
  PROVE  CountInv'
<1>1. /\ DOMAIN slots' = DOMAIN slots /\ Len(slots') = Len(slots)
      /\ \A s \in DOMAIN slots : slots'[s].live = slots[s].live
  BY Zenon, FutureMoved
<1>2. Live(slots)' = Live(slots)
  BY Zenon, <1>1 DEF Live
<1> QED
  BY Zenon, <1>1, <1>2 DEF CountInv

\* The slot of a finished task is one fewer in use and one more free.
LEMMA FinishCounts ==
  ASSUME SchedulerInv, CountInv, Finish
  PROVE  CountInv'
<1>1. PICK r \in DOMAIN slots : r = Top.id.slot /\ slots[r].live
  BY Zenon, PolledFacts DEF Finish, Current
<1>2. /\ slots' = [slots EXCEPT ![r].live = FALSE, ![r].fut = "none"]
      /\ free' = Append(free, r) /\ UNCHANGED idOf
  BY Zenon, <1>1 DEF Finish
<1>3. /\ DOMAIN slots' = DOMAIN slots /\ Len(slots') = Len(slots) /\ ~slots'[r].live
      /\ \A s \in DOMAIN slots : s # r => slots'[s] = slots[s]
      /\ Len(free') = Len(free) + 1
  BY Zenon, <1>1, <1>2, FinishedTable
<1>4. Live(slots)' = Live(slots) \ {r} /\ r \in Live(slots)
  BY Zenon, <1>1, <1>3 DEF Live
<1>5. /\ Len(slots) \in Nat /\ Len(free) \in Nat
      /\ IsFiniteSet(Live(slots)) /\ Cardinality(Live(slots)) \in Nat
  BY Zenon, CountFacts DEF SchedulerInv
<1>6. Cardinality(Live(slots)') = Cardinality(Live(slots)) - 1
  BY Zenon, <1>4, <1>5, FS_RemoveElement, Zenon
<1> QED
  BY <1>3, <1>5, <1>6 DEF CountInv

\* Every slot is in use or free, always.
LEMMA CountCorrect == Spec => []CountInv
<1>1. Init => CountInv
  <2> SUFFICES ASSUME Init PROVE CountInv
    BY Zenon
  <2>1. Live(slots) = {} /\ Len(slots) = 0 /\ Len(free) = 0
    BY DEF Init, Live
  <2> QED
    BY SMTT(30), SMTT(60), <2>1, FS_EmptySet DEF CountInv
<1>2. ASSUME SchedulerInv, SchedulerInv', CountInv, [Next]_vars PROVE CountInv'
  <2>1. CASE Add \/ BlockOn
    BY SMTT(30), SMTT(60), <1>2, <2>1, AddCounts DEF Add, BlockOn
  <2>2. CASE Finish
    BY Zenon, <1>2, <2>2, FinishCounts
  <2>3. CASE Pop
    <3>1. CASE UNCHANGED slots
      BY Zenon, <1>2, <2>3, <3>1 DEF Pop, CountInv, Live
    <3>2. CASE Current(Head(queue)) /\ Take(Head(queue))
      BY ZenonT(40), <1>2, <2>3, <3>2, MoveCounts DEF Pop, Take, Current
    <3> QED
      BY Zenon, <2>3, <3>1, <3>2 DEF Pop, Skip
  <2>4. CASE Pending \/ Yield
    <3>1. At("poll") /\ PutBack /\ UNCHANGED <<free, idOf>>
      BY Zenon, <2>4 DEF Pending, Yield
    <3>2. Top.id.slot \in DOMAIN slots /\ slots[Top.id.slot].live
      BY Zenon, <1>2, <3>1, PolledFacts DEF Current
    <3> QED
      BY ZenonT(40), <1>2, <3>1, <3>2, MoveCounts DEF PutBack
  <2>5. CASE Run \/ Ready \/ Return \/ ClusterCall \/ CloneWaker \/ UNCHANGED vars
    <3>1. UNCHANGED <<slots, free>>
      BY ZenonT(40), <2>5 DEF Run, Ready, Return, ClusterCall, CloneWaker, vars, table
    <3> QED
      BY Zenon, <1>2, <3>1 DEF CountInv, Live
  <2>6. CASE (\E id \in Wakeable : Wake(id)) \/ \E id \in wakers : DropWaker(id)
    <3>1. UNCHANGED <<slots, free>>
      BY Zenon, <2>6 DEF Wake, DropWaker, table
    <3> QED
      BY Zenon, <1>2, <3>1 DEF CountInv, Live
  <2> QED
    BY ZenonT(40), <1>2, <2>1, <2>2, <2>3, <2>4, <2>5, <2>6 DEF Next
<1> QED
  BY <1>1, <1>2, SchedulerCorrect, PTL DEF Spec

\* A waker left over from an earlier occupant of a slot is harmless, however
\* often slots are reused (rt.rs, Table::add and Executor::run): ids are never
\* given twice, slots are neither lost nor offered twice, and the task polled
\* is the one whose id was queued.
THEOREM Generations == Spec => []StaleWakersAreHarmless
<1>1. SchedulerInv /\ CountInv => StaleWakersAreHarmless
  <2> SUFFICES ASSUME SchedulerInv, CountInv PROVE StaleWakersAreHarmless
    BY Zenon
  <2>1. \A s, t \in Task : idOf[s] = idOf[t] => s = t
    BY Zenon DEF SchedulerInv, TableInv
  <2>2. slot_count = live_tasks + Len(free)
    BY Zenon DEF CountInv, Live, slot_count, live_tasks
  <2>3. ASSUME NEW i \in DOMAIN frames, frames[i].id # NoId
        PROVE idOf[slots[frames[i].id.slot].task] = frames[i].id
    <3>1. Current(frames[i].id) /\ frames[i].id \in Id
      BY Zenon, <2>3, Members DEF SchedulerInv, FrameInv, RunState
    <3> QED
      BY Zenon, <3>1 DEF Current, SchedulerInv, TableInv, Id
  <2> QED
    BY Zenon, <2>1, <2>2, <2>3 DEF StaleWakersAreHarmless
<1> QED
  BY <1>1, SchedulerCorrect, CountCorrect, PTL

=============================================================================
