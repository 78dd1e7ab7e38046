------------------------------ MODULE EpochRcu ------------------------------
(***************************************************************************)
(* Epoch-based reclamation: src/epoch_rcu.rs.  Readers register an entry   *)
(* epoch and clone the current version, writers replace it and retire the  *)
(* old one under a new epoch, reclaimers free the retirees no active       *)
(* reader entered before.  Every mutex section and every atomic operation  *)
(* is a step of its own.                                                   *)
(*                                                                         *)
(* One process per call.  The version a writer publishes is named after    *)
(* it; First is the version the cell starts with.                          *)
(***************************************************************************)
EXTENDS Integers, Sequences, FiniteSets

CONSTANTS Reader, Writer, Reclaimer, First

ASSUME EpochAssumption ==
  /\ First \notin Writer /\ IsFiniteSet(Writer)
  /\ Reader \cap Writer = {} /\ Reader \cap Reclaimer = {} /\ Writer \cap Reclaimer = {}

VARIABLES
  epoch,    \* EpochManager::epoch
  active,   \* the registered readers (EpochManager::active holds their entries)
  retired,  \* EpochManager::retired: (tag, version) pairs
  current,  \* Rcu::current
  pc,
  entry,    \* the epoch each reader loaded
  held,     \* the version each reader cloned
  old,      \* the version each writer replaced
  tag,      \* the epoch under which a version was retired, 0 if it was not
  min,      \* what each reclaimer computed from active; NoReader for u64::MAX
  seen,     \* the readers it saw
  freed     \* the versions freed, each with the reclaimer that freed it

vars == <<epoch, active, retired, current, pc, entry, held, old, tag, min, seen, freed>>

Version == Writer \cup {First}
Proc == Reader \cup Writer \cup Reclaimer
NoReader == Cardinality(Writer) + 1

TypeOK ==
  /\ epoch \in Nat
  /\ active \subseteq Reader
  /\ retired \in Seq(Nat \X Version)
  /\ current \in Version
  /\ pc \in [Proc -> {"idle", "enter", "clone", "reading", "retire", "push", "free", "done"}]
  /\ entry \in [Reader -> Nat]
  /\ held \in [Reader -> Version]
  /\ old \in [Writer -> Version]
  /\ tag \in [Version -> Nat]
  /\ min \in [Reclaimer -> Nat]
  /\ seen \in [Reclaimer -> SUBSET Reader]
  /\ freed \subseteq Version \X Reclaimer

Init ==
  /\ epoch = 0 /\ active = {} /\ retired = <<>> /\ current = First
  /\ pc = [p \in Proc |-> "idle"]
  /\ entry = [r \in Reader |-> 0] /\ held = [r \in Reader |-> First]
  /\ old = [w \in Writer |-> First] /\ tag = [v \in Version |-> 0]
  /\ min = [c \in Reclaimer |-> 0] /\ seen = [c \in Reclaimer |-> {}]
  /\ freed = {}

Goto(p, from, to) == pc[p] = from /\ pc' = [pc EXCEPT ![p] = to]

-----------------------------------------------------------------------------
(* Rcu::snapshot and the reader's guard *)

\* enter_raw: load the epoch ...
LoadEpoch(r) ==
  /\ Goto(r, "idle", "enter")
  /\ entry' = [entry EXCEPT ![r] = epoch]
  /\ UNCHANGED <<epoch, active, retired, current, held, old, tag, min, seen, freed>>

\* ... and register it.
Register(r) ==
  /\ Goto(r, "enter", "clone")
  /\ active' = active \cup {r}
  /\ UNCHANGED <<epoch, retired, current, entry, held, old, tag, min, seen, freed>>

\* Clone the current version.
Clone(r) ==
  /\ Goto(r, "clone", "reading")
  /\ held' = [held EXCEPT ![r] = current]
  /\ UNCHANGED <<epoch, active, retired, current, entry, old, tag, min, seen, freed>>

\* exit: the guard is dropped.
Exit(r) ==
  /\ Goto(r, "reading", "done")
  /\ active' = active \ {r}
  /\ UNCHANGED <<epoch, retired, current, entry, held, old, tag, min, seen, freed>>

-----------------------------------------------------------------------------
(* Rcu::publish *)

\* Replace the current version.
Replace(w) ==
  /\ Goto(w, "idle", "retire")
  /\ old' = [old EXCEPT ![w] = current]
  /\ current' = w
  /\ UNCHANGED <<epoch, active, retired, entry, held, tag, min, seen, freed>>

\* Mutant: the tag is the epoch before the advance.
AdvanceStaleTag(w) ==
  /\ Goto(w, "retire", "push")
  /\ epoch' = epoch + 1
  /\ tag' = [tag EXCEPT ![old[w]] = epoch]
  /\ UNCHANGED <<active, retired, current, entry, held, old, min, seen, freed>>

\* retire: advance the epoch ...
Advance(w) ==
  /\ Goto(w, "retire", "push")
  /\ epoch' = epoch + 1
  /\ tag' = [tag EXCEPT ![old[w]] = epoch + 1]
  /\ UNCHANGED <<active, retired, current, entry, held, old, min, seen, freed>>

\* ... and queue the old version under it.
Push(w) ==
  /\ Goto(w, "push", "done")
  /\ retired' = Append(retired, <<tag[old[w]], old[w]>>)
  /\ UNCHANGED <<epoch, active, current, entry, held, old, tag, min, seen, freed>>

-----------------------------------------------------------------------------
(* Rcu::reclaim *)

\* The smallest entry epoch of the active readers ...
MinActive(c) ==
  /\ Goto(c, "idle", "free")
  /\ \/ active = {} /\ min' = [min EXCEPT ![c] = NoReader]
     \/ \E r \in active : /\ \A q \in active : entry[r] <= entry[q]
                          /\ min' = [min EXCEPT ![c] = entry[r]]
  /\ seen' = [seen EXCEPT ![c] = active]
  /\ UNCHANGED <<epoch, active, retired, current, entry, held, old, tag, freed>>

\* Mutant: the queue keeps what was freed.
FreeNotDrained(c) ==
  /\ Goto(c, "free", "done")
  /\ \E n \in 0..Len(retired) :
       /\ \A i \in 1..n : retired[i][1] <= min[c]
       /\ n < Len(retired) => retired[n + 1][1] > min[c]
       /\ retired' = retired
       /\ freed' = freed \cup {<<retired[i][2], c>> : i \in 1..n}
  /\ UNCHANGED <<epoch, active, current, entry, held, old, tag, min, seen>>

\* ... then, under the queue's lock, drain the longest prefix tagged at or
\* below it.
Free(c) ==
  /\ Goto(c, "free", "done")
  /\ \E n \in 0..Len(retired) :
       /\ \A i \in 1..n : retired[i][1] <= min[c]
       /\ n < Len(retired) => retired[n + 1][1] > min[c]
       /\ retired' = SubSeq(retired, n + 1, Len(retired))
       /\ freed' = freed \cup {<<retired[i][2], c>> : i \in 1..n}
  /\ UNCHANGED <<epoch, active, current, entry, held, old, tag, min, seen>>

Next ==
  \/ \E r \in Reader : LoadEpoch(r) \/ Register(r) \/ Clone(r) \/ Exit(r)
  \/ \E w \in Writer : Replace(w) \/ Advance(w) \/ Push(w)
  \/ \E c \in Reclaimer : MinActive(c) \/ Free(c)

Spec == Init /\ [][Next]_vars

-----------------------------------------------------------------------------
(* Properties *)

\* The soundness argument in the module's documentation: any version a reader
\* can hold was retired at an epoch strictly greater than that reader's entry.
HeldIsTaggedAbove ==
  \A r \in Reader : pc[r] = "reading" /\ tag[held[r]] # 0 => tag[held[r]] > entry[r]

\* The current version is never freed, and no version is freed twice.
FreedOnce ==
  /\ \A f \in freed : f[1] # current
  /\ \A f, g \in freed : f[1] = g[1] => f = g

\* A reclaimer frees no version held by a reader that was registered when the
\* reclaimer computed the minimum.
SeenReadersAreSafe ==
  \A r \in Reader, f \in freed :
    pc[r] = "reading" /\ f[1] = held[r] => r \notin seen[f[2]]

=============================================================================
