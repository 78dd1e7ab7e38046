-------------------------- MODULE StructureProofs --------------------------
(***************************************************************************)
(* Proofs about components that have no state in common: EpochRcu, for any *)
(* sets of readers, writers and reclaimers; DocumentFile, for a directory  *)
(* of any depth and any number of commits, failures and power losses; the  *)
(* deadlines of Reactor, for any streams and timeouts; and SnapshotMap     *)
(* with Checker, for any keys, values, batches and orders of recording.    *)
(***************************************************************************)
EXTENDS EpochRcu, DocumentFile, Reactor, Checker, TLAPS, FiniteSetTheorems

-----------------------------------------------------------------------------
(* Epoch-based reclamation *)

\* The initial state has the types TypeOK gives.
LEMMA InitTypeOK == Init => TypeOK
  BY DEF Init, TypeOK, Version, Proc

\* Every step of a reader, a writer or a reclaimer keeps the types.
LEMMA NextTypeOK == TypeOK /\ [Next]_vars => TypeOK'
<1>0. NoReader \in Nat
  BY EpochAssumption, FS_CardinalityType DEF NoReader
<1> SUFFICES ASSUME TypeOK, [Next]_vars PROVE TypeOK'
  BY Zenon
<1>1. ASSUME NEW r \in Reader, LoadEpoch(r) \/ Register(r) \/ Clone(r) \/ Exit(r)
      PROVE TypeOK'
  <2>0. pc' \in [Proc -> {"idle", "enter", "clone", "reading", "retire", "push", "free", "done"}]
    BY Zenon, <1>1 DEF TypeOK, LoadEpoch, Register, Clone, Exit, Goto
  <2>1. CASE LoadEpoch(r)
    BY Zenon, <2>0, <2>1 DEF TypeOK, LoadEpoch
  <2>2. CASE Register(r)
    BY Zenon, <2>0, <2>2 DEF TypeOK, Register
  <2>3. CASE Clone(r)
    BY Zenon, <2>0, <2>3 DEF TypeOK, Clone
  <2>4. CASE Exit(r)
    BY Zenon, <2>0, <2>4 DEF TypeOK, Exit
  <2> QED
    BY Zenon, <1>1, <2>1, <2>2, <2>3, <2>4
<1>2. ASSUME NEW w \in Writer, Replace(w) \/ Advance(w) PROVE TypeOK'
  <2>0. pc' \in [Proc -> {"idle", "enter", "clone", "reading", "retire", "push", "free", "done"}]
    BY Zenon, <1>2 DEF TypeOK, Replace, Advance, Goto
  <2>1. CASE Replace(w)
    <3>1. old' \in [Writer -> Version] /\ current' \in Version
      BY Zenon, <2>1 DEF TypeOK, Replace, Version
    <3> QED
      BY Zenon, <2>0, <2>1, <3>1 DEF TypeOK, Replace
  <2>2. CASE Advance(w)
    <3>1. epoch' \in Nat /\ tag' \in [Version -> Nat]
      BY <2>2 DEF TypeOK, Advance
    <3> QED
      BY Zenon, <2>0, <2>2, <3>1 DEF TypeOK, Advance
  <2> QED
    BY Zenon, <1>2, <2>1, <2>2
<1>3. ASSUME NEW w \in Writer, Push(w) PROVE TypeOK'
  <2>1. <<tag[old[w]], old[w]>> \in Nat \X Version
    BY Zenon DEF TypeOK
  <2>2. retired' \in Seq(Nat \X Version)
    BY <1>3, <2>1 DEF TypeOK, Push
  <2> QED
    BY Zenon, <1>3, <2>2 DEF TypeOK, Push, Goto, Proc
<1>4. ASSUME NEW c \in Reclaimer, MinActive(c) PROVE TypeOK'
  <2>1. min' \in [Reclaimer -> Nat]
    BY Zenon, <1>0, <1>4 DEF TypeOK, MinActive
  <2> QED
    BY Zenon, <1>4, <2>1 DEF TypeOK, MinActive, Goto, Proc
<1>5. ASSUME NEW c \in Reclaimer, Free(c) PROVE TypeOK'
  <2>1. PICK n \in 0..Len(retired) :
          /\ retired' = SubSeq(retired, n + 1, Len(retired))
          /\ freed' = freed \cup {<<retired[i][2], c>> : i \in 1..n}
    BY Zenon, <1>5 DEF Free
  <2>2. retired' \in Seq(Nat \X Version)
    BY <2>1 DEF TypeOK
  <2>3. \A i \in 1..n : retired[i] \in Nat \X Version
    BY SMTT(60), <2>1 DEF TypeOK
  <2>4. freed' \subseteq Version \X Reclaimer
    BY SMTT(60), <2>1, <2>3 DEF TypeOK
  <2> QED
    BY Zenon, <1>5, <2>2, <2>4 DEF TypeOK, Free, Goto, Proc
<1>6. ASSUME UNCHANGED vars PROVE TypeOK'
  BY Zenon, <1>6 DEF TypeOK, vars
<1> QED
  BY Zenon, <1>1, <1>2, <1>3, <1>4, <1>5, <1>6 DEF Next

\* EpochManager and Rcu keep their types.
THEOREM TypeCorrect == Spec => []TypeOK
  BY InitTypeOK, NextTypeOK, PTL DEF Spec

-----------------------------------------------------------------------------
\* What ties the tags, the queue and the processes together.  A version is
\* untagged until its writer's fetch_add, and goes from the cell through one
\* writer's hands into the queue and out of it once.
Writers ==
  /\ tag[current] = 0
  /\ \A w \in Writer : pc[w] = "idle" =>
       w # current /\ tag[w] = 0 /\ \A u \in Writer : pc[u] = "retire" => old[u] # w
  /\ \A w \in Writer : pc[w] = "retire" => old[w] # current /\ tag[old[w]] = 0
  /\ \A w \in Writer : pc[w] = "push" => tag[old[w]] # 0
  /\ \A u, w \in Writer :
       u # w /\ pc[u] \in {"retire", "push"} /\ pc[w] \in {"retire", "push"} => old[u] # old[w]

Queue ==
  /\ \A i \in DOMAIN retired : retired[i][1] = tag[retired[i][2]] /\ retired[i][1] # 0
  /\ \A i, j \in DOMAIN retired : retired[i][2] = retired[j][2] => i = j
  /\ \A i \in DOMAIN retired, w \in Writer : pc[w] = "push" => retired[i][2] # old[w]
  /\ \A i \in DOMAIN retired, f \in freed : retired[i][2] # f[1]

Freed ==
  /\ \A f \in freed : tag[f[1]] # 0 /\ tag[f[1]] <= min[f[2]] /\ pc[f[2]] = "done"
  /\ \A f \in freed, w \in Writer : pc[w] = "push" => f[1] # old[w]
  /\ \A f, g \in freed : f[1] = g[1] => f = g

Readers ==
  /\ \A r \in Reader : pc[r] # "idle" => entry[r] <= epoch
  /\ \A r \in active : pc[r] # "idle"
  /\ \A c \in Reclaimer, r \in Reader :
       pc[c] # "idle" /\ r \in seen[c] => pc[r] # "idle" /\ min[c] <= entry[r]
  /\ HeldIsTaggedAbove

EpochInv == Writers /\ Queue /\ Freed /\ Readers

\* The invariant gives the three properties of EpochRcu_safety.
LEMMA InvImplies == TypeOK /\ EpochInv => HeldIsTaggedAbove /\ FreedOnce /\ SeenReadersAreSafe
<1> SUFFICES ASSUME TypeOK, EpochInv
             PROVE HeldIsTaggedAbove /\ FreedOnce /\ SeenReadersAreSafe
  BY Zenon
<1>1. FreedOnce
  BY Zenon DEF EpochInv, Writers, Freed, FreedOnce
<1>2. ASSUME NEW r \in Reader, NEW f \in freed, pc[r] = "reading", f[1] = held[r],
             r \in seen[f[2]]
      PROVE FALSE
  <2>1. f[2] \in Reclaimer /\ f[1] \in Version
    BY Zenon DEF TypeOK
  <2>2. tag[f[1]] # 0 /\ tag[f[1]] <= min[f[2]] /\ pc[f[2]] = "done"
    BY Zenon DEF EpochInv, Freed
  <2>3. min[f[2]] <= entry[r]
    BY Zenon, <1>2, <2>1, <2>2 DEF EpochInv, Readers
  <2>4. tag[f[1]] > entry[r]
    BY Zenon, <1>2, <2>2 DEF EpochInv, Readers, HeldIsTaggedAbove
  <2>5. tag[f[1]] \in Nat /\ entry[r] \in Nat /\ min[f[2]] \in Nat
    BY Zenon, <2>1 DEF TypeOK
  <2> QED
    BY <2>2, <2>3, <2>4, <2>5
<1> QED
  BY Zenon, <1>1, <1>2 DEF SeenReadersAreSafe, EpochInv, Readers

\* Nothing is retired, held or freed at the start.
LEMMA InitInv == Init => EpochInv
  BY EpochAssumption DEF Init, EpochInv, Writers, Queue, Freed, Readers, HeldIsTaggedAbove,
     Version, Proc

\* Every step keeps the invariant.
LEMMA NextInv == TypeOK /\ EpochInv /\ [Next]_vars => EpochInv'
<1> SUFFICES ASSUME TypeOK, EpochInv, [Next]_vars PROVE EpochInv'
  BY Zenon
<1> USE EpochAssumption
<1>1. ASSUME NEW r \in Reader, LoadEpoch(r) \/ Register(r) \/ Clone(r) \/ Exit(r)
      PROVE EpochInv'
  <2>1. \A w \in Writer : pc'[w] = pc[w]
    BY SMTT(60), <1>1 DEF LoadEpoch, Register, Clone, Exit, Goto, TypeOK, Proc
  <2>2. \A c \in Reclaimer : pc'[c] = pc[c]
    BY SMTT(60), <1>1 DEF LoadEpoch, Register, Clone, Exit, Goto, TypeOK, Proc
  <2>3. Writers'
    BY SMTT(60), <1>1, <2>1 DEF LoadEpoch, Register, Clone, Exit, Writers, EpochInv
  <2>4. Queue'
    BY <1>1, <2>1 DEF LoadEpoch, Register, Clone, Exit, Queue, EpochInv
  <2>5. Freed'
    <3>1. \A f \in freed : f[2] \in Reclaimer
      BY Zenon DEF TypeOK
    <3>2. UNCHANGED <<freed, tag, min, old>>
      BY Zenon, <1>1 DEF LoadEpoch, Register, Clone, Exit
    <3> QED
      BY <2>1, <2>2, <3>1, <3>2 DEF Freed, EpochInv
  <2>6. Readers'
    <3> USE DEF Goto, Readers, Writers, EpochInv, HeldIsTaggedAbove
    <3>0. /\ pc \in [Proc -> {"idle", "enter", "clone", "reading", "retire", "push", "free", "done"}]
          /\ r \in Proc /\ epoch \in Nat /\ entry \in [Reader -> Nat] /\ held \in [Reader -> Version]
          /\ active \subseteq Reader /\ Reader \subseteq Proc
      BY ZenonT(40) DEF TypeOK, Proc
    <3>1. CASE LoadEpoch(r)
      BY SMTT(60), <2>2, <3>0, <3>1 DEF LoadEpoch
    <3>2. CASE Register(r)
      BY SMTT(60), <2>2, <3>0, <3>2 DEF Register
    <3>3. CASE Clone(r)
      BY SMTT(60), <2>2, <3>0, <3>3 DEF Clone
    <3>4. CASE Exit(r)
      BY <2>2, <3>0, <3>4 DEF Exit
    <3> QED
      BY Zenon, <1>1, <3>1, <3>2, <3>3, <3>4
  <2> QED
    BY Zenon, <2>3, <2>4, <2>5, <2>6 DEF EpochInv
<1>2. ASSUME NEW w \in Writer, Replace(w) \/ Advance(w) \/ Push(w)
      PROVE EpochInv'
  <2>1. \A p \in Proc : p # w => pc'[p] = pc[p]
    BY Zenon, <1>2 DEF Replace, Advance, Push, Goto, TypeOK
  <2>2. \A c \in Reclaimer : pc'[c] = pc[c]
    BY Zenon, <2>1 DEF Proc
  <2>3. \A r \in Reader : pc'[r] = pc[r]
    BY Zenon, <2>1 DEF Proc
  <2>4. Writers'
    <3> USE DEF Goto, Writers, EpochInv
    <3>0. /\ pc \in [Proc -> {"idle", "enter", "clone", "reading", "retire", "push", "free", "done"}]
          /\ Writer \subseteq Proc /\ Writer \subseteq Version /\ current \in Version
          /\ epoch \in Nat /\ old \in [Writer -> Version] /\ tag \in [Version -> Nat]
      BY Zenon DEF TypeOK, Proc, Version
    <3>1. CASE Replace(w)
      <4>1. \A u \in Writer : pc[u] = "push" => old[u] # current
        BY Zenon, <3>0
      <4> QED
        BY <3>0, <3>1, <4>1 DEF Replace
    <3>2. CASE Advance(w)
      <4>1. epoch + 1 # 0 /\ tag'[old[w]] = epoch + 1
        BY <3>0, <3>2 DEF Advance
      <4>2. \A v \in Version : v # old[w] => tag'[v] = tag[v]
        BY Zenon, <3>0, <3>2 DEF Advance
      <4>3. UNCHANGED <<current, old>> /\ pc[w] = "retire" /\ pc' = [pc EXCEPT ![w] = "push"]
        BY Zenon, <3>2 DEF Advance
      <4> QED
        BY <3>0, <4>1, <4>2, <4>3
    <3>3. CASE Push(w)
      BY <3>0, <3>3 DEF Push
    <3> QED
      BY Zenon, <1>2, <3>1, <3>2, <3>3
  <2>5. Queue'
    <3>1. CASE Replace(w)
      BY SMTT(60), <3>1 DEF Replace, Goto, Queue, EpochInv, TypeOK, Proc
    <3>2. CASE Advance(w)
      <4>1. \A i \in DOMAIN retired : retired[i] \in Nat \X Version
        BY DEF TypeOK
      <4>2. tag[old[w]] = 0 /\ old[w] \in Version /\ epoch \in Nat
        BY Zenon, <3>2 DEF Advance, Goto, EpochInv, Writers, TypeOK
      <4>3. \A i \in DOMAIN retired : retired[i][2] # old[w] /\ retired[i][2] \in Version
        BY SMTT(60), <4>1, <4>2 DEF EpochInv, Queue
      <4> QED
        BY SMTT(60), <3>2, <4>2, <4>3 DEF Advance, Goto, Queue, EpochInv, TypeOK, Proc
    <3>3. CASE Push(w)
      <4>1. DOMAIN retired = 1..Len(retired) /\ Len(retired) \in Nat
        BY DEF TypeOK
      <4>2. DOMAIN retired' = 1..(Len(retired) + 1)
        BY <3>3 DEF Push, TypeOK
      <4>3. \A i \in 1..Len(retired) : retired'[i] = retired[i]
        BY <3>3 DEF Push, TypeOK
      <4>4. retired'[Len(retired) + 1] = <<tag[old[w]], old[w]>>
        BY <3>3 DEF Push, TypeOK
      <4>5. tag[old[w]] # 0 /\ pc[w] = "push" /\ pc'[w] = "done"
        BY Zenon, <3>3 DEF Push, Goto, EpochInv, Writers, TypeOK, Proc
      <4>6. \A u \in Writer : pc'[u] = "push" => u # w /\ pc[u] = "push" /\ old[u] # old[w]
        BY Zenon, <3>3, <4>5 DEF Push, Goto, EpochInv, Writers, TypeOK, Proc
      <4>7. UNCHANGED <<tag, old, freed>>
        BY Zenon, <3>3 DEF Push
      <4> QED
        BY SMTT(60), <4>1, <4>2, <4>3, <4>4, <4>5, <4>6, <4>7 DEF Queue, EpochInv, Freed
    <3> QED
      BY Zenon, <1>2, <3>1, <3>2, <3>3
  <2>6. Freed'
    <3>1. \A f \in freed : f[1] \in Version /\ f[2] \in Reclaimer
      BY Zenon DEF TypeOK
    <3>2. CASE Replace(w)
      BY SMTT(60), <2>2, <3>1, <3>2 DEF Replace, Goto, Freed, EpochInv, TypeOK, Proc
    <3>3. CASE Advance(w)
      <4>1. tag[old[w]] = 0
        BY Zenon, <3>3 DEF Advance, Goto, EpochInv, Writers
      <4> QED
        BY <2>2, <3>1, <3>3, <4>1 DEF Advance, Goto, Freed, EpochInv, TypeOK, Proc
    <3>4. CASE Push(w)
      BY SMTT(60), <2>2, <3>1, <3>4 DEF Push, Goto, Freed, EpochInv, TypeOK, Proc
    <3> QED
      BY Zenon, <1>2, <3>2, <3>3, <3>4
  <2>7. Readers'
    <3> USE DEF Readers, EpochInv, HeldIsTaggedAbove
    <3>0. /\ epoch \in Nat /\ entry \in [Reader -> Nat] /\ held \in [Reader -> Version]
          /\ active \subseteq Reader /\ tag \in [Version -> Nat] /\ old \in [Writer -> Version]
      BY Zenon DEF TypeOK
    <3>1. CASE Replace(w)
      BY ZenonT(40), <2>2, <2>3, <3>0, <3>1 DEF Replace
    <3>2. CASE Advance(w)
      <4>1. \A r \in Reader : pc[r] = "reading" /\ held[r] = old[w] => epoch + 1 > entry[r]
        BY <3>0
      <4> QED
        BY SMTT(60), <2>2, <2>3, <3>0, <3>2, <4>1 DEF Advance
    <3>3. CASE Push(w)
      BY Zenon, <2>2, <2>3, <3>0, <3>3 DEF Push
    <3> QED
      BY Zenon, <1>2, <3>1, <3>2, <3>3
  <2> QED
    BY Zenon, <2>4, <2>5, <2>6, <2>7 DEF EpochInv
<1>3. ASSUME NEW c \in Reclaimer, MinActive(c) \/ Free(c)
      PROVE EpochInv'
  <2>1. \A p \in Reader \cup Writer : pc'[p] = pc[p]
    BY SMTT(60), <1>3 DEF MinActive, Free, Goto, TypeOK, Proc
  <2>2. Writers'
    BY SMTT(60), <1>3, <2>1 DEF MinActive, Free, Writers, EpochInv
  <2>3. Readers'
    <3> USE DEF Readers, EpochInv, HeldIsTaggedAbove, Goto
    <3>0. /\ active \subseteq Reader /\ seen \in [Reclaimer -> SUBSET Reader]
          /\ min \in [Reclaimer -> Nat]
          /\ \A d \in Reclaimer : d # c => pc'[d] = pc[d]
      BY Zenon, <1>3 DEF TypeOK, MinActive, Free, Proc
    <3>1. CASE MinActive(c)
      <4>1. \A q \in active : min'[c] <= entry[q]
        BY Zenon, <3>0, <3>1 DEF MinActive
      <4>2. \A d \in Reclaimer : d # c => min'[d] = min[d] /\ seen'[d] = seen[d]
        BY Zenon, <3>0, <3>1 DEF MinActive
      <4>3. seen'[c] = active
        BY Zenon, <3>0, <3>1 DEF MinActive
      <4> QED
        BY SMTT(60), <2>1, <3>0, <3>1, <4>1, <4>2, <4>3 DEF MinActive
    <3>2. CASE Free(c)
      BY ZenonT(40), <2>1, <3>0, <3>2 DEF Free
    <3> QED
      BY Zenon, <1>3, <3>1, <3>2
  <2>4. Queue' /\ Freed'
    <3>1. CASE MinActive(c)
      <4>1. \A f \in freed : f[1] \in Version /\ f[2] \in Reclaimer /\ f[2] # c
        BY Zenon, <3>1 DEF TypeOK, MinActive, Goto, EpochInv, Freed
      <4>2. \A d \in Reclaimer : d # c => min'[d] = min[d] /\ pc'[d] = pc[d]
        BY <3>1 DEF TypeOK, MinActive, Goto
      <4> QED
        BY SMTT(60), <2>1, <3>1, <4>1, <4>2 DEF MinActive, Queue, Freed, EpochInv
    <3>2. CASE Free(c)
      <4>1. PICK n \in 0..Len(retired) :
              /\ \A i \in 1..n : retired[i][1] <= min[c]
              /\ retired' = SubSeq(retired, n + 1, Len(retired))
              /\ freed' = freed \cup {<<retired[i][2], c>> : i \in 1..n}
        BY Zenon, <3>2 DEF Free
      <4>2. DOMAIN retired = 1..Len(retired) /\ Len(retired) \in Nat
        BY DEF TypeOK
      <4>3. /\ DOMAIN retired' = 1..(Len(retired) - n)
            /\ \A i \in 1..(Len(retired) - n) : retired'[i] = retired[i + n] /\ i + n \in DOMAIN retired
        BY SMTT(60), <4>1, <4>2 DEF TypeOK
      <4>4. pc[c] = "free" /\ pc' = [pc EXCEPT ![c] = "done"] /\ UNCHANGED <<tag, old, min>>
        BY Zenon, <3>2 DEF Free, Goto
      <4>5. \A f \in freed' : f \in freed \/ \E i \in 1..n : f = <<retired[i][2], c>>
        BY Zenon, <4>1
      <4>6. \A f \in freed' : f \in freed \/
              \E i \in DOMAIN retired : i <= n /\ f[1] = retired[i][2] /\ f[2] = c /\ retired[i][1] <= min[c]
        BY SMTT(60), <4>1, <4>2, <4>5
      <4>7. Queue'
        <5>1. \A i \in DOMAIN retired' : \E j \in DOMAIN retired : j = i + n /\ j > n /\ retired'[i] = retired[j]
          BY SMTT(60), <4>2, <4>3
        <5>2. \A i \in DOMAIN retired', f \in freed' : retired'[i][2] # f[1]
          BY <4>2, <4>6, <5>1 DEF Queue, EpochInv
        <5>3. \A i, j \in DOMAIN retired' : retired'[i][2] = retired'[j][2] => i = j
          <6>1. ASSUME NEW i \in DOMAIN retired', NEW j \in DOMAIN retired',
                       retired'[i][2] = retired'[j][2]
                PROVE i = j
            <7>1. i + n \in DOMAIN retired /\ j + n \in DOMAIN retired /\ i \in Int /\ j \in Int /\ n \in Int
              BY SMTT(60), <4>2, <4>3
            <7>2. retired[i + n][2] = retired[j + n][2]
              BY Zenon, <4>3, <6>1
            <7>3. i + n = j + n
              BY Zenon, <7>1, <7>2 DEF Queue, EpochInv
            <7> QED
              BY <7>1, <7>3
          <6> QED
            BY Zenon, <6>1
        <5> QED
          BY SMTT(60), <2>1, <4>4, <5>1, <5>2, <5>3 DEF Queue, EpochInv
      <4>8. pc'[c] = "done" /\ \A f \in freed : pc'[f[2]] = "done"
        BY Zenon, <4>4 DEF EpochInv, Freed, TypeOK, Proc
      <4>9. Freed'
        <5>1. \A f \in freed' : tag[f[1]] # 0 /\ tag[f[1]] <= min[f[2]] /\ pc'[f[2]] = "done"
          BY SMTT(60), <4>6, <4>8 DEF Queue, Freed, EpochInv
        <5>2. \A f \in freed', w \in Writer : pc[w] = "push" => f[1] # old[w]
          BY <4>6 DEF Queue, Freed, EpochInv
        <5>3. \A f, g \in freed' : f[1] = g[1] => f = g
          <6>1. ASSUME NEW f \in freed', NEW g \in freed', f[1] = g[1] PROVE f = g
            <7>1. CASE f \in freed /\ g \in freed
              BY Zenon, <6>1, <7>1 DEF Freed, EpochInv
            <7>2. CASE f \notin freed /\ g \notin freed
              BY SMTT(60), <4>5, <6>1, <7>2
            <7>3. CASE f \in freed /\ g \notin freed
              BY SMTT(60), <4>6, <6>1, <7>3 DEF Queue, EpochInv
            <7>4. CASE f \notin freed /\ g \in freed
              BY SMTT(60), <4>6, <6>1, <7>4 DEF Queue, EpochInv
            <7> QED
              BY Zenon, <7>1, <7>2, <7>3, <7>4
          <6> QED
            BY Zenon, <6>1
        <5> QED
          BY SMTT(60), <2>1, <4>4, <5>1, <5>2, <5>3 DEF Freed
      <4> QED
        BY Zenon, <4>7, <4>9
    <3> QED
      BY ZenonT(40), <1>3, <3>1, <3>2
  <2> QED
    BY ZenonT(40), <2>2, <2>3, <2>4 DEF EpochInv
<1>4. ASSUME UNCHANGED vars PROVE EpochInv'
  BY ZenonT(40), <1>4 DEF vars, EpochInv, Writers, Queue, Freed, Readers, HeldIsTaggedAbove
<1> QED
  BY Zenon, <1>1, <1>2, <1>3, <1>4 DEF Next

\* The invariant holds throughout, for any number of threads.
LEMMA EpochCorrect == Spec => [](TypeOK /\ EpochInv)
<1>1. Init => TypeOK /\ EpochInv
  BY Zenon, InitTypeOK, InitInv
<1>2. TypeOK /\ EpochInv /\ [Next]_vars => (TypeOK /\ EpochInv)'
  BY Zenon, NextTypeOK, NextInv
<1> QED
  BY <1>1, <1>2, PTL DEF Spec

\* The soundness argument of the module's documentation: whatever a reader
\* holds is still current or retired above the epoch the reader entered at.
THEOREM Tagging == Spec => []HeldIsTaggedAbove
  BY EpochCorrect, InvImplies, PTL

\* No version is freed twice, while it is current, or before it was retired,
\* however the writers' pushes and the reclaimers' drains interleave.
THEOREM SingleFree == Spec => []FreedOnce
  BY EpochCorrect, InvImplies, PTL

\* A reclaimer respects every reader that was registered when it took the
\* smallest active epoch.
THEOREM Reclamation == Spec => []SeenReadersAreSafe
  BY EpochCorrect, InvImplies, PTL

-----------------------------------------------------------------------------
(* The document file *)

File == [doc : Nat, whole : BOOLEAN, synced : BOOLEAN]

\* A file that open finds, after a power loss too, to be the last document
\* committed or one tried since.
Sure(f) == f.whole /\ f.synced /\ f.doc \in since \cup {good}

\* The files: whichever of them btree.dat turns out to be, it will do, and
\* btree.tmp is whole and synced before it becomes btree.dat.
FileInv ==
  /\ live \in names
  /\ \A f \in names : Sure(f)
  /\ step # "idle" => doc \in since
  /\ step \in {"write", "sync", "rename"} => tmp.doc = doc
  /\ step \in {"sync", "rename"} => tmp.whole
  /\ step = "rename" => tmp.synced
  /\ step = "fsync" => live.doc = doc

\* The directories: what exists between two calls is settled, and what a call
\* found missing is what is not; a commit that returned has settled them all.
PathInv ==
  /\ good # 0 => Path \subseteq settled
  /\ settled \subseteq made /\ made \subseteq Path
  /\ step = "idle" => made = settled
  /\ step \in {"mkdir", "parents"} => missing = Path \ settled
  /\ step = "parents" => made = Path
  /\ step \in {"open", "write", "sync", "rename", "fsync"} => made = Path /\ settled = Path

DocumentType ==
  /\ doc \in Nat /\ good \in Nat /\ orphan \in BOOLEAN
  /\ tmp \in File /\ live \in File /\ names \subseteq File
  /\ step \in {"idle", "mkdir", "parents", "open", "write", "sync", "rename", "fsync"}

\* Once a call has ended with a directory made and not settled nothing is
\* claimed any more.
DocumentInv == DocumentType /\ (orphan \/ (FileInv /\ PathInv))

-----------------------------------------------------------------------------

\* Min, by which the directories are made and settled outermost first, is a
\* member of the set.
LEMMA MinIsMember ==
  ASSUME NEW S, S \subseteq Nat, S # {}
  PROVE  Min(S) \in S
<1> DEFINE R == OpToRel(<, Nat)
<1>1. PICK x \in S : \A y \in S : ~ (<<y, x>> \in R)
  <2>1. IsWellFoundedOn(R, Nat)
    BY Zenon, NatLessThanWellFounded
  <2> QED
    BY Zenon, <2>1, WFMin
<1>2. \A y \in S : ~ (y < x)
  BY Zenon, <1>1 DEF OpToRel
<1>3. \A y \in S : x <= y
  BY <1>2
<1> QED
  BY Zenon, <1>3 DEF Min

\* Before the first commit there is no directory and no document.
LEMMA InitDocument == DocumentInit => DocumentInv
<1> SUFFICES ASSUME DocumentInit PROVE DocumentInv
  BY Zenon
<1>1. NoFile \in File /\ NoFile.whole /\ NoFile.synced /\ NoFile.doc = 0
  BY Zenon DEF NoFile, File
<1>2. DocumentType
  BY Zenon, <1>1 DEF DocumentInit, DocumentType
<1>3. FileInv /\ PathInv
  BY Zenon, <1>1 DEF DocumentInit, FileInv, PathInv, Sure
<1> QED
  BY Zenon, <1>2, <1>3 DEF DocumentInv

\* create_dir_all_durably keeps the invariant: it settles all it found missing.
LEMMA DirectorySteps ==
  ASSUME DocumentInv, Begin \/ MakeDir \/ SyncParent
  PROVE  DocumentInv'
<1> USE DEF DocumentInv, DocumentType, FileInv, PathInv, Sure, disk, judged
<1>1. CASE Begin
  BY SMTT(60), <1>1 DEF Begin
<1>2. CASE MakeDir
  <2>1. ASSUME made # Path, made \subseteq Path PROVE Min(Path \ made) \in Path
    <3>0. Path \subseteq Nat
      BY DEF Path
    <3>1. Path \ made \subseteq Nat /\ Path \ made # {}
      BY Zenon, <2>1, <3>0
    <3>2. Min(Path \ made) \in Path \ made
      BY Zenon, <3>1, MinIsMember
    <3> QED
      BY Zenon, <3>2
  <2> QED
    BY Zenon, <1>2, <2>1 DEF MakeDir
<1>3. CASE SyncParent
  <2>1. CASE missing = {}
    BY Zenon, <1>3, <2>1 DEF SyncParent
  <2>2. CASE missing # {} /\ ~orphan
    <3>1. missing \subseteq Path /\ Path \subseteq Nat
      BY <1>3, <2>2 DEF SyncParent, Path
    <3>2. Min(missing) \in missing
      BY Zenon, <3>1, <2>2, MinIsMember
    <3> QED
      BY ZenonT(40), <1>3, <2>2, <3>1, <3>2 DEF SyncParent
  <2>3. CASE missing # {} /\ orphan
    BY Zenon, <1>3, <2>3 DEF SyncParent
  <2> QED
    BY Zenon, <2>1, <2>2, <2>3
<1> QED
  BY ZenonT(40), <1>1, <1>2, <1>3

\* So do the steps of commit_document: the file is whole and synced before the
\* rename, and after the directory's sync there is no other.
LEMMA FileSteps ==
  ASSUME DocumentInv, OpenTmp \/ WriteTmp \/ SyncTmp \/ Rename \/ SyncDir
  PROVE  DocumentInv'
<1> USE DEF DocumentInv, DocumentType, FileInv, PathInv, Sure, disk, judged, File
<1>1. CASE OpenTmp
  BY Zenon, <1>1 DEF OpenTmp
<1>2. CASE WriteTmp
  BY Zenon, <1>2 DEF WriteTmp
<1>3. CASE SyncTmp
  BY Zenon, <1>3 DEF SyncTmp
<1>4. CASE Rename
  BY ZenonT(40), <1>4 DEF Rename, NoFile
<1>5. CASE SyncDir
  BY Zenon, <1>5 DEF SyncDir
<1> QED
  BY Zenon, <1>1, <1>2, <1>3, <1>4, <1>5

\* So do errors and exits, which leave an orphan or a settled path.
LEMMA FailsKeeps ==
  ASSUME DocumentInv, Fails
  PROVE  DocumentInv'
  BY Zenon DEF DocumentInv, DocumentType, FileInv, PathInv, Sure, disk, judged, Fails

\* So do power losses: once a commit has returned every level is settled and
\* none can be lost, and of the files btree.dat may be any will do.
LEMMA PowerLossKeeps ==
  ASSUME DocumentInv, PowerLoss
  PROVE  DocumentInv'
<1>0. PICK left \in {Cardinality(made)} \cup {i - 1 : i \in made \ settled} :
       /\ made' = 1..left /\ settled' = 1..left
       /\ IF left < Levels THEN live' = NoFile
          ELSE \E f \in names : \E g \in Torn(f) : live' = [g EXCEPT !.synced = TRUE]
  BY Zenon DEF PowerLoss
<1>1. /\ names' = {live'} /\ step' = "idle" /\ tmp' = NoFile /\ NoFile \in File
      /\ good' = good /\ doc' = doc /\ since' = since /\ orphan' = orphan
  BY Zenon DEF PowerLoss, NoFile, File
<1>f. live' \in File
  <2>1. CASE live' = NoFile
    BY Zenon, <1>1, <2>1
  <2>2. CASE \E f \in names : \E g \in Torn(f) : live' = [g EXCEPT !.synced = TRUE]
    <3>1. PICK f \in names : \E g \in Torn(f) : live' = [g EXCEPT !.synced = TRUE]
      BY Zenon, <2>2
    <3>2. PICK g \in Torn(f) : live' = [g EXCEPT !.synced = TRUE]
      BY Zenon, <3>1
    <3>3. f \in File
      BY Zenon DEF DocumentInv, DocumentType
    <3>4. g \in File
      BY Zenon, <3>3 DEF Torn, File
    <3> QED
      BY Zenon, <3>2, <3>4 DEF File
  <2> QED
    BY Zenon, <1>0, <2>1, <2>2
<1>2. DocumentType'
  BY Zenon, <1>1, <1>f DEF DocumentInv, DocumentType
<1>3. ASSUME ~orphan PROVE FileInv' /\ PathInv'
  <2>0. /\ Path = 1..Levels /\ IsFiniteSet(Path) /\ Cardinality(Path) = Levels
    <3>1. 1 \in Int /\ Levels \in Int /\ ~(1 > Levels) /\ Levels - 1 + 1 = Levels
      BY DocumentAssumption
    <3> QED
      BY Zenon, <3>1, FS_Interval DEF Path
  <2>1. settled \subseteq made /\ made \subseteq Path /\ (good # 0 => Path \subseteq settled)
    BY Zenon, <1>3 DEF DocumentInv, PathInv
  <2>2. Cardinality(made) \in Nat /\ Cardinality(made) <= Levels
    BY ZenonT(40), <2>0, <2>1, FS_Subset, FS_CardinalityType
  <2>3. left \in Nat /\ left <= Levels
    BY <2>0, <2>1, <2>2, DocumentAssumption
  <2>4. good # 0 => left = Levels
    <3>1. good # 0 => made = Path /\ made \ settled = {}
      BY Zenon, <2>1
    <3> QED
      BY Zenon, <2>0, <3>1
  <2>6. PathInv'
    <3>1. made' = settled' /\ made' \subseteq Path' /\ (good' # 0 => Path' \subseteq settled')
      BY SMTT(60), <1>0, <1>1, <2>0, <2>3, <2>4, DocumentAssumption DEF Path
    <3> QED
      BY Zenon, <1>1, <3>1 DEF PathInv
  <2>7. Sure(live)'
    <3>1. CASE left < Levels
      BY SMTT(60), <1>0, <1>1, <2>3, <2>4, <3>1, DocumentAssumption DEF Sure, NoFile
    <3>2. CASE left = Levels
      <4>1. PICK f \in names : \E g \in Torn(f) : live' = [g EXCEPT !.synced = TRUE]
        BY SMTT(60), <1>0, <3>2, DocumentAssumption
      <4>2. Sure(f) /\ f \in File
        BY Zenon, <1>3 DEF DocumentInv, DocumentType, FileInv
      <4>3. Torn(f) = {f}
        BY Zenon, <4>2 DEF Sure, Torn
      <4>4. live' = f
        BY Zenon, <4>1, <4>2, <4>3 DEF Sure, File
      <4> QED
        BY Zenon, <1>1, <4>2, <4>4 DEF Sure
    <3> QED
      BY SMTT(60), <2>3, <3>1, <3>2, DocumentAssumption
  <2> QED
    BY Zenon, <1>1, <2>6, <2>7 DEF FileInv, Sure
<1> QED
  BY Zenon, <1>2, <1>3 DEF DocumentInv, PowerLoss

\* The invariant holds throughout.
LEMMA DocumentCorrect == DocumentSpec => []DocumentInv
<1>1. DocumentInv /\ [DocumentNext]_documentVars => DocumentInv'
  <2> SUFFICES ASSUME DocumentInv, [DocumentNext]_documentVars PROVE DocumentInv'
    BY Zenon
  <2>1. CASE UNCHANGED documentVars
    BY Zenon, <2>1 DEF documentVars, DocumentInv, DocumentType, FileInv, PathInv, Sure
  <2> QED
    BY ZenonT(40), <2>1, DirectorySteps, FileSteps, FailsKeeps, PowerLossKeeps DEF DocumentNext
<1> QED
  BY <1>1, InitDocument, PTL DEF DocumentSpec

\* Whatever fails and whenever the power goes, open finds the last document
\* whose commit returned, or one tried since, whole, unless a call ended with a
\* directory made and its parent not synced: for a path of any depth.
THEOREM Survival == DocumentSpec => []CommittedSurvives
<1>1. DocumentInv => CommittedSurvives
  BY Zenon DEF DocumentInv, FileInv, Sure, CommittedSurvives, OpenedDoc
<1> QED
  BY <1>1, DocumentCorrect, PTL

-----------------------------------------------------------------------------
(* The reactor *)

Duration == 0..Eternity
Call ==
  [at : {"idle", "write", "trip", "enter", "wait", "poll", "read"}, op : {"none", "wait", "trip"},
   src : Stream, token : Nat, bytes : Nat, deadline : Duration, ask : Duration, until : Duration,
   cut : BOOLEAN, result : {"none", "TimedOut", "false", "UnexpectedEof"}]

StreamState == [bytes : Nat, closed : BOOLEAN, token : Nat, event : BOOLEAN]

ReactorType ==
  /\ call \in Call /\ next \in Nat
  /\ stream \in [Stream -> StreamState]

\* What a wait was asked for is never less than what is left of the call's own
\* deadline, so a wait that is over leaves nothing of it; and a call in progress
\* has no result yet.
DeadlineInv ==
  /\ call.at = "enter" => call.deadline <= call.ask
  /\ call.at \in {"wait", "poll"} => call.deadline <= call.until
  /\ call.at # "idle" => call.result = "none"

ReactorInv == ReactorType /\ DeadlineInv /\ EndsForAReason

-----------------------------------------------------------------------------

\* A finite set of timeouts has a greatest one: a smallest set without one
\* would, without one of its members, still be such a set.
LEMMA HasGreatest ==
  ASSUME NEW S, IsFiniteSet(S), S \subseteq Nat, S # {}
  PROVE  \E x \in S : \A y \in S : x >= y
<1> DEFINE Bad == {U \in FiniteSubsetsOf(S) : U # {} /\ ~ \E x \in U : \A y \in U : x >= y}
           R == StrictSubsetOrdering(S)
<1>1. Bad = {}
  <2> SUFFICES ASSUME Bad # {} PROVE FALSE
    BY Zenon
  <2>1. PICK U \in Bad : \A V \in Bad : ~ (<<V, U>> \in R)
    <3>1. IsWellFoundedOn(R, FiniteSubsetsOf(S))
      BY Zenon, FS_StrictSubsetOrderingWellFounded
    <3>2. Bad \subseteq FiniteSubsetsOf(S)
      BY Zenon
    <3> HIDE DEF Bad, R
    <3> QED
      BY Zenon, <3>1, <3>2, WFMin
  <2>2. U \in SUBSET S /\ IsFiniteSet(U) /\ U # {} /\ U \subseteq Nat
    BY Zenon DEF FiniteSubsetsOf
  <2>3. PICK x \in U : TRUE
    BY Zenon, <2>2
  <2>4. PICK y \in U : ~ (x >= y)
    BY ZenonT(40), <2>2
  <2> DEFINE V == U \ {x}
  <2>5. V \in SUBSET S /\ IsFiniteSet(V) /\ y \in V
    BY SMTT(60), <2>2, <2>4, FS_RemoveElement
  <2>6. <<V, U>> \in R
    BY Zenon, <2>2, <2>3, <2>5 DEF StrictSubsetOrdering
  <2>7. V \notin Bad
    BY Zenon, <2>1, <2>6
  <2>8. PICK m \in V : \A z \in V : m >= z
    BY <2>5, <2>7 DEF FiniteSubsetsOf
  <2>9. \A z \in U : m >= z
    BY <2>2, <2>4, <2>5, <2>8
  <2> QED
    BY Zenon, <2>2, <2>8, <2>9
<1>2. S \in FiniteSubsetsOf(S)
  BY Zenon DEF FiniteSubsetsOf
<1> QED
  BY Zenon, <1>1, <1>2

\* Duration::MAX is longer than any other timeout.
LEMMA EternityIsLast == Eternity \in Nat /\ Timeouts \cup {Eternity} \subseteq Duration
<1>1. Max(Timeouts) \in Timeouts /\ \A t \in Timeouts : Max(Timeouts) >= t
  BY Zenon, HasGreatest, ReactorAssumption DEF Max
<1> QED
  <2>1. Max(Timeouts) \in Nat /\ Eternity = Max(Timeouts) + 1
    BY Zenon, <1>1, ReactorAssumption DEF Eternity
  <2>2. \A t \in Timeouts : t \in Nat /\ t <= Eternity
    BY <1>1, <2>1, ReactorAssumption
  <2> QED
    BY <2>1, <2>2 DEF Duration

\* A read takes no more than there is.
LEMMA MinOfTwo ==
  ASSUME NEW a \in Nat, NEW b \in Nat
  PROVE  a - Min({a, b}) \in Nat
<1>1. \E x \in {a, b} : \A y \in {a, b} : x <= y
  BY SMT
<1> QED
  BY <1>1 DEF Min

\* Time that passes brings every deadline nearer, and none past another.
LEMMA SoonerFacts ==
  ASSUME NEW d \in Duration, NEW u \in Duration
  PROVE  /\ Sooner(d) \in Duration /\ Sooner(d) <= d
         /\ d <= u => Sooner(d) <= Sooner(u)
  BY SMTT(60), EternityIsLast DEF Sooner, Duration

\* A call that has not begun waits for nothing.
LEMMA IdleFacts ==
  /\ Idle \in Call
  /\ Idle.at = "idle" /\ Idle.result = "none"
  BY SMTT(60), EternityIsLast, ReactorAssumption DEF Idle, Call, Duration

\* The reactor begins without a call.
LEMMA InitReactor == ReactorInit => ReactorInv
  BY IdleFacts DEF ReactorInit, ReactorInv, ReactorType, DeadlineInv, EndsForAReason, StreamState

\* Registrations and whatever others do to the streams touch no call, and
\* open no stream that was closed.
LEMMA StreamSteps ==
  ASSUME ReactorInv, NEW s \in Stream,
         register_readable(s) \/ deregister(s) \/ PeerWrites(s) \/ PeerCloses(s) \/ Spurious(s)
  PROVE  ReactorInv'
<1>0. stream \in [Stream -> StreamState] /\ call.src \in Stream /\ next \in Nat
  BY Zenon DEF ReactorInv, ReactorType, Call
<1>1. call' = call /\ next' \in Nat
  BY <1>0 DEF register_readable, deregister, PeerWrites, PeerCloses, Spurious
<1>2. /\ stream' \in [Stream -> StreamState]
      /\ \A r \in Stream : stream[r].closed => stream'[r].closed
  <2>1. CASE register_readable(s)
    BY SMTT(60), <1>0, <2>1 DEF register_readable, StreamState
  <2>2. CASE deregister(s)
    BY ZenonT(40), <1>0, <2>2 DEF deregister, StreamState
  <2>3. CASE PeerWrites(s)
    <3>1. (stream[s].token # 0) \in BOOLEAN /\ stream[s].bytes + 1 \in Nat
      BY <1>0 DEF StreamState
    <3> QED
      BY ZenonT(40), <1>0, <2>3, <3>1 DEF PeerWrites, StreamState
  <2>4. CASE PeerCloses(s)
    BY ZenonT(40), <1>0, <2>4 DEF PeerCloses, StreamState
  <2>5. CASE Spurious(s)
    BY ZenonT(40), <1>0, <2>5 DEF Spurious, StreamState
  <2> QED
    BY ZenonT(40), <2>1, <2>2, <2>3, <2>4, <2>5
<1> QED
  BY Zenon, <1>0, <1>1, <1>2 DEF ReactorInv, ReactorType, DeadlineInv, EndsForAReason

\* The calls of the program set their deadlines.
LEMMA CallSteps ==
  ASSUME ReactorInv, NEW timeout \in Timeouts \cup {Eternity},
         \/ \E token \in 1..(next - 1) : Wait(token, timeout)
         \/ \E s \in Stream, n \in 0..1 : RoundTrip(s, n, timeout)
  PROVE  ReactorInv'
<1>0. timeout \in Duration
  BY Zenon, EternityIsLast
<1>1. ASSUME NEW token \in 1..(next - 1), Wait(token, timeout) PROVE ReactorInv'
  <2>1. token \in Nat
    BY SMTT(30), SMTT(60) DEF ReactorInv, ReactorType
  <2>2. /\ call' \in Call /\ call'.at = "wait" /\ call'.result = "none"
        /\ call'.deadline = timeout /\ call'.until = timeout
    BY Zenon, <1>0, <1>1, <2>1, IdleFacts DEF Wait, Call
  <2>3. timeout <= timeout
    BY SMTT(60), <1>0, EternityIsLast DEF Duration
  <2> QED
    BY ZenonT(40), <1>1, <2>2, <2>3 DEF ReactorInv, ReactorType, DeadlineInv, EndsForAReason, Wait
<1>2. ASSUME NEW s \in Stream, NEW n \in 0..1, RoundTrip(s, n, timeout) PROVE ReactorInv'
  <2>1. n \in Nat /\ stream[s].token \in Nat
    BY SMTT(30), SMTT(60) DEF ReactorInv, ReactorType, StreamState
  <2>2. call' \in Call /\ call'.at = "write" /\ call'.result = "none"
    BY ZenonT(40), <1>0, <1>2, <2>1, IdleFacts DEF RoundTrip, Call
  <2> QED
    BY Zenon, <1>2, <2>2 DEF ReactorInv, ReactorType, DeadlineInv, EndsForAReason, RoundTrip
<1> QED
  BY Zenon, <1>1, <1>2

\* A step to another place of the same call.
LEMMA GoToKeeps ==
  ASSUME ReactorInv, call.at # "idle",
         NEW at \in {"trip", "wait", "poll", "read"},
         at \in {"wait", "poll"} => call.at \in {"wait", "poll"},
         GoTo(at)
  PROVE  call' \in Call /\ DeadlineInv' /\ call'.result = "none"
  BY Zenon DEF ReactorInv, ReactorType, DeadlineInv, GoTo, Call

\* The end of a call, with a result that has its reason or without one.
LEMMA EndKeeps ==
  ASSUME ReactorInv,
         \/ Done
         \/ \E result \in {"TimedOut", "false"} : Ends(result) /\ call.deadline = 0
         \/ Ends("UnexpectedEof") /\ stream[call.src].closed /\ UNCHANGED stream
  PROVE  call' \in Call /\ DeadlineInv' /\ EndsForAReason'
<1>1. CASE Done
  BY Zenon, <1>1, IdleFacts DEF Done, DeadlineInv, EndsForAReason
<1>2. ASSUME NEW result \in {"TimedOut", "false"}, Ends(result), call.deadline = 0
      PROVE call' \in Call /\ DeadlineInv' /\ EndsForAReason'
  BY Zenon, <1>2, IdleFacts DEF Ends, DeadlineInv, EndsForAReason, ReactorInv, ReactorType, Call
<1>3. CASE Ends("UnexpectedEof") /\ stream[call.src].closed /\ UNCHANGED stream
  BY ZenonT(40), <1>3, IdleFacts DEF Ends, DeadlineInv, EndsForAReason, ReactorInv, ReactorType, Call
<1> QED
  BY <1>1, <1>2, <1>3

\* The steps of wait_readable: it gives up when nothing is left of what it was
\* asked for, so of the deadline.
LEMMA WaitSteps ==
  ASSUME ReactorInv, Look \/ PollReports \/ PollInterrupted \/ PollTimesOut \/ PollFails
  PROVE  ReactorInv'
<1>0. call \in Call /\ next' = next /\ next \in Nat /\ stream' \in [Stream -> StreamState]
  <2>1. stream \in [Stream -> StreamState]
    BY Zenon DEF ReactorInv, ReactorType
  <2>2. Silenced \in [Stream -> StreamState]
    BY ZenonT(40), <2>1 DEF Silenced, StreamState
  <2> QED
    BY <2>1, <2>2
       DEF ReactorInv, ReactorType, Look, PollReports, PollInterrupted, PollTimesOut, PollFails
<1>1. CASE Look /\ call.until = 0
  <2>1. call.deadline = 0
    BY SMTT(60), <1>0, <1>1, EternityIsLast DEF ReactorInv, DeadlineInv, Look, Call, Duration
  <2> QED
    BY SMTT(60), <1>0, <1>1, <2>1, EndKeeps DEF Look, ReactorInv, ReactorType
<1>2. CASE (call.at \in {"wait", "poll"}) /\ (GoTo("wait") \/ GoTo("poll") \/ GoTo("read"))
  <2>1. call' \in Call /\ DeadlineInv' /\ call'.result = "none"
    BY Zenon, <1>2, GoToKeeps
  <2> QED
    BY Zenon, <1>0, <2>1 DEF ReactorInv, ReactorType, EndsForAReason
<1>3. CASE Done
  BY SMTT(60), <1>0, <1>3, EndKeeps DEF ReactorInv, ReactorType
<1> QED
  BY SMTT(60), <1>1, <1>2, <1>3 DEF Look, PollReports, PollInterrupted, PollTimesOut, PollFails

\* The steps of round_trip: it gives up when nothing is left of its deadline,
\* and asks each wait for what is left of it.
LEMMA TripSteps ==
  ASSUME ReactorInv, WriteAll \/ Trip \/ Enter \/ Read \/ ReadInterrupted \/ ReadFails
  PROVE  ReactorInv'
<1>0. /\ call \in Call /\ call.src \in Stream /\ call.bytes \in Nat /\ next' = next /\ next \in Nat
      /\ stream \in [Stream -> StreamState]
  BY Zenon DEF ReactorInv, ReactorType, Call, WriteAll, Trip, Enter, Read, ReadInterrupted, ReadFails
<1>1. CASE WriteAll
  <2>1. CASE Done /\ UNCHANGED stream
    BY Zenon, <1>0, <2>1, EndKeeps DEF ReactorInv, ReactorType
  <2>2. CASE /\ stream' = [stream EXCEPT ![call.src].bytes = @ + call.bytes,
                                         ![call.src].event = @ \/ call.bytes > 0]
             /\ GoTo("trip")
    <3>1. stream' \in [Stream -> StreamState]
      BY SMTT(60), <1>0, <2>2 DEF StreamState
    <3>2. call' \in Call /\ DeadlineInv' /\ call'.result = "none"
      BY Zenon, <1>1, <2>2, GoToKeeps DEF WriteAll
    <3> QED
      BY SMTT(60), <1>0, <3>1, <3>2 DEF ReactorInv, ReactorType, EndsForAReason
  <2> QED
    BY SMTT(60), <1>1, <2>1, <2>2 DEF WriteAll
<1>2. CASE Trip
  <2>1. CASE call.deadline = 0
    BY SMTT(60), <1>0, <1>2, <2>1, EndKeeps DEF Trip, ReactorInv, ReactorType
  <2>2. CASE call.deadline # 0
    <3>1. /\ call' \in Call /\ call'.at = "enter" /\ call'.result = call.result
          /\ call'.deadline = call'.ask
      BY ZenonT(40), <1>0, <1>2, <2>2 DEF Trip, Call
    <3>2. call.result = "none" /\ UNCHANGED stream
      BY Zenon, <1>2 DEF Trip, ReactorInv, DeadlineInv
    <3>3. call'.deadline <= call'.ask
      BY <3>1, EternityIsLast DEF Call, Duration
    <3> QED
      BY SMTT(60), <1>0, <3>1, <3>2, <3>3 DEF ReactorInv, ReactorType, DeadlineInv, EndsForAReason
  <2> QED
    BY Zenon, <2>1, <2>2
<1>3. CASE Enter
  BY Zenon, <1>0, <1>3 DEF Enter, ReactorInv, ReactorType, DeadlineInv, EndsForAReason, Call
<1>4. CASE Read
  <2>1. CASE stream[call.src].bytes > 0
    <3>1. stream[call.src].bytes - Min({stream[call.src].bytes, ReadMax}) \in Nat
      BY SMTT(60), <1>0, MinOfTwo, ReactorAssumption DEF StreamState
    <3>2. stream' \in [Stream -> StreamState]
      BY SMTT(60), <1>0, <1>4, <2>1, <3>1 DEF Read, StreamState
    <3> QED
      BY SMTT(60), <1>0, <1>4, <2>1, <3>2, EndKeeps DEF Read, ReactorInv, ReactorType
  <2>2. CASE ~(stream[call.src].bytes > 0) /\ stream[call.src].closed
    BY ZenonT(40), <1>0, <1>4, <2>2, EndKeeps DEF Read, ReactorInv, ReactorType
  <2>3. CASE ~(stream[call.src].bytes > 0) /\ ~stream[call.src].closed
    <3>1. call' \in Call /\ DeadlineInv' /\ call'.result = "none"
      BY <1>4, <2>3, GoToKeeps DEF Read
    <3> QED
      BY SMTT(60), <1>0, <1>4, <2>3, <3>1 DEF Read, ReactorInv, ReactorType, EndsForAReason
  <2> QED
    BY ZenonT(40), <2>1, <2>2, <2>3
<1>5. CASE ReadInterrupted
  BY Zenon, <1>0, <1>5 DEF ReadInterrupted, ReactorInv, ReactorType, DeadlineInv, EndsForAReason, Call
<1>6. CASE ReadFails
  BY Zenon, <1>0, <1>6, EndKeeps DEF ReadFails, ReactorInv, ReactorType
<1> QED
  BY SMTT(60), <1>1, <1>2, <1>3, <1>4, <1>5, <1>6

\* Time passes for the call and for its wait alike.
LEMMA TickKeeps ==
  ASSUME ReactorInv, Tick
  PROVE  ReactorInv'
<1>1. call \in Call /\ call.deadline \in Duration /\ call.until \in Duration /\ call.ask \in Duration
  BY Zenon DEF ReactorInv, ReactorType, Call
<1>2. /\ Sooner(call.deadline) \in Duration /\ Sooner(call.until) \in Duration
      /\ Sooner(call.deadline) <= call.deadline
      /\ call.deadline <= call.until => Sooner(call.deadline) <= Sooner(call.until)
  BY Zenon, <1>1, SoonerFacts
<1>3. call' \in Call /\ call'.at = call.at /\ call'.result = call.result /\ call'.ask = call.ask
      /\ call'.deadline = Sooner(call.deadline) /\ call'.until = Sooner(call.until)
  BY ZenonT(40), <1>1, <1>2 DEF Tick, Call
<1>4. call.at = "enter" => Sooner(call.deadline) <= call.ask
  BY SMTT(60), <1>1, <1>2, EternityIsLast DEF ReactorInv, DeadlineInv, Duration
<1>5. call.result = "none"
  BY ZenonT(40) DEF Tick, ReactorInv, DeadlineInv
<1> QED
  BY SMTT(60), <1>2, <1>3, <1>4, <1>5 DEF Tick, ReactorInv, ReactorType, DeadlineInv, EndsForAReason

\* The invariant holds throughout.
LEMMA ReactorCorrect == ReactorSpec => []ReactorInv
<1>1. ReactorInv /\ [ReactorNext]_reactorVars => ReactorInv'
  <2> SUFFICES ASSUME ReactorInv, [ReactorNext]_reactorVars PROVE ReactorInv'
    BY Zenon
  <2>1. CASE UNCHANGED reactorVars
    BY Zenon, <2>1 DEF reactorVars, ReactorInv, ReactorType, DeadlineInv, EndsForAReason
  <2> QED
    BY SMTT(60), <2>1, StreamSteps, CallSteps, WaitSteps, TripSteps, TickKeeps DEF ReactorNext, CallerStep
<1> QED
  BY <1>1, InitReactor, PTL DEF ReactorSpec

\* A call gives up only when its deadline has passed, and reports the end of
\* the stream only when the peer closed it: for any timeouts, any number of
\* streams, and any interrupts and events of others on the way.
THEOREM Reasons == ReactorSpec => []EndsForAReason
  BY ReactorCorrect, PTL DEF ReactorInv

-----------------------------------------------------------------------------
(* The materialised state and the consistency checker *)

\* From here on the prover of every leaf that names no other.
USE Zenon

\* A set of natural numbers that is not empty has a least element.
LEMMA LeastNumber ==
  ASSUME NEW T \in SUBSET Nat, T # {}
  PROVE  \E m \in T : \A k \in T : m <= k
<1> DEFINE R == {ss \in Nat \X Nat : ss[1] < ss[2]}
<1>1. IsWellFoundedOn(R, Nat)
  BY NatLessThanWellFounded DEF OpToRel
<1> HIDE DEF R
<1>2. PICK m \in T : \A k \in T : ~(<<k, m>> \in R)
  BY <1>1, WFMin
<1>3. \A k \in T : ~(k < m)
  <2> TAKE k \in T
  <2>1. <<k, m>> \notin R BY <1>2
  <2> QED BY <2>1 DEF R
<1> QED
  BY SMT, <1>3, <1>2

\* Induction up to a bound.
LEMMA CountUp ==
  ASSUME NEW N \in Nat, NEW D, 0 \in D, \A i \in 1..N : i - 1 \in D => i \in D
  PROVE  \A m \in 0..N : m \in D
<1> DEFINE T == {m \in 0..N : m \notin D}
<1>1. SUFFICES ASSUME T # {} PROVE FALSE
  OBVIOUS
<1>2. T \in SUBSET Nat
  BY SMT
<1>3. PICK m \in T : \A k \in T : m <= k
  BY <1>1, <1>2, LeastNumber
<1>4. m \in 0..N /\ m # 0
  BY <1>3
<1>5. m \in 1..N /\ m - 1 \in 0..N /\ ~(m <= m - 1)
  BY SMT, <1>4
<1>6. m - 1 \in D
  BY <1>3, <1>5
<1> QED BY <1>3, <1>5, <1>6

-----------------------------------------------------------------------------
(* The order of keys *)

\* Byte strings are sequences of numbers.
LEMMA BytesFacts ==
  ASSUME NEW b \in Bytes
  PROVE  /\ b \in Seq(Nat) /\ Len(b) \in Nat
         /\ \A i \in 1..Len(b) : b[i] \in Nat /\ b[i] <= MaxByte
<1>1. PICK n \in 0..MaxLen : b \in [1..n -> 0..MaxByte]
  BY DEF Bytes
<1>2. MaxLen \in Nat /\ MaxByte \in Nat
  BY SMT, SnapshotMapAssumption
<1> QED BY SMT, <1>1, <1>2

\* Two strings agree on their first n bytes.
Agree(a, b, n) == \A i \in 1..n : a[i] = b[i]

\* Place i is the first where b is above a: a ends before it, or is smaller there.
Below(a, b, i) ==
  /\ i \in Nat /\ 1 <= i /\ i <= Len(a) + 1 /\ i <= Len(b)
  /\ Agree(a, b, i - 1)
  /\ i = Len(a) + 1 \/ a[i] < b[i]

\* Prefixes, byte by byte.
LEMMA PrefixIs ==
  ASSUME NEW a \in Seq(Nat), NEW b \in Seq(Nat)
  PROVE  StartsWith(b, a) <=> Len(a) <= Len(b) /\ Agree(a, b, Len(a))
<1>1. CASE Len(a) <= Len(b)
  <2>1. Len(SubSeq(b, 1, Len(a))) = Len(a)
    BY SMT, <1>1
  <2>2. SubSeq(b, 1, Len(a)) = a <=> Agree(a, b, Len(a))
    BY SMT, <1>1 DEF Agree
  <2> QED BY <1>1, <2>2 DEF StartsWith
<1>2. CASE ~(Len(a) <= Len(b))
  BY <1>2 DEF StartsWith
<1> QED BY <1>1, <1>2

\* The order, byte by byte.
LEMMA LessIs ==
  ASSUME NEW a \in Seq(Nat), NEW b \in Seq(Nat)
  PROVE  Less(a, b) <=> \E i : Below(a, b, i)
<1>1. Len(a) \in Nat /\ Len(b) \in Nat
  BY SMT
<1>2. StartsWith(b, a) /\ a # b <=> Below(a, b, Len(a) + 1)
  <2>1. Len(a) <= Len(b) /\ Agree(a, b, Len(a)) /\ a # b => Len(a) + 1 <= Len(b)
    <3>1. Len(a) = Len(b) /\ Agree(a, b, Len(a)) => a = b
      BY SMTT(30) DEF Agree
    <3>2. Len(a) <= Len(b) /\ Len(a) # Len(b) => Len(a) + 1 <= Len(b)
      BY SMT, <1>1
    <3> QED BY <3>1, <3>2
  <2>2. Len(a) + 1 <= Len(b) => Len(a) <= Len(b) /\ a # b
    BY SMT, <1>1
  <2>3. /\ Len(a) + 1 \in Nat /\ 1 <= Len(a) + 1 /\ Len(a) + 1 <= Len(a) + 1
        /\ Len(a) + 1 - 1 = Len(a)
    BY SMT, <1>1
  <2>4. Agree(a, b, Len(a) + 1 - 1) <=> Agree(a, b, Len(a))
    BY <2>3
  <2>5. Below(a, b, Len(a) + 1) <=> Len(a) + 1 <= Len(b) /\ Agree(a, b, Len(a))
    BY SMT, <2>3, <2>4 DEF Below
  <2>6. StartsWith(b, a) <=> Len(a) <= Len(b) /\ Agree(a, b, Len(a))
    BY PrefixIs
  <2> QED BY <2>1, <2>2, <2>5, <2>6
<1>3. ASSUME NEW i \in 1..Len(a)
      PROVE  (i <= Len(b) /\ a[i] < b[i] /\ SubSeq(a, 1, i - 1) = SubSeq(b, 1, i - 1))
               <=> Below(a, b, i) /\ i # Len(a) + 1
  <2>1. i <= Len(b) => (SubSeq(a, 1, i - 1) = SubSeq(b, 1, i - 1) <=> Agree(a, b, i - 1))
    BY SMTT(30) DEF Agree
  <2>2. i \in Nat /\ 1 <= i /\ i <= Len(a) + 1 /\ i # Len(a) + 1
    BY SMT, <1>1
  <2> QED BY <2>1, <2>2 DEF Below
<1>4. \A i : Below(a, b, i) /\ i # Len(a) + 1 => i \in 1..Len(a)
  <2>1. \A i \in Nat : 1 <= i /\ i <= Len(a) + 1 /\ i # Len(a) + 1 => i \in 1..Len(a)
    BY SMT, <1>1
  <2> QED BY <2>1 DEF Below
<1> QED BY <1>2, <1>3, <1>4 DEF Less

\* No string is below itself.
LEMMA LessIrreflexive ==
  ASSUME NEW a \in Seq(Nat)
  PROVE  ~Less(a, a)
<1>1. \A i : ~Below(a, a, i)
  BY SMT DEF Below
<1> QED BY <1>1, LessIs

\* The order is transitive.
LEMMA LessTransitive ==
  ASSUME NEW a \in Seq(Nat), NEW b \in Seq(Nat), NEW c \in Seq(Nat), Less(a, b), Less(b, c)
  PROVE  Less(a, c)
<1>1. PICK i : Below(a, b, i)
  BY LessIs
<1>2. PICK j : Below(b, c, j)
  BY LessIs
<1>3. CASE i < j
  <2>1. Below(a, c, i)
    BY SMTT(30), <1>1, <1>2, <1>3 DEF Below, Agree
  <2> QED BY <2>1, LessIs
<1>4. CASE i = j
  <2>1. Below(a, c, j)
    <3>1. Agree(a, c, j - 1)
      BY <1>1, <1>2, <1>4 DEF Below, Agree
    <3>2. j \in Nat /\ 1 <= j /\ j <= Len(a) + 1 /\ j <= Len(c)
      BY <1>1, <1>2, <1>4 DEF Below
    <3>3. j = Len(a) + 1 \/ a[j] < c[j]
      <4>1. CASE j # Len(a) + 1
        <5>1. a[j] < b[j] /\ j \in 1..Len(a)
          BY SMTT(30), <1>1, <1>4, <4>1 DEF Below
        <5>2. b[j] < c[j] /\ j \in 1..Len(b) /\ j \in 1..Len(c)
          BY SMT, <1>1, <1>2, <1>4 DEF Below
        <5> QED BY SMT, <5>1, <5>2
      <4> QED BY <4>1
    <3> QED BY <3>1, <3>2, <3>3 DEF Below
  <2> QED BY <2>1, LessIs
<1>5. CASE j < i
  <2>1. Below(a, c, j)
    <3>1. /\ i \in Nat /\ j \in Nat /\ 1 <= j /\ i <= Len(a) + 1 /\ i <= Len(b) /\ j <= Len(c)
          /\ Len(a) \in Nat /\ Len(b) \in Nat
      <4>1. Len(a) \in Nat /\ Len(b) \in Nat
        BY SMT
      <4> QED BY <1>1, <1>2, <4>1 DEF Below
    <3>2. /\ j <= Len(a) + 1 /\ j # Len(b) + 1 /\ j \in 1..(i - 1)
          /\ \A m \in 1..(j - 1) : m \in 1..(i - 1)
      BY SMTT(30), <1>5, <3>1
    <3>3. a[j] = b[j] /\ b[j] < c[j]
      BY <1>1, <1>2, <3>2 DEF Below, Agree
    <3>4. Agree(a, c, j - 1)
      BY <1>1, <1>2, <3>2 DEF Below, Agree
    <3> QED BY <3>1, <3>2, <3>3, <3>4 DEF Below
  <2> QED BY <2>1, LessIs
<1>6. i < j \/ i = j \/ j < i
  BY SMT, <1>1, <1>2 DEF Below
<1> QED BY <1>3, <1>4, <1>5, <1>6

-----------------------------------------------------------------------------
(* Scans *)

\* A set of numbers up to n has a greatest element, if any.
LEMMA Greatest ==
  ASSUME NEW n \in Nat, NEW T \in SUBSET (1..n), T # {}
  PROVE  \E m \in T : \A i \in T : i <= m
<1> DEFINE D == {n - i : i \in T}
<1>1. \A i \in T : i \in Nat /\ i <= n /\ n - i \in Nat
  BY SMT
<1>2. D \in SUBSET Nat /\ D # {}
  BY <1>1
<1>3. PICK d \in D : \A c \in D : d <= c
  BY <1>2, LeastNumber
<1>4. PICK m \in T : d = n - m
  BY <1>3
<1>5. \A i \in T : n - m <= n - i
  BY <1>3, <1>4
<1>6. \A i \in T : i <= m
  BY SMT, <1>1, <1>5
<1> QED BY <1>6

\* prefix_end returns nothing exactly for prefixes of bytes of the largest value.
LEMMA NoEnd ==
  ASSUME NEW p \in Bytes, PrefixEnd(p) = <<>>
  PROVE  \A i \in 1..Len(p) : p[i] = MaxByte
<1> DEFINE below == {i \in 1..Len(p) : p[i] < MaxByte}
<1>1. below = {}
  <2>1. \A x : <<x>> # <<>>
    BY SMT
  <2> QED BY <2>1 DEF PrefixEnd
<1>2. \A i \in 1..Len(p) : ~(p[i] < MaxByte)
  BY <1>1
<1>3. MaxByte \in Nat
  BY SMT, SnapshotMapAssumption
<1> QED BY SMT, <1>2, <1>3, BytesFacts

\* What it returns otherwise: e is the prefix up to its last byte below the
\* largest, with that byte incremented.
EndAt(p, e, last) ==
  /\ last \in 1..Len(p) /\ p[last] < MaxByte
  /\ \A i \in 1..Len(p) : last < i => p[i] = MaxByte
  /\ e \in Seq(Nat) /\ Len(e) = last
  /\ Agree(e, p, last - 1) /\ e[last] = p[last] + 1

\* prefix_end, byte by byte.
LEMMA EndIs ==
  ASSUME NEW p \in Bytes, PrefixEnd(p) # <<>>
  PROVE  \E last : EndAt(p, PrefixEnd(p)[1], last)
<1> DEFINE below == {i \in 1..Len(p) : p[i] < MaxByte}
           last == CHOOSE i \in below : \A j \in below : j <= i
<1>1. below # {}
  BY DEF PrefixEnd
<1>2. \E i \in below : \A j \in below : j <= i
  BY <1>1, BytesFacts, Greatest
<1>3. last \in below /\ \A j \in below : j <= last
  BY <1>2
<1>4. PrefixEnd(p) = <<Append(SubSeq(p, 1, last - 1), p[last] + 1)>>
  BY <1>1 DEF PrefixEnd
<1> HIDE DEF last
<1>5. PICK e : e = Append(SubSeq(p, 1, last - 1), p[last] + 1)
  OBVIOUS
<1>6. PrefixEnd(p)[1] = e
  <2>1. PrefixEnd(p) = <<e>>
    BY <1>4, <1>5
  <2> QED BY SMT, <2>1
<1>7. p \in Seq(Nat) /\ MaxByte \in Nat /\ last \in 1..Len(p) /\ p[last] < MaxByte
  <2>1. MaxByte \in Nat
    BY SMT, SnapshotMapAssumption
  <2> QED BY <1>3, <2>1, BytesFacts
<1>8. \A i \in 1..Len(p) : last < i => p[i] = MaxByte
  <2> TAKE i \in 1..Len(p)
  <2>1. p[i] < MaxByte => i <= last
    BY <1>3
  <2> QED BY SMTT(30), <1>7, <2>1, BytesFacts
<1>9. e \in Seq(Nat) /\ Len(e) = last /\ e[last] = p[last] + 1
  BY SMTT(30), <1>5, <1>7
<1>10. Agree(e, p, last - 1)
  BY SMTT(30), <1>5, <1>7 DEF Agree
<1> QED BY <1>6, <1>7, <1>8, <1>9, <1>10 DEF EndAt

\* The keys between a prefix and its end are those that start with it.
LEMMA EndBounds ==
  ASSUME NEW p \in Bytes, NEW k \in Bytes, NEW e, NEW last, EndAt(p, e, last)
  PROVE  /\ AtMost(p, e)
         /\ StartsWith(k, p) <=> AtMost(p, k) /\ Less(k, e)
<1>1. /\ p \in Seq(Nat) /\ k \in Seq(Nat) /\ e \in Seq(Nat) /\ MaxByte \in Nat
      /\ Len(p) \in Nat /\ Len(k) \in Nat
      /\ \A i \in 1..Len(p) : p[i] \in Nat
      /\ \A i \in 1..Len(k) : k[i] \in Nat /\ k[i] <= MaxByte
  <2>1. MaxByte \in Nat
    BY SMT, SnapshotMapAssumption
  <2> QED BY <2>1, BytesFacts DEF EndAt
<1>2. /\ last \in 1..Len(p) /\ Len(e) = last /\ e[last] = p[last] + 1
      /\ \A i \in 1..(last - 1) : e[i] = p[i]
      /\ \A i \in 1..Len(p) : last < i => p[i] = MaxByte
  BY DEF EndAt, Agree
<1>0. last \in 1..Len(p) /\ Len(e) = last /\ Len(p) \in Nat /\ Len(k) \in Nat
  BY <1>1, <1>2
<1>3. AtMost(p, e)
  <2>1. Below(p, e, last)
    BY SMTT(30), <1>1, <1>2 DEF Below, Agree
  <2> QED BY <1>1, <2>1, LessIs DEF AtMost
<1>4. ASSUME StartsWith(k, p) PROVE AtMost(p, k) /\ Less(k, e)
  <2>1. AtMost(p, k)
    BY <1>4 DEF AtMost, Less
  <2>2. Len(p) <= Len(k) /\ \A i \in 1..Len(p) : p[i] = k[i]
    BY <1>1, <1>4, PrefixIs DEF Agree
  <2>3. Below(k, e, last)
    <3>1. last \in Nat /\ 1 <= last /\ last <= Len(k) + 1 /\ last <= Len(e)
      BY SMTT(30), <1>0, <2>2
    <3>2. k[last] = p[last] /\ p[last] < p[last] + 1
      BY SMTT(30), <1>0, <1>1, <2>2
    <3>3. \A i \in 1..(last - 1) : i \in 1..Len(p)
      BY SMT, <1>0
    <3> QED BY <1>2, <2>2, <3>1, <3>2, <3>3 DEF Below, Agree
  <2> QED BY <1>1, <2>1, <2>3, LessIs
<1>5. ASSUME AtMost(p, k), Less(k, e) PROVE StartsWith(k, p)
  <2>1. CASE p = k
    <3>1. Len(p) <= Len(k) /\ Agree(p, k, Len(p))
      BY SMTT(30), <1>1, <2>1 DEF Agree
    <3> QED BY <1>1, <3>1, PrefixIs
  <2>2. CASE p # k
    <3>1. PICK i : Below(p, k, i)
      BY <1>1, <1>5, <2>2, LessIs DEF AtMost
    <3>2. PICK j : Below(k, e, j)
      BY <1>1, <1>5, LessIs
    <3>3. i = Len(p) + 1
      <4>1. SUFFICES ASSUME i # Len(p) + 1 PROVE FALSE
        OBVIOUS
      <4>2. /\ i \in 1..Len(p) /\ i \in 1..Len(k) /\ p[i] < k[i]
            /\ \A n \in 1..(i - 1) : p[n] = k[n]
        BY SMTT(30), <1>1, <3>1, <4>1 DEF Below, Agree
      <4>3. /\ j \in 1..last /\ j <= Len(k) + 1
            /\ j = Len(k) + 1 \/ k[j] < e[j]
            /\ \A n \in 1..(j - 1) : k[n] = e[n]
        BY SMT, <1>1, <1>2, <3>2 DEF Below, Agree
      <4>0. i \in 1..Len(p) /\ i \in 1..Len(k) /\ j \in 1..last /\ j <= Len(k) + 1
        BY <4>2, <4>3
      <4>4. CASE last < i
        <5>1. p[i] = MaxByte /\ k[i] \in Nat /\ k[i] <= MaxByte /\ MaxByte \in Nat /\ p[i] < k[i]
          BY <1>1, <1>2, <4>2, <4>4
        <5> QED BY SMT, <5>1
      <4>5. CASE i <= last /\ j < i
        <5>1. j \in 1..Len(k) /\ j \in 1..(i - 1) /\ j \in 1..(last - 1) /\ j # Len(k) + 1
          BY SMT, <1>0, <4>0, <4>5
        <5>2. k[j] < e[j] /\ e[j] = p[j] /\ p[j] = k[j]
          BY <1>2, <4>2, <4>3, <5>1
        <5> QED BY SMT, <1>1, <5>1, <5>2
      <4>6. CASE i <= last /\ j = i
        <5>1. k[i] < e[i]
          BY SMTT(30), <1>1, <4>2, <4>3, <4>6
        <5>2. i = last \/ i \in 1..(last - 1)
          BY SMT, <1>0, <4>0, <4>6
        <5>3. e[i] = p[i] + 1 \/ e[i] = p[i]
          BY <1>2, <5>2
        <5>4. k[i] \in Nat /\ p[i] \in Nat
          BY <1>1, <4>0
        <5> QED BY SMTT(30), <4>2, <5>1, <5>3, <5>4
      <4>7. CASE i <= last /\ i < j
        <5>1. i \in 1..(j - 1) /\ i \in 1..(last - 1)
          BY SMT, <1>0, <4>0, <4>7
        <5>2. k[i] = e[i] /\ e[i] = p[i]
          BY <1>2, <4>3, <5>1
        <5> QED BY SMT, <1>1, <4>2, <5>2
      <4>8. last < i \/ (i <= last /\ j < i) \/ (i <= last /\ j = i) \/ (i <= last /\ i < j)
        BY SMT, <1>0, <4>0
      <4> QED BY <4>4, <4>5, <4>6, <4>7, <4>8
    <3>4. Len(p) <= Len(k) /\ Agree(p, k, Len(p))
      BY SMT, <1>1, <3>1, <3>3 DEF Below
    <3> QED BY <1>1, <3>4, PrefixIs
  <2> QED BY <2>1, <2>2
<1> QED BY <1>3, <1>4, <1>5

\* Scans of a map whose keys are keys of the store are exact.
LEMMA ScansExact ==
  ASSUME DOMAIN data \subseteq Key
  PROVE  ScansAreExact
<1>1. \A k \in DOMAIN data : k \in Bytes /\ k \in Seq(Nat)
  BY SnapshotMapAssumption, BytesFacts
<1>2. ASSUME NEW p \in Bytes
      PROVE  /\ Scan(p) = {k \in DOMAIN data : StartsWith(k, p)}
             /\ PrefixEnd(p) # <<>> => AtMost(p, PrefixEnd(p)[1])
  <2>1. CASE PrefixEnd(p) = <<>>
    <3>1. p \in Seq(Nat) /\ Len(p) \in Nat /\ MaxByte \in Nat /\ \A i \in 1..Len(p) : p[i] = MaxByte
      <4>1. MaxByte \in Nat
        BY SMT, SnapshotMapAssumption
      <4> QED BY <2>1, <4>1, BytesFacts, NoEnd
    <3>2. ASSUME NEW k \in DOMAIN data PROVE AtMost(p, k) <=> StartsWith(k, p)
      <4>1. StartsWith(k, p) => AtMost(p, k)
        BY DEF AtMost, Less
      <4>2. p = k => StartsWith(k, p)
        <5>1. p = k => Len(p) <= Len(k) /\ Agree(p, k, Len(p))
          BY SMT, <3>1 DEF Agree
        <5> QED BY <1>1, <3>1, <5>1, PrefixIs
      <4>3. ASSUME NEW i, Below(p, k, i) PROVE StartsWith(k, p)
        <5>1. k \in Seq(Nat) /\ Len(k) \in Nat /\ \A n \in 1..Len(k) : k[n] \in Nat /\ k[n] <= MaxByte
          BY <1>1, BytesFacts
        <5>2. i = Len(p) + 1
          <6>1. SUFFICES ASSUME i # Len(p) + 1 PROVE FALSE
            OBVIOUS
          <6>2. p[i] < k[i] /\ i \in 1..Len(p) /\ i \in 1..Len(k)
            BY SMTT(30), <3>1, <4>3, <5>1, <6>1 DEF Below
          <6>3. p[i] = MaxByte /\ k[i] \in Nat /\ k[i] <= MaxByte
            BY <3>1, <5>1, <6>2
          <6> QED BY SMT, <3>1, <6>2, <6>3
        <5>3. Len(p) <= Len(k) /\ Agree(p, k, Len(p))
          BY SMTT(30), <3>1, <4>3, <5>1, <5>2 DEF Below
        <5> QED BY <3>1, <5>1, <5>3, PrefixIs
      <4>4. Less(p, k) => StartsWith(k, p)
        BY <1>1, <3>1, <4>3, LessIs
      <4> QED BY <4>1, <4>2, <4>4 DEF AtMost
    <3>3. Scan(p) = {k \in DOMAIN data : AtMost(p, k)}
      BY <2>1 DEF Scan, RangeFrom
    <3> QED BY <2>1, <3>2, <3>3
  <2>2. CASE PrefixEnd(p) # <<>>
    <3>1. PICK last : EndAt(p, PrefixEnd(p)[1], last)
      BY <2>2, EndIs
    <3>2. PICK e : e = PrefixEnd(p)[1]
      OBVIOUS
    <3>3. EndAt(p, e, last)
      BY <3>1, <3>2
    <3>4. AtMost(p, e)
      BY <3>3, EndBounds
    <3>5. \A k \in DOMAIN data : StartsWith(k, p) <=> AtMost(p, k) /\ Less(k, e)
      BY <1>1, <3>3, EndBounds
    <3>6. Scan(p) = {k \in DOMAIN data : AtMost(p, k) /\ Less(k, e)}
      BY <2>2, <3>2 DEF Scan, RangeBetween
    <3> QED BY <3>2, <3>4, <3>5, <3>6
  <2> QED BY <2>1, <2>2
<1>3. ASSUME NEW lo \in Key \cup {<<>>}, NEW hi \in Key \cup {<<>>}
      PROVE  /\ RangeScan(lo, hi) = {k \in DOMAIN data : AtMost(lo, k) /\ Less(k, hi)}
             /\ AtMost(RangeBounds(lo, hi)[1], RangeBounds(lo, hi)[2])
  <2>1. lo \in Seq(Nat) /\ hi \in Seq(Nat)
    <3>1. <<>> \in Seq(Nat)
      BY SMT
    <3> QED BY <3>1, SnapshotMapAssumption, BytesFacts
  <2>3. CASE Less(lo, hi)
    <3>1. RangeBounds(lo, hi) = <<lo, hi>>
      BY <2>3 DEF RangeBounds
    <3>2. RangeBounds(lo, hi)[1] = lo /\ RangeBounds(lo, hi)[2] = hi
      BY SMT, <3>1
    <3> QED BY <2>3, <3>2 DEF RangeScan, RangeBetween, AtMost
  <2>4. CASE ~Less(lo, hi)
    <3>1. RangeBounds(lo, hi) = <<lo, lo>>
      BY <2>4 DEF RangeBounds
    <3>2. RangeBounds(lo, hi)[1] = lo /\ RangeBounds(lo, hi)[2] = lo
      BY SMT, <3>1
    <3>3. ASSUME NEW k \in DOMAIN data, AtMost(lo, k)
          PROVE  ~Less(k, lo) /\ ~Less(k, hi)
      <4>1. CASE lo = k
        BY <2>1, <2>4, <4>1, LessIrreflexive
      <4>2. CASE Less(lo, k)
        BY <1>1, <2>1, <2>4, <4>2, LessTransitive, LessIrreflexive
      <4> QED BY <3>3, <4>1, <4>2 DEF AtMost
    <3> QED BY <3>2, <3>3 DEF RangeScan, RangeBetween, AtMost
  <2> QED BY <2>3, <2>4
<1> QED BY <1>2, <1>3 DEF ScansAreExact

-----------------------------------------------------------------------------
(* Folding a batch *)

\* The maps on the way through a batch.
After(map, ops, index) ==
  CHOOSE f : f = [n \in 0..Len(ops) |-> IF n = 0 THEN map ELSE Apply(f[n - 1], ops[n], index)]

\* Ops applied to a map, one by one.
LEMMA AfterDef ==
  ASSUME NEW map, NEW ops, NEW index, Len(ops) \in Nat
  PROVE  \E g : /\ ApplyAll(map, ops, index) = g[Len(ops)] /\ g[0] = map
                /\ \A n \in 1..Len(ops) : g[n] = Apply(g[n - 1], ops[n], index)
<1>0. ApplyAll(map, ops, index) = After(map, ops, index)[Len(ops)]
  BY DEF ApplyAll, After
<1> DEFINE F(g, m) == [n \in 0..m |-> IF n = 0 THEN map ELSE Apply(g[n - 1], ops[n], index)]
           D == {m \in 0..Len(ops) : \E g : g = F(g, m)}
<1>1. 0 \in 0..Len(ops) /\ Len(ops) \in 0..Len(ops) /\ \A n \in 0..0 : n = 0
  BY SMT
<1>2. 0 \in D
  <2>1. [n \in 0..0 |-> map] = F([n \in 0..0 |-> map], 0)
    BY <1>1
  <2> QED BY <1>1, <2>1
<1>3. ASSUME NEW m \in 1..Len(ops), m - 1 \in D PROVE m \in D
  <2>1. m \in 0..Len(ops) /\ m # 0
    BY SMT
  <2>2. PICK g : g = F(g, m - 1)
    BY <1>3
  <2> DEFINE h == [n \in 0..m |-> IF n = m THEN Apply(g[m - 1], ops[m], index) ELSE g[n]]
  <2>3. ASSUME NEW n \in 0..m
        PROVE  (n # m => n \in 0..(m - 1)) /\ (n # 0 => n - 1 \in 0..m /\ n - 1 # m)
    BY SMT
  <2>4. \A n \in 0..m : n # 0 => h[n - 1] = g[n - 1]
    BY <2>3
  <2>5. \A n \in 0..m : h[n] = IF n = 0 THEN map ELSE Apply(h[n - 1], ops[n], index)
    <3> TAKE n \in 0..m
    <3>1. CASE n = m
      BY <2>1, <2>4, <3>1
    <3>2. CASE n # m
      <4>1. h[n] = g[n] /\ n \in 0..(m - 1)
        BY <2>3, <3>2
      <4>2. g[n] = IF n = 0 THEN map ELSE Apply(g[n - 1], ops[n], index)
        BY <2>2, <4>1
      <4> QED BY <2>4, <4>1, <4>2
    <3> QED BY <3>1, <3>2
  <2>6. h = F(h, m)
    BY <2>5
  <2> QED BY <2>1, <2>6
<1> HIDE DEF D
<1>4. Len(ops) \in D
  BY <1>1, <1>2, <1>3, CountUp
<1>5. \E g : g = F(g, Len(ops))
  BY <1>4 DEF D
<1>6. PICK g : g = After(map, ops, index)
  OBVIOUS
<1>7. g = F(g, Len(ops))
  BY <1>5, <1>6 DEF After
<1>8. \A n \in 1..Len(ops) : n \in 0..Len(ops) /\ n # 0
  BY SMT
<1>9. g[0] = map /\ \A n \in 1..Len(ops) : g[n] = Apply(g[n - 1], ops[n], index)
  BY <1>1, <1>7, <1>8
<1> QED BY <1>0, <1>6, <1>9

\* The maps a store can hold.
Entry == [value : Value, version : Nat]
Map == UNION {[D -> Entry] : D \in SUBSET Key}

\* An entry of a map that comes from an older one, or from the commit at index.
OldOrNew(map, base, index) ==
  \A k \in DOMAIN map : (k \in DOMAIN base /\ map[k] = base[k]) \/ map[k].version = index

\* Key k is the same in both maps.
SameAt(map, base, k) ==
  (k \in DOMAIN map <=> k \in DOMAIN base) /\ (k \in DOMAIN map => map[k] = base[k])

\* What one op does.
LEMMA ApplyFacts ==
  ASSUME NEW map, NEW base, NEW index \in Nat, NEW op \in Op, map \in Map, OldOrNew(map, base, index)
  PROVE  /\ Apply(map, op, index) \in Map
         /\ OldOrNew(Apply(map, op, index), base, index)
         /\ \A k : k # op.key => SameAt(Apply(map, op, index), map, k)
<1>1. op.key \in Key /\ (op.type # "delete" => op.value \in Value)
  BY SMT DEF Op
<1>2. CASE op.type = "delete"
  <2>1. PICK m : m = Apply(map, op, index)
    OBVIOUS
  <2>2. m = [j \in DOMAIN map \ {op.key} |-> map[j]]
    BY <1>2, <2>1 DEF Apply, Without
  <2>3. DOMAIN m = DOMAIN map \ {op.key} /\ \A j \in DOMAIN m : m[j] = map[j]
    BY <2>2
  <2>4. m \in Map
    <3>1. DOMAIN map \ {op.key} \in SUBSET Key /\ \A j \in DOMAIN map : map[j] \in Entry
      BY DEF Map
    <3>2. m \in [DOMAIN map \ {op.key} -> Entry]
      BY <2>2, <3>1
    <3> QED BY <3>1, <3>2 DEF Map
  <2> QED BY <2>1, <2>3, <2>4 DEF OldOrNew, SameAt
<1>3. CASE op.type # "delete" /\ op.key \in DOMAIN map /\ map[op.key].value = op.value
  <2>1. Apply(map, op, index) = map
    BY <1>3 DEF Apply
  <2> QED BY <2>1 DEF SameAt
<1>4. CASE op.type # "delete" /\ ~(op.key \in DOMAIN map /\ map[op.key].value = op.value)
  <2>1. PICK m : m = Apply(map, op, index)
    OBVIOUS
  <2>2. PICK e : e = [value |-> op.value, version |-> index]
    OBVIOUS
  <2>3. e.value = op.value /\ e.version = index
    BY SMT, <2>2
  <2>4. m = [j \in DOMAIN map \cup {op.key} |-> IF j = op.key THEN e ELSE map[j]]
    BY <1>4, <2>1, <2>2 DEF Apply, With
  <2>5. /\ DOMAIN m = DOMAIN map \cup {op.key} /\ m[op.key] = e
        /\ \A j \in DOMAIN map : j # op.key => m[j] = map[j]
    BY <2>4
  <2>6. m \in Map
    <3>1. e \in Entry
      BY SMT, <1>1, <1>4, <2>2 DEF Entry
    <3>2. DOMAIN map \cup {op.key} \in SUBSET Key /\ \A j \in DOMAIN map : map[j] \in Entry
      BY <1>1 DEF Map
    <3>3. m \in [DOMAIN map \cup {op.key} -> Entry]
      BY <2>4, <3>1, <3>2
    <3> QED BY <3>2, <3>3 DEF Map
  <2>7. OldOrNew(m, base, index)
    BY <2>3, <2>5 DEF OldOrNew
  <2>8. \A k : k # op.key => SameAt(m, map, k)
    BY <2>5 DEF SameAt
  <2> QED BY <2>1, <2>6, <2>7, <2>8
<1> QED BY <1>2, <1>3, <1>4

\* What a batch does.
LEMMA BatchFacts ==
  ASSUME NEW map \in Map, NEW ops \in Batch, NEW index \in Nat
  PROVE  /\ ApplyAll(map, ops, index) \in Map
         /\ OldOrNew(ApplyAll(map, ops, index), map, index)
         /\ \A k : (\A i \in DOMAIN ops : ops[i].key # k) => SameAt(ApplyAll(map, ops, index), map, k)
<1>1. Len(ops) \in Nat /\ DOMAIN ops = 1..Len(ops) /\ \A i \in 1..Len(ops) : ops[i] \in Op
  <2>1. PICK n \in 1..MaxOps : ops \in [1..n -> Op]
    BY DEF Batch
  <2>2. MaxOps \in Nat
    BY SMT, SnapshotMapAssumption
  <2> QED BY SMT, <2>1, <2>2
<1>2. Len(ops) \in Nat
  BY <1>1
<1>3. PICK g : /\ ApplyAll(map, ops, index) = g[Len(ops)] /\ g[0] = map
               /\ \A n \in 1..Len(ops) : g[n] = Apply(g[n - 1], ops[n], index)
  BY SMT, <1>2, AfterDef
<1> DEFINE Quiet(k) == \A i \in 1..Len(ops) : ops[i].key # k
           D == {n \in 0..Len(ops) : /\ g[n] \in Map /\ OldOrNew(g[n], map, index)
                                     /\ \A k : Quiet(k) => SameAt(g[n], map, k)}
<1>4. 0 \in 0..Len(ops) /\ Len(ops) \in 0..Len(ops)
  BY SMT, <1>1
<1>5. 0 \in D
  BY <1>3, <1>4 DEF OldOrNew, SameAt
<1>6. ASSUME NEW n \in 1..Len(ops), n - 1 \in D PROVE n \in D
  <2>1. n \in 0..Len(ops)
    BY SMT, <1>1
  <2>2. /\ g[n - 1] \in Map /\ OldOrNew(g[n - 1], map, index)
        /\ \A k : Quiet(k) => SameAt(g[n - 1], map, k)
    BY <1>6
  <2>3. PICK m : m = g[n - 1]
    OBVIOUS
  <2>4. g[n] = Apply(m, ops[n], index) /\ ops[n] \in Op
    BY <1>1, <1>3, <2>3
  <2>5. m \in Map /\ OldOrNew(m, map, index)
    BY <2>2, <2>3
  <2>6. /\ g[n] \in Map /\ OldOrNew(g[n], map, index)
        /\ \A k : k # ops[n].key => SameAt(g[n], m, k)
    BY <2>4, <2>5, ApplyFacts
  <2>7. ASSUME NEW k, Quiet(k) PROVE SameAt(g[n], map, k)
    <3>1. SameAt(g[n], m, k)
      BY <2>6, <2>7
    <3>2. SameAt(m, map, k)
      BY <2>2, <2>3, <2>7
    <3> QED BY <3>1, <3>2 DEF SameAt
  <2> QED BY <2>1, <2>6, <2>7
<1> HIDE DEF D
<1>7. Len(ops) \in D
  BY <1>1, <1>4, <1>5, <1>6, CountUp
<1>8. /\ g[Len(ops)] \in Map /\ OldOrNew(g[Len(ops)], map, index)
      /\ \A k : Quiet(k) => SameAt(g[Len(ops)], map, k)
  BY <1>7 DEF D
<1> QED BY <1>1, <1>3, <1>8

-----------------------------------------------------------------------------
(* Snapshots *)

\* The snapshots so far, the last of which is the current one.
MapInv ==
  /\ past \in Seq(Map) /\ Len(past) \in Nat /\ 1 <= Len(past)
  /\ past[1] = << >> /\ data = past[Len(past)]
  /\ VersionIdentifiesValue

\* The empty store.
LEMMA MapInvInit ==
  ASSUME MapInit
  PROVE  MapInv
<1>1. << >> \in Map
  <2>1. << >> \in [{} -> Entry]
    BY SMT
  <2> QED BY <2>1 DEF Map
<1>2. past = << << >> >> /\ data = << >>
  BY DEF MapInit
<1>3. past \in Seq(Map) /\ Len(past) = 1 /\ past[1] = << >>
  BY SMT, <1>1, <1>2
<1>4. \A i \in 1..Len(past) : past[i] = << >>
  BY SMT, <1>3
<1>5. DOMAIN << >> = {}
  BY SMT
<1>6. 1 \in Nat /\ 1 <= 1
  BY SMT
<1>7. VersionIdentifiesValue
  BY <1>4, <1>5 DEF VersionIdentifiesValue
<1> QED BY <1>2, <1>3, <1>6, <1>7 DEF MapInv

\* What a commit adds.
LEMMA CommitFacts ==
  ASSUME MapInv, NEW ops \in Batch, Commit(ops)
  PROVE  /\ data' \in Map /\ OldOrNew(data', data, Len(past))
         /\ \A k : (\A i \in DOMAIN ops : ops[i].key # k) => SameAt(data', data, k)
         /\ past' \in Seq(Map) /\ Len(past') = Len(past) + 1 /\ past'[Len(past) + 1] = data'
         /\ \A i \in 1..Len(past) : past'[i] = past[i]
<1>1. past \in Seq(Map) /\ Len(past) \in Nat /\ Index + 1 = Len(past) /\ data \in Map
  <2>1. past \in Seq(Map) /\ Len(past) \in Nat /\ 1 <= Len(past) /\ data = past[Len(past)]
    BY DEF MapInv
  <2>2. past[Len(past)] \in Map
    BY SMT, <2>1
  <2>3. Index + 1 = Len(past)
    BY SMT, <2>1 DEF Index
  <2> QED BY <2>1, <2>2, <2>3
<1>2. data' = ApplyAll(data, ops, Len(past)) /\ past' = Append(past, data')
  BY <1>1 DEF Commit
<1>3. PICK d : d = ApplyAll(data, ops, Len(past))
  OBVIOUS
<1>4. /\ d \in Map /\ OldOrNew(d, data, Len(past))
      /\ \A k : (\A i \in DOMAIN ops : ops[i].key # k) => SameAt(d, data, k)
  BY <1>1, <1>3, BatchFacts
<1>5. data' = d /\ past' = Append(past, d)
  BY <1>2, <1>3
<1>6. /\ past' \in Seq(Map) /\ Len(past') = Len(past) + 1 /\ past'[Len(past) + 1] = d
      /\ \A i \in 1..Len(past) : past'[i] = past[i]
  BY SMT, <1>1, <1>4, <1>5
<1> QED BY <1>4, <1>5, <1>6

\* VersionIdentifiesValue, of any history.
Identified(h) ==
  \A i, j \in 1..Len(h) : \A k \in DOMAIN h[i] :
    /\ h[i][k].version <= i - 1
    /\ i <= j /\ k \in DOMAIN h[j] /\ h[j][k].version = h[i][k].version =>
         \A n \in i..j : k \in DOMAIN h[n] /\ h[n][k] = h[i][k]

\* A commit keeps the invariant.
LEMMA MapInvCommit ==
  ASSUME MapInv, NEW ops \in Batch, Commit(ops)
  PROVE  MapInv'
<1>1. PICK n : n = Len(past)
  OBVIOUS
<1>2. /\ past \in Seq(Map) /\ n \in Nat /\ 1 <= n
      /\ past[1] = << >> /\ data = past[n]
  BY <1>1 DEF MapInv
<1>3. PICK d, q : d = data' /\ q = past'
  OBVIOUS
<1>4. /\ d \in Map /\ OldOrNew(d, past[n], n)
      /\ q \in Seq(Map) /\ Len(q) = n + 1 /\ q[n + 1] = d
      /\ \A i \in 1..n : q[i] = past[i]
  BY <1>1, <1>2, <1>3, CommitFacts
<1>5. \A i, j \in 1..n : \A k \in DOMAIN past[i] :
        /\ past[i][k].version <= i - 1
        /\ i <= j /\ k \in DOMAIN past[j] /\ past[j][k].version = past[i][k].version =>
             \A m \in i..j : k \in DOMAIN past[m] /\ past[m][k] = past[i][k]
  BY <1>1 DEF MapInv, VersionIdentifiesValue
<1>6. \A i \in 1..n : \A k \in DOMAIN past[i] : past[i][k].version \in Nat
  <2> TAKE i \in 1..n
  <2>1. past[i] \in Map
    BY SMT, <1>1, <1>2
  <2>2. \A k \in DOMAIN past[i] : past[i][k] \in Entry
    BY <2>1 DEF Map
  <2> QED BY SMT, <2>2 DEF Entry
<1>7. ASSUME NEW i \in 1..(n + 1), NEW k \in DOMAIN q[i] PROVE q[i][k].version <= i - 1
  <2>1. CASE i \in 1..n
    BY <1>4, <1>5, <2>1
  <2>2. CASE i \notin 1..n
    <3>1. i = n + 1 /\ i - 1 = n /\ n \in 1..n
      BY SMT, <1>2, <2>2
    <3>2. q[i] = d
      BY <1>4, <3>1
    <3>3. CASE k \in DOMAIN past[n] /\ d[k] = past[n][k]
      <4>1. d[k].version <= n - 1 /\ d[k].version \in Nat
        BY <1>5, <1>6, <3>1, <3>3
      <4>2. d[k].version <= n
        BY SMT, <1>2, <4>1
      <4> QED BY <3>1, <3>2, <4>2
    <3>4. CASE d[k].version = n
      <4>1. n <= n
        BY SMT, <1>2
      <4> QED BY <3>1, <3>2, <3>4, <4>1
    <3> QED BY <1>4, <3>2, <3>3, <3>4 DEF OldOrNew
  <2> QED BY <2>1, <2>2
<1>8. ASSUME NEW i \in 1..(n + 1), NEW j \in 1..(n + 1), NEW k \in DOMAIN q[i],
             i <= j, k \in DOMAIN q[j], q[j][k].version = q[i][k].version,
             NEW m \in i..j
      PROVE  k \in DOMAIN q[m] /\ q[m][k] = q[i][k]
  <2>1. CASE j \in 1..n
    <3>1. i \in 1..n /\ m \in 1..n
      BY SMT, <1>2, <1>8, <2>1
    <3>2. q[i] = past[i] /\ q[j] = past[j] /\ q[m] = past[m]
      BY <1>4, <2>1, <3>1
    <3>3. k \in DOMAIN past[i] /\ k \in DOMAIN past[j] /\ past[j][k].version = past[i][k].version
      BY <1>8, <3>2
    <3> QED BY ZenonT(30), <1>5, <1>8, <2>1, <3>1, <3>2, <3>3
  <2>2. CASE m = i
    BY <2>2
  <2>3. CASE j \notin 1..n /\ m # i
    <3>1. j = n + 1 /\ i \in 1..n /\ (m # n + 1 => m \in i..n) /\ n \in 1..n /\ i <= n
      BY SMT, <1>2, <1>8, <2>3
    <3>2. q[i] = past[i] /\ q[j] = d
      BY <1>4, <3>1
    <3>3. d[k].version # n
      <4>1. past[i][k].version <= i - 1 /\ past[i][k].version \in Nat
        BY <1>5, <1>6, <3>1, <3>2
      <4>2. past[i][k].version # n
        BY SMT, <3>1, <4>1
      <4> QED BY <1>8, <3>2, <4>2
    <3>4. k \in DOMAIN past[n] /\ d[k] = past[n][k]
      BY <1>4, <1>8, <3>2, <3>3 DEF OldOrNew
    <3>5. \A l \in i..n : k \in DOMAIN past[l] /\ past[l][k] = past[i][k]
      <4>1. k \in DOMAIN past[i] /\ past[n][k].version = past[i][k].version
        BY <1>8, <3>2, <3>4
      <4> QED BY <1>5, <3>1, <3>4, <4>1
    <3>6. CASE m = n + 1
      <4>1. n \in i..n
        BY SMT, <1>2, <3>1
      <4>2. past[n][k] = past[i][k]
        BY <3>5, <4>1
      <4> QED BY ZenonT(30), <1>4, <1>8, <3>1, <3>2, <3>4, <3>6, <4>2
    <3>7. CASE m # n + 1
      <4>1. m \in i..n /\ m \in 1..n
        BY SMTT(30), <1>2, <3>1, <3>7
      <4>2. q[m] = past[m]
        BY <1>4, <4>1
      <4> QED BY <3>2, <3>5, <4>1, <4>2
    <3> QED BY <3>6, <3>7
  <2> QED BY <2>1, <2>2, <2>3
<1>9. VersionIdentifiesValue'
  <2>1. Identified(q)
    <3> SUFFICES ASSUME NEW i \in 1..Len(q), NEW j \in 1..Len(q), NEW k \in DOMAIN q[i]
                 PROVE  /\ q[i][k].version <= i - 1
                        /\ i <= j /\ k \in DOMAIN q[j] /\ q[j][k].version = q[i][k].version =>
                             \A m \in i..j : k \in DOMAIN q[m] /\ q[m][k] = q[i][k]
      BY DEF Identified
    <3>1. i \in 1..(n + 1) /\ j \in 1..(n + 1)
      BY <1>4
    <3> QED BY <1>7, <1>8, <3>1
  <2>2. Identified(past')
    BY <1>3, <2>1
  <2> QED BY <2>2 DEF VersionIdentifiesValue, Identified
<1>10. 1 \in 1..n /\ n + 1 \in Nat /\ 1 <= n + 1
  BY SMT, <1>2
<1> QED BY <1>2, <1>3, <1>4, <1>9, <1>10 DEF MapInv

\* A step that leaves the store alone.
LEMMA MapFrame ==
  ASSUME MapInv, data' = data, past' = past
  PROVE  MapInv'
<1>1. Identified(past)
  BY DEF MapInv, VersionIdentifiesValue, Identified
<1>2. Identified(past')
  BY <1>1
<1>3. VersionIdentifiesValue'
  BY <1>2 DEF VersionIdentifiesValue, Identified
<1> QED BY <1>3 DEF MapInv

-----------------------------------------------------------------------------
(* Sorting *)

\* A log of writes with different indexes.
Distinct(log) == \A i, j \in 1..Len(log) : log[i][1] = log[j][1] => i = j

\* There is an order of the writes that ascends.
LEMMA OrderExists ==
  ASSUME NEW V, NEW log \in Seq(Nat \X V), Distinct(log)
  PROVE  \E p \in Bijection(1..Len(log), 1..Len(log)) :
           \A i, j \in 1..Len(log) : i < j => log[p[i]][1] <= log[p[j]][1]
<1>1. PICK n : n = Len(log)
  OBVIOUS
<1>2. n \in Nat /\ \A i \in 1..n : log[i][1] \in Nat
  BY SMT, <1>1
<1> DEFINE Upto(i) == {j \in 1..n : log[j][1] <= log[i][1]}
           rank == [i \in 1..n |-> Cardinality(Upto(i))]
<1>3. IsFiniteSet(1..n) /\ Cardinality(1..n) = n
  BY SMT, <1>2, FS_Interval
<1>4. \A i \in 1..n : IsFiniteSet(Upto(i)) /\ Cardinality(Upto(i)) <= n /\ Cardinality(Upto(i)) \in Nat
  BY <1>3, FS_Subset, FS_CardinalityType
<1>5. \A i \in 1..n : log[i][1] <= log[i][1]
  BY SMT, <1>2
<1>6. \A i \in 1..n : Cardinality(Upto(i)) # 0
  BY <1>4, <1>5, FS_EmptySet
<1>7. rank \in [1..n -> 1..n]
  <2>1. ASSUME NEW i \in 1..n, NEW c, c \in Nat, c <= n, c # 0 PROVE c \in 1..n
    BY SMT, <1>2, <2>1
  <2> QED BY <1>4, <1>6, <2>1
<1>8. ASSUME NEW i \in 1..n, NEW j \in 1..n, log[i][1] < log[j][1]
      PROVE  rank[i] < rank[j]
  <2>1. \A m \in 1..n : log[m][1] <= log[i][1] => log[m][1] <= log[j][1]
    BY SMTT(30), <1>2, <1>8
  <2>2. ~(log[j][1] <= log[i][1])
    BY SMT, <1>2, <1>8
  <2>3. Upto(i) \in SUBSET Upto(j) /\ j \notin Upto(i) /\ j \in Upto(j)
    BY <1>5, <2>1, <2>2
  <2>4. Cardinality(Upto(i)) <= Cardinality(Upto(j)) /\ Cardinality(Upto(j)) # Cardinality(Upto(i))
    BY <1>4, <2>3, FS_Subset
  <2>5. \A a, b \in Nat : a <= b /\ b # a => a < b
    BY SMT
  <2> QED BY <1>4, <2>4, <2>5
<1> HIDE DEF rank
<1>9. ASSUME NEW i \in 1..n, NEW j \in 1..n, rank[i] = rank[j] PROVE i = j
  <2>1. rank[i] \in Nat /\ rank[j] \in Nat
    BY SMTT(30), <1>2, <1>7
  <2>2. ~(rank[i] < rank[j]) /\ ~(rank[j] < rank[i])
    BY SMT, <1>9, <2>1
  <2>3. ~(log[i][1] < log[j][1]) /\ ~(log[j][1] < log[i][1])
    BY <1>8, <2>2
  <2>4. log[i][1] = log[j][1]
    BY SMT, <1>2, <2>3
  <2> QED BY <1>1, <2>4 DEF Distinct
<1>10. rank \in Injection(1..n, 1..n)
  BY <1>7, <1>9 DEF Injection, IsInjective
<1>11. \A x \in 1..n : \E i \in 1..n : rank[i] = x
  <2>1. rank \in Surjection(1..n, 1..n)
    BY <1>3, <1>10, FS_Injection
  <2> QED BY <2>1 DEF Surjection
<1> DEFINE p == [x \in 1..n |-> CHOOSE i \in 1..n : rank[i] = x]
<1>12. \A x \in 1..n : p[x] \in 1..n /\ rank[p[x]] = x
  BY <1>11
<1>13. p \in [1..n -> 1..n]
  BY <1>12
<1> HIDE DEF p
<1>14. p \in Bijection(1..n, 1..n)
  <2>1. p \in Injection(1..n, 1..n)
    <3>1. \A x, y \in 1..n : p[x] = p[y] => x = y
      BY <1>12
    <3> QED BY <1>13, <3>1 DEF Injection, IsInjective
  <2>2. p \in Surjection(1..n, 1..n)
    BY <1>3, <2>1, FS_Injection
  <2> QED BY <2>1, <2>2 DEF Bijection
<1>15. ASSUME NEW i \in 1..n, NEW j \in 1..n, i < j
       PROVE  log[p[i]][1] <= log[p[j]][1]
  <2>1. rank[p[i]] = i /\ rank[p[j]] = j /\ p[i] \in 1..n /\ p[j] \in 1..n
    BY <1>12
  <2>2. ~(j < i)
    BY SMT, <1>2, <1>15
  <2>3. ~(log[p[j]][1] < log[p[i]][1])
    BY <1>8, <2>1, <2>2
  <2> QED BY SMTT(30), <1>2, <2>1, <2>3
<1> QED BY <1>1, <1>14, <1>15

\* check's sort: the same writes, ascending.
LEMMA SortedFacts ==
  ASSUME NEW V, NEW log \in Seq(Nat \X V), Distinct(log)
  PROVE  /\ Sorted(log) \in Seq(Nat \X V) /\ Len(Sorted(log)) = Len(log)
         /\ \A i \in 1..Len(log) : \E j \in 1..Len(log) : Sorted(log)[j] = log[i]
         /\ \A j \in 1..Len(log) : \E i \in 1..Len(log) : Sorted(log)[j] = log[i]
         /\ \A i, j \in 1..Len(log) : i < j => Sorted(log)[i][1] < Sorted(log)[j][1]
<1>1. PICK n : n = Len(log)
  OBVIOUS
<1>2. n \in Nat /\ DOMAIN log = 1..n /\ \A i \in 1..n : log[i] \in Nat \X V /\ log[i][1] \in Nat
  BY SMT, <1>1
<1> DEFINE Ascends(p) == \A i, j \in DOMAIN log : i < j => log[p[i]][1] <= log[p[j]][1]
           order == CHOOSE p \in Bijection(DOMAIN log, DOMAIN log) : Ascends(p)
<1>3. \E p \in Bijection(DOMAIN log, DOMAIN log) : Ascends(p)
  <2>1. PICK p \in Bijection(1..Len(log), 1..Len(log)) :
          \A i, j \in 1..Len(log) : i < j => log[p[i]][1] <= log[p[j]][1]
    BY OrderExists
  <2>2. DOMAIN log = 1..Len(log)
    BY <1>1, <1>2
  <2>3. Ascends(p) /\ p \in Bijection(DOMAIN log, DOMAIN log)
    BY <2>1, <2>2
  <2> QED BY <2>3
<1>4. order \in Bijection(1..n, 1..n) /\ \A i, j \in 1..n : i < j => log[order[i]][1] <= log[order[j]][1]
  <2>1. order \in Bijection(DOMAIN log, DOMAIN log) /\ Ascends(order)
    BY <1>3
  <2> HIDE DEF order
  <2> QED BY <1>2, <2>1
<1>5. PICK t : t = Sorted(log)
  OBVIOUS
<1>6. t = [i \in 1..n |-> log[order[i]]]
  <2>1. t = [i \in DOMAIN log |-> log[order[i]]]
    BY <1>5 DEF Sorted
  <2> HIDE DEF order
  <2> QED BY <1>2, <2>1
<1> HIDE DEF order
<1>7. /\ \A i \in 1..n : order[i] \in 1..n
      /\ \A i, j \in 1..n : order[i] = order[j] => i = j
      /\ \A i \in 1..n : \E j \in 1..n : order[j] = i
  BY <1>4 DEF Bijection, Injection, IsInjective, Surjection
<1>8. \A i \in 1..n : t[i] = log[order[i]]
  BY <1>6
<1>9. t \in Seq(Nat \X V) /\ Len(t) = n
  <2>1. t \in [1..n -> Nat \X V]
    BY <1>2, <1>6, <1>7
  <2> QED BY SMT, <1>2, <2>1
<1>10. ASSUME NEW i \in 1..n, NEW j \in 1..n, i < j PROVE t[i][1] < t[j][1]
  <2>1. i # j
    BY SMT, <1>2, <1>10
  <2>2. log[order[i]][1] <= log[order[j]][1]
    BY <1>4, <1>10
  <2>3. log[order[i]][1] # log[order[j]][1]
    <3>1. order[i] \in 1..n /\ order[j] \in 1..n /\ order[i] # order[j]
      BY <1>7, <2>1
    <3>2. \A a, b \in 1..n : log[a][1] = log[b][1] => a = b
      BY <1>1 DEF Distinct
    <3> QED BY <3>1, <3>2
  <2>4. log[order[i]][1] \in Nat /\ log[order[j]][1] \in Nat
    BY <1>2, <1>7
  <2>5. log[order[i]][1] < log[order[j]][1]
    BY SMT, <2>2, <2>3, <2>4
  <2> QED BY <1>8, <2>5
<1>11. ASSUME NEW i \in 1..n PROVE \E j \in 1..n : t[j] = log[i]
  <2>1. PICK j \in 1..n : order[j] = i
    BY <1>7
  <2>2. t[j] = log[i]
    BY <1>8, <2>1
  <2> QED BY <2>2
<1>12. \A j \in 1..n : \E i \in 1..n : t[j] = log[i]
  BY <1>7, <1>8
<1> QED BY <1>1, <1>5, <1>9, <1>10, <1>11, <1>12

-----------------------------------------------------------------------------
(* The checker *)

Val == Value \cup {None}

Entries(log) == {log[i] : i \in 1..Len(log)}

\* History h has a commit at index x that left v under key k.
IsWrite(h, k, x, v) == x \in Nat /\ 1 <= x /\ x < Len(h) /\ v = Observed(h[x + 1], k)

\* The log of key k and the writes that are not recorded yet are all the
\* changes of that key in history h, each of them once.
LogOK(log, un, h, k) ==
  /\ log \in Seq(Nat \X Val) /\ Distinct(log)
  /\ \A e \in Entries(log) : IsWrite(h, k, e[1], e[2])
  /\ \A w \in un : w.key = k => /\ IsWrite(h, k, w.index, w.value)
                                /\ \A e \in Entries(log) : e[1] # w.index
  /\ \A x \in Nat : 1 <= x /\ x < Len(h) =>
       \/ \E e \in Entries(log) : e[1] = x
       \/ \E w \in un : w.key = k /\ w.index = x
       \/ Observed(h[x + 1], k) = Observed(h[x], k)

CheckInv ==
  /\ MapInv
  /\ unrecorded \subseteq Write
  /\ DOMAIN writes = Key /\ writes = [k \in Key |-> writes[k]]
  /\ \A k \in Key : LogOK(writes[k], unrecorded, past, k)

\* The same observation from index a to index b, if nothing changes between.
LEMMA Unchanged ==
  ASSUME NEW h, NEW k, NEW a \in Nat, NEW b \in Nat, a <= b,
         \A x \in (a + 1)..b : Observed(h[x + 1], k) = Observed(h[x], k)
  PROVE  Observed(h[b + 1], k) = Observed(h[a + 1], k)
<1> DEFINE D == {m \in 0..(b - a) : Observed(h[a + m + 1], k) = Observed(h[a + 1], k)}
<1>1. b - a \in Nat /\ 0 \in 0..(b - a) /\ b - a \in 0..(b - a) /\ a + 0 + 1 = a + 1 /\ a + (b - a) + 1 = b + 1
  BY SMT
<1>2. 0 \in D
  BY <1>1
<1>3. ASSUME NEW m \in 1..(b - a), m - 1 \in D PROVE m \in D
  <2>1. m \in 0..(b - a) /\ a + m \in (a + 1)..b /\ a + (m - 1) + 1 = a + m
    BY SMT, <1>1
  <2>2. Observed(h[a + m], k) = Observed(h[a + 1], k)
    BY <1>3, <2>1
  <2>3. Observed(h[a + m + 1], k) = Observed(h[a + m], k)
    BY <2>1
  <2> QED BY <2>1, <2>2, <2>3
<1> HIDE DEF D
<1>4. b - a \in D
  BY <1>1, <1>2, <1>3, CountUp
<1>5. Observed(h[a + (b - a) + 1], k) = Observed(h[a + 1], k)
  BY <1>4 DEF D
<1> QED BY <1>1, <1>5

\* partition_point splits an ascending log.
LEMMA UpToFacts ==
  ASSUME NEW log \in Seq(Nat \X Val), NEW r \in Nat,
         \A i, j \in 1..Len(log) : i < j => log[i][1] < log[j][1]
  PROVE  /\ UpTo(log, r) \in 0..Len(log)
         /\ \A i \in 1..Len(log) : i <= UpTo(log, r) <=> log[i][1] <= r
<1> DEFINE after == {i \in 1..Len(log) : log[i][1] > r}
<1>1. Len(log) \in Nat /\ \A i \in 1..Len(log) : log[i][1] \in Nat
  BY SMT
<1>2. CASE after = {}
  <2>1. UpTo(log, r) = Len(log)
    BY <1>2 DEF UpTo
  <2>2. \A i \in 1..Len(log) : ~(log[i][1] > r)
    BY <1>2
  <2>3. \A i \in 1..Len(log) : i <= Len(log) /\ log[i][1] <= r
    BY SMTT(30), <1>1, <2>2
  <2>4. Len(log) \in 0..Len(log)
    BY SMT, <1>1
  <2> QED BY <2>1, <2>3, <2>4
<1>3. CASE after # {}
  <2> DEFINE m == CHOOSE i \in after : \A j \in after : i <= j
  <2>1. after \in SUBSET Nat
    BY SMT
  <2>2. \E i \in after : \A j \in after : i <= j
    BY <1>3, <2>1, LeastNumber
  <2>3. m \in after /\ \A j \in after : m <= j
    BY <2>2
  <2>4. UpTo(log, r) = m - 1
    BY <1>3 DEF UpTo
  <2> HIDE DEF m
  <2>5. m \in 1..Len(log) /\ log[m][1] > r /\ \A j \in 1..Len(log) : log[j][1] > r => m <= j
    BY <2>3
  <2>6. m - 1 \in 0..Len(log)
    BY SMT, <1>1, <2>5
  <2>7. ASSUME NEW i \in 1..Len(log) PROVE i <= m - 1 <=> log[i][1] <= r
    <3>1. CASE i < m
      <4>1. ~(m <= i) /\ i <= m - 1
        BY SMTT(30), <1>1, <2>5, <3>1
      <4>2. ~(log[i][1] > r)
        BY <2>5, <4>1
      <4> QED BY SMTT(30), <1>1, <4>1, <4>2
    <3>2. CASE i = m
      BY SMTT(30), <1>1, <2>5, <3>2
    <3>3. CASE m < i
      <4>1. log[m][1] < log[i][1]
        BY <2>5, <3>3
      <4>2. log[m][1] \in Nat /\ log[i][1] \in Nat /\ log[m][1] > r
        BY <1>1, <2>5
      <4>3. ~(log[i][1] <= r)
        BY SMTT(30), <4>1, <4>2
      <4>4. ~(i <= m - 1)
        BY SMTT(30), <2>5, <3>3
      <4> QED BY <4>3, <4>4
    <3>4. i < m \/ i = m \/ m < i
      BY SMT, <2>5
    <3> QED BY <3>1, <3>2, <3>3, <3>4
  <2> QED BY <2>4, <2>6, <2>7
<1> QED BY <1>2, <1>3

\* The log of a key that check has sorted.
LEMMA SortedLog ==
  ASSUME NEW log, NEW un, NEW h, NEW k, LogOK(log, un, h, k)
  PROVE  /\ LogOK(Sorted(log), un, h, k) /\ Sorted(log) \in Seq(Nat \X Val)
         /\ \A i, j \in 1..Len(Sorted(log)) : i < j => Sorted(log)[i][1] < Sorted(log)[j][1]
<1>1. log \in Seq(Nat \X Val) /\ Distinct(log)
  BY DEF LogOK
<1>2. PICK t : t = Sorted(log)
  OBVIOUS
<1>3. /\ t \in Seq(Nat \X Val) /\ Len(t) = Len(log)
      /\ \A i \in 1..Len(log) : \E j \in 1..Len(log) : t[j] = log[i]
      /\ \A j \in 1..Len(log) : \E i \in 1..Len(log) : t[j] = log[i]
      /\ \A i, j \in 1..Len(log) : i < j => t[i][1] < t[j][1]
  BY <1>1, <1>2, SortedFacts
<1>4. \A i, j \in 1..Len(t) : i < j => t[i][1] < t[j][1]
  BY <1>3
<1>5. Entries(t) = Entries(log)
  <2>1. 1..Len(t) = 1..Len(log)
    BY <1>3
  <2>2. ASSUME NEW e \in Entries(t) PROVE e \in Entries(log)
    <3>1. PICK j \in 1..Len(log) : e = t[j]
      BY <2>1 DEF Entries
    <3>2. PICK i \in 1..Len(log) : t[j] = log[i]
      BY <1>3
    <3> QED BY <3>1, <3>2 DEF Entries
  <2>3. ASSUME NEW e \in Entries(log) PROVE e \in Entries(t)
    <3>1. PICK i \in 1..Len(log) : e = log[i]
      BY DEF Entries
    <3>2. PICK j \in 1..Len(log) : t[j] = log[i]
      BY <1>3
    <3>3. j \in 1..Len(t)
      BY <2>1
    <3> QED BY <3>1, <3>2, <3>3 DEF Entries
  <2> QED BY <2>2, <2>3
<1>6. Distinct(t)
  <2> SUFFICES ASSUME NEW i \in 1..Len(t), NEW j \in 1..Len(t), t[i][1] = t[j][1] PROVE i = j
    BY DEF Distinct
  <2>1. t[i][1] \in Nat /\ t[j][1] \in Nat /\ ~(t[i][1] < t[j][1]) /\ ~(t[j][1] < t[i][1])
    <3>1. t \in Seq(Nat \X Val)
      BY <1>3
    <3>2. t[i][1] \in Nat /\ t[j][1] \in Nat
      BY SMT, <3>1
    <3> QED BY SMT, <3>2
  <2>2. ~(i < j) /\ ~(j < i)
    BY <1>4, <2>1
  <2> QED BY SMT, <2>2
<1>7. LogOK(t, un, h, k)
  BY <1>3, <1>5, <1>6 DEF LogOK
<1> QED BY <1>2, <1>3, <1>4, <1>7

\* What check expects is what the store held.
LEMMA CheckExact ==
  ASSUME CheckInv
  PROVE  CheckIsExact
<1> SUFFICES ASSUME NEW k \in Key, NEW r \in 0..Index, NEW v \in Value \cup {None},
                    \A w \in unrecorded : w.key = k => w.index > r
             PROVE  Violation(k, r, v) <=> v # Observed(past[r + 1], k)
  BY DEF CheckIsExact
<1>1. /\ Len(past) \in Nat /\ r \in Nat /\ r < Len(past) /\ past[1] = << >>
      /\ \A w \in unrecorded : w.index \in Nat
  <2>1. Len(past) \in Nat /\ 1 <= Len(past) /\ past[1] = << >> /\ unrecorded \subseteq Write
    BY DEF CheckInv, MapInv
  <2>2. r \in Nat /\ r < Len(past)
    BY SMTT(30), <2>1 DEF Index
  <2>3. \A w \in Write : w.index \in Nat
    BY SMT, SnapshotMapAssumption DEF Write
  <2> QED BY <2>1, <2>2, <2>3
<1>2. PICK log : log = Sorted(writes[k])
  OBVIOUS
<1>3. LogOK(writes[k], unrecorded, past, k)
  BY DEF CheckInv
<1>4. /\ LogOK(log, unrecorded, past, k) /\ log \in Seq(Nat \X Val)
      /\ \A i, j \in 1..Len(log) : i < j => log[i][1] < log[j][1]
  BY <1>2, <1>3, SortedLog
<1>5. PICK n : n = UpTo(log, r)
  OBVIOUS
<1>6. n \in 0..Len(log) /\ \A i \in 1..Len(log) : i <= n <=> log[i][1] <= r
  BY <1>1, <1>4, <1>5, UpToFacts
<1>7. Expected(k, r) = IF n = 0 THEN None ELSE log[n][2]
  BY ZenonT(30), <1>2, <1>5 DEF Expected
<1>8. Len(log) \in Nat /\ \A i \in 1..Len(log) : log[i][1] \in Nat
  BY SMTT(30), <1>4
<1>9. ASSUME NEW a \in Nat, a <= r, \A i \in 1..Len(log) : log[i][1] <= r => log[i][1] <= a
      PROVE  Observed(past[r + 1], k) = Observed(past[a + 1], k)
  <2>1. ASSUME NEW x \in (a + 1)..r PROVE Observed(past[x + 1], k) = Observed(past[x], k)
    <3>1. x \in Nat /\ 1 <= x /\ x < Len(past) /\ x <= r /\ ~(x <= a)
      BY SMT, <1>1, <1>9
    <3>2. ~\E e \in Entries(log) : e[1] = x
      BY <1>9, <3>1 DEF Entries
    <3>3. \A y \in Nat : y > r => y # x
      BY SMTT(30), <1>1, <3>1
    <3>4. ~\E w \in unrecorded : w.key = k /\ w.index = x
      BY <1>1, <3>3
    <3> QED BY ZenonT(30), <1>4, <3>1, <3>2, <3>4 DEF LogOK
  <2> QED BY <1>1, <1>9, <2>1, Unchanged
<1>10. CASE n = 0
  <2>1. \A i \in 1..Len(log) : ~(log[i][1] <= r)
    BY SMTT(30), <1>6, <1>8, <1>10
  <2>2. 0 \in Nat /\ 0 <= r /\ 0 + 1 = 1
    BY SMT, <1>1
  <2>3. Observed(past[r + 1], k) = Observed(past[1], k)
    <3>1. \A i \in 1..Len(log) : log[i][1] <= r => log[i][1] <= 0
      BY <2>1
    <3>2. Observed(past[r + 1], k) = Observed(past[0 + 1], k)
      BY <1>9, <2>2, <3>1
    <3> QED BY <2>2, <3>2
  <2>4. DOMAIN << >> = {}
    BY SMT
  <2>5. Observed(past[1], k) = None
    BY <1>1, <2>4 DEF Observed
  <2> QED BY ZenonT(30), <1>7, <1>10, <2>3, <2>5 DEF Violation
<1>11. CASE n # 0
  <2>1. n \in 1..Len(log) /\ n <= n
    BY SMTT(30), <1>6, <1>8, <1>11
  <2>2. log[n][1] \in Nat /\ log[n][1] <= r
    BY <1>6, <1>8, <2>1
  <2>3. ASSUME NEW i \in 1..Len(log), log[i][1] <= r PROVE log[i][1] <= log[n][1]
    <3>1. i <= n
      BY <1>6, <2>3
    <3>2. CASE i < n
      <4>1. log[i][1] < log[n][1]
        BY <1>4, <2>1, <3>2
      <4> QED BY SMTT(30), <1>8, <2>2, <4>1
    <3>3. CASE i = n
      BY SMTT(30), <2>2, <3>3
    <3>4. i < n \/ i = n
      BY SMTT(30), <2>1, <3>1
    <3> QED BY <3>2, <3>3, <3>4
  <2>4. Observed(past[r + 1], k) = Observed(past[log[n][1] + 1], k)
    BY <1>9, <2>2, <2>3
  <2>5. log[n] \in Entries(log)
    BY <2>1 DEF Entries
  <2>6. log[n][2] = Observed(past[log[n][1] + 1], k)
    BY <1>4, <2>5 DEF LogOK, IsWrite
  <2> QED BY <1>7, <1>11, <2>4, <2>6 DEF Violation
<1> QED BY <1>10, <1>11

\* Nothing is written and nothing recorded.
LEMMA CheckInvInit ==
  ASSUME WatchedInit
  PROVE  CheckInv
<1>1. MapInv
  BY MapInvInit DEF WatchedInit
<1>2. Len(past) = 1
  <2>1. past = << << >> >>
    BY DEF WatchedInit, MapInit
  <2> QED BY SMT, <2>1
<1>3. unrecorded = {} /\ writes = [k \in Key |-> <<>>]
  BY DEF WatchedInit
<1>4. \A x \in Nat : ~(1 <= x /\ x < 1)
  BY SMT
<1>5. <<>> \in Seq(Nat \X Val) /\ 1..Len(<<>>) = {}
  BY SMT
<1>6. Distinct(<<>>) /\ Entries(<<>>) = {}
  BY <1>5 DEF Distinct, Entries
<1>7. ASSUME NEW k \in Key PROVE LogOK(writes[k], unrecorded, past, k)
  <2>1. writes[k] = <<>>
    BY <1>3
  <2> QED BY <1>2, <1>3, <1>4, <1>5, <1>6, <2>1 DEF LogOK
<1> QED BY <1>1, <1>3, <1>7 DEF CheckInv

\* A commit of a watched store.
LEMMA CheckInvCommit ==
  ASSUME CheckInv, NEW ops \in Batch, WatchedCommit(ops)
  PROVE  CheckInv'
<1>1. MapInv /\ Commit(ops) /\ writes' = writes /\ unrecorded \subseteq Write
  BY DEF CheckInv, WatchedCommit
<1>2. MapInv'
  BY <1>1, MapInvCommit
<1>3. PICK n, h, q, d : n = Len(past) /\ h = past /\ q = past' /\ d = data'
  OBVIOUS
<1>4. /\ d \in Map /\ Len(q) = n + 1 /\ q[n + 1] = d
      /\ \A i \in 1..n : q[i] = h[i]
      /\ \A k : (\A i \in DOMAIN ops : ops[i].key # k) => SameAt(d, data, k)
  BY <1>1, <1>3, CommitFacts
<1>5. /\ n \in Nat /\ 1 <= n /\ Len(h) = n /\ data = h[n] /\ Index + 1 = n /\ n \in 1..MaxIndex
  <2>1. Len(past) \in Nat /\ 1 <= Len(past) /\ data = past[Len(past)]
    BY <1>1 DEF MapInv
  <2>2. Index < MaxIndex
    BY <1>1 DEF Commit
  <2>3. MaxIndex \in Nat
    BY SMTT(30), SnapshotMapAssumption
  <2>4. Index + 1 = Len(past) /\ Len(past) \in 1..MaxIndex
    BY SMTT(30), <2>1, <2>2, <2>3 DEF Index
  <2> QED BY <1>3, <2>1, <2>4
<1>6. ASSUME NEW i \in DOMAIN ops PROVE ops[i].key \in Key
  <2>1. PICK m \in 1..MaxOps : ops \in [1..m -> Op]
    BY DEF Batch
  <2>2. ops[i] \in Op
    BY <2>1
  <2> QED BY SMT, <2>2 DEF Op
<1>7. \A k : Observed(d, k) \in Value \cup {None}
  <2>1. \A k \in DOMAIN d : d[k] \in Entry
    BY ZenonT(30), <1>4 DEF Map
  <2>2. \A k \in DOMAIN d : d[k].value \in Value
    BY SMT, <2>1 DEF Entry
  <2> QED BY <2>2 DEF Observed
<1> DEFINE New == {[index |-> n, key |-> ops[i].key, value |-> Observed(d, ops[i].key)] : i \in DOMAIN ops}
<1>8. unrecorded' = unrecorded \cup New
  BY <1>3, <1>5 DEF WatchedCommit
<1>9. ASSUME NEW w \in New
      PROVE  w \in Write /\ w.index = n /\ w.value = Observed(d, w.key)
  <2>1. PICK i \in DOMAIN ops : w = [index |-> n, key |-> ops[i].key, value |-> Observed(d, ops[i].key)]
    OBVIOUS
  <2>2. PICK k, v : k = ops[i].key /\ v = Observed(d, k)
    OBVIOUS
  <2>3. w = [index |-> n, key |-> k, value |-> v] /\ k \in Key /\ v \in Value \cup {None}
    BY ZenonT(30), <1>6, <1>7, <2>1, <2>2
  <2>4. w \in Write /\ w.index = n /\ w.key = k /\ w.value = v
    BY SMTT(30), <1>5, <2>3 DEF Write
  <2> QED BY <2>2, <2>4
<1>10. ASSUME NEW i \in DOMAIN ops PROVE \E w \in New : w.key = ops[i].key /\ w.index = n
  <2>1. PICK w : w = [index |-> n, key |-> ops[i].key, value |-> Observed(d, ops[i].key)]
    OBVIOUS
  <2>2. w.key = ops[i].key /\ w.index = n
    BY SMT, <2>1
  <2>3. w \in New
    BY <2>1
  <2> QED BY <2>2, <2>3
<1> HIDE DEF New
<1>11. ASSUME NEW k, NEW x, NEW v, IsWrite(h, k, x, v)
       PROVE  IsWrite(q, k, x, v) /\ x # n
  <2>1. x \in Nat /\ 1 <= x /\ x < n /\ v = Observed(h[x + 1], k)
    BY <1>5, <1>11 DEF IsWrite
  <2>2. x + 1 \in 1..n /\ x < n + 1 /\ x # n
    BY SMT, <1>5, <2>1
  <2>3. q[x + 1] = h[x + 1]
    BY <1>4, <2>2
  <2> QED BY <1>4, <2>1, <2>2, <2>3 DEF IsWrite
<1>12. ASSUME NEW k \in Key PROVE LogOK(writes[k], unrecorded \cup New, q, k)
  <2>1. PICK log : log = writes[k]
    OBVIOUS
  <2>2. LogOK(log, unrecorded, h, k)
    BY <1>3, <2>1 DEF CheckInv
  <2>3. \A e \in Entries(log) : IsWrite(h, k, e[1], e[2])
    BY <2>2 DEF LogOK
  <2>4. ASSUME NEW w \in unrecorded \cup New, w.key = k
        PROVE  IsWrite(q, k, w.index, w.value) /\ \A e \in Entries(log) : e[1] # w.index
    <3>1. CASE w \in unrecorded
      BY <1>11, <2>2, <2>4, <3>1 DEF LogOK
    <3>2. CASE w \in New
      <4>1. w.index = n /\ w.value = Observed(q[n + 1], k)
        BY <1>4, <1>9, <2>4, <3>2
      <4>2. n < n + 1
        BY SMT, <1>5
      <4>3. IsWrite(q, k, n, w.value)
        BY <1>4, <1>5, <4>1, <4>2 DEF IsWrite
      <4> QED BY <1>11, <2>3, <4>1, <4>3
    <3> QED BY <2>4, <3>1, <3>2
  <2>5. ASSUME NEW x \in Nat, 1 <= x, x < n + 1
        PROVE  \/ \E e \in Entries(log) : e[1] = x
               \/ \E w \in unrecorded \cup New : w.key = k /\ w.index = x
               \/ Observed(q[x + 1], k) = Observed(q[x], k)
    <3>1. CASE x < n
      <4>1. x + 1 \in 1..n /\ x \in 1..n
        BY SMTT(30), <1>5, <2>5, <3>1
      <4>2. q[x + 1] = h[x + 1] /\ q[x] = h[x]
        BY <1>4, <4>1
      <4> QED BY <1>5, <2>2, <2>5, <3>1, <4>2 DEF LogOK
    <3>2. CASE x = n
      <4>1. CASE \E i \in DOMAIN ops : ops[i].key = k
        BY <1>10, <3>2, <4>1
      <4>2. CASE ~\E i \in DOMAIN ops : ops[i].key = k
        <5>1. SameAt(d, h[n], k)
          BY <1>4, <1>5, <4>2
        <5>2. Observed(d, k) = Observed(h[n], k)
          BY <5>1 DEF Observed, SameAt
        <5>3. n \in 1..n
          BY SMT, <1>5
        <5>4. q[n] = h[n] /\ q[n + 1] = d
          BY <1>4, <5>3
        <5> QED BY <3>2, <5>2, <5>4
      <4> QED BY <4>1, <4>2
    <3>3. x < n \/ x = n
      BY SMTT(30), <1>5, <2>5
    <3> QED BY <3>1, <3>2, <3>3
  <2>6. \A e \in Entries(log) : IsWrite(q, k, e[1], e[2])
    BY <1>11, <2>3
  <2>7. LogOK(log, unrecorded \cup New, q, k)
    BY <1>4, <2>2, <2>4, <2>5, <2>6 DEF LogOK
  <2> QED BY <2>1, <2>7
<1>13. \A k \in Key : LogOK(writes'[k], unrecorded', past', k)
  BY <1>1, <1>3, <1>8, <1>12
<1>14. unrecorded' \subseteq Write
  BY <1>1, <1>8, <1>9
<1>15. DOMAIN writes' = Key /\ writes' = [k \in Key |-> writes'[k]]
  BY <1>1 DEF CheckInv
<1> QED BY <1>2, <1>13, <1>14, <1>15 DEF CheckInv

\* A write recorded, late and in any order.
LEMMA CheckInvRecord ==
  ASSUME CheckInv, NEW w \in unrecorded, RecordWrite(w)
  PROVE  CheckInv'
<1>1. /\ unrecorded' = unrecorded \ {w} /\ data' = data /\ past' = past
      /\ writes' = [writes EXCEPT ![w.key] = Append(writes[w.key], <<w.index, w.value>>)]
  BY DEF RecordWrite, mapVars
<1>2. MapInv'
  <2>1. MapInv
    BY DEF CheckInv
  <2> QED BY <1>1, <2>1, MapFrame
<1>3. unrecorded \subseteq Write /\ DOMAIN writes = Key /\ writes = [k \in Key |-> writes[k]]
  BY DEF CheckInv
<1>4. w.key \in Key /\ w.index \in Nat /\ w.value \in Val
  <2>1. w \in Write
    BY <1>3
  <2> QED BY SMT, <2>1, SnapshotMapAssumption DEF Write, Val
<1>5. PICK e : e = <<w.index, w.value>>
  OBVIOUS
<1>6. e \in Nat \X Val /\ e[1] = w.index /\ e[2] = w.value
  BY SMT, <1>4, <1>5
<1>7. /\ DOMAIN writes' = Key /\ writes' = [k \in Key |-> writes'[k]]
      /\ writes'[w.key] = Append(writes[w.key], e)
      /\ \A k \in Key : k # w.key => writes'[k] = writes[k]
  BY <1>1, <1>3, <1>4, <1>5
<1>8. ASSUME NEW u \in unrecorded, u.key = w.key, u.index = w.index, u.value = w.value
      PROVE  u = w
  <2>1. u \in Write /\ w \in Write
    BY <1>3
  <2> QED BY SMT, <1>8, <2>1 DEF Write
<1>9. ASSUME NEW k \in Key PROVE LogOK(writes'[k], unrecorded \ {w}, past, k)
  <2>1. PICK log : log = writes[k]
    OBVIOUS
  <2>2. LogOK(log, unrecorded, past, k)
    BY <2>1 DEF CheckInv
  <2>3. CASE k # w.key
    <3>1. LogOK(log, unrecorded \ {w}, past, k)
      BY <2>2, <2>3 DEF LogOK
    <3> QED BY <1>7, <2>1, <2>3, <3>1
  <2>4. CASE k = w.key
    <3>1. PICK t : t = Append(log, e)
      OBVIOUS
    <3>2. log \in Seq(Nat \X Val) /\ Distinct(log)
      BY <2>2 DEF LogOK
    <3>3. /\ t \in Seq(Nat \X Val) /\ Len(t) = Len(log) + 1 /\ Len(log) \in Nat
          /\ t[Len(log) + 1] = e /\ \A i \in 1..Len(log) : t[i] = log[i]
      BY SMTT(30), <1>6, <3>1, <3>2
    <3>4. \A i \in 1..Len(t) : i \in 1..Len(log) \/ i = Len(log) + 1
      BY SMT, <3>3
    <3>5. Entries(t) = Entries(log) \cup {e}
      <4>1. ASSUME NEW c \in Entries(t) PROVE c \in Entries(log) \cup {e}
        <5>1. PICK i \in 1..Len(t) : c = t[i]
          BY DEF Entries
        <5> QED BY <3>3, <3>4, <5>1 DEF Entries
      <4>2. \A i \in 1..Len(log) : i \in 1..Len(t)
        BY SMTT(30), <3>3
      <4>3. Len(log) + 1 \in 1..Len(t)
        BY SMT, <3>3
      <4>4. ASSUME NEW c \in Entries(log) PROVE c \in Entries(t)
        <5>1. PICK i \in 1..Len(log) : c = log[i]
          BY DEF Entries
        <5>2. i \in 1..Len(t) /\ c = t[i]
          BY <3>3, <4>2, <5>1
        <5> QED BY <5>2 DEF Entries
      <4>5. e \in Entries(t)
        BY <3>3, <4>3 DEF Entries
      <4> QED BY <4>1, <4>4, <4>5
    <3>6. \A c \in Entries(log) : c[1] # e[1]
      BY <1>6, <2>2, <2>4 DEF LogOK
    <3>7. Distinct(t)
      <4> SUFFICES ASSUME NEW i \in 1..Len(t), NEW j \in 1..Len(t), t[i][1] = t[j][1] PROVE i = j
        BY DEF Distinct
      <4>1. CASE i \in 1..Len(log) /\ j \in 1..Len(log)
        BY <3>2, <3>3, <4>1 DEF Distinct
      <4>2. CASE i \in 1..Len(log) /\ j = Len(log) + 1
        BY <3>3, <3>6, <4>2 DEF Entries
      <4>3. CASE i = Len(log) + 1 /\ j \in 1..Len(log)
        BY <3>3, <3>6, <4>3 DEF Entries
      <4> QED BY <3>4, <4>1, <4>2, <4>3
    <3>8. IsWrite(past, k, e[1], e[2])
      BY <1>6, <2>2, <2>4 DEF LogOK
    <3>9. ASSUME NEW u \in unrecorded \ {w}, u.key = k
          PROVE  IsWrite(past, k, u.index, u.value) /\ e[1] # u.index
      <4>1. IsWrite(past, k, u.index, u.value)
        BY <2>2, <3>9 DEF LogOK
      <4>2. u.index = e[1] => u.value = e[2]
        BY <3>8, <4>1 DEF IsWrite
      <4> QED BY <1>6, <1>8, <2>4, <3>9, <4>1, <4>2
    <3>10. ASSUME NEW x \in Nat, 1 <= x /\ x < Len(past)
           PROVE  \/ \E c \in Entries(t) : c[1] = x
                  \/ \E u \in unrecorded \ {w} : u.key = k /\ u.index = x
                  \/ Observed(past[x + 1], k) = Observed(past[x], k)
      <4>1. CASE x = e[1]
        BY <3>5, <4>1
      <4>2. CASE x # e[1]
        BY <1>6, <2>2, <3>5, <3>10, <4>2 DEF LogOK
      <4> QED BY <4>1, <4>2
    <3>11. \A c \in Entries(t) : IsWrite(past, k, c[1], c[2])
      BY <2>2, <3>5, <3>8 DEF LogOK
    <3>12. \A u \in unrecorded \ {w} : u.key = k => \A c \in Entries(t) : c[1] # u.index
      BY <2>2, <3>5, <3>9 DEF LogOK
    <3>13. LogOK(t, unrecorded \ {w}, past, k)
      BY <3>3, <3>7, <3>9, <3>10, <3>11, <3>12 DEF LogOK
    <3> QED BY <1>7, <2>1, <2>4, <3>1, <3>13
  <2> QED BY <2>3, <2>4
<1>10. \A k \in Key : LogOK(writes'[k], unrecorded', past', k)
  BY <1>1, <1>9
<1>11. unrecorded' \subseteq Write
  BY <1>1, <1>3
<1> QED BY <1>2, <1>7, <1>10, <1>11 DEF CheckInv

\* check sorts every log in place.
LEMMA CheckInvCheck ==
  ASSUME CheckInv, Check
  PROVE  CheckInv'
<1>1. /\ unrecorded' = unrecorded /\ data' = data /\ past' = past
      /\ writes' = [k \in Key |-> Sorted(writes[k])]
  BY DEF Check
<1>2. MapInv' /\ unrecorded' \subseteq Write
  <2>1. MapInv /\ unrecorded \subseteq Write
    BY DEF CheckInv
  <2> QED BY <1>1, <2>1, MapFrame
<1>3. DOMAIN writes' = Key /\ writes' = [k \in Key |-> writes'[k]] /\ \A k \in Key : writes'[k] = Sorted(writes[k])
  BY <1>1
<1>4. ASSUME NEW k \in Key PROVE LogOK(writes'[k], unrecorded', past', k)
  <2>1. LogOK(writes[k], unrecorded, past, k)
    BY DEF CheckInv
  <2>2. LogOK(Sorted(writes[k]), unrecorded, past, k)
    BY <2>1, SortedLog
  <2> QED BY <1>1, <1>3, <2>2
<1> QED BY <1>2, <1>3, <1>4 DEF CheckInv

\* For any keys, values, batches and orders of recording: the log of a key and
\* the writes still to be recorded are together the changes of the key, each
\* once, and a version stands for one value.
THEOREM SnapshotInvariant == WatchedSpec => []CheckInv
<1>1. WatchedInit => CheckInv
  BY CheckInvInit
<1>2. CheckInv /\ [WatchedNext]_allVars => CheckInv'
  <2> SUFFICES ASSUME CheckInv, [WatchedNext]_allVars PROVE CheckInv'
    OBVIOUS
  <2>1. CASE WatchedNext
    BY <2>1, CheckInvCommit, CheckInvRecord, CheckInvCheck DEF WatchedNext
  <2>2. CASE UNCHANGED allVars
    <3>1. data' = data /\ past' = past /\ unrecorded' = unrecorded /\ writes' = writes
      BY <2>2 DEF allVars
    <3>2. MapInv'
      BY <3>1, MapFrame DEF CheckInv
    <3>3. \A k \in Key : LogOK(writes'[k], unrecorded', past', k)
      BY <3>1 DEF CheckInv
    <3> QED BY <3>1, <3>2, <3>3 DEF CheckInv
  <2> QED BY <2>1, <2>2
<1> QED BY <1>1, <1>2, PTL DEF WatchedSpec

\* Prefix scans and range scans return exactly the live keys of their range,
\* for any keys over bytes of any size.
THEOREM ScansAreExactHolds == WatchedSpec => []ScansAreExact
<1>1. CheckInv => ScansAreExact
  <2> SUFFICES ASSUME CheckInv PROVE ScansAreExact
    OBVIOUS
  <2>1. past \in Seq(Map) /\ Len(past) \in Nat /\ 1 <= Len(past) /\ data = past[Len(past)]
    BY DEF CheckInv, MapInv
  <2>2. past[Len(past)] \in Map
    BY SMT, <2>1
  <2>3. DOMAIN data \subseteq Key
    BY <2>1, <2>2 DEF Map
  <2> QED BY <2>3, ScansExact
<1> QED BY <1>1, SnapshotInvariant, PTL

\* Whenever two snapshots give a key the same version they give it the same
\* value, and so does every snapshot between, for any number of commits.
THEOREM VersionIdentifiesValueHolds == WatchedSpec => []VersionIdentifiesValue
<1>1. CheckInv => VersionIdentifiesValue
  BY DEF CheckInv, MapInv
<1> QED BY <1>1, SnapshotInvariant, PTL

\* The checker reports a read exactly when it is wrong, once the writes up to
\* its index are recorded, in whatever order.
THEOREM CheckIsExactHolds == WatchedSpec => []CheckIsExact
<1>1. CheckInv => CheckIsExact
  BY CheckExact
<1> QED BY <1>1, SnapshotInvariant, PTL

=============================================================================
