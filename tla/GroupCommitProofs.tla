------------------------- MODULE GroupCommitProofs --------------------------
(***************************************************************************)
(* Proofs about GroupCommit, for any sets of calls and checkpoints and any *)
(* number of crashes: the lock and the queue, the log and the snapshot, the*)
(* cut a checkpoint draws through the log, the order of the log, what an   *)
(* answered call may rely on, the life of a call from its start to its     *)
(* answer, and that the commit path implements the store's promise to its  *)
(* callers: every step of GroupCommit is a step of DurableStore, or none,  *)
(* under the mapping that GroupCommit states.                              *)
(***************************************************************************)
EXTENDS GroupCommit, TLAPS

USE GroupCommitAssumption

-----------------------------------------------------------------------------
(* Facts about sequences *)

\* The empty sequence, the content of a fresh log or queue, has every type.
LEMMA EmptyIsSeq == \A S : <<>> \in Seq(S)
  OBVIOUS

\* What appending a group to the log or to the snapshot does, entry by entry.
LEMMA ConcatFacts ==
  ASSUME NEW S, NEW s \in Seq(S), NEW t \in Seq(S)
  PROVE  /\ s \o t \in Seq(S)
         /\ Len(s \o t) = Len(s) + Len(t)
         /\ \A i \in 1..Len(s) : (s \o t)[i] = s[i]
         /\ \A i \in 1..Len(t) : (s \o t)[Len(s) + i] = t[i]
  OBVIOUS

\* The records a flusher makes of a group: one per call, numbered on from the
\* snapshot's index.
LEMMA RecordsFacts ==
  ASSUME NEW g \in Seq(Call), NEW s \in Snapshot
  PROVE  /\ Records(g, s) \in Seq(Entry)
         /\ Len(Records(g, s)) = Len(g)
         /\ \A i \in 1..Len(g) : Records(g, s)[i] = [cmd |-> g[i], index |-> s.index + i]
  BY DEF Records, Entry, Snapshot

\* The segment numbers recorded for a group of records.
LEMMA SegsFacts ==
  ASSUME NEW n \in Nat, NEW m \in Nat
  PROVE  /\ [i \in 1..n |-> m] \in Seq(Nat)
         /\ Len([i \in 1..n |-> m]) = n
  OBVIOUS

\* What is left of the records in flight when a crash keeps some of them.
LEMMA TakeFacts ==
  ASSUME NEW S, NEW s \in Seq(S), NEW n \in 0..Len(s)
  PROVE  /\ SubSeq(s, 1, n) \in Seq(S)
         /\ Len(SubSeq(s, 1, n)) = n
         /\ \A i \in 1..n : SubSeq(s, 1, n)[i] = s[i]
  OBVIOUS

\* Applying a group lengthens the snapshot by one entry per call.
LEMMA RecordsConcat ==
  ASSUME NEW g \in Seq(Call), NEW s \in Snapshot
  PROVE  Len(s.data \o Records(g, s)) = Len(s.data) + Len(g)
<1>1. s.data \in Seq(Entry)
  BY Zenon DEF Snapshot
<1>2. Records(g, s) \in Seq(Entry) /\ Len(Records(g, s)) = Len(g)
  BY Zenon, RecordsFacts
<1> DEFINE r == Records(g, s)
           d == s.data
<1> HIDE DEF r, d
<1>3. d \in Seq(Entry) /\ r \in Seq(Entry) /\ Len(r) = Len(g)
  BY Zenon, <1>1, <1>2 DEF r, d
<1>4. Len(d \o r) = Len(d) + Len(g)
  BY <1>3
<1> QED
  BY Zenon, <1>4 DEF r, d

\* The indexes apply_group gives the records of a group are consecutive.
LEMMA RecordsNumbered ==
  ASSUME NEW g \in Seq(Call), NEW s \in Snapshot
  PROVE  \A i \in 1..Len(Records(g, s)) : Records(g, s)[i].index = s.index + i
<1> SUFFICES ASSUME NEW i \in 1..Len(Records(g, s)) PROVE Records(g, s)[i].index = s.index + i
  BY Zenon
<1>1. Records(g, s)[i] = [cmd |-> g[i], index |-> s.index + i]
  BY Zenon, RecordsFacts
<1> QED
  BY <1>1

\* A log numbered 1, 2, ... stays so when records that go on from its length
\* are appended.
LEMMA ConcatNumbered ==
  ASSUME NEW s \in Seq(Entry), NEW t \in Seq(Entry),
         \A i \in 1..Len(s) : s[i].index = i,
         \A i \in 1..Len(t) : t[i].index = Len(s) + i
  PROVE  \A i \in 1..Len(s \o t) : (s \o t)[i].index = i
<1> SUFFICES ASSUME NEW i \in 1..Len(s \o t) PROVE (s \o t)[i].index = i
  BY Zenon
<1>1. Len(s) \in Nat /\ Len(t) \in Nat /\ Len(s \o t) = Len(s) + Len(t)
  OBVIOUS
<1>2. CASE i \in 1..Len(s)
  BY <1>2
<1>3. CASE i \notin 1..Len(s)
  <2>1. i - Len(s) \in 1..Len(t) /\ i = Len(s) + (i - Len(s))
    BY <1>1, <1>3
  <2>2. (s \o t)[i] = t[i - Len(s)]
    BY <2>1, ConcatFacts
  <2> QED
    BY Zenon, <1>1, <2>1, <2>2
<1> QED
  BY Zenon, <1>2, <1>3

\* Appending keeps what was there as a prefix.
LEMMA ConcatPrefix ==
  ASSUME NEW s \in Seq(Entry), NEW t \in Seq(Entry)
  PROVE  Prefix(s, s \o t)
  BY DEF Prefix

-----------------------------------------------------------------------------
(* Type correctness *)

\* Opening an empty store gives state of the right type.
LEMMA InitTypeOK == Init => TypeOK
<1> SUFFICES ASSUME Init PROVE TypeOK
  BY Zenon
<1>1. flushing \in BOOLEAN /\ poisoned \in BOOLEAN
  BY Zenon DEF Init, LogInit
<1>2. LogTypeOK(Entry)
  BY <1>1 DEF Init, LogInit, LogTypeOK
<1>3. snap \in Snapshot /\ cur \in [Proc -> Snapshot]
  BY DEF Init, EmptySnapshot, Snapshot
<1> QED
  BY <1>1, <1>2, <1>3 DEF Init, TypeOK, Unset, Result, Outcome, NoCut, PcTypeOK, Proc, CallPC, CkptPC

\* The two flags stay Boolean.
LEMMA NextBoolean ==
  ASSUME TypeOK, [Next]_vars
  PROVE  flushing' \in BOOLEAN /\ poisoned' \in BOOLEAN
<1> USE DEF TypeOK, LogTypeOK, logVars, queueVars
<1>1. CASE UNCHANGED vars
  BY Zenon, <1>1 DEF vars
<1>2. CASE \E c \in Call : CallStep(c)
  BY <1>2, ZenonT(30), ZenonT(60) DEF CallStep, Refuse, Submit, TakeTicket, Compete, FlushOrWait, Prepare, Panic,
     AppendStart, AppendBegin, AppendRefused, RotateFailed, AppendNothing, AppendDone,
     AppendOk, AppendFailed, AppendRolledBack, AppendPoisoned, Publish, Mirror, Settle, Release
<1>3. CASE \E k \in Ckpt : CkptStep(k)
  BY Zenon, <1>3 DEF CkptStep, LockCkpt, Enter, Pin, Rotate, RotateOk, RotateError, RotateFailed,
     ReleaseExclusive, FinishCkpt
<1>4. CASE (\E p \in Proc : SpuriousWake(p)) \/ Crash
  BY Zenon, <1>4 DEF SpuriousWake, Crash, Reopen
<1> QED
  BY Zenon, <1>1, <1>2, <1>3, <1>4 DEF Next

\* A process that moves, alone or waking every sleeper, stays within its steps.
LEMMA GotoType ==
  ASSUME PcTypeOK, NEW p \in Proc, NEW w,
         p \in Call => w \in CallPC, p \in Ckpt => w \in CkptPC,
         Goto(p, w) \/ GotoNotifying(p, w)
  PROVE  PcTypeOK'
  BY DEF PcTypeOK, Proc, CallPC, CkptPC, Goto, GotoNotifying

\* Every step of a commit, of a checkpoint and of a crash keeps the types.
LEMMA NextTypeOK == TypeOK /\ [Next]_vars => TypeOK'
<1> SUFFICES ASSUME TypeOK, [Next]_vars PROVE TypeOK'
  BY Zenon
<1> USE DEF TypeOK, Proc, queueVars, stateVars, ckptVars
<1>0. flushing' \in BOOLEAN /\ poisoned' \in BOOLEAN
  BY Zenon, NextBoolean
<1>1. ASSUME NEW c \in Call, CallStep(c) PROVE TypeOK'
  <2>1. CASE Refuse(c)
    <3>1. PcTypeOK'
      BY Zenon, <2>1, GotoType DEF Refuse, CallPC, CallCritical
    <3>2. LogTypeOK(Entry)'
      BY Zenon, <1>0, <2>1 DEF Refuse, LogTypeOK, logVars
    <3> QED
      BY Zenon, <1>0, <2>1, <3>1, <3>2 DEF Refuse, Returned, Outcome
  <2>2. CASE Submit(c)
    <3>1. PcTypeOK'
      BY Zenon, <2>2, GotoType DEF Submit, CallPC, CallCritical, FlushOrWait
    <3>2. LogTypeOK(Entry)'
      BY Zenon, <1>0, <2>2 DEF Submit, LogTypeOK, logVars
    <3>3. pending' \in Seq(Call) /\ group' \in [Call -> Seq(Call)]
      <4>1. /\ pending' = <<>> \/ pending' = Append(pending, c)
            /\ group' = group \/ group' = [group EXCEPT ![c] = Append(pending, c)]
        BY Zenon, <2>2 DEF Submit, FlushOrWait
      <4>2. Append(pending, c) \in Seq(Call)
        OBVIOUS
      <4>3. group \in [Call -> Seq(Call)]
        BY Zenon
      <4> HIDE DEF TypeOK
      <4>4. pending' \in Seq(Call)
        BY Zenon, <4>1, <4>2, EmptyIsSeq
      <4>5. group' \in [Call -> Seq(Call)]
        BY Zenon, <4>1, <4>2, <4>3
      <4> QED
        BY Zenon, <4>4, <4>5
    <3> QED
      BY Zenon, <1>0, <2>2, <3>1, <3>2, <3>3 DEF Submit
  <2>3. CASE TakeTicket(c)
    <3>1. PcTypeOK'
      BY Zenon, <2>3, GotoType DEF TakeTicket, CallPC, CallCritical
    <3>2. LogTypeOK(Entry)'
      BY Zenon, <1>0, <2>3 DEF TakeTicket, LogTypeOK, logVars
    <3> QED
      BY Zenon, <1>0, <2>3, <3>1, <3>2 DEF TakeTicket, Result, Outcome, Unset
  <2>4. CASE Compete(c)
    <3>1. PcTypeOK'
      BY Zenon, <2>4, GotoType DEF Compete, CallPC, CallCritical, FlushOrWait
    <3>2. LogTypeOK(Entry)'
      BY Zenon, <1>0, <2>4 DEF Compete, LogTypeOK, logVars
    <3>3. pending' \in Seq(Call) /\ group' \in [Call -> Seq(Call)]
      <4>1. /\ pending' = <<>> \/ pending' = pending
            /\ group' = group \/ group' = [group EXCEPT ![c] = pending]
        BY Zenon, <2>4 DEF Compete, FlushOrWait
      <4>2. pending \in Seq(Call) /\ group \in [Call -> Seq(Call)]
        BY Zenon
      <4> HIDE DEF TypeOK
      <4>4. pending' \in Seq(Call)
        BY Zenon, <4>1, <4>2, EmptyIsSeq
      <4>5. group' \in [Call -> Seq(Call)]
        BY Zenon, <4>1, <4>2
      <4> QED
        BY Zenon, <4>4, <4>5
    <3> QED
      BY Zenon, <1>0, <2>4, <3>1, <3>2, <3>3 DEF Compete
  <2>5. CASE Prepare(c)
    <3>1. PcTypeOK'
      BY Zenon, <2>5, GotoType DEF Prepare, CallPC, CallCritical
    <3>2. LogTypeOK(Entry)'
      BY Zenon, <1>0, <2>5 DEF Prepare, LogTypeOK, logVars
    <3> QED
      BY Zenon, <1>0, <2>5, <3>1, <3>2 DEF Prepare
  <2>6. CASE Panic(c)
    <3>1. PcTypeOK'
      BY Zenon, <2>6, GotoType DEF Panic, CallPC, CallCritical
    <3>2. LogTypeOK(Entry)'
      BY Zenon, <1>0, <2>6 DEF Panic, LogTypeOK, logVars
    <3> QED
      BY SMTT(30), SMTT(60), <1>0, <2>6, <3>1, <3>2 DEF Panic, Returned, Outcome, EmptySnapshot, Snapshot
  <2>7. CASE AppendStart(c)
    <3>1. PcTypeOK'
      BY Zenon, <2>7, GotoType DEF AppendStart, CallPC, CallCritical
    <3>2. LogTypeOK(Entry)'
      <4>1. Records(group[c], cur[c]) \in Seq(Entry)
        BY Zenon, RecordsFacts
      <4> QED
        BY <1>0, <2>7, <4>1 DEF AppendStart, LogTypeOK, AppendBegin
    <3> QED
      BY Zenon, <1>0, <2>7, <3>1, <3>2 DEF AppendStart
  <2>8. CASE AppendRefused(c)
    <3>1. PcTypeOK'
      BY Zenon, <2>8, GotoType DEF AppendRefused, CallPC, CallCritical
    <3>2. LogTypeOK(Entry)'
      BY Zenon, <1>0, <2>8 DEF AppendRefused, LogTypeOK, logVars, RotateFailed
    <3> QED
      BY Zenon, <1>0, <2>8, <3>1, <3>2 DEF AppendRefused
  <2>9. CASE AppendNothing(c)
    <3>1. PcTypeOK'
      BY Zenon, <2>9, GotoType DEF AppendNothing, CallPC, CallCritical
    <3>2. LogTypeOK(Entry)'
      BY Zenon, <1>0, <2>9 DEF AppendNothing, LogTypeOK, logVars
    <3> QED
      <4>1. stats' \in [commits : Nat, walSyncs : Nat]
        <5>1. stats' = [stats EXCEPT !.walSyncs = @ + 1]
          BY Zenon, <2>9 DEF AppendNothing
        <5>2. stats \in [commits : Nat, walSyncs : Nat]
          BY Zenon
        <5> HIDE DEF TypeOK
        <5> QED
          BY <5>1, <5>2
      <4> QED
        BY Zenon, <1>0, <2>9, <3>1, <3>2, <4>1 DEF AppendNothing
  <2>10. CASE AppendDone(c)
    <3>1. PcTypeOK'
      BY Zenon, <2>10, GotoType DEF AppendDone, CallPC, CallCritical
    <3>2. LogTypeOK(Entry)'
      BY <1>0, <2>10, ConcatFacts, SegsFacts DEF AppendDone, LogTypeOK, logVars, AppendOk
    <3> QED
      BY SMTT(30), SMTT(60), <1>0, <2>10, <3>1, <3>2 DEF AppendDone
  <2>11. CASE AppendFailed(c)
    <3>1. PcTypeOK'
      BY Zenon, <2>11, GotoType DEF AppendFailed, CallPC, CallCritical
    <3>2. LogTypeOK(Entry)'
      <4>1. CASE AppendRolledBack
        BY <1>0, <4>1 DEF LogTypeOK, AppendRolledBack
      <4>2. CASE AppendPoisoned
        BY Zenon, <1>0, <4>2 DEF LogTypeOK, AppendPoisoned
      <4> QED
        BY Zenon, <2>11, <4>1, <4>2 DEF AppendFailed
    <3> QED
      BY Zenon, <1>0, <2>11, <3>1, <3>2 DEF AppendFailed
  <2>12. CASE Publish(c)
    <3>1. PcTypeOK'
      BY Zenon, <2>12, GotoType DEF Publish, CallPC, CallCritical
    <3>2. LogTypeOK(Entry)'
      BY Zenon, <1>0, <2>12 DEF Publish, LogTypeOK, logVars
    <3> QED
      <4>1. Records(group[c], cur[c]) \in Seq(Entry)
        BY Zenon, RecordsFacts
      <4>2. cur[c].data \o Records(group[c], cur[c]) \in Seq(Entry)
        BY <4>1 DEF Snapshot
      <4>3. snap' \in Snapshot
        <5>1. snap' = [index |-> cur[c].index + Len(group[c]),
                       data |-> cur[c].data \o Records(group[c], cur[c])]
          BY Zenon, <2>12 DEF Publish
        <5>2. cur[c].index + Len(group[c]) \in Nat
          BY DEF Snapshot
        <5> QED
          BY Zenon, <4>2, <5>1, <5>2 DEF Snapshot
      <4> QED
        BY Zenon, <1>0, <2>12, <3>1, <3>2, <4>3 DEF Publish
  <2>13. CASE Mirror(c)
    <3>1. PcTypeOK'
      BY Zenon, <2>13, GotoType DEF Mirror, CallPC, CallCritical
    <3>2. LogTypeOK(Entry)'
      BY Zenon, <1>0, <2>13 DEF Mirror, LogTypeOK, logVars
    <3> QED
      <4>1. index' \in Nat
        BY SMTT(30), SMTT(60), <2>13 DEF Mirror, Snapshot
      <4> QED
        BY Zenon, <1>0, <2>13, <3>1, <3>2, <4>1 DEF Mirror
  <2>14. CASE Settle(c)
    <3>1. PcTypeOK'
      BY Zenon, <2>14, GotoType DEF Settle, CallPC, CallCritical
    <3>2. LogTypeOK(Entry)'
      BY Zenon, <1>0, <2>14 DEF Settle, LogTypeOK, logVars
    <3> QED
      <4>1. ASSUME NEW d \in Call PROVE ticket'[d] \in Result
        <5>1. CASE \E i \in 1..Len(group[c]) : group[c][i] = d
          <6>1. (CHOOSE i \in 1..Len(group[c]) : group[c][i] = d) \in 1..Len(group[c])
            BY Zenon, <5>1
          <6>2. cur[c].index + (CHOOSE i \in 1..Len(group[c]) : group[c][i] = d) \in Nat
            <7>1. cur[c].index \in Nat /\ Len(group[c]) \in Nat
              BY SMTT(30), SMTT(60) DEF Snapshot
            <7> HIDE DEF TypeOK
            <7> QED
              BY <6>1, <7>1
          <6>3. ticket'[d] = Ok(cur[c].index + (CHOOSE i \in 1..Len(group[c]) : group[c][i] = d))
                \/ ticket'[d] = Err
            BY Zenon, <2>14, <5>1 DEF Settle
          <6> QED
            BY SMTT(30), SMTT(60), <6>2, <6>3 DEF Ok, Err, Result
        <5>2. CASE ~ \E i \in 1..Len(group[c]) : group[c][i] = d
          BY Zenon, <2>14, <5>2 DEF Settle
        <5> QED
          BY Zenon, <5>1, <5>2
      <4>2. ticket' \in [Call -> Result]
        BY Zenon, <2>14, <4>1 DEF Settle
      <4> QED
        BY Zenon, <1>0, <2>14, <3>1, <3>2, <4>2 DEF Settle
  <2>15. CASE Release(c)
    <3>1. PcTypeOK'
      BY Zenon, <2>15, GotoType DEF Release, CallPC, CallCritical
    <3>2. LogTypeOK(Entry)'
      BY Zenon, <1>0, <2>15 DEF Release, LogTypeOK, logVars
    <3> QED
      <4>1. ret' \in [Call -> Outcome] /\ ticket' \in [Call -> Result]
        BY Zenon, <2>15 DEF Release, Returned, Outcome, Result, Unset
      <4>2. cur' \in [Proc -> Snapshot] /\ group' \in [Call -> Seq(Call)]
        BY SMTT(30), SMTT(60), <2>15 DEF Release, EmptySnapshot, Snapshot
      <4> QED
        BY Zenon, <1>0, <2>15, <3>1, <3>2, <4>1, <4>2 DEF Release
  <2> QED
    BY Zenon, <1>1, <2>1, <2>2, <2>3, <2>4, <2>5, <2>6, <2>7, <2>8,
       <2>9, <2>10, <2>11, <2>12, <2>13, <2>14, <2>15 DEF CallStep
<1>2. ASSUME NEW k \in Ckpt, CkptStep(k) PROVE TypeOK'
  <2>1. CASE LockCkpt(k)
    <3>1. PcTypeOK'
      BY Zenon, <2>1, GotoType DEF LockCkpt, CkptPC, CkptCritical
    <3>2. LogTypeOK(Entry)'
      BY Zenon, <1>0, <2>1 DEF LockCkpt, LogTypeOK, logVars
    <3> QED
      BY Zenon, <1>0, <2>1, <3>1, <3>2 DEF LockCkpt
  <2>2. CASE Enter(k)
    <3>1. PcTypeOK'
      BY Zenon, <2>2, GotoType DEF Enter, CkptPC, CkptCritical
    <3>2. LogTypeOK(Entry)'
      BY Zenon, <1>0, <2>2 DEF Enter, LogTypeOK, logVars
    <3> QED
      BY Zenon, <1>0, <2>2, <3>1, <3>2 DEF Enter
  <2>3. CASE Pin(k)
    <3>1. PcTypeOK'
      BY Zenon, <2>3, GotoType DEF Pin, CkptPC, CkptCritical
    <3>2. LogTypeOK(Entry)'
      BY Zenon, <1>0, <2>3 DEF Pin, LogTypeOK, logVars
    <3> QED
      BY Zenon, <1>0, <2>3, <3>1, <3>2 DEF Pin
  <2>4. CASE Rotate(k)
    <3>1. PcTypeOK'
      BY Zenon, <2>4, GotoType DEF Rotate, CkptPC, CkptCritical
    <3>2. LogTypeOK(Entry)'
      BY <1>0, <2>4 DEF Rotate, LogTypeOK, logVars, RotateOk
    <3> QED
      BY Zenon, <1>0, <2>4, <3>1, <3>2 DEF Rotate, Snapshot, RotateOk, LogTypeOK
  <2>5. CASE RotateError(k)
    <3>1. PcTypeOK'
      BY Zenon, <2>5, GotoType DEF RotateError, CkptPC, CkptCritical
    <3>2. LogTypeOK(Entry)'
      BY Zenon, <1>0, <2>5 DEF RotateError, LogTypeOK, logVars, RotateFailed
    <3> QED
      BY Zenon, <1>0, <2>5, <3>1, <3>2 DEF RotateError
  <2>6. CASE ReleaseExclusive(k)
    <3>1. PcTypeOK'
      BY Zenon, <2>6, GotoType DEF ReleaseExclusive, CkptPC, CkptCritical
    <3>2. LogTypeOK(Entry)'
      BY Zenon, <1>0, <2>6 DEF ReleaseExclusive, LogTypeOK, logVars
    <3> QED
      BY SMTT(30), SMTT(60), <1>0, <2>6, <3>1, <3>2 DEF ReleaseExclusive, EmptySnapshot, Snapshot
  <2>7. CASE FinishCkpt(k)
    <3>1. PcTypeOK'
      BY Zenon, <2>7, GotoType DEF FinishCkpt, CkptPC, CkptCritical
    <3>2. LogTypeOK(Entry)'
      BY Zenon, <1>0, <2>7 DEF FinishCkpt, LogTypeOK, logVars
    <3> QED
      BY Zenon, <1>0, <2>7, <3>1, <3>2 DEF FinishCkpt
  <2> QED
    BY Zenon, <1>2, <2>1, <2>2, <2>3, <2>4, <2>5, <2>6, <2>7 DEF CkptStep
<1>3. ASSUME NEW p \in Proc, SpuriousWake(p) PROVE TypeOK'
  <2>1. PcTypeOK'
    BY Zenon, <1>3, GotoType DEF SpuriousWake, CallPC, CkptPC
  <2> QED
    BY Zenon, <1>3, <2>1 DEF SpuriousWake, LogTypeOK, logVars
<1>4. CASE Crash
  <2>1. PICK n \in 0..Len(tail) :
          /\ log' = log \o SubSeq(tail, 1, n)
          /\ segOf' = segOf \o [i \in 1..n |-> seg]
    BY Zenon, <1>4 DEF Crash, Reopen
  <2>2. LogTypeOK(Entry)'
    <3>1. /\ SubSeq(tail, 1, n) \in Seq(Entry)
          /\ [i \in 1..n |-> seg] \in Seq(Nat)
      BY <2>1, TakeFacts, SegsFacts DEF LogTypeOK
    <3>2. log' \in Seq(Entry) /\ segOf' \in Seq(Nat)
      BY Zenon, <2>1, <3>1, ConcatFacts DEF LogTypeOK
    <3> QED
      <4>1. tail' = <<>> /\ seg' \in {seg, seg + 1}
        BY Zenon, <1>4 DEF Crash, Reopen
      <4> QED
        BY <1>0, <3>2, <4>1 DEF LogTypeOK
  <2>3. snap' \in Snapshot /\ index' \in Nat
    <3>1. log' # <<>> => log'[Len(log')] \in Entry
      BY SMTT(30), SMTT(60), <2>2 DEF LogTypeOK
    <3>2. (IF log' = <<>> THEN 0 ELSE log'[Len(log')].index) \in Nat
      BY Zenon, <3>1 DEF Entry
    <3> QED
      BY Zenon, <1>4, <2>2, <3>2 DEF Crash, Snapshot, LogTypeOK
  <2>4. PcTypeOK'
    BY Zenon, <1>4 DEF Crash, PcTypeOK, CallPC, CkptPC
  <2> QED
    BY SMTT(30), SMTT(60), <1>0, <1>4, <2>2, <2>3, <2>4
    DEF Crash, Returned, Outcome, Unset, Result, EmptySnapshot, Snapshot
<1>5. CASE UNCHANGED vars
  BY Zenon, <1>5 DEF vars, procVars, PcTypeOK, LogTypeOK, logVars
<1> QED
  BY Zenon, <1>1, <1>2, <1>3, <1>4, <1>5 DEF Next

\* Every variable keeps its type, for any sets of calls and checkpoints.
THEOREM TypeCorrect == Spec => []TypeOK
  BY InitTypeOK, NextTypeOK, PTL DEF Spec

-----------------------------------------------------------------------------
(* Mutual exclusion and wake-ups *)

\* The flag is up exactly while a guard is alive, and nobody sleeps while it
\* is down.
ExclusionInv ==
  /\ FlushExclusive
  /\ \A p \in Proc : pc[p] \in Critical => flushing
  /\ flushing => \E p \in Proc : pc[p] \in Critical
  /\ \A p \in Proc : pc[p] = "waiting" => flushing

\* p moves and stays inside, or outside, the critical steps.
LEMMA MoveKeepsExclusion ==
  ASSUME PcTypeOK, ExclusionInv, NEW p \in Proc, NEW w, Goto(p, w), flushing' = flushing,
         w # "waiting", pc[p] \in Critical <=> w \in Critical
  PROVE  ExclusionInv'
  BY Zenon DEF ExclusionInv, FlushExclusive, Goto, PcTypeOK

\* p raises the flag and becomes critical.
LEMMA ClaimKeepsExclusion ==
  ASSUME PcTypeOK, ExclusionInv, NEW p \in Proc, NEW w, Goto(p, w), ~flushing, flushing',
         w \in Critical
  PROVE  ExclusionInv'
  BY Zenon DEF ExclusionInv, FlushExclusive, Goto, PcTypeOK

\* p finds the flag up and sleeps.
LEMMA SleepKeepsExclusion ==
  ASSUME PcTypeOK, ExclusionInv, NEW p \in Proc, Goto(p, "waiting"), flushing, flushing',
         pc[p] \notin Critical
  PROVE  ExclusionInv'
  BY Zenon DEF ExclusionInv, FlushExclusive, Goto, PcTypeOK, Critical, CallCritical, CkptCritical

\* p drops its guard: the flag goes down and every sleeper wakes.
LEMMA DropKeepsExclusion ==
  ASSUME PcTypeOK, ExclusionInv, NEW p \in Proc, NEW w, GotoNotifying(p, w), ~flushing',
         pc[p] \in Critical, w \notin Critical, w # "waiting"
  PROVE  ExclusionInv'
  BY Zenon DEF ExclusionInv, FlushExclusive, GotoNotifying, PcTypeOK, Critical, CallCritical, CkptCritical

\* Every step keeps the flush flag in line with the guards alive: one per
\* action, since each takes, keeps or drops the guard.
LEMMA NextExclusion == TypeOK /\ ExclusionInv /\ [Next]_vars => ExclusionInv'
<1> SUFFICES ASSUME TypeOK, ExclusionInv, [Next]_vars PROVE ExclusionInv'
  BY Zenon
<1>0. PcTypeOK
  BY Zenon DEF TypeOK
<1> USE <1>0 DEF Proc
<1> HIDE DEF TypeOK
<1>1. ASSUME NEW c \in Call, CallStep(c) PROVE ExclusionInv'
  <2> USE DEF Critical, CallCritical, CkptCritical, queueVars
  <2>1. CASE Refuse(c) \/ TakeTicket(c)
    BY Zenon, <2>1, MoveKeepsExclusion DEF Refuse, TakeTicket
  <2>2. CASE Submit(c) \/ Compete(c)
    <3>1. CASE ~flushing
      <4>1. flushing' /\ Goto(c, "prepare")
        BY Zenon, <2>2, <3>1 DEF Submit, Compete, FlushOrWait
      <4> QED
        BY Zenon, <3>1, <4>1, ClaimKeepsExclusion
    <3>2. CASE flushing
      <4>1. flushing' /\ Goto(c, "waiting") /\ pc[c] \in {"idle", "woken"}
        BY Zenon, <2>2, <3>2 DEF Submit, Compete, FlushOrWait
      <4> QED
        BY Zenon, <3>2, <4>1, SleepKeepsExclusion
    <3> QED
      BY Zenon, <3>1, <3>2
  <2>3. CASE Panic(c) \/ Release(c)
    BY Zenon, <2>3, DropKeepsExclusion DEF Panic, Release
  <2>4. CASE Prepare(c) \/ AppendStart(c) \/ AppendRefused(c) \/ AppendNothing(c)
    BY Zenon, <2>4, MoveKeepsExclusion DEF Prepare, AppendStart, AppendRefused, AppendNothing
  <2>5. CASE AppendDone(c) \/ AppendFailed(c) \/ Publish(c)
    BY Zenon, <2>5, MoveKeepsExclusion DEF AppendDone, AppendFailed, Publish
  <2>6. CASE Mirror(c) \/ Settle(c)
    BY Zenon, <2>6, MoveKeepsExclusion DEF Mirror, Settle
  <2> QED
    BY Zenon, <1>1, <2>1, <2>2, <2>3, <2>4, <2>5, <2>6 DEF CallStep
<1>2. ASSUME NEW k \in Ckpt, CkptStep(k) PROVE ExclusionInv'
  <2> USE DEF Critical, CallCritical, CkptCritical, queueVars
  <2>1. CASE LockCkpt(k) \/ FinishCkpt(k)
    BY Zenon, <2>1, MoveKeepsExclusion DEF LockCkpt, FinishCkpt
  <2>2. CASE Enter(k)
    <3>1. CASE ~flushing
      <4>1. flushing' /\ Goto(k, "pin")
        BY Zenon, <2>2, <3>1 DEF Enter
      <4> QED
        BY Zenon, <3>1, <4>1, ClaimKeepsExclusion
    <3>2. CASE flushing
      <4>1. flushing' /\ Goto(k, "waiting") /\ pc[k] \in {"enter", "woken"}
        BY Zenon, <2>2, <3>2, ZenonT(30), ZenonT(60) DEF Enter
      <4> QED
        BY Zenon, <3>2, <4>1, SleepKeepsExclusion
    <3> QED
      BY Zenon, <3>1, <3>2
  <2>3. CASE Pin(k) \/ Rotate(k) \/ RotateError(k)
    BY Zenon, <2>3, MoveKeepsExclusion DEF Pin, Rotate, RotateError
  <2>4. CASE ReleaseExclusive(k)
    BY Zenon, <2>4, DropKeepsExclusion DEF ReleaseExclusive
  <2> QED
    BY Zenon, <1>2, <2>1, <2>2, <2>3, <2>4 DEF CkptStep
<1>3. ASSUME NEW p \in Proc, SpuriousWake(p) PROVE ExclusionInv'
  BY Zenon, <1>3, MoveKeepsExclusion DEF SpuriousWake, queueVars, Critical, CallCritical, CkptCritical
<1>4. CASE Crash
  BY Zenon, <1>4 DEF Crash, ExclusionInv, FlushExclusive, Critical, CallCritical, CkptCritical
<1>5. CASE UNCHANGED vars
  BY Zenon, <1>5 DEF vars, ExclusionInv, FlushExclusive, queueVars, procVars
<1> QED
  BY Zenon, <1>1, <1>2, <1>3, <1>4, <1>5 DEF Next

\* The flag says exactly whether somebody is inside, at every step.
LEMMA ExclusionCorrect == Spec => []ExclusionInv
<1>1. Init => ExclusionInv
  BY Zenon DEF Init, ExclusionInv, FlushExclusive, Critical, CallCritical, CkptCritical
<1> QED
  BY <1>1, NextExclusion, TypeCorrect, PTL DEF Spec

\* At most one flusher or exclusive instant runs at any time, for any number of
\* calls, checkpoints and crashes.
THEOREM MutualExclusion == Spec => []FlushExclusive
<1>1. ExclusionInv => FlushExclusive
  BY Zenon DEF ExclusionInv
<1> QED
  BY <1>1, ExclusionCorrect, PTL

\* Whoever sleeps on the condition variable has a live guard to wake it, for any
\* number of calls, checkpoints and crashes.
THEOREM Wakeup == Spec => []NoLostWakeup
<1>1. ExclusionInv => NoLostWakeup
  BY Zenon DEF ExclusionInv, NoLostWakeup
<1> QED
  BY <1>1, ExclusionCorrect, PTL

-----------------------------------------------------------------------------
(* The log and the published snapshot *)

\* The log and the published snapshot agree, except between the fsync and the
\* store of the new snapshot, when the log is ahead by the group in hand.
\* From the load of the snapshot to the store of the next one the flusher's
\* copy is the published one; that is what exclusion buys.
CoreInv ==
  /\ snap.index = Len(snap.data)
  /\ \A i \in 1..Len(log) : log[i].index = i
  /\ \A i \in 1..Len(tail) : tail[i].index = Len(log) + i
  /\ (\A c \in Call : pc[c] # "publish") => log = snap.data
  /\ \A c \in Call : pc[c] \in {"append", "sync", "publish"} => cur[c] = snap
  /\ \A c \in Call : pc[c] = "publish" => log = snap.data \o Records(group[c], snap)
  /\ \A c \in Call : pc[c] = "sync" => ~poisoned /\ tail = Records(group[c], snap)
  /\ tail # <<>> /\ ~poisoned => \E c \in Call : pc[c] = "sync"

\* The steps from the append to the store of the snapshot.
Writing == {"append", "sync", "publish"}

\* While a flusher or a checkpoint is critical no other call is writing.
LEMMA Alone ==
  ASSUME ExclusionInv, NEW p \in Proc, pc[p] \in Critical
  PROVE  \A d \in Call \ {p} : pc[d] \notin Writing
  BY Zenon DEF ExclusionInv, FlushExclusive, Writing, Critical, CallCritical, Proc

\* Steps that leave the log and the snapshot alone and start no writing.
LEMMA CoreFrame ==
  ASSUME CoreInv, UNCHANGED <<log, tail, snap>>,
         poisoned' = poisoned \/ (tail = <<>> /\ \A c \in Call : pc[c] # "sync"),
         \A c \in Call : pc'[c] \in Writing =>
            cur'[c] = snap \/ (pc'[c] = pc[c] /\ cur'[c] = cur[c]),
         \A c \in Call : pc'[c] \in {"sync", "publish"} => pc'[c] = pc[c] /\ group'[c] = group[c],
         \A c \in Call : pc[c] \in {"sync", "publish"} => pc'[c] = pc[c]
  PROVE  CoreInv'
<1>1. (\A c \in Call : pc'[c] # "publish") => log' = snap'.data
  BY Zenon DEF CoreInv, Writing
<1>2. \A c \in Call : pc'[c] \in Writing => cur'[c] = snap'
  BY Zenon DEF CoreInv, Writing
<1>3. \A c \in Call : pc'[c] = "publish" => log' = snap'.data \o Records(group'[c], snap')
  BY Zenon DEF CoreInv, Writing
<1>4. \A c \in Call : pc'[c] = "sync" => ~poisoned' /\ tail' = Records(group'[c], snap')
  BY Zenon DEF CoreInv, Writing
<1>5. tail' # <<>> /\ ~poisoned' => \E c \in Call : pc'[c] = "sync"
  BY Zenon DEF CoreInv, Writing
<1> QED
  BY Zenon, <1>1, <1>2, <1>3, <1>4, <1>5 DEF CoreInv, Writing, Records

\* Every step keeps the log, the records in flight and the snapshot in line.
LEMMA NextCore == TypeOK /\ ExclusionInv /\ CoreInv /\ [Next]_vars => CoreInv'
<1> SUFFICES ASSUME TypeOK, ExclusionInv, CoreInv, [Next]_vars PROVE CoreInv'
  BY Zenon
<1>0. /\ log \in Seq(Entry) /\ tail \in Seq(Entry) /\ snap \in Snapshot
      /\ group \in [Call -> Seq(Call)] /\ cur \in [Proc -> Snapshot]
      /\ pc \in [Proc -> CallPC \cup CkptPC]
  BY Zenon DEF TypeOK, LogTypeOK, PcTypeOK
<1> USE DEF Proc
<1>1. ASSUME NEW c \in Call, CallStep(c) PROVE CoreInv'
  <2>a. pc[c] \in Critical => \A d \in Call \ {c} : pc[d] \notin Writing
    BY Zenon, Alone
  <2>1. CASE Refuse(c) \/ TakeTicket(c) \/ Mirror(c) \/ Settle(c)
    BY Zenon, <1>0, <2>1, CoreFrame DEF Refuse, TakeTicket, Mirror, Settle, Goto, logVars, stateVars, Writing
  <2>2. CASE Submit(c) \/ Compete(c)
    <3>1. /\ UNCHANGED <<log, tail, snap, poisoned, cur>>
          /\ pc[c] \in {"idle", "woken"}
          /\ \/ group' = group /\ Goto(c, "waiting")
             \/ group' = [group EXCEPT ![c] = Append(pending, c)] /\ Goto(c, "prepare")
             \/ group' = [group EXCEPT ![c] = pending] /\ Goto(c, "prepare")
      BY Zenon, <2>2, ZenonT(30), ZenonT(60) DEF Submit, Compete, FlushOrWait, logVars, stateVars
    <3> QED
      BY Zenon, <1>0, <3>1, CoreFrame DEF Goto, Writing
  <2>3. CASE Panic(c) \/ Release(c)
    BY ZenonT(30), ZenonT(60), <1>0, <2>3, CoreFrame DEF Panic, Release, GotoNotifying, logVars, stateVars, Writing
  <2>4. CASE Prepare(c)
    <3>1. /\ UNCHANGED <<log, tail, snap, poisoned, group>>
          /\ pc[c] = "prepare" /\ Goto(c, "append") /\ cur' = [cur EXCEPT ![c] = snap]
      BY Zenon, <2>4 DEF Prepare, logVars, stateVars
    <3> QED
      BY Zenon, <1>0, <3>1, CoreFrame DEF Goto, Writing
  <2>5. CASE AppendStart(c)
    <3>1. /\ UNCHANGED <<log, snap, poisoned, group, cur>>
          /\ pc[c] = "append" /\ Goto(c, "sync") /\ ~poisoned
          /\ tail' = Records(group[c], cur[c])
      BY Zenon, <2>5 DEF AppendStart, AppendBegin, stateVars
    <3>2. \A d \in Call \ {c} : pc[d] \notin Writing
      BY Zenon, <2>a, <3>1 DEF Critical, CallCritical
    <3>3. log = snap.data /\ cur[c] = snap /\ snap.index = Len(log)
      BY Zenon, <3>1, <3>2 DEF CoreInv, Writing
    <3>4. \A i \in 1..Len(tail') : tail'[i].index = Len(log) + i
      <4>1. group[c] \in Seq(Call)
        BY Zenon, <1>0
      <4> QED
        BY <1>0, <3>1, <3>3, <4>1, RecordsNumbered
    <3>5. \A d \in Call : pc'[d] \in Writing => d = c /\ pc'[d] = "sync"
      BY Zenon, <1>0, <3>1, <3>2 DEF Goto, Writing
    <3>6. pc'[c] = "sync"
      BY Zenon, <1>0, <3>1 DEF Goto
    <3> QED
      BY Zenon, <3>1, <3>3, <3>4, <3>5, <3>6 DEF CoreInv, Writing, Records
  <2>6. CASE AppendRefused(c)
    <3>1. /\ UNCHANGED <<log, tail, snap, group, cur>>
          /\ poisoned' = poisoned \/ tail = <<>>
          /\ pc[c] = "append" /\ Goto(c, "settleErr")
      BY Zenon, <2>6 DEF AppendRefused, RotateFailed, logVars, stateVars
    <3>2. \A d \in Call \ {c} : pc[d] \notin Writing
      BY Zenon, <2>a, <3>1 DEF Critical, CallCritical
    <3> QED
      BY Zenon, <1>0, <3>1, <3>2, CoreFrame DEF Goto, Writing
  <2>7. CASE AppendNothing(c)
    <3>1. /\ UNCHANGED <<log, tail, snap, poisoned, group, cur>>
          /\ pc[c] = "append" /\ Goto(c, "publish") /\ group[c] = <<>>
      BY Zenon, <2>7 DEF AppendNothing, logVars
    <3>2. \A d \in Call \ {c} : pc[d] \notin Writing
      BY Zenon, <2>a, <3>1 DEF Critical, CallCritical
    <3>3. log = snap.data /\ cur[c] = snap
      BY Zenon, <3>1, <3>2 DEF CoreInv, Writing
    <3>4. log = snap.data \o Records(group[c], snap)
      BY <1>0, <3>1, <3>3 DEF Records, Snapshot
    <3>5. \A d \in Call : pc'[d] \in Writing => d = c /\ pc'[d] = "publish"
      BY Zenon, <1>0, <3>1, <3>2 DEF Goto, Writing
    <3>6. pc'[c] = "publish"
      BY Zenon, <1>0, <3>1 DEF Goto
    <3>7. \A d \in Call : pc[d] # "sync"
      BY Zenon, <3>1, <3>2 DEF Writing
    <3> QED
      BY Zenon, <3>1, <3>3, <3>4, <3>5, <3>6, <3>7 DEF CoreInv, Writing, Records
  <2>8. CASE AppendDone(c)
    <3>1. /\ UNCHANGED <<snap, poisoned, group, cur>>
          /\ pc[c] = "sync" /\ Goto(c, "publish")
          /\ log' = log \o tail /\ tail' = <<>>
      BY Zenon, <2>8 DEF AppendDone, AppendOk
    <3>2. \A d \in Call \ {c} : pc[d] \notin Writing
      BY Zenon, <2>a, <3>1 DEF Critical, CallCritical
    <3>3. log = snap.data /\ cur[c] = snap /\ tail = Records(group[c], snap)
      BY Zenon, <3>1, <3>2 DEF CoreInv, Writing
    <3>4. \A i \in 1..Len(log') : log'[i].index = i
      BY Zenon, <1>0, <3>1, ConcatNumbered DEF CoreInv
    <3>5. \A d \in Call : pc'[d] \in Writing => d = c /\ pc'[d] = "publish"
      BY Zenon, <1>0, <3>1, <3>2 DEF Goto, Writing
    <3>6. pc'[c] = "publish"
      BY Zenon, <1>0, <3>1 DEF Goto
    <3>7. log' = snap'.data \o Records(group'[c], snap') /\ cur'[c] = snap'
      BY Zenon, <3>1, <3>3
    <3>8. snap'.index = Len(snap'.data) /\ \A i \in 1..Len(tail') : tail'[i].index = Len(log') + i
      BY <3>1 DEF CoreInv
    <3> QED
      BY Zenon, <3>1, <3>4, <3>5, <3>6, <3>7, <3>8 DEF CoreInv, Writing, Records
  <2>9. CASE AppendFailed(c)
    <3>1. /\ UNCHANGED <<log, snap, group, cur>>
          /\ tail' = <<>> \/ (tail' = tail /\ poisoned')
          /\ pc[c] = "sync" /\ Goto(c, "settleErr")
      BY Zenon, <2>9 DEF AppendFailed, AppendRolledBack, AppendPoisoned, stateVars
    <3>2. \A d \in Call \ {c} : pc[d] \notin Writing
      BY Zenon, <2>a, <3>1 DEF Critical, CallCritical
    <3>3. log = snap.data
      BY Zenon, <3>1, <3>2 DEF CoreInv, Writing
    <3>4. \A d \in Call : pc'[d] \notin Writing
      BY Zenon, <1>0, <3>1, <3>2 DEF Goto, Writing
    <3>5. \A i \in 1..Len(tail') : tail'[i].index = Len(log) + i
      BY SMTT(30), SMTT(60), <3>1 DEF CoreInv
    <3> QED
      BY Zenon, <3>1, <3>3, <3>4, <3>5 DEF CoreInv, Writing
  <2>10. CASE Publish(c)
    <3>1. /\ UNCHANGED <<log, tail, poisoned, group, cur>>
          /\ pc[c] = "publish" /\ Goto(c, "mirror")
          /\ snap' = [index |-> cur[c].index + Len(group[c]),
                      data |-> cur[c].data \o Records(group[c], cur[c])]
      BY Zenon, <2>10 DEF Publish, logVars
    <3>2. \A d \in Call \ {c} : pc[d] \notin Writing
      BY Zenon, <2>a, <3>1 DEF Critical, CallCritical
    <3>3. cur[c] = snap /\ log = snap.data \o Records(group[c], snap) /\ snap.index = Len(snap.data)
      BY Zenon, <3>1 DEF CoreInv, Writing
    <3>4. log = snap'.data
      BY Zenon, <3>1, <3>3
    <3>5. snap'.index = Len(snap'.data)
      <4>1. group[c] \in Seq(Call) /\ snap.data \in Seq(Entry) /\ snap.index \in Nat
        BY Zenon, <1>0 DEF Snapshot
      <4>2. Records(group[c], snap) \in Seq(Entry) /\ Len(Records(group[c], snap)) = Len(group[c])
        BY Zenon, <1>0, <4>1, RecordsFacts
      <4>3. Len(snap.data \o Records(group[c], snap)) = Len(snap.data) + Len(group[c])
        BY Zenon, <1>0, <4>1, RecordsConcat
      <4>4. /\ cur[c].index = snap.index
            /\ cur[c].data \o Records(group[c], cur[c]) = snap.data \o Records(group[c], snap)
        BY Zenon, <3>3
      <4>5. /\ snap'.index = cur[c].index + Len(group[c])
            /\ snap'.data = cur[c].data \o Records(group[c], cur[c])
        BY Zenon, <3>1
      <4> QED
        BY Zenon, <3>3, <4>1, <4>3, <4>4, <4>5
    <3>6. \A d \in Call : pc'[d] \notin Writing
      BY Zenon, <1>0, <3>1, <3>2 DEF Goto, Writing
    <3>7. \A d \in Call : pc[d] # "sync"
      BY Zenon, <3>1, <3>2 DEF Writing
    <3> QED
      BY Zenon, <3>1, <3>4, <3>5, <3>6, <3>7 DEF CoreInv, Writing
  <2> QED
    BY Zenon, <1>1, <2>1, <2>2, <2>3, <2>4, <2>5, <2>6, <2>7, <2>8, <2>9, <2>10 DEF CallStep
<1>2. ASSUME NEW k \in Ckpt, CkptStep(k) PROVE CoreInv'
  <2>a. pc[k] \in Critical => \A d \in Call : pc[d] \notin Writing
    BY Zenon, Alone
  <2>1. CASE LockCkpt(k) \/ Pin(k) \/ Rotate(k) \/ FinishCkpt(k)
    BY Zenon, <1>0, <2>1, CoreFrame
    DEF LockCkpt, Pin, Rotate, RotateOk, FinishCkpt, Goto, logVars, stateVars, Writing
  <2>2. CASE Enter(k)
    <3>1. /\ UNCHANGED <<log, tail, snap, poisoned, cur, group>>
          /\ Goto(k, "pin") \/ Goto(k, "waiting")
      BY Zenon, <2>2 DEF Enter, logVars, stateVars
    <3> QED
      BY Zenon, <1>0, <3>1, CoreFrame DEF Goto, Writing
  <2>3. CASE RotateError(k)
    <3>1. /\ UNCHANGED <<log, tail, snap, group, cur>>
          /\ poisoned' = poisoned \/ tail = <<>>
          /\ pc[k] = "rotate" /\ Goto(k, "releaseErr")
      BY Zenon, <2>3 DEF RotateError, RotateFailed, logVars, stateVars
    <3>2. \A d \in Call : pc[d] \notin Writing
      BY Zenon, <2>a, <3>1 DEF Critical, CkptCritical
    <3> QED
      BY Zenon, <1>0, <3>1, <3>2, CoreFrame DEF Goto, Writing
  <2>4. CASE ReleaseExclusive(k)
    BY Zenon, <1>0, <2>4, CoreFrame DEF ReleaseExclusive, GotoNotifying, logVars, stateVars, Writing
  <2> QED
    BY Zenon, <1>2, <2>1, <2>2, <2>3, <2>4 DEF CkptStep
<1>3. ASSUME NEW p \in Proc, SpuriousWake(p) PROVE CoreInv'
  BY Zenon, <1>0, <1>3, CoreFrame DEF SpuriousWake, Goto, logVars, stateVars, Writing
<1>4. CASE Crash
  <2>1. PICK n \in 0..Len(tail) : log' = log \o SubSeq(tail, 1, n)
    BY Zenon, <1>4 DEF Crash, Reopen
  <2>2. \A i \in 1..Len(log') : log'[i].index = i
    <3> DEFINE found == SubSeq(tail, 1, n)
    <3>1. log \in Seq(Entry) /\ tail \in Seq(Entry)
      BY Zenon, <1>0
    <3>2. found \in Seq(Entry) /\ Len(found) = n /\ \A i \in 1..n : found[i] = tail[i]
      BY Zenon, <3>1, TakeFacts
    <3>3. \A i \in 1..Len(log) : log[i].index = i
      BY Zenon DEF CoreInv
    <3>4. \A i \in 1..Len(tail) : tail[i].index = Len(log) + i
      BY Zenon DEF CoreInv
    <3>5. 1..n \subseteq 1..Len(tail)
      BY <3>1
    <3>6. \A i \in 1..Len(found) : found[i].index = Len(log) + i
      BY Zenon, <3>2, <3>4, <3>5
    <3> HIDE DEF found
    <3>7. \A i \in 1..Len(log \o found) : (log \o found)[i].index = i
      BY Zenon, <3>1, <3>2, <3>3, <3>6, ConcatNumbered
    <3> QED
      BY Zenon, <2>1, <3>7 DEF found
  <2>3. log' \in Seq(Entry)
    BY Zenon, <1>0, <2>1, TakeFacts, ConcatFacts
  <2>4. /\ snap' = [index |-> IF log' = <<>> THEN 0 ELSE log'[Len(log')].index, data |-> log']
        /\ tail' = <<>>
        /\ pc' = [p \in Proc |-> IF pc[p] = "idle" THEN "idle" ELSE "done"]
    BY Zenon, <1>4 DEF Crash, Reopen
  <2>5. snap'.index = Len(snap'.data) /\ snap'.data = log'
    <3>1. (log' # <<>> => Len(log') \in 1..Len(log')) /\ (log' = <<>> => Len(log') = 0)
      BY <2>3
    <3>2. snap'.index = (IF log' = <<>> THEN 0 ELSE log'[Len(log')].index) /\ snap'.data = log'
      BY <2>4
    <3> QED
      BY Zenon, <2>2, <3>1, <3>2
  <2>6. \A d \in Call : pc'[d] \notin Writing
    BY Zenon, <2>4 DEF Writing
  <2> QED
    <3>1. \A i \in 1..Len(tail') : tail'[i].index = Len(log') + i
      BY <2>4
    <3> QED
      BY Zenon, <2>2, <2>4, <2>5, <2>6, <3>1 DEF CoreInv, Writing
<1>5. CASE UNCHANGED vars
  BY Zenon, <1>5, CoreFrame DEF vars, procVars, logVars, stateVars, Writing
<1> QED
  BY Zenon, <1>1, <1>2, <1>3, <1>4, <1>5 DEF Next

\* The relation between the log and the published snapshot always holds.
LEMMA CoreCorrect == Spec => [](TypeOK /\ ExclusionInv /\ CoreInv)
<1>1. Init => ExclusionInv
  BY Zenon DEF Init, ExclusionInv, FlushExclusive, Critical, CallCritical, CkptCritical
<1>2. Init => CoreInv
  BY DEF Init, LogInit, CoreInv, EmptySnapshot, Proc
<1> QED
  BY <1>1, <1>2, NextExclusion, NextCore, TypeCorrect, PTL DEF Spec

\* Under the invariant the published data is a prefix of the log.
LEMMA VisibleIsPrefix ==
  ASSUME TypeOK, CoreInv
  PROVE  DurableBeforeVisible
<1>0. /\ log \in Seq(Entry) /\ snap \in Snapshot /\ group \in [Call -> Seq(Call)]
  BY Zenon DEF TypeOK, LogTypeOK
<1>1. CASE \A c \in Call : pc[c] # "publish"
  BY <1>0, <1>1 DEF CoreInv, DurableBeforeVisible, Prefix, Snapshot
<1>2. ASSUME NEW c \in Call, pc[c] = "publish" PROVE DurableBeforeVisible
  <2>1. log = snap.data \o Records(group[c], snap)
    BY Zenon, <1>2 DEF CoreInv
  <2>2. snap.data \in Seq(Entry) /\ Records(group[c], snap) \in Seq(Entry)
    BY Zenon, <1>0, RecordsFacts DEF Snapshot
  <2> QED
    BY Zenon, <2>1, <2>2, ConcatPrefix DEF DurableBeforeVisible
<1> QED
  BY Zenon, <1>1, <1>2

\* Whatever a reader can load from the published snapshot is already in the
\* durable log, at every step of every interleaving, panics, poisoning and
\* crashes included.
THEOREM Durability == Spec => []DurableBeforeVisible
  BY CoreCorrect, VisibleIsPrefix, PTL

\* A step that does not store or recover a snapshot leaves it alone.
LEMMA SnapshotWriters ==
  ASSUME [Next]_vars
  PROVE  snap' = snap \/ (\E c \in Call : Publish(c)) \/ Crash
<1> USE DEF stateVars
<1>1. ASSUME NEW c \in Call, CallStep(c) PROVE snap' = snap \/ Publish(c)
  BY Zenon, <1>1 DEF CallStep, Refuse, Submit, TakeTicket, Compete, Prepare, Panic, AppendStart,
     AppendRefused, AppendNothing, AppendDone, AppendFailed, Mirror, Settle, Release
<1>2. ASSUME NEW k \in Ckpt, CkptStep(k) PROVE snap' = snap
  BY Zenon, <1>2 DEF CkptStep, LockCkpt, Enter, Pin, Rotate, RotateError, ReleaseExclusive, FinishCkpt
<1>3. ASSUME NEW p \in Proc, SpuriousWake(p) PROVE snap' = snap
  BY Zenon, <1>3 DEF SpuriousWake
<1> QED
  BY Zenon, <1>1, <1>2, <1>3 DEF Next, vars

\* Every step extends the published data or leaves it alone.
LEMMA SnapshotGrows ==
  ASSUME TypeOK, CoreInv, [Next]_vars
  PROVE  Prefix(snap.data, snap'.data)
<1>0. log \in Seq(Entry) /\ tail \in Seq(Entry) /\ snap \in Snapshot /\ snap.data \in Seq(Entry)
      /\ group \in [Call -> Seq(Call)]
  BY Zenon DEF TypeOK, LogTypeOK, Snapshot
<1>1. CASE snap' = snap
  BY <1>0, <1>1 DEF Prefix
<1>2. ASSUME NEW c \in Call, Publish(c) PROVE Prefix(snap.data, snap'.data)
  <2>a. cur[c] = snap
    BY Zenon, <1>2 DEF Publish, CoreInv
  <2>1. cur[c] = snap /\ Records(group[c], snap) \in Seq(Entry)
    BY Zenon, <1>0, <2>a, RecordsFacts
  <2>2. snap'.data = cur[c].data \o Records(group[c], cur[c])
    BY Zenon, <1>2 DEF Publish
  <2>3. snap'.data = snap.data \o Records(group[c], snap)
    BY Zenon, <2>1, <2>2
  <2> QED
    BY Zenon, <1>0, <2>1, <2>3, ConcatPrefix
<1>3. CASE Crash
  <2>1. PICK n \in 0..Len(tail) : log' = log \o SubSeq(tail, 1, n)
    BY Zenon, <1>3 DEF Crash, Reopen
  <2>2. SubSeq(tail, 1, n) \in Seq(Entry)
    BY Zenon, <1>0, TakeFacts
  <2>3. Prefix(log, log')
    BY Zenon, <1>0, <2>1, <2>2, ConcatPrefix
  <2>4. Prefix(snap.data, log)
    BY Zenon, VisibleIsPrefix DEF DurableBeforeVisible
  <2>5. log' \in Seq(Entry)
    BY Zenon, <1>0, <2>1, <2>2, ConcatFacts
  <2>6. Prefix(snap.data, log')
    BY <1>0, <2>3, <2>4, <2>5 DEF Prefix
  <2> QED
    BY Zenon, <1>3, <2>6 DEF Crash
<1> QED
  BY Zenon, <1>1, <1>2, <1>3, SnapshotWriters

\* What was published stays published in the same order, through every
\* publication and every crash and recovery.
THEOREM Stability == Spec => PublishedIsStable
<1>1. TypeOK /\ CoreInv /\ [Next]_vars => [Prefix(snap.data, snap'.data)]_vars
  BY Zenon, SnapshotGrows
<1> QED
  BY <1>1, CoreCorrect, PTL DEF Spec, PublishedIsStable

-----------------------------------------------------------------------------
(* The checkpoint's cut *)

\* Segments fill in order, so a boundary drawn at the end of the log divides it
\* for good: whatever comes later goes to a segment at or above the boundary.
SegmentInv ==
  /\ Len(segOf) = Len(log)
  /\ \A i \in 1..Len(log) : segOf[i] <= seg
  /\ \A k \in Ckpt :
       /\ cut[k].boundary <= seg
       /\ cut[k].index <= Len(log)
       /\ \A i \in 1..Len(log) : i <= cut[k].index <=> segOf[i] < cut[k].boundary

\* The snapshot a checkpoint pinned is still the published one when it rotates.
PinInv == \A k \in Ckpt : pc[k] = "rotate" => cur[k] = snap

\* Who changes the log, its segments or a cut.
LEMMA LogWriters ==
  ASSUME [Next]_vars
  PROVE  \/ UNCHANGED <<log, segOf, cut>> /\ (seg' = seg \/ seg' = seg + 1)
         \/ \E c \in Call : AppendDone(c)
         \/ \E k \in Ckpt : Rotate(k)
         \/ Crash
<1> USE DEF logVars, ckptVars
<1>1. ASSUME NEW c \in Call, CallStep(c)
      PROVE  AppendDone(c) \/ (UNCHANGED <<log, segOf, cut>> /\ (seg' = seg \/ seg' = seg + 1))
  BY Zenon, <1>1, ZenonT(30), ZenonT(60) DEF CallStep, Refuse, Submit, TakeTicket, Compete, Prepare, Panic, AppendStart,
     AppendBegin, AppendRefused, RotateFailed, AppendNothing, AppendFailed, AppendRolledBack,
     AppendPoisoned, Publish, Mirror, Settle, Release
<1>2. ASSUME NEW k \in Ckpt, CkptStep(k)
      PROVE  Rotate(k) \/ UNCHANGED <<log, segOf, cut, seg>>
  BY Zenon, <1>2, ZenonT(30), ZenonT(60) DEF CkptStep, LockCkpt, Enter, Pin, RotateError, RotateFailed, ReleaseExclusive,
     FinishCkpt
<1>3. ASSUME NEW p \in Proc, SpuriousWake(p) PROVE UNCHANGED <<log, segOf, cut, seg>>
  BY Zenon, <1>3 DEF SpuriousWake
<1>4. CASE UNCHANGED vars
  BY Zenon, <1>4 DEF vars
<1> QED
  BY Zenon, <1>1, <1>2, <1>3, <1>4 DEF Next

\* Records that reach the log go to the current segment.
LEMMA AppendKeepsSegments ==
  ASSUME TypeOK, SegmentInv, NEW t \in Seq(Entry),
         log' = log \o t, segOf' = segOf \o [i \in 1..Len(t) |-> seg],
         seg' = seg \/ seg' = seg + 1, cut' = cut
  PROVE  SegmentInv'
<1>1. /\ log \in Seq(Entry) /\ segOf \in Seq(Nat) /\ seg \in Nat
      /\ cut \in [Ckpt -> [index : Nat, boundary : Nat]]
  BY Zenon DEF TypeOK, LogTypeOK
<1> DEFINE more == [i \in 1..Len(t) |-> seg]
<1>2. more \in Seq(Nat) /\ Len(more) = Len(t) /\ \A i \in 1..Len(t) : more[i] = seg
  BY <1>1
<1> HIDE DEF more
<1>3. Len(log') = Len(log) + Len(t) /\ Len(segOf') = Len(segOf) + Len(t)
  BY <1>1, <1>2 DEF more
<1>4. /\ \A i \in 1..Len(log) : segOf'[i] = segOf[i]
      /\ \A i \in 1..Len(log') : i > Len(log) => segOf'[i] = seg
  <2>1. segOf' = segOf \o more /\ Len(segOf) = Len(log)
    BY Zenon DEF SegmentInv, more
  <2>2. ASSUME NEW i \in 1..Len(log) PROVE segOf'[i] = segOf[i]
    BY <1>1, <1>2, <2>1, ConcatFacts
  <2>3. ASSUME NEW i \in 1..Len(log'), i > Len(log) PROVE segOf'[i] = seg
    <3>1. i - Len(log) \in 1..Len(t) /\ i = Len(segOf) + (i - Len(log))
      BY <1>1, <1>3, <2>1, <2>3
    <3>2. segOf'[i] = more[i - Len(log)]
      BY <1>1, <1>2, <2>1, <3>1, ConcatFacts
    <3> QED
      BY Zenon, <1>2, <3>1, <3>2
  <2> QED
    BY Zenon, <2>2, <2>3
<1>5. Len(log) \in Nat /\ Len(t) \in Nat /\ seg' \in Nat /\ seg <= seg'
  BY <1>1
<1>6. \A i \in 1..Len(log') : segOf'[i] <= seg'
  BY <1>1, <1>3, <1>4, <1>5 DEF SegmentInv
<1>7. ASSUME NEW k \in Ckpt
      PROVE  /\ cut'[k].boundary <= seg' /\ cut'[k].index <= Len(log')
             /\ \A i \in 1..Len(log') : i <= cut'[k].index <=> segOf'[i] < cut'[k].boundary
  <2>1. cut[k].boundary \in Nat /\ cut[k].index \in Nat /\ cut'[k] = cut[k]
    BY Zenon, <1>1
  <2> QED
    BY <1>1, <1>3, <1>4, <1>5, <2>1 DEF SegmentInv
<1> QED
  BY Zenon, <1>3, <1>6, <1>7 DEF SegmentInv

\* Every step keeps the segments in order and every cut exact.
LEMMA NextSegments ==
  ASSUME TypeOK, ExclusionInv, CoreInv, SegmentInv, PinInv, [Next]_vars
  PROVE  SegmentInv'
<1>0. /\ log \in Seq(Entry) /\ tail \in Seq(Entry) /\ segOf \in Seq(Nat) /\ seg \in Nat
      /\ snap \in Snapshot /\ cut \in [Ckpt -> [index : Nat, boundary : Nat]]
  BY Zenon DEF TypeOK, LogTypeOK
<1>1. CASE UNCHANGED <<log, segOf, cut>> /\ (seg' = seg \/ seg' = seg + 1)
  BY <1>0, <1>1 DEF SegmentInv
<1>2. ASSUME NEW c \in Call, AppendDone(c) PROVE SegmentInv'
  BY Zenon, <1>0, <1>2, AppendKeepsSegments DEF AppendDone, AppendOk, ckptVars
<1>3. ASSUME NEW k \in Ckpt, Rotate(k) PROVE SegmentInv'
  <2>1. /\ UNCHANGED <<log, segOf>> /\ seg' = seg + 1
        /\ cut' = [cut EXCEPT ![k] = [index |-> cur[k].index, boundary |-> seg']]
        /\ pc[k] = "rotate"
    BY Zenon, <1>3 DEF Rotate, RotateOk
  <2>2. cur[k].index = Len(log)
    <3>1. \A d \in Call : pc[d] # "publish"
      BY Zenon, <2>1, Alone DEF Proc, Critical, CkptCritical, Writing
    <3> QED
      BY Zenon, <2>1, <3>1 DEF PinInv, CoreInv
  <2>3. ASSUME NEW j \in Ckpt
        PROVE  /\ cut'[j].boundary <= seg' /\ cut'[j].index <= Len(log')
               /\ \A i \in 1..Len(log') : i <= cut'[j].index <=> segOf'[i] < cut'[j].boundary
    <3>1. CASE j = k
      BY <1>0, <2>1, <2>2, <3>1 DEF SegmentInv
    <3>2. CASE j # k
      BY <1>0, <2>1, <3>2 DEF SegmentInv
    <3> QED
      BY Zenon, <3>1, <3>2
  <2>4. Len(segOf') = Len(log') /\ \A i \in 1..Len(log') : segOf'[i] <= seg'
    BY <1>0, <2>1 DEF SegmentInv
  <2> QED
    BY Zenon, <2>3, <2>4 DEF SegmentInv
<1>4. CASE Crash
  <2>1. PICK n \in 0..Len(tail) : /\ log' = log \o SubSeq(tail, 1, n)
                                  /\ segOf' = segOf \o [i \in 1..n |-> seg]
    BY Zenon, <1>4 DEF Crash, Reopen
  <2>2. cut' = cut /\ (seg' = seg \/ seg' = seg + 1)
    BY Zenon, <1>4 DEF Crash, Reopen
  <2>3. SubSeq(tail, 1, n) \in Seq(Entry) /\ Len(SubSeq(tail, 1, n)) = n
    BY Zenon, <1>0, TakeFacts
  <2> QED
    BY Zenon, <2>1, <2>2, <2>3, AppendKeepsSegments
<1> QED
  BY Zenon, <1>1, <1>2, <1>3, <1>4, LogWriters

\* Nobody publishes between the pin and the rotation.
LEMMA NextPin ==
  ASSUME TypeOK, ExclusionInv, PinInv, [Next]_vars
  PROVE  PinInv'
<1> SUFFICES ASSUME NEW k \in Ckpt, pc'[k] = "rotate" PROVE cur'[k] = snap'
  BY Zenon DEF PinInv
<1>0. pc \in [Proc -> CallPC \cup CkptPC] /\ cur \in [Proc -> Snapshot] /\ k \in Proc
  BY Zenon DEF TypeOK, PcTypeOK, Proc
<1>1. CASE Crash
  BY Zenon, <1>0, <1>1 DEF Crash
<1>2. ASSUME NEW c \in Call, Publish(c) PROVE FALSE
  <2>1. pc[k] = "rotate" /\ pc[c] = "publish"
    BY Zenon, <1>0, <1>2 DEF Publish, Goto
  <2> QED
    BY Zenon, <2>1, Alone DEF Proc, Critical, CkptCritical, Writing
<1>3. CASE snap' = snap /\ ~Crash
  <2>1. (pc[k] = "rotate" /\ cur'[k] = cur[k]) \/ cur'[k] = snap
    <3> USE DEF Goto, GotoNotifying, procVars
    <3>1. ASSUME NEW c \in Call, CallStep(c) PROVE pc[k] = "rotate" /\ cur'[k] = cur[k]
      <4>1. c # k /\ c \in Proc
        BY Zenon DEF Proc
      <4>2. pc'[k] = pc[k] \/ pc'[k] = "woken"
        BY Zenon, <1>0, <3>1, <4>1, ZenonT(30), ZenonT(60) DEF CallStep, Refuse, Submit, TakeTicket, Compete, FlushOrWait, Prepare,
           Panic, AppendStart, AppendRefused, AppendNothing, AppendDone, AppendFailed, Publish, Mirror,
           Settle, Release
      <4>3. cur' = cur \/ \E s : cur' = [cur EXCEPT ![c] = s]
        BY Zenon, <3>1, ZenonT(30), ZenonT(60) DEF CallStep, Refuse, Submit, TakeTicket, Compete, Prepare,
           Panic, AppendStart, AppendRefused, AppendNothing, AppendDone, AppendFailed, Publish, Mirror,
           Settle, Release
      <4> QED
        BY Zenon, <1>0, <4>1, <4>2, <4>3
    <3>2. ASSUME NEW j \in Ckpt, CkptStep(j)
          PROVE  (pc[k] = "rotate" /\ cur'[k] = cur[k]) \/ cur'[k] = snap
      <4>1. CASE Pin(j)
        BY Zenon, <1>0, <4>1 DEF Pin, Proc
      <4>2. CASE ~Pin(j)
        <5>1. pc'[k] = pc[k] \/ pc'[k] \in {"woken", "enter", "pin", "waiting", "releaseCut", "releaseErr", "write", "done"}
          BY Zenon, <1>0, <3>2, <4>2 DEF CkptStep, LockCkpt, Enter, Rotate, RotateError, ReleaseExclusive, FinishCkpt, Proc
        <5>2. cur' = cur \/ (pc[j] # "rotate" /\ cur' = [cur EXCEPT ![j] = EmptySnapshot])
          BY Zenon, <3>2, <4>2, ZenonT(30), ZenonT(60) DEF CkptStep, LockCkpt, Enter, Rotate, RotateError, ReleaseExclusive, FinishCkpt
        <5> QED
          BY Zenon, <1>0, <5>1, <5>2 DEF Proc
      <4> QED
        BY Zenon, <4>1, <4>2
    <3>3. ASSUME NEW p \in Proc, SpuriousWake(p) PROVE pc[k] = "rotate" /\ cur'[k] = cur[k]
      BY Zenon, <1>0, <3>3 DEF SpuriousWake
    <3>4. CASE UNCHANGED vars
      BY Zenon, <3>4 DEF vars
    <3> QED
      BY Zenon, <1>3, <3>1, <3>2, <3>3, <3>4 DEF Next
  <2> QED
    BY Zenon, <1>3, <2>1 DEF PinInv
<1> QED
  BY Zenon, <1>1, <1>2, <1>3, SnapshotWriters

\* The segments are in order and the cuts exact at every step.
LEMMA CutCorrect == Spec => [](TypeOK /\ ExclusionInv /\ CoreInv /\ SegmentInv /\ PinInv)
<1>1. Init => SegmentInv /\ PinInv
  BY DEF Init, LogInit, NoCut, SegmentInv, PinInv, Proc
<1> QED
  BY <1>1, NextSegments, NextPin, CoreCorrect, PTL DEF Spec

\* A record is in the checkpoint's snapshot exactly if it lives in a segment
\* below the boundary the checkpoint drew, whatever was committed, refused or
\* lost in a crash before and after.
THEOREM ExactCut == Spec => []CheckpointCut
<1>1. TypeOK /\ CoreInv /\ SegmentInv => CheckpointCut
  BY SMTT(30), SMTT(60) DEF TypeOK, LogTypeOK, CoreInv, SegmentInv, CheckpointCut
<1> QED
  BY <1>1, CutCorrect, PTL

-----------------------------------------------------------------------------
(* The order of the log *)

NoRepeat(s) == \A i, j \in 1..Len(s) : s[i] = s[j] => i = j

\* No record of the one log has the command of a record of the other.
Apart(s, t) == \A i \in 1..Len(s), j \in 1..Len(t) : s[i].cmd # t[j].cmd

\* No queued call has a record.
Fresh(q, s) == \A i \in 1..Len(q), j \in 1..Len(s) : q[i] # s[j].cmd

NoCommandTwice(s) == \A i, j \in 1..Len(s) : s[i].cmd = s[j].cmd => i = j

\* A call is in one place at most: the queue, a group not appended yet, the
\* records in flight, or the log; and in none before it starts.
PlaceInv ==
  /\ NoRepeat(pending) /\ Fresh(pending, log)
  /\ \A d \in Call : NoRepeat(group[d])
  /\ \A d \in Call : \A i \in 1..Len(pending), j \in 1..Len(group[d]) : pending[i] # group[d][j]
  /\ \A d \in Call : pc[d] \in {"prepare", "append"} => Fresh(group[d], log)
  /\ NoCommandTwice(log) /\ NoCommandTwice(tail) /\ Apart(log, tail)

UnstartedInv ==
  \A c \in Call : pc[c] = "idle" =>
    /\ \A i \in 1..Len(pending) : pending[i] # c
    /\ \A d \in Call : \A i \in 1..Len(group[d]) : group[d][i] # c
    /\ \A i \in 1..Len(log) : log[i].cmd # c
    /\ \A i \in 1..Len(tail) : tail[i].cmd # c

\* Steps that only empty a group or drop the records in flight.
LEMMA PlaceFrame ==
  ASSUME PlaceInv, UnstartedInv, UNCHANGED <<log, pending>>, tail' = tail \/ tail' = <<>>,
         \A d \in Call : group'[d] = group[d] \/ group'[d] = <<>>,
         \A d \in Call : pc'[d] = "idle" => pc[d] = "idle",
         \A d \in Call : pc'[d] \in {"prepare", "append"} => pc[d] \in {"prepare", "append"}
  PROVE  PlaceInv' /\ UnstartedInv'
<1>1. NoRepeat(pending)' /\ Fresh(pending, log)' /\ NoCommandTwice(log)'
  BY DEF PlaceInv, NoRepeat, Fresh, NoCommandTwice
<1>2. \A d \in Call : NoRepeat(group'[d])
  BY DEF PlaceInv, NoRepeat
<1>3. \A d \in Call : \A i \in 1..Len(pending'), j \in 1..Len(group'[d]) : pending'[i] # group'[d][j]
  BY DEF PlaceInv
<1>4. \A d \in Call : pc'[d] \in {"prepare", "append"} => Fresh(group'[d], log')
  BY DEF PlaceInv, Fresh
<1>5. NoCommandTwice(tail)' /\ Apart(log, tail)'
  BY DEF PlaceInv, NoCommandTwice, Apart
<1>6. UnstartedInv'
  BY SMTT(30), SMTT(60) DEF UnstartedInv
<1>7. PlaceInv'
  BY Zenon, <1>1, <1>2, <1>3, <1>4, <1>5 DEF PlaceInv, NoRepeat, Fresh, NoCommandTwice, Apart
<1> QED
  BY Zenon, <1>6, <1>7

\* A call that joins the queue, or wakes up and finds its ticket unsettled.
LEMMA QueueKeepsPlaces ==
  ASSUME TypeOK, PlaceInv, UnstartedInv, NEW c \in Call, Submit(c) \/ Compete(c)
  PROVE  PlaceInv' /\ UnstartedInv'
<1>0. /\ pending \in Seq(Call) /\ group \in [Call -> Seq(Call)] /\ pc \in [Proc -> CallPC \cup CkptPC]
      /\ c \in Proc
  BY Zenon DEF TypeOK, PcTypeOK, Proc
<1>1. PICK q \in {pending, Append(pending, c)} :
        /\ FlushOrWait(c, q) /\ pc[c] \in {"idle", "woken"} /\ UNCHANGED <<log, tail>>
        /\ q # pending => pc[c] = "idle"
  BY Zenon DEF Submit, Compete, logVars
<1>2. /\ q \in Seq(Call) /\ NoRepeat(q) /\ Fresh(q, log)
      /\ \A d \in Call : \A i \in 1..Len(q), j \in 1..Len(group[d]) : q[i] # group[d][j]
      /\ \A d \in Call \ {c} : pc[d] = "idle" => \A i \in 1..Len(q) : q[i] # d
  <2>1. CASE q = pending
    BY <1>0, <2>1 DEF PlaceInv, UnstartedInv
  <2>2. CASE q = Append(pending, c) /\ pc[c] = "idle"
    <3>1. /\ Len(q) = Len(pending) + 1 /\ Len(pending) \in Nat /\ q \in Seq(Call)
          /\ \A i \in 1..Len(q) : IF i = Len(q) THEN q[i] = c ELSE i \in 1..Len(pending) /\ q[i] = pending[i]
      BY <1>0, <2>2
    <3>2. NoRepeat(q)
      BY <2>2, <3>1 DEF PlaceInv, UnstartedInv, NoRepeat
    <3>3. Fresh(q, log)
      BY <2>2, <3>1 DEF PlaceInv, UnstartedInv, Fresh
    <3>4. \A d \in Call : \A i \in 1..Len(q), j \in 1..Len(group[d]) : q[i] # group[d][j]
      BY <2>2, <3>1 DEF PlaceInv, UnstartedInv
    <3>5. \A d \in Call \ {c} : pc[d] = "idle" => \A i \in 1..Len(q) : q[i] # d
      BY Zenon, <2>2, <3>1 DEF UnstartedInv
    <3> QED
      BY Zenon, <3>1, <3>2, <3>3, <3>4, <3>5
  <2> QED
    BY Zenon, <1>1, <2>1, <2>2
<1>3. \A d \in Call : pc'[d] = "idle" => d # c /\ pc[d] = "idle"
  BY Zenon, <1>0, <1>1 DEF FlushOrWait, Goto, Proc
<1>4. CASE pending' = <<>> /\ group' = [group EXCEPT ![c] = q] /\ Goto(c, "prepare")
  <2>1. \A d \in Call : group'[d] = IF d = c THEN q ELSE group[d]
    BY Zenon, <1>0, <1>4
  <2>2. \A d \in Call \ {c} : pc'[d] = pc[d]
    BY Zenon, <1>0, <1>4 DEF Goto, Proc
  <2>3. NoRepeat(pending') /\ Fresh(pending', log') /\ \A d \in Call : NoRepeat(group'[d])
    BY SMTT(30), SMTT(60), <1>2, <1>4, <2>1 DEF PlaceInv, NoRepeat, Fresh
  <2>4. \A d \in Call : pc'[d] \in {"prepare", "append"} => Fresh(group'[d], log')
    BY SMTT(30), SMTT(60), <1>1, <1>2, <2>1, <2>2 DEF PlaceInv, Fresh
  <2>5. NoCommandTwice(log') /\ NoCommandTwice(tail') /\ Apart(log', tail')
    BY Zenon, <1>1 DEF PlaceInv
  <2>6. \A d \in Call : \A i \in 1..Len(pending'), j \in 1..Len(group'[d]) : pending'[i] # group'[d][j]
    BY <1>4
  <2>7. PlaceInv'
    BY Zenon, <2>3, <2>4, <2>5, <2>6 DEF PlaceInv, NoRepeat, Fresh, NoCommandTwice, Apart
  <2>8. UnstartedInv'
    BY SMTT(30), SMTT(60), <1>1, <1>2, <1>3, <1>4, <2>1 DEF UnstartedInv
  <2> QED
    BY Zenon, <2>7, <2>8
<1>5. CASE pending' = q /\ group' = group /\ Goto(c, "waiting")
  <2>1. \A d \in Call : pc'[d] \in {"prepare", "append"} => pc[d] \in {"prepare", "append"}
    BY Zenon, <1>0, <1>5 DEF Goto, Proc
  <2>a. NoRepeat(pending') /\ Fresh(pending', log') /\ \A d \in Call : NoRepeat(group'[d])
    BY Zenon, <1>1, <1>2, <1>5 DEF PlaceInv
  <2>b. \A d \in Call : \A i \in 1..Len(pending'), j \in 1..Len(group'[d]) : pending'[i] # group'[d][j]
    BY <1>2, <1>5
  <2>c. \A d \in Call : pc'[d] \in {"prepare", "append"} => Fresh(group'[d], log')
    BY Zenon, <1>1, <1>5, <2>1 DEF PlaceInv
  <2>d. NoCommandTwice(log') /\ NoCommandTwice(tail') /\ Apart(log', tail')
    BY Zenon, <1>1 DEF PlaceInv
  <2>2. PlaceInv'
    BY Zenon, <2>a, <2>b, <2>c, <2>d DEF PlaceInv, NoRepeat, Fresh, NoCommandTwice, Apart
  <2>3. UnstartedInv'
    BY SMTT(30), SMTT(60), <1>1, <1>2, <1>3, <1>5 DEF UnstartedInv
  <2> QED
    BY Zenon, <2>2, <2>3
<1> QED
  BY Zenon, <1>1, <1>4, <1>5 DEF FlushOrWait

\* The first half of an append: the group's records are in flight.
LEMMA AppendStartKeepsPlaces ==
  ASSUME TypeOK, ExclusionInv, PlaceInv, UnstartedInv, NEW c \in Call, AppendStart(c)
  PROVE  PlaceInv' /\ UnstartedInv'
<1>0. /\ group \in [Call -> Seq(Call)] /\ pc \in [Proc -> CallPC \cup CkptPC] /\ cur \in [Proc -> Snapshot]
      /\ c \in Proc /\ group[c] \in Seq(Call) /\ cur[c] \in Snapshot
  BY Zenon DEF TypeOK, PcTypeOK, Proc
<1>1. /\ UNCHANGED <<log, pending, group>> /\ tail' = Records(group[c], cur[c])
      /\ pc[c] = "append" /\ Goto(c, "sync")
  BY Zenon DEF AppendStart, AppendBegin, queueVars
<1>2. Len(tail') = Len(group[c]) /\ \A i \in 1..Len(group[c]) : tail'[i].cmd = group[c][i]
  <2>1. /\ Len(Records(group[c], cur[c])) = Len(group[c])
        /\ \A i \in 1..Len(group[c]) :
             Records(group[c], cur[c])[i] = [cmd |-> group[c][i], index |-> cur[c].index + i]
    BY Zenon, <1>0, RecordsFacts
  <2>2. ASSUME NEW i \in 1..Len(group[c]) PROVE tail'[i].cmd = group[c][i]
    <3>1. tail'[i] = [cmd |-> group[c][i], index |-> cur[c].index + i]
      BY Zenon, <1>1, <2>1
    <3> QED
      BY <3>1
  <2> QED
    BY Zenon, <1>1, <2>1, <2>2
<1>3. \A d \in Call : /\ pc'[d] = "idle" => pc[d] = "idle"
                      /\ pc'[d] \in {"prepare", "append"} => pc[d] \in {"prepare", "append"}
  BY Zenon, <1>0, <1>1 DEF Goto, Proc
<1>4. NoRepeat(pending') /\ Fresh(pending', log') /\ \A d \in Call : NoRepeat(group'[d])
  BY Zenon, <1>1 DEF PlaceInv
<1>5. \A d \in Call : \A i \in 1..Len(pending'), j \in 1..Len(group'[d]) : pending'[i] # group'[d][j]
  BY <1>1 DEF PlaceInv
<1>6. \A d \in Call : pc'[d] \in {"prepare", "append"} => Fresh(group'[d], log')
  BY Zenon, <1>1, <1>3 DEF PlaceInv
<1>7. NoCommandTwice(log') /\ NoCommandTwice(tail')
  BY <1>1, <1>2 DEF PlaceInv, NoCommandTwice, NoRepeat
<1>8. Apart(log', tail')
  BY <1>1, <1>2 DEF PlaceInv, Apart, Fresh
<1>9. PlaceInv'
  BY Zenon, <1>4, <1>5, <1>6, <1>7, <1>8 DEF PlaceInv, NoRepeat, Fresh, NoCommandTwice, Apart
<1>10. UnstartedInv'
  BY SMTT(30), SMTT(60), <1>1, <1>2, <1>3 DEF UnstartedInv
<1> QED
  BY Zenon, <1>9, <1>10

\* Records in flight that join the log.
LEMMA ConcatApart ==
  ASSUME NEW s \in Seq(Entry), NEW t \in Seq(Entry), NEW n \in 0..Len(t),
         NoCommandTwice(s), NoCommandTwice(t), Apart(s, t)
  PROVE  LET all == s \o SubSeq(t, 1, n) IN
         /\ NoCommandTwice(all)
         /\ \A i \in 1..Len(all) : (\E j \in 1..Len(s) : all[i] = s[j]) \/ (\E j \in 1..Len(t) : all[i] = t[j])
<1> DEFINE u == SubSeq(t, 1, n)
<1>1. u \in Seq(Entry) /\ Len(u) = n /\ \A i \in 1..n : u[i] = t[i]
  BY Zenon, TakeFacts
<1> HIDE DEF u
<1> DEFINE all == s \o u
<1>a. Len(s) \in Nat /\ n \in Nat /\ n <= Len(t) /\ Len(t) \in Nat
  OBVIOUS
<1>b. /\ Len(all) = Len(s) + Len(u)
      /\ \A i \in 1..Len(s) : all[i] = s[i]
      /\ \A i \in 1..Len(u) : all[Len(s) + i] = u[i]
  <2>1. s \in Seq(Entry) /\ u \in Seq(Entry)
    BY Zenon, <1>1
  <2> QED
    BY <2>1, ConcatFacts
<1>2. /\ Len(all) = Len(s) + n /\ Len(s) \in Nat /\ n \in Nat /\ n <= Len(t) /\ Len(t) \in Nat
      /\ \A i \in 1..Len(s) : all[i] = s[i]
      /\ \A i \in 1..n : all[Len(s) + i] = u[i]
  BY Zenon, <1>1, <1>a, <1>b
<1> HIDE DEF all
<1>3. \A i \in 1..Len(all) : i \notin 1..Len(s) => i - Len(s) \in 1..Len(t) /\ all[i] = t[i - Len(s)]
  <2> SUFFICES ASSUME NEW i \in 1..Len(all), i \notin 1..Len(s)
               PROVE  i - Len(s) \in 1..Len(t) /\ all[i] = t[i - Len(s)]
    BY Zenon
  <2>1. i - Len(s) \in 1..n /\ i = Len(s) + (i - Len(s))
    BY <1>2
  <2> QED
    BY <1>1, <1>2, <2>1
<1>4. NoCommandTwice(all)
  <2> SUFFICES ASSUME NEW i \in 1..Len(all), NEW j \in 1..Len(all), all[i].cmd = all[j].cmd PROVE i = j
    BY Zenon DEF NoCommandTwice
  <2>1. CASE i \in 1..Len(s) /\ j \in 1..Len(s)
    BY Zenon, <1>2, <2>1 DEF NoCommandTwice
  <2>2. CASE i \in 1..Len(s) /\ j \notin 1..Len(s)
    <3>1. all[i] = s[i] /\ all[j] = t[j - Len(s)] /\ j - Len(s) \in 1..Len(t)
      BY Zenon, <1>2, <1>3, <2>2
    <3> QED
      BY Zenon, <2>2, <3>1 DEF Apart
  <2>3. CASE i \notin 1..Len(s) /\ j \in 1..Len(s)
    <3>1. all[j] = s[j] /\ all[i] = t[i - Len(s)] /\ i - Len(s) \in 1..Len(t)
      BY Zenon, <1>2, <1>3, <2>3
    <3> QED
      BY Zenon, <2>3, <3>1 DEF Apart
  <2>4. CASE i \notin 1..Len(s) /\ j \notin 1..Len(s)
    <3>1. i - Len(s) = j - Len(s)
      BY ZenonT(30), ZenonT(60), <1>3, <2>4 DEF NoCommandTwice
    <3> QED
      BY <1>2, <3>1
  <2> QED
    BY Zenon, <2>1, <2>2, <2>3, <2>4
<1> QED
  BY Zenon, <1>2, <1>3, <1>4 DEF all, u

\* Some of the records in flight join the log, and none is left in flight.
LEMMA GrowKeepsPlaces ==
  ASSUME PlaceInv, UnstartedInv, tail' = <<>>, NoCommandTwice(log'),
         \A i \in 1..Len(log') :
           (\E j \in 1..Len(log) : log'[i] = log[j]) \/ (\E j \in 1..Len(tail) : log'[i] = tail[j]),
         (pending' = pending /\ Fresh(pending, tail)) \/ pending' = <<>>,
         \A d \in Call : group'[d] = group[d] \/ group'[d] = <<>>,
         \A d \in Call : pc'[d] = "idle" => pc[d] = "idle",
         \A d \in Call : pc'[d] \notin {"prepare", "append"}
  PROVE  PlaceInv' /\ UnstartedInv'
<1>2. NoRepeat(pending') /\ \A d \in Call : NoRepeat(group'[d])
  BY SMTT(30), SMTT(60) DEF PlaceInv, NoRepeat
<1>3. Fresh(pending', log')
  <2>1. CASE pending' = <<>>
    BY <2>1 DEF Fresh
  <2>2. CASE pending' = pending /\ Fresh(pending, tail) /\ Fresh(pending, log)
    BY SMTT(30), SMTT(60), <2>2 DEF Fresh
  <2> QED
    BY Zenon, <2>1, <2>2 DEF PlaceInv
<1>4. \A d \in Call : \A i \in 1..Len(pending'), j \in 1..Len(group'[d]) : pending'[i] # group'[d][j]
  BY DEF PlaceInv
<1>5. NoCommandTwice(tail') /\ Apart(log', tail')
  BY DEF NoCommandTwice, Apart
<1>6. PlaceInv'
  BY Zenon, <1>2, <1>3, <1>4, <1>5, ZenonT(30), ZenonT(60) DEF PlaceInv, NoRepeat, Fresh, NoCommandTwice, Apart
<1>7. UnstartedInv'
  BY SMTT(30), SMTT(60) DEF UnstartedInv
<1> QED
  BY Zenon, <1>6, <1>7

\* Every step leaves each call in at most one place.
LEMMA NextPlaces ==
  ASSUME TypeOK, ExclusionInv, CoreInv, PlaceInv, UnstartedInv, [Next]_vars
  PROVE  PlaceInv' /\ UnstartedInv'
<1>0. /\ group \in [Call -> Seq(Call)] /\ pc \in [Proc -> CallPC \cup CkptPC]
      /\ log \in Seq(Entry) /\ tail \in Seq(Entry) /\ snap \in Snapshot
  BY Zenon DEF TypeOK, PcTypeOK, LogTypeOK
<1>a. NoCommandTwice(log) /\ NoCommandTwice(tail) /\ Apart(log, tail)
  BY Zenon DEF PlaceInv
<1> USE DEF Proc
<1>1. ASSUME NEW c \in Call, CallStep(c) PROVE PlaceInv' /\ UnstartedInv'
  <2>1. CASE Submit(c) \/ Compete(c)
    BY Zenon, <2>1, QueueKeepsPlaces
  <2>2. CASE AppendStart(c)
    BY Zenon, <2>2, AppendStartKeepsPlaces
  <2>3. CASE AppendDone(c)
    <3>1. /\ log' = log \o tail /\ tail' = <<>> /\ pc[c] = "sync" /\ Goto(c, "publish")
          /\ UNCHANGED <<pending, group>>
      BY Zenon, <2>3 DEF AppendDone, AppendOk, queueVars
    <3>2. tail = SubSeq(tail, 1, Len(tail)) /\ Len(tail) \in 0..Len(tail)
      BY <1>0
    <3>3. \A d \in Call \ {c} : pc[d] \notin {"prepare", "append"}
      BY Zenon, <3>1 DEF ExclusionInv, FlushExclusive, Critical, CallCritical
    <3>4. Fresh(pending, tail)
      <4>1. tail = Records(group[c], snap) /\ group[c] \in Seq(Call)
        BY Zenon, <1>0, <3>1 DEF CoreInv
      <4>2. /\ Len(tail) = Len(group[c])
            /\ \A i \in 1..Len(group[c]) : tail[i] = [cmd |-> group[c][i], index |-> snap.index + i]
        BY Zenon, <1>0, <4>1, RecordsFacts
      <4>3. ASSUME NEW i \in 1..Len(tail) PROVE tail[i].cmd = group[c][i]
        <5>1. tail[i] = [cmd |-> group[c][i], index |-> snap.index + i]
          BY Zenon, <4>2
        <5> QED
          BY <5>1
      <4> QED
        BY <4>2, <4>3 DEF PlaceInv, Fresh
    <3>5. \A d \in Call : /\ pc'[d] = "idle" => pc[d] = "idle"
                          /\ pc'[d] \notin {"prepare", "append"}
      BY Zenon, <1>0, <3>1, <3>3 DEF Goto
    <3>6. /\ NoCommandTwice(log')
          /\ \A i \in 1..Len(log') :
               (\E j \in 1..Len(log) : log'[i] = log[j]) \/ (\E j \in 1..Len(tail) : log'[i] = tail[j])
      <4>1. PICK n \in 0..Len(tail) : log' = log \o SubSeq(tail, 1, n)
        BY Zenon, <3>1, <3>2
      <4>2. /\ NoCommandTwice(log \o SubSeq(tail, 1, n))
            /\ \A i \in 1..Len(log \o SubSeq(tail, 1, n)) :
                 \/ \E j \in 1..Len(log) : (log \o SubSeq(tail, 1, n))[i] = log[j]
                 \/ \E j \in 1..Len(tail) : (log \o SubSeq(tail, 1, n))[i] = tail[j]
        BY ZenonT(30), ZenonT(60), <1>0, <1>a, ConcatApart
      <4> QED
        BY Zenon, <4>1, <4>2
    <3> QED
      BY Zenon, <3>1, <3>4, <3>5, <3>6, GrowKeepsPlaces
  <2>4. CASE Refuse(c) \/ TakeTicket(c) \/ Prepare(c) \/ AppendNothing(c) \/ Publish(c) \/ Mirror(c) \/ Settle(c)
    BY Zenon, <1>0, <2>4, PlaceFrame
    DEF Refuse, TakeTicket, Prepare, AppendNothing, Publish, Mirror, Settle, Goto, logVars, queueVars
  <2>5. CASE Panic(c) \/ Release(c)
    <3>1. /\ UNCHANGED <<log, tail, pending>> /\ group' = [group EXCEPT ![c] = <<>>]
          /\ GotoNotifying(c, "done")
      BY Zenon, <2>5 DEF Panic, Release, logVars
    <3> QED
      BY Zenon, <1>0, <3>1, PlaceFrame DEF GotoNotifying
  <2>6. CASE AppendRefused(c) \/ AppendFailed(c)
    <3>1. /\ UNCHANGED <<log, pending, group>> /\ (tail' = tail \/ tail' = <<>>)
          /\ Goto(c, "settleErr")
      BY Zenon, <2>6 DEF AppendRefused, AppendFailed, RotateFailed, AppendRolledBack, AppendPoisoned, logVars, queueVars
    <3> QED
      BY Zenon, <1>0, <3>1, PlaceFrame DEF Goto
  <2> QED
    BY Zenon, <1>1, <2>1, <2>2, <2>3, <2>4, <2>5, <2>6 DEF CallStep
<1>2. ASSUME NEW k \in Ckpt, CkptStep(k) PROVE PlaceInv' /\ UnstartedInv'
  <2>1. UNCHANGED <<log, tail, pending, group>>
    BY Zenon, <1>2, ZenonT(30), ZenonT(60) DEF CkptStep, LockCkpt, Enter, Pin, Rotate, RotateOk, RotateError, RotateFailed,
       ReleaseExclusive, FinishCkpt, logVars, queueVars
  <2>2. \A d \in Call : pc'[d] = pc[d] \/ pc'[d] = "woken"
    BY Zenon, <1>0, <1>2 DEF CkptStep, LockCkpt, Enter, Pin, Rotate, RotateError,
       ReleaseExclusive, FinishCkpt, Goto, GotoNotifying
  <2> QED
    BY Zenon, <2>1, <2>2, PlaceFrame
<1>3. ASSUME NEW p \in Proc, SpuriousWake(p) PROVE PlaceInv' /\ UnstartedInv'
  BY Zenon, <1>0, <1>3, PlaceFrame DEF SpuriousWake, Goto, logVars, queueVars
<1>4. CASE Crash
  <2>1. PICK n \in 0..Len(tail) : log' = log \o SubSeq(tail, 1, n)
    BY Zenon, <1>4 DEF Crash, Reopen
  <2>2. tail' = <<>> /\ pending' = <<>> /\ \A d \in Call : group'[d] = <<>>
    BY Zenon, <1>4 DEF Crash, Reopen
  <2>3. \A d \in Call : (pc'[d] = "idle" => pc[d] = "idle") /\ pc'[d] \notin {"prepare", "append"}
    BY Zenon, <1>0, <1>4 DEF Crash
  <2>4. /\ NoCommandTwice(log')
        /\ \A i \in 1..Len(log') :
             (\E j \in 1..Len(log) : log'[i] = log[j]) \/ (\E j \in 1..Len(tail) : log'[i] = tail[j])
    BY <1>0, <1>a, <2>1, ConcatApart
  <2> QED
    BY Zenon, <2>2, <2>3, <2>4, GrowKeepsPlaces
<1>5. CASE UNCHANGED vars
  BY Zenon, <1>5, PlaceFrame DEF vars, procVars, logVars, queueVars
<1> QED
  BY Zenon, <1>1, <1>2, <1>3, <1>4, <1>5 DEF Next

\* Every call is in at most one place at every step.
LEMMA PlacesCorrect == Spec => [](TypeOK /\ ExclusionInv /\ CoreInv /\ PlaceInv /\ UnstartedInv)
<1>1. Init => PlaceInv /\ UnstartedInv
  BY DEF Init, LogInit, PlaceInv, UnstartedInv, NoRepeat, Fresh, NoCommandTwice, Apart, Proc
<1> QED
  BY <1>1, NextPlaces, CoreCorrect, PTL DEF Spec

\* The log numbers its commits 1, 2, 3, ... and holds each at most once, for any
\* number of calls, failed appends, panics and crashes: open_with never finds
\* it out of order.
THEOREM OrderedLog == Spec => []LogInOrder
<1>1. CoreInv /\ PlaceInv => LogInOrder
  BY Zenon DEF CoreInv, PlaceInv, NoCommandTwice, LogInOrder
<1> QED
  BY <1>1, PlacesCorrect, PTL

-----------------------------------------------------------------------------
(* What an answered call may rely on *)

\* In a snapshot with data s, commit c is in effect at index i, and an index
\* mirror at m has caught up with it.
Placed(s, m, c, i) ==
  /\ i \in 1..Len(s)
  /\ s[i] = [cmd |-> c, index |-> i]
  /\ i <= m

AnswerInv ==
  /\ index <= snap.index
  /\ \A c \in Call : ticket[c].state = "ok" => Placed(snap.data, index, c, ticket[c].index)
  /\ \A c \in Call : ret[c].state = "ok" => Placed(snap.data, index, c, ret[c].index)

\* Between the store of the snapshot and the settling of the tickets the group
\* is at the end of the snapshot.
SettlingInv ==
  /\ \A d \in Call : pc[d] \in {"mirror", "settleOk"} =>
       /\ snap.index = cur[d].index + Len(group[d])
       /\ \A i \in 1..Len(group[d]) :
            snap.data[cur[d].index + i] = [cmd |-> group[d][i], index |-> cur[d].index + i]
  /\ \A d \in Call : pc[d] = "settleOk" => index = snap.index

\* Who moves the index mirror.
LEMMA IndexWriters ==
  ASSUME [Next]_vars
  PROVE  index' = index \/ (\E c \in Call : Mirror(c)) \/ Crash
<1> USE DEF stateVars
<1>1. ASSUME NEW c \in Call, CallStep(c) PROVE index' = index \/ Mirror(c)
  BY Zenon, <1>1 DEF CallStep, Refuse, Submit, TakeTicket, Compete, Prepare, Panic, AppendStart,
     AppendRefused, AppendNothing, AppendDone, AppendFailed, Publish, Settle, Release
<1>2. ASSUME NEW k \in Ckpt, CkptStep(k) PROVE index' = index
  BY Zenon, <1>2 DEF CkptStep, LockCkpt, Enter, Pin, Rotate, RotateError, ReleaseExclusive, FinishCkpt
<1>3. ASSUME NEW p \in Proc, SpuriousWake(p) PROVE index' = index
  BY Zenon, <1>3 DEF SpuriousWake
<1> QED
  BY Zenon, <1>1, <1>2, <1>3 DEF Next, vars

\* The mirror never goes back and never runs ahead of the snapshot.
LEMMA IndexGrows ==
  ASSUME TypeOK, TypeOK', CoreInv, CoreInv', AnswerInv, SettlingInv, [Next]_vars
  PROVE  index <= index' /\ index' <= snap'.index
<1>0. /\ index \in Nat /\ index' \in Nat /\ snap.index \in Nat /\ snap'.index \in Nat
      /\ snap.data \in Seq(Entry) /\ snap'.data \in Seq(Entry)
  BY Zenon DEF TypeOK, Snapshot
<1>1. Len(snap.data) <= Len(snap'.data)
  BY Zenon, SnapshotGrows DEF Prefix
<1>2. snap.index <= snap'.index
  BY Zenon, <1>0, <1>1 DEF CoreInv
<1>3. CASE index' = index
  BY <1>0, <1>2, <1>3 DEF AnswerInv
<1>4. ASSUME NEW c \in Call, Mirror(c) PROVE index <= index' /\ index' <= snap'.index
  <2>1. index' = snap.index
    BY Zenon, <1>4 DEF Mirror, SettlingInv
  <2> QED
    BY Zenon, <1>0, <1>2, <2>1 DEF AnswerInv
<1>5. CASE Crash
  <2>1. index' = snap'.index
    BY Zenon, <1>5 DEF Crash
  <2> QED
    BY SMTT(30), SMTT(60), <1>0, <1>2, <2>1 DEF AnswerInv
<1> QED
  BY Zenon, <1>3, <1>4, <1>5, IndexWriters

\* A commit in effect stays in effect.
LEMMA PlacedStays ==
  ASSUME TypeOK, TypeOK', CoreInv, CoreInv', AnswerInv, SettlingInv, [Next]_vars,
         NEW c, NEW i, Placed(snap.data, index, c, i)
  PROVE  Placed(snap'.data, index', c, i)
<1>0. /\ index \in Nat /\ index' \in Nat /\ snap.data \in Seq(Entry) /\ snap'.data \in Seq(Entry)
  BY Zenon DEF TypeOK, Snapshot
<1>1. Prefix(snap.data, snap'.data) /\ index <= index'
  BY Zenon, SnapshotGrows, IndexGrows
<1>2. i \in 1..Len(snap.data) /\ snap.data[i] = [cmd |-> c, index |-> i] /\ i <= index
  BY Zenon DEF Placed
<1>3. i \in 1..Len(snap'.data) /\ snap'.data[i] = snap.data[i] /\ i <= index'
  BY SMTT(30), SMTT(60), <1>0, <1>1, <1>2 DEF Prefix
<1> QED
  BY Zenon, <1>2, <1>3 DEF Placed

\* A flusher that is settling has its group and its copy from its own steps.
LEMMA SettlersAlone ==
  ASSUME TypeOK, [Next]_vars, NEW d \in Call, pc'[d] \in {"mirror", "settleOk"}
  PROVE  \/ Publish(d) \/ Mirror(d)
         \/ pc'[d] = pc[d] /\ cur'[d] = cur[d] /\ group'[d] = group[d]
<1>0. /\ pc \in [Proc -> CallPC \cup CkptPC] /\ cur \in [Proc -> Snapshot] /\ group \in [Call -> Seq(Call)]
      /\ d \in Proc
  BY Zenon DEF TypeOK, PcTypeOK, Proc
<1>1. ASSUME NEW c \in Call, CallStep(c)
      PROVE  Publish(d) \/ Mirror(d) \/ (pc'[d] = pc[d] /\ cur'[d] = cur[d] /\ group'[d] = group[d])
  <2>0. c \in Proc
    BY Zenon DEF Proc
  <2>1. CASE c = d
    BY Zenon, <1>0, <1>1, <2>1 DEF CallStep, Refuse, Submit, TakeTicket, Compete, FlushOrWait, Prepare, Panic,
       AppendStart, AppendRefused, AppendNothing, AppendDone, AppendFailed, Settle, Release, Goto, GotoNotifying
  <2>2. CASE c # d
    <3>1. pc'[d] = pc[d] \/ pc'[d] = "woken"
      BY Zenon, <1>0, <1>1, <2>0, <2>2, ZenonT(30), ZenonT(60) DEF CallStep, Refuse, Submit, TakeTicket, Compete, FlushOrWait,
         Prepare, Panic, AppendStart, AppendRefused, AppendNothing, AppendDone, AppendFailed, Publish, Mirror,
         Settle, Release, Goto, GotoNotifying
    <3>2. cur' = cur \/ \E s : cur' = [cur EXCEPT ![c] = s]
      BY Zenon, <1>1, ZenonT(30), ZenonT(60) DEF CallStep, Refuse, Submit, TakeTicket, Compete, Prepare, Panic, AppendStart,
         AppendRefused, AppendNothing, AppendDone, AppendFailed, Publish, Mirror, Settle, Release
    <3>3. group' = group \/ \E g : group' = [group EXCEPT ![c] = g]
      BY Zenon, <1>1, ZenonT(30), ZenonT(60) DEF CallStep, Refuse, Submit, TakeTicket, Compete, FlushOrWait, Prepare, Panic, AppendStart,
         AppendRefused, AppendNothing, AppendDone, AppendFailed, Publish, Mirror, Settle, Release
    <3> QED
      BY Zenon, <1>0, <2>0, <2>2, <3>1, <3>2, <3>3
  <2> QED
    BY Zenon, <2>1, <2>2
<1>2. ASSUME NEW k \in Ckpt, CkptStep(k) PROVE pc'[d] = pc[d] /\ cur'[d] = cur[d] /\ group'[d] = group[d]
  <2>0. k # d /\ k \in Proc
    BY Zenon DEF Proc
  <2>1. pc'[d] = pc[d] \/ pc'[d] = "woken"
    BY Zenon, <1>0, <1>2, <2>0, ZenonT(30), ZenonT(60) DEF CkptStep, LockCkpt, Enter, Pin, Rotate, RotateError, ReleaseExclusive,
       FinishCkpt, Goto, GotoNotifying
  <2>2. group' = group /\ (cur' = cur \/ \E s : cur' = [cur EXCEPT ![k] = s])
    BY Zenon, <1>2, ZenonT(30), ZenonT(60) DEF CkptStep, LockCkpt, Enter, Pin, Rotate, RotateError, ReleaseExclusive, FinishCkpt
  <2> QED
    BY Zenon, <1>0, <2>0, <2>1, <2>2
<1>3. ASSUME NEW p \in Proc, SpuriousWake(p) PROVE pc'[d] = pc[d] /\ cur'[d] = cur[d] /\ group'[d] = group[d]
  BY Zenon, <1>0, <1>3 DEF SpuriousWake, Goto
<1>4. CASE Crash
  BY Zenon, <1>0, <1>4 DEF Crash
<1>5. CASE UNCHANGED vars
  BY Zenon, <1>5 DEF vars, procVars
<1> QED
  BY Zenon, <1>1, <1>2, <1>3, <1>4, <1>5 DEF Next

\* The group is at the end of the snapshot until its tickets are settled.
LEMMA NextSettling ==
  ASSUME TypeOK, ExclusionInv, CoreInv, SettlingInv, [Next]_vars
  PROVE  SettlingInv'
<1>0. /\ pc \in [Proc -> CallPC \cup CkptPC] /\ cur \in [Proc -> Snapshot] /\ group \in [Call -> Seq(Call)]
      /\ snap \in Snapshot
  BY Zenon DEF TypeOK, PcTypeOK
<1>1. ASSUME NEW d \in Call, pc'[d] \in {"mirror", "settleOk"}
      PROVE  /\ snap'.index = cur'[d].index + Len(group'[d])
             /\ \A i \in 1..Len(group'[d]) :
                  snap'.data[cur'[d].index + i] = [cmd |-> group'[d][i], index |-> cur'[d].index + i]
             /\ pc'[d] = "settleOk" => index' = snap'.index
  <2>1. CASE Publish(d)
    <3>1. /\ cur' = cur /\ group' = group /\ pc'[d] = "mirror"
          /\ snap'.index = cur[d].index + Len(group[d])
          /\ snap'.data = cur[d].data \o Records(group[d], cur[d])
      BY Zenon, <1>0, <2>1 DEF Publish, Goto, Proc
    <3>2. cur[d] = snap /\ snap.index = Len(snap.data) /\ snap.data \in Seq(Entry) /\ group[d] \in Seq(Call)
      BY Zenon, <1>0, <2>1 DEF Publish, CoreInv, Snapshot
    <3>3. /\ Records(group[d], snap) \in Seq(Entry) /\ Len(Records(group[d], snap)) = Len(group[d])
          /\ \A i \in 1..Len(group[d]) :
               Records(group[d], snap)[i] = [cmd |-> group[d][i], index |-> snap.index + i]
      BY Zenon, <1>0, <3>2, RecordsFacts
    <3>4. ASSUME NEW i \in 1..Len(group[d])
          PROVE  snap'.data[snap.index + i] = [cmd |-> group[d][i], index |-> snap.index + i]
      <4> DEFINE r == Records(group[d], snap)
                 s == snap.data
      <4>1. s \in Seq(Entry) /\ r \in Seq(Entry) /\ i \in 1..Len(r)
        BY Zenon, <3>2, <3>3
      <4> HIDE DEF r, s
      <4>2. (s \o r)[Len(s) + i] = r[i]
        BY <4>1, ConcatFacts
      <4> QED
        BY Zenon, <3>1, <3>2, <3>3, <4>2 DEF r, s
    <3> QED
      BY Zenon, <3>1, <3>2, <3>4
  <2>2. CASE Mirror(d)
    <3>1. /\ UNCHANGED <<snap, cur, group>> /\ pc[d] = "mirror"
          /\ index' = cur[d].index + Len(group[d])
      BY Zenon, <2>2 DEF Mirror
    <3> QED
      BY Zenon, <3>1 DEF SettlingInv
  <2>3. CASE pc'[d] = pc[d] /\ cur'[d] = cur[d] /\ group'[d] = group[d] /\ ~Mirror(d) /\ ~Publish(d)
    <3>1. \A e \in Call : pc[e] \in {"mirror", "publish"} => e = d
      BY Zenon, <1>1, <2>3 DEF ExclusionInv, FlushExclusive, Critical, CallCritical, Proc
    <3>2. ~Crash
      BY Zenon, <1>0, <1>1 DEF Crash, Proc
    <3>3. snap' = snap
      BY Zenon, <2>3, <3>1, <3>2, SnapshotWriters DEF Publish
    <3>4. index' = index
      BY Zenon, <2>3, <3>1, <3>2, IndexWriters DEF Mirror
    <3> QED
      BY <1>1, <2>3, <3>3, <3>4, ZenonT(30), ZenonT(60) DEF SettlingInv
  <2> QED
    BY Zenon, <1>1, <2>1, <2>2, <2>3, SettlersAlone
<1> QED
  BY Zenon, <1>1 DEF SettlingInv

\* Every answer, given or waiting in a ticket, stays true.
LEMMA NextAnswers ==
  ASSUME TypeOK, TypeOK', CoreInv, CoreInv', AnswerInv, SettlingInv, [Next]_vars
  PROVE  AnswerInv'
<1>0. /\ ticket \in [Call -> Result] /\ ret \in [Call -> Outcome] /\ group \in [Call -> Seq(Call)]
      /\ snap \in Snapshot /\ cur \in [Proc -> Snapshot] /\ index \in Nat
  BY Zenon DEF TypeOK
<1>1. index' <= snap'.index
  BY Zenon, IndexGrows
<1>2. ASSUME NEW d \in Call
      PROVE  /\ ticket'[d].state = "ok" =>
                   ticket'[d] = ticket[d] \/ Placed(snap.data, index, d, ticket'[d].index)
             /\ ret'[d].state = "ok" => ret'[d] \in {ret[d], ticket[d]}
  <2> USE DEF Unset, Err, Ok, Returned
  <2>1. ASSUME NEW c \in Call, Settle(c) PROVE ticket'[d].state = "ok" => ticket'[d] = ticket[d] \/ Placed(snap.data, index, d, ticket'[d].index)
    <3> SUFFICES ASSUME ticket'[d].state = "ok", ticket'[d] # ticket[d] PROVE Placed(snap.data, index, d, ticket'[d].index)
      BY Zenon
    <3>1. /\ \E i \in 1..Len(group[c]) : group[c][i] = d
          /\ pc[c] = "settleOk"
          /\ ticket'[d] = Ok(cur[c].index + (CHOOSE i \in 1..Len(group[c]) : group[c][i] = d))
      BY Zenon, <2>1 DEF Settle
    <3>2. PICK i \in 1..Len(group[c]) : group[c][i] = d /\ ticket'[d].index = cur[c].index + i
      <4> DEFINE first == CHOOSE i \in 1..Len(group[c]) : group[c][i] = d
      <4>1. first \in 1..Len(group[c]) /\ group[c][first] = d
        BY Zenon, <3>1
      <4>2. ticket'[d] = [state |-> "ok", index |-> cur[c].index + first]
        BY Zenon, <3>1, ZenonT(30), ZenonT(60)
      <4> HIDE DEF first
      <4> QED
        BY <4>1, <4>2
    <3>3. /\ snap.index = cur[c].index + Len(group[c]) /\ index = snap.index
          /\ snap.data[cur[c].index + i] = [cmd |-> d, index |-> cur[c].index + i]
      BY Zenon, <3>1, <3>2 DEF SettlingInv
    <3>4. cur[c].index \in Nat /\ snap.index = Len(snap.data) /\ Len(group[c]) \in Nat
      <4>1. cur[c] \in Snapshot /\ group[c] \in Seq(Call)
        BY Zenon, <1>0 DEF Proc
      <4>2. snap.index = Len(snap.data)
        BY Zenon DEF CoreInv
      <4> QED
        BY <4>1, <4>2 DEF Snapshot
    <3>5. cur[c].index + i \in 1..Len(snap.data) /\ cur[c].index + i <= index
      BY SMTT(30), SMTT(60), <3>3, <3>4
    <3> QED
      BY Zenon, <3>2, <3>3, <3>5 DEF Placed
  <2>2. ASSUME NEW c \in Call, CallStep(c), ~Settle(c)
        PROVE  ticket'[d].state = "ok" => ticket'[d] = ticket[d]
    <3>1. ticket' = ticket \/ ticket' = [ticket EXCEPT ![c] = Unset]
      BY Zenon, <2>2, ZenonT(30), ZenonT(60) DEF CallStep, Refuse, Submit, TakeTicket, Compete, Prepare, Panic, AppendStart,
         AppendRefused, AppendNothing, AppendDone, AppendFailed, Publish, Mirror, Release
    <3> QED
      BY <1>0, <3>1
  <2>3. ASSUME NEW c \in Call, CallStep(c) PROVE ret'[d].state = "ok" => ret'[d] \in {ret[d], ticket[d]}
    <3>1. \/ ret' = ret
          \/ ret' = [ret EXCEPT ![c] = Returned("invalid")]
          \/ ret' = [ret EXCEPT ![c] = Returned("panic")]
          \/ ret' = [ret EXCEPT ![c] = ticket[c]]
      BY Zenon, <2>3, ZenonT(30), ZenonT(60) DEF CallStep, Refuse, Submit, TakeTicket, Compete, Prepare, Panic, AppendStart,
         AppendRefused, AppendNothing, AppendDone, AppendFailed, Publish, Mirror, Settle, Release
    <3> QED
      BY <1>0, <3>1
  <2>4. ASSUME NEW k \in Ckpt, CkptStep(k) PROVE UNCHANGED <<ticket, ret>>
    BY Zenon, <2>4 DEF CkptStep, LockCkpt, Enter, Pin, Rotate, RotateError, ReleaseExclusive, FinishCkpt
  <2>5. ASSUME NEW p \in Proc, SpuriousWake(p) PROVE UNCHANGED <<ticket, ret>>
    BY Zenon, <2>5, ZenonT(30), ZenonT(60) DEF SpuriousWake
  <2>6. CASE Crash
    BY Zenon, <1>0, <2>6 DEF Crash
  <2>7. CASE UNCHANGED vars
    BY Zenon, <2>7 DEF vars, procVars
  <2> QED
    BY Zenon, <2>1, <2>2, <2>3, <2>4, <2>5, <2>6, <2>7 DEF Next
<1>3. ASSUME NEW d \in Call, ticket'[d].state = "ok"
      PROVE  Placed(snap'.data, index', d, ticket'[d].index)
  <2>1. Placed(snap.data, index, d, ticket'[d].index)
    BY Zenon, <1>2, <1>3 DEF AnswerInv
  <2> QED
    BY Zenon, <2>1, PlacedStays
<1>4. ASSUME NEW d \in Call, ret'[d].state = "ok"
      PROVE  Placed(snap'.data, index', d, ret'[d].index)
  <2>1. Placed(snap.data, index, d, ret'[d].index)
    BY Zenon, <1>2, <1>4 DEF AnswerInv
  <2> QED
    BY Zenon, <2>1, PlacedStays
<1> QED
  BY Zenon, <1>1, <1>3, <1>4 DEF AnswerInv, Placed

\* Every answer is true at every step.
LEMMA AnswersCorrect == Spec => [](TypeOK /\ CoreInv /\ AnswerInv)
<1>1. Init => SettlingInv /\ AnswerInv
  BY DEF Init, SettlingInv, AnswerInv, Unset, EmptySnapshot, Proc
<1> QED
  BY <1>1, NextSettling, NextAnswers, CoreCorrect, PTL DEF Spec

\* A commit call that returned Ok(i) is in effect at index i, and index() has
\* caught up with it, at every later step, crashes and recoveries included.
THEOREM Answers == Spec => []AckedIsVisible
<1>1. AnswerInv => AckedIsVisible
  BY Zenon DEF AnswerInv, AckedIsVisible, Placed
<1> QED
  BY <1>1, AnswersCorrect, PTL

-----------------------------------------------------------------------------
(* The life of a call *)

\* The flusher has not settled its group yet.
Holding == CallCritical \ {"release"}

Sleeping == {"waiting", "woken"}

\* A call has returned exactly if it is done; it is queued or in the group of a
\* flusher at work only while it sleeps, or flushes itself, with its ticket
\* unset; a flusher at work has found its own ticket unset.
LifeInv ==
  /\ \A c \in Call : pc[c] = "done" <=> ret[c].state # "unset"
  /\ \A c \in Call : pc[c] = "idle" \/ ticket[c].state = "unset" => ticket[c] = Unset
  /\ \A i \in 1..Len(pending) : pc[pending[i]] \in Sleeping /\ ticket[pending[i]] = Unset
  /\ \A d \in Call : pc[d] \in Holding => ticket[d] = Unset
  /\ \A d \in Call : pc[d] \in Holding =>
       \A i \in 1..Len(group[d]) :
         /\ ticket[group[d][i]] = Unset
         /\ group[d][i] = d \/ pc[group[d][i]] \in Sleeping

Appended == {"publish", "mirror", "settleOk"}

\* Call c is in the group of a flusher that has appended it and not settled it.
Settling(c) ==
  \E d \in Call : pc[d] \in Appended /\ \E j \in 1..Len(group[d]) : group[d][j] = c

\* Call c has been answered Ok, or is about to be.
Promised(c) == ticket[c].state = "ok" \/ Settling(c)

\* A call in the log that has not returned will be answered Ok; no call with
\* records in flight was, and none was lost in a crash.
EffectInv ==
  /\ \A i \in 1..Len(log) : ret[log[i].cmd].state = "unset" => Promised(log[i].cmd)
  /\ \A i \in 1..Len(tail) : ret[tail[i].cmd].state \notin {"ok", "lost"}

\* Steps that answer nobody and change no queue: sleepers may wake or sleep,
\* and a flusher goes on with its group.
LEMMA LifeFrame ==
  ASSUME TypeOK, LifeInv, UNCHANGED <<pending, ticket, ret, group>>,
         \A c \in Call : \/ pc'[c] = pc[c]
                         \/ pc[c] \in Sleeping /\ pc'[c] \in Sleeping
                         \/ pc[c] \in Holding /\ pc'[c] \in Holding
  PROVE  LifeInv'
<1>0. pending \in Seq(Call) /\ group \in [Call -> Seq(Call)]
  BY Zenon DEF TypeOK
<1> USE DEF Sleeping, Holding, CallCritical
<1>1. \A c \in Call : pc'[c] = "done" <=> ret'[c].state # "unset"
  BY DEF LifeInv
<1>2. \A c \in Call : pc'[c] = "idle" \/ ticket'[c].state = "unset" => ticket'[c] = Unset
  BY DEF LifeInv
<1>3. \A i \in 1..Len(pending') : pc'[pending'[i]] \in Sleeping /\ ticket'[pending'[i]] = Unset
  <2> SUFFICES ASSUME NEW i \in 1..Len(pending) PROVE pc'[pending[i]] \in Sleeping /\ ticket[pending[i]] = Unset
    BY Zenon
  <2>1. pending[i] \in Call /\ pc[pending[i]] \in Sleeping /\ ticket[pending[i]] = Unset
    BY <1>0 DEF LifeInv
  <2> QED
    BY Zenon, <2>1
<1>4. ASSUME NEW d \in Call, pc'[d] \in Holding, NEW i \in 1..Len(group[d])
      PROVE  ticket[group[d][i]] = Unset /\ (group[d][i] = d \/ pc'[group[d][i]] \in Sleeping)
  <2>1. pc[d] \in Holding
    BY Zenon, <1>4
  <2>2. group[d][i] \in Call /\ ticket[group[d][i]] = Unset /\ (group[d][i] = d \/ pc[group[d][i]] \in Sleeping)
    BY <1>0, <2>1 DEF LifeInv
  <2> QED
    BY Zenon, <2>2
<1> QED
  BY <1>1, <1>2, <1>3, <1>4 DEF LifeInv

\* A call that joins the queue, or wakes up and finds its ticket unsettled.
LEMMA QueueKeepsLife ==
  ASSUME TypeOK, ExclusionInv, LifeInv, NEW c \in Call, Submit(c) \/ Compete(c)
  PROVE  LifeInv'
<1>0. /\ pending \in Seq(Call) /\ group \in [Call -> Seq(Call)] /\ pc \in [Proc -> CallPC \cup CkptPC]
      /\ c \in Proc
  BY Zenon DEF TypeOK, PcTypeOK, Proc
<1>1. PICK q \in {pending, Append(pending, c)} :
        /\ FlushOrWait(c, q) /\ pc[c] \in {"idle", "woken"} /\ UNCHANGED <<ticket, ret>>
        /\ pc[c] = "idle" \/ ticket[c] = Unset
  BY Zenon DEF Submit, Compete
<1>2. ticket[c] = Unset /\ ret[c].state = "unset"
  BY Zenon, <1>1 DEF LifeInv
<1>3. q \in Seq(Call) /\ \A i \in 1..Len(q) : ticket[q[i]] = Unset /\ (q[i] = c \/ pc[q[i]] \in Sleeping)
  <2>1. CASE q = pending
    BY Zenon, <1>0, <2>1 DEF LifeInv
  <2>2. CASE q = Append(pending, c)
    <3>1. /\ q \in Seq(Call)
          /\ \A i \in 1..Len(q) : q[i] = c \/ \E j \in 1..Len(pending) : q[i] = pending[j]
      <4>1. q \in Seq(Call) /\ Len(q) = Len(pending) + 1 /\ q[Len(q)] = c
        BY <1>0, <2>2
      <4>2. \A i \in 1..Len(pending) : q[i] = pending[i]
        BY <1>0, <2>2
      <4>3. \A i \in 1..Len(q) : i = Len(q) \/ i \in 1..Len(pending)
        BY <1>0, <4>1
      <4> QED
        BY Zenon, <4>1, <4>2, <4>3
    <3> QED
      BY <1>2, <3>1 DEF LifeInv
  <2> QED
    BY Zenon, <1>1, <2>1, <2>2
<1>4. \A d \in Call \ {c} : pc'[d] = pc[d]
  BY Zenon, <1>0, <1>1 DEF FlushOrWait, Goto, Proc
<1>5. pc'[c] \in {"prepare", "waiting"}
  BY Zenon, <1>0, <1>1 DEF FlushOrWait, Goto
<1>6. /\ \A d \in Call : pc'[d] = "done" <=> ret'[d].state # "unset"
      /\ \A d \in Call : pc'[d] = "idle" \/ ticket'[d].state = "unset" => ticket'[d] = Unset
      /\ \A d \in Call : pc'[d] \in Holding => ticket'[d] = Unset
  BY Zenon, <1>1, <1>2, <1>4, <1>5 DEF LifeInv
<1>7. CASE ~flushing /\ pending' = <<>> /\ group' = [group EXCEPT ![c] = q] /\ Goto(c, "prepare")
  <2>1. \A d \in Call \ {c} : pc'[d] \notin Holding
    BY Zenon, <1>4, <1>7 DEF ExclusionInv, Holding, Critical, Proc
  <2>2. group'[c] = q
    BY Zenon, <1>0, <1>7
  <2>3. \A i \in 1..Len(q) : q[i] = c \/ pc'[q[i]] \in Sleeping
    BY <1>3, <1>4
  <2> QED
    BY <1>1, <1>3, <1>6, <1>7, <2>1, <2>2, <2>3 DEF LifeInv
<1>8. CASE pending' = q /\ group' = group /\ Goto(c, "waiting")
  <2>1. pc'[c] = "waiting"
    BY Zenon, <1>0, <1>8 DEF Goto
  <2>2. \A i \in 1..Len(pending') : pc'[pending'[i]] \in Sleeping /\ ticket'[pending'[i]] = Unset
    BY <1>1, <1>3, <1>4, <1>8, <2>1 DEF Sleeping
  <2>3. ASSUME NEW d \in Call, pc'[d] \in Holding, NEW i \in 1..Len(group[d])
        PROVE  ticket[group[d][i]] = Unset /\ (group[d][i] = d \/ pc'[group[d][i]] \in Sleeping)
    <3>1. d # c /\ pc[d] \in Holding /\ group[d][i] \in Call
      BY <1>0, <1>4, <2>1, <2>3 DEF Holding, CallCritical
    <3>2. ticket[group[d][i]] = Unset /\ (group[d][i] = d \/ pc[group[d][i]] \in Sleeping)
      BY Zenon, <3>1 DEF LifeInv
    <3> QED
      BY Zenon, <1>4, <2>1, <3>1, <3>2 DEF Sleeping
  <2> QED
    BY Zenon, <1>1, <1>6, <1>8, <2>2, <2>3 DEF LifeInv
<1> QED
  BY Zenon, <1>1, <1>7, <1>8 DEF FlushOrWait

\* A call that returns is neither queued nor in the group of a flusher at work.
LEMMA ReturnKeepsLife ==
  ASSUME TypeOK, LifeInv, NEW c \in Call, pending' = pending,
         pc[c] \notin Sleeping \/ ticket[c] # Unset,
         pc'[c] = "done", ret'[c].state # "unset", ticket'[c] \in {ticket[c], Unset},
         \A d \in Call \ {c} : /\ pc'[d] = pc[d] \/ (pc[d] \in Sleeping /\ pc'[d] \in Sleeping)
                               /\ ret'[d] = ret[d] /\ ticket'[d] = ticket[d] /\ group'[d] = group[d]
  PROVE  LifeInv'
<1>0. pending \in Seq(Call) /\ group \in [Call -> Seq(Call)]
  BY Zenon DEF TypeOK
<1> USE DEF Sleeping, Holding, CallCritical
<1>1. \A d \in Call : pc'[d] = "done" <=> ret'[d].state # "unset"
  BY DEF LifeInv
<1>2. \A d \in Call : pc'[d] = "idle" \/ ticket'[d].state = "unset" => ticket'[d] = Unset
  BY DEF LifeInv
<1>3. ASSUME NEW i \in 1..Len(pending)
      PROVE  pc'[pending[i]] \in Sleeping /\ ticket'[pending[i]] = Unset
  <2>1. pending[i] \in Call /\ pc[pending[i]] \in Sleeping /\ ticket[pending[i]] = Unset
    BY <1>0 DEF LifeInv
  <2> QED
    BY Zenon, <2>1
<1>4. ASSUME NEW d \in Call, pc'[d] \in Holding, NEW i \in 1..Len(group'[d])
      PROVE  ticket'[group'[d][i]] = Unset /\ (group'[d][i] = d \/ pc'[group'[d][i]] \in Sleeping)
  <2>1. d # c /\ pc[d] \in Holding /\ group'[d] = group[d]
    BY Zenon, <1>4
  <2>2. group[d][i] \in Call /\ ticket[group[d][i]] = Unset /\ (group[d][i] = d \/ pc[group[d][i]] \in Sleeping)
    BY <1>0, <1>4, <2>1 DEF LifeInv
  <2>3. group[d][i] # c
    BY Zenon, <2>1, <2>2
  <2> QED
    BY <2>1, <2>2, <2>3
<1> QED
  BY <1>1, <1>2, <1>3, <1>4 DEF LifeInv

\* A flusher that settles its group reaches no queued call.
LEMMA SettleKeepsLife ==
  ASSUME TypeOK, ExclusionInv, PlaceInv, LifeInv, NEW c \in Call, Settle(c)
  PROVE  LifeInv'
<1>0. /\ pending \in Seq(Call) /\ group \in [Call -> Seq(Call)] /\ pc \in [Proc -> CallPC \cup CkptPC]
      /\ c \in Proc
  BY Zenon DEF TypeOK, PcTypeOK, Proc
<1>1. /\ pc[c] \in {"settleOk", "settleErr"} /\ Goto(c, "release") /\ UNCHANGED <<pending, group, ret>>
  BY Zenon DEF Settle, queueVars
<1>2. \A d \in Call : \/ ticket'[d].state \in {"ok", "err"} /\ \E i \in 1..Len(group[c]) : group[c][i] = d
                      \/ ticket'[d] = ticket[d]
  BY Zenon DEF Settle, Ok, Err
<1>3. pc'[c] = "release" /\ \A d \in Call \ {c} : pc'[d] = pc[d]
  BY Zenon, <1>0, <1>1 DEF Goto, Proc
<1>4. \A d \in Call : pc'[d] \notin Holding
  BY Zenon, <1>1, <1>3 DEF ExclusionInv, FlushExclusive, Holding, Critical, CallCritical, Proc
<1>5. \A d \in Call : pc'[d] = "done" <=> ret'[d].state # "unset"
  BY Zenon, <1>1, <1>3 DEF LifeInv
<1>6. \A d \in Call : pc'[d] = "idle" \/ ticket'[d].state = "unset" => ticket'[d] = Unset
  <2>1. \A i \in 1..Len(group[c]) : group[c][i] = c \/ pc[group[c][i]] \in Sleeping
    BY Zenon, <1>1 DEF LifeInv, Holding, CallCritical
  <2> QED
    BY <1>1, <1>2, <1>3, <2>1 DEF LifeInv, Sleeping
<1>7. ASSUME NEW i \in 1..Len(pending)
      PROVE  pc'[pending[i]] \in Sleeping /\ ticket'[pending[i]] = Unset
  <2>1. pending[i] \in Call /\ pc[pending[i]] \in Sleeping /\ ticket[pending[i]] = Unset
    BY <1>0 DEF LifeInv
  <2>2. \A j \in 1..Len(group[c]) : group[c][j] # pending[i]
    BY Zenon DEF PlaceInv
  <2> QED
    BY Zenon, <1>1, <1>2, <1>3, <2>1, <2>2 DEF Sleeping
<1> QED
  BY Zenon, <1>1, <1>4, <1>5, <1>6, <1>7 DEF LifeInv

\* Every step keeps the calls' progress, their answers and their tickets in line.
LEMMA NextLife ==
  ASSUME TypeOK, ExclusionInv, PlaceInv, LifeInv, [Next]_vars
  PROVE  LifeInv'
<1>0. /\ pc \in [Proc -> CallPC \cup CkptPC] /\ ticket \in [Call -> Result] /\ ret \in [Call -> Outcome]
      /\ group \in [Call -> Seq(Call)]
  BY Zenon DEF TypeOK, PcTypeOK
<1>1. ASSUME NEW c \in Call, CallStep(c) PROVE LifeInv'
  <2>0. c \in Proc
    BY Zenon DEF Proc
  <2>1. CASE Submit(c) \/ Compete(c)
    BY Zenon, <2>1, QueueKeepsLife
  <2>2. CASE Refuse(c) \/ TakeTicket(c)
    <3>1. ticket[c] # Unset => ticket[c].state # "unset"
      BY Zenon DEF LifeInv
    <3>2. /\ UNCHANGED <<pending, group>>
          /\ pc[c] \notin Sleeping \/ ticket[c] # Unset
          /\ Goto(c, "done")
          /\ ret' = [ret EXCEPT ![c] = Returned("invalid")] \/ (ticket[c] # Unset /\ ret' = [ret EXCEPT ![c] = ticket[c]])
          /\ ticket' = ticket \/ ticket' = [ticket EXCEPT ![c] = Unset]
      BY Zenon, <2>2 DEF Refuse, TakeTicket, queueVars, Sleeping
    <3>3. pc'[c] = "done" /\ \A d \in Call \ {c} : pc'[d] = pc[d]
      BY Zenon, <1>0, <2>0, <3>2 DEF Goto, Proc
    <3>4. ret'[c].state # "unset" /\ \A d \in Call \ {c} : ret'[d] = ret[d]
      BY <1>0, <3>1, <3>2 DEF Returned
    <3>5. ticket'[c] \in {ticket[c], Unset} /\ \A d \in Call \ {c} : ticket'[d] = ticket[d]
      BY Zenon, <1>0, <3>2
    <3> QED
      BY Zenon, <3>2, <3>3, <3>4, <3>5, ReturnKeepsLife
  <2>3. CASE Panic(c) \/ Release(c)
    <3>1. ticket[c] # Unset => ticket[c].state # "unset"
      BY Zenon DEF LifeInv
    <3>2. /\ pending' = pending
          /\ pc[c] \in {"prepare", "append", "release"}
          /\ GotoNotifying(c, "done")
          /\ ret' = [ret EXCEPT ![c] = Returned("panic")] \/ (ticket[c] # Unset /\ ret' = [ret EXCEPT ![c] = ticket[c]])
          /\ ticket' = ticket \/ ticket' = [ticket EXCEPT ![c] = Unset]
          /\ group' = [group EXCEPT ![c] = <<>>]
      BY Zenon, <2>3 DEF Panic, Release
    <3>3. pc'[c] = "done" /\ \A d \in Call \ {c} : pc'[d] = pc[d] \/ (pc[d] \in Sleeping /\ pc'[d] \in Sleeping)
      BY Zenon, <1>0, <2>0, <3>2 DEF GotoNotifying, Proc, Sleeping
    <3>4. ret'[c].state # "unset" /\ \A d \in Call \ {c} : ret'[d] = ret[d]
      BY <1>0, <3>1, <3>2 DEF Returned
    <3>5. ticket'[c] \in {ticket[c], Unset} /\ \A d \in Call \ {c} : ticket'[d] = ticket[d] /\ group'[d] = group[d]
      BY Zenon, <1>0, <3>2
    <3>6. pc[c] \notin Sleeping
      BY Zenon, <3>2 DEF Sleeping
    <3> QED
      BY Zenon, <3>2, <3>3, <3>4, <3>5, <3>6, ReturnKeepsLife
  <2>4. CASE Settle(c)
    BY Zenon, <2>4, SettleKeepsLife
  <2>5. CASE \/ Prepare(c) \/ AppendStart(c) \/ AppendRefused(c) \/ AppendNothing(c) \/ AppendDone(c)
             \/ AppendFailed(c) \/ Publish(c) \/ Mirror(c)
    <3>1. UNCHANGED <<pending, ticket, ret, group>>
      BY Zenon, <2>5, ZenonT(30), ZenonT(60) DEF Prepare, AppendStart, AppendRefused, AppendNothing, AppendDone, AppendFailed, Publish,
         Mirror, queueVars
    <3>2. pc[c] \in Holding /\ \E w \in Holding : Goto(c, w)
      BY Zenon, <2>5 DEF Prepare, AppendStart, AppendRefused, AppendNothing, AppendDone, AppendFailed, Publish, Mirror,
         Holding, CallCritical
    <3>3. \A d \in Call : pc'[d] = pc[d] \/ (pc[d] \in Holding /\ pc'[d] \in Holding)
      BY Zenon, <1>0, <2>0, <3>2 DEF Goto, Proc
    <3> QED
      BY Zenon, <3>1, <3>3, LifeFrame
  <2> QED
    BY Zenon, <1>1, <2>1, <2>2, <2>3, <2>4, <2>5 DEF CallStep
<1>2. ASSUME NEW k \in Ckpt, CkptStep(k) PROVE LifeInv'
  <2>1. UNCHANGED <<pending, ticket, ret, group>>
    BY Zenon, <1>2, ZenonT(30), ZenonT(60) DEF CkptStep, LockCkpt, Enter, Pin, Rotate, RotateError, ReleaseExclusive, FinishCkpt, queueVars
  <2>2. \A d \in Call : pc'[d] = pc[d] \/ (pc[d] \in Sleeping /\ pc'[d] \in Sleeping)
    BY Zenon, <1>0, <1>2 DEF CkptStep, LockCkpt, Enter, Pin, Rotate, RotateError,
       ReleaseExclusive, FinishCkpt, Goto, GotoNotifying, Sleeping, Proc
  <2> QED
    BY Zenon, <2>1, <2>2, LifeFrame
<1>3. ASSUME NEW p \in Proc, SpuriousWake(p) PROVE LifeInv'
  <2>1. UNCHANGED <<pending, ticket, ret, group>>
    BY Zenon, <1>3 DEF SpuriousWake, queueVars
  <2>2. \A d \in Call : pc'[d] = pc[d] \/ (pc[d] \in Sleeping /\ pc'[d] \in Sleeping)
    BY Zenon, <1>0, <1>3 DEF SpuriousWake, Goto, Sleeping, Proc
  <2> QED
    BY Zenon, <2>1, <2>2, LifeFrame
<1>4. CASE Crash
  <2>1. pending' = <<>> /\ ticket' = [c \in Call |-> Unset] /\ group' = [c \in Call |-> <<>>]
    BY Zenon, <1>4 DEF Crash
  <2>2. \A c \in Call : /\ pc'[c] = IF pc[c] = "idle" THEN "idle" ELSE "done"
                        /\ ret'[c] = IF pc[c] \in {"idle", "done"} THEN ret[c] ELSE Returned("lost")
    BY Zenon, <1>4 DEF Crash, Proc
  <2>3. \A c \in Call : pc'[c] = "done" <=> ret'[c].state # "unset"
    BY <2>2 DEF LifeInv, Returned
  <2> QED
    BY SMTT(30), SMTT(60), <2>1, <2>2, <2>3 DEF LifeInv, Holding, CallCritical
<1>5. CASE UNCHANGED vars
  BY Zenon, <1>5, LifeFrame DEF vars, procVars, queueVars
<1> QED
  BY Zenon, <1>1, <1>2, <1>3, <1>4, <1>5 DEF Next

-----------------------------------------------------------------------------
(* The effect of a call *)

\* How a call is answered: with its settled ticket, refused, or by a panic.
LEMMA AnswerSteps ==
  ASSUME TypeOK, [Next]_vars, ~Crash, NEW d \in Call
  PROVE  \/ ret'[d] = ret[d]
         \/ ret'[d] \in {Returned("invalid"), Returned("panic")}
         \/ ticket[d] # Unset /\ ret'[d] = ticket[d]
<1>0. ret \in [Call -> Outcome]
  BY Zenon DEF TypeOK
<1>1. ASSUME NEW c \in Call, CallStep(c)
      PROVE  \/ ret' = ret
             \/ ret' = [ret EXCEPT ![c] = Returned("invalid")]
             \/ ret' = [ret EXCEPT ![c] = Returned("panic")]
             \/ ticket[c] # Unset /\ ret' = [ret EXCEPT ![c] = ticket[c]]
  BY Zenon, <1>1, ZenonT(30), ZenonT(60) DEF CallStep, Refuse, Submit, TakeTicket, Compete, Prepare, Panic, AppendStart,
     AppendRefused, AppendNothing, AppendDone, AppendFailed, Publish, Mirror, Settle, Release
<1>2. ASSUME NEW k \in Ckpt, CkptStep(k) PROVE ret' = ret
  BY Zenon, <1>2 DEF CkptStep, LockCkpt, Enter, Pin, Rotate, RotateError, ReleaseExclusive, FinishCkpt
<1>3. ASSUME NEW p \in Proc, SpuriousWake(p) PROVE ret' = ret
  BY Zenon, <1>3 DEF SpuriousWake
<1>4. CASE UNCHANGED vars
  BY Zenon, <1>4 DEF vars, procVars
<1> QED
  BY Zenon, <1>0, <1>1, <1>2, <1>3, <1>4 DEF Next

\* A call that was promised Ok keeps the promise until it returns.
LEMMA PromiseKept ==
  ASSUME TypeOK, LifeInv, LifeInv', [Next]_vars, ~Crash, NEW d \in Call,
         ticket[d].state = "ok", ret'[d].state = "unset"
  PROVE  ticket'[d] = ticket[d]
<1>0. ticket \in [Call -> Result] /\ ret \in [Call -> Outcome] /\ pc \in [Proc -> CallPC \cup CkptPC]
      /\ group \in [Call -> Seq(Call)]
  BY Zenon DEF TypeOK, PcTypeOK
<1>1. ASSUME NEW c \in Call, Settle(c) PROVE ticket'[d] = ticket[d]
  <2>1. ~ \E i \in 1..Len(group[c]) : group[c][i] = d
    BY <1>1 DEF Settle, LifeInv, Holding, CallCritical, Unset
  <2> QED
    BY Zenon, <1>1, <2>1, ZenonT(30), ZenonT(60) DEF Settle
<1>2. ASSUME NEW c \in Call, TakeTicket(c) \/ Release(c) PROVE ticket'[d] = ticket[d]
  <2>1. c # d
    <3>1. pc'[c] = "done"
      BY Zenon, <1>0, <1>2 DEF TakeTicket, Release, Goto, GotoNotifying, Proc
    <3> QED
      BY Zenon, <3>1 DEF LifeInv
  <2> QED
    BY Zenon, <1>0, <1>2, <2>1 DEF TakeTicket, Release
<1>3. ASSUME NEW c \in Call, CallStep(c) PROVE ticket'[d] = ticket[d]
  <2>1. ticket' = ticket \/ TakeTicket(c) \/ Settle(c) \/ Release(c)
    BY Zenon, <1>3, ZenonT(30), ZenonT(60) DEF CallStep, Refuse, Submit, Compete, Prepare, Panic, AppendStart,
       AppendRefused, AppendNothing, AppendDone, AppendFailed, Publish, Mirror
  <2> QED
    BY Zenon, <1>1, <1>2, <2>1
<1>4. ASSUME NEW k \in Ckpt, CkptStep(k) PROVE ticket' = ticket
  BY Zenon, <1>4 DEF CkptStep, LockCkpt, Enter, Pin, Rotate, RotateError, ReleaseExclusive, FinishCkpt
<1>5. ASSUME NEW p \in Proc, SpuriousWake(p) PROVE ticket' = ticket
  BY Zenon, <1>5 DEF SpuriousWake
<1>6. CASE UNCHANGED vars
  BY Zenon, <1>6 DEF vars, procVars
<1> QED
  BY Zenon, <1>3, <1>4, <1>5, <1>6 DEF Next

\* A flusher keeps the group it has appended until it settles it.
LEMMA GroupKept ==
  ASSUME TypeOK, [Next]_vars, ~Crash, NEW d \in Call, pc[d] \in Appended
  PROVE  (pc'[d] \in Appended /\ group'[d] = group[d]) \/ Settle(d)
<1>0. /\ pc \in [Proc -> CallPC \cup CkptPC] /\ group \in [Call -> Seq(Call)] /\ d \in Proc
  BY Zenon DEF TypeOK, PcTypeOK, Proc
<1> USE DEF Appended
<1>1. ASSUME NEW c \in Call, CallStep(c)
      PROVE  (pc'[d] \in Appended /\ group'[d] = group[d]) \/ Settle(d)
  <2>0. c \in Proc
    BY Zenon DEF Proc
  <2>1. CASE c = d
    <3>1. Publish(d) \/ Mirror(d) \/ Settle(d)
      BY Zenon, <1>1, <2>1 DEF CallStep, Refuse, Submit, TakeTicket, Compete, Prepare, Panic,
         AppendStart, AppendRefused, AppendNothing, AppendDone, AppendFailed, Release
    <3> QED
      BY Zenon, <1>0, <3>1 DEF Publish, Mirror, Goto
  <2>2. CASE c # d
    <3>1. pc'[d] = pc[d] \/ (pc[d] = "waiting" /\ pc'[d] = "woken")
      BY Zenon, <1>0, <1>1, <2>0, <2>2, ZenonT(30), ZenonT(60) DEF CallStep, Refuse, Submit, TakeTicket, Compete, FlushOrWait,
         Prepare, Panic, AppendStart, AppendRefused, AppendNothing, AppendDone, AppendFailed, Publish, Mirror,
         Settle, Release, Goto, GotoNotifying
    <3>3. group' = group \/ \E g : group' = [group EXCEPT ![c] = g]
      BY Zenon, <1>1, ZenonT(30), ZenonT(60) DEF CallStep, Refuse, Submit, TakeTicket, Compete, FlushOrWait, Prepare, Panic, AppendStart,
         AppendRefused, AppendNothing, AppendDone, AppendFailed, Publish, Mirror, Settle, Release
    <3> QED
      BY Zenon, <1>0, <2>0, <2>2, <3>1, <3>3
  <2> QED
    BY Zenon, <2>1, <2>2
<1>2. ASSUME NEW k \in Ckpt, CkptStep(k) PROVE pc'[d] = pc[d] /\ group'[d] = group[d]
  <2>0. k # d /\ k \in Proc
    BY Zenon DEF Proc
  <2>1. pc'[d] = pc[d] \/ (pc[d] = "waiting" /\ pc'[d] = "woken")
    BY Zenon, <1>0, <1>2, <2>0, ZenonT(30), ZenonT(60) DEF CkptStep, LockCkpt, Enter, Pin, Rotate, RotateError, ReleaseExclusive,
       FinishCkpt, Goto, GotoNotifying
  <2>2. group' = group
    BY Zenon, <1>2, ZenonT(30), ZenonT(60) DEF CkptStep, LockCkpt, Enter, Pin, Rotate, RotateError, ReleaseExclusive, FinishCkpt
  <2> QED
    BY Zenon, <2>1, <2>2
<1>3. ASSUME NEW p \in Proc, SpuriousWake(p) PROVE pc'[d] = pc[d] /\ group'[d] = group[d]
  BY Zenon, <1>0, <1>3 DEF SpuriousWake, Goto
<1>4. CASE UNCHANGED vars
  BY Zenon, <1>4 DEF vars, procVars
<1> QED
  BY Zenon, <1>1, <1>2, <1>3, <1>4 DEF Next

\* A promise is kept until the call returns.
LEMMA PromisedStays ==
  ASSUME TypeOK, LifeInv, LifeInv', [Next]_vars, ~Crash, NEW d \in Call, Promised(d), ret'[d].state = "unset"
  PROVE  Promised(d)'
<1>1. CASE ticket[d].state = "ok"
  BY Zenon, <1>1, PromiseKept DEF Promised
<1>2. CASE Settling(d)
  <2>1. PICK c \in Call, j \in Nat : pc[c] \in Appended /\ j \in 1..Len(group[c]) /\ group[c][j] = d
    <3>1. PICK c \in Call : pc[c] \in Appended /\ \E j \in 1..Len(group[c]) : group[c][j] = d
      BY Zenon, <1>2 DEF Settling
    <3>2. \A j \in 1..Len(group[c]) : j \in Nat
      OBVIOUS
    <3> QED
      BY Zenon, <3>1, <3>2
  <2>2. CASE pc'[c] \in Appended /\ group'[c] = group[c]
    BY Zenon, <2>1, <2>2 DEF Promised, Settling
  <2>3. CASE Settle(c)
    <3>1. \E i \in 1..Len(group[c]) : group[c][i] = d
      BY Zenon, <2>1
    <3>2. pc[c] = "settleOk"
      BY Zenon, <2>1, <2>3 DEF Settle, Appended
    <3>3. \E n : ticket'[d] = Ok(n)
      BY Zenon, <2>3, <3>1, <3>2 DEF Settle
    <3> QED
      BY <3>3 DEF Promised, Ok
  <2> QED
    BY Zenon, <2>1, <2>2, <2>3, GroupKept
<1> QED
  BY Zenon, <1>1, <1>2 DEF Promised

\* What a group's records name.
LEMMA TailNames ==
  ASSUME TypeOK, CoreInv, NEW c \in Call, pc[c] = "sync"
  PROVE  \A i \in 1..Len(tail) : \E j \in 1..Len(group[c]) : tail[i].cmd = group[c][j]
<1>0. group[c] \in Seq(Call) /\ snap \in Snapshot
  BY Zenon DEF TypeOK
<1>1. tail = Records(group[c], snap)
  BY Zenon DEF CoreInv
<1>2. /\ Len(tail) = Len(group[c])
      /\ \A i \in 1..Len(group[c]) : tail[i] = [cmd |-> group[c][i], index |-> snap.index + i]
  BY Zenon, <1>0, <1>1, RecordsFacts
<1>3. ASSUME NEW i \in 1..Len(tail) PROVE tail[i].cmd = group[c][i]
  <2>1. tail[i] = [cmd |-> group[c][i], index |-> snap.index + i]
    BY Zenon, <1>2
  <2> QED
    BY <2>1
<1> QED
  BY Zenon, <1>2, <1>3

\* Every step keeps its promises to the calls in the log.
LEMMA NextPromised ==
  ASSUME TypeOK, TypeOK', ExclusionInv, CoreInv, LifeInv, LifeInv', UnstartedInv', EffectInv, [Next]_vars,
         NEW d \in Call, NEW i \in 1..Len(log'), log'[i].cmd = d, ret'[d].state = "unset"
  PROVE  Promised(d)'
<1>0. /\ log \in Seq(Entry) /\ log' \in Seq(Entry) /\ tail \in Seq(Entry) /\ ticket \in [Call -> Result]
  BY Zenon DEF TypeOK, LogTypeOK
<1>2. CASE Crash
  <2>1. pc'[d] \in {"idle", "done"}
    BY Zenon, <1>2 DEF Crash, Proc
  <2>2. pc'[d] # "done"
    BY Zenon DEF LifeInv
  <2> QED
    BY Zenon, <2>1, <2>2 DEF UnstartedInv
<1>3. CASE ~Crash
  <2>0. ret[d].state = "unset"
    <3>1. ticket[d] # Unset => ticket[d].state # "unset"
      BY Zenon DEF LifeInv
    <3>2. \/ ret'[d] = ret[d] \/ ret'[d] \in {Returned("invalid"), Returned("panic")}
          \/ ticket[d] # Unset /\ ret'[d] = ticket[d]
      BY Zenon, <1>3, AnswerSteps
    <3> QED
      BY <3>1, <3>2 DEF Returned
  <2>1. CASE i \in 1..Len(log) /\ log'[i] = log[i]
    <3>1. Promised(d)
      BY Zenon, <2>0, <2>1 DEF EffectInv
    <3> QED
      BY Zenon, <1>3, <3>1, PromisedStays
  <2>2. ASSUME NEW c \in Call, AppendDone(c), ~(i \in 1..Len(log) /\ log'[i] = log[i])
        PROVE  Promised(d)'
    <3>1. /\ log' = log \o tail /\ pc[c] = "sync" /\ Goto(c, "publish") /\ group' = group
      BY Zenon, <2>2 DEF AppendDone, AppendOk, queueVars
    <3>2. PICK j \in 1..Len(tail) : log'[i] = tail[j]
      <4>1. /\ Len(log') = Len(log) + Len(tail)
            /\ \A n \in 1..Len(log) : log'[n] = log[n]
            /\ \A n \in 1..Len(tail) : log'[Len(log) + n] = tail[n]
        BY <1>0, <3>1, ConcatFacts
      <4>2. i \in Nat /\ Len(log) \in Nat /\ Len(tail) \in Nat /\ ~(i \in 1..Len(log))
        BY <1>0, <2>2, <4>1
      <4>3. i - Len(log) \in 1..Len(tail) /\ i = Len(log) + (i - Len(log))
        BY <4>1, <4>2
      <4> QED
        BY Zenon, <4>1, <4>3
    <3>3. PICK n \in 1..Len(group[c]) : d = group[c][n]
      <4>1. pc[c] = "sync"
        BY Zenon, <3>1
      <4>2. tail[j].cmd = d
        BY Zenon, <3>2
      <4> QED
        BY <4>1, <4>2, TailNames, ZenonT(30), ZenonT(60)
    <3>4. pc'[c] = "publish"
      BY Zenon, <3>1 DEF Goto, TypeOK, PcTypeOK, Proc
    <3> QED
      BY Zenon, <3>1, <3>3, <3>4 DEF Promised, Settling, Appended
  <2>3. log' = log \/ \E c \in Call : AppendDone(c)
    BY Zenon, <1>3, LogWriters DEF Rotate, RotateOk
  <2> QED
    BY Zenon, <2>1, <2>2, <2>3
<1> QED
  BY Zenon, <1>2, <1>3

\* What a settled ticket or an answer of Ok says: the call is in the log.
LEMMA OkIsLogged ==
  ASSUME TypeOK, CoreInv, NEW c \in Call, NEW i, Placed(snap.data, index, c, i)
  PROVE  \E j \in 1..Len(log) : log[j].cmd = c
<1>1. Prefix(snap.data, log)
  BY Zenon, VisibleIsPrefix DEF DurableBeforeVisible
<1>2. /\ i \in 1..Len(snap.data) /\ snap.data[i] = [cmd |-> c, index |-> i]
  BY Zenon DEF Placed
<1>3. Len(snap.data) \in Nat /\ Len(log) \in Nat
  BY DEF TypeOK, LogTypeOK, Snapshot
<1>4. i \in 1..Len(log) /\ log[i] = [cmd |-> c, index |-> i]
  BY SMTT(30), SMTT(60), <1>1, <1>2, <1>3 DEF Prefix
<1>5. log[i].cmd = c
  BY <1>4
<1> QED
  BY Zenon, <1>4, <1>5

\* Who changes the records in flight.
LEMMA TailWriters ==
  ASSUME [Next]_vars
  PROVE  tail' = tail \/ tail' = <<>> \/ \E c \in Call : AppendStart(c)
<1> USE DEF logVars
<1>1. ASSUME NEW c \in Call, CallStep(c) PROVE tail' = tail \/ tail' = <<>> \/ AppendStart(c)
  BY Zenon, <1>1, ZenonT(30), ZenonT(60) DEF CallStep, Refuse, Submit, TakeTicket, Compete, Prepare, Panic, AppendRefused, RotateFailed,
     AppendNothing, AppendDone, AppendOk, AppendFailed, AppendRolledBack, AppendPoisoned, Publish, Mirror, Settle,
     Release
<1>2. ASSUME NEW k \in Ckpt, CkptStep(k) PROVE tail' = tail
  BY Zenon, <1>2, ZenonT(30), ZenonT(60) DEF CkptStep, LockCkpt, Enter, Pin, Rotate, RotateOk, RotateError, RotateFailed,
     ReleaseExclusive, FinishCkpt
<1>3. ASSUME NEW p \in Proc, SpuriousWake(p) PROVE tail' = tail
  BY Zenon, <1>3 DEF SpuriousWake
<1>4. CASE Crash
  BY Zenon, <1>4 DEF Crash, Reopen
<1>5. CASE UNCHANGED vars
  BY Zenon, <1>5 DEF vars
<1> QED
  BY Zenon, <1>1, <1>2, <1>3, <1>4, <1>5 DEF Next

\* No step answers Ok to a call whose records are in flight.
LEMMA NextInFlight ==
  ASSUME TypeOK, CoreInv, PlaceInv, AnswerInv, LifeInv, EffectInv, [Next]_vars
  PROVE  \A i \in 1..Len(tail') : ret'[tail'[i].cmd].state \notin {"ok", "lost"}
<1>0. /\ tail \in Seq(Entry) /\ ticket \in [Call -> Result] /\ ret \in [Call -> Outcome]
      /\ group \in [Call -> Seq(Call)] /\ cur \in [Proc -> Snapshot]
  BY Zenon DEF TypeOK, LogTypeOK
<1>1. CASE tail' = <<>>
  BY <1>1
<1>2. ASSUME NEW c \in Call, AppendStart(c)
      PROVE  \A i \in 1..Len(tail') : ret'[tail'[i].cmd].state \notin {"ok", "lost"}
  <2>1. /\ tail' = Records(group[c], cur[c]) /\ ret' = ret /\ pc[c] = "append"
    BY Zenon, <1>2 DEF AppendStart, AppendBegin
  <2>2. /\ Len(tail') = Len(group[c])
        /\ \A i \in 1..Len(group[c]) : tail'[i] = [cmd |-> group[c][i], index |-> cur[c].index + i]
    <3>1. group[c] \in Seq(Call) /\ cur[c] \in Snapshot
      BY Zenon, <1>0 DEF Proc
    <3> QED
      BY Zenon, <2>1, <3>1, RecordsFacts
  <2>3. ASSUME NEW i \in 1..Len(tail') PROVE ret'[tail'[i].cmd].state \notin {"ok", "lost"}
    <3>1. tail'[i] = [cmd |-> group[c][i], index |-> cur[c].index + i] /\ group[c][i] \in Call
      BY SMTT(30), SMTT(60), <1>0, <2>2
    <3>2. group[c][i] = c \/ pc[group[c][i]] \in Sleeping
      BY Zenon, <2>1, <2>2 DEF LifeInv, Holding, CallCritical
    <3>3. ret[group[c][i]].state = "unset"
      BY Zenon, <2>1, <3>1, <3>2 DEF LifeInv, Sleeping
    <3>4. tail'[i].cmd = group[c][i]
      BY <3>1
    <3> QED
      BY Zenon, <2>1, <3>3, <3>4
  <2> QED
    BY Zenon, <2>3
<1>3. ASSUME ~Crash, tail' = tail
      PROVE  \A i \in 1..Len(tail') : ret'[tail'[i].cmd].state \notin {"ok", "lost"}
  <2>0. ASSUME NEW i \in 1..Len(tail) PROVE tail[i].cmd \in Call
    <3>1. tail[i] \in Entry
      BY <1>0
    <3> QED
      BY Zenon, <3>1 DEF Entry
  <2> SUFFICES ASSUME NEW d \in Call, NEW i \in 1..Len(tail), tail[i].cmd = d
               PROVE  ret'[d].state \notin {"ok", "lost"}
    BY Zenon, <1>3, <2>0
  <2>1. ret[d].state \notin {"ok", "lost"}
    BY Zenon DEF EffectInv
  <2>2. ticket[d].state \notin {"ok", "lost"}
    <3>1. ticket[d].state # "ok"
      BY OkIsLogged DEF AnswerInv, PlaceInv, Apart
    <3> QED
      BY Zenon, <1>0, <3>1 DEF Result
  <2> QED
    BY <1>3, <2>1, <2>2, AnswerSteps DEF Returned
<1> QED
  BY Zenon, <1>1, <1>2, <1>3, TailWriters DEF Crash, Reopen

\* Every step keeps the calls in the log promised and those in flight unanswered.
LEMMA NextEffect ==
  ASSUME TypeOK, TypeOK', ExclusionInv, CoreInv, PlaceInv, UnstartedInv', AnswerInv, LifeInv, LifeInv', EffectInv,
         [Next]_vars
  PROVE  EffectInv'
<1>1. ASSUME NEW i \in 1..Len(log') PROVE log'[i].cmd \in Call
  <2>1. log' \in Seq(Entry)
    BY Zenon DEF TypeOK, LogTypeOK
  <2>2. log'[i] \in Entry
    BY <2>1
  <2> QED
    BY Zenon, <2>2 DEF Entry
<1>2. \A i \in 1..Len(log') : \A d \in Call : log'[i].cmd = d /\ ret'[d].state = "unset" => Promised(d)'
  BY Zenon, NextPromised
<1> QED
  BY Zenon, <1>1, <1>2, NextInFlight, ZenonT(30), ZenonT(60) DEF EffectInv, Promised, Settling

\* What the refinement rests on.
RefinementInv ==
  TypeOK /\ ExclusionInv /\ CoreInv /\ PlaceInv /\ UnstartedInv /\ AnswerInv /\ LifeInv /\ EffectInv

\* It holds at every step.
LEMMA EffectCorrect == Spec => []RefinementInv
<1>1. Init => LifeInv /\ EffectInv
  BY DEF Init, LogInit, LifeInv, EffectInv, Unset, Proc, Holding, CallCritical
<1>2. TypeOK /\ ExclusionInv /\ PlaceInv /\ LifeInv /\ [Next]_vars => LifeInv'
  BY Zenon, NextLife
<1>3. (/\ TypeOK /\ TypeOK' /\ ExclusionInv /\ CoreInv /\ PlaceInv /\ UnstartedInv' /\ AnswerInv
       /\ LifeInv /\ LifeInv' /\ EffectInv /\ [Next]_vars) => EffectInv'
  BY Zenon, NextEffect
<1> QED
  BY <1>1, <1>2, <1>3, PlacesCorrect, AnswersCorrect, PTL DEF Spec, RefinementInv

-----------------------------------------------------------------------------
(* The steps of the store *)

Cmds(s) == [i \in 1..Len(s) |-> s[i].cmd]

\* The history that snapshot data e adds to that of d: distinct calls, each in
\* a state of S under the status s.
Grows(h, g, s, S) ==
  /\ Len(h) <= Len(g)
  /\ \A i \in 1..Len(h) : g[i] = h[i]
  /\ \A i \in Len(h)+1 .. Len(g) : s[g[i]] \in S /\ ~ \E j \in 1..Len(h) : h[j] = g[i]
  /\ \A i, j \in Len(h)+1 .. Len(g) : g[i] = g[j] => i = j

\* What the history of a snapshot is.
LEMMA CmdsFacts ==
  ASSUME NEW s \in Seq(Entry)
  PROVE  Len(Cmds(s)) = Len(s) /\ \A i \in 1..Len(s) : Cmds(s)[i] = s[i].cmd
  BY SMTT(30), SMTT(60) DEF Cmds

\* A snapshot that extends another without repetition extends its history.
LEMMA SnapshotExtends ==
  ASSUME NEW d \in Seq(Entry), NEW e \in Seq(Entry), Prefix(d, e), NoCommandTwice(e), NEW s, NEW S,
         \A i \in Len(d)+1 .. Len(e) : s[e[i].cmd] \in S
  PROVE  Grows(Cmds(d), Cmds(e), s, S)
<1> DEFINE h == Cmds(d)
           g == Cmds(e)
<1>1. /\ Len(h) = Len(d) /\ \A i \in 1..Len(d) : h[i] = d[i].cmd
      /\ Len(g) = Len(e) /\ \A i \in 1..Len(e) : g[i] = e[i].cmd
  BY Zenon, CmdsFacts
<1>2. Len(d) \in Nat /\ Len(e) \in Nat /\ Len(d) <= Len(e) /\ \A i \in 1..Len(d) : d[i] = e[i]
  BY DEF Prefix
<1>3. \A i \in 1..Len(d) : g[i] = h[i]
  BY <1>1, <1>2
<1>4. \A i, j \in 1..Len(e) : g[i] = g[j] => i = j
  BY Zenon, <1>1 DEF NoCommandTwice
<1> HIDE DEF h, g
<1>5. \A i \in Len(d)+1 .. Len(e) : s[g[i]] \in S
  BY <1>1, <1>2
<1>6. \A i \in Len(d)+1 .. Len(e) : ~ \E j \in 1..Len(d) : h[j] = g[i]
  BY <1>2, <1>3, <1>4
<1>7. \A i, j \in Len(d)+1 .. Len(e) : g[i] = g[j] => i = j
  BY <1>2, <1>4
<1> QED
  BY Zenon, <1>1, <1>2, <1>3, <1>5, <1>6, <1>7 DEF h, g, Grows

\* How the history of the model grows.
LEMMA ExtendMeans ==
  ASSUME NEW S
  PROVE  Store!Extend(S) <=> Grows(Cmds(snap.data), Cmds(snap'.data), [c \in Call |-> CallStatus(c)], S)
  BY Zenon DEF Store!Extend, Store!InEffect, Grows, Cmds

\* What the abstract state of a call says of the call.
LEMMA FateFacts ==
  ASSUME NEW c, NEW p, NEW r, NEW isPoisoned, NEW t
  PROVE  LET f == Fate(c, p, r, isPoisoned, t) IN
         /\ p = "idle" => f = "idle"
         /\ p # "idle" /\ r.state = "unset" => f = "active"
         /\ p # "idle" /\ r.state = "ok" => f = "ok"
         /\ p # "idle" /\ r.state = "lost" => f = "lost"
         /\ p # "idle" /\ r.state \notin {"unset", "ok", "lost"} =>
              /\ isPoisoned /\ (\E i \in 1..Len(t) : t[i].cmd = c) => f = "unknown"
              /\ ~(isPoisoned /\ \E i \in 1..Len(t) : t[i].cmd = c) => f = "failed"
  BY Zenon DEF Fate

\* Steps that answer nobody, start nobody and decide nobody's records.
LEMMA StatusFrame ==
  ASSUME UNCHANGED ret, \A c \in Call : pc'[c] = "idle" <=> pc[c] = "idle",
         \/ UNCHANGED <<tail, poisoned>>
         \/ ~poisoned /\ ~poisoned'
         \/ tail = <<>> /\ tail' = <<>>
         \/ tail' = tail /\ \A i \in 1..Len(tail) : ret[tail[i].cmd].state = "unset",
         NEW c \in Call
  PROVE  CallStatus(c)' = CallStatus(c)
  BY DEF CallStatus, Fate

\* Steps that leave every call's status and the snapshot alone are no steps of
\* the store.
LEMMA StutterStep ==
  ASSUME snap' = snap, \A c \in Call : CallStatus(c)' = CallStatus(c)
  PROVE  UNCHANGED Store!storeVars
  BY Zenon DEF Store!storeVars

\* A step that changes the status of one call.
LEMMA StatusExcept ==
  ASSUME NEW c \in Call, \A d \in Call \ {c} : CallStatus(d)' = CallStatus(d)
  PROVE  [d \in Call |-> CallStatus(d)]' = [[d \in Call |-> CallStatus(d)] EXCEPT ![c] = CallStatus(c)']
<1> DEFINE st == [d \in Call |-> CallStatus(d)]
<1>1. \A d \in Call : st'[d] = IF d = c THEN CallStatus(c)' ELSE st[d]
  BY Zenon
<1>2. st' = [d \in Call |-> CallStatus(d)'] /\ st = [d \in Call |-> CallStatus(d)]
  BY Zenon
<1> QED
  BY Zenon, <1>1, <1>2

InSnapshot(c) == \E i \in 1..Len(snap.data) : snap.data[i].cmd = c

\* Being in effect is being in the published snapshot.
LEMMA InEffectMeans ==
  ASSUME TypeOK, NEW c
  PROVE  Store!InEffect(c) <=> InSnapshot(c)
<1>1. Store!InEffect(c) <=> \E i \in 1..Len(Cmds(snap.data)) : Cmds(snap.data)[i] = c
  BY Zenon DEF Store!InEffect, Cmds
<1>2. snap.data \in Seq(Entry)
  BY Zenon DEF TypeOK, Snapshot
<1>3. Len(Cmds(snap.data)) = Len(snap.data) /\ \A i \in 1..Len(snap.data) : Cmds(snap.data)[i] = snap.data[i].cmd
  BY Zenon, <1>2, CmdsFacts
<1> QED
  BY Zenon, <1>1, <1>3 DEF InSnapshot

\* A call that starts.
LEMMA BeginStep ==
  ASSUME NEW c \in Call, snap' = snap, CallStatus(c) = "idle", CallStatus(c)' = "active",
         \A d \in Call \ {c} : CallStatus(d)' = CallStatus(d)
  PROVE  Store!Begin
<1>1. [d \in Call |-> CallStatus(d)]' = [[d \in Call |-> CallStatus(d)] EXCEPT ![c] = CallStatus(c)']
  BY Zenon, StatusExcept
<1>2. [d \in Call |-> CallStatus(d)][c] = "idle"
  BY Zenon
<1>3. [i \in 1..Len(snap.data) |-> snap.data[i].cmd]' = [i \in 1..Len(snap.data) |-> snap.data[i].cmd]
  BY Zenon
<1> QED
  BY Zenon, <1>1, <1>2, <1>3 DEF Store!Begin

\* A call that returns Ok in effect, or anything else without effect.
LEMMA ReturnStep ==
  ASSUME TypeOK, LifeInv, NEW c \in Call, UNCHANGED <<snap, tail, poisoned>>,
         pc[c] # "done", pc'[c] = "done",
         \A d \in Call \ {c} : ret'[d] = ret[d] /\ (pc'[d] = "idle" <=> pc[d] = "idle"),
         \/ ret'[c].state = "ok" /\ InSnapshot(c)
         \/ ret'[c].state \in {"err", "invalid", "panic"} /\ ~InSnapshot(c)
  PROVE  Store!Return
<1>1. CallStatus(c) \in {"idle", "active"}
  <2>1. ret[c].state = "unset"
    BY Zenon DEF LifeInv
  <2> QED
    BY SMTT(30), SMTT(60), <2>1, FateFacts DEF CallStatus
<1>2. \/ CallStatus(c)' = "ok" /\ InSnapshot(c)
      \/ CallStatus(c)' \in {"failed", "unknown"} /\ ~InSnapshot(c)
  BY Zenon DEF CallStatus, Fate
<1>3. \A d \in Call \ {c} : CallStatus(d)' = CallStatus(d)
  BY Zenon DEF CallStatus, Fate
<1>4. [d \in Call |-> CallStatus(d)]' = [[d \in Call |-> CallStatus(d)] EXCEPT ![c] = CallStatus(c)']
  BY Zenon, <1>3, StatusExcept
<1>5. [d \in Call |-> CallStatus(d)][c] \in {"idle", "active"}
  BY Zenon, <1>1
<1>6. Store!InEffect(c) <=> InSnapshot(c)
  BY Zenon, InEffectMeans
<1>7. [i \in 1..Len(snap.data) |-> snap.data[i].cmd]' = [i \in 1..Len(snap.data) |-> snap.data[i].cmd]
  BY Zenon
<1>8. CASE CallStatus(c)' = "ok" /\ InSnapshot(c)
  BY Zenon, <1>4, <1>5, <1>6, <1>7, <1>8 DEF Store!Return
<1>9. CASE CallStatus(c)' \in {"failed", "unknown"} /\ ~InSnapshot(c)
  BY <1>4, <1>5, <1>6, <1>7, <1>9, ZenonT(30), ZenonT(60) DEF Store!Return
<1> QED
  BY Zenon, <1>2, <1>8, <1>9

\* A call that is in the snapshot and has not returned was promised Ok.
LEMMA InSnapshotIsPromised ==
  ASSUME TypeOK, CoreInv, EffectInv, NEW c \in Call, InSnapshot(c), ret[c].state = "unset"
  PROVE  Promised(c)
<1>1. PICK i \in 1..Len(snap.data) : snap.data[i].cmd = c
  BY Zenon DEF InSnapshot
<1>2. Len(snap.data) \in Nat /\ Len(log) \in Nat
  BY DEF TypeOK, LogTypeOK, Snapshot
<1>3. i \in 1..Len(log) /\ log[i].cmd = c
  BY SMTT(30), SMTT(60), <1>1, <1>2, VisibleIsPrefix DEF DurableBeforeVisible, Prefix
<1> QED
  BY Zenon, <1>3 DEF EffectInv

\* The steps in which a call returns.
LEMMA ReturnSteps ==
  ASSUME RefinementInv, NEW c \in Call, Refuse(c) \/ TakeTicket(c) \/ Panic(c) \/ Release(c)
  PROVE  Store!Return
<1> USE DEF RefinementInv
<1>0. /\ pc \in [Proc -> CallPC \cup CkptPC] /\ ret \in [Call -> Outcome] /\ ticket \in [Call -> Result] /\ c \in Proc
  BY Zenon DEF TypeOK, PcTypeOK, Proc
<1>1. UNCHANGED <<snap, tail, poisoned>> /\ pc[c] # "done" /\ (Goto(c, "done") \/ GotoNotifying(c, "done"))
  BY Zenon DEF Refuse, TakeTicket, Panic, Release, logVars, stateVars
<1>2. pc'[c] = "done" /\ \A d \in Call \ {c} : pc'[d] = "idle" <=> pc[d] = "idle"
  BY Zenon, <1>0, <1>1 DEF Goto, GotoNotifying, Proc
<1>3. /\ \/ ret' = [ret EXCEPT ![c] = Returned("invalid")] /\ pc[c] = "idle"
         \/ ret' = [ret EXCEPT ![c] = Returned("panic")] /\ pc[c] \in {"prepare", "append"}
         \/ ret' = [ret EXCEPT ![c] = Returned("panic")] /\ pc[c] = "release" /\ ticket[c] = Unset
         \/ ret' = [ret EXCEPT ![c] = ticket[c]] /\ pc[c] \in {"woken", "release"} /\ ticket[c] # Unset
  BY Zenon DEF Refuse, TakeTicket, Panic, Release
<1>4. \A d \in Call \ {c} : ret'[d] = ret[d]
  BY Zenon, <1>0, <1>3
<1>5. ret[c].state = "unset"
  BY Zenon, <1>1 DEF LifeInv
<1>6. pc[c] = "idle" => ~InSnapshot(c)
  <2> SUFFICES ASSUME pc[c] = "idle", InSnapshot(c) PROVE FALSE
    BY Zenon
  <2>1. PICK i \in 1..Len(snap.data) : snap.data[i].cmd = c
    BY Zenon DEF InSnapshot
  <2>2. Len(snap.data) \in Nat /\ Len(log) \in Nat
    BY SMTT(30), SMTT(60) DEF TypeOK, LogTypeOK, Snapshot
  <2>3. i \in 1..Len(log) /\ log[i].cmd = c
    BY SMTT(30), SMTT(60), <2>1, <2>2, VisibleIsPrefix DEF DurableBeforeVisible, Prefix
  <2> QED
    BY Zenon, <2>3 DEF UnstartedInv
<1>7. InSnapshot(c) => Promised(c)
  BY Zenon, <1>5, InSnapshotIsPromised
<1>8. pc[c] \in {"prepare", "append", "release"} => ~Settling(c)
  BY Zenon DEF Settling, Appended, ExclusionInv, FlushExclusive, Critical, CallCritical, Proc
<1>9. ticket[c] # Unset => ~Settling(c)
  BY SMTT(30), SMTT(60) DEF Settling, Appended, LifeInv, Holding, CallCritical
<1>10. ticket[c].state = "ok" => InSnapshot(c)
  <2> SUFFICES ASSUME ticket[c].state = "ok" PROVE InSnapshot(c)
    BY Zenon
  <2>1. Placed(snap.data, index, c, ticket[c].index)
    BY Zenon DEF AnswerInv
  <2>2. snap.data[ticket[c].index] = [cmd |-> c, index |-> ticket[c].index]
        /\ ticket[c].index \in 1..Len(snap.data)
    BY Zenon, <2>1 DEF Placed
  <2>3. snap.data[ticket[c].index].cmd = c
    BY SMTT(30), SMTT(60), <2>2
  <2> QED
    BY Zenon, <2>2, <2>3 DEF InSnapshot
<1>11. CASE ret' = [ret EXCEPT ![c] = Returned("invalid")] /\ pc[c] = "idle"
  <2>1. ret'[c].state = "invalid"
    BY Zenon, <1>0, <1>11 DEF Returned
  <2> QED
    BY Zenon, <1>1, <1>2, <1>4, <1>6, <1>11, <2>1, ReturnStep
<1>12. CASE /\ ret' = [ret EXCEPT ![c] = Returned("panic")]
            /\ pc[c] \in {"prepare", "append"} \/ (pc[c] = "release" /\ ticket[c] = Unset)
  <2>1. ret'[c].state = "panic"
    BY Zenon, <1>0, <1>12 DEF Returned
  <2>2. ticket[c] = Unset
    BY Zenon, <1>12 DEF LifeInv, Holding, CallCritical
  <2>3. ~InSnapshot(c)
    <3>1. ticket[c].state # "ok"
      BY SMTT(30), SMTT(60), <2>2 DEF Unset
    <3>2. ~Settling(c)
      BY Zenon, <1>8, <1>12
    <3> QED
      BY Zenon, <1>7, <3>1, <3>2 DEF Promised
  <2> QED
    BY Zenon, <1>1, <1>2, <1>4, <2>1, <2>3, ReturnStep
<1>13. CASE ret' = [ret EXCEPT ![c] = ticket[c]] /\ ticket[c] # Unset
  <2>1. ret'[c] = ticket[c]
    BY Zenon, <1>0, <1>13
  <2>2. ticket[c].state \in {"ok", "err"}
    <3>1. ticket[c].state # "unset"
      BY Zenon, <1>13 DEF LifeInv
    <3> QED
      BY Zenon, <1>0, <3>1 DEF Result
  <2>3. ticket[c].state = "err" => ~InSnapshot(c)
    BY Zenon, <1>7, <1>9, <1>13 DEF Promised
  <2> QED
    BY SMTT(30), SMTT(60), <1>1, <1>2, <1>4, <1>10, <2>1, <2>2, <2>3, ReturnStep
<1> QED
  BY Zenon, <1>3, <1>11, <1>12, <1>13

\* The members of the group of a flusher at work are active.
LEMMA MembersActive ==
  ASSUME RefinementInv, NEW c \in Call, pc[c] \in Holding, NEW i \in 1..Len(group[c])
  PROVE  group[c][i] \in Call /\ ret[group[c][i]].state = "unset" /\ CallStatus(group[c][i]) = "active"
<1>1. group[c][i] \in Call
  BY SMTT(30), SMTT(60) DEF RefinementInv, TypeOK
<1>2. pc[group[c][i]] \notin {"idle", "done"}
  BY Zenon DEF RefinementInv, LifeInv, Holding, CallCritical, Sleeping
<1>3. ret[group[c][i]].state = "unset"
  BY Zenon, <1>1, <1>2 DEF RefinementInv, LifeInv
<1> QED
  BY SMTT(30), SMTT(60), <1>1, <1>2, <1>3, FateFacts DEF CallStatus

\* A position behind the first n of n + m entries.
LEMMA Offset ==
  ASSUME NEW n \in Nat, NEW m \in Nat, NEW i \in n+1 .. n+m
  PROVE  \E j \in 1..m : i = n + j
<1>1. i - n \in 1..m /\ i = n + (i - n)
  OBVIOUS
<1> QED
  BY Zenon, <1>1

\* The log is ahead of the snapshot by active calls only.
LEMMA AheadActive ==
  ASSUME RefinementInv, NEW i \in Len(snap.data)+1 .. Len(log)
  PROVE  CallStatus(log[i].cmd) = "active"
<1>0. /\ log \in Seq(Entry) /\ snap \in Snapshot /\ snap.data \in Seq(Entry)
      /\ group \in [Call -> Seq(Call)]
  BY Zenon DEF RefinementInv, TypeOK, LogTypeOK, Snapshot
<1>1. Len(snap.data) \in Nat /\ Len(log) \in Nat /\ i \in Nat
  BY <1>0
<1>2. log # snap.data
  BY <1>1
<1>3. PICK c \in Call : pc[c] = "publish" /\ log = snap.data \o Records(group[c], snap)
  BY Zenon, <1>2, ZenonT(30), ZenonT(60) DEF RefinementInv, CoreInv
<1>4. /\ group[c] \in Seq(Call) /\ Records(group[c], snap) \in Seq(Entry)
      /\ Len(Records(group[c], snap)) = Len(group[c])
      /\ \A j \in 1..Len(group[c]) : Records(group[c], snap)[j] = [cmd |-> group[c][j], index |-> snap.index + j]
  BY Zenon, <1>0, RecordsFacts
<1> DEFINE r == Records(group[c], snap)
<1>a. r \in Seq(Entry) /\ log = snap.data \o r
  BY Zenon, <1>3, <1>4
<1> HIDE DEF r
<1>5. /\ Len(log) = Len(snap.data) + Len(r)
      /\ \A j \in 1..Len(r) : log[Len(snap.data) + j] = r[j]
  <2>1. r \in Seq(Entry)
    BY Zenon, <1>a
  <2>2. /\ Len(snap.data \o r) = Len(snap.data) + Len(r)
        /\ \A j \in 1..Len(r) : (snap.data \o r)[Len(snap.data) + j] = r[j]
    BY SMTT(30), SMTT(60), <1>0, <2>1, ConcatFacts
  <2> QED
    BY Zenon, <1>a, <2>2
<1>6. Len(r) = Len(group[c]) /\ \A j \in 1..Len(group[c]) : r[j] = [cmd |-> group[c][j], index |-> snap.index + j]
  BY Zenon, <1>4 DEF r
<1>7. PICK j \in 1..Len(group[c]) : log[i] = [cmd |-> group[c][j], index |-> snap.index + j]
  <2>1. Len(group[c]) \in Nat
    BY SMTT(30), SMTT(60), <1>4
  <2>a. Len(log) = Len(snap.data) + Len(group[c])
    BY Zenon, <1>5, <1>6
  <2>2. i \in Len(snap.data) + 1 .. Len(snap.data) + Len(group[c])
    BY Zenon, <2>a
  <2>3. PICK j \in 1..Len(group[c]) : i = Len(snap.data) + j
    BY Zenon, <1>1, <2>1, <2>2, Offset
  <2>4. log[i] = r[j]
    BY Zenon, <1>5, <1>6, <2>3
  <2> QED
    BY Zenon, <1>6, <2>4
<1>8. log[i].cmd = group[c][j]
  BY <1>7
<1>9. pc[c] \in Holding
  BY Zenon, <1>3 DEF Holding, CallCritical
<1> QED
  BY SMTT(30), SMTT(60), <1>8, <1>9, MembersActive

\* A call with records in flight is active, or its outcome is unknown.
LEMMA InFlightStatus ==
  ASSUME RefinementInv, NEW i \in 1..Len(tail)
  PROVE  CallStatus(tail[i].cmd) \in {"active", "unknown"}
<1>0. tail[i].cmd \in Call
  <2>1. tail[i] \in Entry
    BY SMTT(30), SMTT(60) DEF RefinementInv, TypeOK, LogTypeOK
  <2> QED
    BY Zenon, <2>1 DEF Entry
<1>1. pc[tail[i].cmd] # "idle" /\ ret[tail[i].cmd].state \notin {"ok", "lost"}
  BY Zenon, <1>0 DEF RefinementInv, UnstartedInv, EffectInv
<1>2. CASE poisoned
  BY Zenon, <1>1, <1>2 DEF CallStatus, Fate
<1>3. CASE ~poisoned
  <2>1. tail # <<>>
    BY SMTT(30), SMTT(60) DEF RefinementInv, TypeOK, LogTypeOK
  <2>2. PICK c \in Call : pc[c] = "sync"
    BY Zenon, <1>3, <2>1 DEF RefinementInv, CoreInv
  <2>3. PICK j \in 1..Len(group[c]) : tail[i].cmd = group[c][j]
    BY Zenon, <2>2, TailNames DEF RefinementInv
  <2>4. pc[c] \in Holding
    BY Zenon, <2>2 DEF Holding, CallCritical
  <2> QED
    BY Zenon, <2>3, <2>4, MembersActive
<1> QED
  BY Zenon, <1>2, <1>3

\* A step that publishes the log.
LEMMA ExtendStep ==
  ASSUME RefinementInv, RefinementInv', [Next]_vars, snap'.data = log', NEW S,
         \A i \in Len(snap.data)+1 .. Len(log') : CallStatus(log'[i].cmd) \in S
  PROVE  Store!Extend(S)
<1>1. snap.data \in Seq(Entry) /\ snap'.data \in Seq(Entry) /\ log' \in Seq(Entry)
  BY Zenon DEF RefinementInv, TypeOK, LogTypeOK, Snapshot
<1>2. Prefix(snap.data, snap'.data)
  BY Zenon, SnapshotGrows DEF RefinementInv
<1>3. NoCommandTwice(snap'.data)
  BY Zenon DEF RefinementInv, PlaceInv, NoCommandTwice
<1> DEFINE s == [c \in Call |-> CallStatus(c)]
<1>4. \A i \in Len(snap.data)+1 .. Len(snap'.data) : s[snap'.data[i].cmd] \in S
  <2> SUFFICES ASSUME NEW i \in Len(snap.data)+1 .. Len(snap'.data) PROVE s[snap'.data[i].cmd] \in S
    BY Zenon
  <2>1. i \in 1..Len(log')
    BY <1>1
  <2>2. log'[i] \in Entry
    BY <1>1, <2>1
  <2>3. snap'.data[i].cmd \in Call
    BY Zenon, <2>2 DEF Entry
  <2>4. s[snap'.data[i].cmd] = CallStatus(snap'.data[i].cmd)
    BY Zenon, <2>3, ZenonT(30), ZenonT(60)
  <2> QED
    BY Zenon, <2>4
<1> HIDE DEF s
<1>5. Grows(Cmds(snap.data), Cmds(snap'.data), s, S)
  BY Zenon, <1>1, <1>2, <1>3, <1>4, SnapshotExtends
<1> QED
  BY Zenon, <1>5, ExtendMeans DEF s

\* The store of the new snapshot is where a group takes effect.
LEMMA PublishRefines ==
  ASSUME RefinementInv, RefinementInv', NEW c \in Call, Publish(c), [Next]_vars
  PROVE  Store!TakeEffect
<1>1. pc[c] = "publish" /\ Goto(c, "mirror") /\ UNCHANGED <<ret, log, tail, poisoned>>
  BY Zenon DEF Publish, logVars
<1>2. snap'.data = log'
  <2>1. cur[c] = snap /\ log = snap.data \o Records(group[c], snap)
    BY Zenon, <1>1 DEF RefinementInv, CoreInv
  <2>2. snap' = [index |-> cur[c].index + Len(group[c]), data |-> cur[c].data \o Records(group[c], cur[c])]
    BY Zenon DEF Publish
  <2>3. snap'.data = cur[c].data \o Records(group[c], cur[c])
    BY Zenon, <2>2
  <2> QED
    BY Zenon, <1>1, <2>1, <2>3
<1>3. \A i \in Len(snap.data)+1 .. Len(log') : CallStatus(log'[i].cmd) \in {"active"}
  BY Zenon, <1>1, AheadActive
<1>4. Store!Extend({"active"})
  BY Zenon, <1>2, <1>3, ExtendStep
<1>5. \A d \in Call : CallStatus(d)' = CallStatus(d)
  <2>1. \A d \in Call : pc'[d] = "idle" <=> pc[d] = "idle"
    BY Zenon, <1>1 DEF Goto, Proc, RefinementInv, TypeOK, PcTypeOK
  <2> QED
    BY Zenon, <1>1, <2>1, StatusFrame
<1>6. [d \in Call |-> CallStatus(d)]' = [d \in Call |-> CallStatus(d)]
  BY Zenon, <1>5
<1> QED
  BY Zenon, <1>4, <1>6 DEF Store!TakeEffect

\* What a crash makes of a call.
LEMMA CrashedStatus ==
  ASSUME RefinementInv, Crash, NEW c \in Call
  PROVE  CallStatus(c)' = CASE CallStatus(c) = "active" -> "lost"
                            [] CallStatus(c) = "unknown" -> "failed"
                            [] OTHER -> CallStatus(c)
<1>1. /\ pc'[c] = IF pc[c] = "idle" THEN "idle" ELSE "done"
      /\ ret'[c] = IF pc[c] \in {"idle", "done"} THEN ret[c] ELSE Returned("lost")
      /\ poisoned' = FALSE
  BY Zenon DEF Crash, Reopen, Proc
<1>2. pc[c] = "done" <=> ret[c].state # "unset"
  BY Zenon DEF RefinementInv, LifeInv
<1>3. CASE pc[c] = "idle"
  BY Zenon, <1>1, <1>3 DEF CallStatus, Fate
<1>4. CASE pc[c] = "done"
  BY Zenon, <1>1, <1>2, <1>4 DEF CallStatus, Fate
<1>5. CASE pc[c] \notin {"idle", "done"}
  BY <1>1, <1>2, <1>5 DEF CallStatus, Fate, Returned
<1> QED
  BY Zenon, <1>3, <1>4, <1>5

\* A crash and the recovery after it.
LEMMA CrashRefines ==
  ASSUME RefinementInv, RefinementInv', Crash, [Next]_vars
  PROVE  Store!CrashAndReopen
<1>0. log \in Seq(Entry) /\ tail \in Seq(Entry) /\ snap.data \in Seq(Entry)
  BY Zenon DEF RefinementInv, TypeOK, LogTypeOK, Snapshot
<1>1. snap'.data = log'
  BY Zenon DEF Crash
<1>2. ASSUME NEW i \in Len(snap.data)+1 .. Len(log') PROVE CallStatus(log'[i].cmd) \in {"active", "unknown"}
  <2>1. PICK n \in 0..Len(tail) : log' = log \o SubSeq(tail, 1, n)
    BY Zenon DEF Crash, Reopen
  <2> DEFINE u == SubSeq(tail, 1, n)
  <2>2. u \in Seq(Entry) /\ Len(u) = n /\ \A j \in 1..n : u[j] = tail[j]
    BY Zenon, <1>0, TakeFacts
  <2>3. log' = log \o u
    BY Zenon, <2>1
  <2> HIDE DEF u
  <2>4. /\ Len(log \o u) = Len(log) + Len(u)
        /\ \A j \in 1..Len(log) : (log \o u)[j] = log[j]
        /\ \A j \in 1..Len(u) : (log \o u)[Len(log) + j] = u[j]
    <3>1. log \in Seq(Entry) /\ u \in Seq(Entry)
      BY Zenon, <1>0, <2>2
    <3> QED
      BY <3>1, ConcatFacts
  <2>5. /\ Len(log') = Len(log) + n
        /\ \A j \in 1..Len(log) : log'[j] = log[j]
        /\ \A j \in 1..n : log'[Len(log) + j] = tail[j]
    BY Zenon, <2>2, <2>3, <2>4
  <2>6. Len(log) \in Nat /\ Len(snap.data) \in Nat /\ n \in Nat /\ i \in Nat /\ Len(tail) \in Nat
    BY <1>0
  <2>7. CASE i <= Len(log)
    <3>1. i \in Len(snap.data)+1 .. Len(log) /\ i \in 1..Len(log)
      BY <2>6, <2>7
    <3>2. log'[i] = log[i]
      BY Zenon, <2>5, <3>1
    <3> QED
      BY Zenon, <3>1, <3>2, AheadActive
  <2>8. CASE ~(i <= Len(log))
    <3>1. i \in Len(log)+1 .. Len(log) + n
      BY <2>5, <2>6, <2>8
    <3>2. PICK j \in 1..n : i = Len(log) + j
      BY Zenon, <2>6, <3>1, Offset
    <3>3. log'[i] = tail[j] /\ j \in 1..Len(tail)
      BY SMTT(30), SMTT(60), <2>5, <2>6, <3>2
    <3> QED
      BY Zenon, <3>3, InFlightStatus
  <2> QED
    BY Zenon, <2>7, <2>8
<1>3. Store!Extend({"active", "unknown"})
  BY Zenon, <1>1, <1>2, ExtendStep
<1> DEFINE st == [c \in Call |-> CallStatus(c)]
<1>4. \A c \in Call : CallStatus(c)' = CASE st[c] = "active" -> "lost"
                                         [] st[c] = "unknown" -> "failed"
                                         [] OTHER -> st[c]
  BY Zenon, CrashedStatus
<1>5. st' = [c \in Call |-> CASE st[c] = "active" -> "lost" [] st[c] = "unknown" -> "failed" [] OTHER -> st[c]]
  BY Zenon, <1>4
<1> QED
  BY Zenon, <1>3, <1>5, ZenonT(30), ZenonT(60) DEF Store!CrashAndReopen

\* The remaining steps of a call change neither the snapshot nor any status.
LEMMA WorkRefines ==
  ASSUME RefinementInv, NEW c \in Call, CallStep(c), ~Submit(c), ~Publish(c),
         ~(Refuse(c) \/ TakeTicket(c) \/ Panic(c) \/ Release(c))
  PROVE  UNCHANGED Store!storeVars
<1>0. pc \in [Proc -> CallPC \cup CkptPC] /\ c \in Proc
  BY Zenon DEF RefinementInv, TypeOK, PcTypeOK, Proc
<1>1. UNCHANGED <<snap, ret>>
  BY Zenon DEF CallStep, Compete, Prepare, AppendStart, AppendRefused, AppendNothing, AppendDone, AppendFailed,
     Mirror, Settle, stateVars
<1>2. pc[c] # "idle" /\ \E w \in CallPC \ {"idle"} : Goto(c, w)
  BY Zenon DEF CallStep, Compete, FlushOrWait, Prepare, AppendStart, AppendRefused, AppendNothing, AppendDone, AppendFailed,
     Mirror, Settle, CallPC, CallCritical
<1>3. \A d \in Call : pc'[d] = "idle" <=> pc[d] = "idle"
  BY Zenon, <1>0, <1>2 DEF Goto, Proc
<1>4. \/ UNCHANGED <<tail, poisoned>>
      \/ ~poisoned /\ ~poisoned'
      \/ tail = <<>> /\ tail' = <<>>
      \/ pc[c] = "sync" /\ tail' = tail
  BY Zenon DEF CallStep, Compete, Prepare, AppendStart, AppendBegin, AppendRefused, RotateFailed, AppendNothing,
     AppendDone, AppendOk, AppendFailed, AppendRolledBack, AppendPoisoned, Mirror, Settle, logVars
<1>5. pc[c] = "sync" => \A i \in 1..Len(tail) : ret[tail[i].cmd].state = "unset"
  <2> SUFFICES ASSUME pc[c] = "sync", NEW i \in 1..Len(tail) PROVE ret[tail[i].cmd].state = "unset"
    BY Zenon
  <2>1. PICK j \in 1..Len(group[c]) : tail[i].cmd = group[c][j]
    BY Zenon, TailNames DEF RefinementInv
  <2> QED
    BY Zenon, <2>1, MembersActive DEF Holding, CallCritical
<1>6. \A d \in Call : CallStatus(d)' = CallStatus(d)
  BY Zenon, <1>1, <1>3, <1>4, <1>5, StatusFrame
<1> QED
  BY Zenon, <1>1, <1>6, StutterStep

\* Nor do a checkpoint and a spurious wake-up.
LEMMA OthersRefine ==
  ASSUME RefinementInv, (\E k \in Ckpt : CkptStep(k)) \/ (\E p \in Proc : SpuriousWake(p)) \/ UNCHANGED vars
  PROVE  UNCHANGED Store!storeVars
<1>0. pc \in [Proc -> CallPC \cup CkptPC]
  BY Zenon DEF RefinementInv, TypeOK, PcTypeOK
<1>1. ASSUME NEW k \in Ckpt, CkptStep(k)
      PROVE  /\ UNCHANGED <<snap, ret>>
             /\ \/ UNCHANGED <<tail, poisoned>>
                \/ ~poisoned /\ ~poisoned'
                \/ tail = <<>> /\ tail' = <<>>
             /\ \A d \in Call : pc'[d] = "idle" <=> pc[d] = "idle"
  <2>1. UNCHANGED <<snap, ret>>
    BY Zenon, <1>1, ZenonT(30), ZenonT(60) DEF CkptStep, LockCkpt, Enter, Pin, Rotate, RotateError, ReleaseExclusive, FinishCkpt, stateVars
  <2>2. \/ UNCHANGED <<tail, poisoned>>
        \/ ~poisoned /\ ~poisoned'
        \/ tail = <<>> /\ tail' = <<>>
    BY Zenon, <1>1, ZenonT(30), ZenonT(60) DEF CkptStep, LockCkpt, Enter, Pin, Rotate, RotateOk, RotateError, RotateFailed,
       ReleaseExclusive, FinishCkpt, logVars
  <2>3. \A d \in Call : pc'[d] = "idle" <=> pc[d] = "idle"
    BY Zenon, <1>0, <1>1 DEF CkptStep, LockCkpt, Enter, Pin, Rotate, RotateError, ReleaseExclusive, FinishCkpt,
       Goto, GotoNotifying, Proc
  <2> QED
    BY Zenon, <2>1, <2>2, <2>3
<1>2. ASSUME NEW p \in Proc, SpuriousWake(p)
      PROVE  UNCHANGED <<snap, ret, tail, poisoned>> /\ \A d \in Call : pc'[d] = "idle" <=> pc[d] = "idle"
  BY Zenon, <1>0, <1>2 DEF SpuriousWake, Goto, Proc, logVars, stateVars
<1>3. ASSUME UNCHANGED vars PROVE UNCHANGED <<snap, ret, tail, poisoned, pc>>
  BY Zenon, <1>3 DEF vars, logVars, stateVars, procVars
<1>4. \A d \in Call : CallStatus(d)' = CallStatus(d)
  BY Zenon, <1>1, <1>2, <1>3, StatusFrame
<1> QED
  BY Zenon, <1>1, <1>2, <1>3, <1>4, StutterStep

\* A call that joins the queue starts.
LEMMA SubmitRefines ==
  ASSUME RefinementInv, NEW c \in Call, Submit(c)
  PROVE  Store!Begin
<1>0. pc \in [Proc -> CallPC \cup CkptPC] /\ c \in Proc
  BY Zenon DEF RefinementInv, TypeOK, PcTypeOK, Proc
<1>1. pc[c] = "idle" /\ (Goto(c, "prepare") \/ Goto(c, "waiting")) /\ UNCHANGED <<snap, ret, tail, poisoned>>
  BY Zenon DEF Submit, FlushOrWait, logVars, stateVars
<1>2. pc'[c] # "idle" /\ \A d \in Call \ {c} : pc'[d] = pc[d]
  BY Zenon, <1>0, <1>1 DEF Goto, Proc
<1>3. ret[c].state = "unset"
  BY Zenon, <1>1 DEF RefinementInv, LifeInv
<1>4. CallStatus(c) = "idle" /\ CallStatus(c)' = "active"
  BY Zenon, <1>1, <1>2, <1>3 DEF CallStatus, Fate
<1>5. \A d \in Call \ {c} : CallStatus(d)' = CallStatus(d)
  BY Zenon, <1>1, <1>2 DEF CallStatus, Fate
<1> QED
  BY Zenon, <1>1, <1>4, <1>5, BeginStep

\* Every step of the commit path is a step of the store, or none.
LEMMA StepRefines ==
  ASSUME RefinementInv, RefinementInv', [Next]_vars
  PROVE  [Store!StoreNext]_(Store!storeVars)
<1>1. ASSUME NEW c \in Call, CallStep(c) PROVE Store!StoreNext \/ UNCHANGED Store!storeVars
  <2>1. CASE Submit(c)
    BY Zenon, <2>1, SubmitRefines DEF Store!StoreNext
  <2>2. CASE Publish(c)
    BY Zenon, <2>2, PublishRefines DEF Store!StoreNext
  <2>3. CASE Refuse(c) \/ TakeTicket(c) \/ Panic(c) \/ Release(c)
    BY Zenon, <2>3, ReturnSteps DEF Store!StoreNext
  <2> QED
    BY Zenon, <1>1, <2>1, <2>2, <2>3, WorkRefines
<1>2. CASE Crash
  BY Zenon, <1>2, CrashRefines DEF Store!StoreNext
<1> QED
  BY Zenon, <1>1, <1>2, OthersRefine DEF Next

\* The commit path implements the store's promise to its callers, for any calls,
\* checkpoints, failed appends, panics and crashes: commits take effect in one
\* order between their call and their return, an acknowledged commit is never
\* undone, and a failed one never takes effect unless its outcome was unknown.
THEOREM Refinement == Spec => ImplementsDurableStore
<1>1. Init => Store!StoreInit
  <2> SUFFICES ASSUME Init PROVE Store!StoreInit
    BY Zenon
  <2>1. snap.data = <<>> /\ \A c \in Call : pc[c] = "idle"
    BY Zenon DEF Init, EmptySnapshot, Proc
  <2>2. [i \in 1..Len(snap.data) |-> snap.data[i].cmd] = <<>>
    BY <2>1
  <2>3. [c \in Call |-> CallStatus(c)] = [c \in Call |-> "idle"]
    BY Zenon, <2>1 DEF CallStatus, Fate
  <2> QED
    BY Zenon, <2>2, <2>3 DEF Store!StoreInit
<1>2. RefinementInv /\ RefinementInv' /\ [Next]_vars => [Store!StoreNext]_(Store!storeVars)
  BY Zenon, StepRefines
<1> QED
  BY <1>1, <1>2, EffectCorrect, PTL DEF Spec, ImplementsDurableStore, Store!StoreSpec

=============================================================================
