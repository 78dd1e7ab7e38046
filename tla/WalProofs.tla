------------------------------ MODULE WalProofs ------------------------------
(***************************************************************************)
(* Proofs about Wal, for every number of segments, records and crashes: an *)
(* append always starts on a clean boundary of the newest segment, no      *)
(* crash makes recovery refuse the log, and the file-level log implements  *)
(* DurableLog.                                                             *)
(***************************************************************************)
EXTENDS WalOpenProofs

\* The prover of every leaf that names no other.
USE Zenon

-----------------------------------------------------------------------------
(* Steps that change the current segment or the log *)

\* A write that stops part way leaves a part of the group.
LEMMA PartialFacts ==
  ASSUME NEW S \in SUBSET Block, Bad \notin S, NEW b \in Seq(S), NEW part \in Partial(b)
  PROVE  /\ part \in Seq(Block) /\ Len(part) <= Len(b)
         /\ \A i \in 1..Len(part) : part[i] \in S \cup {Bad}
         /\ Pre(Whole(part), b)
<1>1. b \in Seq(Block) /\ \A i \in 1..Len(b) : b[i] \in S
  BY SMT
<1>2. PICK n \in 0..Len(b) : part = SubSeq(b, 1, n) \/ (part = Append(SubSeq(b, 1, n), Bad) /\ SubSeq(b, 1, n) # b)
  BY DEF Partial, Prefixes
<1>3. PICK p : p = SubSeq(b, 1, n)
  OBVIOUS
<1>4. /\ p \in Seq(Block) /\ Len(p) = n /\ n \in Nat /\ n <= Len(b) /\ (n = Len(b) => p = b)
      /\ \A i \in 1..n : p[i] = b[i] /\ p[i] \in S
  BY SMT, <1>1, <1>2, <1>3
<1>5. \A i \in 1..n : p[i] # Bad
  BY <1>4
<1>6. Whole(p) = p /\ Pre(p, b)
  BY <1>4, <1>5, CleanWhole DEF Pre
<1>7. CASE part = p
  BY <1>4, <1>6, <1>7
<1>8. CASE part = Append(p, Bad) /\ p # b
  <2>1. part \in Seq(Block) /\ Len(part) = n + 1 /\ part[n + 1] = Bad /\ \A i \in 1..n : part[i] = p[i]
    BY SMT, <1>4, <1>8, BlockFacts
  <2>2. n + 1 <= Len(b) /\ n \in 0..Len(part) /\ n < Len(part)
    BY SMT, <1>1, <1>4, <1>8, <2>1
  <2>3. Intact(part) = n
    BY <1>5, <2>1, <2>2, IntactIs
  <2>4. SubSeq(part, 1, n) = p
    BY SMT, <1>4, <1>8
  <2>5. Whole(part) = p
    BY <2>3, <2>4 DEF Whole
  <2>6. \A i \in 1..Len(part) : i = n + 1 \/ i \in 1..n
    BY SMT, <1>4, <2>1
  <2>7. \A i \in 1..Len(part) : part[i] \in S \cup {Bad}
    BY <1>4, <2>1, <2>6
  <2> QED BY <1>6, <2>1, <2>2, <2>5, <2>7
<1> QED BY <1>2, <1>3, <1>7, <1>8

\* The same after a step.
LEMMA BaseNext ==
  ASSUME TypeOK', LogInv'
  PROVE  /\ Base' \in Seq(Block) /\ Len(Base') = segLen' /\ segLen' \in Nat /\ segLen' >= 1
         /\ Base' # <<>> /\ Base'[1] = Hdr
         /\ \A i \in 1..Len(Base') : Base'[i] # Bad
         /\ Clean(Base') /\ Whole(Base') = Base'
<1>1. log' \in Seq(Rec) /\ segLen' \in Nat /\ segLen' >= 1 /\ segLen' <= Len(log') + 1
  BY DEF TypeOK, LogInv
<1>2. Base' = CurrentOf(log', segLen')
  BY DEF Base, Older, CurrentOf
<1>3. IsCurrent(Base', log', segLen', Len(log') + 1 - segLen')
  BY <1>1, <1>2, CurrentFacts
<1> QED BY <1>1, <1>3 DEF IsCurrent

\* A step of a call that touches neither the files nor the log.
LEMMA Still ==
  ASSUME WalInv, Next, Running, Running', UNCHANGED <<fileVars, segSeq, segLen, logVars, exposed>>,
         TypeOK', DirInv', CallInv'
  PROVE  WalInv'
<1>1. /\ dir' = dir /\ ddir' = ddir /\ live' = live /\ sure' = sure /\ maybe' = maybe /\ exposed' = exposed
      /\ segSeq' = segSeq /\ segLen' = segLen /\ log' = log /\ segOf' = segOf /\ tail' = tail
  BY DEF fileVars, logVars
<1>2. /\ TypeOK /\ Shapes /\ ResumedInv /\ OpenInv /\ LogInv /\ Pre(Base, live[segSeq])
      /\ segSeq \in Seg /\ (exposed \/ Born) /\ pc # "openDir"
  BY RunningFacts
<1>3. Base' = Base /\ Older' = Older /\ LogInv'
  BY <1>1, <1>2, LogFrame
<1>4. resumed' = resumed
  BY <1>1, <1>2, ResumedSame
<1>5. Shapes'
  BY <1>1, <1>2 DEF Shapes
<1>6. OpenInv'
  BY <1>1, <1>2 DEF OpenInv, Blank, Running, OpenPC
<1>7. RunInv'
  BY <1>1, <1>2, <1>3 DEF RunInv
<1>8. ASSUME Born PROVE Born'
  <2>1. CurInv'
    BY <1>1, <1>4, <1>8, CurFrame DEF Born
  <2>2. OldInv'
    BY <1>1, <1>2, <1>3, <1>8, OldFrame DEF Born, OldInv
  <2>3. NextInv'
    BY <1>1, <1>3, <1>8 DEF Born, NextInv, HalfBorn, Synced
  <2> QED BY <1>3, <2>1, <2>2, <2>3 DEF Born
<1>9. DiskInv'
  <2>1. exposed \in BOOLEAN /\ exposed' = exposed
    BY <1>1, <1>2 DEF TypeOK
  <2>2. exposed => exposed'
    BY SMT, <2>1
  <2> QED BY <1>2, <1>8, <2>2 DEF DiskInv
<1>10. CrashIsNotCorruption'
  BY DEF CrashIsNotCorruption, Running
<1> QED BY <1>5, <1>6, <1>7, <1>9, <1>10, ResumedNext DEF WalInv

\* A current segment that is complete and synced is safe.
LEMMA CurSynced ==
  ASSUME TypeOK', LogInv', live'[segSeq'] = Base', sure'[segSeq'] = Base', maybe'[segSeq'] = <<>>
  PROVE  CurInv'
<1>1. PICK b, t : b = Base' /\ t = tail'
  OBVIOUS
<1>2. b \in Seq(Block) /\ Whole(b) = b
  BY <1>1, BaseNext
<1>3. t \in Seq(Block)
  BY <1>1, SeqWider DEF TypeOK
<1>4. Pre(b, b) /\ Pre(b, b \o t) /\ b \o <<>> = b
  BY <1>2, <1>3, PreRefl, PreConcat
<1>5. Between(b, b, t)
  BY <1>2, <1>4 DEF Between
<1> QED BY <1>1, <1>2, <1>4, <1>5 DEF CurInv, Good

\* sync_all on the current segment, when it holds what the log is to hold.
LEMMA SyncCurrent ==
  ASSUME WalInv, Next, Running, Running', SyncFile(segSeq),
         UNCHANGED <<dir, ddir, live, segSeq, exposed>>,
         ~poisoned, pc \notin CreatedPC,
         TypeOK', LogInv', DirInv', CallInv', live[segSeq] = Base',
         SubSeq(log', 1, Older') = SubSeq(log, 1, Older),
         SubSeq(segOf', 1, Older') = SubSeq(segOf, 1, Older)
  PROVE  WalInv'
<1>1. dir' = dir /\ ddir' = ddir /\ live' = live /\ segSeq' = segSeq /\ exposed' = exposed
  OBVIOUS
<1>2. /\ TypeOK /\ Shapes /\ OpenInv /\ DirInv /\ segSeq \in Seg /\ (exposed \/ Born)
  BY RunningFacts
<1>3. live[segSeq] \in Seq(Block) /\ sure \in [Seg -> Seq(Block)] /\ maybe \in [Seg -> Seq(Block)] /\ <<>> \in Seq(Block)
  BY <1>2, FileType, ShortFiles DEF TypeOK
<1>4. sure'[segSeq] = live[segSeq] /\ \A t \in Seg : t # segSeq => sure'[t] = sure[t]
  BY <1>2, <1>3, FileSet DEF SyncFile
<1>5. maybe'[segSeq] = <<>> /\ \A t \in Seg : t # segSeq => maybe'[t] = maybe[t]
  BY <1>2, <1>3, FileSet DEF SyncFile
<1>6. Shapes'
  <2> SUFFICES ASSUME NEW s \in Seg PROVE Shape(live'[s]) /\ Shape(sure'[s] \o maybe'[s])
    BY DEF Shapes
  <2>1. Shape(live[s]) /\ Shape(sure[s] \o maybe[s])
    BY <1>2 DEF Shapes
  <2>2. CASE s = segSeq
    <3>1. sure'[s] \o maybe'[s] = live[s]
      BY <1>3, <1>4, <1>5, <2>2, PreRefl
    <3> QED BY <1>1, <2>1, <3>1
  <2>3. CASE s # segSeq
    BY <1>1, <1>4, <1>5, <2>1, <2>3
  <2> QED BY <2>2, <2>3
<1>7. OpenInv'
  <2>1. pc' \notin OpenPC
    BY DEF Running
  <2>2. 1 \notin dir' => Blank(1)'
    <3>1. 1 \in Seg
      BY SMT, WalAssumption DEF Seg
    <3> QED BY <1>1, <1>2, <1>4, <1>5, <3>1 DEF OpenInv, Blank, DirInv
  <2> QED BY <2>1, <2>2 DEF OpenInv, OpenPC
<1>8. Pre(Base, live[segSeq])'
  BY <1>1, BaseNext, PreRefl
<1>9. RunInv'
  BY <1>8 DEF RunInv
<1>10. CurInv'
  BY <1>1, <1>4, <1>5, CurSynced
<1>11. ASSUME Born PROVE Born'
  <2>1. segSeq + 1 \notin dir \cup ddir
    BY <1>2, NothingBeside
  <2>2. NextInv'
    BY <1>1, <2>1 DEF NextInv
  <2>3. \A s \in 1..(segSeq - 1) : s \in Seg /\ s # segSeq
    <3>1. segSeq \in 1..MaxSeg
      BY <1>2 DEF Seg
    <3> QED BY SMT, <3>1, WalAssumption DEF Seg
  <2>4. OldInv'
    BY <1>1, <1>2, <1>4, <1>5, <1>11, <2>3, OldFrame DEF Born, OldInv
  <2> QED BY <1>10, <2>2, <2>4 DEF Born
<1>12. DiskInv'
  <2>1. exposed \in BOOLEAN /\ exposed' = exposed
    BY <1>1, <1>2 DEF TypeOK
  <2>2. exposed => exposed'
    BY SMT, <2>1
  <2> QED BY <1>2, <1>11, <2>2 DEF DiskInv
<1>13. CrashIsNotCorruption'
  BY DEF CrashIsNotCorruption, Running
<1> QED BY <1>6, <1>7, <1>9, <1>12, <1>13, ResumedNext DEF WalInv

\* A longer log, in the same segment.
LEMMA GrowLog ==
  ASSUME NEW lg \in Seq(Rec), NEW t \in Seq(Rec), NEW k \in Nat, k >= 1, k <= Len(lg) + 1
  PROVE  /\ lg \o t \in Seq(Rec) /\ Len(lg \o t) = Len(lg) + Len(t)
         /\ CurrentOf(lg \o t, k + Len(t)) = CurrentOf(lg, k) \o t
         /\ Len(lg \o t) + 1 - (k + Len(t)) = Len(lg) + 1 - k
         /\ SubSeq(lg \o t, 1, Len(lg) + 1 - k) = SubSeq(lg, 1, Len(lg) + 1 - k)
<1>1. PICK g, n, b, j : g = lg \o t /\ n = Len(lg) + 1 - k /\ b = CurrentOf(lg, k) /\ j = k + Len(t)
  OBVIOUS
<1>2. PICK c : c = CurrentOf(g, j)
  OBVIOUS
<1>3. /\ g \in Seq(Rec) /\ Len(g) = Len(lg) + Len(t) /\ Len(lg) \in Nat /\ Len(t) \in Nat
      /\ \A i \in 1..Len(lg) : g[i] = lg[i]
      /\ \A i \in 1..Len(t) : g[Len(lg) + i] = t[i]
  <2>1. g = lg \o t
    BY <1>1
  <2> QED BY SMT, <2>1
<1>4. n \in 0..Len(lg) /\ Len(g) + 1 - j = n /\ j \in Nat /\ j >= 1 /\ j <= Len(g) + 1
  BY SMT, <1>1, <1>3
<1>5. IsCurrent(b, lg, k, n) /\ IsCurrent(c, g, j, n)
  <2>1. IsCurrent(b, lg, k, n)
    BY <1>1, CurrentFacts
  <2>2. IsCurrent(c, g, j, Len(g) + 1 - j)
    BY <1>2, <1>3, <1>4, CurrentFacts
  <2> QED BY <1>4, <2>1, <2>2
<1>6. /\ b \in Seq(Block) /\ Len(b) = k /\ b[1] = Hdr /\ Len(lg) = n + (k - 1)
      /\ c \in Seq(Block) /\ Len(c) = j /\ c[1] = Hdr
      /\ \A i \in 2..k : b[i] = lg[n + (i - 1)]
      /\ \A i \in 2..j : c[i] = g[n + (i - 1)]
  BY <1>5 DEF IsCurrent
<1>7. t \in Seq(Block)
  BY SeqWider
<1>8. PICK e : e = b \o t
  OBVIOUS
<1>9. /\ e \in Seq(Block) /\ Len(e) = Len(b) + Len(t)
      /\ \A i \in 1..Len(b) : e[i] = b[i]
      /\ \A i \in 1..Len(t) : e[Len(b) + i] = t[i]
  <2>1. b \in Seq(Block)
    BY <1>6
  <2> QED BY SMT, <1>7, <1>8, <2>1
<1>10. \A i \in 1..Len(c) : c[i] = e[i]
  <2> TAKE i \in 1..Len(c)
  <2>1. CASE i = 1
    <3>1. 1 \in 1..Len(b)
      BY SMT, <1>6
    <3> QED BY <1>6, <1>9, <2>1, <3>1
  <2>2. CASE i \in 2..k
    <3>1. i \in 2..j /\ i \in 1..Len(b) /\ n + (i - 1) \in 1..Len(lg)
      BY SMT, <1>1, <1>3, <1>4, <1>6, <2>2
    <3> QED BY ZenonT(30), <1>3, <1>6, <1>9, <2>2, <3>1
  <2>3. CASE i > k
    <3>1. i \in 2..j /\ i - k \in 1..Len(t) /\ Len(b) + (i - k) = i /\ n + (i - 1) = Len(lg) + (i - k)
      BY SMT, <1>1, <1>3, <1>4, <1>6, <2>3
    <3>2. c[i] = g[Len(lg) + (i - k)]
      BY <1>6, <3>1
    <3>3. g[Len(lg) + (i - k)] = t[i - k]
      BY <1>3, <3>1
    <3>4. e[i] = t[i - k]
      BY <1>9, <3>1
    <3> QED BY <3>2, <3>3, <3>4
  <2>4. i = 1 \/ i \in 2..k \/ i > k
    BY SMT, <1>6
  <2> QED BY <2>1, <2>2, <2>3, <2>4
<1>11. c = e
  <2>1. Len(c) = Len(e)
    BY SMT, <1>1, <1>6, <1>9
  <2>2. Len(c) <= Len(e)
    BY SMT, <1>6, <1>9, <2>1
  <2> QED BY <1>6, <1>9, <1>10, <2>1, <2>2, PreSame DEF Pre
<1>12. SubSeq(g, 1, n) = SubSeq(lg, 1, n)
  <2>1. n \in 0..Len(lg) /\ n \in 0..Len(g)
    BY SMT, <1>3, <1>4
  <2> QED BY SMT, <1>3, <2>1
<1> QED BY <1>1, <1>2, <1>3, <1>4, <1>8, <1>11, <1>12

\* The older records and those of the current segment are the log.
LEMMA RejoinLog ==
  ASSUME NEW lg \in Seq(Rec), NEW k \in Nat, k >= 1, k <= Len(lg) + 1
  PROVE  SubSeq(lg, 1, Len(lg) + 1 - k) \o SubSeq(CurrentOf(lg, k), 2, k) = lg
<1>1. PICK f, n : f = CurrentOf(lg, k) /\ n = Len(lg) + 1 - k
  OBVIOUS
<1>2. IsCurrent(f, lg, k, n)
  BY <1>1, CurrentFacts
<1>3. /\ f \in Seq(Block) /\ Len(f) = k /\ n \in 0..Len(lg) /\ Len(lg) = n + (k - 1)
      /\ \A i \in 2..k : f[i] = lg[n + (i - 1)]
  BY <1>2 DEF IsCurrent
<1>4. PICK a, c : a = SubSeq(lg, 1, n) /\ c = SubSeq(f, 2, k)
  OBVIOUS
<1>5. a \in Seq(Rec) /\ Len(a) = n /\ \A i \in 1..n : a[i] = lg[i]
  <2>1. a = SubSeq(lg, 1, n) /\ n \in 0..Len(lg)
    BY <1>3, <1>4
  <2> QED BY SMT, <2>1
<1>6. c \in Seq(Block) /\ Len(c) = k - 1 /\ \A i \in 1..(k - 1) : c[i] = f[i + 1]
  <2>1. c = SubSeq(f, 2, k) /\ f \in Seq(Block) /\ Len(f) = k
    BY <1>3, <1>4
  <2> QED BY SMT, <2>1
<1>7. PICK h : h = a \o c
  OBVIOUS
<1>8. a \in Seq(Block) /\ lg \in Seq(Block)
  BY <1>5, SeqWider
<1>9. /\ h \in Seq(Block) /\ Len(h) = Len(a) + Len(c)
      /\ \A i \in 1..Len(a) : h[i] = a[i]
      /\ \A i \in 1..Len(c) : h[Len(a) + i] = c[i]
  <2>1. a \in Seq(Block) /\ c \in Seq(Block)
    BY <1>6, <1>8
  <2> QED BY SMT, <1>7, <2>1
<1>10. Len(h) = Len(lg)
  BY SMT, <1>3, <1>5, <1>6, <1>9
<1>11. \A i \in 1..Len(h) : h[i] = lg[i]
  <2> TAKE i \in 1..Len(h)
  <2>1. CASE i \in 1..n
    BY <1>5, <1>9, <2>1
  <2>2. CASE i \notin 1..n
    <3>1. PICK j : j = i - n
      OBVIOUS
    <3>2. j \in 1..(k - 1) /\ n + j = i /\ j + 1 \in 2..k /\ (j + 1) - 1 = j
      BY SMTT(30), <1>3, <1>10, <2>2, <3>1
    <3>3. h[i] = c[j] /\ c[j] = f[j + 1] /\ f[j + 1] = lg[n + ((j + 1) - 1)]
      BY <1>3, <1>5, <1>6, <1>9, <3>2
    <3> QED BY <3>2, <3>3
  <2> QED BY <2>1, <2>2
<1>12. h = lg
  BY <1>8, <1>9, <1>10, <1>11, SameSeq
<1> QED BY <1>1, <1>4, <1>7, <1>12

\* Their segments are those of the log.
LEMMA RejoinSegs ==
  ASSUME NEW sg \in Seq(Seg), NEW len \in Nat, NEW q \in Seg, NEW n \in 0..len, SegsFrom(sg, len, q, n)
  PROVE  SubSeq(sg, 1, n) \o [i \in 1..(len - n) |-> q] = sg
<1>1. Len(sg) = len /\ \A i \in 1..len : sg[i] = q <=> i > n
  BY DEF SegsFrom
<1>2. PICK a, c : a = SubSeq(sg, 1, n) /\ c = [i \in 1..(len - n) |-> q]
  OBVIOUS
<1>3. a \in Seq(Seg) /\ Len(a) = n /\ \A i \in 1..n : a[i] = sg[i]
  <2>1. a = SubSeq(sg, 1, n) /\ n \in 0..Len(sg)
    BY <1>1, <1>2
  <2> QED BY SMT, <2>1
<1>4. c \in Seq(Seg) /\ Len(c) = len - n /\ \A i \in 1..(len - n) : c[i] = q
  BY SMT, <1>2
<1>5. PICK h : h = a \o c
  OBVIOUS
<1>6. /\ h \in Seq(Seg) /\ Len(h) = Len(a) + Len(c)
      /\ \A i \in 1..Len(a) : h[i] = a[i]
      /\ \A i \in 1..Len(c) : h[Len(a) + i] = c[i]
  <2>1. a \in Seq(Seg) /\ c \in Seq(Seg)
    BY <1>3, <1>4
  <2> QED BY SMT, <1>5, <2>1
<1>7. Len(h) = len
  BY SMT, <1>3, <1>4, <1>6
<1>8. \A i \in 1..Len(h) : h[i] = sg[i]
  <2> TAKE i \in 1..Len(h)
  <2>1. CASE i \in 1..n
    BY <1>3, <1>6, <2>1
  <2>2. CASE i \notin 1..n
    <3>1. PICK j : j = i - n
      OBVIOUS
    <3>2. j \in 1..(len - n) /\ n + j = i /\ i > n /\ i \in 1..len
      BY SMT, <1>7, <2>2, <3>1
    <3> QED BY <1>1, <1>3, <1>4, <1>6, <3>2
  <2> QED BY <2>1, <2>2
<1>9. h = sg
  BY <1>1, <1>6, <1>7, <1>8, SameSeq
<1> QED BY <1>2, <1>5, <1>9

\* What replay hands out of the segments up to the current one.
LEMMA ReplayCurrent ==
  ASSUME TypeOK, LogInv, OldInv, NEW t \in Seq(Rec), live[segSeq] = Base \o t
  PROVE  /\ Replayed[segSeq] = log \o t
         /\ ReplayedFrom[segSeq] = segOf \o [i \in 1..Len(t) |-> segSeq]
<1>1. log \in Seq(Rec) /\ segOf \in Seq(Seg) /\ segSeq \in Seg /\ segLen \in Nat
  BY DEF TypeOK
<1>2. segLen >= 1 /\ segLen <= Len(log) + 1 /\ SegsFrom(segOf, Len(log), segSeq, Older)
  BY LogInvIs
<1>3. PICK lg, k, b, n, m : lg = log \o t /\ k = segLen + Len(t) /\ b = Base /\ n = Older /\ m = Len(t)
  OBVIOUS
<1>4. Older = Len(log) + 1 - segLen /\ Base = CurrentOf(log, segLen)
  BY DEF Older, Base, CurrentOf
<1>5. /\ lg \in Seq(Rec) /\ Len(lg) = Len(log) + m /\ CurrentOf(lg, k) = b \o t /\ Len(lg) + 1 - k = n
      /\ SubSeq(lg, 1, n) = SubSeq(log, 1, n)
  BY <1>1, <1>2, <1>3, <1>4, GrowLog
<1>6. Len(log) \in Nat /\ m \in Nat /\ n \in 0..Len(log)
  BY SMTT(30), <1>1, <1>2, <1>3, <1>4
<1>7. k \in Nat /\ k >= 1 /\ k <= Len(lg) + 1 /\ k # 0 /\ (Len(log) + m) - n = k - 1
  BY SMTT(30), <1>1, <1>2, <1>3, <1>4, <1>5, <1>6
<1>8. SubSeq(log, 1, n) \o SubSeq(b \o t, 2, k) = lg
  BY <1>5, <1>7, RejoinLog
<1>9. PICK sg : sg = segOf \o [i \in 1..m |-> segSeq]
  OBVIOUS
<1>10. sg \in Seq(Seg) /\ SegsFrom(sg, Len(log) + m, segSeq, n) /\ SubSeq(sg, 1, n) = SubSeq(segOf, 1, n)
  <2>1. SegsFrom(segOf, Len(log), segSeq, n)
    BY <1>2, <1>3
  <2>2. segOf \in Seq(Seg) /\ segSeq \in Seg
    BY <1>1
  <2> QED BY <1>6, <1>9, <2>1, <2>2, GrowSegs
<1>11. SubSeq(segOf, 1, n) \o [i \in 1..(k - 1) |-> segSeq] = sg
  <2>1. Len(log) + m \in Nat /\ n \in 0..(Len(log) + m)
    BY SMT, <1>6
  <2>2. SubSeq(sg, 1, n) \o [i \in 1..((Len(log) + m) - n) |-> segSeq] = sg
    BY <1>1, <1>10, <2>1, RejoinSegs
  <2> QED BY <1>7, <1>10, <2>2
<1>12. Intact(live[segSeq]) = k
  <2>1. IsCurrent(CurrentOf(lg, k), lg, k, Len(lg) + 1 - k)
    BY <1>5, <1>7, CurrentFacts
  <2>2. PICK c : c = b \o t
    OBVIOUS
  <2>3. c \in Seq(Block) /\ Len(c) = k /\ \A i \in 1..Len(c) : c[i] # Bad
    BY <1>5, <2>1, <2>2 DEF IsCurrent
  <2>4. Intact(c) = k
    BY <2>3, CleanWhole
  <2> QED BY <1>3, <2>2, <2>4
<1>13. segSeq \in 1..MaxSeg /\ segSeq \in dir
  <2>1. segSeq \in 1..segSeq /\ segSeq \in 1..MaxSeg
    BY SMT, <1>1, WalAssumption DEF Seg
  <2> QED BY <2>1 DEF OldInv
<1>14. Replayed[segSeq - 1] = SubSeq(log, 1, n) /\ ReplayedFrom[segSeq - 1] = SubSeq(segOf, 1, n)
  BY <1>3 DEF OldInv
<1>15. Replayed[segSeq] = SubSeq(log, 1, n) \o SubSeq(b \o t, 2, k)
  <2>1. Rep(dir, live)[segSeq] = RepStep(dir, live, segSeq, Rep(dir, live)[segSeq - 1])
    BY <1>13, RepDef
  <2>2. Replayed[segSeq] = Replayed[segSeq - 1] \o SubSeq(live[segSeq], 2, Intact(live[segSeq]))
    BY <1>13, <2>1, RepIs DEF RepStep
  <2> QED BY <1>3, <1>12, <1>14, <2>2
<1>16. ReplayedFrom[segSeq] = SubSeq(segOf, 1, n) \o [i \in 1..(k - 1) |-> segSeq]
  <2>1. From(dir, live)[segSeq] = FromStep(dir, live, segSeq, From(dir, live)[segSeq - 1])
    BY <1>13, FromDef
  <2>2. From(dir, live)[segSeq - 1] = SubSeq(segOf, 1, n) /\ ReplayedFrom[segSeq] = From(dir, live)[segSeq]
    BY <1>14, RepIs
  <2>3. From(dir, live)[segSeq]
          = From(dir, live)[segSeq - 1] \o [i \in 1..(IF Intact(live[segSeq]) = 0 THEN 0 ELSE Intact(live[segSeq]) - 1) |-> segSeq]
    BY <1>13, <2>1 DEF FromStep
  <2>4. (IF Intact(live[segSeq]) = 0 THEN 0 ELSE Intact(live[segSeq]) - 1) = k - 1
    BY <1>7, <1>12
  <2> QED BY <2>2, <2>3, <2>4
<1> QED BY <1>3, <1>8, <1>9, <1>11, <1>15, <1>16

\* The current segment was synced and still is.
LEMMA SureCurrent ==
  ASSUME WalInv, SureInv, Next, Running, segSeq' = segSeq, sure'[segSeq] = sure[segSeq],
         maybe'[segSeq] = maybe[segSeq] \/ maybe'[segSeq] # <<>>
  PROVE  ~resumed' => sure'[segSeq'] # <<>>
<1>1. pc # "openDir"
  BY DEF Running, OpenPC
<1>2. resumed' = (resumed /\ maybe'[segSeq'] # <<>>)
  BY <1>1 DEF Next
<1>3. resumed => maybe[segSeq] # <<>>
  BY DEF WalInv, ResumedInv
<1>4. ~resumed' => ~resumed
  BY <1>2, <1>3
<1> QED BY <1>4 DEF SureInv

\* The segment of a running log is not empty.
LEMMA CurrentNotEmpty ==
  ASSUME WalInv, Running
  PROVE  live[segSeq] # <<>>
<1>1. TypeOK /\ LogInv /\ Pre(Base, live[segSeq]) /\ segSeq \in Seg
  BY RunningFacts
<1>2. PICK b, f : b = Base /\ f = live[segSeq]
  OBVIOUS
<1>3. b \in Seq(Block) /\ Len(b) >= 1 /\ Pre(b, f) /\ f \in Seq(Block)
  BY <1>1, <1>2, BaseFacts, FileType
<1>4. f # <<>>
  BY SMT, <1>3 DEF Pre
<1> QED BY <1>2, <1>4

-----------------------------------------------------------------------------
(* append_many *)

\* The steps of append_many and roll_back preserve the invariant.
LEMMA AppendPreserves ==
  Inv /\ Next
  /\ (AppendMany \/ WriteSome \/ WriteAll \/ SyncOk \/ AppendError \/ Cut \/ CutSync \/ 
     CutError \/ RotateSegment)
  => Inv'
\* append_many begins.
<1>AppendManyStep. ASSUME WalInv, Next, AppendMany
                   PROVE  WalInv'
  <2> USE <1>AppendManyStep
  <2>1. PICK n \in 1..MaxGroup : /\ offered + n <= MaxRec
                                 /\ offered' = offered + n
                                 /\ buf' = [i \in 1..n |-> offered + i]
                                 /\ pc' = IF segLen + n > MaxLen /\ segLen > 1 THEN "rotSync" ELSE "write"
    BY DEF AppendMany
  <2>2. /\ pc = "ready" /\ ~poisoned /\ rotating' = "append"
        /\ UNCHANGED <<fileVars, walVars, logVars, crashes, world>>
    BY DEF AppendMany
  <2>3. /\ dir' = dir /\ ddir' = ddir /\ live' = live /\ sure' = sure /\ maybe' = maybe
        /\ segSeq' = segSeq /\ segLen' = segLen /\ poisoned' = poisoned
        /\ log' = log /\ segOf' = segOf /\ tail' = tail
        /\ crashes' = crashes /\ kinds' = kinds /\ exposed' = exposed
    BY <2>2 DEF fileVars, walVars, logVars, world
  <2>4. Running /\ pc' \in {"rotSync", "write"} /\ Running'
    BY <2>1, <2>2 DEF Running, OpenPC
  <2>5. TypeOK /\ DirInv /\ CallInv /\ Base' = Base
    BY <2>3, <2>4, RunningFacts, LogFrame
  <2>6. buf' \in Seq(Rec) /\ buf' # <<>> /\ offered' \in 0..MaxRec
    <3>1. offered \in 0..MaxRec
      BY <2>5 DEF TypeOK
    <3>2. n \in Nat /\ n >= 1 /\ MaxRec \in Nat
      BY SMT, <2>1, WalAssumption
    <3>3. \A i \in 1..n : offered + i \in Rec
      BY SMT, <2>1, <3>1, <3>2 DEF Rec
    <3>4. [i \in 1..n |-> offered + i] \in [1..n -> Rec]
      BY <3>3
    <3>5. [i \in 1..n |-> offered + i] \in Seq(Rec) /\ Len([i \in 1..n |-> offered + i]) = n
      BY SMT, <3>2, <3>4
    <3>6. <<>> # [i \in 1..n |-> offered + i]
      BY SMT, <3>2, <3>5
    <3>7. offered + n \in 0..MaxRec
      BY SMT, <2>1, <3>1, <3>2
    <3> QED BY <2>1, <3>5, <3>6, <3>7
  <2>7. resumed' \in BOOLEAN
    BY DEF Next
  <2>8. TypeOK'
    BY <2>2, <2>3, <2>4, <2>5, <2>6, <2>7 DEF TypeOK, PC, RotatePC, WritePC
  <2>9. DirInv'
    BY <2>2, <2>3, <2>4, <2>5 DEF DirInv, CreatedPC, RotatePC
  <2>10. CallInv'
    BY <2>2, <2>3, <2>4, <2>5, <2>6 DEF CallInv, RotatePC
  <2> QED BY <2>2, <2>3, <2>4, <2>8, <2>9, <2>10, Still DEF fileVars, logVars
\* The write or the sync fails.
<1>AppendErrorStep. ASSUME WalInv, Next, AppendError
                    PROVE  WalInv'
  <2> USE <1>AppendErrorStep
  <2>1. /\ pc \in {"writing", "sync"} /\ pc' = "cut"
        /\ dir' = dir /\ ddir' = ddir /\ live' = live /\ sure' = sure /\ maybe' = maybe
        /\ segSeq' = segSeq /\ segLen' = segLen /\ poisoned' = poisoned
        /\ log' = log /\ segOf' = segOf /\ tail' = tail /\ buf' = buf /\ rotating' = rotating
        /\ offered' = offered /\ crashes' = crashes /\ kinds' = kinds /\ exposed' = exposed
    BY DEF AppendError, fileVars, walVars, logVars, world
  <2>2. Running /\ Running'
    BY <2>1 DEF Running, OpenPC
  <2>3. TypeOK /\ DirInv /\ CallInv /\ Base' = Base
    BY <2>1, <2>2, RunningFacts, LogFrame
  <2>4. resumed' \in BOOLEAN
    BY DEF Next
  <2>5. TypeOK'
    BY <2>1, <2>3, <2>4 DEF TypeOK, PC, WritePC
  <2>6. DirInv'
    BY <2>1, <2>3 DEF DirInv, CreatedPC, RotatePC
  <2>7. CallInv'
    BY <2>1, <2>3 DEF CallInv, RotatePC
  <2> QED BY <2>1, <2>2, <2>5, <2>6, <2>7, Still DEF fileVars, logVars
\* roll_back fails.
<1>CutErrorStep. ASSUME WalInv, Next, CutError
                 PROVE  WalInv'
  <2> USE <1>CutErrorStep
  <2>1. /\ pc \in {"cut", "cutSync"} /\ pc' = "ready" /\ poisoned' = TRUE /\ buf' = <<>>
        /\ dir' = dir /\ ddir' = ddir /\ live' = live /\ sure' = sure /\ maybe' = maybe
        /\ segSeq' = segSeq /\ segLen' = segLen
        /\ log' = log /\ segOf' = segOf /\ tail' = tail /\ rotating' = rotating
        /\ offered' = offered /\ crashes' = crashes /\ kinds' = kinds /\ exposed' = exposed
    BY DEF CutError, fileVars, logVars, world
  <2>2. Running /\ Running'
    BY <2>1 DEF Running, OpenPC
  <2>3. TypeOK /\ DirInv /\ CallInv /\ Base' = Base
    BY <2>1, <2>2, RunningFacts, LogFrame
  <2>4. resumed' \in BOOLEAN /\ buf' \in Seq(Rec)
    BY <2>1, NextTypes
  <2>5. TypeOK'
    BY <2>1, <2>3, <2>4 DEF TypeOK, PC
  <2>6. DirInv'
    BY <2>1, <2>3 DEF DirInv, CreatedPC, RotatePC
  <2>7. CallInv'
    BY <2>1, <2>3 DEF CallInv, RotatePC
  <2> QED BY <2>1, <2>2, <2>5, <2>6, <2>7, Still DEF fileVars, logVars
\* The engine asks for a rotation.
<1>RotateSegmentStep. ASSUME WalInv, Next, RotateSegment
                      PROVE  WalInv'
  <2> USE <1>RotateSegmentStep
  <2>1. /\ pc = "ready" /\ ~poisoned /\ pc' = "rotSync" /\ rotating' = "engine"
        /\ dir' = dir /\ ddir' = ddir /\ live' = live /\ sure' = sure /\ maybe' = maybe
        /\ segSeq' = segSeq /\ segLen' = segLen /\ poisoned' = poisoned
        /\ log' = log /\ segOf' = segOf /\ tail' = tail /\ buf' = buf
        /\ offered' = offered /\ crashes' = crashes /\ kinds' = kinds /\ exposed' = exposed
    BY DEF RotateSegment, fileVars, walVars, logVars, world
  <2>2. Running /\ Running'
    BY <2>1 DEF Running, OpenPC
  <2>3. TypeOK /\ DirInv /\ CallInv /\ Base' = Base
    BY <2>1, <2>2, RunningFacts, LogFrame
  <2>4. resumed' \in BOOLEAN
    BY DEF Next
  <2>5. TypeOK'
    BY <2>1, <2>3, <2>4 DEF TypeOK, PC, RotatePC
  <2>6. DirInv'
    BY <2>1, <2>3 DEF DirInv, CreatedPC, RotatePC
  <2>7. CallInv'
    BY <2>1, <2>3 DEF CallInv, RotatePC
  <2> QED BY <2>1, <2>2, <2>5, <2>6, <2>7, Still DEF fileVars, logVars
\* An append, or open, adds records that are in the current segment.
<1>LogGrows. ASSUME TypeOK, LogInv, NEW t \in Seq(Rec), log' = log \o t, segSeq' = segSeq,
                    segOf' = segOf \o [i \in 1..Len(t) |-> segSeq], segLen' = segLen + Len(t)
             PROVE  /\ log' \in Seq(Rec) /\ segOf' \in Seq(Seg) /\ segLen' \in Nat
                    /\ LogInv' /\ Base' = Base \o t /\ Older' = Older
                    /\ SubSeq(log', 1, Older') = SubSeq(log, 1, Older)
                    /\ SubSeq(segOf', 1, Older') = SubSeq(segOf, 1, Older)
  <2> USE <1>LogGrows
  <2>1. log \in Seq(Rec) /\ segOf \in Seq(Seg) /\ segSeq \in Seg /\ segLen \in Nat
    BY DEF TypeOK
  <2>2. segLen >= 1 /\ segLen <= Len(log) + 1 /\ SegsFrom(segOf, Len(log), segSeq, Older)
    BY LogInvIs
  <2>3. Older = Len(log) + 1 - segLen /\ Older' = Len(log') + 1 - segLen' /\ Base = CurrentOf(log, segLen) /\ Base' = CurrentOf(log', segLen')
    BY DEF Older, Base, CurrentOf
  <2>4. Len(log) \in Nat /\ Len(t) \in Nat /\ Older \in 0..Len(log)
    BY SMT, <2>1, <2>2, <2>3
  <2>5. /\ log' \in Seq(Rec) /\ Len(log') = Len(log) + Len(t)
        /\ Base' = Base \o t /\ Older' = Older
        /\ SubSeq(log', 1, Older) = SubSeq(log, 1, Older)
    BY <2>1, <2>2, <2>3, GrowLog
  <2>6. /\ segOf' \in Seq(Seg) /\ SegsFrom(segOf', Len(log) + Len(t), segSeq, Older)
        /\ SubSeq(segOf', 1, Older) = SubSeq(segOf, 1, Older)
    BY <2>1, <2>2, <2>4, GrowSegs
  <2>7. segLen' \in Nat /\ segLen' >= 1 /\ segLen' <= Len(log') + 1
    BY SMTT(30), <2>1, <2>2, <2>4, <2>5
  <2>8. LogInv'
    BY <2>5, <2>6, <2>7, LogInvIs
  <2> QED BY <2>5, <2>6, <2>7, <2>8
\* sync_all succeeded.
<1>SyncOkStep. ASSUME WalInv, Next, SyncOk
               PROVE  WalInv'
  <2> USE <1>SyncOkStep
  <2>1. /\ pc = "sync" /\ pc' = "ready" /\ SyncFile(segSeq) /\ tail' = <<>> /\ buf' = <<>>
        /\ segLen' = segLen + Len(buf) /\ log' = log \o tail
        /\ segOf' = segOf \o [i \in 1..Len(tail) |-> segSeq]
        /\ dir' = dir /\ ddir' = ddir /\ live' = live /\ segSeq' = segSeq /\ poisoned' = poisoned
        /\ rotating' = rotating /\ offered' = offered /\ crashes' = crashes /\ kinds' = kinds /\ exposed' = exposed
    BY DEF SyncOk, world
  <2>2. Running /\ Running' /\ pc \notin CreatedPC
    BY <2>1 DEF Running, OpenPC, CreatedPC
  <2>3. TypeOK /\ DirInv /\ CallInv /\ LogInv /\ segSeq \in Seg
    BY <2>2, RunningFacts
  <2>4. ~poisoned /\ tail = buf /\ live[segSeq] = Base \o tail /\ tail \in Seq(Rec)
    BY <2>1, <2>3 DEF CallInv, TypeOK
  <2>5. /\ log' \in Seq(Rec) /\ segOf' \in Seq(Seg) /\ segLen' \in Nat
        /\ LogInv' /\ Base' = Base \o tail
        /\ SubSeq(log', 1, Older') = SubSeq(log, 1, Older)
        /\ SubSeq(segOf', 1, Older') = SubSeq(segOf, 1, Older)
    BY <2>1, <2>3, <2>4, <1>LogGrows
  <2>6. /\ sure' \in [Seg -> Seq(Block)] /\ sure'[segSeq] = live[segSeq]
        /\ maybe' \in [Seg -> Seq(Block)] /\ maybe'[segSeq] = <<>>
    <3>1. sure \in [Seg -> Seq(Block)] /\ maybe \in [Seg -> Seq(Block)] /\ live[segSeq] \in Seq(Block) /\ <<>> \in Seq(Block)
      BY <2>3, FileType, ShortFiles DEF TypeOK
    <3> QED BY <2>1, <2>3, <3>1, FileSet DEF SyncFile
  <2>7. TypeOK'
    <3>1. <<>> \in Seq(Rec) /\ resumed' \in BOOLEAN
      BY NextTypes
    <3> QED BY <2>1, <2>3, <2>5, <2>6, <3>1 DEF TypeOK, PC
  <2>8. DirInv'
    BY <2>1, <2>3 DEF DirInv, CreatedPC, RotatePC
  <2>9. live[segSeq] = Base'
    BY <2>4, <2>5
  <2>10. CallInv'
    BY <2>1, <2>4, <2>9 DEF CallInv, RotatePC
  <2> QED BY <2>1, <2>2, <2>4, <2>5, <2>7, <2>8, <2>9, <2>10, SyncCurrent
\* roll_back has cut the segment back and synced it.
<1>CutSyncStep. ASSUME WalInv, Next, CutSync
                PROVE  WalInv'
  <2> USE <1>CutSyncStep
  <2>1. /\ pc = "cutSync" /\ pc' = "ready" /\ SyncFile(segSeq) /\ tail' = <<>> /\ buf' = <<>>
        /\ segLen' = segLen /\ log' = log /\ segOf' = segOf
        /\ dir' = dir /\ ddir' = ddir /\ live' = live /\ segSeq' = segSeq /\ poisoned' = poisoned
        /\ rotating' = rotating /\ offered' = offered /\ crashes' = crashes /\ kinds' = kinds /\ exposed' = exposed
    BY DEF CutSync, world, walVars
  <2>2. Running /\ Running' /\ pc \notin CreatedPC
    BY <2>1 DEF Running, OpenPC, CreatedPC
  <2>3. TypeOK /\ DirInv /\ CallInv /\ LogInv /\ segSeq \in Seg
    BY <2>2, RunningFacts
  <2>4. ~poisoned /\ live[segSeq] = Base
    BY <2>1, <2>3 DEF CallInv
  <2>5. LogInv' /\ Base' = Base /\ Older' = Older
    BY <2>1, <2>3, LogFrame
  <2>6. sure' \in [Seg -> Seq(Block)] /\ maybe' \in [Seg -> Seq(Block)]
    <3>1. sure \in [Seg -> Seq(Block)] /\ maybe \in [Seg -> Seq(Block)] /\ live[segSeq] \in Seq(Block) /\ <<>> \in Seq(Block)
      BY <2>3, FileType, ShortFiles DEF TypeOK
    <3> QED BY <2>1, <2>3, <3>1, FileSet DEF SyncFile
  <2>7. TypeOK'
    <3>1. <<>> \in Seq(Rec) /\ resumed' \in BOOLEAN
      BY NextTypes
    <3> QED BY <2>1, <2>3, <2>6, <3>1 DEF TypeOK, PC
  <2>8. DirInv'
    BY <2>1, <2>3 DEF DirInv, CreatedPC, RotatePC
  <2>9. CallInv'
    BY <2>1, <2>4, <2>5 DEF CallInv, RotatePC
  <2> QED BY <2>1, <2>2, <2>4, <2>5, <2>7, <2>8, <2>9, SyncCurrent
\* Writes after the last sync keep the shape of a file.
<1>WrittenShape. ASSUME NEW a \in Seq(Block), NEW m \in Seq(Block), Shape(a \o m),
                        NEW l \in Seq(Block), Shape(l), l # <<>>,
                        NEW b \in Seq(Block), \A i \in 1..Len(b) : b[i] \in Rec \cup {Bad}
                 PROVE  /\ SubSeq(l, Len(a) + 1, Len(l)) \o b \in Seq(Block)
                        /\ Shape(a \o (SubSeq(l, Len(a) + 1, Len(l)) \o b))
  <2> USE <1>WrittenShape
  <2>1. PICK w : w = SubSeq(l, Len(a) + 1, Len(l))
    OBVIOUS
  <2>2. CASE a = <<>>
    <3>1. w = l
      BY SMT, <2>1, <2>2
    <3>2. l \o b \in Seq(Block) /\ Shape(l \o b)
      BY ShapeGrow
    <3>3. \A g \in Seq(Block) : <<>> \o g = g
      BY SMT
    <3> QED BY <2>1, <2>2, <3>1, <3>2, <3>3
  <2>3. CASE a # <<>>
    <3>1. Len(a) \in Nat /\ Len(a) # 0
      BY SMT, <2>3
    <3>2. w \in Seq(Block) /\ \A i \in 1..Len(w) : w[i] = l[Len(a) + i] /\ Len(a) + i \in 1..Len(l) /\ Len(a) + i # 1
      BY SMT, <2>1, <3>1
    <3>3. \A i \in 1..Len(w) : w[i] \in Rec \cup {Bad}
      BY <3>2 DEF Shape
    <3>4. PICK g : g = w \o b
      OBVIOUS
    <3>5. /\ g \in Seq(Block) /\ Len(g) = Len(w) + Len(b)
          /\ \A i \in 1..Len(w) : g[i] = w[i]
          /\ \A i \in 1..Len(b) : g[Len(w) + i] = b[i]
      <4>1. w \in Seq(Block)
        BY <3>2
      <4> QED BY SMT, <3>4, <4>1
    <3>6. \A i \in 1..Len(g) : g[i] \in Rec \cup {Bad}
      <4> TAKE i \in 1..Len(g)
      <4>1. i \in 1..Len(w) \/ (i - Len(w) \in 1..Len(b) /\ Len(w) + (i - Len(w)) = i)
        BY SMT, <3>2, <3>5
      <4> QED BY <3>3, <3>5, <4>1
    <3>7. Shape(a)
      <4>1. PICK c : c = a \o m
        OBVIOUS
      <4>2. c \in Seq(Block) /\ Len(a) <= Len(c) /\ \A i \in 1..Len(a) : c[i] = a[i]
        BY SMT, <4>1
      <4>3. \A i \in 1..Len(a) : a[i] \in {Bad, c[i]}
        BY <4>2
      <4> QED BY <4>1, <4>2, <4>3, ShapeLess
    <3>8. Shape(a \o g)
      BY <2>3, <3>5, <3>6, <3>7, ShapeGrow
    <3> QED BY <2>1, <3>4, <3>5, <3>8
  <2> QED BY <2>2, <2>3
\* A step that changes the current segment and not what is acknowledged.
<1>CurrentStep. ASSUME WalInv, Next, Running, Running', ~poisoned, pc \notin CreatedPC,
                       UNCHANGED <<dir, ddir, sure, segSeq, segLen, log, segOf, exposed>>,
                       \A s \in Seg : s # segSeq => live'[s] = live[s] /\ maybe'[s] = maybe[s],
                       Shape(live'[segSeq]), Shape(sure[segSeq] \o maybe'[segSeq]), Pre(Base, live'[segSeq]),
                       TypeOK', DirInv', CallInv', Born => CurInv'
                PROVE  WalInv'
  <2> USE <1>CurrentStep
  <2>1. /\ dir' = dir /\ ddir' = ddir /\ sure' = sure /\ segSeq' = segSeq /\ exposed' = exposed
        /\ segLen' = segLen /\ log' = log /\ segOf' = segOf
    OBVIOUS
  <2>2. TypeOK /\ Shapes /\ OpenInv /\ DirInv /\ LogInv /\ segSeq \in Seg /\ (exposed \/ Born)
    BY RunningFacts
  <2>3. Base' = Base /\ Older' = Older /\ LogInv'
    BY <2>1, <2>2, LogFrame
  <2>4. Shapes'
    BY <2>1, <2>2 DEF Shapes
  <2>5. OpenInv'
    <3>1. pc' \notin OpenPC
      BY DEF Running
    <3>2. 1 \notin dir' => Blank(1)'
      <4>1. 1 \in Seg
        BY SMT, WalAssumption DEF Seg
      <4> QED BY <2>1, <2>2, <4>1 DEF OpenInv, Blank, DirInv
    <3> QED BY <3>1, <3>2 DEF OpenInv, OpenPC
  <2>6. RunInv'
    BY <2>1, <2>3 DEF RunInv
  <2>7. ASSUME Born PROVE Born'
    <3>1. segSeq + 1 \notin dir \cup ddir
      BY <2>2, NothingBeside
    <3>2. NextInv'
      BY <2>1, <3>1 DEF NextInv
    <3>3. \A s \in 1..(segSeq - 1) : s \in Seg /\ s # segSeq
      <4>1. segSeq \in 1..MaxSeg
        BY <2>2 DEF Seg
      <4> QED BY SMT, <4>1, WalAssumption DEF Seg
    <3>4. OldInv'
      BY <2>1, <2>2, <2>3, <2>7, <3>3, OldFrame DEF Born, OldInv
    <3> QED BY <2>3, <2>7, <3>2, <3>4 DEF Born
  <2>8. DiskInv'
    <3>1. exposed \in BOOLEAN /\ exposed' = exposed
      BY <2>1, <2>2 DEF TypeOK
    <3>2. exposed => exposed'
      BY SMT, <3>1
    <3> QED BY <2>2, <2>7, <3>2 DEF DiskInv
  <2>9. CrashIsNotCorruption'
    BY DEF CrashIsNotCorruption, Running
  <2> QED BY <2>4, <2>5, <2>6, <2>8, <2>9, ResumedNext DEF WalInv
\* write_all has written a part of the group.
<1>WriteSomeStep. ASSUME WalInv, Next, WriteSome
                  PROVE  WalInv'
  <2> USE <1>WriteSomeStep
  <2>1. /\ pc = "write" /\ pc' = "writing" /\ tail' = buf
        /\ dir' = dir /\ ddir' = ddir /\ sure' = sure /\ segSeq' = segSeq /\ segLen' = segLen
        /\ poisoned' = poisoned /\ log' = log /\ segOf' = segOf /\ buf' = buf /\ rotating' = rotating
        /\ offered' = offered /\ crashes' = crashes /\ kinds' = kinds /\ exposed' = exposed
    BY DEF WriteSome, world, walVars
  <2>2. PICK part \in Partial(buf) : WriteTo(segSeq, buf, part)
    BY DEF WriteSome
  <2>3. Running /\ Running' /\ pc \notin CreatedPC
    BY <2>1 DEF Running, OpenPC, CreatedPC
  <2>4. TypeOK /\ Shapes /\ ResumedInv /\ DirInv /\ CallInv /\ LogInv /\ segSeq \in Seg
    BY <2>3, RunningFacts
  <2>5. ~poisoned /\ live[segSeq] = Base /\ tail = <<>> /\ buf # <<>> /\ buf \in Seq(Rec)
    BY <2>1, <2>4 DEF CallInv, TypeOK
  <2>6. PICK b, t, f, m : b = Base /\ t = buf /\ f = sure[segSeq] /\ m = maybe[segSeq]
    OBVIOUS
  <2>7. /\ b \in Seq(Block) /\ Whole(b) = b /\ b # <<>> /\ \A i \in 1..Len(b) : b[i] # Bad
        /\ t \in Seq(Block) /\ Whole(t) = t /\ t # <<>> /\ \A i \in 1..Len(t) : t[i] \in Rec
        /\ f \in Seq(Block) /\ m \in Seq(Block) /\ Shape(b) /\ Shape(f \o m)
    BY <2>4, <2>5, <2>6, BaseFacts, TailFacts, FileType DEF Shapes
  <2>8. /\ part \in Seq(Block) /\ Pre(Whole(part), t)
        /\ \A i \in 1..Len(part) : part[i] \in Rec \cup {Bad}
    <3>1. Rec \in SUBSET Block /\ Bad \notin Rec
      BY BlockFacts
    <3> QED BY <2>2, <2>5, <2>6, <3>1, PartialFacts
  <2>9. PICK w : w = SubSeq(b, Len(f) + 1, Len(b))
    OBVIOUS
  <2>10. w \o t \in Seq(Block) /\ Shape(f \o (w \o t))
    <3>1. \A i \in 1..Len(t) : t[i] \in Rec \cup {Bad}
      BY <2>7
    <3> QED BY <2>7, <2>9, <3>1, <1>WrittenShape
  <2>11. b \o part \in Seq(Block) /\ Shape(b \o part)
    BY <2>7, <2>8, ShapeGrow
  <2>12. /\ live' \in [Seg -> Seq(Block)] /\ live'[segSeq] = b \o part
         /\ \A s \in Seg : s # segSeq => live'[s] = live[s]
    <3>1. live' = [live EXCEPT ![segSeq] = b \o part] /\ live \in [Seg -> Seq(Block)]
      BY <2>2, <2>4, <2>5, <2>6 DEF WriteTo, TypeOK
    <3> QED BY <2>4, <2>11, <3>1, FileSet
  <2>13. /\ maybe' \in [Seg -> Seq(Block)] /\ maybe'[segSeq] = w \o t
         /\ \A s \in Seg : s # segSeq => maybe'[s] = maybe[s]
    <3>1. Written(segSeq) = w
      BY <2>5, <2>6, <2>9 DEF Written
    <3>2. maybe' = [maybe EXCEPT ![segSeq] = w \o t] /\ maybe \in [Seg -> Seq(Block)]
      BY <2>2, <2>4, <2>6, <3>1 DEF WriteTo, TypeOK
    <3> QED BY <2>4, <2>10, <3>2, FileSet
  <2>14. w \o t # <<>>
    <3>1. w \in Seq(Block) /\ t \in Seq(Block) /\ t # <<>>
      BY SMTT(30), <2>7, <2>9
    <3> QED BY SMT, <3>1
  <2>15. TypeOK'
    BY <2>1, <2>4, <2>12, <2>13, NextTypes DEF TypeOK, PC, WritePC
  <2>16. DirInv'
    BY <2>1, <2>4 DEF DirInv, CreatedPC, RotatePC
  <2>17. CallInv'
    BY <2>1, <2>5, <2>13, <2>14 DEF CallInv, RotatePC
  <2>18. Pre(Base, live'[segSeq])
    BY <2>6, <2>7, <2>8, <2>12, PreConcat
  <2>19. ASSUME Born PROVE CurInv'
    <3>1. Base' = Base /\ tail' = t /\ segSeq' = segSeq
      BY <2>1, <2>6, LogFrame
    <3>2. Between(b \o part, b, t)
      BY <2>7, <2>8, WroteSafe
    <3>3. resumed' = resumed
      <4>1. resumed \in BOOLEAN /\ resumed' = (resumed /\ maybe'[segSeq] # <<>>)
        BY <2>1, <2>4 DEF TypeOK, Next
      <4> QED BY <2>13, <2>14, <4>1
    <3>4. ASSUME ~resumed PROVE Between(f, b, t) /\ Between(f \o (w \o t), b, t) /\ Whole(f) = b
      <4>1. Whole(f) = b
        BY <2>3, <2>6, <2>19, <3>4 DEF Born, CurInv
      <4>2. Intact(f) = Len(b) /\ Intact(f) \in 0..Len(f)
        BY <2>7, <4>1, WholeFacts, IntactFacts
      <4>3. w = <<>>
        BY SMTT(30), <2>7, <2>9, <4>2
      <4>4. w \o t = t
        BY SMTT(30), <2>7, <4>3
      <4>5. Pre(Whole(t), t)
        BY <2>7, PreRefl
      <4> QED BY <2>7, <4>1, <4>4, <4>5, AddedSafe
    <3> QED BY <2>1, <2>6, <2>7, <2>12, <2>13, <2>14, <3>1, <3>2, <3>3, <3>4 DEF CurInv, Good
  <2> QED BY <2>1, <2>3, <2>5, <2>6, <2>10, <2>11, <2>12, <2>13, <2>15, <2>16, <2>17, <2>18, <2>19, <1>CurrentStep
\* The contents change while a write is not synced.
<1>CurRewritten. ASSUME TypeOK, CurInv, Running, UNCHANGED <<log, segOf, segSeq, segLen, tail, sure, maybe>>,
                        resumed' = resumed, maybe[segSeq] # <<>>, Good(live'[segSeq])
                 PROVE  CurInv'
  <2> USE <1>CurRewritten
  <2>1. Base' = Base /\ tail' = tail /\ segSeq' = segSeq /\ sure' = sure /\ maybe' = maybe
    BY LogFrame
  <2> QED BY <2>1 DEF CurInv, Good
\* write_all has written all of the group.
<1>WriteAllStep. ASSUME WalInv, Next, WriteAll
                 PROVE  WalInv'
  <2> USE <1>WriteAllStep
  <2>1. /\ pc = "writing" /\ pc' = "sync" /\ tail' = tail /\ maybe' = maybe
        /\ dir' = dir /\ ddir' = ddir /\ sure' = sure /\ segSeq' = segSeq /\ segLen' = segLen
        /\ poisoned' = poisoned /\ log' = log /\ segOf' = segOf /\ buf' = buf /\ rotating' = rotating
        /\ offered' = offered /\ crashes' = crashes /\ kinds' = kinds /\ exposed' = exposed
        /\ live' = [live EXCEPT ![segSeq] = SubSeq(@, 1, segLen) \o buf]
    BY DEF WriteAll, world, walVars, logVars
  <2>2. Running /\ Running' /\ pc \notin CreatedPC
    BY <2>1 DEF Running, OpenPC, CreatedPC
  <2>3. /\ TypeOK /\ Shapes /\ ResumedInv /\ DirInv /\ CallInv /\ LogInv /\ segSeq \in Seg
        /\ Pre(Base, live[segSeq])
    BY <2>2, RunningFacts
  <2>4. ~poisoned /\ tail = buf /\ buf # <<>> /\ maybe[segSeq] # <<>>
    BY <2>1, <2>3 DEF CallInv
  <2>5. PICK b, t : b = Base /\ t = buf
    OBVIOUS
  <2>6. /\ b \in Seq(Block) /\ Len(b) = segLen /\ Whole(b) = b /\ b # <<>> /\ \A i \in 1..Len(b) : b[i] # Bad
        /\ t \in Seq(Block) /\ Whole(t) = t /\ t # <<>> /\ \A i \in 1..Len(t) : t[i] \in Rec
        /\ live[segSeq] \in Seq(Block) /\ Pre(b, live[segSeq]) /\ Shape(live[segSeq])
    BY <2>3, <2>4, <2>5, BaseFacts, TailFacts, FileType DEF Shapes
  <2>7. SubSeq(live[segSeq], 1, segLen) = b
    BY <2>6, PreCut
  <2>8. Shape(b)
    <3>1. segLen \in 0..Len(live[segSeq])
      BY SMTT(30), <2>6 DEF Pre
    <3> QED BY <2>6, <2>7, <3>1, ShapeCut
  <2>9. b \o t \in Seq(Block) /\ Shape(b \o t)
    <3>1. \A i \in 1..Len(t) : t[i] \in Rec \cup {Bad}
      BY <2>6
    <3> QED BY <2>6, <2>8, <3>1, ShapeGrow
  <2>10. /\ live' \in [Seg -> Seq(Block)] /\ live'[segSeq] = b \o t
         /\ \A s \in Seg : s # segSeq => live'[s] = live[s]
    <3>1. live' = [live EXCEPT ![segSeq] = b \o t] /\ live \in [Seg -> Seq(Block)]
      BY <2>1, <2>3, <2>5, <2>7 DEF TypeOK
    <3> QED BY <2>3, <2>9, <3>1, FileSet
  <2>11. TypeOK'
    BY <2>1, <2>3, <2>10, NextTypes DEF TypeOK, PC, WritePC
  <2>12. DirInv'
    BY <2>1, <2>3 DEF DirInv, CreatedPC, RotatePC
  <2>13. Base' = Base
    BY <2>1, LogFrame
  <2>14. CallInv'
    BY <2>1, <2>4, <2>5, <2>10, <2>13 DEF CallInv, RotatePC
  <2>15. Pre(Base, live'[segSeq])
    BY <2>5, <2>6, <2>10, PreConcat
  <2>16. resumed' = resumed
    BY <2>1, <2>3, ResumedSame
  <2>17. Good(live'[segSeq])
    <3>1. Pre(Whole(t), t)
      BY <2>6, PreRefl
    <3>2. Between(b \o t, b, t)
      BY <2>6, <3>1, WroteSafe
    <3> QED BY <2>4, <2>5, <2>10, <3>2 DEF Good
  <2>18. Born => CurInv'
    BY <2>1, <2>2, <2>3, <2>4, <2>16, <2>17, <1>CurRewritten DEF Born
  <2>19. Shape(live'[segSeq]) /\ Shape(sure[segSeq] \o maybe'[segSeq])
    BY <2>1, <2>3, <2>9, <2>10 DEF Shapes
  <2> QED BY <2>1, <2>2, <2>4, <2>10, <2>11, <2>12, <2>14, <2>15, <2>18, <2>19, <1>CurrentStep
\* roll_back cuts the segment back.
<1>CutStep. ASSUME WalInv, Next, Cut
            PROVE  WalInv'
  <2> USE <1>CutStep
  <2>1. /\ pc = "cut" /\ pc' = "cutSync" /\ tail' = tail /\ maybe' = maybe
        /\ dir' = dir /\ ddir' = ddir /\ sure' = sure /\ segSeq' = segSeq /\ segLen' = segLen
        /\ poisoned' = poisoned /\ log' = log /\ segOf' = segOf /\ buf' = buf /\ rotating' = rotating
        /\ offered' = offered /\ crashes' = crashes /\ kinds' = kinds /\ exposed' = exposed
        /\ live' = [live EXCEPT ![segSeq] = SubSeq(@, 1, segLen)]
    BY DEF Cut, SetLen, world, walVars, logVars
  <2>2. Running /\ Running' /\ pc \notin CreatedPC
    BY <2>1 DEF Running, OpenPC, CreatedPC
  <2>3. /\ TypeOK /\ Shapes /\ ResumedInv /\ DirInv /\ CallInv /\ LogInv /\ segSeq \in Seg
        /\ Pre(Base, live[segSeq])
    BY <2>2, RunningFacts
  <2>4. ~poisoned /\ tail = buf /\ buf # <<>> /\ maybe[segSeq] # <<>>
    BY <2>1, <2>3 DEF CallInv
  <2>5. PICK b, t : b = Base /\ t = tail
    OBVIOUS
  <2>6. /\ b \in Seq(Block) /\ Len(b) = segLen /\ Whole(b) = b
        /\ t \in Seq(Block)
        /\ live[segSeq] \in Seq(Block) /\ Pre(b, live[segSeq]) /\ Shape(live[segSeq])
    BY <2>3, <2>5, BaseFacts, TailFacts, FileType DEF Shapes
  <2>7. SubSeq(live[segSeq], 1, segLen) = b
    BY <2>6, PreCut
  <2>8. Shape(b)
    <3>1. segLen \in 0..Len(live[segSeq])
      BY SMT, <2>6 DEF Pre
    <3> QED BY <2>6, <2>7, <3>1, ShapeCut
  <2>9. /\ live' \in [Seg -> Seq(Block)] /\ live'[segSeq] = b
        /\ \A s \in Seg : s # segSeq => live'[s] = live[s]
    <3>1. live' = [live EXCEPT ![segSeq] = b] /\ live \in [Seg -> Seq(Block)]
      BY <2>1, <2>3, <2>7 DEF TypeOK
    <3> QED BY <2>3, <2>6, <3>1, FileSet
  <2>10. TypeOK'
    BY <2>1, <2>3, <2>9, NextTypes DEF TypeOK, PC, WritePC
  <2>11. DirInv'
    BY <2>1, <2>3 DEF DirInv, CreatedPC, RotatePC
  <2>12. Base' = Base
    BY <2>1, LogFrame
  <2>13. CallInv'
    BY <2>1, <2>4, <2>5, <2>9, <2>12 DEF CallInv, RotatePC
  <2>14. Pre(b, b) /\ Pre(b, b \o t)
    BY <2>6, PreRefl, PreConcat
  <2>15. Pre(Base, live'[segSeq]) /\ Good(live'[segSeq])
    BY <2>5, <2>6, <2>9, <2>14 DEF Good, Between
  <2>16. resumed' = resumed
    BY <2>1, <2>3, ResumedSame
  <2>17. Born => CurInv'
    BY <2>1, <2>2, <2>3, <2>4, <2>15, <2>16, <1>CurRewritten DEF Born
  <2>18. Shape(live'[segSeq]) /\ Shape(sure[segSeq] \o maybe'[segSeq])
    BY <2>1, <2>3, <2>8, <2>9 DEF Shapes
  <2> QED BY <2>1, <2>2, <2>4, <2>9, <2>10, <2>11, <2>13, <2>15, <2>17, <2>18, <1>CurrentStep
\* Appends keep SureInv.
<1>SureAppend. ASSUME WalInv, SureInv, Next, WalInv',
                      AppendMany \/ WriteSome \/ WriteAll \/ SyncOk \/ AppendError \/ Cut \/ CutSync \/ CutError \/ RotateSegment
               PROVE  SureInv'
  <2> USE <1>SureAppend
  <2>1. Running /\ segSeq' = segSeq
    BY DEF AppendMany, WriteSome, WriteAll, SyncOk, AppendError, Cut, CutSync, CutError, RotateSegment,
         Running, OpenPC, walVars
  <2>2. TypeOK /\ segSeq \in Seg /\ live \in [Seg -> Seq(Block)] /\ maybe \in [Seg -> Seq(Block)]
    BY <2>1, RunningFacts DEF TypeOK
  <2>3. CASE AppendMany \/ AppendError \/ CutError \/ RotateSegment
    <3>1. live' = live /\ sure' = sure /\ maybe' = maybe
      BY <2>3 DEF AppendMany, AppendError, CutError, RotateSegment, fileVars
    <3> QED BY <2>1, <3>1, SureSame, SureCurrent DEF SureInv
  <2>4. CASE WriteSome \/ WriteAll \/ Cut
    <3>1. sure' = sure /\ pc' \in {"writing", "sync", "cut", "cutSync"}
      BY <2>4 DEF WriteSome, WriteAll, Cut
    <3>2. Running'
      BY <3>1 DEF Running, OpenPC
    <3>3. maybe'[segSeq] # <<>>
      BY <2>1, <3>1, <3>2 DEF WalInv, RunInv, CallInv
    <3>4. \A s \in Seg : s # segSeq => live'[s] = live[s] /\ maybe'[s] = maybe[s]
      <4>1. PICK x, y : live' = [live EXCEPT ![segSeq] = x] /\ (maybe' = maybe \/ maybe' = [maybe EXCEPT ![segSeq] = y])
        BY <2>4 DEF WriteSome, WriteAll, Cut, WriteTo, SetLen
      <4> QED BY <2>2, <4>1, OneSet
    <3>5. \A s \in Seg : SureOf(s)'
      BY <2>2, <3>1, <3>3, <3>4, SureFiles
    <3> QED BY <2>1, <3>1, <3>3, <3>5, SureCurrent DEF SureInv
  <2>5. CASE SyncOk \/ CutSync
    <3>1. SyncFile(segSeq) /\ live' = live
      BY <2>5 DEF SyncOk, CutSync
    <3>2. (\A s \in Seg : SureOf(s)') /\ sure'[segSeq] = live[segSeq]
      BY <2>2, <3>1, SureSync
    <3> QED BY <2>1, <3>2, CurrentNotEmpty DEF SureInv
  <2> QED BY <2>3, <2>4, <2>5
<1> QED
  <2> SUFFICES ASSUME Inv, Next, (AppendMany \/ WriteSome \/ WriteAll \/ SyncOk \/ AppendError \/ Cut \/ CutSync \/ 
                      CutError \/ RotateSegment) PROVE Inv'
    OBVIOUS
  <2>1. WalInv /\ SureInv
    BY DEF Inv
  <2>2. WalInv'
    BY <2>1, <1>AppendManyStep, <1>WriteSomeStep, <1>WriteAllStep, <1>SyncOkStep, <1>AppendErrorStep, <1>CutStep, <1>CutSyncStep, <1>CutErrorStep, <1>RotateSegmentStep
  <2> QED BY <2>1, <2>2, <1>SureAppend DEF Inv

-----------------------------------------------------------------------------
(* rotate_segment *)

\* The steps of rotate_segment preserve the invariant.
LEMMA RotatePreserves ==
  Inv /\ Next
  /\ (RotateSync \/ RotateCreate \/ RotateHeader \/ RotateHdrSync \/ RotateRemove \/ 
     RotateRemoveSync \/ RotateDir)
  => Inv'
\* rotate_segment syncs the current segment first.
<1>RotateSyncStep. ASSUME WalInv, Next, RotateSync
                   PROVE  WalInv'
  <2> USE <1>RotateSyncStep
  <2>1. /\ pc = "rotSync" /\ dir' = dir /\ ddir' = ddir /\ live' = live
        /\ segSeq' = segSeq /\ segLen' = segLen /\ log' = log /\ segOf' = segOf /\ tail' = tail
        /\ rotating' = rotating /\ offered' = offered /\ crashes' = crashes /\ kinds' = kinds /\ exposed' = exposed
        /\ \/ pc' = "rotCreate" /\ segSeq < MaxSeg /\ buf' = buf /\ poisoned' = poisoned /\ SyncFile(segSeq)
           \/ pc' = "ready" /\ buf' = <<>> /\ poisoned' = FALSE /\ SyncFile(segSeq)
           \/ pc' = "ready" /\ buf' = <<>> /\ poisoned' = FALSE /\ sure' = sure /\ maybe' = maybe
    BY DEF RotateSync, RotateTo, RotateFails, world, walVars, logVars
  <2>2. Running /\ Running' /\ pc \notin CreatedPC
    BY <2>1 DEF Running, OpenPC, CreatedPC
  <2>3. TypeOK /\ DirInv /\ CallInv /\ LogInv /\ segSeq \in Seg
    BY <2>2, RunningFacts
  <2>4. ~poisoned /\ live[segSeq] = Base /\ tail = <<>>
    BY <2>1, <2>3 DEF CallInv, RotatePC
  <2>5. LogInv' /\ Base' = Base /\ Older' = Older
    BY <2>1, <2>3, LogFrame
  <2>6. <<>> \in Seq(Rec) /\ resumed' \in BOOLEAN
    BY NextTypes
  <2>7. DirInv'
    BY <2>1, <2>3, <2>4 DEF DirInv, CreatedPC, RotatePC
  <2>8. CASE SyncFile(segSeq)
    <3>1. sure \in [Seg -> Seq(Block)] /\ maybe \in [Seg -> Seq(Block)] /\ live[segSeq] \in Seq(Block) /\ <<>> \in Seq(Block)
      BY <2>3, FileType, ShortFiles DEF TypeOK
    <3>2. /\ sure' \in [Seg -> Seq(Block)] /\ maybe' \in [Seg -> Seq(Block)]
          /\ sure'[segSeq] = live[segSeq] /\ maybe'[segSeq] = <<>>
      BY <2>3, <2>8, <3>1, FileSet DEF SyncFile
    <3>3. buf' \in Seq(Rec) /\ poisoned' = FALSE /\ pc' \in PC
      BY <2>1, <2>3, <2>4, <2>6 DEF TypeOK, PC, RotatePC
    <3>4. TypeOK'
      BY <2>1, <2>3, <2>6, <3>2, <3>3 DEF TypeOK
    <3>5. CallInv'
      <4>1. Synced(segSeq)'
        BY <2>1, <3>2 DEF Synced
      <4>2. pc' = "rotCreate" /\ rotating' = "append" => buf' # <<>>
        BY <2>1, <2>3 DEF CallInv, RotatePC
      <4>3. pc' \in {"rotCreate", "ready"}
        BY <2>1
      <4> QED BY <2>1, <2>4, <2>5, <3>3, <4>1, <4>2, <4>3 DEF CallInv, RotatePC
    <3> QED BY <2>1, <2>2, <2>4, <2>5, <2>7, <2>8, <3>4, <3>5, SyncCurrent
  <2>9. CASE ~SyncFile(segSeq)
    <3>1. pc' = "ready" /\ buf' = <<>> /\ poisoned' = FALSE /\ sure' = sure /\ maybe' = maybe
      BY <2>1, <2>9
    <3>2. TypeOK'
      BY <2>1, <2>3, <2>6, <3>1 DEF TypeOK, PC
    <3>3. CallInv'
      BY <2>1, <2>4, <2>5, <3>1 DEF CallInv, RotatePC
    <3> QED BY <2>1, <2>2, <2>7, <3>1, <3>2, <3>3, Still DEF fileVars, logVars
  <2> QED BY <2>8, <2>9
\* A step that changes the segment beside the current one only.
<1>BesideStep. ASSUME WalInv, Next, Running, Running', pc \in RotatePC \ {"rotSync"},
                      UNCHANGED <<segSeq, segLen, log, segOf, tail, exposed>>,
                      \A s \in Seg : s # segSeq + 1 => live'[s] = live[s] /\ sure'[s] = sure[s] /\ maybe'[s] = maybe[s],
                      \A s \in Seg : s # segSeq + 1 => (s \in dir' <=> s \in dir), ddir' = ddir \/ ddir' = dir,
                      Shape(live'[segSeq + 1]), Shape(sure'[segSeq + 1] \o maybe'[segSeq + 1]),
                      TypeOK', DirInv', CallInv', Born /\ segSeq + 1 \in dir' \cup ddir' => HalfBorn(segSeq + 1)'
               PROVE  WalInv'
  <2> USE <1>BesideStep
  <2>1. segSeq' = segSeq /\ segLen' = segLen /\ log' = log /\ segOf' = segOf /\ tail' = tail /\ exposed' = exposed
    OBVIOUS
  <2>2. /\ TypeOK /\ Shapes /\ ResumedInv /\ OpenInv /\ DirInv /\ CallInv /\ LogInv /\ Pre(Base, live[segSeq])
        /\ segSeq \in Seg /\ (exposed \/ Born) /\ pc # "openDir"
    BY RunningFacts
  <2>3. tail = <<>> /\ live[segSeq] = Base /\ Synced(segSeq) /\ segSeq < MaxSeg
    BY <2>2 DEF CallInv, DirInv, RotatePC
  <2>4. /\ segSeq + 1 \in Seg /\ segSeq # segSeq + 1 /\ 1 \in Seg /\ 1 # segSeq + 1
        /\ \A s \in 1..segSeq : s \in Seg /\ s # segSeq + 1
        /\ \A s \in 1..(segSeq - 1) : s \in 1..segSeq
        /\ \A s \in ddir' : s <= segSeq => s <= segSeq + 1
    <3>1. segSeq \in 1..MaxSeg /\ ddir' \subseteq 1..MaxSeg
      BY <2>2 DEF Seg, TypeOK
    <3> QED BY SMTT(30), <2>3, <3>1, WalAssumption DEF Seg
  <2>5. Base' = Base /\ Older' = Older /\ LogInv'
    BY <2>1, <2>2, LogFrame
  <2>6. live'[segSeq] = live[segSeq] /\ sure'[segSeq] = sure[segSeq] /\ maybe'[segSeq] = maybe[segSeq]
    BY <2>2, <2>4
  <2>7. resumed' = resumed
    BY <2>1, <2>2, <2>6, ResumedSame
  <2>8. Shapes'
    BY <2>2 DEF Shapes
  <2>9. OpenInv'
    <3>1. pc' \notin OpenPC
      BY DEF Running
    <3>2. 1 \notin dir' => Blank(1)'
      BY <2>2, <2>4 DEF OpenInv, Blank
    <3> QED BY <3>1, <3>2 DEF OpenInv, OpenPC
  <2>10. RunInv'
    BY <2>1, <2>2, <2>5, <2>6 DEF RunInv
  <2>11. ASSUME Born PROVE Born'
    <3>1. CurInv'
      BY <2>1, <2>6, <2>7, <2>11, CurFrame DEF Born
    <3>2. NextInv'
      BY <2>1, <2>3, <2>5, <2>6, <2>11 DEF NextInv, Synced
    <3>3. \A s \in 1..segSeq : s \in dir' /\ s \in ddir'
      BY <2>4, <2>11 DEF Born, OldInv
    <3>4. \A s \in dir' \cup ddir' : s <= segSeq + 1
      BY <2>1, <2>4 DEF DirInv
    <3>5. OldInv'
      BY <2>1, <2>2, <2>4, <2>5, <2>11, <3>3, <3>4, OldFrame DEF Born
    <3> QED BY <2>5, <3>1, <3>2, <3>5 DEF Born
  <2>12. DiskInv'
    <3>1. exposed \in BOOLEAN /\ exposed' = exposed
      BY <2>1, <2>2 DEF TypeOK
    <3>2. exposed => exposed'
      BY SMT, <3>1
    <3> QED BY <2>2, <2>11, <3>2 DEF DiskInv
  <2>13. CrashIsNotCorruption'
    BY DEF CrashIsNotCorruption, Running
  <2> QED BY <2>8, <2>9, <2>10, <2>12, <2>13, ResumedNext DEF WalInv
\* What holds at every step of rotate_segment after the first.
<1>RotateFacts. ASSUME WalInv, pc \in RotatePC \ {"rotSync"}
                PROVE  /\ Running /\ TypeOK /\ Shapes /\ DirInv /\ CallInv /\ ~poisoned /\ (exposed \/ Born)
                       /\ tail = <<>> /\ live[segSeq] = Base /\ Synced(segSeq)
                       /\ segSeq \in Seg /\ segSeq + 1 \in Seg /\ segSeq + 1 # segSeq /\ ~(segSeq + 1 <= segSeq)
                       /\ segSeq + 1 <= segSeq + 1
                       /\ \A s \in dir : s # segSeq + 1 => s <= segSeq
                       /\ segSeq + 1 \notin ddir
                       /\ Born /\ segSeq + 1 \in dir => HalfBorn(segSeq + 1)
  <2> USE <1>RotateFacts
  <2>1. Running
    BY DEF Running, RotatePC, OpenPC
  <2>2. TypeOK /\ Shapes /\ DirInv /\ CallInv /\ (exposed \/ Born) /\ segSeq \in Seg
    BY <2>1, RunningFacts
  <2>3. ~poisoned /\ tail = <<>> /\ live[segSeq] = Base /\ Synced(segSeq) /\ segSeq < MaxSeg
    BY <2>2 DEF CallInv, DirInv, RotatePC
  <2>4. dir \subseteq 1..MaxSeg /\ segSeq \in 1..MaxSeg /\ \A s \in dir : s <= segSeq + 1
    BY <2>2 DEF TypeOK, Seg, DirInv
  <2>5. /\ segSeq + 1 \in Seg /\ segSeq + 1 # segSeq /\ ~(segSeq + 1 <= segSeq) /\ segSeq + 1 <= segSeq + 1
        /\ \A s \in dir : s # segSeq + 1 => s <= segSeq
    BY SMTT(30), <2>3, <2>4, WalAssumption DEF Seg
  <2>6. segSeq + 1 \notin ddir
    BY <2>2, <2>5 DEF DirInv
  <2> QED BY <2>1, <2>2, <2>3, <2>5, <2>6 DEF Born, NextInv
\* What a step among them leaves of it.
<1>RotateAfter. ASSUME WalInv, pc \in RotatePC \ {"rotSync"}, UNCHANGED <<segSeq, segLen, log, segOf, tail>>,
                       live'[segSeq] = live[segSeq], sure'[segSeq] = sure[segSeq], maybe'[segSeq] = maybe[segSeq],
                       \/ pc' = "ready"
                       \/ pc' \in RotatePC \ {"rotSync"} /\ UNCHANGED <<buf, rotating, poisoned>>,
                       pc' = "rotHeader" => live'[segSeq + 1] = <<>> /\ sure'[segSeq + 1] = <<>> /\ maybe'[segSeq + 1] = <<>>,
                       pc' = "rotHdrSync" => live'[segSeq + 1] = <<Hdr>>,
                       pc' = "rotDir" =>
                         live'[segSeq + 1] = <<Hdr>> /\ sure'[segSeq + 1] = <<Hdr>> /\ maybe'[segSeq + 1] = <<>>
                PROVE  CallInv' /\ Running'
  <2> USE <1>RotateAfter
  <2>1. segSeq' = segSeq /\ tail' = tail
    OBVIOUS
  <2>2. CallInv /\ tail = <<>> /\ live[segSeq] = Base /\ Synced(segSeq) /\ ~poisoned
    BY <1>RotateFacts
  <2>3. Base' = Base
    BY LogFrame
  <2>4. Synced(segSeq)' /\ live'[segSeq'] = Base' /\ tail' = <<>>
    BY <2>1, <2>2, <2>3 DEF Synced
  <2>5. CASE pc' = "ready"
    BY <2>4, <2>5 DEF CallInv, Running, RotatePC, OpenPC
  <2>6. CASE pc' \in RotatePC \ {"rotSync"} /\ UNCHANGED <<buf, rotating, poisoned>>
    <3>1. buf' = buf /\ rotating' = rotating /\ poisoned' = poisoned
      BY <2>6
    <3>2. /\ pc' \notin {"writing", "sync", "cut", "cutSync"} /\ pc' # "sync" /\ pc' # "cutSync" /\ pc' # "write"
          /\ pc' \notin OpenPC \cup {"down", "refused"}
      BY <2>6 DEF RotatePC, OpenPC
    <3>3. ~poisoned'
      BY <2>2, <3>1
    <3>4. rotating' = "append" => buf' # <<>>
      BY <2>2, <3>1 DEF CallInv
    <3>5. pc' = "rotHeader" => Blank(segSeq + 1)'
      BY <2>1 DEF Blank
    <3>6. pc' = "rotDir" => live'[segSeq' + 1] = <<Hdr>> /\ Synced(segSeq + 1)'
      BY <2>1 DEF Synced
    <3>7. pc' = "rotHdrSync" => live'[segSeq' + 1] = <<Hdr>>
      BY <2>1
    <3> QED BY <2>4, <3>2, <3>3, <3>4, <3>5, <3>6, <3>7 DEF CallInv, Running
  <2> QED BY <2>5, <2>6
\* The new segment is created, or found to be there.
<1>RotateCreateStep. ASSUME WalInv, Next, RotateCreate
                     PROVE  WalInv'
  <2> USE <1>RotateCreateStep
  <2>1. pc = "rotCreate" /\ pc \in RotatePC \ {"rotSync"} /\ pc \notin CreatedPC
    BY DEF RotateCreate, RotatePC, CreatedPC
  <2>2. /\ Running /\ TypeOK /\ Shapes /\ DirInv /\ CallInv /\ ~poisoned /\ (exposed \/ Born)
        /\ segSeq \in Seg /\ segSeq + 1 \in Seg /\ segSeq + 1 # segSeq /\ segSeq + 1 \notin ddir
    BY <2>1, <1>RotateFacts
  <2>3. segSeq + 1 \notin dir
    BY <2>1, <2>2 DEF DirInv
  <2>4. CASE UNCHANGED fileVars /\ RotateFails(segSeq + 1 \in dir)
    <3>1. /\ pc' = "ready" /\ poisoned' = (segSeq + 1 \in dir) /\ buf' = <<>> /\ UNCHANGED fileVars
          /\ segSeq' = segSeq /\ segLen' = segLen /\ log' = log /\ segOf' = segOf /\ tail' = tail
          /\ rotating' = rotating /\ offered' = offered /\ crashes' = crashes /\ kinds' = kinds /\ exposed' = exposed
      BY <2>4 DEF RotateFails, logVars, world
    <3>2. dir' = dir /\ ddir' = ddir /\ live' = live /\ sure' = sure /\ maybe' = maybe
      BY <3>1 DEF fileVars
    <3>3. CallInv' /\ Running'
      BY <2>1, <3>1, <3>2, <1>RotateAfter
    <3>4. TypeOK'
      <4>1. poisoned' \in BOOLEAN
        BY SMT, <3>1
      <4> QED BY <2>2, <3>1, <3>2, <4>1, NextTypes DEF TypeOK, PC
    <3>5. DirInv'
      BY <2>2, <2>3, <3>1, <3>2 DEF DirInv, CreatedPC, RotatePC
    <3> QED BY <2>2, <3>1, <3>2, <3>3, <3>4, <3>5, Still DEF logVars
  <2>5. CASE /\ dir' = dir \cup {segSeq + 1} /\ ddir' = ddir
             /\ live' = [live EXCEPT ![segSeq + 1] = <<>>]
             /\ sure' = [sure EXCEPT ![segSeq + 1] = <<>>]
             /\ maybe' = [maybe EXCEPT ![segSeq + 1] = <<>>]
             /\ RotateTo("rotHeader") \/ RotateFails(TRUE)
    <3>1. /\ segSeq' = segSeq /\ segLen' = segLen /\ log' = log /\ segOf' = segOf /\ tail' = tail
          /\ rotating' = rotating /\ offered' = offered /\ crashes' = crashes /\ kinds' = kinds /\ exposed' = exposed
      BY <2>5 DEF RotateFails, RotateTo, walVars, logVars, world
    <3>2. \/ pc' = "ready" /\ poisoned' = TRUE /\ buf' = <<>>
          \/ pc' = "rotHeader" /\ poisoned' = poisoned /\ buf' = buf
      BY <2>5 DEF RotateFails, RotateTo, walVars
    <3>3. /\ <<>> \in Seq(Block) /\ live \in [Seg -> Seq(Block)] /\ sure \in [Seg -> Seq(Block)]
          /\ maybe \in [Seg -> Seq(Block)]
      BY <2>2, ShortFiles DEF TypeOK
    <3>4. /\ live' \in [Seg -> Seq(Block)] /\ live'[segSeq + 1] = <<>>
          /\ \A s \in Seg : s # segSeq + 1 => live'[s] = live[s]
      BY <2>2, <2>5, <3>3, FileSet
    <3>5. /\ sure' \in [Seg -> Seq(Block)] /\ sure'[segSeq + 1] = <<>>
          /\ \A s \in Seg : s # segSeq + 1 => sure'[s] = sure[s]
      BY <2>2, <2>5, <3>3, FileSet
    <3>6. /\ maybe' \in [Seg -> Seq(Block)] /\ maybe'[segSeq + 1] = <<>>
          /\ \A s \in Seg : s # segSeq + 1 => maybe'[s] = maybe[s]
      BY <2>2, <2>5, <3>3, FileSet
    <3>7. dir' \subseteq Seg
      BY <2>2, <2>5 DEF TypeOK
    <3>8. TypeOK'
      BY <2>2, <2>5, <3>1, <3>2, <3>4, <3>5, <3>6, <3>7, NextTypes DEF TypeOK, PC, RotatePC
    <3>9. \A s \in dir' : s <= segSeq + 1
      BY <2>1, <2>5, <2>2, <1>RotateFacts DEF DirInv
    <3>10. segSeq < MaxSeg
      BY <2>1, <2>2 DEF DirInv
    <3>11. DirInv'
      BY <2>2, <2>5, <3>1, <3>2, <3>9, <3>10 DEF DirInv, CreatedPC, RotatePC
    <3>12. CallInv' /\ Running'
      <4>1. \/ pc' = "ready"
            \/ pc' \in RotatePC \ {"rotSync"} /\ UNCHANGED <<buf, rotating, poisoned>>
        BY <3>1, <3>2 DEF RotatePC
      <4>2. pc' # "rotHdrSync" /\ pc' # "rotDir"
        BY <3>2
      <4> QED BY <2>1, <2>2, <3>1, <3>4, <3>5, <3>6, <4>1, <4>2, <1>RotateAfter
    <3>13. HalfBorn(segSeq + 1)'
      BY <3>1, <3>4, <3>5, <3>6 DEF HalfBorn, Half
    <3>14. Shape(live'[segSeq + 1]) /\ Shape(sure'[segSeq + 1] \o maybe'[segSeq + 1])
      BY <3>3, <3>4, <3>5, <3>6, ShortFiles, PreRefl
    <3>15. (\A s \in Seg : s # segSeq + 1 => (s \in dir' <=> s \in dir)) /\ ddir' = ddir
      BY <2>5
    <3> QED BY <2>1, <2>2, <3>1, <3>4, <3>5, <3>6, <3>8, <3>11, <3>12, <3>13, <3>14, <3>15, <1>BesideStep
  <2> QED BY <2>4, <2>5 DEF RotateCreate
\* What part of a header a write can leave.
<1>HeaderPart. ASSUME NEW part \in Partial(<<Hdr>>)
               PROVE  Half(part)
  <2> USE <1>HeaderPart
  <2>1. {Hdr} \in SUBSET Block /\ Bad \notin {Hdr} /\ <<Hdr>> \in Seq({Hdr}) /\ Len(<<Hdr>>) = 1
    BY SMT, BlockFacts
  <2>2. /\ part \in Seq(Block) /\ Len(part) <= Len(<<Hdr>>)
        /\ \A i \in 1..Len(part) : part[i] \in {Hdr} \cup {Bad}
    BY <2>1, PartialFacts
  <2>3. Len(part) = 0 \/ Len(part) = 1
    BY SMT, <2>1, <2>2
  <2>4. CASE Len(part) = 0
    BY SMT, <2>2, <2>4 DEF Half
  <2>5. CASE Len(part) = 1
    <3>1. part = <<part[1]>>
      BY SMT, <2>2, <2>5
    <3>2. part[1] = Hdr \/ part[1] = Bad
      BY SMT, <2>2, <2>5
    <3> QED BY <3>1, <3>2 DEF Half
  <2> QED BY <2>3, <2>4, <2>5
\* The three files a creation can leave.
<1>HalfFacts. ASSUME NEW f, Half(f)
              PROVE  f \in Seq(Block) /\ Shape(f) /\ <<>> \o <<Hdr>> = <<Hdr>>
  <2> USE <1>HalfFacts
  <2>1. <<>> \o <<Hdr>> = <<Hdr>>
    BY SMT
  <2> QED BY <2>1, ShortFiles DEF Half
\* The header of the new segment is written, or some of it.
<1>RotateHeaderStep. ASSUME WalInv, Next, RotateHeader
                     PROVE  WalInv'
  <2> USE <1>RotateHeaderStep
  <2>1. pc = "rotHeader" /\ pc \in RotatePC \ {"rotSync"} /\ dir' = dir /\ ddir' = ddir /\ sure' = sure
    BY DEF RotateHeader, RotatePC
  <2>2. /\ Running /\ TypeOK /\ Shapes /\ DirInv /\ CallInv /\ ~poisoned
        /\ segSeq \in Seg /\ segSeq + 1 \in Seg /\ segSeq + 1 # segSeq
    BY <2>1, <1>RotateFacts
  <2>3. Blank(segSeq + 1)
    BY <2>1, <2>2 DEF CallInv
  <2>4. PICK part : /\ Half(part) /\ WriteTo(segSeq + 1, <<Hdr>>, part)
                    /\ RotateTo("rotRemove") \/ (RotateTo("rotHdrSync") /\ part = <<Hdr>>)
    <3>1. CASE WriteTo(segSeq + 1, <<Hdr>>, <<Hdr>>) /\ RotateTo("rotHdrSync")
      BY <3>1 DEF Half
    <3>2. CASE \E part \in Partial(<<Hdr>>) : WriteTo(segSeq + 1, <<Hdr>>, part) /\ RotateTo("rotRemove")
      BY <3>2, <1>HeaderPart
    <3> QED BY <3>1, <3>2 DEF RotateHeader
  <2>5. /\ segSeq' = segSeq /\ segLen' = segLen /\ log' = log /\ segOf' = segOf /\ tail' = tail
        /\ rotating' = rotating /\ offered' = offered /\ crashes' = crashes /\ kinds' = kinds /\ exposed' = exposed
        /\ buf' = buf /\ poisoned' = poisoned
        /\ pc' = "rotRemove" \/ (pc' = "rotHdrSync" /\ part = <<Hdr>>)
    BY <2>4 DEF RotateTo, walVars, logVars, world
  <2>6. part \in Seq(Block) /\ Shape(part) /\ <<>> \o <<Hdr>> = <<Hdr>>
    BY <2>4, <1>HalfFacts
  <2>7. /\ live' \in [Seg -> Seq(Block)] /\ live'[segSeq + 1] = part
        /\ \A s \in Seg : s # segSeq + 1 => live'[s] = live[s]
        /\ maybe' \in [Seg -> Seq(Block)] /\ maybe'[segSeq + 1] = <<Hdr>>
        /\ \A s \in Seg : s # segSeq + 1 => maybe'[s] = maybe[s]
    BY <2>2, <2>3, <2>4, <2>6, HeaderWrite
  <2>8. sure'[segSeq + 1] = <<>>
    BY <2>1, <2>3 DEF Blank
  <2>9. TypeOK'
    BY <2>1, <2>2, <2>5, <2>7, NextTypes DEF TypeOK, PC, RotatePC
  <2>10. DirInv'
    BY <2>1, <2>2, <2>5 DEF DirInv, CreatedPC, RotatePC
  <2>11. CallInv' /\ Running'
    <3>1. pc' \in RotatePC \ {"rotSync"} /\ UNCHANGED <<buf, rotating, poisoned>>
      BY <2>5 DEF RotatePC
    <3>2. pc' # "rotHeader" /\ pc' # "rotDir"
      BY <2>5
    <3>3. pc' = "rotHdrSync" => live'[segSeq + 1] = <<Hdr>>
      BY <2>5, <2>7
    <3> QED BY <2>1, <2>2, <2>5, <2>7, <3>1, <3>2, <3>3, <1>RotateAfter
  <2>12. HalfBorn(segSeq + 1)'
    BY <2>4, <2>5, <2>7, <2>8, ShortFiles DEF HalfBorn, Half
  <2>13. Shape(live'[segSeq + 1]) /\ Shape(sure'[segSeq + 1] \o maybe'[segSeq + 1])
    BY <2>6, <2>7, <2>8, ShortFiles
  <2> QED BY <2>1, <2>2, <2>5, <2>7, <2>9, <2>10, <2>11, <2>12, <2>13, <1>BesideStep
\* The header is synced, or not.
<1>RotateHdrSyncStep. ASSUME WalInv, Next, RotateHdrSync
                      PROVE  WalInv'
  <2> USE <1>RotateHdrSyncStep
  <2>1. pc = "rotHdrSync" /\ pc \in RotatePC \ {"rotSync"} /\ dir' = dir /\ ddir' = ddir /\ live' = live
    BY DEF RotateHdrSync, RotatePC
  <2>2. /\ Running /\ TypeOK /\ Shapes /\ DirInv /\ CallInv /\ ~poisoned
        /\ segSeq \in Seg /\ segSeq + 1 \in Seg /\ segSeq + 1 # segSeq
    BY <2>1, <1>RotateFacts
  <2>3. live[segSeq + 1] = <<Hdr>>
    BY <2>1, <2>2 DEF CallInv
  <2>4. /\ segSeq' = segSeq /\ segLen' = segLen /\ log' = log /\ segOf' = segOf /\ tail' = tail
        /\ rotating' = rotating /\ offered' = offered /\ crashes' = crashes /\ kinds' = kinds /\ exposed' = exposed
        /\ buf' = buf /\ poisoned' = poisoned /\ (pc' = "rotDir" \/ pc' = "rotRemove")
    BY DEF RotateHdrSync, RotateTo, walVars, logVars, world
  <2>5. DirInv'
    BY <2>1, <2>2, <2>4 DEF DirInv, CreatedPC, RotatePC
  <2>6. pc' \in RotatePC \ {"rotSync"} /\ UNCHANGED <<buf, rotating, poisoned>> /\ pc' # "rotHeader" /\ pc' # "rotHdrSync"
    BY <2>4 DEF RotatePC
  <2>7. CASE UNCHANGED <<sure, maybe>> /\ RotateTo("rotRemove")
    <3>1. sure' = sure /\ maybe' = maybe /\ pc' = "rotRemove"
      BY <2>7 DEF RotateTo
    <3>2. TypeOK'
      BY <2>1, <2>2, <2>4, <3>1, NextTypes DEF TypeOK, PC, RotatePC
    <3>3. pc' # "rotDir"
      BY <3>1
    <3>4. CallInv' /\ Running'
      BY <2>1, <2>2, <2>4, <2>6, <3>1, <3>3, <1>RotateAfter
    <3> QED BY <2>1, <2>2, <2>4, <2>5, <3>1, <3>2, <3>4, Still DEF fileVars, logVars
  <2>8. CASE SyncFile(segSeq + 1) /\ RotateTo("rotDir")
    <3>1. /\ sure' = [sure EXCEPT ![segSeq + 1] = <<Hdr>>] /\ maybe' = [maybe EXCEPT ![segSeq + 1] = <<>>]
          /\ pc' = "rotDir"
      BY <2>3, <2>8 DEF RotateTo, SyncFile
    <3>2. /\ <<>> \in Seq(Block) /\ <<Hdr>> \in Seq(Block) /\ sure \in [Seg -> Seq(Block)]
          /\ maybe \in [Seg -> Seq(Block)]
      BY <2>2, ShortFiles DEF TypeOK
    <3>3. /\ sure' \in [Seg -> Seq(Block)] /\ sure'[segSeq + 1] = <<Hdr>>
          /\ \A s \in Seg : s # segSeq + 1 => sure'[s] = sure[s]
      BY <2>2, <3>1, <3>2, FileSet
    <3>4. /\ maybe' \in [Seg -> Seq(Block)] /\ maybe'[segSeq + 1] = <<>>
          /\ \A s \in Seg : s # segSeq + 1 => maybe'[s] = maybe[s]
      BY <2>2, <3>1, <3>2, FileSet
    <3>5. TypeOK'
      BY <2>1, <2>2, <2>4, <3>1, <3>3, <3>4, NextTypes DEF TypeOK, PC, RotatePC
    <3>6. CallInv' /\ Running'
      BY <2>1, <2>2, <2>3, <2>4, <2>6, <3>3, <3>4, <1>RotateAfter
    <3>7. HalfBorn(segSeq + 1)'
      BY <2>1, <2>3, <2>4, <3>3, <3>4 DEF HalfBorn, Half
    <3>8. Shape(live'[segSeq + 1]) /\ Shape(sure'[segSeq + 1] \o maybe'[segSeq + 1])
      BY <2>1, <2>3, <3>2, <3>3, <3>4, ShortFiles, PreRefl
    <3> QED BY <2>1, <2>2, <2>4, <2>5, <3>3, <3>4, <3>5, <3>6, <3>7, <3>8, <1>BesideStep
  <2> QED BY <2>7, <2>8 DEF RotateHdrSync
\* The half-born segment is removed, or stays.
<1>RotateRemoveStep. ASSUME WalInv, Next, RotateRemove
                     PROVE  WalInv'
  <2> USE <1>RotateRemoveStep
  <2>1. pc = "rotRemove" /\ pc \in RotatePC \ {"rotSync"} /\ ddir' = ddir /\ live' = live /\ sure' = sure /\ maybe' = maybe
    BY DEF RotateRemove, RotatePC
  <2>2. /\ Running /\ TypeOK /\ Shapes /\ DirInv /\ CallInv /\ ~poisoned
        /\ segSeq \in Seg /\ segSeq + 1 \in Seg /\ segSeq + 1 # segSeq /\ segSeq + 1 \notin ddir
    BY <2>1, <1>RotateFacts
  <2>3. /\ segSeq' = segSeq /\ segLen' = segLen /\ log' = log /\ segOf' = segOf /\ tail' = tail
        /\ rotating' = rotating /\ offered' = offered /\ crashes' = crashes /\ kinds' = kinds /\ exposed' = exposed
    BY DEF RotateRemove, RotateTo, RotateFails, walVars, logVars, world
  <2>4. CASE dir' = dir /\ RotateFails(TRUE)
    <3>1. dir' = dir /\ pc' = "ready" /\ poisoned' = TRUE /\ buf' = <<>>
      BY <2>4 DEF RotateFails
    <3>2. TypeOK'
      BY <2>1, <2>2, <2>3, <3>1, NextTypes DEF TypeOK, PC
    <3>3. CallInv' /\ Running'
      BY <2>1, <2>2, <2>3, <3>1, <1>RotateAfter
    <3>4. DirInv'
      BY <2>1, <2>2, <2>3, <3>1 DEF DirInv, CreatedPC, RotatePC
    <3> QED BY <2>1, <2>2, <2>3, <3>1, <3>2, <3>3, <3>4, Still DEF fileVars, logVars
  <2>5. CASE dir' = dir \ {segSeq + 1} /\ RotateTo("rotRemoveSync")
    <3>1. dir' = dir \ {segSeq + 1} /\ pc' = "rotRemoveSync" /\ poisoned' = poisoned /\ buf' = buf
      BY <2>5 DEF RotateTo, walVars
    <3>2. TypeOK'
      <4>1. dir' \subseteq Seg
        BY <2>2, <3>1 DEF TypeOK
      <4> QED BY <2>1, <2>2, <2>3, <3>1, <4>1, NextTypes DEF TypeOK, PC, RotatePC
    <3>3. CallInv' /\ Running'
      <4>1. pc' \in RotatePC \ {"rotSync"} /\ UNCHANGED <<buf, rotating, poisoned>>
        BY <2>3, <3>1 DEF RotatePC
      <4>2. pc' # "rotHeader" /\ pc' # "rotDir" /\ pc' # "rotHdrSync"
        BY <3>1
      <4> QED BY <2>1, <2>2, <2>3, <4>1, <4>2, <1>RotateAfter
    <3>4. DirInv'
      BY <2>1, <2>2, <2>3, <3>1 DEF DirInv, CreatedPC, RotatePC
    <3>5. segSeq + 1 \notin dir' \cup ddir'
      BY <2>1, <2>2, <3>1
    <3>6. \A s \in Seg : s # segSeq + 1 => (s \in dir' <=> s \in dir)
      BY <2>1, <3>1
    <3>7. Shape(live'[segSeq + 1]) /\ Shape(sure'[segSeq + 1] \o maybe'[segSeq + 1])
      BY <2>1, <2>2 DEF Shapes
    <3> QED BY <2>1, <2>2, <2>3, <3>2, <3>3, <3>4, <3>5, <3>6, <3>7, <1>BesideStep
  <2> QED BY <2>4, <2>5 DEF RotateRemove
\* The directory is synced after the removal, or not.
<1>RotateRemoveSyncStep. ASSUME WalInv, Next, RotateRemoveSync
                         PROVE  WalInv'
  <2> USE <1>RotateRemoveSyncStep
  <2>1. /\ pc = "rotRemoveSync" /\ pc \in RotatePC \ {"rotSync"} /\ pc \notin CreatedPC
        /\ dir' = dir /\ live' = live /\ sure' = sure /\ maybe' = maybe
    BY DEF RotateRemoveSync, RotatePC, CreatedPC
  <2>2. /\ Running /\ TypeOK /\ Shapes /\ DirInv /\ CallInv /\ ~poisoned
        /\ segSeq \in Seg /\ segSeq + 1 \in Seg /\ segSeq + 1 # segSeq /\ segSeq + 1 \notin ddir
    BY <2>1, <1>RotateFacts
  <2>3. /\ segSeq' = segSeq /\ segLen' = segLen /\ log' = log /\ segOf' = segOf /\ tail' = tail
        /\ rotating' = rotating /\ offered' = offered /\ crashes' = crashes /\ kinds' = kinds /\ exposed' = exposed
        /\ pc' = "ready" /\ buf' = <<>> /\ poisoned' \in BOOLEAN
    BY DEF RotateRemoveSync, RotateFails, logVars, world
  <2>4. segSeq + 1 \notin dir
    BY <2>1, <2>2 DEF DirInv
  <2>5. ddir' = dir \/ ddir' = ddir
    BY DEF RotateRemoveSync
  <2>6. TypeOK'
    BY <2>1, <2>2, <2>3, <2>5, NextTypes DEF TypeOK, PC
  <2>7. CallInv' /\ Running'
    BY <2>1, <2>2, <2>3, <1>RotateAfter
  <2>8. \A s \in ddir' : s <= segSeq
    <3>1. \A s \in dir : s # segSeq + 1 => s <= segSeq
      BY <2>1, <1>RotateFacts
    <3>2. \A s \in ddir : s <= segSeq
      BY <2>2 DEF DirInv
    <3>3. \A s \in dir : s <= segSeq
      BY <2>4, <3>1
    <3> QED BY <2>5, <3>2, <3>3
  <2>9. DirInv'
    BY <2>1, <2>2, <2>3, <2>4, <2>5, <2>8 DEF DirInv, CreatedPC, RotatePC
  <2>10. segSeq + 1 \notin dir' \cup ddir'
    BY <2>1, <2>2, <2>4, <2>5
  <2>11. \A s \in Seg : s # segSeq + 1 => (s \in dir' <=> s \in dir)
    BY <2>1
  <2>12. Shape(live'[segSeq + 1]) /\ Shape(sure'[segSeq + 1] \o maybe'[segSeq + 1])
    BY <2>1, <2>2 DEF Shapes
  <2> QED BY <2>1, <2>2, <2>3, <2>5, <2>6, <2>7, <2>9, <2>10, <2>11, <2>12, <1>BesideStep
\* A log of which the current segment has no record yet.
<1>EmptySegment. ASSUME NEW lg \in Seq(Rec)
                 PROVE  /\ CurrentOf(lg, 1) = <<Hdr>> /\ Len(lg) + 1 - 1 = Len(lg) /\ SubSeq(lg, 1, Len(lg)) = lg
                        /\ Len(lg) \in Nat /\ 1 \in Nat /\ 1 >= 1 /\ 1 <= Len(lg) + 1
  <2> USE <1>EmptySegment
  <2>1. Len(lg) \in Nat /\ Len(lg) + 1 - 1 = Len(lg) /\ SubSeq(lg, 1, Len(lg)) = lg /\ 1 <= Len(lg) + 1
    BY SMT
  <2>2. SubSeq(lg, Len(lg) + 1, Len(lg)) = <<>>
    BY SMT, <2>1
  <2>3. <<Hdr>> \o <<>> = <<Hdr>>
    BY ShortFiles, PreRefl
  <2>4. 1 \in Nat /\ 1 >= 1
    BY SMT
  <2> QED BY <2>1, <2>2, <2>3, <2>4 DEF CurrentOf
\* The directory is synced and the new segment becomes the current one.
<1>RotateDirStep. ASSUME WalInv, Next, RotateDir
                  PROVE  WalInv'
  <2> USE <1>RotateDirStep
  <2>1. pc = "rotDir" /\ pc \in RotatePC \ {"rotSync"} /\ dir' = dir /\ live' = live /\ sure' = sure /\ maybe' = maybe
    BY DEF RotateDir, RotatePC
  <2>2. /\ Running /\ TypeOK /\ Shapes /\ DirInv /\ CallInv /\ ~poisoned /\ (exposed \/ Born)
        /\ tail = <<>> /\ live[segSeq] = Base /\ Synced(segSeq)
        /\ segSeq \in Seg /\ segSeq + 1 \in Seg /\ segSeq + 1 # segSeq
    BY <2>1, <1>RotateFacts
  <2>3. LogInv /\ OpenInv
    BY <2>2, RunningFacts
  <2>4. live[segSeq + 1] = <<Hdr>> /\ Synced(segSeq + 1) /\ segSeq + 1 \in dir
    BY <2>1, <2>2 DEF CallInv, DirInv, CreatedPC
  <2>5. CASE UNCHANGED ddir /\ RotateFails(TRUE)
    <3>1. /\ segSeq' = segSeq /\ segLen' = segLen /\ log' = log /\ segOf' = segOf /\ tail' = tail
          /\ rotating' = rotating /\ offered' = offered /\ crashes' = crashes /\ kinds' = kinds /\ exposed' = exposed
          /\ ddir' = ddir /\ pc' = "ready" /\ poisoned' = TRUE /\ buf' = <<>>
      BY <2>5 DEF RotateFails, logVars, world
    <3>2. TypeOK'
      BY <2>1, <2>2, <3>1, NextTypes DEF TypeOK, PC
    <3>3. CallInv' /\ Running'
      BY <2>1, <2>2, <3>1, <1>RotateAfter
    <3>4. DirInv'
      BY <2>1, <2>2, <3>1 DEF DirInv, CreatedPC, RotatePC
    <3> QED BY <2>1, <2>2, <3>1, <3>2, <3>3, <3>4, Still DEF fileVars, logVars
  <2>6. CASE /\ ddir' = dir
             /\ segSeq' = segSeq + 1
             /\ segLen' = 1
             /\ pc' = IF rotating = "append" THEN "write" ELSE "ready"
             /\ UNCHANGED <<poisoned, logVars, buf, rotating, offered, crashes, world>>
    <3>1. /\ ddir' = dir /\ segSeq' = segSeq + 1 /\ segLen' = 1 /\ log' = log /\ segOf' = segOf /\ tail' = tail
          /\ rotating' = rotating /\ offered' = offered /\ crashes' = crashes /\ kinds' = kinds /\ exposed' = exposed
          /\ poisoned' = poisoned /\ buf' = buf
          /\ (pc' = "write" /\ rotating = "append") \/ pc' = "ready"
      BY <2>6 DEF logVars, world
    <3>2. Running' /\ pc' \notin RotatePC /\ pc' \notin CreatedPC /\ pc' \notin OpenPC
      BY <3>1 DEF Running, RotatePC, CreatedPC, OpenPC
    <3>3. /\ segSeq \in 1..MaxSeg /\ dir \subseteq 1..MaxSeg /\ \A s \in dir : s <= segSeq + 1
      BY <2>2 DEF TypeOK, Seg, DirInv
    <3>4. /\ 1 \in Nat /\ ~(segSeq' + 1 <= segSeq + 1) /\ segSeq' - 1 = segSeq
          /\ \A s \in dir : s <= segSeq' + 1
          /\ \A s \in 1..segSeq' : s = segSeq + 1 \/ s \in 1..segSeq
          /\ \A s \in 1..segSeq : s = segSeq \/ s \in 1..(segSeq - 1)
          /\ \A s \in Seg : s <= segSeq => s <= segSeq' /\ s # segSeq'
      BY SMTT(30), <3>1, <3>3, WalAssumption DEF Seg
    <3>5. TypeOK'
      BY <2>1, <2>2, <3>1, <3>4, NextTypes DEF TypeOK, PC, WritePC
    <3>6. segSeq' + 1 \notin dir
      BY <3>3, <3>4
    <3>7. DirInv'
      BY <2>1, <2>4, <3>1, <3>2, <3>3, <3>4, <3>6 DEF DirInv
    <3>8. log \in Seq(Rec) /\ segOf \in Seq(Seg) /\ Len(segOf) = Len(log) /\ \A i \in 1..Len(log) : segOf[i] <= segSeq
      BY <2>2, <2>3 DEF TypeOK, LogInv
    <3>9. Base' = <<Hdr>> /\ Older' = Len(log)
      BY <3>1, <3>8, <1>EmptySegment DEF Base, Older, CurrentOf
    <3>10. LogInv'
      <4>1. \A i \in 1..Len(log) : segOf[i] <= segSeq' /\ segOf[i] # segSeq'
        <5>1. \A i \in 1..Len(log) : segOf[i] \in Seg
          BY SMT, <3>8
        <5> QED BY <3>4, <3>8, <5>1
      <4>2. \A i \in 1..Len(log) : ~(i > Len(log))
        BY SMT, <3>8
      <4> QED BY <3>1, <3>8, <3>9, <4>1, <4>2, <1>EmptySegment DEF LogInv
    <3>11. live'[segSeq'] = Base' /\ sure'[segSeq'] = Base' /\ maybe'[segSeq'] = <<>> /\ tail' = <<>>
      BY <2>1, <2>2, <2>4, <3>1, <3>9 DEF Synced
    <3>12. CallInv'
      <4>1. pc' = "write" => buf' # <<>>
        BY <2>1, <2>2, <3>1 DEF CallInv
      <4>2. ~poisoned'
        BY <2>2, <3>1
      <4>3. pc' \notin {"writing", "sync", "cut", "cutSync"}
        BY <3>1
      <4> QED BY <3>2, <3>11, <4>1, <4>2, <4>3 DEF CallInv, RotatePC
    <3>13. Shapes'
      BY <2>1, <2>2 DEF Shapes
    <3>14. OpenInv'
      BY <2>1, <2>3, <3>2 DEF OpenInv, OpenPC, Blank
    <3>15. RunInv'
      <4>1. Pre(Base', live'[segSeq'])
        BY <3>9, <3>11, ShortFiles, PreRefl
      <4> QED BY <3>7, <3>10, <3>12, <4>1 DEF RunInv
    <3>16. ASSUME Born PROVE Born'
      <4>1. CurInv'
        BY <3>5, <3>10, <3>11, CurSynced
      <4>2. NextInv'
        BY <2>1, <3>1, <3>6 DEF NextInv
      <4>3. OldInv
        BY <3>16 DEF Born
      <4>4. \A s \in 1..segSeq : Synced(s) /\ Clean(live[s])
        BY <2>2, <2>3, <3>4, <4>3, BaseFacts DEF OldInv
      <4>5. \A s \in 1..(segSeq' - 1) : Synced(s)' /\ Clean(live'[s])
        BY <2>1, <3>4, <4>4 DEF Synced
      <4>6. \A s \in 1..segSeq' : s \in dir' /\ s \in ddir'
        BY <2>1, <2>4, <3>1, <3>4, <4>3 DEF OldInv
      <4>7. Replayed[segSeq] = log /\ ReplayedFrom[segSeq] = segOf
        <5>1. Base \in Seq(Block) /\ <<>> \in Seq(Rec) /\ Base \o <<>> = Base /\ log \o <<>> = log
          <6>1. log \o <<>> = log
            BY <3>8, SeqWider, PreRefl
          <6> QED BY <2>2, <2>3, <6>1, BaseFacts, PreRefl, NextTypes
        <5>2. /\ Replayed[segSeq] = log \o <<>>
              /\ ReplayedFrom[segSeq] = segOf \o [i \in 1..Len(<<>>) |-> segSeq]
          BY <2>2, <2>3, <4>3, <5>1, ReplayCurrent
        <5>3. segOf \o [i \in 1..Len(<<>>) |-> segSeq] = segOf
          BY SMT, <3>8
        <5> QED BY <5>1, <5>2, <5>3
      <4>8. SubSeq(log', 1, Older') = log /\ SubSeq(segOf', 1, Older') = segOf
        <5>1. SubSeq(log, 1, Len(log)) = log
          BY <3>8, <1>EmptySegment
        <5>2. SubSeq(segOf, 1, Len(segOf)) = segOf
          BY SMT, <3>8
        <5> QED BY <3>1, <3>8, <3>9, <5>1, <5>2
      <4>9. Replayed' = Replayed /\ ReplayedFrom' = ReplayedFrom
        BY <2>1, RepIs
      <4>10. /\ Replayed'[segSeq' - 1] = SubSeq(log', 1, Older')
             /\ ReplayedFrom'[segSeq' - 1] = SubSeq(segOf', 1, Older')
        BY <3>4, <4>7, <4>8, <4>9
      <4>11. \A s \in dir' \cup ddir' : s <= segSeq' + 1
        BY <2>1, <3>1, <3>4
      <4>12. OldInv'
        BY <4>5, <4>6, <4>10, <4>11 DEF OldInv
      <4> QED BY <3>10, <4>1, <4>2, <4>12 DEF Born
    <3>17. DiskInv'
      <4>1. exposed \in BOOLEAN /\ exposed' = exposed
        BY <2>2, <3>1 DEF TypeOK
      <4>2. exposed => exposed'
        BY SMT, <4>1
      <4> QED BY <2>2, <3>16, <4>2 DEF DiskInv
    <3>18. CrashIsNotCorruption'
      BY <3>2 DEF CrashIsNotCorruption, Running
    <3> QED BY <3>5, <3>13, <3>14, <3>15, <3>17, <3>18, ResumedNext DEF WalInv
  <2> QED BY <2>5, <2>6 DEF RotateDir
\* Rotations keep SureInv.
<1>SureRotate. ASSUME WalInv, SureInv, Next, WalInv',
                      \/ RotateSync \/ RotateCreate \/ RotateHeader \/ RotateHdrSync \/ RotateRemove \/ RotateRemoveSync
                      \/ RotateDir
               PROVE  SureInv'
  <2> USE <1>SureRotate
  <2>1. Running /\ pc \in RotatePC
    BY DEF RotateSync, RotateCreate, RotateHeader, RotateHdrSync, RotateRemove, RotateRemoveSync, RotateDir,
         Running, OpenPC, RotatePC
  <2>2. /\ TypeOK /\ segSeq \in Seg /\ live \in [Seg -> Seq(Block)] /\ sure \in [Seg -> Seq(Block)]
        /\ maybe \in [Seg -> Seq(Block)]
    BY <2>1, RunningFacts DEF TypeOK
  <2>3. pc # "rotSync" => segSeq + 1 \in Seg /\ segSeq + 1 # segSeq
    BY <2>1, <1>RotateFacts
  <2>4. CASE live' = live /\ sure' = sure /\ maybe' = maybe /\ segSeq' = segSeq
    BY <2>1, <2>4, SureSame, SureCurrent DEF SureInv
  <2>5. CASE SyncFile(segSeq) /\ live' = live /\ segSeq' = segSeq
    <3>1. (\A s \in Seg : SureOf(s)') /\ sure'[segSeq] = live[segSeq]
      BY <2>2, <2>5, SureSync
    <3> QED BY <2>1, <2>5, <3>1, CurrentNotEmpty DEF SureInv
  <2>6. CASE pc # "rotSync" /\ SyncFile(segSeq + 1) /\ live' = live /\ segSeq' = segSeq
    <3>1. (\A s \in Seg : SureOf(s)') /\ \A s \in Seg : s # segSeq + 1 => sure'[s] = sure[s] /\ maybe'[s] = maybe[s]
      BY <2>2, <2>3, <2>6, SureSync
    <3>2. sure'[segSeq] = sure[segSeq] /\ maybe'[segSeq] = maybe[segSeq]
      BY <2>2, <2>3, <2>6, <3>1
    <3> QED BY <2>1, <2>6, <3>1, <3>2, SureCurrent DEF SureInv
  <2>7. CASE RotateCreate /\ ~UNCHANGED fileVars
    <3>1. /\ live' = [live EXCEPT ![segSeq + 1] = <<>>] /\ sure' = [sure EXCEPT ![segSeq + 1] = <<>>]
          /\ maybe' = [maybe EXCEPT ![segSeq + 1] = <<>>] /\ segSeq' = segSeq /\ pc # "rotSync"
      BY <2>7 DEF RotateCreate, RotateTo, RotateFails, walVars
    <3>2. segSeq + 1 \in Seg /\ segSeq + 1 # segSeq
      BY <2>3, <3>1
    <3>3. live'[segSeq + 1] = <<>> /\ \A s \in Seg : s # segSeq + 1 => live'[s] = live[s]
      BY <2>2, <3>1, <3>2, OneSet
    <3>4. sure'[segSeq + 1] = <<>> /\ \A s \in Seg : s # segSeq + 1 => sure'[s] = sure[s]
      BY <2>2, <3>1, <3>2, OneSet
    <3>5. \A s \in Seg : s # segSeq + 1 => maybe'[s] = maybe[s]
      BY <2>2, <3>1, <3>2, OneSet
    <3>6. \A s \in Seg : SureOf(s)'
      BY <3>2, <3>3, <3>4, <3>5, SureFiles
    <3>7. sure'[segSeq] = sure[segSeq] /\ maybe'[segSeq] = maybe[segSeq]
      BY <2>2, <3>2, <3>4, <3>5
    <3> QED BY <2>1, <3>1, <3>6, <3>7, SureCurrent DEF SureInv
  <2>8. CASE RotateHeader
    <3>1. pc = "rotHeader" /\ pc # "rotSync" /\ sure' = sure /\ segSeq' = segSeq
      BY <2>8 DEF RotateHeader, RotateTo, walVars
    <3>2. PICK part : Half(part) /\ WriteTo(segSeq + 1, <<Hdr>>, part)
      BY <2>8, <1>HeaderPart DEF RotateHeader, Half
    <3>3. Blank(segSeq + 1) /\ segSeq + 1 \in Seg /\ segSeq + 1 # segSeq
      BY <2>1, <2>3, <3>1, RunningFacts DEF CallInv
    <3>4. /\ \A s \in Seg : s # segSeq + 1 => live'[s] = live[s] /\ maybe'[s] = maybe[s]
          /\ maybe'[segSeq + 1] = <<Hdr>>
      BY <2>2, <3>2, <3>3, <1>HalfFacts, HeaderWrite
    <3>5. \A s \in Seg : SureOf(s)'
      BY <3>1, <3>3, <3>4, SureFiles, ShortFiles
    <3>6. maybe'[segSeq] = maybe[segSeq]
      BY <2>2, <3>3, <3>4
    <3> QED BY <2>1, <3>1, <3>5, <3>6, SureCurrent DEF SureInv
  <2>9. CASE RotateDir /\ segSeq' # segSeq
    <3>1. pc = "rotDir" /\ live' = live /\ sure' = sure /\ maybe' = maybe /\ segSeq' = segSeq + 1
      BY <2>9 DEF RotateDir, RotateFails
    <3>2. live[segSeq + 1] = <<Hdr>> /\ Synced(segSeq + 1)
      BY <2>1, <3>1, RunningFacts DEF CallInv
    <3>3. sure'[segSeq'] # <<>>
      BY <3>1, <3>2, ShortFiles DEF Synced
    <3> QED BY <3>1, <3>3, SureSame DEF SureInv
  <2>10. CASE RotateSync
    BY <2>4, <2>5, <2>10 DEF RotateSync, RotateTo, RotateFails, walVars
  <2>11. CASE RotateCreate
    BY <2>4, <2>7, <2>11 DEF RotateCreate, RotateFails, fileVars
  <2>12. CASE RotateHdrSync
    BY <2>4, <2>6, <2>12 DEF RotateHdrSync, RotateTo, walVars
  <2>13. CASE RotateRemove \/ RotateRemoveSync
    BY <2>4, <2>13 DEF RotateRemove, RotateRemoveSync, RotateTo, RotateFails, walVars
  <2>14. CASE RotateDir
    BY <2>4, <2>9, <2>14 DEF RotateDir
  <2> QED BY <2>8, <2>10, <2>11, <2>12, <2>13, <2>14
<1> QED
  <2> SUFFICES ASSUME Inv, Next, (RotateSync \/ RotateCreate \/ RotateHeader \/ RotateHdrSync \/ RotateRemove \/ 
                      RotateRemoveSync \/ RotateDir) PROVE Inv'
    OBVIOUS
  <2>1. WalInv /\ SureInv
    BY DEF Inv
  <2>2. WalInv'
    BY <2>1, <1>RotateSyncStep, <1>RotateCreateStep, <1>RotateHeaderStep, <1>RotateHdrSyncStep, <1>RotateRemoveStep, <1>RotateRemoveSyncStep, <1>RotateDirStep
  <2> QED BY <2>1, <2>2, <1>SureRotate DEF Inv

-----------------------------------------------------------------------------
(* The theorems *)

\* The invariant holds before the first open.
LEMMA InvInit ==
  ASSUME Init
  PROVE  Inv
<1>1. /\ dir = {} /\ ddir = {} /\ pc = "down" /\ segSeq = 1 /\ segLen = 0
      /\ live = [s \in Seg |-> <<>>] /\ sure = [s \in Seg |-> <<>>] /\ maybe = [s \in Seg |-> <<>>]
      /\ buf = <<>> /\ rotating = "engine" /\ poisoned = FALSE /\ log = <<>> /\ segOf = <<>> /\ tail = <<>>
      /\ offered = 0 /\ crashes = 0 /\ kinds \in Settings /\ resumed = FALSE /\ exposed = FALSE
  BY DEF Init
<1>2. 1 \in Seg /\ 0 \in 0..MaxRec /\ 0 \in 0..MaxCrash /\ 0 \in Nat
  BY SMT, WalAssumption DEF Seg
<1>3. <<>> \in Seq(Rec) /\ <<>> \in Seq(Seg) /\ <<>> \in Seq(Block)
  BY SMT
<1>4. \A s \in Seg : live[s] = <<>> /\ sure[s] = <<>> /\ maybe[s] = <<>>
  BY <1>1
<1>5. live \in [Seg -> Seq(Block)] /\ sure \in [Seg -> Seq(Block)] /\ maybe \in [Seg -> Seq(Block)]
  BY <1>1, <1>3
<1>6. TypeOK
  BY <1>1, <1>2, <1>3, <1>5 DEF TypeOK, PC
<1>7. <<>> \o <<>> = <<>>
  BY <1>3, PreRefl
<1>8. Shapes
  BY <1>4, <1>7, ShortFiles DEF Shapes
<1>9. ~Running
  BY <1>1 DEF Running
<1>10. OpenInv /\ RunInv /\ ResumedInv /\ CrashIsNotCorruption
  BY <1>1, <1>2, <1>4, <1>9 DEF OpenInv, RunInv, ResumedInv, CrashIsNotCorruption, OpenPC, Blank
<1>11. Unborn
  BY <1>1, <1>2, <1>4, <1>9 DEF Unborn, HalfBorn, Half
<1>12. SureInv
  BY <1>4, <1>9, ShortFiles DEF SureInv, SureOf
<1> QED BY <1>6, <1>8, <1>10, <1>11, <1>12 DEF Inv, WalInv, DiskInv

\* Every step preserves it.
LEMMA InvNext ==
  ASSUME Inv, Next
  PROVE  Inv'
<1>1. CASE AppendMany \/ WriteSome \/ WriteAll \/ SyncOk \/ AppendError
  BY <1>1, AppendPreserves
<1>2. CASE Cut \/ CutSync \/ CutError \/ RotateSegment
  BY <1>2, AppendPreserves
<1>3. CASE RotateSync \/ RotateCreate \/ RotateHeader \/ RotateHdrSync \/ RotateRemove \/ RotateRemoveSync \/ RotateDir
  BY <1>3, RotatePreserves
<1>4. CASE OpenScan \/ OpenCut \/ OpenCutSync \/ OpenCreate \/ OpenHeader \/ OpenHdrSync \/ OpenDir
  BY <1>4, OpenPreserves
<1>5. CASE Crash
  BY <1>5, CrashPreserves
<1> QED BY <1>1, <1>2, <1>3, <1>4, <1>5 DEF Next, Step

\* A step that changes nothing preserves it.
LEMMA InvStutter ==
  ASSUME Inv, UNCHANGED vars
  PROVE  Inv'
<1>1. /\ dir' = dir /\ ddir' = ddir /\ live' = live /\ sure' = sure /\ maybe' = maybe /\ pc' = pc
      /\ segSeq' = segSeq /\ segLen' = segLen /\ poisoned' = poisoned /\ log' = log /\ segOf' = segOf
      /\ tail' = tail /\ buf' = buf /\ rotating' = rotating /\ offered' = offered /\ crashes' = crashes
      /\ kinds' = kinds /\ exposed' = exposed /\ resumed' = resumed
  BY DEF vars, fileVars, walVars, logVars, world
<1>2. TypeOK' /\ Shapes' /\ ResumedInv' /\ CrashIsNotCorruption' /\ SureInv'
  BY SMT, <1>1 DEF Inv, WalInv, TypeOK, Shapes, ResumedInv, CrashIsNotCorruption, SureInv, SureOf, Running
<1>3. Base' = Base /\ Older' = Older /\ Last' = Last /\ Replayed' = Replayed /\ ReplayedFrom' = ReplayedFrom
  BY <1>1, LogFrame, LastSame, RepIs
<1>4. OpenInv'
  BY <1>1, <1>3 DEF Inv, WalInv, OpenInv, Blank
<1>5. (DirInv => DirInv') /\ (LogInv => LogInv') /\ (CallInv => CallInv')
  BY <1>1, <1>3 DEF DirInv, LogInv, CallInv, Synced, Blank
<1>6. RunInv'
  BY <1>1, <1>3, <1>5 DEF Inv, WalInv, RunInv, Running
<1>7. (OldInv => OldInv') /\ (CurInv => CurInv') /\ (NextInv => NextInv') /\ (Unborn => Unborn')
  BY <1>1, <1>3 DEF OldInv, CurInv, NextInv, Unborn, Synced, Good, HalfBorn, Running
<1>8. DiskInv'
  BY <1>1, <1>5, <1>7 DEF Inv, WalInv, DiskInv, Born
<1> QED BY <1>2, <1>4, <1>6, <1>8 DEF Inv, WalInv

\* Inv is an invariant of the log.
THEOREM WalInvariant == Spec => []Inv
<1>1. Init => Inv
  BY InvInit
<1>2. Inv /\ [Next]_vars => Inv'
  BY InvNext, InvStutter
<1> QED BY <1>1, <1>2, PTL DEF Spec

\* A crash is never mistaken for corruption: replay refuses the log only
\* after a power loss that hit a segment resumed without a sync.
THEOREM CrashIsNotCorruptionHolds == Spec => []CrashIsNotCorruption
<1>1. Inv => CrashIsNotCorruption
  BY DEF Inv, WalInv
<1> QED BY <1>1, WalInvariant, PTL

\* The invariant gives the clean boundary of append_many.
LEMMA InvCleanBoundary ==
  ASSUME Inv
  PROVE  CleanBoundary
<1>1. WalInv
  BY DEF Inv
<1>2. ASSUME pc \in WritePC \cup {"ready"}, ~poisoned, NEW s \in dir \cup ddir
      PROVE  s <= segSeq
  <2>1. Running /\ pc \notin CreatedPC
    BY <1>2 DEF Running, OpenPC, WritePC, CreatedPC
  <2>2. DirInv /\ TypeOK
    BY <1>1, <2>1, RunningFacts
  <2>3. s \in ddir => s <= segSeq
    BY <2>2 DEF DirInv
  <2>4. s \in dir => s <= segSeq + 1 /\ s # segSeq + 1
    BY <1>2, <2>1, <2>2 DEF DirInv
  <2>5. s \in Nat /\ segSeq \in Nat
    <3>1. dir \subseteq Seg /\ ddir \subseteq Seg /\ segSeq \in Seg
      BY <2>2 DEF TypeOK
    <3> QED BY SMT, <1>2, <3>1 DEF Seg
  <2> QED BY SMTT(30), <1>2, <2>3, <2>4, <2>5
<1>3. ASSUME pc = "write"
      PROVE  /\ Len(live[segSeq]) = segLen
             /\ \E n \in 0..Len(log) :
                  /\ \A i \in 1..Len(log) : segOf[i] = segSeq <=> i > n
                  /\ live[segSeq] = <<Hdr>> \o SubSeq(log, n + 1, Len(log))
  <2>1. Running
    BY <1>3 DEF Running, OpenPC
  <2>2. TypeOK /\ LogInv /\ CallInv
    BY <1>1, <2>1, RunningFacts
  <2>3. live[segSeq] = Base
    BY <1>3, <2>2 DEF CallInv
  <2>4. Older \in 0..Len(log) /\ Len(Base) = segLen
    BY <2>2, BaseFacts
  <2>5. \A i \in 1..Len(log) : segOf[i] = segSeq <=> i > Older
    BY <2>2 DEF LogInv
  <2> QED BY <2>3, <2>4, <2>5 DEF Base
<1> QED BY <1>2, <1>3 DEF CleanBoundary

\* An append starts right after the acknowledged records of the newest
\* segment, whatever appends, rotations and crashes came before.
THEOREM CleanBoundaryHolds == Spec => []CleanBoundary
<1>1. Inv => CleanBoundary
  BY InvCleanBoundary
<1> QED BY <1>1, WalInvariant, PTL

-----------------------------------------------------------------------------
(* The refinement of DurableLog *)

\* A file between b and b followed by t holds b and a part of t.
LEMMA BetweenPart ==
  ASSUME NEW b \in Seq(Block), NEW t \in Seq(Block), NEW w \in Seq(Block),
         Pre(b, w), Pre(w, b \o t)
  PROVE  \E n \in 0..Len(t) : w = b \o SubSeq(t, 1, n)
<1>1. PICK n : n = Len(w) - Len(b)
  OBVIOUS
<1>2. PICK c : c = b \o t
  OBVIOUS
<1>3. n \in 0..Len(t) /\ Len(w) = Len(b) + n /\ c \in Seq(Block)
  BY SMT, <1>1, <1>2 DEF Pre
<1>4. SubSeq(c, 1, Len(w)) = w
  <2>1. Pre(w, c)
    BY <1>2
  <2> QED BY <1>3, <2>1, PreCut
<1>5. SubSeq(c, 1, Len(b) + n) = b \o SubSeq(t, 1, n)
  BY <1>2, <1>3, SubSeqOfConcat
<1>6. w = b \o SubSeq(t, 1, n)
  BY <1>3, <1>4, <1>5
<1> QED BY <1>3, <1>6

\* A finished open hands out the log and a prefix of the tail.
LEMMA OpenHandsOut ==
  ASSUME WalInv, OpenDir, ~exposed
  PROVE  Contract!Reopen
<1>1. /\ pc = "openDir" /\ segSeq' = Last /\ log' = Replayed[MaxSeg] /\ segOf' = ReplayedFrom[MaxSeg]
      /\ tail' = <<>> /\ poisoned' = FALSE
  BY DEF OpenDir
<1>2. /\ TypeOK /\ Last \in Seg /\ Last \in dir /\ (\A s \in dir : s <= Last) /\ (Unborn \/ Born)
      /\ live[Last] \in Seq(Block)
  BY <1>1, OpenFacts DEF OpenPC
<1>3. /\ Last - 1 \in 0..MaxSeg /\ Clean(live[Last]) /\ Whole(live[Last]) = live[Last] /\ live[Last] # <<>>
      /\ Intact(live[Last]) = Len(live[Last])
      /\ Replayed[MaxSeg] = Replayed[Last - 1] \o SubSeq(live[Last], 2, Intact(live[Last]))
      /\ ReplayedFrom[MaxSeg] = ReplayedFrom[Last - 1] \o [i \in 1..(Len(live[Last]) - 1) |-> Last]
  BY <1>1, OpenReads DEF Clean
<1>4. log \in Seq(Rec) /\ segOf \in Seq(Seg) /\ tail \in Seq(Rec) /\ segSeq \in Seg
  BY <1>2 DEF TypeOK
<1>5. SUFFICES \E n \in 0..Len(tail) :
                 /\ Last \in {segSeq, segSeq + 1}
                 /\ Replayed[MaxSeg] = log \o SubSeq(tail, 1, n)
                 /\ ReplayedFrom[MaxSeg] = segOf \o [i \in 1..n |-> segSeq]
  BY <1>1 DEF Contract!Reopen
<1>6. /\ 0 \in 0..Len(tail)
      /\ log \o SubSeq(tail, 1, 0) = log
      /\ segOf \o [i \in 1..0 |-> segSeq] = segOf
  <2>1. 0 \in 0..Len(tail) /\ SubSeq(tail, 1, 0) = <<>>
    BY SMT, <1>4
  <2>2. [i \in 1..0 |-> segSeq] = <<>>
    BY SMT
  <2>3. log \o <<>> = log
    BY SMT, <1>4
  <2>4. segOf \o <<>> = segOf
    BY SMT, <1>4
  <2> QED BY <2>1, <2>2, <2>3, <2>4
<1>7. ASSUME live[Last] = <<Hdr>>
      PROVE  Replayed[MaxSeg] = Replayed[Last - 1] \o <<>> /\ ReplayedFrom[MaxSeg] = ReplayedFrom[Last - 1] \o <<>>
  <2>1. Len(<<Hdr>>) = 1 /\ SubSeq(<<Hdr>>, 2, 1) = <<>>
    BY SMT
  <2>2. 1 - 1 = 0 /\ [i \in 1..0 |-> Last] = <<>>
    BY SMT
  <2>3. Intact(live[Last]) = 1 /\ Len(live[Last]) - 1 = 0
    BY <1>3, <1>7, <2>1, <2>2
  <2>4. [i \in 1..(Len(live[Last]) - 1) |-> Last] = <<>>
    BY <2>2, <2>3
  <2> QED BY <1>3, <1>7, <2>1, <2>3, <2>4
<1>8. ASSUME Half(live[Last])
      PROVE  live[Last] = <<Hdr>>
  <2>1. <<Bad>>[1] = Bad /\ Bad # Hdr
    BY SMT, BlockFacts
  <2> QED BY <1>3, <1>8, <2>1 DEF Half, Clean
<1>9. CASE Unborn
  <2>1. segSeq = 1 /\ log = <<>> /\ segOf = <<>> /\ Last = 1 /\ Half(live[1])
    BY <1>2, <1>9 DEF Unborn, HalfBorn
  <2>2. 1 - 1 = 0 /\ <<>> \o <<>> = <<>>
    BY SMT
  <2>3. Replayed[0] = <<>> /\ ReplayedFrom[0] = <<>>
    BY RepDef, FromDef, RepIs
  <2>4. Replayed[MaxSeg] = log /\ ReplayedFrom[MaxSeg] = segOf
    BY <1>7, <1>8, <2>1, <2>2, <2>3
  <2> QED BY <1>6, <2>1, <2>4
<1>10. CASE Born /\ Last = segSeq
  <2>1. LogInv /\ OldInv /\ Good(live[segSeq])
    BY <1>10 DEF Born, CurInv
  <2>2. PICK b, w, t : b = Base /\ w = live[segSeq] /\ t = tail
    OBVIOUS
  <2>3. Pre(b, w) /\ Pre(w, b \o t)
    BY <1>3, <1>10, <2>1, <2>2 DEF Good, Between
  <2>4. b \in Seq(Block) /\ w \in Seq(Block) /\ t \in Seq(Block) /\ t \in Seq(Rec)
    BY <1>2, <1>4, <1>10, <2>1, <2>2, SeqWider, BaseFacts
  <2>5. PICK n \in 0..Len(t) : w = b \o SubSeq(t, 1, n)
    BY <2>3, <2>4, BetweenPart
  <2>6. SubSeq(t, 1, n) \in Seq(Rec) /\ Len(SubSeq(t, 1, n)) = n
    BY SMT, <2>4, <2>5
  <2>7. /\ Replayed[segSeq] = log \o SubSeq(t, 1, n)
        /\ ReplayedFrom[segSeq] = segOf \o [i \in 1..n |-> segSeq]
    BY <1>2, <2>1, <2>2, <2>5, <2>6, ReplayCurrent
  <2>8. Replayed[MaxSeg] = Replayed[segSeq] /\ ReplayedFrom[MaxSeg] = ReplayedFrom[segSeq]
    <3>1. segSeq \in 0..MaxSeg
      BY SMT, <1>4 DEF Seg
    <3>2. \A s \in 1..MaxSeg : s \in dir => s <= segSeq
      BY <1>2, <1>10
    <3> QED BY <3>1, <3>2, RepTop, RepIs
  <2> QED BY <1>10, <2>2, <2>5, <2>7, <2>8
<1>11. CASE Born /\ Last # segSeq
  <2>1. LogInv /\ OldInv /\ NextInv
    BY <1>11 DEF Born
  <2>2. Last = segSeq + 1
    <3>0. segSeq \in 1..segSeq
      BY SMT, <1>4 DEF Seg
    <3>1. segSeq \in dir /\ Last <= segSeq + 1
      BY <1>2, <2>1, <3>0 DEF OldInv
    <3>2. segSeq <= Last
      BY <1>2, <3>1
    <3>3. segSeq \in Nat /\ Last \in Nat
      BY SMT, <1>2, <1>4 DEF Seg
    <3> QED BY SMT, <1>11, <3>1, <3>2, <3>3
  <2>3. Half(live[Last]) /\ live[segSeq] = Base
    BY <1>2, <2>1, <2>2 DEF NextInv, HalfBorn
  <2>4. Last - 1 = segSeq
    BY SMT, <1>4, <2>2 DEF Seg
  <2>5. PICK b : b = Base
    OBVIOUS
  <2>6. b \in Seq(Block)
    BY <1>2, <2>1, <2>5, BaseFacts
  <2>7. b \o <<>> = b
    BY SMT, <2>6
  <2>8. <<>> \in Seq(Rec) /\ Len(<<>>) = 0
    BY SMT
  <2>9. Replayed[segSeq] = log \o <<>> /\ ReplayedFrom[segSeq] = segOf \o [i \in 1..0 |-> segSeq]
    BY <1>2, <2>1, <2>3, <2>5, <2>7, <2>8, ReplayCurrent
  <2>10. log \o <<>> = log
    BY SMT, <1>4
  <2>11. segOf \o <<>> = segOf
    BY SMT, <1>4
  <2>12. Replayed[MaxSeg] = log /\ ReplayedFrom[MaxSeg] = segOf
    <3>1. Replayed[segSeq] = log /\ ReplayedFrom[segSeq] = segOf
      BY <1>6, <2>9, <2>10
    <3> QED BY <1>7, <1>8, <2>3, <2>4, <2>10, <2>11, <3>1
  <2> QED BY <1>6, <2>2, <2>12
<1> QED BY <1>2, <1>9, <1>10, <1>11

\* An append or its rollback is a step of DurableLog.
LEMMA AppendLog ==
  ASSUME WalInv,
         \/ AppendMany \/ WriteSome \/ WriteAll \/ SyncOk \/ AppendError \/ Cut \/ CutSync \/ CutError
         \/ RotateSegment
  PROVE  Contract!LogNext \/ UNCHANGED logView
<1>1. Running
  BY DEF AppendMany, WriteSome, WriteAll, SyncOk, AppendError, Cut, CutSync, CutError, RotateSegment,
     Running, OpenPC
<1>2. CallInv
  BY <1>1, RunningFacts
<1>3. CASE WriteSome
  <2>1. pc = "write" /\ UNCHANGED <<log, segOf, segSeq, poisoned>>
    BY <1>3 DEF WriteSome, walVars
  <2>2. ~poisoned /\ tail = <<>>
    BY <1>2, <2>1 DEF CallInv
  <2>3. segSeq' \in {segSeq, segSeq + 1}
    BY <2>1
  <2> QED BY <2>1, <2>2, <2>3 DEF Contract!LogNext, Contract!AppendBegin
<1>4. CASE SyncOk
  <2>1. ~poisoned /\ tail # <<>>
    BY <1>2, <1>4 DEF CallInv, SyncOk
  <2> QED BY <1>4, <2>1 DEF SyncOk, Contract!LogNext, Contract!AppendOk
<1>5. CASE CutSync
  <2>1. ~poisoned /\ tail # <<>>
    BY <1>2, <1>5 DEF CallInv, CutSync
  <2> QED BY <1>5, <2>1 DEF CutSync, walVars, Contract!LogNext, Contract!AppendRolledBack
<1>6. CASE CutError
  <2>1. pc \in {"cut", "cutSync"}
    BY <1>6 DEF CutError
  <2>2. ~poisoned /\ tail # <<>>
    BY <1>2, <2>1 DEF CallInv
  <2> QED BY <1>6, <2>2 DEF CutError, logVars, Contract!LogNext, Contract!AppendPoisoned
<1>7. CASE AppendMany \/ WriteAll \/ AppendError \/ Cut \/ RotateSegment
  BY <1>7 DEF AppendMany, WriteAll, AppendError, Cut, RotateSegment, walVars, logVars, logView
<1> QED BY <1>3, <1>4, <1>5, <1>6, <1>7

\* A rotation that goes on is none of DurableLog's steps; one that fails or
\* finishes is.
LEMMA RotateLog ==
  ASSUME WalInv,
         \/ RotateSync \/ RotateCreate \/ RotateHeader \/ RotateHdrSync \/ RotateRemove \/ RotateRemoveSync
         \/ RotateDir
  PROVE  Contract!LogNext \/ UNCHANGED logView
<1>1. pc \in RotatePC
  BY DEF RotateSync, RotateCreate, RotateHeader, RotateHdrSync, RotateRemove, RotateRemoveSync, RotateDir,
     RotatePC
<1>2. Running
  BY <1>1 DEF Running, RotatePC, OpenPC
<1>3. ~poisoned /\ tail = <<>>
  <2>1. CallInv /\ pc # "ready"
    BY <1>1, <1>2, RunningFacts DEF RotatePC
  <2> QED BY <1>1, <2>1 DEF CallInv
<1>4. ASSUME NEW p, p \in BOOLEAN, RotateFails(p)
      PROVE  Contract!RotateFailed
  BY <1>3, <1>4 DEF RotateFails, logVars, Contract!RotateFailed
<1>5. ASSUME NEW where, RotateTo(where)
      PROVE  UNCHANGED logView
  BY <1>5 DEF RotateTo, walVars, logVars, logView
<1>6. TRUE \in BOOLEAN /\ FALSE \in BOOLEAN /\ (segSeq + 1 \in dir) \in BOOLEAN
  BY SMT
<1>7. CASE RotateDir
  <2>1. \/ segSeq' = segSeq + 1 /\ UNCHANGED <<poisoned, log, segOf, tail>>
        \/ RotateFails(TRUE)
    BY <1>7 DEF RotateDir, logVars
  <2>2. CASE segSeq' = segSeq + 1 /\ UNCHANGED <<poisoned, log, segOf, tail>>
    BY <1>3, <2>2 DEF Contract!LogNext, Contract!RotateOk
  <2> QED BY <1>4, <1>6, <2>1, <2>2 DEF Contract!LogNext
<1>8. CASE RotateSync \/ RotateCreate \/ RotateHeader \/ RotateHdrSync \/ RotateRemove \/ RotateRemoveSync
  <2>1. (\E where : RotateTo(where)) \/ (\E p \in BOOLEAN : RotateFails(p))
    BY <1>6, <1>8 DEF RotateSync, RotateCreate, RotateHeader, RotateHdrSync, RotateRemove, RotateRemoveSync
  <2> QED BY <1>4, <1>5, <2>1 DEF Contract!LogNext
<1> QED BY <1>7, <1>8

\* So is every step until a power loss hits a segment resumed without a sync.
LEMMA LogStep ==
  ASSUME Inv, Next
  PROVE  exposed' \/ Contract!LogNext \/ UNCHANGED logView
<1>1. WalInv
  BY DEF Inv
<1>2. CASE \/ AppendMany \/ WriteSome \/ WriteAll \/ SyncOk \/ AppendError \/ Cut \/ CutSync \/ CutError
           \/ RotateSegment
  BY <1>1, <1>2, AppendLog
<1>3. CASE \/ RotateSync \/ RotateCreate \/ RotateHeader \/ RotateHdrSync \/ RotateRemove \/ RotateRemoveSync
           \/ RotateDir
  BY <1>1, <1>3, RotateLog
<1>4. CASE OpenScan \/ OpenCut \/ OpenCutSync \/ OpenCreate \/ OpenHeader \/ OpenHdrSync
  <2>1. \E where : OpenTo(where)
    BY <1>4 DEF OpenScan, OpenCut, OpenCutSync, OpenCreate, OpenHeader, OpenHdrSync
  <2> QED BY <2>1 DEF OpenTo, walVars, logVars, logView
<1>5. CASE OpenDir
  <2>1. exposed' = exposed
    BY <1>5 DEF OpenDir, world
  <2>2. exposed \in BOOLEAN
    BY <1>1 DEF WalInv, TypeOK
  <2>3. CASE exposed
    <3>1. exposed'
      BY SMT, <2>1, <2>2, <2>3
    <3> QED BY <3>1
  <2>4. CASE ~exposed
    BY <1>1, <1>5, <2>4, OpenHandsOut DEF Contract!LogNext
  <2> QED BY <2>3, <2>4
<1>6. CASE Crash
  BY <1>6 DEF Crash, walVars, logVars, logView
<1> QED BY <1>2, <1>3, <1>4, <1>5, <1>6 DEF Next, Step

\* The file-level log implements DurableLog: acknowledged records are neither
\* lost nor reordered, and what is found of a failed append is a prefix of it.
THEOREM WalImplementsDurableLog == Spec => ImplementsDurableLog
<1>1. Init => Contract!LogInit
  BY DEF Init, Contract!LogInit
<1>2. Inv /\ [Next]_vars => [exposed' \/ Contract!LogNext]_logView
  <2>1. ASSUME UNCHANGED vars PROVE UNCHANGED logView
    BY <2>1 DEF vars, walVars, logVars, logView
  <2> QED BY <2>1, LogStep
<1> QED BY <1>1, <1>2, WalInvariant, PTL DEF Spec, ImplementsDurableLog

=============================================================================
