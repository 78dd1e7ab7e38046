---------------------------- MODULE WalOpenProofs ----------------------------
(***************************************************************************)
(* The inductive invariant of Wal, what holds of files, of replay and of   *)
(* the log under it, and the proofs that open and crashes preserve it.     *)
(* WalProofs has the other steps and the theorems.                         *)
(***************************************************************************)
EXTENDS Wal, TLAPS, WellFoundedInduction

\* The prover of every leaf that names no other.
USE Zenon

-----------------------------------------------------------------------------
(* The inductive invariant *)

Pre(a, b) == Len(a) <= Len(b) /\ \A i \in 1..Len(a) : a[i] = b[i]

\* What a scan reads of a file: the blocks in front of the first bad one.
Whole(f) == SubSeq(f, 1, Intact(f))

Clean(f) == f # <<>> /\ f[1] = Hdr /\ \A i \in 1..Len(f) : f[i] # Bad

\* A header, or what is left of one, comes first and nowhere else.
Shape(f) ==
  \A i \in 1..Len(f) : IF i = 1 THEN f[i] \in {Hdr, Bad} ELSE f[i] \in Rec \cup {Bad}

Shapes == \A s \in Seg : Shape(live[s]) /\ Shape(sure[s] \o maybe[s])

\* The records of the older segments, and the contents that log gives the
\* current segment.
Older == Len(log) + 1 - segLen

Base == <<Hdr>> \o SubSeq(log, Older + 1, Len(log))

\* A file holds all of b and then at most t.
Between(f, b, t) == Pre(b, Whole(f)) /\ Pre(Whole(f), b \o t)

\* It holds all of the acknowledged records and then at most the tail.
Good(f) == Between(f, Base, tail)

Half(f) == f \in {<<>>, <<Bad>>, <<Hdr>>}

\* A segment whose creation was not finished.
HalfBorn(s) ==
  /\ Half(live[s]) /\ Half(sure[s])
  /\ maybe[s] = <<>> \/ (sure[s] = <<>> /\ maybe[s] = <<Hdr>>)
  /\ maybe[s] = <<>> => Whole(sure[s]) = Whole(live[s])

Blank(s) == live[s] = <<>> /\ sure[s] = <<>> /\ maybe[s] = <<>>

Synced(s) == sure[s] = live[s] /\ maybe[s] = <<>>

Running == pc \notin OpenPC \cup {"down", "refused"}

CreatedPC == {"rotHeader", "rotHdrSync", "rotRemove", "rotDir"}

\* What open has established at each of its steps.
OpenInv ==
  /\ pc \in OpenPC \ {"openCreate"} => dir # {}
  /\ pc = "openCreate" => dir = {}
  /\ pc = "openCut" => Torn(live[Last]) /\ ~Corrupt(live[Last])
  /\ pc = "openCutSync" => live[Last] = <<>> \/ Clean(live[Last])
  /\ pc = "openHeader" => Blank(Last)
  /\ pc = "openHdrSync" => live[Last] = <<Hdr>>
  /\ pc = "openDir" => Clean(live[Last])
  /\ 1 \notin dir => Blank(1)

\* The directory while the log is open.
DirInv ==
  /\ segSeq \in dir /\ segSeq \in ddir
  /\ \A s \in ddir : s <= segSeq
  /\ \A s \in dir : s <= segSeq + 1
  /\ segSeq + 1 \in dir => poisoned \/ pc \in CreatedPC
  /\ pc \in CreatedPC => segSeq + 1 \in dir
  /\ pc \in RotatePC \ {"rotSync"} => segSeq < MaxSeg

\* The log against the segment numbers.
LogInv ==
  /\ segLen >= 1 /\ segLen <= Len(log) + 1
  /\ Len(segOf) = Len(log)
  /\ \A i \in 1..Len(log) : segOf[i] <= segSeq /\ (segOf[i] = segSeq <=> i > Older)

\* The current segment, and the running call.
CallInv ==
  /\ pc \in {"writing", "sync", "cut", "cutSync"} => tail = buf /\ buf # <<>> /\ maybe[segSeq] # <<>>
  /\ pc \in {"write", "ready"} \cup RotatePC /\ ~poisoned => tail = <<>> /\ live[segSeq] = Base
  /\ pc # "ready" => ~poisoned
  /\ pc = "sync" => live[segSeq] = Base \o tail
  /\ pc = "cutSync" => live[segSeq] = Base
  /\ pc = "write" \/ (pc \in RotatePC /\ rotating = "append") => buf # <<>>
  /\ pc \in RotatePC \ {"rotSync"} => Synced(segSeq)
  /\ pc = "rotHeader" => Blank(segSeq + 1)
  /\ pc = "rotHdrSync" => live[segSeq + 1] = <<Hdr>>
  /\ pc = "rotDir" => live[segSeq + 1] = <<Hdr>> /\ Synced(segSeq + 1)

RunInv == Running => DirInv /\ LogInv /\ Pre(Base, live[segSeq]) /\ CallInv

\* Before the first open has finished.
Unborn ==
  /\ ~Running
  /\ segSeq = 1 /\ log = <<>> /\ segOf = <<>> /\ tail = <<>>
  /\ dir \cup ddir \subseteq {1}
  /\ HalfBorn(1) /\ ~resumed

\* The older segments hold the older records, all of them durable.
OldInv ==
  /\ \A s \in 1..segSeq : s \in dir /\ s \in ddir
  /\ \A s \in dir \cup ddir : s <= segSeq + 1
  /\ \A s \in 1..(segSeq - 1) : Synced(s) /\ Clean(live[s])
  /\ Replayed[segSeq - 1] = SubSeq(log, 1, Older)
  /\ ReplayedFrom[segSeq - 1] = SubSeq(segOf, 1, Older)

\* The current segment survives a crash.
CurInv ==
  /\ Good(live[segSeq])
  /\ ~resumed => Good(sure[segSeq]) /\ Good(sure[segSeq] \o maybe[segSeq])
  /\ maybe[segSeq] = <<>> => Whole(sure[segSeq]) = Whole(live[segSeq])
  /\ Running /\ ~resumed => Whole(sure[segSeq]) = Base /\ (tail = <<>> => maybe[segSeq] = <<>>)

\* A segment beside it is a half-born one, and then it is complete.
NextInv ==
  segSeq + 1 \in dir \cup ddir =>
    HalfBorn(segSeq + 1) /\ tail = <<>> /\ Synced(segSeq) /\ live[segSeq] = Base

Born == LogInv /\ OldInv /\ CurInv /\ NextInv

DiskInv == exposed \/ Unborn \/ Born

\* resumed speaks of blocks that are not synced.
ResumedInv == resumed => maybe[segSeq] # <<>>

WalInv == TypeOK /\ Shapes /\ ResumedInv /\ OpenInv /\ RunInv /\ DiskInv /\ CrashIsNotCorruption

\* A file with nothing synced and nothing to sync holds nothing, and a running
\* log has synced the segment it appends to, unless it resumed it.
SureOf(s) == sure[s] = <<>> /\ maybe[s] = <<>> => Whole(live[s]) = <<>>

SureInv == (\A s \in Seg : SureOf(s)) /\ (Running /\ ~resumed => sure[segSeq] # <<>>)

Inv == WalInv /\ SureInv

-----------------------------------------------------------------------------
(* Files, replay and the parts of the invariant *)

\* Replayed and ReplayedFrom, as functions of the directory and the files.
RepStep(d, l, n, x) == IF n \notin d THEN x ELSE x \o SubSeq(l[n], 2, Intact(l[n]))

Rep(d, l) == CHOOSE g : g = [n \in 0..MaxSeg |-> IF n = 0 THEN <<>> ELSE RepStep(d, l, n, g[n - 1])]

FromStep(d, l, n, x) ==
  IF n \notin d THEN x
  ELSE x \o [i \in 1..(IF Intact(l[n]) = 0 THEN 0 ELSE Intact(l[n]) - 1) |-> n]

From(d, l) == CHOOSE g : g = [n \in 0..MaxSeg |-> IF n = 0 THEN <<>> ELSE FromStep(d, l, n, g[n - 1])]

LeftStep(n, x) == UNION {{Append(f, c) : c \in AfterPower(n)} : f \in x}

\* A segment that holds the header and the last k - 1 records of lg.
CurrentOf(lg, k) == <<Hdr>> \o SubSeq(lg, (Len(lg) + 1 - k) + 1, Len(lg))

IsCurrent(b, lg, k, n) ==
  /\ b \in Seq(Block) /\ Len(b) = k
  /\ b # <<>> /\ b[1] = Hdr
  /\ \A i \in 1..Len(b) : b[i] # Bad
  /\ \A i \in 2..k : b[i] = lg[n + (i - 1)]
  /\ n \in 0..Len(lg) /\ Len(lg) = n + (k - 1)
  /\ Clean(b) /\ Whole(b) = b

\* Records are counted to segment q exactly from place n + 1 on.
SegsFrom(sg, len, q, n) == Len(sg) = len /\ \A i \in 1..len : sg[i] <= q /\ (sg[i] = q <=> i > n)

\* A set of natural numbers that is not empty has a least element.
LEMMA LeastElement ==
  ASSUME NEW T \in SUBSET Nat, T # {}
  PROVE  \E m \in T : \A k \in T : m <= k
<1> DEFINE R == {ss \in Nat \X Nat : ss[1] < ss[2]}
<1>1. IsWellFoundedOn(R, Nat)
  BY NatLessThanWellFounded DEF OpToRel
<1> HIDE DEF R
<1>2. PICK m \in T : \A k \in T : ~(<<k, m>> \in R)
  BY <1>1, WFMin
<1>3. \A k \in T : ~(k < m)
  <2> TAKE k \in T
  <2>1. <<k, m>> \notin R BY <1>2
  <2> QED BY <2>1 DEF R
<1> QED
  BY SMT, <1>3, <1>2

\* Blocks are integers, and the three kinds are apart.
LEMMA BlockFacts ==
  /\ Hdr \in Block /\ Bad \in Block /\ Hdr # Bad
  /\ Rec \subseteq Block /\ Hdr \notin Rec /\ Bad \notin Rec
BY SMT, WalAssumption DEF Block, Hdr, Bad, Rec

\* The first torn block of a file is well defined.
LEMMA IntactExists ==
  ASSUME NEW f \in Seq(Block)
  PROVE  \E n \in 0..Len(f) : (\A i \in 1..n : f[i] # Bad) /\ (n < Len(f) => f[n + 1] = Bad)
<1> DEFINE T == {i \in 1..Len(f) : f[i] = Bad}
<1>1. CASE T = {}
  <2>1. \A i \in 1..Len(f) : f[i] # Bad
    BY <1>1
  <2>2. Len(f) \in 0..Len(f) /\ ~(Len(f) < Len(f))
    BY SMT
  <2> QED BY <2>1, <2>2
<1>2. CASE T # {}
  <2>1. T \in SUBSET Nat
    BY SMT
  <2>2. PICK m \in T : \A k \in T : m <= k
    BY <1>2, <2>1, LeastElement
  <2>3. m \in 1..Len(f) /\ f[m] = Bad
    BY <2>2
  <2>4. m - 1 \in 0..Len(f) /\ (m - 1) + 1 = m /\ \A i \in 1..(m - 1) : i \in 1..Len(f) /\ ~(m <= i)
    BY SMT, <2>3
  <2>5. \A i \in 1..(m - 1) : f[i] # Bad
    BY <2>2, <2>4
  <2> QED BY <2>3, <2>4, <2>5
<1> QED BY <1>1, <1>2

\* What scan_segment finds.
LEMMA IntactFacts ==
  ASSUME NEW f \in Seq(Block)
  PROVE  /\ Intact(f) \in 0..Len(f)
         /\ \A i \in 1..Intact(f) : f[i] # Bad
         /\ Intact(f) < Len(f) => f[Intact(f) + 1] = Bad
<1>1. CASE NoHeader(f)
  <2>1. Intact(f) = 0
    BY <1>1 DEF Intact
  <2>2. Len(f) \in Nat /\ (0 < Len(f) => f[1] = Bad)
    BY SMT, <1>1 DEF NoHeader
  <2> QED BY SMT, <2>1, <2>2
<1>2. CASE ~NoHeader(f)
  <2>1. Intact(f) = CHOOSE n \in 0..Len(f) : (\A i \in 1..n : f[i] # Bad) /\ (n < Len(f) => f[n + 1] = Bad)
    BY <1>2 DEF Intact
  <2> QED BY <2>1, IntactExists
<1> QED BY <1>1, <1>2

\* It is determined by its description.
LEMMA IntactIs ==
  ASSUME NEW f \in Seq(Block), NEW n \in 0..Len(f),
         \A i \in 1..n : f[i] # Bad, n < Len(f) => f[n + 1] = Bad
  PROVE  Intact(f) = n
<1>1. PICK k : k = Intact(f)
  BY SMT
<1>2. k \in 0..Len(f) /\ (\A i \in 1..k : f[i] # Bad) /\ (k < Len(f) => f[k + 1] = Bad)
  BY <1>1, IntactFacts
<1>3. ~(k < n)
  <2>1. SUFFICES ASSUME k < n PROVE FALSE
    OBVIOUS
  <2>2. k + 1 \in 1..n /\ k < Len(f)
    BY SMT, <1>2, <2>1
  <2> QED BY <1>2, <2>2
<1>4. ~(n < k)
  <2>1. SUFFICES ASSUME n < k PROVE FALSE
    OBVIOUS
  <2>2. n + 1 \in 1..k /\ n < Len(f)
    BY SMT, <1>2, <2>1
  <2> QED BY <1>2, <2>2
<1>5. k = n
  BY SMT, <1>2, <1>3, <1>4
<1> QED BY <1>1, <1>5

\* What a scan reads is a part of the file without a bad block.
LEMMA WholeFacts ==
  ASSUME NEW f \in Seq(Block)
  PROVE  /\ Whole(f) \in Seq(Block) /\ Len(Whole(f)) = Intact(f)
         /\ \A i \in 1..Intact(f) : Whole(f)[i] = f[i] /\ Whole(f)[i] # Bad
<1>1. PICK k : k = Intact(f)
  BY SMT
<1>2. k \in 0..Len(f) /\ \A i \in 1..k : f[i] # Bad
  BY <1>1, IntactFacts
<1>3. /\ SubSeq(f, 1, k) \in Seq(Block) /\ Len(SubSeq(f, 1, k)) = k
      /\ \A i \in 1..k : SubSeq(f, 1, k)[i] = f[i]
  BY SMT, <1>2
<1> QED BY <1>1, <1>2, <1>3 DEF Whole

\* A sequence is a prefix of itself.
LEMMA PreRefl ==
  ASSUME NEW a \in Seq(Block)
  PROVE  Pre(a, a) /\ Pre(<<>>, a) /\ a \o <<>> = a
BY SMT DEF Pre

\* A scan reads all of a file without a bad block.
LEMMA CleanWhole ==
  ASSUME NEW f \in Seq(Block), \A i \in 1..Len(f) : f[i] # Bad
  PROVE  Intact(f) = Len(f) /\ Whole(f) = f
<1>1. Len(f) \in 0..Len(f) /\ ~(Len(f) < Len(f)) /\ SubSeq(f, 1, Len(f)) = f
  BY SMT
<1>2. Intact(f) = Len(f)
  BY <1>1, IntactIs
<1> QED BY <1>1, <1>2 DEF Whole

\* Induction up to a bound.
LEMMA UpTo ==
  ASSUME NEW N \in Nat, NEW D, 0 \in D, \A i \in 1..N : i - 1 \in D => i \in D
  PROVE  \A m \in 0..N : m \in D
<1> DEFINE T == {m \in 0..N : m \notin D}
<1>1. SUFFICES ASSUME T # {} PROVE FALSE
  OBVIOUS
<1>2. T \in SUBSET Nat
  BY SMT
<1>3. PICK m \in T : \A k \in T : m <= k
  BY <1>1, <1>2, LeastElement
<1>4. m \in 0..N /\ m # 0
  BY <1>3
<1>5. m \in 1..N /\ m - 1 \in 0..N /\ ~(m <= m - 1)
  BY SMT, <1>4
<1>6. m - 1 \in D
  BY <1>3, <1>5
<1> QED BY <1>3, <1>5, <1>6

\* They are the functions of the model.
LEMMA RepIs ==
  /\ Replayed = Rep(dir, live) /\ ReplayedFrom = From(dir, live)
  /\ Replayed' = Rep(dir', live') /\ ReplayedFrom' = From(dir', live')
BY DEF Replayed, ReplayedFrom, Rep, From, RepStep, FromStep

\* What they compute, step by step: the records.
LEMMA RepDef ==
  ASSUME NEW d, NEW l
  PROVE  /\ Rep(d, l)[0] = <<>>
         /\ \A i \in 1..MaxSeg : Rep(d, l)[i] = RepStep(d, l, i, Rep(d, l)[i - 1])
<1> DEFINE F(g, m) == [i \in 0..m |-> IF i = 0 THEN <<>> ELSE RepStep(d, l, i, g[i - 1])]
           D == {m \in 0..MaxSeg : \E g : g = F(g, m)}
<1>1. MaxSeg \in Nat /\ 0 \in 0..MaxSeg /\ MaxSeg \in 0..MaxSeg /\ \A i \in 0..0 : i = 0
  BY SMT, WalAssumption
<1>2. 0 \in D
  <2>1. [i \in 0..0 |-> <<>>] = F([i \in 0..0 |-> <<>>], 0)
    BY <1>1
  <2> QED BY <1>1, <2>1
<1>3. ASSUME NEW m \in 1..MaxSeg, m - 1 \in D PROVE m \in D
  <2>1. m \in 0..MaxSeg /\ m # 0
    BY SMT, <1>1
  <2>2. PICK g : g = F(g, m - 1)
    BY <1>3
  <2> DEFINE h == [i \in 0..m |-> IF i = m THEN RepStep(d, l, m, g[m - 1]) ELSE g[i]]
  <2>3. ASSUME NEW i \in 0..m
        PROVE  (i # m => i \in 0..(m - 1)) /\ (i # 0 => i - 1 \in 0..m /\ i - 1 # m)
    BY SMT, <1>1
  <2>4. \A i \in 0..m : i # 0 => h[i - 1] = g[i - 1]
    BY <2>3
  <2>5. \A i \in 0..m : h[i] = IF i = 0 THEN <<>> ELSE RepStep(d, l, i, h[i - 1])
    <3> TAKE i \in 0..m
    <3>1. CASE i = m
      BY <2>1, <2>4, <3>1
    <3>2. CASE i # m
      <4>1. h[i] = g[i] /\ i \in 0..(m - 1)
        BY <2>3, <3>2
      <4>2. g[i] = IF i = 0 THEN <<>> ELSE RepStep(d, l, i, g[i - 1])
        BY <2>2, <4>1
      <4> QED BY <2>4, <4>1, <4>2
    <3> QED BY <3>1, <3>2
  <2>6. h = F(h, m)
    BY <2>5
  <2> QED BY <2>1, <2>6
<1> HIDE DEF D
<1>4. MaxSeg \in D
  BY <1>1, <1>2, <1>3, UpTo
<1>5. \E g : g = F(g, MaxSeg)
  BY <1>4 DEF D
<1>6. PICK g : g = Rep(d, l)
  OBVIOUS
<1>7. g = F(g, MaxSeg)
  BY <1>5, <1>6 DEF Rep
<1>8. \A i \in 1..MaxSeg : i \in 0..MaxSeg /\ i # 0
  BY SMT, <1>1
<1>9. g[0] = <<>> /\ \A i \in 1..MaxSeg : g[i] = RepStep(d, l, i, g[i - 1])
  BY <1>1, <1>7, <1>8
<1> QED BY <1>6, <1>9

\* The same for their segments.
LEMMA FromDef ==
  ASSUME NEW d, NEW l
  PROVE  /\ From(d, l)[0] = <<>>
         /\ \A i \in 1..MaxSeg : From(d, l)[i] = FromStep(d, l, i, From(d, l)[i - 1])
<1> DEFINE F(g, m) == [i \in 0..m |-> IF i = 0 THEN <<>> ELSE FromStep(d, l, i, g[i - 1])]
           D == {m \in 0..MaxSeg : \E g : g = F(g, m)}
<1>1. MaxSeg \in Nat /\ 0 \in 0..MaxSeg /\ MaxSeg \in 0..MaxSeg /\ \A i \in 0..0 : i = 0
  BY SMT, WalAssumption
<1>2. 0 \in D
  <2>1. [i \in 0..0 |-> <<>>] = F([i \in 0..0 |-> <<>>], 0)
    BY <1>1
  <2> QED BY <1>1, <2>1
<1>3. ASSUME NEW m \in 1..MaxSeg, m - 1 \in D PROVE m \in D
  <2>1. m \in 0..MaxSeg /\ m # 0
    BY SMT, <1>1
  <2>2. PICK g : g = F(g, m - 1)
    BY <1>3
  <2> DEFINE h == [i \in 0..m |-> IF i = m THEN FromStep(d, l, m, g[m - 1]) ELSE g[i]]
  <2>3. ASSUME NEW i \in 0..m
        PROVE  (i # m => i \in 0..(m - 1)) /\ (i # 0 => i - 1 \in 0..m /\ i - 1 # m)
    BY SMT, <1>1
  <2>4. \A i \in 0..m : i # 0 => h[i - 1] = g[i - 1]
    BY <2>3
  <2>5. \A i \in 0..m : h[i] = IF i = 0 THEN <<>> ELSE FromStep(d, l, i, h[i - 1])
    <3> TAKE i \in 0..m
    <3>1. CASE i = m
      BY <2>1, <2>4, <3>1
    <3>2. CASE i # m
      <4>1. h[i] = g[i] /\ i \in 0..(m - 1)
        BY <2>3, <3>2
      <4>2. g[i] = IF i = 0 THEN <<>> ELSE FromStep(d, l, i, g[i - 1])
        BY <2>2, <4>1
      <4> QED BY <2>4, <4>1, <4>2
    <3> QED BY <3>1, <3>2
  <2>6. h = F(h, m)
    BY <2>5
  <2> QED BY <2>1, <2>6
<1> HIDE DEF D
<1>4. MaxSeg \in D
  BY <1>1, <1>2, <1>3, UpTo
<1>5. \E g : g = F(g, MaxSeg)
  BY <1>4 DEF D
<1>6. PICK g : g = From(d, l)
  OBVIOUS
<1>7. g = F(g, MaxSeg)
  BY <1>5, <1>6 DEF From
<1>8. \A i \in 1..MaxSeg : i \in 0..MaxSeg /\ i # 0
  BY SMT, <1>1
<1>9. g[0] = <<>> /\ \A i \in 1..MaxSeg : g[i] = FromStep(d, l, i, g[i - 1])
  BY <1>1, <1>7, <1>8
<1> QED BY <1>6, <1>9

\* The directories d and e have the same segments up to k, with the same contents.
SameUpTo(d, l, e, m, k) == \A s \in 1..k : (s \in d <=> s \in e) /\ l[s] = m[s]

\* Replay depends on the files it reads only.
LEMMA RepFrame ==
  ASSUME NEW d, NEW l, NEW e, NEW m, NEW k \in 0..MaxSeg, SameUpTo(d, l, e, m, k)
  PROVE  Rep(d, l)[k] = Rep(e, m)[k] /\ From(d, l)[k] = From(e, m)[k]
<1> DEFINE D == {i \in 0..k : Rep(d, l)[i] = Rep(e, m)[i] /\ From(d, l)[i] = From(e, m)[i]}
<1>1. k \in Nat /\ 0 \in 0..k /\ k \in 0..k
  BY SMT, WalAssumption
<1>2. 0 \in D
  BY <1>1, RepDef, FromDef
<1>3. ASSUME NEW i \in 1..k, i - 1 \in D PROVE i \in D
  <2>1. i \in 0..k /\ i \in 1..MaxSeg
    BY SMT, <1>1, WalAssumption
  <2>2. PICK x, y : x = Rep(d, l)[i - 1] /\ y = From(d, l)[i - 1]
    OBVIOUS
  <2>3. x = Rep(e, m)[i - 1] /\ y = From(e, m)[i - 1]
    BY <1>3, <2>2
  <2>4. (i \in d <=> i \in e) /\ l[i] = m[i]
    BY DEF SameUpTo
  <2>5. RepStep(d, l, i, x) = RepStep(e, m, i, x)
    BY <2>4 DEF RepStep
  <2>6. FromStep(d, l, i, y) = FromStep(e, m, i, y)
    BY <2>4 DEF FromStep
  <2>7. Rep(d, l)[i] = RepStep(d, l, i, x) /\ Rep(e, m)[i] = RepStep(e, m, i, x)
    <3>1. /\ Rep(d, l)[i] = RepStep(d, l, i, Rep(d, l)[i - 1])
          /\ Rep(e, m)[i] = RepStep(e, m, i, Rep(e, m)[i - 1])
      BY <2>1, RepDef
    <3> QED BY <2>2, <2>3, <3>1
  <2>8. From(d, l)[i] = FromStep(d, l, i, y) /\ From(e, m)[i] = FromStep(e, m, i, y)
    <3>1. /\ From(d, l)[i] = FromStep(d, l, i, From(d, l)[i - 1])
          /\ From(e, m)[i] = FromStep(e, m, i, From(e, m)[i - 1])
      BY <2>1, FromDef
    <3> QED BY <2>2, <2>3, <3>1
  <2> QED BY <2>1, <2>5, <2>6, <2>7, <2>8
<1> HIDE DEF D
<1>4. k \in D
  BY <1>1, <1>2, <1>3, UpTo
<1> QED BY <1>4 DEF D

\* Replay ends with the last file.
LEMMA RepTop ==
  ASSUME NEW d, NEW l, NEW k \in 0..MaxSeg, \A s \in 1..MaxSeg : s \in d => s <= k
  PROVE  Rep(d, l)[MaxSeg] = Rep(d, l)[k] /\ From(d, l)[MaxSeg] = From(d, l)[k]
<1> DEFINE D == {i \in 0..(MaxSeg - k) : Rep(d, l)[k + i] = Rep(d, l)[k] /\ From(d, l)[k + i] = From(d, l)[k]}
<1>1. /\ MaxSeg - k \in Nat /\ 0 \in 0..(MaxSeg - k) /\ MaxSeg - k \in 0..(MaxSeg - k)
      /\ k + 0 = k /\ k + (MaxSeg - k) = MaxSeg
  BY SMT, WalAssumption
<1>2. 0 \in D
  BY <1>1
<1>3. ASSUME NEW i \in 1..(MaxSeg - k), i - 1 \in D PROVE i \in D
  <2>1. i \in 0..(MaxSeg - k) /\ k + i \in 1..MaxSeg /\ (k + i) - 1 = k + (i - 1) /\ ~(k + i <= k)
    BY SMT, <1>1, WalAssumption
  <2>2. k + i \notin d
    BY <2>1
  <2>3. Rep(d, l)[k + i] = Rep(d, l)[k + (i - 1)]
    BY <2>1, <2>2, RepDef DEF RepStep
  <2>4. From(d, l)[k + i] = From(d, l)[k + (i - 1)]
    BY <2>1, <2>2, FromDef DEF FromStep
  <2> QED BY <1>3, <2>1, <2>3, <2>4
<1> HIDE DEF D
<1>4. MaxSeg - k \in D
  BY <1>1, <1>2, <1>3, UpTo
<1> QED BY <1>1, <1>4 DEF D

\* A file is a sequence of blocks.
LEMMA FileType ==
  ASSUME TypeOK, NEW s \in Seg
  PROVE  live[s] \in Seq(Block) /\ sure[s] \in Seq(Block) /\ maybe[s] \in Seq(Block)
BY DEF TypeOK

\* A file cut short, or with damage, keeps its shape.
LEMMA ShapeLess ==
  ASSUME NEW f \in Seq(Block), Shape(f), NEW g \in Seq(Block), Len(g) <= Len(f),
         \A i \in 1..Len(g) : g[i] \in {Bad, f[i]}
  PROVE  Shape(g)
<1>1. \A i \in 1..Len(g) : i \in 1..Len(f)
  BY SMT
<1> QED BY <1>1 DEF Shape

\* So does one that is cut.
LEMMA ShapeCut ==
  ASSUME NEW f \in Seq(Block), Shape(f), NEW n \in 0..Len(f)
  PROVE  SubSeq(f, 1, n) \in Seq(Block) /\ Shape(SubSeq(f, 1, n))
<1>1. /\ SubSeq(f, 1, n) \in Seq(Block) /\ Len(SubSeq(f, 1, n)) = n /\ n <= Len(f)
      /\ \A i \in 1..n : SubSeq(f, 1, n)[i] = f[i]
  BY SMT
<1>2. \A i \in 1..n : SubSeq(f, 1, n)[i] \in {Bad, f[i]}
  BY <1>1
<1> QED BY <1>1, <1>2, ShapeLess

\* The short files.
LEMMA ShortFiles ==
  /\ <<>> \in Seq(Block) /\ <<Hdr>> \in Seq(Block) /\ <<Bad>> \in Seq(Block)
  /\ Shape(<<>>) /\ Shape(<<Hdr>>) /\ Shape(<<Bad>>)
  /\ Whole(<<>>) = <<>> /\ Whole(<<Bad>>) = <<>> /\ Whole(<<Hdr>>) = <<Hdr>>
  /\ Intact(<<Hdr>>) = 1 /\ Intact(<<>>) = 0 /\ Intact(<<Bad>>) = 0
  /\ Clean(<<Hdr>>) /\ <<Hdr>> # <<>> /\ <<Hdr>> # <<Bad>> /\ <<Bad>> # <<>>
  /\ Len(<<>>) = 0 /\ Len(<<Hdr>>) = 1 /\ Len(<<Bad>>) = 1
<1>1. <<>> \in Seq(Block) /\ <<Hdr>> \in Seq(Block) /\ <<Bad>> \in Seq(Block)
  BY SMT, BlockFacts
<1>2. /\ Len(<<>>) = 0 /\ Len(<<Hdr>>) = 1 /\ Len(<<Bad>>) = 1
      /\ <<Hdr>>[1] = Hdr /\ <<Bad>>[1] = Bad
      /\ <<Hdr>> # <<>> /\ <<Hdr>> # <<Bad>> /\ <<Bad>> # <<>>
      /\ (\A i \in 1..1 : i = 1) /\ 1..0 = {}
  BY SMT, BlockFacts
<1>3. Shape(<<>>) /\ Shape(<<Hdr>>) /\ Shape(<<Bad>>)
  BY <1>2 DEF Shape
<1>4. \A i \in 1..Len(<<Hdr>>) : <<Hdr>>[i] # Bad
  BY <1>2, BlockFacts
<1>5. Whole(<<Hdr>>) = <<Hdr>> /\ Intact(<<Hdr>>) = 1
  BY <1>1, <1>2, <1>4, CleanWhole
<1>6. Intact(<<>>) = 0 /\ Intact(<<Bad>>) = 0
  BY DEF Intact, NoHeader
<1>7. SubSeq(<<>>, 1, 0) = <<>> /\ SubSeq(<<Bad>>, 1, 0) = <<>>
  BY SMT, BlockFacts
<1>8. Whole(<<>>) = <<>> /\ Whole(<<Bad>>) = <<>>
  BY <1>6, <1>7 DEF Whole
<1>9. Clean(<<Hdr>>)
  BY <1>2, <1>4 DEF Clean
<1> QED BY <1>1, <1>2, <1>3, <1>5, <1>6, <1>8, <1>9

\* One file is changed.
LEMMA FileSet ==
  ASSUME NEW l \in [Seg -> Seq(Block)], NEW s \in Seg, NEW x \in Seq(Block),
         NEW m, m = [l EXCEPT ![s] = x]
  PROVE  m \in [Seg -> Seq(Block)] /\ m[s] = x /\ \A t \in Seg : t # s => m[t] = l[t]
OBVIOUS

\* The segment that open resumes.
LEMMA LastIs ==
  ASSUME NEW s \in dir, \A t \in dir : t <= s, dir \subseteq Seg
  PROVE  Last = s
<1>1. dir # {} /\ \E u \in dir : \A t \in dir : t <= u
  OBVIOUS
<1>2. Last = MaxOf(dir)
  BY <1>1 DEF Last
<1>3. PICK u : u = MaxOf(dir)
  OBVIOUS
<1>4. u \in dir /\ \A t \in dir : t <= u
  BY <1>1, <1>3 DEF MaxOf
<1>5. u <= s /\ s <= u /\ u \in Seg /\ s \in Seg
  BY <1>4
<1>6. u = s
  BY SMT, <1>5, WalAssumption DEF Seg
<1> QED BY <1>2, <1>3, <1>6

\* It is the highest number in the directory.
LEMMA LastFacts ==
  ASSUME dir \subseteq Seg
  PROVE  Last \in Seg /\ (dir # {} => Last \in dir /\ \A s \in dir : s <= Last)
<1>1. CASE dir = {}
  <2>1. 1 \in Seg
    BY SMT, WalAssumption DEF Seg
  <2> QED BY <1>1, <2>1 DEF Last
<1>2. CASE dir # {}
  <2> DEFINE T == {i \in 0..MaxSeg : MaxSeg - i \in dir}
  <2>1. T \in SUBSET Nat
    BY SMT, WalAssumption
  <2>2. PICK s : s \in dir
    BY <1>2
  <2>3. MaxSeg - s \in 0..MaxSeg /\ MaxSeg - (MaxSeg - s) = s
    BY SMT, <2>2, WalAssumption DEF Seg
  <2>4. T # {}
    BY <2>2, <2>3
  <2>5. PICK i \in T : \A k \in T : i <= k
    BY <2>1, <2>4, LeastElement
  <2>6. i \in 0..MaxSeg /\ MaxSeg - i \in dir
    BY <2>5
  <2>7. \A t \in dir : t <= MaxSeg - i
    <3> TAKE t \in dir
    <3>1. MaxSeg - t \in 0..MaxSeg /\ MaxSeg - (MaxSeg - t) = t
      BY SMT, WalAssumption DEF Seg
    <3>2. i <= MaxSeg - t
      BY <2>5, <3>1
    <3> QED BY SMT, <2>6, <3>1, <3>2, WalAssumption DEF Seg
  <2>8. Last = MaxSeg - i
    BY <2>6, <2>7, LastIs
  <2> QED BY <1>2, <2>6, <2>7, <2>8
<1> QED BY <1>1, <1>2

\* The contents that a log gives its last segment.
LEMMA CurrentFacts ==
  ASSUME NEW lg \in Seq(Rec), NEW k \in Nat, k >= 1, k <= Len(lg) + 1
  PROVE  IsCurrent(CurrentOf(lg, k), lg, k, Len(lg) + 1 - k)
<1>2. PICK n : n = Len(lg) + 1 - k
  OBVIOUS
<1>3. n \in 0..Len(lg) /\ Len(lg) = n + (k - 1)
  BY SMT, <1>2
<1>4. PICK r : r = SubSeq(lg, n + 1, Len(lg))
  OBVIOUS
<1>5. /\ r \in Seq(Rec) /\ Len(r) = k - 1
      /\ \A i \in 1..Len(r) : r[i] = lg[n + i]
  BY SMT, <1>3, <1>4
<1>6. PICK h : h = <<Hdr>>
  OBVIOUS
<1>7. h \in Seq(Block) /\ r \in Seq(Block) /\ Len(h) = 1 /\ h[1] = Hdr /\ \A i \in 1..Len(r) : r[i] \in Rec
  BY SMT, <1>5, <1>6, BlockFacts
<1>8. PICK b : b = h \o r
  OBVIOUS
<1>9. /\ b \in Seq(Block) /\ Len(b) = k /\ b[1] = Hdr
      /\ \A i \in 1..Len(r) : b[1 + i] = r[i]
  <2>1. h \in Seq(Block) /\ r \in Seq(Block)
    BY <1>7
  <2>2. /\ b \in Seq(Block) /\ Len(b) = Len(h) + Len(r)
        /\ \A i \in 1..Len(h) : b[i] = h[i]
        /\ \A i \in 1..Len(r) : b[Len(h) + i] = r[i]
    BY SMT, <1>8, <2>1
  <2>3. 1 \in 1..1 /\ 1 + (k - 1) = k
    BY SMT
  <2> QED BY <1>5, <1>7, <2>2, <2>3
<1>10. \A i \in 2..k : i - 1 \in 1..Len(r) /\ 1 + (i - 1) = i
  BY SMT, <1>5
<1>11. \A i \in 2..k : b[i] = lg[n + (i - 1)] /\ b[i] \in Rec
  BY ZenonT(30), <1>5, <1>7, <1>9, <1>10
<1>12. (\A i \in 1..Len(b) : i = 1 \/ i \in 2..k) /\ b # <<>>
  BY SMT, <1>9
<1>13. \A i \in 1..Len(b) : b[i] # Bad
  BY ZenonT(30), <1>9, <1>11, <1>12, BlockFacts
<1>14. Clean(b) /\ Whole(b) = b
  BY <1>9, <1>12, <1>13, CleanWhole DEF Clean
<1>15. b = CurrentOf(lg, k)
  BY <1>2, <1>4, <1>6, <1>8 DEF CurrentOf
<1>16. IsCurrent(b, lg, k, n)
  BY <1>3, <1>9, <1>11, <1>12, <1>13, <1>14 DEF IsCurrent
<1> QED BY <1>2, <1>15, <1>16

\* What log says of the current segment, before a step and after it.
LEMMA BaseFacts ==
  ASSUME TypeOK, LogInv
  PROVE  /\ Base \in Seq(Block) /\ Len(Base) = segLen /\ segLen \in Nat /\ segLen >= 1
         /\ Base # <<>> /\ Base[1] = Hdr
         /\ \A i \in 1..Len(Base) : Base[i] # Bad
         /\ \A i \in 2..segLen : Base[i] = log[Older + (i - 1)]
         /\ Older \in 0..Len(log) /\ Len(log) = Older + (segLen - 1)
         /\ Clean(Base) /\ Whole(Base) = Base
<1>1. log \in Seq(Rec) /\ segLen \in Nat /\ segLen >= 1 /\ segLen <= Len(log) + 1
  BY DEF TypeOK, LogInv
<1>2. Base = CurrentOf(log, segLen) /\ Older = Len(log) + 1 - segLen
  BY DEF Base, Older, CurrentOf
<1>3. IsCurrent(Base, log, segLen, Older)
  BY <1>1, <1>2, CurrentFacts
<1> QED BY <1>1, <1>3 DEF IsCurrent

\* A step that leaves the log alone leaves what it says alone.
LEMMA LogFrame ==
  ASSUME UNCHANGED <<log, segOf, segSeq, segLen>>
  PROVE  Base' = Base /\ Older' = Older /\ (LogInv => LogInv')
<1>1. log' = log /\ segOf' = segOf /\ segSeq' = segSeq /\ segLen' = segLen
  OBVIOUS
<1>2. Older' = Older
  BY <1>1 DEF Older
<1>3. Base' = Base
  BY <1>1, <1>2 DEF Base
<1>4. LogInv => LogInv'
  BY <1>1, <1>2 DEF LogInv
<1> QED BY <1>2, <1>3, <1>4

\* A step that leaves the current segment alone leaves it safe.
LEMMA CurFrame ==
  ASSUME CurInv, UNCHANGED <<log, segOf, segSeq, segLen, tail>>, Running' => Running, resumed' = resumed,
         live'[segSeq] = live[segSeq], sure'[segSeq] = sure[segSeq], maybe'[segSeq] = maybe[segSeq]
  PROVE  CurInv'
<1>1. Base' = Base /\ tail' = tail /\ segSeq' = segSeq
  BY LogFrame
<1> QED BY <1>1 DEF CurInv, Good

\* A step that leaves the segments up to k alone leaves what replay reads of them.
LEMMA ReplayFrame ==
  ASSUME NEW k \in 0..MaxSeg, SameUpTo(dir, live, dir', live', k)
  PROVE  Replayed'[k] = Replayed[k] /\ ReplayedFrom'[k] = ReplayedFrom[k]
<1>1. Rep(dir, live)[k] = Rep(dir', live')[k] /\ From(dir, live)[k] = From(dir', live')[k]
  BY SMT, RepFrame
<1> QED BY <1>1, RepIs

\* A step that leaves the older segments alone leaves them complete.
LEMMA OldFrame ==
  ASSUME TypeOK, OldInv, segSeq' = segSeq,
         SubSeq(log', 1, Older') = SubSeq(log, 1, Older),
         SubSeq(segOf', 1, Older') = SubSeq(segOf, 1, Older),
         \A s \in 1..segSeq : s \in dir' /\ s \in ddir',
         \A s \in dir' \cup ddir' : s <= segSeq + 1,
         \A s \in 1..(segSeq - 1) : live'[s] = live[s] /\ sure'[s] = sure[s] /\ maybe'[s] = maybe[s]
  PROVE  OldInv'
<1>2. segSeq - 1 \in 0..MaxSeg /\ \A s \in 1..(segSeq - 1) : s \in 1..segSeq
  <2>1. segSeq \in Seg
    BY DEF TypeOK
  <2> QED BY SMT, <2>1, WalAssumption DEF Seg
<1>3. \A s \in 1..(segSeq - 1) : (s \in dir <=> s \in dir') /\ live[s] = live'[s]
  BY <1>2 DEF OldInv
<1>4. PICK k : k = segSeq - 1
  OBVIOUS
<1>5. k \in 0..MaxSeg /\ SameUpTo(dir, live, dir', live', k)
  BY <1>2, <1>3, <1>4 DEF SameUpTo
<1>6. Replayed'[k] = Replayed[k] /\ ReplayedFrom'[k] = ReplayedFrom[k]
  BY <1>5, ReplayFrame
<1>7. \A s \in 1..k : Synced(s)' /\ Clean(live'[s])
  BY <1>4 DEF OldInv, Synced
<1>8. segSeq' - 1 = k
  BY <1>4
<1>9. Replayed[k] = SubSeq(log, 1, Older) /\ ReplayedFrom[k] = SubSeq(segOf, 1, Older)
  BY <1>4 DEF OldInv
<1>10. /\ Replayed'[segSeq' - 1] = SubSeq(log', 1, Older')
       /\ ReplayedFrom'[segSeq' - 1] = SubSeq(segOf', 1, Older')
  BY <1>6, <1>8, <1>9
<1>11. \A s \in 1..(segSeq' - 1) : Synced(s)' /\ Clean(live'[s])
  BY <1>7, <1>8
<1> QED BY <1>10, <1>11 DEF OldInv

\* resumed changes only when open ends or the segment is synced.
LEMMA ResumedSame ==
  ASSUME TypeOK, ResumedInv, Next, ~(pc = "openDir" /\ pc' = "ready"),
         segSeq' = segSeq, maybe'[segSeq] = maybe[segSeq]
  PROVE  resumed' = resumed
<1>1. resumed \in BOOLEAN /\ resumed' = (resumed /\ maybe[segSeq] # <<>>)
  BY DEF TypeOK, Next
<1>2. resumed => maybe[segSeq] # <<>>
  BY DEF ResumedInv
<1> QED BY <1>1, <1>2

\* Types that every step establishes.
LEMMA NextTypes ==
  ASSUME Next
  PROVE  resumed' \in BOOLEAN /\ <<>> \in Seq(Rec)
<1>1. <<>> \in Seq(Rec)
  BY SMT
<1> QED BY <1>1 DEF Next

\* resumed speaks of the segment that open or a rotation chose.
LEMMA ResumedNext ==
  ASSUME Next
  PROVE  ResumedInv'
<1>1. CASE pc = "openDir" /\ pc' = "ready"
  <2>1. OpenDir \/ Crash
    BY <1>1 DEF Next, Step, AppendMany, WriteSome, WriteAll, SyncOk, AppendError, Cut, CutSync,
       CutError, RotateSegment, RotateSync, RotateCreate, RotateHeader, RotateHdrSync, RotateRemove,
       RotateRemoveSync, RotateDir, OpenScan, OpenCut, OpenCutSync, OpenCreate, OpenHeader, OpenHdrSync
  <2>2. ~Crash
    BY <1>1 DEF Crash
  <2>3. segSeq' = Last /\ maybe' = maybe
    BY <2>1, <2>2 DEF OpenDir
  <2> QED BY <1>1, <2>3 DEF Next, ResumedInv
<1>2. CASE ~(pc = "openDir" /\ pc' = "ready")
  BY <1>2 DEF Next, ResumedInv
<1> QED BY <1>1, <1>2

\* The segments of a longer log.
LEMMA GrowSegs ==
  ASSUME NEW sg \in Seq(Seg), NEW len \in Nat, NEW q \in Seg, NEW n \in 0..len, NEW m \in Nat,
         SegsFrom(sg, len, q, n)
  PROVE  /\ sg \o [i \in 1..m |-> q] \in Seq(Seg)
         /\ SegsFrom(sg \o [i \in 1..m |-> q], len + m, q, n)
         /\ SubSeq(sg \o [i \in 1..m |-> q], 1, n) = SubSeq(sg, 1, n)
<1>1. PICK t : t = [i \in 1..m |-> q]
  OBVIOUS
<1>2. PICK g : g = sg \o t
  OBVIOUS
<1>3. t \in Seq(Seg) /\ Len(t) = m /\ \A i \in 1..m : t[i] = q
  BY SMT, <1>1
<1>4. /\ g \in Seq(Seg) /\ Len(g) = Len(sg) + Len(t)
      /\ \A i \in 1..Len(sg) : g[i] = sg[i]
      /\ \A i \in 1..Len(t) : g[Len(sg) + i] = t[i]
  <2>1. t \in Seq(Seg)
    BY <1>3
  <2> QED BY SMT, <1>2, <2>1
<1>5. Len(sg) = len /\ \A i \in 1..len : sg[i] <= q /\ (sg[i] = q <=> i > n)
  BY DEF SegsFrom
<1>6. \A i \in 1..(len + m) : g[i] <= q /\ (g[i] = q <=> i > n)
  <2> TAKE i \in 1..(len + m)
  <2>1. CASE i \in 1..len
    BY <1>4, <1>5, <2>1
  <2>2. CASE i \notin 1..len
    <3>1. i - len \in 1..m /\ len + (i - len) = i /\ i > n /\ q <= q
      BY SMT, <2>2 DEF Seg
    <3>2. g[i] = q
      BY <1>3, <1>4, <1>5, <3>1
    <3> QED BY <3>1, <3>2
  <2> QED BY <2>1, <2>2
<1>7. SegsFrom(g, len + m, q, n)
  BY <1>3, <1>4, <1>5, <1>6 DEF SegsFrom
<1>8. SubSeq(g, 1, n) = SubSeq(sg, 1, n)
  <2>1. n \in 0..Len(sg) /\ n \in 0..Len(g)
    BY SMT, <1>3, <1>4, <1>5
  <2> QED BY SMT, <1>4, <2>1
<1> QED BY <1>1, <1>2, <1>4, <1>7, <1>8

\* The invariant on the log, in these terms.
LEMMA LogInvIs ==
  /\ LogInv <=> segLen >= 1 /\ segLen <= Len(log) + 1 /\ SegsFrom(segOf, Len(log), segSeq, Older)
  /\ LogInv' <=> segLen' >= 1 /\ segLen' <= Len(log') + 1 /\ SegsFrom(segOf', Len(log'), segSeq', Older')
BY DEF LogInv, SegsFrom

\* An empty file in front of a write adds nothing.
LEMMA EmptyFirst ==
  ASSUME NEW a \in Seq(Block)
  PROVE  <<>> \o a = a
BY SMT

\* Nothing was written to an empty file.
LEMMA EmptyWritten == SubSeq(<<>>, Len(<<>>) + 1, Len(<<>>)) = <<>>
BY SMT

\* A header written to a blank file.
LEMMA HeaderWrite ==
  ASSUME TypeOK, NEW s \in Seg, Blank(s), NEW part \in Seq(Block), WriteTo(s, <<Hdr>>, part)
  PROVE  /\ live' \in [Seg -> Seq(Block)] /\ live'[s] = part /\ \A t \in Seg : t # s => live'[t] = live[t]
         /\ maybe' \in [Seg -> Seq(Block)] /\ maybe'[s] = <<Hdr>> /\ \A t \in Seg : t # s => maybe'[t] = maybe[t]
<1>1. live[s] = <<>> /\ sure[s] = <<>>
  BY DEF Blank
<1>2. live \in [Seg -> Seq(Block)] /\ maybe \in [Seg -> Seq(Block)] /\ <<Hdr>> \in Seq(Block)
  BY ShortFiles DEF TypeOK
<1>3. /\ live' = [live EXCEPT ![s] = live[s] \o part]
      /\ maybe' = [maybe EXCEPT ![s] = SubSeq(live[s], Len(sure[s]) + 1, Len(live[s])) \o <<Hdr>>]
  BY DEF WriteTo, Written
<1>4. <<>> \o part = part
  BY EmptyFirst
<1>5. SubSeq(<<>>, Len(<<>>) + 1, Len(<<>>)) \o <<Hdr>> = <<Hdr>>
  BY <1>2, EmptyFirst, EmptyWritten
<1>6. live' = [live EXCEPT ![s] = part] /\ maybe' = [maybe EXCEPT ![s] = <<Hdr>>]
  BY <1>1, <1>3, <1>4, <1>5
<1>7. live' \in [Seg -> Seq(Block)] /\ live'[s] = part /\ \A t \in Seg : t # s => live'[t] = live[t]
  BY <1>2, <1>6, FileSet
<1>8. maybe' \in [Seg -> Seq(Block)] /\ maybe'[s] = <<Hdr>> /\ \A t \in Seg : t # s => maybe'[t] = maybe[t]
  BY <1>2, <1>6, FileSet
<1> QED BY <1>7, <1>8

\* Sequences that agree in every place are equal.
LEMMA SameSeq ==
  ASSUME NEW S, NEW a \in Seq(S), NEW b \in Seq(S), Len(a) = Len(b), \A i \in 1..Len(a) : a[i] = b[i]
  PROVE  a = b
BY SMT

\* The segment open resumes is the current one or a half-born one beside it.
LEMMA LastBorn ==
  ASSUME TypeOK, Born
  PROVE  /\ segSeq \in Seg /\ segSeq \in dir /\ dir # {} /\ Last \in dir /\ Last \in Seg
         /\ \A s \in dir : s <= Last
         /\ Last = segSeq \/ Last = segSeq + 1
         /\ Last = segSeq => segSeq + 1 \notin dir
         /\ \A s \in 1..(segSeq - 1) : s \in Seg /\ s # Last /\ s # segSeq
         /\ segSeq + 1 # segSeq
<1>1. segSeq \in 1..MaxSeg /\ dir \subseteq 1..MaxSeg /\ segSeq \in Seg /\ dir \subseteq Seg
  BY DEF TypeOK, Seg
<1>2. segSeq \in 1..segSeq
  BY SMT, <1>1, WalAssumption
<1>3. segSeq \in dir /\ dir # {} /\ \A s \in dir : s <= segSeq + 1
  BY <1>2 DEF Born, OldInv
<1>4. Last \in dir /\ Last \in Seg /\ \A s \in dir : s <= Last
  BY <1>1, <1>3, LastFacts
<1>5. Last \in 1..MaxSeg /\ segSeq <= Last /\ Last <= segSeq + 1
  BY <1>3, <1>4 DEF Seg
<1>6. PICK r : r = Last
  OBVIOUS
<1>7. r \in 1..MaxSeg /\ segSeq <= r /\ r <= segSeq + 1
  BY <1>5, <1>6
<1>8. /\ r = segSeq \/ r = segSeq + 1
      /\ r = segSeq => ~(segSeq + 1 <= r)
      /\ \A s \in 1..(segSeq - 1) : s \in Seg /\ s # r /\ s # segSeq
      /\ segSeq + 1 # segSeq
  BY SMT, <1>1, <1>7, WalAssumption DEF Seg
<1> QED BY <1>1, <1>3, <1>4, <1>6, <1>8

\* The same directory, the same last segment.
LEMMA LastSame ==
  ASSUME dir' = dir
  PROVE  Last' = Last
BY SMT DEF Last, MaxOf

\* resumed is set by the end of open only.
LEMMA StillUnsynced ==
  ASSUME Next, pc' # "ready", ~resumed
  PROVE  ~resumed'
BY DEF Next

\* What open knows at its steps after the scan.
LEMMA OpenFacts ==
  ASSUME WalInv, pc \in OpenPC \ {"openCreate"}
  PROVE  /\ TypeOK /\ Shapes /\ OpenInv /\ dir # {} /\ Last \in Seg /\ Last \in dir
         /\ \A s \in dir : s <= Last
         /\ live[Last] \in Seq(Block) /\ Shape(live[Last])
         /\ live \in [Seg -> Seq(Block)] /\ sure \in [Seg -> Seq(Block)] /\ maybe \in [Seg -> Seq(Block)]
         /\ (exposed \/ Unborn \/ Born)
<1>1. TypeOK /\ Shapes /\ OpenInv /\ (exposed \/ Unborn \/ Born) /\ dir # {} /\ dir \subseteq Seg
  BY DEF WalInv, OpenInv, DiskInv, TypeOK
<1>2. Last \in Seg /\ Last \in dir /\ \A s \in dir : s <= Last
  BY <1>1, LastFacts
<1> QED BY <1>1, <1>2, FileType DEF Shapes, TypeOK

\* What open reads of the segment it resumes: all of it.
LEMMA OpenReads ==
  ASSUME WalInv, pc = "openDir"
  PROVE  /\ Last \in 1..MaxSeg /\ Last - 1 \in 0..MaxSeg /\ Last \in dir /\ live[Last] \in Seq(Block)
         /\ Shape(live[Last]) /\ Clean(live[Last]) /\ Intact(live[Last]) = Len(live[Last])
         /\ Whole(live[Last]) = live[Last] /\ Len(live[Last]) # 0
         /\ Replayed[MaxSeg] = Replayed[Last - 1] \o SubSeq(live[Last], 2, Intact(live[Last]))
         /\ ReplayedFrom[MaxSeg] = ReplayedFrom[Last - 1] \o [i \in 1..(Len(live[Last]) - 1) |-> Last]
<1>1. /\ TypeOK /\ Shapes /\ OpenInv /\ dir # {} /\ Last \in Seg /\ Last \in dir /\ (\A s \in dir : s <= Last)
      /\ live[Last] \in Seq(Block) /\ Shape(live[Last])
  BY OpenFacts DEF OpenPC
<1>2. PICK r, f : r = Last /\ f = live[Last]
  OBVIOUS
<1>3. f \in Seq(Block) /\ Clean(f) /\ f # <<>> /\ Shape(f)
  BY <1>1, <1>2 DEF OpenInv, Clean
<1>4. Intact(f) = Len(f) /\ Whole(f) = f
  BY <1>3, CleanWhole DEF Clean
<1>5. Len(f) # 0
  BY SMT, <1>3
<1>6. r \in 1..MaxSeg /\ r - 1 \in 0..MaxSeg /\ r \in 0..MaxSeg /\ r \in dir /\ r \in Seg
  <2>1. r \in Seg /\ r \in dir
    BY <1>1, <1>2
  <2> QED BY SMT, <2>1, WalAssumption DEF Seg
<1>7. \A s \in 1..MaxSeg : s \in dir => s <= r
  BY <1>1, <1>2
<1>8. /\ Rep(dir, live)[MaxSeg] = Rep(dir, live)[r] /\ From(dir, live)[MaxSeg] = From(dir, live)[r]
  BY <1>6, <1>7, RepTop
<1>9. /\ Rep(dir, live)[r] = RepStep(dir, live, r, Rep(dir, live)[r - 1])
      /\ From(dir, live)[r] = FromStep(dir, live, r, From(dir, live)[r - 1])
  BY <1>6, RepDef, FromDef
<1>10. Replayed[MaxSeg] = Replayed[r - 1] \o SubSeq(live[r], 2, Intact(live[r]))
  BY <1>6, <1>8, <1>9, RepIs DEF RepStep
<1>11. ReplayedFrom[MaxSeg] = ReplayedFrom[r - 1] \o [i \in 1..(Len(f) - 1) |-> r]
  <2>1. live[r] = f
    BY <1>2
  <2>2. From(dir, live)[r]
          = From(dir, live)[r - 1] \o [i \in 1..(IF Intact(f) = 0 THEN 0 ELSE Intact(f) - 1) |-> r]
    BY <1>6, <1>9, <2>1 DEF FromStep
  <2>3. (IF Intact(f) = 0 THEN 0 ELSE Intact(f) - 1) = Len(f) - 1
    BY <1>4, <1>5
  <2> QED BY <1>8, <2>2, <2>3, RepIs
<1> QED BY <1>2, <1>3, <1>4, <1>5, <1>6, <1>10, <1>11

\* A file that is set, and the others.
LEMMA OneSet ==
  ASSUME NEW l \in [Seg -> Seq(Block)], NEW s \in Seg, NEW x, NEW m, m = [l EXCEPT ![s] = x]
  PROVE  m[s] = x /\ \A t \in Seg : t # s => m[t] = l[t]
BY SMT

\* SureInv when one file changes.
LEMMA SureFiles ==
  ASSUME SureInv, NEW k \in Seg,
         \A s \in Seg : s # k => live'[s] = live[s] /\ sure'[s] = sure[s] /\ maybe'[s] = maybe[s],
         maybe'[k] # <<>> \/ sure'[k] = live'[k]
  PROVE  \A s \in Seg : SureOf(s)'
<1> TAKE s \in Seg
<1>1. CASE s = k
  BY <1>1, ShortFiles DEF SureOf
<1>2. CASE s # k
  BY <1>2 DEF SureInv, SureOf
<1> QED BY <1>1, <1>2

\* SureInv when no file changes.
LEMMA SureSame ==
  ASSUME SureInv, live' = live, sure' = sure, maybe' = maybe
  PROVE  \A s \in Seg : SureOf(s)'
BY DEF SureInv, SureOf

\* A sync of one file.
LEMMA SureSync ==
  ASSUME TypeOK, SureInv, NEW k \in Seg, SyncFile(k), live' = live
  PROVE  (\A s \in Seg : SureOf(s)') /\ sure'[k] = live[k] /\ \A s \in Seg : s # k => sure'[s] = sure[s] /\ maybe'[s] = maybe[s]
<1>1. sure \in [Seg -> Seq(Block)] /\ maybe \in [Seg -> Seq(Block)]
  BY DEF TypeOK
<1>2. sure' = [sure EXCEPT ![k] = live[k]] /\ maybe' = [maybe EXCEPT ![k] = <<>>]
  BY DEF SyncFile
<1>3. sure'[k] = live[k] /\ \A s \in Seg : s # k => sure'[s] = sure[s]
  BY <1>1, <1>2, OneSet
<1>4. \A s \in Seg : s # k => maybe'[s] = maybe[s]
  BY <1>1, <1>2, OneSet
<1> QED BY <1>3, <1>4, SureFiles

-----------------------------------------------------------------------------
(* Wal::open *)

\* The steps of open preserve the invariant.
LEMMA OpenPreserves ==
  Inv /\ Next
  /\ (OpenScan \/ OpenCut \/ OpenCutSync \/ OpenCreate \/ OpenHeader \/ OpenHdrSync \/ OpenDir)
  => Inv'
\* Concatenation, place by place.
<1>ConcatFacts. ASSUME NEW S, NEW a \in Seq(S), NEW b \in Seq(S)
                PROVE  /\ a \o b \in Seq(S) /\ Len(a \o b) = Len(a) + Len(b)
                       /\ Len(a) \in Nat /\ Len(b) \in Nat
                       /\ \A i \in 1..Len(a) : (a \o b)[i] = a[i]
                       /\ \A i \in 1..Len(b) : (a \o b)[Len(a) + i] = b[i]
  BY SMT, <1>ConcatFacts
\* Cutting a file where the scan stops changes nothing for the next scan.
<1>WholeAgain. ASSUME NEW f \in Seq(Block)
               PROVE  Whole(Whole(f)) = Whole(f)
  <2> USE <1>WholeAgain
  <2>1. PICK w : w = Whole(f)
    BY SMT
  <2>2. w \in Seq(Block) /\ \A i \in 1..Len(w) : w[i] # Bad
    BY <2>1, WholeFacts
  <2> QED BY <2>1, <2>2, CleanWhole
\* The records that replay takes from one file.
<1>FileRecords. ASSUME NEW f \in Seq(Block), Shape(f)
                PROVE  /\ SubSeq(f, 2, Intact(f)) \in Seq(Rec)
                       /\ Len(SubSeq(f, 2, Intact(f))) = IF Intact(f) = 0 THEN 0 ELSE Intact(f) - 1
                       /\ \A i \in 1..Len(SubSeq(f, 2, Intact(f))) : SubSeq(f, 2, Intact(f))[i] = f[i + 1]
  <2> USE <1>FileRecords
  <2>1. PICK k : k = Intact(f)
    OBVIOUS
  <2>2. k \in 0..Len(f) /\ \A i \in 1..k : f[i] # Bad
    BY <2>1, IntactFacts
  <2>3. \A i \in 2..k : i \in 1..Len(f) /\ i # 1 /\ i \in 1..k
    BY SMT, <2>2
  <2>4. \A i \in 2..k : f[i] \in Rec
    BY <2>2, <2>3 DEF Shape
  <2>5. /\ SubSeq(f, 2, k) \in Seq(Rec)
        /\ Len(SubSeq(f, 2, k)) = IF k = 0 THEN 0 ELSE k - 1
        /\ \A i \in 1..Len(SubSeq(f, 2, k)) : SubSeq(f, 2, k)[i] = f[i + 1]
    BY SMT, <2>2, <2>4
  <2> QED BY <2>1, <2>5
\* Replay hands out records, each with the number of a segment it read.
<1>RepType. ASSUME NEW d, NEW l \in [Seg -> Seq(Block)], \A s \in Seg : Shape(l[s]), NEW k \in 0..MaxSeg
            PROVE  /\ Rep(d, l)[k] \in Seq(Rec) /\ From(d, l)[k] \in Seq(Seg)
                   /\ Len(From(d, l)[k]) = Len(Rep(d, l)[k])
                   /\ \A i \in 1..Len(Rep(d, l)[k]) : From(d, l)[k][i] <= k
  <2> USE <1>RepType
  <2> DEFINE P(x, y, j) == /\ x \in Seq(Rec) /\ y \in Seq(Seg) /\ Len(y) = Len(x)
                           /\ \A i \in 1..Len(x) : y[i] <= j
             D == {i \in 0..MaxSeg : P(Rep(d, l)[i], From(d, l)[i], i)}
  <2>1. MaxSeg \in Nat /\ 0 \in 0..MaxSeg
    BY SMT, WalAssumption
  <2>2. 0 \in D
    <3>1. P(<<>>, <<>>, 0)
      BY SMT
    <3> HIDE DEF P
    <3> QED BY <2>1, <3>1, RepDef, FromDef
  <2>3. ASSUME NEW i \in 1..MaxSeg, i - 1 \in D PROVE i \in D
    <3>1. i \in 0..MaxSeg /\ i \in Seg /\ i \in Nat
      BY SMT, <2>1 DEF Seg
    <3>2. PICK x, y : x = Rep(d, l)[i - 1] /\ y = From(d, l)[i - 1]
      OBVIOUS
    <3>3. P(x, y, i - 1)
      BY <2>3, <3>2
    <3>4. Rep(d, l)[i] = RepStep(d, l, i, x) /\ From(d, l)[i] = FromStep(d, l, i, y)
      BY <3>1, <3>2, RepDef, FromDef
    <3>9. \A j \in 1..Len(x) : y[j] <= i
      <4>1. y \in Seq(Seg) /\ \A j \in 1..Len(y) : y[j] <= i - 1
        BY <3>3
      <4>2. \A j \in 1..Len(y) : y[j] \in Seg
        BY SMT, <4>1
      <4>3. \A v \in Seg : v <= i - 1 => v <= i
        BY SMT, <2>1, <3>1 DEF Seg
      <4> QED BY <3>3, <4>1, <4>2, <4>3
    <3>5. CASE i \notin d
      <4>1. P(x, y, i)
        BY <3>3, <3>9
      <4> HIDE DEF P
      <4> QED BY <3>1, <3>4, <3>5, <4>1 DEF RepStep, FromStep
    <3>6. CASE i \in d
      <4>1. PICK r, n : r = SubSeq(l[i], 2, Intact(l[i])) /\ n = IF Intact(l[i]) = 0 THEN 0 ELSE Intact(l[i]) - 1
        OBVIOUS
      <4>2. l[i] \in Seq(Block) /\ Shape(l[i])
        BY <3>1
      <4>3. r \in Seq(Rec) /\ Len(r) = n
        BY <4>1, <4>2, <1>FileRecords
      <4>4. PICK t : t = [j \in 1..n |-> i]
        OBVIOUS
      <4>5. t \in Seq(Seg) /\ Len(t) = n /\ \A j \in 1..n : t[j] = i
        BY SMT, <3>1, <4>3, <4>4
      <4>6. P(x \o r, y \o t, i)
        <5>1. x \o r \in Seq(Rec) /\ y \o t \in Seq(Seg) /\ Len(x \o r) = Len(x) + n /\ Len(y \o t) = Len(x) + n
          <6>1. x \in Seq(Rec) /\ y \in Seq(Seg) /\ Len(y) = Len(x)
            BY <3>3
          <6>2. x \o r \in Seq(Rec) /\ Len(x \o r) = Len(x) + Len(r)
            BY <4>3, <6>1, <1>ConcatFacts
          <6>3. y \o t \in Seq(Seg) /\ Len(y \o t) = Len(y) + Len(t)
            BY <4>5, <6>1, <1>ConcatFacts
          <6> QED BY <4>3, <4>5, <6>1, <6>2, <6>3
        <5>2. \A j \in 1..(Len(x) + n) : (y \o t)[j] <= i
          <6>1. y \in Seq(Seg) /\ t \in Seq(Seg) /\ Len(y) = Len(x) /\ Len(t) = n
            BY <3>3, <4>5
          <6>2. /\ \A j \in 1..Len(y) : (y \o t)[j] = y[j]
                /\ \A j \in 1..Len(t) : (y \o t)[Len(y) + j] = t[j]
            BY SMT, <6>1
          <6> TAKE j \in 1..(Len(x) + n)
          <6>3. j \in 1..Len(y) \/ (j - Len(y) \in 1..Len(t) /\ Len(y) + (j - Len(y)) = j)
            BY SMT, <6>1
          <6>4. i <= i
            BY SMT, <3>1
          <6> QED BY <3>9, <4>5, <6>1, <6>2, <6>3, <6>4
        <5> QED BY <5>1, <5>2
      <4> HIDE DEF P
      <4>7. RepStep(d, l, i, x) = x \o r /\ FromStep(d, l, i, y) = y \o t
        BY <3>6, <4>1, <4>4 DEF RepStep, FromStep
      <4> QED BY <3>1, <3>4, <4>6, <4>7
    <3> QED BY <3>5, <3>6
  <2> HIDE DEF D
  <2>4. k \in D
    BY <2>1, <2>2, <2>3, UpTo
  <2> QED BY <2>4 DEF D
\* Before the first segment is born there is only the first segment.
<1>LastUnborn. ASSUME TypeOK, Unborn
               PROVE  segSeq = 1 /\ Last = 1 /\ 1 \in Seg /\ (dir # {} => 1 \in dir)
  <2> USE <1>LastUnborn
  <2>1. segSeq = 1 /\ dir \subseteq {1} /\ dir \subseteq Seg
    BY DEF TypeOK, Unborn
  <2>2. 1 \in Seg
    BY SMT, WalAssumption DEF Seg
  <2>3. CASE dir = {}
    BY <2>1, <2>2, <2>3 DEF Last
  <2>4. CASE dir # {}
    BY <2>1, <2>2, <2>4, LastFacts
  <2> QED BY <2>3, <2>4
\* A step of open works on the segment it resumes.
<1>OpenStep. ASSUME WalInv, Next, pc \in OpenPC \ {"openCreate"}, pc' \in OpenPC \ {"openCreate"},
                    UNCHANGED <<dir, ddir, segSeq, segLen, log, segOf, tail, exposed>>,
                    \A s \in Seg : s # Last => live'[s] = live[s] /\ sure'[s] = sure[s] /\ maybe'[s] = maybe[s],
                    Shape(live'[Last]), Shape(sure'[Last] \o maybe'[Last]),
                    TypeOK', OpenInv', HalfBorn(Last) => HalfBorn(Last)',
                    Born /\ Last = segSeq => CurInv' /\ NextInv'
             PROVE  WalInv'
  <2> USE <1>OpenStep
  <2>1. /\ dir' = dir /\ ddir' = ddir /\ segSeq' = segSeq /\ segLen' = segLen /\ log' = log /\ segOf' = segOf
        /\ tail' = tail /\ exposed' = exposed
    OBVIOUS
  <2>2. TypeOK /\ Shapes /\ ResumedInv /\ OpenInv /\ DiskInv
    BY DEF WalInv
  <2>3. ~Running /\ ~Running' /\ pc' # "ready" /\ pc' # "refused"
    BY DEF Running, OpenPC
  <2>4. Last' = Last
    BY <2>1, LastSame
  <2>5. Shapes'
    BY <2>2 DEF Shapes
  <2>6. RunInv' /\ CrashIsNotCorruption'
    BY <2>3 DEF RunInv, CrashIsNotCorruption
  <2>7. ASSUME Unborn PROVE Unborn'
    <3>1. segSeq = 1 /\ Last = 1
      BY <2>2, <2>7, <1>LastUnborn
    <3>2. HalfBorn(1)'
      BY <2>4, <2>7, <3>1 DEF Unborn
    <3>3. ~resumed'
      BY <2>3, <2>7, StillUnsynced DEF Unborn
    <3> QED BY <2>1, <2>3, <2>7, <3>2, <3>3 DEF Unborn
  <2>8. ASSUME Born PROVE Born'
    <3>1. /\ segSeq \in Seg /\ Last \in Seg /\ segSeq + 1 # segSeq
          /\ Last = segSeq \/ Last = segSeq + 1
          /\ \A s \in 1..(segSeq - 1) : s \in Seg /\ s # Last
      BY <2>2, <2>8, LastBorn
    <3>2. Base' = Base /\ Older' = Older /\ LogInv'
      BY <2>1, <2>8, LogFrame DEF Born
    <3>3. OldInv'
      <4>1. (\A s \in 1..segSeq : s \in dir' /\ s \in ddir') /\ \A s \in dir' \cup ddir' : s <= segSeq + 1
        BY <2>1, <2>8 DEF Born, OldInv
      <4> QED BY <2>1, <2>2, <2>8, <3>1, <3>2, <4>1, OldFrame DEF Born
    <3>4. CASE Last = segSeq
      BY <2>8, <3>2, <3>3, <3>4 DEF Born
    <3>5. CASE Last = segSeq + 1
      <4>1. live'[segSeq] = live[segSeq] /\ sure'[segSeq] = sure[segSeq] /\ maybe'[segSeq] = maybe[segSeq]
        BY <3>1, <3>5
      <4>2. resumed' = resumed
        BY <2>1, <2>2, <2>3, <4>1, ResumedSame
      <4>3. CurInv'
        BY <2>1, <2>3, <2>8, <4>1, <4>2, CurFrame DEF Born
      <4>4. HalfBorn(segSeq + 1) => HalfBorn(segSeq + 1)'
        BY <2>1, <2>4, <3>5
      <4>5. NextInv'
        BY <2>1, <2>8, <3>2, <4>1, <4>4 DEF Born, NextInv, Synced
      <4> QED BY <3>2, <3>3, <4>3, <4>5 DEF Born
    <3> QED BY <3>1, <3>4, <3>5
  <2>9. DiskInv'
    <3>1. exposed \in BOOLEAN
      BY <2>2 DEF TypeOK
    <3>2. exposed => exposed'
      BY SMT, <2>1, <3>1
    <3> QED BY <2>2, <2>7, <2>8, <3>2 DEF DiskInv
  <2> QED BY <2>5, <2>6, <2>9, ResumedNext DEF WalInv
\* What a scan reads of a file is nothing or starts with a header.
<1>WholeStart. ASSUME NEW f \in Seq(Block), Shape(f)
               PROVE  /\ Whole(f) = <<>> \/ Clean(Whole(f))
                      /\ Shape(Whole(f)) /\ Whole(f) \in Seq(Block)
  <2> USE <1>WholeStart
  <2>1. PICK w : w = Whole(f)
    OBVIOUS
  <2>2. /\ w \in Seq(Block) /\ Len(w) = Intact(f) /\ \A i \in 1..Intact(f) : w[i] = f[i] /\ w[i] # Bad
    BY <2>1, WholeFacts
  <2>3. Intact(f) \in 0..Len(f)
    BY IntactFacts
  <2>4. Shape(w)
    BY <2>1, <2>3, ShapeCut DEF Whole
  <2>5. CASE Len(w) = 0
    <3>1. w = <<>>
      BY SMT, <2>2, <2>5
    <3> QED BY <2>1, <2>2, <2>4, <3>1
  <2>6. CASE Len(w) # 0
    <3>1. 1 \in 1..Len(w) /\ w # <<>>
      BY SMT, <2>2, <2>6
    <3>2. w[1] # Bad
      BY <2>2, <3>1
    <3>3. w[1] \in {Hdr, Bad}
      BY <2>4, <3>1 DEF Shape
    <3> QED BY <2>1, <2>2, <2>4, <3>1, <3>2, <3>3 DEF Clean
  <2> QED BY <2>5, <2>6
\* repair_tail cuts the segment where the scan stopped.
<1>OpenCutStep. ASSUME WalInv, Next, OpenCut
                PROVE  WalInv'
  <2> USE <1>OpenCutStep
  <2>1. /\ pc = "openCut" /\ pc' = "openCutSync" /\ pc \in OpenPC \ {"openCreate"} /\ pc' \in OpenPC \ {"openCreate"}
        /\ dir' = dir /\ ddir' = ddir /\ sure' = sure /\ maybe' = maybe
        /\ segSeq' = segSeq /\ segLen' = segLen /\ poisoned' = poisoned /\ log' = log /\ segOf' = segOf /\ tail' = tail
        /\ buf' = buf /\ rotating' = rotating /\ offered' = offered /\ crashes' = crashes
        /\ kinds' = kinds /\ exposed' = exposed
        /\ live' = [live EXCEPT ![Last] = Whole(live[Last])]
    BY DEF OpenCut, OpenTo, SetLen, Whole, walVars, logVars, world, OpenPC
  <2>2. /\ TypeOK /\ Shapes /\ OpenInv /\ dir # {} /\ Last \in Seg /\ Last \in dir
        /\ live[Last] \in Seq(Block) /\ Shape(live[Last]) /\ live \in [Seg -> Seq(Block)]
    BY <2>1, OpenFacts
  <2>3. /\ Whole(live[Last]) = <<>> \/ Clean(Whole(live[Last]))
        /\ Shape(Whole(live[Last])) /\ Whole(live[Last]) \in Seq(Block)
        /\ Whole(Whole(live[Last])) = Whole(live[Last])
    BY <2>2, <1>WholeStart, <1>WholeAgain
  <2>4. /\ live' \in [Seg -> Seq(Block)] /\ live'[Last] = Whole(live[Last])
        /\ \A s \in Seg : s # Last => live'[s] = live[s]
    BY <2>1, <2>2, <2>3, FileSet
  <2>5. Last' = Last
    BY <2>1, LastSame
  <2>6. TypeOK'
    BY <2>1, <2>2, <2>4, NextTypes DEF TypeOK, PC, OpenPC
  <2>7. OpenInv'
    <3>1. 1 \notin dir' => Blank(1)'
      <4>1. 1 \in Seg
        BY SMT, WalAssumption DEF Seg
      <4> QED BY <2>1, <2>2, <2>4, <4>1 DEF OpenInv, Blank
    <3> QED BY <2>1, <2>2, <2>3, <2>4, <2>5, <3>1 DEF OpenInv
  <2>8. HalfBorn(Last) => HalfBorn(Last)'
    <3>1. Half(live[Last]) => Half(Whole(live[Last]))
      BY ShortFiles DEF Half
    <3> QED BY <2>1, <2>3, <2>4, <2>5, <3>1 DEF HalfBorn
  <2>9. ASSUME Born, Last = segSeq PROVE CurInv' /\ NextInv'
    <3>1. Base' = Base
      BY <2>1, LogFrame
    <3>2. Whole(live'[segSeq]) = Whole(live[segSeq])
      BY <2>3, <2>4, <2>9
    <3>3. ~Running /\ ~Running' /\ ~(pc = "openDir" /\ pc' = "ready")
      BY <2>1 DEF Running
    <3>4. resumed' = resumed
      BY <2>1, <2>2, <3>3, ResumedSame DEF WalInv
    <3>5. CurInv'
      BY <2>1, <2>9, <3>1, <3>2, <3>3, <3>4 DEF Born, CurInv, Good, Between
    <3>6. live[segSeq] = Base => live'[segSeq] = live[segSeq]
      BY <2>2, <2>4, <2>9, BaseFacts DEF Born
    <3>7. HalfBorn(segSeq + 1) /\ segSeq + 1 \in dir \cup ddir => HalfBorn(segSeq + 1)'
      <4>1. segSeq + 1 # segSeq
        BY <2>2, <2>9, LastBorn
      <4>2. segSeq + 1 \in dir \cup ddir => segSeq + 1 \in Seg
        BY <2>2 DEF TypeOK
      <4>3. segSeq + 1 \in Seg => live'[segSeq + 1] = live[segSeq + 1]
        BY <2>4, <2>9, <4>1
      <4> QED BY <2>1, <4>2, <4>3 DEF HalfBorn
    <3>8. NextInv'
      BY <2>1, <2>9, <3>1, <3>6, <3>7 DEF Born, NextInv, Synced
    <3> QED BY <3>5, <3>8
  <2>10. Shape(live'[Last]) /\ Shape(sure'[Last] \o maybe'[Last])
    BY <2>1, <2>2, <2>3, <2>4 DEF Shapes
  <2> QED BY <2>1, <2>4, <2>6, <2>7, <2>8, <2>9, <2>10, <1>OpenStep
\* open syncs the segment it resumes.
<1>OpenSyncStep. ASSUME WalInv, Next, pc \in OpenPC \ {"openCreate"}, pc' \in {"openHeader", "openDir"},
                        SyncFile(Last), live[Last] = <<>> \/ Clean(live[Last]),
                        OpenTo(IF live[Last] = <<>> THEN "openHeader" ELSE "openDir"), UNCHANGED <<dir, ddir, live>>
                 PROVE  WalInv'
  <2> USE <1>OpenSyncStep
  <2>1. /\ pc' \in OpenPC \ {"openCreate"} /\ pc' = (IF live[Last] = <<>> THEN "openHeader" ELSE "openDir")
        /\ dir' = dir /\ ddir' = ddir /\ live' = live
        /\ segSeq' = segSeq /\ segLen' = segLen /\ poisoned' = poisoned /\ log' = log /\ segOf' = segOf /\ tail' = tail
        /\ buf' = buf /\ rotating' = rotating /\ offered' = offered /\ crashes' = crashes
        /\ kinds' = kinds /\ exposed' = exposed
        /\ sure' = [sure EXCEPT ![Last] = live[Last]]
        /\ maybe' = [maybe EXCEPT ![Last] = <<>>]
    BY DEF OpenTo, SyncFile, walVars, logVars, world, OpenPC
  <2>2. /\ TypeOK /\ Shapes /\ OpenInv /\ dir # {} /\ Last \in Seg /\ Last \in dir
        /\ live[Last] \in Seq(Block) /\ Shape(live[Last]) /\ live \in [Seg -> Seq(Block)]
        /\ sure \in [Seg -> Seq(Block)] /\ maybe \in [Seg -> Seq(Block)]
    BY OpenFacts
  <2>3. /\ sure' \in [Seg -> Seq(Block)] /\ sure'[Last] = live[Last]
        /\ \A s \in Seg : s # Last => sure'[s] = sure[s]
    BY <2>1, <2>2, FileSet
  <2>4. /\ maybe' \in [Seg -> Seq(Block)] /\ maybe'[Last] = <<>>
        /\ \A s \in Seg : s # Last => maybe'[s] = maybe[s]
    BY <2>1, <2>2, ShortFiles, FileSet
  <2>5. Last' = Last
    BY <2>1, LastSame
  <2>6. TypeOK'
    BY <2>1, <2>2, <2>3, <2>4, NextTypes DEF TypeOK, PC, OpenPC
  <2>7. OpenInv'
    <3>1. 1 \notin dir' => Blank(1)'
      <4>1. 1 \in Seg
        BY SMT, WalAssumption DEF Seg
      <4> QED BY <2>1, <2>2, <2>3, <2>4, <4>1 DEF OpenInv, Blank
    <3>2. pc' = "openHeader" => Blank(Last)'
      BY <2>1, <2>3, <2>4, <2>5 DEF Blank
    <3>3. pc' = "openDir" => Clean(live'[Last'])
      BY <2>1, <2>5
    <3> QED BY <2>1, <2>2, <3>1, <3>2, <3>3 DEF OpenInv
  <2>8. HalfBorn(Last) => HalfBorn(Last)'
    BY <2>1, <2>3, <2>4, <2>5 DEF HalfBorn
  <2>9. live[Last] \o <<>> = live[Last]
    BY <2>2, PreRefl
  <2>10. ASSUME Born, Last = segSeq PROVE CurInv' /\ NextInv'
    <3>1. Base' = Base
      BY <2>1, LogFrame
    <3>2. ~Running'
      BY <2>1 DEF Running
    <3>3. CurInv'
      <4>1. PICK f : f = live[segSeq]
        OBVIOUS
      <4>2. live'[segSeq'] = f /\ sure'[segSeq'] = f /\ maybe'[segSeq'] = <<>> /\ f \o <<>> = f
        BY <2>1, <2>3, <2>4, <2>9, <2>10, <4>1
      <4>3. Between(f, Base', tail')
        BY <2>1, <2>10, <3>1, <4>1 DEF Born, CurInv, Good
      <4> QED BY <3>2, <4>2, <4>3 DEF CurInv, Good
    <3>4. HalfBorn(segSeq + 1) /\ segSeq + 1 \in dir \cup ddir => HalfBorn(segSeq + 1)'
      <4>1. segSeq + 1 # segSeq
        BY <2>2, <2>10, LastBorn
      <4>2. segSeq + 1 \in dir \cup ddir => segSeq + 1 \in Seg
        BY <2>2 DEF TypeOK
      <4>3. segSeq + 1 \in Seg => sure'[segSeq + 1] = sure[segSeq + 1] /\ maybe'[segSeq + 1] = maybe[segSeq + 1]
        BY <2>3, <2>4, <2>10, <4>1
      <4> QED BY <2>1, <4>2, <4>3 DEF HalfBorn
    <3>5. Synced(segSeq)'
      BY <2>1, <2>3, <2>4, <2>10 DEF Synced
    <3>6. NextInv'
      BY <2>1, <2>10, <3>1, <3>4, <3>5 DEF Born, NextInv
    <3> QED BY <3>3, <3>6
  <2>11. Shape(live'[Last]) /\ Shape(sure'[Last] \o maybe'[Last])
    BY <2>1, <2>2, <2>3, <2>4, <2>9
  <2> QED BY <2>1, <2>3, <2>4, <2>6, <2>7, <2>8, <2>10, <2>11, <1>OpenStep
\* repair_tail syncs the cut.
<1>OpenCutSyncStep. ASSUME WalInv, Next, OpenCutSync
                    PROVE  WalInv'
  <2> USE <1>OpenCutSyncStep
  <2>1. /\ pc = "openCutSync" /\ pc \in OpenPC \ {"openCreate"} /\ pc' \in {"openHeader", "openDir"} /\ SyncFile(Last)
        /\ OpenTo(IF live[Last] = <<>> THEN "openHeader" ELSE "openDir") /\ UNCHANGED <<dir, ddir, live>>
    BY DEF OpenCutSync, OpenTo, OpenPC
  <2>2. live[Last] = <<>> \/ Clean(live[Last])
    BY <2>1 DEF WalInv, OpenInv
  <2> QED BY <2>1, <2>2, <1>OpenSyncStep
\* open syncs the header it wrote.
<1>OpenHdrSyncStep. ASSUME WalInv, Next, OpenHdrSync
                    PROVE  WalInv'
  <2> USE <1>OpenHdrSyncStep
  <2>1. /\ pc = "openHdrSync" /\ pc \in OpenPC \ {"openCreate"} /\ SyncFile(Last)
        /\ OpenTo("openDir") /\ pc' = "openDir" /\ UNCHANGED <<dir, ddir, live>>
    BY DEF OpenHdrSync, OpenTo, OpenPC
  <2>2. live[Last] = <<Hdr>>
    BY <2>1 DEF WalInv, OpenInv
  <2>3. Clean(live[Last]) /\ live[Last] # <<>>
    BY <2>2, ShortFiles
  <2>4. (IF live[Last] = <<>> THEN "openHeader" ELSE "openDir") = "openDir"
    BY <2>3
  <2>5. OpenTo(IF live[Last] = <<>> THEN "openHeader" ELSE "openDir")
    BY <2>1, <2>4
  <2>6. pc' \in {"openHeader", "openDir"}
    BY <2>1
  <2> QED BY <2>1, <2>3, <2>5, <2>6, <1>OpenSyncStep
\* open gives an empty segment its header.
<1>OpenHeaderStep. ASSUME WalInv, Next, OpenHeader
                   PROVE  WalInv'
  <2> USE <1>OpenHeaderStep
  <2>1. /\ pc = "openHeader" /\ pc' = "openHdrSync"
        /\ pc \in OpenPC \ {"openCreate"} /\ pc' \in OpenPC \ {"openCreate"}
        /\ dir' = dir /\ ddir' = ddir /\ sure' = sure /\ WriteTo(Last, <<Hdr>>, <<Hdr>>)
        /\ segSeq' = segSeq /\ segLen' = segLen /\ poisoned' = poisoned /\ log' = log /\ segOf' = segOf /\ tail' = tail
        /\ buf' = buf /\ rotating' = rotating /\ offered' = offered /\ crashes' = crashes
        /\ kinds' = kinds /\ exposed' = exposed
    BY DEF OpenHeader, OpenTo, walVars, logVars, world, OpenPC
  <2>2. TypeOK /\ Shapes /\ OpenInv /\ dir # {} /\ Last \in Seg /\ Last \in dir
    BY <2>1, OpenFacts
  <2>3. Blank(Last)
    BY <2>1, <2>2 DEF OpenInv
  <2>4. /\ live' \in [Seg -> Seq(Block)] /\ live'[Last] = <<Hdr>> /\ \A s \in Seg : s # Last => live'[s] = live[s]
        /\ maybe' \in [Seg -> Seq(Block)] /\ maybe'[Last] = <<Hdr>> /\ \A s \in Seg : s # Last => maybe'[s] = maybe[s]
    BY <2>1, <2>2, <2>3, ShortFiles, HeaderWrite
  <2>5. Last' = Last
    BY <2>1, LastSame
  <2>6. TypeOK'
    BY <2>1, <2>2, <2>4, NextTypes DEF TypeOK, PC, OpenPC
  <2>7. OpenInv'
    <3>1. 1 \notin dir' => Blank(1)'
      <4>1. 1 \in Seg
        BY SMT, WalAssumption DEF Seg
      <4> QED BY <2>1, <2>2, <2>4, <4>1 DEF OpenInv, Blank
    <3> QED BY <2>1, <2>2, <2>4, <2>5, <3>1 DEF OpenInv
  <2>8. sure[Last] = <<>> /\ live[Last] = <<>> /\ <<>> \o <<Hdr>> = <<Hdr>>
    BY <2>3, EmptyFirst, ShortFiles DEF Blank
  <2>9. HalfBorn(Last)'
    BY <2>1, <2>4, <2>5, <2>8, ShortFiles DEF HalfBorn, Half
  <2>10. ASSUME Born, Last = segSeq PROVE FALSE
    <3>1. Pre(Base, <<>>)
      BY <2>8, <2>10, ShortFiles DEF Born, CurInv, Good, Between
    <3>2. Base \in Seq(Block) /\ Len(Base) >= 1
      BY <2>2, <2>10, BaseFacts DEF Born
    <3> QED BY SMT, <3>1, <3>2 DEF Pre
  <2>11. Shape(live'[Last]) /\ Shape(sure'[Last] \o maybe'[Last])
    BY <2>1, <2>4, <2>8, ShortFiles
  <2> QED BY <2>1, <2>4, <2>6, <2>7, <2>9, <2>10, <2>11, <1>OpenStep
\* open creates the first segment.
<1>OpenCreateStep. ASSUME WalInv, Next, OpenCreate
                   PROVE  WalInv'
  <2> USE <1>OpenCreateStep
  <2>1. /\ pc = "openCreate" /\ pc' = "openHeader" /\ dir' = {1}
        /\ ddir' = ddir /\ live' = live /\ sure' = sure /\ maybe' = maybe
        /\ segSeq' = segSeq /\ segLen' = segLen /\ poisoned' = poisoned /\ log' = log /\ segOf' = segOf /\ tail' = tail
        /\ buf' = buf /\ rotating' = rotating /\ offered' = offered /\ crashes' = crashes
        /\ kinds' = kinds /\ exposed' = exposed
    BY DEF OpenCreate, OpenTo, walVars, logVars, world
  <2>2. TypeOK /\ Shapes /\ OpenInv /\ DiskInv /\ dir = {} /\ Blank(1)
    BY <2>1 DEF WalInv, OpenInv
  <2>3. 1 \in Seg /\ {1} \subseteq Seg /\ 1 <= 1
    BY SMT, WalAssumption DEF Seg
  <2>4. Last' = 1
    <3>1. Last' = MaxOf({1})
      BY <2>1 DEF Last
    <3>2. MaxOf({1}) = 1
      BY <2>3 DEF MaxOf
    <3> QED BY <3>1, <3>2
  <2>5. TypeOK'
    BY <2>1, <2>2, <2>3, NextTypes DEF TypeOK, PC, OpenPC
  <2>6. ~Running' /\ pc' # "ready" /\ pc' # "refused"
    BY <2>1 DEF Running, OpenPC
  <2>7. OpenInv'
    BY <2>1, <2>2, <2>4 DEF OpenInv, Blank
  <2>8. Shapes' /\ RunInv' /\ CrashIsNotCorruption'
    BY <2>1, <2>2, <2>6 DEF Shapes, RunInv, CrashIsNotCorruption
  <2>9. ~Born
    BY <2>2, LastBorn
  <2>10. Unborn => Unborn'
    <3>1. Unborn => ~resumed'
      BY <2>6, StillUnsynced DEF Unborn
    <3> QED BY <2>1, <2>6, <3>1 DEF Unborn, HalfBorn
  <2>11. DiskInv'
    <3>1. exposed \in BOOLEAN
      BY <2>2 DEF TypeOK
    <3>2. exposed => exposed'
      BY SMT, <2>1, <3>1
    <3> QED BY <2>2, <2>9, <2>10, <3>2 DEF DiskInv
  <2> QED BY <2>5, <2>7, <2>8, <2>11, ResumedNext DEF WalInv
\* A file that is clean, or a header's half, is not corrupt.
<1>NotCorrupt. ASSUME NEW f \in Seq(Block)
               PROVE  /\ Clean(f) => ~Corrupt(f) /\ ~Torn(f)
                      /\ Half(f) => ~Corrupt(f)
                      /\ Half(f) /\ Clean(f) => f = <<Hdr>>
                      /\ Shape(f) /\ ~Torn(f) => Clean(f)
  <2> USE <1>NotCorrupt
  <2>1. ASSUME Clean(f) PROVE ~Corrupt(f) /\ ~Torn(f)
    <3>1. f # <<>> /\ f[1] = Hdr /\ \A i \in 1..Len(f) : f[i] # Bad
      BY <2>1 DEF Clean
    <3>2. Intact(f) = Len(f)
      BY <3>1, CleanWhole
    <3>3. f # <<Bad>>
      <4>1. <<Bad>>[1] = Bad
        BY SMT
      <4> QED BY <3>1, <4>1, BlockFacts
    <3>4. ~(Len(f) < Len(f))
      BY SMT
    <3> QED BY <3>1, <3>2, <3>3, <3>4 DEF Corrupt, Torn, NoHeader
  <2>2. ASSUME Half(f) PROVE ~Corrupt(f)
    <3>1. ~(0 > 1) /\ ~(1 > 1)
      BY SMT
    <3> QED BY <2>2, <3>1, ShortFiles DEF Corrupt, Half
  <2>3. ASSUME Half(f), Clean(f) PROVE f = <<Hdr>>
    <3>1. <<Bad>>[1] = Bad
      BY SMT
    <3> QED BY <2>3, <3>1, BlockFacts DEF Half, Clean
  <2>4. ASSUME Shape(f), ~Torn(f) PROVE Clean(f)
    <3>1. f # <<>> /\ ~(Intact(f) < Len(f))
      BY <2>4 DEF Torn, NoHeader
    <3>2. Intact(f) \in 0..Len(f) /\ \A i \in 1..Intact(f) : f[i] # Bad
      BY IntactFacts
    <3>3. Intact(f) = Len(f) /\ 1 \in 1..Len(f)
      BY SMT, <3>1, <3>2
    <3>4. f[1] \in {Hdr, Bad}
      BY <2>4, <3>3 DEF Shape
    <3> QED BY <3>1, <3>2, <3>3, <3>4 DEF Clean
  <2> QED BY <2>1, <2>2, <2>3, <2>4
\* Replay refuses no log that has not been exposed.
<1>NotRefused. ASSUME TypeOK, Shapes, Unborn \/ Born
               PROVE  ~ReplayRefuses
  <2> USE <1>NotRefused
  <2>1. SUFFICES ASSUME NEW s \in dir PROVE ~Corrupt(live[s]) /\ (s # Last => ~Torn(live[s]))
    BY DEF ReplayRefuses
  <2>2. s \in Seg /\ live[s] \in Seq(Block)
    BY FileType DEF TypeOK
  <2>3. CASE Unborn
    <3>1. s = 1 /\ Last = 1 /\ Half(live[1])
      BY <2>3, <1>LastUnborn DEF Unborn, HalfBorn
    <3> QED BY <2>2, <3>1, <1>NotCorrupt
  <2>4. CASE Born
    <3>1. /\ segSeq \in Seg /\ Last \in dir /\ (Last = segSeq \/ Last = segSeq + 1)
          /\ Last = segSeq => segSeq + 1 \notin dir
      BY <2>4, LastBorn
    <3>2. s \in 1..(segSeq - 1) \/ s = segSeq \/ s = segSeq + 1
      <4>1. s \in 1..MaxSeg /\ segSeq \in 1..MaxSeg /\ s <= segSeq + 1
        BY <2>2, <2>4, <3>1 DEF Born, OldInv, Seg
      <4> QED BY SMT, <4>1, WalAssumption
    <3>3. CASE s \in 1..(segSeq - 1)
      BY <2>2, <2>4, <3>3, <1>NotCorrupt DEF Born, OldInv
    <3>4. CASE s = segSeq + 1
      <4>1. HalfBorn(segSeq + 1) /\ Last = segSeq + 1
        BY <2>4, <3>1, <3>4 DEF Born, NextInv
      <4> QED BY <2>2, <3>4, <4>1, <1>NotCorrupt DEF HalfBorn
    <3>5. CASE s = segSeq
      <4>1. CASE Last = segSeq + 1
        <5>1. live[s] = Base
          BY <2>4, <3>1, <3>5, <4>1 DEF Born, NextInv
        <5>2. Clean(live[s])
          BY <2>4, <5>1, BaseFacts DEF Born
        <5> QED BY <2>2, <5>2, <1>NotCorrupt
      <4>2. CASE Last = segSeq
        <5>1. PICK f, w, b : f = live[segSeq] /\ w = Whole(f) /\ b = Base
          OBVIOUS
        <5>2. f \in Seq(Block) /\ Pre(b, w) /\ b \in Seq(Block) /\ b[1] = Hdr /\ Len(b) >= 1
          BY <2>2, <2>4, <3>5, <5>1, BaseFacts DEF Born, CurInv, Good, Between
        <5>3. w \in Seq(Block) /\ Len(w) = Intact(f) /\ \A i \in 1..Intact(f) : w[i] = f[i]
          BY <5>1, <5>2, WholeFacts
        <5>4. 1 \in 1..Len(b) /\ 1 \in 1..Len(w)
          <6>1. Len(b) <= Len(w)
            BY <5>2 DEF Pre
          <6> QED BY SMT, <5>2, <5>3, <6>1
        <5>5. w[1] = Hdr
          BY <5>2, <5>4 DEF Pre
        <5>6. f[1] = Hdr
          BY <5>3, <5>4, <5>5
        <5> QED BY <3>5, <4>2, <5>1, <5>6 DEF Corrupt
      <4> QED BY <3>1, <4>1, <4>2
    <3> QED BY <3>2, <3>3, <3>4, <3>5
  <2> QED BY <2>3, <2>4
\* open replays the log and picks the segment to resume.
<1>OpenScanStep. ASSUME WalInv, Next, OpenScan
                 PROVE  WalInv'
  <2> USE <1>OpenScanStep
  <2>1. /\ pc = "down" /\ UNCHANGED fileVars
        /\ segSeq' = segSeq /\ segLen' = segLen /\ poisoned' = poisoned /\ log' = log /\ segOf' = segOf /\ tail' = tail
        /\ buf' = buf /\ rotating' = rotating /\ offered' = offered /\ crashes' = crashes
        /\ kinds' = kinds /\ exposed' = exposed
    BY DEF OpenScan, OpenTo, walVars, logVars, world
  <2>2. dir' = dir /\ ddir' = ddir /\ live' = live /\ sure' = sure /\ maybe' = maybe
    BY <2>1 DEF fileVars
  <2>3. /\ ReplayRefuses => pc' = "refused"
        /\ ~ReplayRefuses => \/ pc' = "openCreate" /\ dir = {}
                             \/ pc' = "openCut" /\ dir # {} /\ Torn(live[Last])
                             \/ pc' = "openDir" /\ dir # {} /\ ~Torn(live[Last])
    <3>1. pc' = CASE ReplayRefuses -> "refused"
                  [] ~ReplayRefuses /\ dir = {} -> "openCreate"
                  [] ~ReplayRefuses /\ dir # {} /\ Torn(live[Last]) -> "openCut"
                  [] OTHER -> "openDir"
      BY DEF OpenScan, OpenTo
    <3> QED BY <3>1
  <2>4. TypeOK /\ Shapes /\ ResumedInv /\ OpenInv /\ DiskInv
    BY DEF WalInv
  <2>5. pc' \in OpenPC \cup {"refused"} /\ ~Running' /\ pc' # "ready" /\ ~Running
    BY <2>1, <2>3 DEF OpenPC, Running
  <2>6. TypeOK'
    BY <2>1, <2>2, <2>4, <2>5, NextTypes DEF TypeOK, PC
  <2>7. Shapes' /\ RunInv'
    BY <2>2, <2>4, <2>5 DEF Shapes, RunInv
  <2>8. Last' = Last /\ resumed' = resumed
    BY <2>1, <2>2, <2>4, <2>5, LastSame, ResumedSame
  <2>9. ReplayRefuses => exposed
    BY <2>4, <1>NotRefused DEF DiskInv
  <2>10. exposed => exposed'
    <3>1. exposed \in BOOLEAN
      BY <2>4 DEF TypeOK
    <3> QED BY SMT, <2>1, <3>1
  <2>11. CrashIsNotCorruption'
    BY <2>3, <2>9, <2>10 DEF CrashIsNotCorruption
  <2>12. OpenInv'
    <3>1. 1 \notin dir' => Blank(1)'
      BY <2>2, <2>4 DEF OpenInv, Blank
    <3>2. dir # {} => Last \in dir /\ Last \in Seg /\ live[Last] \in Seq(Block) /\ Shape(live[Last])
      BY <2>4, LastFacts, FileType DEF TypeOK, Shapes
    <3>3. pc' = "openCut" => Torn(live[Last]) /\ ~Corrupt(live[Last]) /\ dir # {}
      BY <2>3, <3>2 DEF ReplayRefuses
    <3>4. pc' = "openDir" => Clean(live[Last]) /\ dir # {}
      BY <2>3, <3>2, <1>NotCorrupt
    <3>5. pc' = "openCreate" => dir = {}
      BY <2>3
    <3>6. pc' \in {"refused", "openCreate", "openCut", "openDir"}
      BY <2>3
    <3> QED BY <2>2, <2>8, <3>1, <3>3, <3>4, <3>5, <3>6 DEF OpenInv, OpenPC
  <2>13. Unborn => Unborn'
    BY <2>1, <2>2, <2>5, <2>8 DEF Unborn, HalfBorn
  <2>14. ASSUME Born PROVE Born'
    <3>1. Base' = Base /\ Older' = Older /\ LogInv'
      BY <2>1, <2>14, LogFrame DEF Born
    <3>2. CurInv'
      BY <2>1, <2>2, <2>5, <2>8, <2>14, CurFrame DEF Born
    <3>3. OldInv'
      <4>1. (\A s \in 1..segSeq : s \in dir' /\ s \in ddir') /\ \A s \in dir' \cup ddir' : s <= segSeq + 1
        BY <2>2, <2>14 DEF Born, OldInv
      <4> QED BY <2>1, <2>2, <2>4, <2>14, <3>1, <4>1, OldFrame DEF Born
    <3>4. NextInv'
      BY <2>1, <2>2, <2>14, <3>1 DEF Born, NextInv, HalfBorn, Synced
    <3> QED BY <3>1, <3>2, <3>3, <3>4 DEF Born
  <2>15. DiskInv'
    BY <2>4, <2>10, <2>13, <2>14 DEF DiskInv
  <2> QED BY <2>6, <2>7, <2>11, <2>12, <2>15, ResumedNext DEF WalInv
\* The records of a clean segment, behind those of the segments before it.
<1>OpenLog. ASSUME NEW x \in Seq(Rec), NEW f \in Seq(Block), Shape(f), Clean(f)
            PROVE  LET lg == x \o SubSeq(f, 2, Intact(f)) IN
                   /\ lg \in Seq(Rec) /\ Len(lg) + 1 - Len(f) = Len(x) /\ Len(lg) = Len(x) + (Len(f) - 1)
                   /\ Len(f) >= 1 /\ Len(f) <= Len(lg) + 1
                   /\ CurrentOf(lg, Len(f)) = f /\ SubSeq(lg, 1, Len(x)) = x
  <2> USE <1>OpenLog
  <2>1. PICK y : y = SubSeq(f, 2, Intact(f))
    OBVIOUS
  <2>2. f # <<>> /\ f[1] = Hdr /\ Intact(f) = Len(f)
    BY CleanWhole DEF Clean
  <2>3. Len(f) \in Nat /\ Len(f) >= 1 /\ Len(f) # 0
    BY SMT, <2>2
  <2>4. y \in Seq(Rec) /\ Len(y) = Len(f) - 1 /\ \A i \in 1..Len(y) : y[i] = f[i + 1]
    BY <2>1, <2>2, <2>3, <1>FileRecords
  <2>5. PICK lg : lg = x \o y
    OBVIOUS
  <2>6. /\ lg \in Seq(Rec) /\ Len(lg) = Len(x) + Len(y) /\ Len(x) \in Nat
        /\ \A i \in 1..Len(x) : lg[i] = x[i]
        /\ \A i \in 1..Len(y) : lg[Len(x) + i] = y[i]
    <3>1. y \in Seq(Rec)
      BY <2>4
    <3> QED BY SMT, <2>5, <3>1
  <2>7. Len(lg) + 1 - Len(f) = Len(x) /\ Len(f) <= Len(lg) + 1 /\ Len(lg) = Len(x) + (Len(f) - 1)
    BY SMT, <2>3, <2>4, <2>6
  <2>8. SubSeq(lg, 1, Len(x)) = x
    <3>1. PICK p : p = SubSeq(lg, 1, Len(x))
      OBVIOUS
    <3>2. Len(x) \in 0..Len(lg)
      BY SMTT(30), <2>3, <2>6, <2>7
    <3>3. p \in Seq(Rec) /\ Len(p) = Len(x) /\ \A i \in 1..Len(p) : p[i] = lg[i]
      BY SMTT(30), <2>6, <3>1, <3>2
    <3> QED BY <2>6, <3>1, <3>3, SameSeq
  <2>9. PICK c : c = CurrentOf(lg, Len(f))
    OBVIOUS
  <2>10. IsCurrent(c, lg, Len(f), Len(x))
    BY <2>3, <2>6, <2>7, <2>9, CurrentFacts
  <2>11. c \in Seq(Block) /\ Len(c) = Len(f) /\ c[1] = Hdr /\ \A i \in 2..Len(f) : c[i] = lg[Len(x) + (i - 1)]
    BY <2>10 DEF IsCurrent
  <2>12. \A i \in 1..Len(c) : c[i] = f[i]
    <3> TAKE i \in 1..Len(c)
    <3>1. CASE i = 1
      BY <2>2, <2>11, <3>1
    <3>2. CASE i # 1
      <4>1. i \in 2..Len(f) /\ i - 1 \in 1..Len(y) /\ (i - 1) + 1 = i
        BY SMTT(30), <2>3, <2>4, <2>11, <3>2
      <4> QED BY <2>4, <2>6, <2>11, <4>1
    <3> QED BY <3>1, <3>2
  <2>13. c = f
    BY <2>11, <2>12, SameSeq
  <2> QED BY <2>1, <2>3, <2>5, <2>6, <2>7, <2>8, <2>9, <2>13
\* The segments of those records.
<1>OpenSegs. ASSUME NEW y \in Seq(Seg), NEW n \in Nat, Len(y) = n, NEW r \in Seg, \A i \in 1..n : y[i] <= r - 1, NEW m \in Nat
             PROVE  /\ y \o [i \in 1..m |-> r] \in Seq(Seg)
                    /\ SegsFrom(y \o [i \in 1..m |-> r], n + m, r, n)
                    /\ SubSeq(y \o [i \in 1..m |-> r], 1, n) = y
  <2> USE <1>OpenSegs
  <2>1. n \in 0..n /\ \A i \in 1..n : ~(i > n)
    BY SMT
  <2>2. \A i \in 1..n : y[i] <= r /\ y[i] # r
    <3> TAKE i \in 1..n
    <3>1. y[i] \in Seg /\ y[i] <= r - 1
      BY SMT
    <3>2. r \in Seg
      BY SMT
    <3> QED BY SMTT(30), <3>1, <3>2, WalAssumption DEF Seg
  <2>3. SegsFrom(y, n, r, n)
    BY <2>1, <2>2 DEF SegsFrom
  <2>4. SubSeq(y, 1, n) = y
    BY SMT
  <2>5. /\ y \o [i \in 1..m |-> r] \in Seq(Seg)
        /\ SegsFrom(y \o [i \in 1..m |-> r], n + m, r, n)
        /\ SubSeq(y \o [i \in 1..m |-> r], 1, n) = SubSeq(y, 1, n)
    <3>1. n \in 0..n
      BY <2>1
    <3> QED BY SMT, <2>3, <3>1, GrowSegs
  <2> QED BY <2>4, <2>5
\* The log after open.
<1>OpenedLog. ASSUME WalInv, pc = "openDir", segSeq' = Last, segLen' = Len(live[Last]),
                     log' = Replayed[MaxSeg], segOf' = ReplayedFrom[MaxSeg]
              PROVE  /\ log' \in Seq(Rec) /\ segOf' \in Seq(Seg) /\ segLen' \in Nat /\ LogInv'
                     /\ Base' = live[Last]
                     /\ Replayed[Last - 1] = SubSeq(log', 1, Older')
                     /\ ReplayedFrom[Last - 1] = SubSeq(segOf', 1, Older')
  <2> USE <1>OpenedLog
  <2>1. PICK r, f, x, y : r = Last /\ f = live[Last] /\ x = Replayed[Last - 1] /\ y = ReplayedFrom[Last - 1]
    OBVIOUS
  <2>2. /\ r \in 1..MaxSeg /\ r - 1 \in 0..MaxSeg /\ f \in Seq(Block) /\ Shape(f) /\ Clean(f)
        /\ log' = x \o SubSeq(f, 2, Intact(f)) /\ segOf' = y \o [i \in 1..(Len(f) - 1) |-> r]
        /\ segSeq' = r /\ segLen' = Len(f)
    BY <2>1, OpenReads
  <2>3. r \in Seg
    BY <2>2 DEF Seg
  <2>4. /\ x \in Seq(Rec) /\ y \in Seq(Seg) /\ Len(y) = Len(x) /\ \A i \in 1..Len(x) : y[i] <= r - 1
    <3>1. live \in [Seg -> Seq(Block)] /\ \A s \in Seg : Shape(live[s])
      BY DEF WalInv, TypeOK, Shapes
    <3>2. x = Rep(dir, live)[r - 1] /\ y = From(dir, live)[r - 1]
      BY <2>1, RepIs
    <3> QED BY <2>2, <3>1, <3>2, <1>RepType
  <2>5. PICK n, k : n = Len(x) /\ k = Len(f)
    OBVIOUS
  <2>6. /\ log' \in Seq(Rec) /\ Len(log') + 1 - k = n /\ Len(log') = n + (k - 1) /\ k >= 1 /\ k <= Len(log') + 1
        /\ CurrentOf(log', k) = f /\ SubSeq(log', 1, n) = x
    BY ZenonT(30), <2>2, <2>4, <2>5, <1>OpenLog
  <2>7. n \in Nat /\ k \in Nat /\ k - 1 \in Nat
    BY SMT, <2>2, <2>4, <2>5, <2>6
  <2>8. segOf' \in Seq(Seg) /\ SegsFrom(segOf', n + (k - 1), r, n) /\ SubSeq(segOf', 1, n) = y
    <3>1. Len(y) = n /\ (\A i \in 1..n : y[i] <= r - 1) /\ y \in Seq(Seg)
      BY <2>4, <2>5
    <3>2. PICK m : m = k - 1
      OBVIOUS
    <3>3. segOf' = y \o [i \in 1..m |-> r] /\ m \in Nat
      BY <2>2, <2>5, <2>7, <3>2
    <3>4. segOf' \in Seq(Seg) /\ SegsFrom(segOf', n + m, r, n) /\ SubSeq(segOf', 1, n) = y
      <4>1. n \in Nat /\ m \in Nat /\ r \in Seg
        BY <2>3, <2>7, <3>3
      <4>2. /\ y \o [i \in 1..m |-> r] \in Seq(Seg)
            /\ SegsFrom(y \o [i \in 1..m |-> r], n + m, r, n)
            /\ SubSeq(y \o [i \in 1..m |-> r], 1, n) = y
        BY SMTT(30), <3>1, <4>1, <1>OpenSegs
      <4> QED BY <3>3, <4>2
    <3> QED BY <3>2, <3>4
  <2>9. Older' = n /\ Base' = f
    BY <2>2, <2>5, <2>6 DEF Older, Base, CurrentOf
  <2>10. LogInv'
    BY <2>2, <2>5, <2>6, <2>8, <2>9, LogInvIs
  <2> QED BY <2>1, <2>2, <2>5, <2>6, <2>7, <2>8, <2>9, <2>10
\* open ends.
<1>OpenDirStep. ASSUME WalInv, Next, OpenDir
                PROVE  WalInv'
  <2> USE <1>OpenDirStep
  <2>1. /\ pc = "openDir" /\ pc' = "ready" /\ ddir' = dir /\ segSeq' = Last /\ segLen' = Len(live[Last])
        /\ poisoned' = FALSE /\ log' = Replayed[MaxSeg] /\ segOf' = ReplayedFrom[MaxSeg] /\ tail' = <<>> /\ buf' = <<>>
        /\ dir' = dir /\ live' = live /\ sure' = sure /\ maybe' = maybe
        /\ rotating' = rotating /\ offered' = offered /\ crashes' = crashes /\ kinds' = kinds /\ exposed' = exposed
    BY DEF OpenDir, world
  <2>2. /\ TypeOK /\ Shapes /\ OpenInv /\ Last \in Seg /\ Last \in dir /\ (\A s \in dir : s <= Last)
        /\ (exposed \/ Unborn \/ Born)
    BY <2>1, OpenFacts DEF OpenPC
  <2>3. /\ live[Last] \in Seq(Block) /\ Clean(live[Last]) /\ Whole(live[Last]) = live[Last]
    BY <2>1, OpenReads
  <2>4. /\ log' \in Seq(Rec) /\ segOf' \in Seq(Seg) /\ segLen' \in Nat /\ LogInv' /\ Base' = live[Last]
        /\ Replayed[Last - 1] = SubSeq(log', 1, Older') /\ ReplayedFrom[Last - 1] = SubSeq(segOf', 1, Older')
    BY <2>1, <1>OpenedLog
  <2>5. resumed' = (maybe[Last] # <<>>)
    BY <2>1 DEF Next
  <2>6. TypeOK'
    BY <2>1, <2>2, <2>4, NextTypes DEF TypeOK, PC
  <2>7. ~(Last + 1 <= Last) /\ \A s \in dir : s <= Last => s <= Last + 1
    <3>1. Last \in 1..MaxSeg /\ dir \subseteq 1..MaxSeg
      BY <2>2 DEF TypeOK, Seg
    <3> QED BY SMT, <3>1, WalAssumption
  <2>8. Last + 1 \notin dir /\ \A s \in dir : s <= Last + 1
    BY <2>2, <2>7
  <2>9. DirInv'
    BY <2>1, <2>2, <2>8 DEF DirInv, CreatedPC, RotatePC
  <2>10. live'[segSeq'] = Base' /\ tail' = <<>>
    BY <2>1, <2>4
  <2>11. CallInv'
    BY <2>1, <2>10 DEF CallInv, RotatePC
  <2>12. Running'
    BY <2>1 DEF Running, OpenPC
  <2>13. Shapes' /\ OpenInv' /\ CrashIsNotCorruption'
    BY <2>1, <2>2 DEF Shapes, OpenInv, CrashIsNotCorruption, Blank, OpenPC
  <2>14. RunInv'
    BY <2>3, <2>4, <2>9, <2>10, <2>11, PreRefl DEF RunInv
  <2>15. ASSUME Unborn \/ Born
         PROVE  /\ \A s \in 1..Last : s \in dir
                /\ \A s \in 1..(Last - 1) : Synced(s) /\ Clean(live[s])
                /\ maybe[Last] = <<>> => Whole(sure[Last]) = Whole(live[Last])
    <3>1. CASE Unborn
      <4>1. Last = 1 /\ HalfBorn(1) /\ 1 \in dir
        BY <2>2, <3>1, <1>LastUnborn DEF Unborn
      <4>2. (\A s \in 1..1 : s = 1) /\ (1..(1 - 1)) = {}
        BY SMT
      <4> QED BY <4>1, <4>2 DEF HalfBorn
    <3>2. CASE Born /\ Last = segSeq
      BY <3>2 DEF Born, OldInv, CurInv
    <3>3. CASE Born /\ Last = segSeq + 1
      <4>1. HalfBorn(segSeq + 1) /\ Synced(segSeq) /\ live[segSeq] = Base
        BY <2>2, <3>3 DEF Born, NextInv
      <4>2. Clean(live[segSeq])
        BY <2>2, <3>3, <4>1, BaseFacts DEF Born
      <4>3. /\ \A s \in 1..(segSeq + 1) : s = segSeq + 1 \/ s \in 1..segSeq
            /\ \A s \in 1..((segSeq + 1) - 1) : s = segSeq \/ s \in 1..(segSeq - 1)
        <5>1. segSeq \in 1..MaxSeg
          BY <2>2 DEF TypeOK, Seg
        <5> QED BY SMT, <5>1, WalAssumption
      <4>4. \A s \in 1..Last : s \in dir
        BY <2>2, <3>3, <4>3 DEF Born, OldInv
      <4>5. \A s \in 1..(Last - 1) : Synced(s) /\ Clean(live[s])
        BY <3>3, <4>1, <4>2, <4>3 DEF Born, OldInv
      <4> QED BY <3>3, <4>1, <4>4, <4>5 DEF HalfBorn
    <3> QED BY <2>2, <2>15, <3>1, <3>2, <3>3, LastBorn
  <2>16. ASSUME Unborn \/ Born PROVE Born'
    <3>1. /\ \A s \in 1..Last : s \in dir
          /\ \A s \in 1..(Last - 1) : Synced(s) /\ Clean(live[s])
          /\ maybe[Last] = <<>> => Whole(sure[Last]) = Whole(live[Last])
      BY <2>15, <2>16
    <3>2. Replayed' = Replayed /\ ReplayedFrom' = ReplayedFrom
      BY <2>1, RepIs
    <3>3. \A s \in 1..(segSeq' - 1) : Synced(s)' /\ Clean(live'[s])
      BY <2>1, <3>1 DEF Synced
    <3>4. OldInv'
      BY <2>1, <2>4, <2>8, <3>1, <3>2, <3>3 DEF OldInv
    <3>5. NextInv'
      BY <2>1, <2>8 DEF NextInv
    <3>6. CurInv'
      <4>1. PICK b, t, g, m : b = live[Last] /\ t = tail' /\ g = sure[Last] /\ m = maybe[Last]
        OBVIOUS
      <4>2. /\ b \in Seq(Block) /\ Whole(b) = b /\ t = <<>> /\ g \in Seq(Block) /\ Base' = b
            /\ live'[segSeq'] = b /\ sure'[segSeq'] = g /\ maybe'[segSeq'] = m
            /\ m = <<>> => Whole(g) = b
        BY <2>1, <2>2, <2>3, <2>4, <3>1, <4>1, FileType
      <4>3. Pre(b, b) /\ b \o <<>> = b /\ g \o <<>> = g
        BY <4>2, PreRefl
      <4>4. Between(b, b, t) /\ (m = <<>> => Between(g, b, t) /\ Between(g \o m, b, t))
        BY <4>2, <4>3 DEF Between
      <4>5. ~resumed' => m = <<>>
        BY <2>5, <4>1
      <4> QED BY <4>1, <4>2, <4>4, <4>5 DEF CurInv, Good
    <3> QED BY <2>4, <3>4, <3>5, <3>6 DEF Born
  <2>17. DiskInv'
    <3>1. exposed \in BOOLEAN
      BY <2>2 DEF TypeOK
    <3>2. exposed => exposed'
      BY SMT, <2>1, <3>1
    <3> QED BY <2>2, <2>16, <3>2 DEF DiskInv
  <2> QED BY <2>6, <2>13, <2>14, <2>17, ResumedNext DEF WalInv
\* open keeps SureInv.
<1>SureOpen. ASSUME WalInv, SureInv, Next, WalInv',
                    OpenScan \/ OpenCut \/ OpenCutSync \/ OpenCreate \/ OpenHeader \/ OpenHdrSync \/ OpenDir
             PROVE  SureInv'
  <2> USE <1>SureOpen
  <2>1. TypeOK
    BY DEF WalInv
  <2>2. CASE OpenDir
    <3>1. pc = "openDir" /\ pc' = "ready" /\ live' = live /\ sure' = sure /\ maybe' = maybe /\ segSeq' = Last
      BY <2>2 DEF OpenDir
    <3>2. Last \in Seg /\ live[Last] # <<>> /\ Whole(live[Last]) = live[Last]
      BY <3>1, OpenReads DEF Clean, Seg
    <3>3. ~resumed' => maybe[Last] = <<>>
      BY <3>1 DEF Next
    <3>4. ~resumed' => sure'[segSeq'] # <<>>
      BY <3>1, <3>2, <3>3 DEF SureInv, SureOf
    <3> QED BY <3>1, <3>4, SureSame DEF SureInv
  <2>3. CASE OpenScan
    <3>1. pc = "down" /\ live' = live /\ sure' = sure /\ maybe' = maybe /\ segSeq' = segSeq
      BY <2>3 DEF OpenScan, OpenTo, fileVars, walVars
    <3>2. ~Running'
      <4>1. \/ pc' = "refused" \/ pc' = "openCreate" \/ pc' = "openCut" \/ pc' = "openDir"
        BY <2>3 DEF OpenScan, OpenTo
      <4> QED BY <4>1 DEF Running, OpenPC
    <3> QED BY <3>1, <3>2, SureSame DEF SureInv
  <2>4. CASE OpenCreate
    <3>1. live' = live /\ sure' = sure /\ maybe' = maybe /\ pc' = "openHeader"
      BY <2>4 DEF OpenCreate, OpenTo
    <3>2. ~Running'
      BY <3>1 DEF Running, OpenPC
    <3> QED BY <3>1, <3>2, SureSame DEF SureInv
  <2>5. CASE OpenCutSync \/ OpenHdrSync
    <3>1. pc \in OpenPC \ {"openCreate"} /\ SyncFile(Last) /\ live' = live /\ pc' \in {"openHeader", "openDir"}
      BY <2>5 DEF OpenCutSync, OpenHdrSync, OpenTo, OpenPC
    <3>2. ~Running' /\ Last \in Seg
      BY <3>1, OpenFacts DEF Running, OpenPC
    <3> QED BY <2>1, <3>1, <3>2, SureSync DEF SureInv
  <2>6. CASE OpenHeader
    <3>1. pc = "openHeader" /\ pc \in OpenPC \ {"openCreate"} /\ WriteTo(Last, <<Hdr>>, <<Hdr>>) /\ sure' = sure /\ pc' = "openHdrSync"
      BY <2>6 DEF OpenHeader, OpenTo, OpenPC
    <3>2. ~Running' /\ Last \in Seg /\ Blank(Last)
      BY <3>1, OpenFacts DEF Running, OpenPC, OpenInv
    <3>3. /\ \A s \in Seg : s # Last => live'[s] = live[s] /\ maybe'[s] = maybe[s]
          /\ maybe'[Last] = <<Hdr>>
      BY <2>1, <3>1, <3>2, ShortFiles, HeaderWrite
    <3>4. \A s \in Seg : SureOf(s)'
      BY <3>1, <3>2, <3>3, SureFiles, ShortFiles
    <3> QED BY <3>2, <3>4 DEF SureInv
  <2>7. CASE OpenCut
    <3>1. /\ pc = "openCut" /\ pc \in OpenPC \ {"openCreate"} /\ sure' = sure /\ maybe' = maybe /\ pc' = "openCutSync"
          /\ live' = [live EXCEPT ![Last] = Whole(live[Last])]
      BY <2>7 DEF OpenCut, OpenTo, OpenPC, SetLen, Whole
    <3>2. ~Running' /\ Last \in Seg /\ live \in [Seg -> Seq(Block)] /\ live[Last] \in Seq(Block)
      BY <3>1, OpenFacts DEF Running, OpenPC
    <3>3. live'[Last] = Whole(live[Last]) /\ \A s \in Seg : s # Last => live'[s] = live[s]
      BY <3>1, <3>2, OneSet
    <3>4. Whole(Whole(live[Last])) = Whole(live[Last])
      BY <3>2, <1>WholeAgain
    <3>5. \A s \in Seg : SureOf(s)'
      BY <3>1, <3>3, <3>4 DEF SureInv, SureOf
    <3> QED BY <3>2, <3>5 DEF SureInv
  <2> QED BY <2>2, <2>3, <2>4, <2>5, <2>6, <2>7
<1> QED
  <2> SUFFICES ASSUME Inv, Next, (OpenScan \/ OpenCut \/ OpenCutSync \/ OpenCreate \/ OpenHeader \/ OpenHdrSync \/ OpenDir) PROVE Inv'
    OBVIOUS
  <2>1. WalInv /\ SureInv
    BY DEF Inv
  <2>2. WalInv'
    BY <2>1, <1>OpenScanStep, <1>OpenCutStep, <1>OpenCutSyncStep, <1>OpenCreateStep, <1>OpenHeaderStep, <1>OpenHdrSyncStep, <1>OpenDirStep
  <2> QED BY <2>1, <2>2, <1>SureOpen DEF Inv

-----------------------------------------------------------------------------
(* Crashes *)

\* Sequences over a smaller set are sequences over a larger one.
LEMMA SeqWider ==
  ASSUME NEW f \in Seq(Rec)
  PROVE  f \in Seq(Block)
BY SMT, BlockFacts

\* Two prefixes of a sequence that are as long are equal.
LEMMA PreSame ==
  ASSUME NEW a \in Seq(Block), NEW b \in Seq(Block), Pre(a, b), Len(a) = Len(b) \/ Pre(b, a)
  PROVE  a = b
<1>1. Len(a) = Len(b)
  BY SMT DEF Pre
<1> QED BY SMT, <1>1 DEF Pre

\* A sequence is a prefix of what it begins.
LEMMA PreConcat ==
  ASSUME NEW a \in Seq(Block), NEW b \in Seq(Block)
  PROVE  Pre(a, a \o b) /\ a \o b \in Seq(Block)
BY SMT DEF Pre

\* A common beginning can be added.
LEMMA PreLift ==
  ASSUME NEW a \in Seq(Block), NEW b \in Seq(Block), NEW c \in Seq(Block), Pre(b, c)
  PROVE  Pre(a \o b, a \o c)
BY SMT DEF Pre

\* A prefix is what is left when the sequence is cut.
LEMMA PreCut ==
  ASSUME NEW a \in Seq(Block), NEW b \in Seq(Block), Pre(a, b)
  PROVE  SubSeq(b, 1, Len(a)) = a
BY SMT DEF Pre

\* The first blocks of a concatenation.
LEMMA SubSeqOfConcat ==
  ASSUME NEW f \in Seq(Block), NEW g \in Seq(Block), NEW k \in 0..Len(g)
  PROVE  SubSeq(f \o g, 1, Len(f) + k) = f \o SubSeq(g, 1, k)
<1>1. PICK h, p : h = f \o g /\ p = SubSeq(g, 1, k)
  OBVIOUS
<1>2. PICK q, r : q = f \o p /\ r = SubSeq(h, 1, Len(f) + k)
  OBVIOUS
<1>3. /\ h \in Seq(Block) /\ Len(h) = Len(f) + Len(g)
      /\ p \in Seq(Block) /\ Len(p) = k
      /\ \A i \in 1..Len(f) : h[i] = f[i]
      /\ \A i \in 1..k : h[Len(f) + i] = p[i]
  BY SMT, <1>1
<1>4. /\ q \in Seq(Block) /\ Len(q) = Len(f) + k
      /\ \A i \in 1..Len(f) : q[i] = f[i]
      /\ \A i \in 1..k : q[Len(f) + i] = p[i]
  <2>1. p \in Seq(Block) /\ Len(p) = k
    BY <1>3
  <2>2. q = f \o p
    BY <1>2
  <2>3. /\ q \in Seq(Block) /\ Len(q) = Len(f) + Len(p)
        /\ \A i \in 1..Len(f) : q[i] = f[i]
        /\ \A i \in 1..Len(p) : q[Len(f) + i] = p[i]
    BY SMT, <2>1, <2>2
  <2> QED BY <2>1, <2>3
<1>5. /\ r \in Seq(Block) /\ Len(r) = Len(f) + k
      /\ \A i \in 1..(Len(f) + k) : r[i] = h[i]
  <2>1. PICK n : n = Len(f) + k
    OBVIOUS
  <2>2. n \in 0..Len(h)
    BY SMT, <1>3, <2>1
  <2>3. \A x \in 0..Len(h) : /\ SubSeq(h, 1, x) \in Seq(Block) /\ Len(SubSeq(h, 1, x)) = x
                            /\ \A i \in 1..x : SubSeq(h, 1, x)[i] = h[i]
    BY SMT, <1>3
  <2> QED BY <1>2, <2>1, <2>2, <2>3
<1>6. \A i \in 1..Len(r) : r[i] = q[i]
  <2> TAKE i \in 1..Len(r)
  <2>1. /\ i \in 1..(Len(f) + k)
        /\ i \in 1..Len(f) \/ (i - Len(f) \in 1..k /\ Len(f) + (i - Len(f)) = i)
    BY SMT, <1>5
  <2> QED BY ZenonT(30), <1>3, <1>4, <1>5, <2>1
<1>7. Pre(r, q) /\ Len(r) = Len(q)
  BY SMT, <1>4, <1>5, <1>6 DEF Pre
<1>8. r = q
  BY <1>4, <1>5, <1>7, PreSame
<1> QED BY <1>1, <1>2, <1>8

\* What a scan reads of a file that was appended to.
LEMMA WholeConcat ==
  ASSUME NEW f \in Seq(Block), NEW g \in Seq(Block)
  PROVE  /\ (\A i \in 1..Len(f) : f[i] # Bad) => Whole(f \o g) = f \o Whole(g)
         /\ ~(\A i \in 1..Len(f) : f[i] # Bad) => Whole(f \o g) = Whole(f)
<1>1. PICK h : h = f \o g
  OBVIOUS
<1>2. /\ h \in Seq(Block) /\ Len(h) = Len(f) + Len(g)
      /\ Len(f) \in Nat /\ Len(g) \in Nat
      /\ \A i \in 1..Len(f) : h[i] = f[i]
      /\ \A i \in 1..Len(g) : h[Len(f) + i] = g[i]
  BY SMT, <1>1
<1>3. ASSUME \A i \in 1..Len(f) : f[i] # Bad PROVE Whole(h) = f \o Whole(g)
  <2>1. PICK k : k = Intact(g)
    BY SMT
  <2>2. k \in 0..Len(g) /\ (\A i \in 1..k : g[i] # Bad) /\ (k < Len(g) => g[k + 1] = Bad)
    BY <2>1, IntactFacts
  <2>3. Len(f) + k \in 0..Len(h)
    BY SMT, <1>2, <2>2
  <2>4. \A i \in 1..(Len(f) + k) : h[i] # Bad
    <3> TAKE i \in 1..(Len(f) + k)
    <3>1. i \in 1..Len(f) \/ (i - Len(f) \in 1..k /\ i - Len(f) \in 1..Len(g) /\ Len(f) + (i - Len(f)) = i)
      BY SMT, <1>2, <2>2
    <3> QED BY <1>2, <1>3, <2>2, <3>1
  <2>5. Len(f) + k < Len(h) => h[(Len(f) + k) + 1] = Bad
    <3>1. SUFFICES ASSUME Len(f) + k < Len(h) PROVE h[(Len(f) + k) + 1] = Bad
      OBVIOUS
    <3>2. k < Len(g) /\ k + 1 \in 1..Len(g) /\ (Len(f) + k) + 1 = Len(f) + (k + 1)
      BY SMT, <1>2, <2>2, <3>1
    <3> QED BY <1>2, <2>2, <3>2
  <2>6. Intact(h) = Len(f) + k
    BY <1>2, <2>3, <2>4, <2>5, IntactIs
  <2>7. SubSeq(h, 1, Len(f) + k) = f \o SubSeq(g, 1, k)
    BY <1>1, <2>2, SubSeqOfConcat
  <2> QED BY <2>1, <2>6, <2>7 DEF Whole
<1>4. ASSUME ~(\A i \in 1..Len(f) : f[i] # Bad) PROVE Whole(h) = Whole(f)
  <2>1. PICK k : k = Intact(f)
    BY SMT
  <2>2. k \in 0..Len(f) /\ (\A i \in 1..k : f[i] # Bad) /\ (k < Len(f) => f[k + 1] = Bad)
    BY <2>1, IntactFacts
  <2>3. k # Len(f)
    BY <1>4, <2>2
  <2>4. k \in 0..Len(h) /\ k < Len(f) /\ k + 1 \in 1..Len(f) /\ \A i \in 1..k : i \in 1..Len(f)
    BY SMT, <1>2, <2>2, <2>3
  <2>5. Intact(h) = k
    BY <1>2, <2>2, <2>4, IntactIs
  <2>6. SubSeq(h, 1, k) = SubSeq(f, 1, k)
    BY SMT, <1>1, <2>2
  <2> QED BY <2>1, <2>5, <2>6 DEF Whole
<1> QED BY <1>1, <1>3, <1>4

\* A file that is not empty keeps its shape when records are added.
LEMMA ShapeGrow ==
  ASSUME NEW f \in Seq(Block), Shape(f), f # <<>>,
         NEW g \in Seq(Block), \A i \in 1..Len(g) : g[i] \in Rec \cup {Bad}
  PROVE  f \o g \in Seq(Block) /\ Shape(f \o g)
<1>1. PICK h : h = f \o g
  OBVIOUS
<1>2. /\ h \in Seq(Block) /\ Len(h) = Len(f) + Len(g)
      /\ Len(f) \in Nat /\ Len(g) \in Nat /\ Len(f) # 0
      /\ \A i \in 1..Len(f) : h[i] = f[i]
      /\ \A i \in 1..Len(g) : h[Len(f) + i] = g[i]
  BY SMT, <1>1
<1>3. ASSUME NEW i \in 1..Len(h)
      PROVE  i \in 1..Len(f) \/ (i # 1 /\ i - Len(f) \in 1..Len(g) /\ Len(f) + (i - Len(f)) = i)
  BY SMT, <1>2
<1>4. ASSUME NEW i \in 1..Len(h)
      PROVE  IF i = 1 THEN h[i] \in {Hdr, Bad} ELSE h[i] \in Rec \cup {Bad}
  <2>1. CASE i \in 1..Len(f)
    <3>1. h[i] = f[i]
      BY <1>2, <2>1
    <3>2. IF i = 1 THEN f[i] \in {Hdr, Bad} ELSE f[i] \in Rec \cup {Bad}
      BY <2>1 DEF Shape
    <3> QED BY <3>1, <3>2
  <2>2. CASE i \notin 1..Len(f)
    <3>1. i # 1 /\ i - Len(f) \in 1..Len(g) /\ Len(f) + (i - Len(f)) = i
      BY <1>3, <2>2
    <3>2. h[i] = g[i - Len(f)]
      BY <1>2, <3>1
    <3> QED BY <3>1, <3>2
  <2> QED BY <2>1, <2>2
<1>5. Shape(h)
  BY <1>4 DEF Shape
<1> QED BY <1>1, <1>2, <1>5

\* The tail is made of records.
LEMMA TailFacts ==
  ASSUME TypeOK
  PROVE  /\ tail \in Seq(Block) /\ Whole(tail) = tail /\ \A i \in 1..Len(tail) : tail[i] \in Rec
         /\ buf \in Seq(Block) /\ Whole(buf) = buf /\ \A i \in 1..Len(buf) : buf[i] \in Rec
<1>1. tail \in Seq(Rec) /\ buf \in Seq(Rec)
  BY DEF TypeOK
<1>2. ASSUME NEW t \in Seq(Rec)
      PROVE  t \in Seq(Block) /\ Whole(t) = t /\ \A i \in 1..Len(t) : t[i] \in Rec
  <2>1. \A i \in 1..Len(t) : t[i] \in Rec
    BY SMT
  <2>2. t \in Seq(Block) /\ \A i \in 1..Len(t) : t[i] # Bad
    BY <2>1, SeqWider, BlockFacts
  <2> QED BY <2>1, <2>2, CleanWhole
<1> QED BY <1>1, <1>2

\* What holds while the log is open.
LEMMA RunningFacts ==
  ASSUME WalInv, Running
  PROVE  /\ TypeOK /\ Shapes /\ ResumedInv /\ OpenInv /\ DirInv /\ LogInv /\ CallInv /\ Pre(Base, live[segSeq])
         /\ segSeq \in Seg
         /\ exposed \/ Born
         /\ pc \notin OpenPC /\ pc # "openDir"
BY DEF WalInv, RunInv, TypeOK, DiskInv, Unborn, Running, OpenPC

\* No segment stands beside the current one unless a rotation put it there.
LEMMA NothingBeside ==
  ASSUME TypeOK, DirInv, ~poisoned, pc \notin CreatedPC
  PROVE  segSeq + 1 \notin dir \cup ddir
<1>1. segSeq \in Nat
  BY SMT, WalAssumption DEF TypeOK, Seg
<1>2. ~(segSeq + 1 <= segSeq)
  BY SMT, <1>1
<1> QED BY <1>2 DEF DirInv

\* After an unsynced write that follows base, with tail group.
LEMMA WroteSafe ==
  ASSUME NEW b \in Seq(Block), Whole(b) = b, \A i \in 1..Len(b) : b[i] # Bad,
         NEW t \in Seq(Block), Whole(t) = t, NEW p \in Seq(Block), Pre(Whole(p), t)
  PROVE  Between(b \o p, b, t) /\ b \o p \in Seq(Block)
<1>1. Whole(b \o p) = b \o Whole(p)
  BY WholeConcat
<1>2. Whole(p) \in Seq(Block)
  BY WholeFacts
<1>3. Pre(b, b \o Whole(p)) /\ Pre(b \o Whole(p), b \o t) /\ b \o p \in Seq(Block)
  BY <1>2, PreConcat, PreLift
<1> QED BY <1>1, <1>3 DEF Between

\* A file whose intact part is base stays safe when the group is added.
LEMMA AddedSafe ==
  ASSUME NEW b \in Seq(Block), Whole(b) = b, \A i \in 1..Len(b) : b[i] # Bad,
         NEW t \in Seq(Block), Whole(t) = t, NEW f \in Seq(Block), Whole(f) = b,
         NEW p \in Seq(Block), Pre(Whole(p), t)
  PROVE  Between(f, b, t) /\ Between(f \o p, b, t)
<1>1. Pre(b, b) /\ Pre(b, b \o t)
  BY PreRefl, PreConcat
<1>2. Between(f, b, t)
  BY <1>1 DEF Between
<1>3. CASE \A i \in 1..Len(f) : f[i] # Bad
  <2>1. f = b
    BY <1>3, CleanWhole
  <2> QED BY <1>2, <2>1, WroteSafe
<1>4. CASE ~(\A i \in 1..Len(f) : f[i] # Bad)
  <2>1. Whole(f \o p) = b
    BY <1>4, WholeConcat
  <2> QED BY <1>1, <1>2, <2>1 DEF Between
<1> QED BY <1>3, <1>4

\* A crash preserves the invariant.
LEMMA CrashPreserves ==
  Inv /\ Next /\ Crash => Inv'
\* It is transitive.
<1>PreTrans. ASSUME NEW a \in Seq(Block), NEW b \in Seq(Block), NEW c \in Seq(Block), Pre(a, b), Pre(b, c)
             PROVE  Pre(a, c)
  BY SMT, <1>PreTrans DEF Pre
\* Damage only shortens what a scan reads.
<1>DamagedFacts. ASSUME NEW m \in Seq(Block), NEW d \in Damaged(m)
                 PROVE  /\ d \in Seq(Block) /\ Len(d) <= Len(m)
                        /\ \A i \in 1..Len(d) : d[i] \in {Bad, m[i]}
                        /\ Pre(Whole(d), Whole(m))
  <2> USE <1>DamagedFacts
  <2>0. PICK n \in 0..Len(m) : d \in {[i \in 1..n |-> IF i \in hit THEN Bad ELSE m[i]] : hit \in SUBSET (1..n)}
    BY DEF Damaged
  <2>1. PICK hit \in SUBSET (1..n) : d = [i \in 1..n |-> IF i \in hit THEN Bad ELSE m[i]]
    BY <2>0
  <2>2. n \in Nat /\ n <= Len(m) /\ \A i \in 1..n : m[i] \in Block
    BY SMT, <2>1
  <2>3. \A i \in 1..n : (IF i \in hit THEN Bad ELSE m[i]) \in Block
    BY <2>2, BlockFacts
  <2>4. d \in Seq(Block) /\ Len(d) = n
    <3>1. d \in [1..n -> Block]
      BY <2>1, <2>3
    <3> QED BY SMT, <2>2, <3>1
  <2>5. \A i \in 1..n : d[i] \in {Bad, m[i]}
    BY <2>1
  <2>6. PICK j, k : j = Intact(d) /\ k = Intact(m)
    OBVIOUS
  <2>7. /\ j \in 0..Len(d) /\ (\A i \in 1..j : d[i] # Bad)
        /\ k \in 0..Len(m) /\ (k < Len(m) => m[k + 1] = Bad)
    BY <2>4, <2>6, IntactFacts
  <2>8. \A i \in 1..j : i \in 1..n
    BY SMT, <2>4, <2>7
  <2>9. \A i \in 1..j : d[i] = m[i] /\ m[i] # Bad
    BY <2>5, <2>7, <2>8
  <2>10. ~(k < j)
    <3>1. SUFFICES ASSUME k < j PROVE FALSE
      OBVIOUS
    <3>2. k + 1 \in 1..j /\ k < Len(m)
      BY SMTT(30), <2>2, <2>4, <2>7, <3>1
    <3> QED BY <2>7, <2>9, <3>2
  <2>11. j <= k /\ \A i \in 1..j : i \in 1..k
    BY SMT, <2>7, <2>10
  <2>12. /\ Len(Whole(d)) = j /\ Len(Whole(m)) = k
         /\ (\A i \in 1..j : Whole(d)[i] = d[i]) /\ (\A i \in 1..k : Whole(m)[i] = m[i])
    BY <2>4, <2>6, WholeFacts
  <2>13. Pre(Whole(d), Whole(m))
    BY <2>9, <2>11, <2>12 DEF Pre
  <2> QED BY <2>2, <2>4, <2>5, <2>13
\* What power loss leaves of a file lies between what was synced and all of
\* what may have been written.
<1>PowerBetween. ASSUME NEW f \in Seq(Block), NEW m \in Seq(Block), NEW d \in Damaged(m)
                 PROVE  Pre(Whole(f), Whole(f \o d)) /\ Pre(Whole(f \o d), Whole(f \o m))
  <2> USE <1>PowerBetween
  <2>1. d \in Seq(Block) /\ Pre(Whole(d), Whole(m))
    BY <1>DamagedFacts
  <2>2. Whole(f) \in Seq(Block) /\ Whole(d) \in Seq(Block) /\ Whole(m) \in Seq(Block)
    BY <2>1, WholeFacts
  <2>3. CASE \A i \in 1..Len(f) : f[i] # Bad
    <3>1. Whole(f \o d) = f \o Whole(d) /\ Whole(f \o m) = f \o Whole(m) /\ Whole(f) = f
      BY <2>1, <2>3, WholeConcat, CleanWhole
    <3>2. Pre(f, f \o Whole(d)) /\ Pre(f \o Whole(d), f \o Whole(m))
      BY <2>1, <2>2, PreConcat, PreLift
    <3> QED BY <3>1, <3>2
  <2>4. CASE ~(\A i \in 1..Len(f) : f[i] # Bad)
    <3>1. Whole(f \o d) = Whole(f) /\ Whole(f \o m) = Whole(f)
      BY <2>1, <2>4, WholeConcat
    <3> QED BY <2>2, <3>1, PreRefl
  <2> QED BY <2>3, <2>4
\* The same for what power loss leaves of the files.
<1>LeftDef. /\ Left[0] = {<<>>}
            /\ \A i \in 1..MaxSeg : Left[i] = LeftStep(i, Left[i - 1])
  <2> DEFINE F(g, m) == [i \in 0..m |-> IF i = 0 THEN {<<>>} ELSE LeftStep(i, g[i - 1])]
             D == {m \in 0..MaxSeg : \E g : g = F(g, m)}
  <2>1. MaxSeg \in Nat /\ 0 \in 0..MaxSeg /\ MaxSeg \in 0..MaxSeg /\ \A i \in 0..0 : i = 0
    BY SMT, WalAssumption
  <2>2. 0 \in D
    <3>1. [i \in 0..0 |-> {<<>>}] = F([i \in 0..0 |-> {<<>>}], 0)
      BY <2>1
    <3> QED BY <2>1, <3>1
  <2>3. ASSUME NEW m \in 1..MaxSeg, m - 1 \in D PROVE m \in D
    <3>1. m \in 0..MaxSeg /\ m # 0
      BY SMT, <2>1
    <3>2. PICK g : g = F(g, m - 1)
      BY <2>3
    <3> DEFINE h == [i \in 0..m |-> IF i = m THEN LeftStep(m, g[m - 1]) ELSE g[i]]
    <3>3. ASSUME NEW i \in 0..m
          PROVE  (i # m => i \in 0..(m - 1)) /\ (i # 0 => i - 1 \in 0..m /\ i - 1 # m)
      BY SMT, <2>1
    <3>4. \A i \in 0..m : i # 0 => h[i - 1] = g[i - 1]
      BY <3>3
    <3>5. \A i \in 0..m : h[i] = IF i = 0 THEN {<<>>} ELSE LeftStep(i, h[i - 1])
      <4> TAKE i \in 0..m
      <4>1. CASE i = m
        BY <3>1, <3>4, <4>1
      <4>2. CASE i # m
        <5>1. h[i] = g[i] /\ i \in 0..(m - 1)
          BY <3>3, <4>2
        <5>2. g[i] = IF i = 0 THEN {<<>>} ELSE LeftStep(i, g[i - 1])
          BY <3>2, <5>1
        <5> QED BY <3>4, <5>1, <5>2
      <4> QED BY <4>1, <4>2
    <3>6. h = F(h, m)
      BY <3>5
    <3> QED BY <3>1, <3>6
  <2> HIDE DEF D
  <2>4. MaxSeg \in D
    BY <2>1, <2>2, <2>3, UpTo
  <2>5. \E g : g = F(g, MaxSeg)
    BY <2>4 DEF D
  <2>6. PICK g : g = Left
    OBVIOUS
  <2>7. g = F(g, MaxSeg)
    BY <2>5, <2>6 DEF Left, LeftStep
  <2>8. \A i \in 1..MaxSeg : i \in 0..MaxSeg /\ i # 0
    BY SMT, <2>1
  <2>9. g[0] = {<<>>} /\ \A i \in 1..MaxSeg : g[i] = LeftStep(i, g[i - 1])
    BY <2>1, <2>7, <2>8
  <2> QED BY <2>6, <2>9
\* What power loss may leave of a file.
<1>AfterPowerFacts. ASSUME TypeOK, NEW s \in Seg, Shape(live[s]), Shape(sure[s] \o maybe[s]), NEW x \in AfterPower(s)
                    PROVE  /\ x \in Seq(Block) /\ Shape(x)
                           /\ \/ x = live[s]
                              \/ Pre(Whole(sure[s]), Whole(x)) /\ Pre(Whole(x), Whole(sure[s] \o maybe[s]))
                           /\ maybe[s] = <<>> => x = live[s] \/ x = sure[s]
                           /\ sure[s] = <<>> /\ maybe[s] = <<Hdr>> => x = live[s] \/ Half(x)
  <2> USE <1>AfterPowerFacts
  <2>1. live[s] \in Seq(Block) /\ sure[s] \in Seq(Block) /\ maybe[s] \in Seq(Block)
    BY FileType
  <2>2. CASE x = live[s]
    BY <2>1, <2>2
  <2>3. CASE x # live[s]
    <3>1. PICK d \in Damaged(maybe[s]) : x = sure[s] \o d
      BY <2>3 DEF AfterPower
    <3>2. PICK f, m : f = sure[s] /\ m = maybe[s]
      OBVIOUS
    <3>3. f \in Seq(Block) /\ m \in Seq(Block) /\ d \in Damaged(m) /\ x = f \o d /\ Shape(f \o m)
      BY <2>1, <3>1, <3>2
    <3>4. d \in Seq(Block) /\ Len(d) <= Len(m) /\ \A i \in 1..Len(d) : d[i] \in {Bad, m[i]}
      BY <3>3, <1>DamagedFacts
    <3>5. Pre(Whole(f), Whole(x)) /\ Pre(Whole(x), Whole(f \o m))
      BY <3>3, <1>PowerBetween
    <3>6. PICK h : h = f \o m
      OBVIOUS
    <3>7. /\ h \in Seq(Block) /\ Len(h) = Len(f) + Len(m) /\ Len(f) \in Nat /\ Len(m) \in Nat
          /\ \A i \in 1..Len(f) : h[i] = f[i]
          /\ \A i \in 1..Len(m) : h[Len(f) + i] = m[i]
      BY SMT, <3>3, <3>6
    <3>8. /\ x \in Seq(Block) /\ Len(x) = Len(f) + Len(d) /\ Len(d) \in Nat
          /\ \A i \in 1..Len(f) : x[i] = f[i]
          /\ \A i \in 1..Len(d) : x[Len(f) + i] = d[i]
      BY SMT, <3>3, <3>4
    <3>9. Len(x) <= Len(h)
      BY SMT, <3>4, <3>7, <3>8
    <3>10. \A i \in 1..Len(x) : x[i] \in {Bad, h[i]}
      <4> TAKE i \in 1..Len(x)
      <4>1. \/ i \in 1..Len(f)
            \/ i - Len(f) \in 1..Len(d) /\ i - Len(f) \in 1..Len(m) /\ Len(f) + (i - Len(f)) = i
        BY SMT, <3>4, <3>7, <3>8
      <4> QED BY <3>4, <3>7, <3>8, <4>1
    <3>11. Shape(x)
      BY <3>3, <3>6, <3>7, <3>8, <3>9, <3>10, ShapeLess
    <3>12. m = <<>> => x = f
      <4>1. m = <<>> => Len(d) = 0
        BY SMT, <3>4, <3>8
      <4>2. m = <<>> => d = <<>>
        BY SMT, <3>4, <4>1
      <4> QED BY <3>3, <4>2, PreRefl
    <3>13. f = <<>> /\ m = <<Hdr>> => Half(x)
      <4>1. SUFFICES ASSUME f = <<>>, m = <<Hdr>> PROVE Half(x)
        OBVIOUS
      <4>2. x = d /\ Len(d) <= 1
        BY SMTT(30), <3>3, <3>4, <4>1
      <4>3. Len(d) = 0 \/ (Len(d) = 1 /\ d[1] \in {Bad, Hdr})
        BY SMTT(30), <3>4, <3>8, <4>1, <4>2
      <4>4. d = <<>> \/ d = <<Bad>> \/ d = <<Hdr>>
        BY SMT, <3>4, <4>3
      <4> QED BY <4>2, <4>4 DEF Half
    <3> QED BY <3>2, <3>5, <3>8, <3>11, <3>12, <3>13
  <2> QED BY <2>2, <2>3
\* Power loss leaves each file in one of these forms.
<1>LeftFacts. ASSUME TypeOK, Shapes, NEW left \in Left[MaxSeg]
              PROVE  \A s \in Seg : left[s] \in AfterPower(s)
  <2> USE <1>LeftFacts
  <2> DEFINE P(f, m) == f \in Seq(Seq(Block)) /\ Len(f) = m /\ \A i \in 1..m : f[i] \in AfterPower(i)
             D == {m \in 0..MaxSeg : \A f \in Left[m] : P(f, m)}
  <2>1. MaxSeg \in Nat /\ 0 \in 0..MaxSeg /\ MaxSeg \in 0..MaxSeg
    BY SMT, WalAssumption
  <2>2. 0 \in D
    <3>1. P(<<>>, 0)
      BY SMT
    <3> HIDE DEF P
    <3> QED BY <2>1, <3>1, <1>LeftDef
  <2>3. ASSUME NEW m \in 1..MaxSeg, m - 1 \in D PROVE m \in D
    <3>1. m \in 0..MaxSeg /\ m \in Seg /\ m \in Nat
      BY SMT, <2>1 DEF Seg
    <3>2. ASSUME NEW f \in Left[m] PROVE P(f, m)
      <4>1. PICK g \in Left[m - 1] : f \in {Append(g, c) : c \in AfterPower(m)}
        <5>1. Left[m] = LeftStep(m, Left[m - 1])
          BY <1>LeftDef
        <5> QED BY <3>2, <5>1 DEF LeftStep
      <4>2. PICK c \in AfterPower(m) : f = Append(g, c)
        BY <4>1
      <4>3. P(g, m - 1)
        BY <2>3, <4>1
      <4>4. c \in Seq(Block)
        BY <3>1, <4>2, <1>AfterPowerFacts DEF Shapes
      <4>5. /\ f \in Seq(Seq(Block)) /\ Len(f) = m /\ f[m] = c
            /\ \A i \in 1..(m - 1) : f[i] = g[i]
        BY SMTT(30), <3>1, <4>2, <4>3, <4>4
      <4>6. \A i \in 1..m : i = m \/ i \in 1..(m - 1)
        BY SMT, <3>1
      <4> QED BY <4>2, <4>3, <4>5, <4>6
    <3> HIDE DEF P
    <3> QED BY <3>1, <3>2
  <2> HIDE DEF D
  <2>4. MaxSeg \in D
    BY <2>1, <2>2, <2>3, UpTo
  <2>5. P(left, MaxSeg)
    BY <2>4 DEF D
  <2> QED BY <2>5 DEF Seg
\* A prefix and the rest.
<1>PreSplit. ASSUME NEW b \in Seq(Block), NEW f \in Seq(Block), Pre(b, f)
             PROVE  LET p == SubSeq(f, Len(b) + 1, Len(f)) IN
                    /\ p \in Seq(Block) /\ f = b \o p
                    /\ \A i \in 1..Len(p) : Len(b) + i \in 1..Len(f) /\ p[i] = f[Len(b) + i]
  <2> USE <1>PreSplit
  <2>1. PICK p : p = SubSeq(f, Len(b) + 1, Len(f))
    OBVIOUS
  <2>2. Len(b) <= Len(f) /\ (\A i \in 1..Len(b) : b[i] = f[i]) /\ Len(b) \in Nat
    BY SMT DEF Pre
  <2>3. /\ p \in Seq(Block) /\ Len(p) = Len(f) - Len(b)
        /\ \A i \in 1..Len(p) : Len(b) + i \in 1..Len(f) /\ p[i] = f[Len(b) + i]
    BY SMT, <2>1, <2>2
  <2>4. PICK h : h = b \o p
    OBVIOUS
  <2>5. /\ h \in Seq(Block) /\ Len(h) = Len(b) + Len(p)
        /\ \A i \in 1..Len(b) : h[i] = b[i]
        /\ \A i \in 1..Len(p) : h[Len(b) + i] = p[i]
    <3>1. p \in Seq(Block) /\ b \in Seq(Block)
      BY <2>3
    <3> QED BY SMT, <2>4, <3>1
  <2>6. Len(f) = Len(h)
    BY SMT, <2>2, <2>3, <2>5
  <2>7. \A i \in 1..Len(f) : f[i] = h[i]
    <3> TAKE i \in 1..Len(f)
    <3>1. CASE i \in 1..Len(b)
      BY <2>2, <2>5, <3>1
    <3>2. CASE i \notin 1..Len(b)
      <4>1. PICK j : j = i - Len(b)
        OBVIOUS
      <4>2. j \in 1..Len(p) /\ Len(b) + j = i
        BY SMT, <2>2, <2>3, <3>2, <4>1
      <4> QED BY <2>3, <2>5, <4>2
    <3> QED BY <3>1, <3>2
  <2>8. f = h
    BY <2>5, <2>6, <2>7, SameSeq
  <2> QED BY <2>1, <2>3, <2>4, <2>8
\* A common beginning can be dropped.
<1>PreUnlift. ASSUME NEW b \in Seq(Block), NEW x \in Seq(Block), NEW t \in Seq(Block), Pre(b \o x, b \o t)
              PROVE  Pre(x, t)
  <2> USE <1>PreUnlift
  <2>1. PICK g, h : g = b \o x /\ h = b \o t
    OBVIOUS
  <2>2. /\ Len(g) = Len(b) + Len(x) /\ \A i \in 1..Len(x) : g[Len(b) + i] = x[i]
    <3>1. g = b \o x
      BY <2>1
    <3> QED BY SMT, <3>1
  <2>3. /\ Len(h) = Len(b) + Len(t) /\ \A i \in 1..Len(t) : h[Len(b) + i] = t[i]
    <3>1. h = b \o t
      BY <2>1
    <3> QED BY SMT, <3>1
  <2>4. Len(g) <= Len(h) /\ \A i \in 1..Len(g) : g[i] = h[i]
    BY <2>1 DEF Pre
  <2>5. Len(b) \in Nat /\ Len(x) \in Nat /\ Len(t) \in Nat
    BY SMT
  <2>6. Len(x) <= Len(t) /\ \A i \in 1..Len(x) : i \in 1..Len(t) /\ Len(b) + i \in 1..Len(g)
    <3>1. Len(b) + Len(x) <= Len(b) + Len(t) /\ Len(g) = Len(b) + Len(x)
      BY <2>2, <2>3, <2>4
    <3> QED BY SMT, <2>5, <3>1
  <2>7. \A i \in 1..Len(x) : x[i] = t[i]
    BY <2>2, <2>3, <2>4, <2>6
  <2> QED BY <2>6, <2>7 DEF Pre
\* What a write had reached when the process ended.
<1>ExitShape. ASSUME NEW g \in Seq(Block), NEW m \in Seq(Block), Shape(g \o m), g # <<>>,
                     NEW b \in Seq(Block), b # <<>>, NEW f \in Seq(Block), Shape(f), Pre(b, f)
              PROVE  LET p == SubSeq(f, Len(b) + 1, Len(f)) IN
                     p \in Seq(Block) /\ Shape(g \o p)
  <2> USE <1>ExitShape
  <2>1. PICK p : p = SubSeq(f, Len(b) + 1, Len(f))
    OBVIOUS
  <2>2. p \in Seq(Block) /\ \A i \in 1..Len(p) : Len(b) + i \in 1..Len(f) /\ p[i] = f[Len(b) + i]
    BY <2>1, <1>PreSplit
  <2>3. Len(b) \in Nat /\ Len(b) # 0
    BY SMT
  <2>4. \A i \in 1..Len(p) : Len(b) + i # 1
    BY SMT, <2>2, <2>3
  <2>5. \A i \in 1..Len(p) : p[i] \in Rec \cup {Bad}
    BY <2>2, <2>4 DEF Shape
  <2>6. Shape(g)
    <3>1. Pre(g, g \o m) /\ g \o m \in Seq(Block)
      BY PreConcat
    <3>2. PICK h : h = g \o m
      OBVIOUS
    <3>3. SubSeq(h, 1, Len(g)) = g
      BY <3>1, <3>2, PreCut
    <3>4. Len(g) \in 0..Len(h)
      BY SMT, <3>1, <3>2 DEF Pre
    <3> QED BY <3>1, <3>2, <3>3, <3>4, ShapeCut
  <2>7. Shape(g \o p)
    BY <2>2, <2>5, <2>6, ShapeGrow
  <2> QED BY <2>1, <2>2, <2>7
\* The parts of a crash that are not about the files.
<1>CrashFrame. ASSUME WalInv, Crash
               PROVE  /\ pc' = "down" /\ ~Running' /\ pc' # "ready" /\ crashes' \in 0..MaxCrash
                      /\ segSeq' = segSeq /\ segLen' = segLen /\ poisoned' = poisoned /\ log' = log /\ segOf' = segOf /\ tail' = tail
                      /\ buf' = buf /\ rotating' = rotating /\ offered' = offered /\ kinds' = kinds
                      /\ Base' = Base /\ Older' = Older /\ (LogInv => LogInv') /\ RunInv' /\ CrashIsNotCorruption'
  <2> USE <1>CrashFrame
  <2>1. /\ pc' = "down" /\ crashes' = crashes + 1 /\ crashes < MaxCrash
        /\ segSeq' = segSeq /\ segLen' = segLen /\ poisoned' = poisoned /\ log' = log /\ segOf' = segOf /\ tail' = tail
        /\ buf' = buf /\ rotating' = rotating /\ offered' = offered /\ kinds' = kinds
    BY DEF Crash, walVars, logVars
  <2>2. crashes' \in 0..MaxCrash
    <3>1. crashes \in 0..MaxCrash
      BY DEF WalInv, TypeOK
    <3> QED BY SMTT(30), <2>1, <3>1, WalAssumption
  <2>3. Base' = Base /\ Older' = Older /\ (LogInv => LogInv')
    BY <2>1, LogFrame
  <2> QED BY <2>1, <2>2, <2>3 DEF Running, RunInv, CrashIsNotCorruption
\* The process ends.
<1>ExitStep. ASSUME WalInv, SureInv, Next, Crash, UNCHANGED <<dir, ddir, live, sure, exposed>>,
                    maybe' = IF pc = "writing" /\ ~resumed
                             THEN [maybe EXCEPT ![segSeq] = SubSeq(live[segSeq], segLen + 1, Len(live[segSeq]))]
                             ELSE maybe
             PROVE  WalInv'
  <2> USE <1>ExitStep
  <2>1. /\ pc' = "down" /\ ~Running' /\ pc' # "ready" /\ crashes' \in 0..MaxCrash
        /\ segSeq' = segSeq /\ segLen' = segLen /\ poisoned' = poisoned /\ log' = log /\ segOf' = segOf /\ tail' = tail
        /\ buf' = buf /\ rotating' = rotating /\ offered' = offered /\ kinds' = kinds
        /\ Base' = Base /\ Older' = Older /\ (LogInv => LogInv') /\ RunInv' /\ CrashIsNotCorruption'
    BY <1>CrashFrame
  <2>2. dir' = dir /\ ddir' = ddir /\ live' = live /\ sure' = sure /\ exposed' = exposed
    OBVIOUS
  <2>3. TypeOK /\ Shapes /\ ResumedInv /\ OpenInv /\ DiskInv
    BY DEF WalInv
  <2>4. exposed => exposed'
    <3>1. exposed \in BOOLEAN
      BY <2>3 DEF TypeOK
    <3> QED BY SMT, <2>2, <3>1
  <2>5. ASSUME Born PROVE OldInv' \/ \E s \in 1..(segSeq - 1) : maybe'[s] # maybe[s]
    <3>1. (\A s \in 1..segSeq : s \in dir' /\ s \in ddir') /\ \A s \in dir' \cup ddir' : s <= segSeq + 1
      BY <2>2, <2>5 DEF Born, OldInv
    <3> QED BY <2>1, <2>2, <2>3, <2>5, <3>1, OldFrame DEF Born
  <2>6. CASE ~(pc = "writing" /\ ~resumed)
    <3>1. maybe' = maybe
      BY <2>6
    <3>2. resumed' = resumed
      BY <2>1, <2>3, <3>1, ResumedSame
    <3>3. TypeOK'
      BY <2>1, <2>2, <2>3, <3>1, NextTypes DEF TypeOK, PC
    <3>4. Shapes' /\ OpenInv'
      BY <2>1, <2>2, <2>3, <3>1 DEF Shapes, OpenInv, Blank, OpenPC
    <3>5. Unborn => Unborn'
      BY <2>1, <2>2, <3>1, <3>2 DEF Unborn, HalfBorn
    <3>6. ASSUME Born PROVE Born'
      <4>1. CurInv'
        BY <2>1, <2>2, <3>1, <3>2, <3>6, CurFrame DEF Born
      <4>2. OldInv'
        BY <2>5, <3>1, <3>6
      <4>3. NextInv'
        BY <2>1, <2>2, <3>1, <3>6 DEF Born, NextInv, HalfBorn, Synced
      <4> QED BY <2>1, <3>6, <4>1, <4>2, <4>3 DEF Born
    <3>7. DiskInv'
      BY <2>3, <2>4, <3>5, <3>6 DEF DiskInv
    <3> QED BY <2>1, <3>3, <3>4, <3>7, ResumedNext DEF WalInv
  <2>7. CASE pc = "writing" /\ ~resumed
    <3>1. Running /\ pc \notin CreatedPC
      BY <2>7 DEF Running, OpenPC, CreatedPC
    <3>2. /\ DirInv /\ CallInv /\ LogInv /\ segSeq \in Seg /\ Pre(Base, live[segSeq]) /\ (exposed \/ Born)
      BY <3>1, RunningFacts
    <3>3. PICK b, t, f, g, m : b = Base /\ t = tail /\ f = live[segSeq] /\ g = sure[segSeq] /\ m = maybe[segSeq]
      OBVIOUS
    <3>4. PICK p : p = SubSeq(f, Len(b) + 1, Len(f))
      OBVIOUS
    <3>5. /\ b \in Seq(Block) /\ Len(b) = segLen /\ Whole(b) = b /\ b # <<>> /\ (\A i \in 1..Len(b) : b[i] # Bad)
          /\ t \in Seq(Block) /\ Whole(t) = t
          /\ f \in Seq(Block) /\ g \in Seq(Block) /\ m \in Seq(Block) /\ Pre(b, f) /\ Shape(f) /\ Shape(g \o m)
      BY <2>3, <3>2, <3>3, BaseFacts, TailFacts, FileType DEF Shapes
    <3>6. g # <<>>
      BY <2>7, <3>1, <3>3 DEF SureInv
    <3>7. p \in Seq(Block) /\ f = b \o p /\ Shape(g \o p)
      BY <3>4, <3>5, <3>6, <1>PreSplit, <1>ExitShape
    <3>8. /\ maybe' \in [Seg -> Seq(Block)] /\ maybe'[segSeq] = p
          /\ \A s \in Seg : s # segSeq => maybe'[s] = maybe[s]
      <4>1. maybe' = [maybe EXCEPT ![segSeq] = p] /\ maybe \in [Seg -> Seq(Block)]
        BY <2>3, <2>7, <3>3, <3>4, <3>5 DEF TypeOK
      <4>2. segSeq \in Seg /\ p \in Seq(Block)
        BY <3>2, <3>7
      <4>3. PICK l, n, s : l = maybe /\ n = maybe' /\ s = segSeq
        OBVIOUS
      <4>4. n = [l EXCEPT ![s] = p] /\ l \in [Seg -> Seq(Block)] /\ s \in Seg
        BY <4>1, <4>2, <4>3
      <4>5. n \in [Seg -> Seq(Block)] /\ n[s] = p /\ \A u \in Seg : u # s => n[u] = l[u]
        BY <4>2, <4>4, FileSet
      <4> QED BY <4>3, <4>5
    <3>9. TypeOK'
      BY <2>1, <2>2, <2>3, <3>8, NextTypes DEF TypeOK, PC
    <3>10. Shapes'
      BY <2>2, <2>3, <3>3, <3>7, <3>8 DEF Shapes
    <3>11. OpenInv'
      <4>1. 1 \notin dir' => Blank(1)'
        <5>1. 1 \in Seg
          BY SMT, WalAssumption DEF Seg
        <5>2. segSeq \in dir
          BY <3>2 DEF DirInv
        <5> QED BY <2>2, <2>3, <3>8, <5>1, <5>2 DEF OpenInv, Blank
      <4> QED BY <2>1, <4>1 DEF OpenInv, OpenPC
    <3>12. ~Unborn
      BY <3>1 DEF Unborn
    <3>13. ~resumed'
      BY <2>1, <2>7, StillUnsynced
    <3>14. ASSUME Born PROVE Born'
      <4>1. Between(f, b, t) /\ Whole(g) = b
        BY <2>7, <3>1, <3>3, <3>14 DEF Born, CurInv, Good
      <4>2. Pre(Whole(p), t)
        <5>1. Whole(p) \in Seq(Block)
          BY <3>7, WholeFacts
        <5>2. Whole(f) = b \o Whole(p)
          BY <3>5, <3>7, WholeConcat
        <5>3. Pre(b \o Whole(p), b \o t)
          BY <4>1, <5>2 DEF Between
        <5> QED BY <3>5, <5>1, <5>3, <1>PreUnlift
      <4>3. Between(g, b, t) /\ Between(g \o p, b, t)
        BY <3>5, <3>7, <4>1, <4>2, AddedSafe
      <4>4. p = <<>> => Whole(g) = Whole(f)
        <5>1. b \o <<>> = b
          BY <3>5, PreRefl
        <5> QED BY <3>5, <3>7, <4>1, <5>1
      <4>5. live'[segSeq'] = f /\ sure'[segSeq'] = g /\ maybe'[segSeq'] = p /\ Base' = b /\ tail' = t
        BY <2>1, <2>2, <3>3, <3>8
      <4>6. CurInv'
        BY <2>1, <4>1, <4>3, <4>4, <4>5 DEF CurInv, Good
      <4>7. segSeq + 1 \notin dir \cup ddir
        BY <2>3, <2>7, <3>1, <3>2, NothingBeside DEF CallInv
      <4>8. NextInv'
        BY <2>1, <2>2, <4>7 DEF NextInv
      <4>9. OldInv'
        <5>1. \A s \in 1..(segSeq - 1) : s \in Seg /\ s # segSeq
          BY <2>3, <3>14, LastBorn
        <5> QED BY <2>5, <3>8, <3>14, <5>1
      <4> QED BY <2>1, <3>2, <4>6, <4>8, <4>9 DEF Born
    <3>15. DiskInv'
      BY <2>4, <3>2, <3>14 DEF DiskInv
    <3> QED BY <2>1, <3>9, <3>10, <3>11, <3>15, ResumedNext DEF WalInv
  <2> QED BY <2>6, <2>7
\* What power loss leaves of a half-born segment is half-born.
<1>HalfAfterPower. ASSUME TypeOK, Shapes, NEW s \in Seg, HalfBorn(s), NEW x, x = <<>> \/ x \in AfterPower(s),
                          live'[s] = x, sure'[s] = x, maybe'[s] = <<>>
                   PROVE  HalfBorn(s)'
  <2> USE <1>HalfAfterPower
  <2>1. x \in AfterPower(s) =>
          /\ maybe[s] = <<>> => x = live[s] \/ x = sure[s]
          /\ sure[s] = <<>> /\ maybe[s] = <<Hdr>> => x = live[s] \/ Half(x)
    BY <1>AfterPowerFacts DEF Shapes
  <2>2. Half(x)
    BY <2>1 DEF HalfBorn, Half
  <2> QED BY <2>2 DEF HalfBorn
\* What power loss leaves of the current segment.
<1>GoodAfterPower. ASSUME TypeOK, Shapes, segSeq \in Seg, LogInv, CurInv, ~resumed, NEW x \in AfterPower(segSeq)
                   PROVE  Good(x)
  <2> USE <1>GoodAfterPower
  <2>1. PICK b, c, f, g, h : b = Base /\ c = Base \o tail /\ f = live[segSeq] /\ g = sure[segSeq] /\ h = sure[segSeq] \o maybe[segSeq]
    OBVIOUS
  <2>2. /\ x \in Seq(Block)
        /\ x = f \/ (Pre(Whole(g), Whole(x)) /\ Pre(Whole(x), Whole(h)))
    BY <2>1, <1>AfterPowerFacts DEF Shapes
  <2>3. b \in Seq(Block) /\ c \in Seq(Block) /\ g \in Seq(Block) /\ h \in Seq(Block)
    BY <2>1, BaseFacts, TailFacts, FileType, PreConcat
  <2>4. Whole(g) \in Seq(Block) /\ Whole(h) \in Seq(Block) /\ Whole(x) \in Seq(Block)
    BY <2>2, <2>3, WholeFacts
  <2>5. Good(f) /\ Pre(b, Whole(g)) /\ Pre(Whole(h), c)
    BY <2>1 DEF CurInv, Good, Between
  <2>6. CASE x = f
    BY <2>5, <2>6
  <2>7. CASE Pre(Whole(g), Whole(x)) /\ Pre(Whole(x), Whole(h))
    <3>1. Pre(b, Whole(x)) /\ Pre(Whole(x), c)
      BY <2>3, <2>4, <2>5, <2>7, <1>PreTrans
    <3> QED BY <2>1, <3>1 DEF Good, Between
  <2> QED BY <2>2, <2>6, <2>7
\* The machine loses power.
<1>PowerStep. ASSUME WalInv, Next, Crash, PowerLoss, exposed' = (exposed \/ resumed)
              PROVE  WalInv'
  <2> USE <1>PowerStep
  <2>1. /\ pc' = "down" /\ ~Running' /\ pc' # "ready" /\ crashes' \in 0..MaxCrash
        /\ segSeq' = segSeq /\ segLen' = segLen /\ poisoned' = poisoned /\ log' = log /\ segOf' = segOf /\ tail' = tail
        /\ buf' = buf /\ rotating' = rotating /\ offered' = offered /\ kinds' = kinds
        /\ Base' = Base /\ Older' = Older /\ (LogInv => LogInv') /\ RunInv' /\ CrashIsNotCorruption'
    BY <1>CrashFrame
  <2>2. TypeOK /\ Shapes /\ OpenInv /\ DiskInv
    BY DEF WalInv
  <2>3. /\ dir' \subseteq dir \cup ddir /\ dir \cap ddir \subseteq dir' /\ ddir' = dir' /\ sure' = live'
        /\ maybe' = [s \in Seg |-> <<>>]
    BY DEF PowerLoss
  <2>4. PICK left \in Left[MaxSeg] : live' = [s \in Seg |-> IF s \in dir' THEN left[s] ELSE <<>>]
    BY DEF PowerLoss
  <2>5. \A s \in Seg : left[s] \in AfterPower(s)
    BY <2>2, <1>LeftFacts
  <2>6. \A s \in Seg : /\ s \in dir' => live'[s] \in AfterPower(s)
                       /\ s \notin dir' => live'[s] = <<>>
                       /\ sure'[s] = live'[s] /\ maybe'[s] = <<>>
    BY <2>3, <2>4, <2>5
  <2>7. \A s \in Seg : live'[s] \in Seq(Block) /\ Shape(live'[s]) /\ live'[s] \o <<>> = live'[s]
    <3> TAKE s \in Seg
    <3>1. live'[s] \in Seq(Block) /\ Shape(live'[s])
      BY <2>2, <2>6, <1>AfterPowerFacts, ShortFiles DEF Shapes
    <3> QED BY <3>1, PreRefl
  <2>8. live' \in [Seg -> Seq(Block)] /\ sure' \in [Seg -> Seq(Block)] /\ maybe' \in [Seg -> Seq(Block)]
    <3>1. live' = [s \in Seg |-> live'[s]]
      BY <2>4
    <3> QED BY <2>3, <2>7, <3>1, ShortFiles
  <2>9. exposed' \in BOOLEAN
    BY SMT
  <2>10. TypeOK'
    <3>1. dir' \subseteq Seg /\ ddir' \subseteq Seg
      BY <2>2, <2>3 DEF TypeOK
    <3> QED BY <2>1, <2>2, <2>8, <2>9, <3>1, NextTypes DEF TypeOK, PC
  <2>11. Shapes'
    BY <2>6, <2>7 DEF Shapes
  <2>12. OpenInv'
    <3>1. 1 \in Seg
      BY SMTT(30), WalAssumption DEF Seg
    <3> QED BY <2>1, <2>6, <3>1 DEF OpenInv, OpenPC, Blank
  <2>13. exposed \/ resumed => exposed'
    BY SMT, <2>2 DEF TypeOK
  <2>14. \A s \in Seg : HalfBorn(s) => HalfBorn(s)'
    BY <2>2, <2>6, <1>HalfAfterPower
  <2>15. ~resumed => ~resumed'
    BY <2>1, StillUnsynced
  <2>16. ASSUME Unborn PROVE Unborn'
    <3>1. 1 \in Seg
      BY SMT, WalAssumption DEF Seg
    <3>2. HalfBorn(1)'
      BY <2>14, <2>16, <3>1 DEF Unborn
    <3>3. dir' \cup ddir' \subseteq {1}
      BY <2>3, <2>16 DEF Unborn
    <3> QED BY <2>1, <2>15, <2>16, <3>2, <3>3 DEF Unborn
  <2>17. ASSUME Born, ~resumed PROVE Born'
    <3>1. LogInv /\ OldInv /\ CurInv /\ NextInv
      BY <2>17 DEF Born
    <3>2. /\ segSeq \in Seg /\ segSeq + 1 # segSeq /\ \A s \in 1..(segSeq - 1) : s \in Seg /\ s # segSeq
      BY <2>2, <2>17, LastBorn
    <3>3. \A s \in 1..segSeq : s \in dir' /\ s \in ddir'
      BY <2>3, <3>1 DEF OldInv
    <3>4. \A s \in dir' \cup ddir' : s <= segSeq + 1
      BY <2>3, <3>1 DEF OldInv
    <3>5. segSeq \in 1..segSeq /\ \A s \in 1..(segSeq - 1) : s \in 1..segSeq
      BY SMT, <3>2, WalAssumption DEF Seg
    <3>6. ASSUME NEW s \in Seg, s \in dir', Synced(s) PROVE live'[s] = live[s] /\ sure'[s] = sure[s] /\ maybe'[s] = maybe[s]
      <4>1. live'[s] \in AfterPower(s) /\ maybe[s] = <<>> /\ sure[s] = live[s]
        BY <2>6, <3>6 DEF Synced
      <4>2. live'[s] = live[s] \/ live'[s] = sure[s]
        BY <2>2, <4>1, <1>AfterPowerFacts DEF Shapes
      <4> QED BY <2>6, <4>1, <4>2
    <3>7. \A s \in 1..(segSeq - 1) : live'[s] = live[s] /\ sure'[s] = sure[s] /\ maybe'[s] = maybe[s]
      BY <3>1, <3>2, <3>3, <3>5, <3>6 DEF OldInv
    <3>8. OldInv'
      BY <2>1, <2>2, <3>1, <3>3, <3>4, <3>7, OldFrame
    <3>9. live'[segSeq] \in AfterPower(segSeq) /\ sure'[segSeq] = live'[segSeq] /\ maybe'[segSeq] = <<>>
      BY <2>6, <3>2, <3>3, <3>5
    <3>10. CurInv'
      <4>1. PICK x : x = live'[segSeq]
        OBVIOUS
      <4>2. Good(x)
        BY <2>2, <2>17, <3>1, <3>2, <3>9, <4>1, <1>GoodAfterPower
      <4>3. live'[segSeq'] = x /\ sure'[segSeq'] = x /\ maybe'[segSeq'] = <<>> /\ x \o <<>> = x
        BY <2>1, <2>7, <3>2, <3>9, <4>1
      <4>4. Between(x, Base', tail')
        BY <2>1, <4>2 DEF Good
      <4> QED BY <2>1, <4>3, <4>4 DEF CurInv, Good
    <3>11. NextInv'
      <4>1. SUFFICES ASSUME segSeq + 1 \in dir' \cup ddir'
                     PROVE  HalfBorn(segSeq + 1)' /\ tail' = <<>> /\ Synced(segSeq)' /\ live'[segSeq'] = Base'
        BY <2>1 DEF NextInv
      <4>2. HalfBorn(segSeq + 1) /\ tail = <<>> /\ Synced(segSeq) /\ live[segSeq] = Base
        BY <2>3, <3>1, <4>1 DEF NextInv
      <4>3. segSeq + 1 \in Seg
        BY <2>10, <4>1 DEF TypeOK
      <4>4. HalfBorn(segSeq + 1)'
        BY <2>1, <2>14, <4>2, <4>3
      <4>5. live'[segSeq] = live[segSeq]
        BY <3>2, <3>3, <3>5, <3>6, <4>2
      <4> QED BY <2>1, <3>9, <4>2, <4>4, <4>5 DEF Synced
    <3> QED BY <2>1, <3>1, <3>8, <3>10, <3>11 DEF Born
  <2>18. DiskInv'
    BY <2>2, <2>13, <2>16, <2>17 DEF DiskInv
  <2> QED BY <2>1, <2>10, <2>11, <2>12, <2>18, ResumedNext DEF WalInv
\* A crash, of either kind.
<1>CrashStep. ASSUME WalInv, SureInv, Next, Crash
              PROVE  WalInv'
  <2> USE <1>CrashStep
  <2>1. CASE PowerLoss /\ exposed' = (exposed \/ resumed)
    BY <2>1, <1>PowerStep
  <2>2. CASE /\ maybe' = IF pc = "writing" /\ ~resumed
                         THEN [maybe EXCEPT ![segSeq] = SubSeq(live[segSeq], segLen + 1, Len(live[segSeq]))]
                         ELSE maybe
             /\ UNCHANGED <<dir, ddir, live, sure, exposed>>
    BY <2>2, <1>ExitStep
  <2> QED BY <2>1, <2>2 DEF Crash
\* Crashes keep SureInv.
<1>SureCrash. ASSUME WalInv, SureInv, Next, Crash
              PROVE  SureInv'
  <2> USE <1>SureCrash
  <2>1. ~Running'
    BY DEF Crash, Running
  <2>2. CASE PowerLoss
    <3>1. sure' = live'
      BY <2>2 DEF PowerLoss
    <3>2. \A s \in Seg : SureOf(s)'
      BY <3>1, ShortFiles DEF SureOf
    <3> QED BY <2>1, <3>2 DEF SureInv
  <2>3. CASE /\ maybe' = IF pc = "writing" /\ ~resumed
                         THEN [maybe EXCEPT ![segSeq] = SubSeq(live[segSeq], segLen + 1, Len(live[segSeq]))]
                         ELSE maybe
             /\ UNCHANGED <<dir, ddir, live, sure, exposed>>
    <3>1. live' = live /\ sure' = sure
      BY <2>3
    <3>2. CASE ~(pc = "writing" /\ ~resumed)
      BY <2>1, <2>3, <3>1, <3>2, SureSame DEF SureInv
    <3>3. CASE pc = "writing" /\ ~resumed
      <4>1. sure[segSeq] # <<>>
        BY <3>3 DEF SureInv, Running, OpenPC
      <4>2. segSeq \in Seg /\ maybe \in [Seg -> Seq(Block)]
        BY DEF WalInv, TypeOK
      <4>3. \A s \in Seg : s # segSeq => maybe'[s] = maybe[s]
        BY <2>3, <3>3, <4>2, OneSet
      <4>4. \A s \in Seg : SureOf(s)'
        BY <3>1, <4>1, <4>3 DEF SureInv, SureOf
      <4> QED BY <2>1, <4>4 DEF SureInv
    <3> QED BY <3>2, <3>3
  <2> QED BY <2>2, <2>3 DEF Crash
<1> QED BY <1>CrashStep, <1>SureCrash DEF Inv

=============================================================================
