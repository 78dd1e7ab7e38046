--------------------------- MODULE RecoveryProofs ---------------------------
(***************************************************************************)
(* Proofs about Recovery, for any number of segments, records, crashes and *)
(* damaged files.  The invariant speaks of every pair of names that is     *)
(* seen or that a power loss may leave, at every step of a checkpoint:     *)
(* each complete file has the log it needs, and the file the next          *)
(* checkpoint will leave as snap.prev needs nothing below prevBoundary.    *)
(***************************************************************************)
EXTENDS Recovery, TLAPS, WellFoundedInduction

-----------------------------------------------------------------------------
(* The invariant *)

\* Record i has commit index i; segments are filled in order; a tail goes on
\* where the log ends.
LogOK ==
  /\ Len(segOf) = Len(log)
  /\ \A i \in 1..Len(log) : log[i] = i
  /\ \A i \in 1..Len(log) : 1 <= segOf[i] /\ segOf[i] <= seg
  /\ \A i \in 1..Len(log) : \A j \in 1..i : segOf[j] <= segOf[i]
  /\ \A i \in 1..Len(tail) : tail[i] = Len(log) + i
  /\ 1 <= seg

\* The segment being appended to is there, unless nothing was ever written.
SegOK == seg \in present \cap dpresent \/ (pc = "down" /\ log = <<>> /\ tail = <<>>)

\* Every record newer than index k is in a segment on disk, seen and synced, ...
Covered(k) == \A i \in 1..Len(log) : i > k => segOf[i] \in present \cap dpresent

\* ... and in one at or above segment b.
From(k, b) == \A i \in 1..Len(log) : i > k => segOf[i] >= b

\* A complete and synced checkpoint that has its log, or none.
Whole(f) == f = NoFile \/ (f.kind = "ok" /\ f.index <= Len(log) /\ Covered(f.index))

NamesOK(n) ==
  /\ Whole(n.dat) \/ (n.dat = DamagedFile /\ damages > 0)
  /\ Whole(n.prev)
  /\ n.dat = NoFile /\ n.prev = NoFile => Covered(0)

\* The checkpoint that the next one leaves as snap.prev.
Kept == IF pc = "dirSync" \/ latestDamaged \/ names.dat = NoFile THEN names.prev ELSE names.dat

RunInv ==
  /\ snapIndex = Len(log)
  /\ prevBoundary <= seg
  /\ names.dat.kind = "damaged" => latestDamaged
  /\ From(Kept.index, prevBoundary)

\* What a checkpoint being written relies on.
CutInv ==
  /\ cut.index <= Len(log) /\ cut.boundary <= seg /\ prevBoundary <= cut.boundary
  /\ Covered(cut.index) /\ From(cut.index, cut.boundary)
  /\ pc = "sync" => tmp = File("unsynced", cut.index)
  /\ pc \in {"demote", "publish"} => tmp = File("ok", cut.index)
  /\ pc = "publish" => latestDamaged \/ names.dat = NoFile
  /\ pc = "dirSync" => names.dat = File("ok", cut.index)

\* No segment about to be removed is needed.
RemoveInv ==
  /\ onDisk = {names} /\ names.dat.kind = "ok"
  /\ seg \notin doomed
  /\ \A f \in {names.dat, names.prev} : Usable(f) =>
       \A i \in 1..Len(log) : i > f.index => segOf[i] \notin doomed

NamesInv == \A n \in onDisk \cup {names} : NamesOK(n)

RecoveryInv ==
  /\ TypeOK
  /\ LogOK
  /\ SegOK
  /\ NamesInv
  /\ RefusesOnlyLoneDamage
  /\ pc \in Running => RunInv
  /\ pc \in WritePC => CutInv
  /\ pc \in RemovePC => RemoveInv

-----------------------------------------------------------------------------
(* Replay *)

\* A set of naturals has a least element: what an induction over the records of
\* the log rests on.
LEMMA LeastElement ==
  ASSUME NEW T \in SUBSET Nat, T # {}
  PROVE  \E m \in T : \A k \in T : m <= k
<1> DEFINE R == {ss \in Nat \X Nat : ss[1] < ss[2]}
<1>1. IsWellFoundedOn(R, Nat)
  BY Zenon, NatLessThanWellFounded DEF OpToRel
<1> HIDE DEF R
<1>2. PICK m \in T : \A k \in T : ~(<<k, m>> \in R)
  BY Zenon, <1>1, WFMin
<1>3. \A k \in T : ~(k < m)
  <2> TAKE k \in T
  <2>1. <<k, m>> \notin R BY Zenon, <1>2
  <2> QED BY Zenon, <2>1 DEF R
<1> QED
  BY <1>3, <1>2

\* What replay has found after record i of a log that has every record newer
\* than the checkpoint.
Replayed(base, segs, i) ==
  IF i <= base THEN [last |-> base, first |-> 0, refused |-> FALSE]
  ELSE [last |-> i, first |-> segs[base + 1], refused |-> FALSE]

\* The step of replay over record i.
ReplayStep(a, base, recs, segs, i) ==
  IF segs[i] \notin present \/ a.refused \/ (recs[i] <= a.last /\ a.last = base) THEN a
  ELSE IF recs[i] # a.last + 1 THEN [a EXCEPT !.refused = TRUE]
  ELSE [last |-> recs[i], first |-> IF a.first = 0 THEN segs[i] ELSE a.first, refused |-> FALSE]

\* Each record is skipped, as covered by the checkpoint, or applied.
LEMMA ReplayStepFacts ==
  ASSUME NEW base \in Nat, NEW recs, NEW segs, NEW i \in Nat, i >= 1, recs[i] = i,
         i > base => segs[i] \in present, segs[base + 1] # 0
  PROVE  ReplayStep(Replayed(base, segs, i - 1), base, recs, segs, i) = Replayed(base, segs, i)
<1>1. CASE i <= base
  BY <1>1 DEF ReplayStep, Replayed
<1>2. CASE i = base + 1
  <2>1. i - 1 <= base /\ ~(i <= base) /\ i > base
    BY <1>2
  <2>2. Replayed(base, segs, i - 1) = [last |-> base, first |-> 0, refused |-> FALSE]
    BY Zenon, <2>1 DEF Replayed
  <2>3. Replayed(base, segs, i) = [last |-> i, first |-> segs[i], refused |-> FALSE]
    BY Zenon, <1>2, <2>1 DEF Replayed
  <2> DEFINE a == Replayed(base, segs, i - 1)
  <2>4. a.last = base /\ a.first = 0 /\ a.refused = FALSE
    BY <2>2
  <2> HIDE DEF a
  <2>5. ReplayStep(a, base, recs, segs, i) = [last |-> i, first |-> segs[i], refused |-> FALSE]
    BY Zenon, <1>2, <2>1, <2>4 DEF ReplayStep
  <2> QED BY Zenon, <2>3, <2>5 DEF a
<1>3. CASE i > base + 1
  <2>1. ~(i - 1 <= base) /\ ~(i <= base) /\ i > base /\ i - 1 + 1 = i /\ ~(i <= i - 1)
    BY <1>3
  <2>2. Replayed(base, segs, i - 1) = [last |-> i - 1, first |-> segs[base + 1], refused |-> FALSE]
    BY Zenon, <2>1 DEF Replayed
  <2>3. Replayed(base, segs, i) = [last |-> i, first |-> segs[base + 1], refused |-> FALSE]
    BY Zenon, <2>1 DEF Replayed
  <2> DEFINE a == Replayed(base, segs, i - 1)
  <2>4. a.last = i - 1 /\ a.first = segs[base + 1] /\ a.refused = FALSE
    BY <2>2
  <2> HIDE DEF a
  <2>5. ReplayStep(a, base, recs, segs, i) = [last |-> i, first |-> segs[base + 1], refused |-> FALSE]
    BY Zenon, <2>1, <2>4 DEF ReplayStep
  <2> QED BY Zenon, <2>3, <2>5 DEF a
<1>4. i <= base \/ i = base + 1 \/ i > base + 1
  OBVIOUS
<1> QED BY Zenon, <1>1, <1>2, <1>3, <1>4

\* Over such a log replay reaches the last record without a refusal, and notes
\* the segment of the first record that the checkpoint does not cover.
LEMMA ReplayFacts ==
  ASSUME NEW base \in Nat, NEW recs, NEW segs, Len(recs) \in Nat, base <= Len(recs),
         \A i \in 1..Len(recs) : recs[i] = i /\ segs[i] # 0,
         \A i \in 1..Len(recs) : i > base => segs[i] \in present
  PROVE  Replay(base, recs, segs) = Replayed(base, segs, Len(recs))
<1> DEFINE start == [last |-> base, first |-> 0, refused |-> FALSE]
           F(g) == [i \in 0..Len(recs) |->
                      IF i = 0 THEN start ELSE ReplayStep(g[i - 1], base, recs, segs, i)]
           h == [i \in 0..Len(recs) |-> Replayed(base, segs, i)]
<1>1. Replayed(base, segs, 0) = start
  BY DEF Replayed
<1>2. ASSUME NEW i \in 0..Len(recs), i # 0
      PROVE  /\ i - 1 \in 0..Len(recs)
             /\ ReplayStep(Replayed(base, segs, i - 1), base, recs, segs, i) = Replayed(base, segs, i)
  <2>1. i \in Nat /\ i >= 1 /\ i \in 1..Len(recs) /\ i - 1 \in 0..Len(recs)
    BY <1>2
  <2>2. CASE base < Len(recs)
    <3>1. base + 1 \in 1..Len(recs)
      BY <2>2
    <3> QED BY ZenonT(40), <2>1, <3>1, ReplayStepFacts
  <2>3. CASE ~(base < Len(recs))
    <3>1. i <= base /\ i - 1 <= base /\ recs[i] = i
      BY <2>1, <2>3
    <3> QED BY Zenon, <3>1, <2>1 DEF ReplayStep, Replayed
  <2> QED BY Zenon, <2>2, <2>3
<1> HIDE DEF start
<1>3. h = F(h)
  BY Zenon, <1>1, <1>2
<1>4. ASSUME NEW g, g = F(g) PROVE g = h
  <2> DEFINE T == {i \in 0..Len(recs) : g[i] # Replayed(base, segs, i)}
  <2>1. SUFFICES T = {}
    BY Zenon, <1>4
  <2>2. SUFFICES ASSUME T # {} PROVE FALSE
    BY Zenon
  <2>3. T \in SUBSET Nat
    OBVIOUS
  <2>4. PICK i \in T : \A j \in T : i <= j
    BY Zenon, <2>2, <2>3, LeastElement
  <2>5. i \in 0..Len(recs) /\ g[i] # Replayed(base, segs, i)
    BY Zenon, <2>4
  <2>6. i # 0
    BY Zenon, <1>1, <1>4, <2>5
  <2>7. ~(i <= i - 1)
    BY <2>5
  <2>8. i - 1 \in 0..Len(recs) /\ i - 1 \notin T
    BY Zenon, <1>2, <2>4, <2>5, <2>6, <2>7
  <2>9. g[i] = ReplayStep(g[i - 1], base, recs, segs, i)
    BY Zenon, <1>4, <2>5, <2>6
  <2> QED BY Zenon, <1>2, <2>5, <2>6, <2>8, <2>9
<1>5. (CHOOSE g : g = F(g)) = h
  BY Zenon, <1>3, <1>4
<1>6. h[Len(recs)] = Replayed(base, segs, Len(recs))
  OBVIOUS
<1> HIDE DEF h
<1> QED
  BY Zenon, <1>5, <1>6 DEF Replay, ReplayStep, start

-----------------------------------------------------------------------------
(* What a step leaves of the log and the files *)

\* Covered, From and NamesOK of a log and of segments that only grow.
FilesKept ==
  /\ \A k : Covered(k) => Covered(k)'
  /\ \A n \in Names : NamesOK(n) => NamesOK(n)'

\* The history of the log as it was, and every segment needed still there.
LEMMA SameLog ==
  ASSUME log' = log, segOf' = segOf, damages' = damages,
         present \cap dpresent \subseteq present' \cap dpresent'
  PROVE  FilesKept /\ \A k, b : From(k, b) => From(k, b)'
<1>1. \A k : Covered(k) => Covered(k)'
  BY Zenon DEF Covered
<1>2. \A f : Whole(f) => Whole(f)'
  BY Zenon, <1>1 DEF Whole, NoFile, File
<1>3. \A n : NamesOK(n) => NamesOK(n)'
  BY Zenon, <1>1, <1>2 DEF NamesOK, NoFile, DamagedFile, File
<1>4. \A k, b : From(k, b) => From(k, b)'
  BY Zenon DEF From
<1> QED BY Zenon, <1>1, <1>3, <1>4 DEF FilesKept

\* The elements of a sequence.
LEMMA ElementType ==
  ASSUME NEW S, NEW s \in Seq(S), NEW i \in 1..Len(s) PROVE s[i] \in S
  OBVIOUS

\* Two sequences of numbers one after the other.
LEMMA ConcatFacts ==
  ASSUME NEW s \in Seq(Nat), NEW u \in Seq(Nat)
  PROVE  /\ s \o u \in Seq(Nat) /\ Len(s \o u) = Len(s) + Len(u)
         /\ \A i \in 1..Len(s) : (s \o u)[i] = s[i]
         /\ \A i \in 1..Len(u) : (s \o u)[Len(s) + i] = u[i]
  OBVIOUS

\* An index into two sequences one after the other is one into either.
LEMMA TwoParts ==
  ASSUME NEW m \in Nat, NEW n \in Nat, NEW i \in 1..(m + n)
  PROVE  i \in 1..m \/ \E j \in 1..n : i = m + j
<1>1. CASE i <= m BY <1>1
<1>2. CASE i > m
  <2>1. i - m \in 1..n /\ i = m + (i - m) BY <1>2
  <2> QED BY Zenon, <2>1
<1> QED BY <1>1, <1>2

\* The first n records of the tail join the log: those found by open, or all of
\* them when the append succeeds.
LEMMA LogGrows ==
  ASSUME TypeOK, LogOK, NEW n \in 0..Len(tail),
         log' = log \o SubSeq(tail, 1, n), segOf' = segOf \o [i \in 1..n |-> seg],
         n > 0 => seg \in present \cap dpresent, seg' \in {seg, seg + 1}, tail' = <<>>,
         damages' = damages, present \cap dpresent \subseteq present' \cap dpresent'
  PROVE  /\ log' \in Seq(Nat) /\ segOf' \in Seq(Nat) /\ seg' \in Nat
         /\ Len(log') >= Len(log) /\ LogOK' /\ FilesKept
         /\ \A i \in 1..Len(log') : i > Len(log) => segOf'[i] = seg /\ seg \in present \cap dpresent
         /\ \A i \in 1..Len(log) : i \in 1..Len(log') /\ segOf'[i] = segOf[i]
<1> DEFINE new == SubSeq(tail, 1, n)
           where == [i \in 1..n |-> seg]
<1>1. /\ log \in Seq(Nat) /\ segOf \in Seq(Nat) /\ seg \in Nat /\ tail \in Seq(Nat)
      /\ Len(log) \in Nat /\ Len(segOf) = Len(log) /\ Len(tail) \in Nat /\ n \in Nat /\ damages \in Nat
  BY DEF TypeOK, LogTypeOK, LogOK
<1>2. /\ new \in Seq(Nat) /\ Len(new) = n /\ \A i \in 1..n : new[i] = tail[i] /\ i \in 1..Len(tail)
  BY SMTT(30), SMTT(60), <1>1
<1>3. where \in Seq(Nat) /\ Len(where) = n /\ \A i \in 1..n : where[i] = seg
  BY <1>1
<1> HIDE DEF new, where
<1>4. /\ log' \in Seq(Nat) /\ Len(log') = Len(log) + n
      /\ \A i \in 1..Len(log) : log'[i] = log[i]
      /\ \A i \in 1..n : log'[Len(log) + i] = new[i]
  <2>1. /\ log \o new \in Seq(Nat) /\ Len(log \o new) = Len(log) + Len(new)
        /\ \A i \in 1..Len(log) : (log \o new)[i] = log[i]
        /\ \A i \in 1..Len(new) : (log \o new)[Len(log) + i] = new[i]
    BY Zenon, <1>1, <1>2, ConcatFacts
  <2>2. log' = log \o new
    BY Zenon DEF new
  <2> QED BY Zenon, <1>2, <2>1, <2>2
<1>5. /\ segOf' \in Seq(Nat) /\ Len(segOf') = Len(log) + n
      /\ \A i \in 1..Len(log) : segOf'[i] = segOf[i]
      /\ \A i \in 1..n : segOf'[Len(log) + i] = seg
  <2>1. /\ segOf \o where \in Seq(Nat) /\ Len(segOf \o where) = Len(segOf) + Len(where)
        /\ \A i \in 1..Len(segOf) : (segOf \o where)[i] = segOf[i]
        /\ \A i \in 1..Len(where) : (segOf \o where)[Len(segOf) + i] = where[i]
    BY Zenon, <1>1, <1>3, ConcatFacts
  <2>2. segOf' = segOf \o where
    BY Zenon DEF where
  <2>3. \A i \in 1..n : segOf'[Len(log) + i] = where[i]
    BY Zenon, <1>1, <1>3, <2>1, <2>2
  <2> QED BY Zenon, <1>1, <1>3, <2>1, <2>2, <2>3
<1>6. \A i \in 1..Len(log') : i \in 1..Len(log) \/ \E j \in 1..n : i = Len(log) + j
  <2> TAKE i \in 1..Len(log')
  <2>1. i \in 1..(Len(log) + n) /\ Len(log) \in Nat /\ n \in Nat
    BY Zenon, <1>1, <1>4
  <2> QED BY Zenon, <2>1, TwoParts
<1>7. /\ \A i \in 1..Len(log) : i \in 1..Len(log')
      /\ \A j \in 1..n : Len(log) + j \in 1..Len(log') /\ Len(log) + j > Len(log)
      /\ Len(log') >= Len(log) /\ \A i \in 1..Len(log) : ~(i > Len(log))
  BY SMTT(30), SMTT(60), <1>1, <1>4
<1>8. \A i \in 1..Len(log') : i > Len(log) => segOf'[i] = seg /\ seg \in present \cap dpresent
  <2> SUFFICES ASSUME NEW i \in 1..Len(log'), i > Len(log)
               PROVE  segOf'[i] = seg /\ seg \in present \cap dpresent
    BY Zenon
  <2>1. PICK j \in 1..n : i = Len(log) + j
    BY Zenon, <1>6, <1>7
  <2>2. n > 0
    BY <1>1, <2>1
  <2> QED BY Zenon, <1>5, <2>1, <2>2
<1>9. LogOK'
  <2>1. \A i \in 1..Len(log') : log'[i] = i
    <3> TAKE i \in 1..Len(log')
    <3>1. CASE i \in 1..Len(log)
      BY Zenon, <3>1, <1>4 DEF LogOK
    <3>2. ASSUME NEW j \in 1..n, i = Len(log) + j PROVE log'[i] = i
      <4>1. log'[Len(log) + j] = tail[j] /\ tail[j] = Len(log) + j
        BY Zenon, <1>2, <1>4 DEF LogOK
      <4> QED BY Zenon, <3>2, <4>1
    <3> QED BY Zenon, <1>6, <3>1, <3>2
  <2>2. \A i \in 1..Len(log') : segOf'[i] \in Nat /\ 1 <= segOf'[i] /\ segOf'[i] <= seg
    <3>1. \A i \in 1..Len(log) : segOf[i] \in Nat
      BY Zenon, <1>1, ElementType
    <3>2. seg <= seg
      BY <1>1
    <3> QED BY Zenon, <1>1, <1>5, <1>6, <3>1, <3>2 DEF LogOK
  <2>3. ASSUME NEW i \in 1..Len(log'), NEW j \in 1..i PROVE segOf'[j] <= segOf'[i]
    <3>1. CASE i \in 1..Len(log)
      <4>1. j \in 1..Len(log)
        BY <1>1, <3>1
      <4> QED BY Zenon, <1>5, <3>1, <4>1 DEF LogOK
    <3>2. CASE i \notin 1..Len(log)
      <4>1. segOf'[i] = seg
        BY Zenon, <1>5, <1>6, <3>2
      <4>2. j \in 1..Len(log')
        BY <1>1, <1>4
      <4> QED BY Zenon, <2>2, <4>1, <4>2
    <3> QED BY Zenon, <3>1, <3>2
  <2>4. seg <= seg' /\ 1 <= seg' /\ seg' \in Nat
    BY <1>1 DEF LogOK
  <2>5. \A i \in 1..Len(log') : segOf'[i] <= seg'
    <3> TAKE i \in 1..Len(log')
    <3>1. segOf'[i] \in Nat /\ segOf'[i] <= seg
      BY Zenon, <2>2
    <3> QED BY SMTT(30), SMTT(60), <1>1, <3>1, <2>4
  <2>6. Len(tail') = 0 /\ 1..0 = {}
    OBVIOUS
  <2> QED BY ZenonT(40), <1>4, <1>5, <2>1, <2>2, <2>3, <2>4, <2>5, <2>6 DEF LogOK
<1>10. \A k : Covered(k) => Covered(k)'
  <2> SUFFICES ASSUME NEW k, Covered(k), NEW i \in 1..Len(log'), i > k
               PROVE  segOf'[i] \in present' \cap dpresent'
    BY Zenon DEF Covered
  <2>1. CASE i \in 1..Len(log)
    BY Zenon, <1>5, <2>1 DEF Covered
  <2>2. CASE i \notin 1..Len(log)
    <3>1. i > Len(log)
      BY Zenon, <1>6, <1>7, <2>2
    <3> QED BY Zenon, <1>8, <3>1
  <2> QED BY Zenon, <2>1, <2>2
<1>11. ASSUME NEW f \in FileType, Whole(f) PROVE Whole(f)'
  <2>1. CASE f = NoFile
    BY Zenon, <2>1 DEF Whole, NoFile, File
  <2>2. CASE f # NoFile
    <3>1. f.kind = "ok" /\ f.index <= Len(log) /\ Covered(f.index)
      BY Zenon, <1>11, <2>2 DEF Whole
    <3>2. f.index <= Len(log')
      <4>1. f.index \in Nat
        BY Zenon DEF FileType
      <4> QED BY <1>1, <1>4, <3>1, <4>1
    <3> QED BY Zenon, <1>10, <3>1, <3>2 DEF Whole
  <2> QED BY Zenon, <2>1, <2>2
<1>12. \A m \in Names : NamesOK(m) => NamesOK(m)'
  <2> TAKE m \in Names
  <2>1. m.dat \in FileType /\ m.prev \in FileType
    BY Zenon DEF Names
  <2> QED BY Zenon, <2>1, <1>10, <1>11 DEF NamesOK, NoFile, DamagedFile, File
<1>13. seg' \in Nat
  BY <1>1
<1> QED BY Zenon, <1>4, <1>5, <1>7, <1>8, <1>9, <1>10, <1>12, <1>13 DEF FilesKept

-----------------------------------------------------------------------------
(* The writer *)

\* A state of the checkpoint is one of these.
LEMMA PCs ==
  /\ WritePC = {"tmp", "sync", "demote", "publish", "dirSync"}
  /\ RemovePC = {"remove", "removeSync"}
  /\ Running = {"tmp", "sync", "demote", "publish", "dirSync", "remove", "removeSync", "idle"}
  BY DEF WritePC, RemovePC, Running

\* The types of the parts.
LEMMA TypeFacts ==
  ASSUME TypeOK
  PROVE  /\ log \in Seq(Nat) /\ Len(log) \in Nat /\ segOf \in Seq(Nat) /\ seg \in Nat
         /\ tail \in Seq(Nat) /\ Len(tail) \in Nat
         /\ \A i \in 1..Len(log) : i \in Nat
         /\ names \in Names /\ names.dat \in FileType /\ names.prev \in FileType
         /\ names.dat.index \in Nat /\ names.prev.index \in Nat
         /\ cut.index \in Nat /\ cut.boundary \in Nat
         /\ snapIndex \in Nat /\ prevBoundary \in Nat /\ damages \in Nat
<1>1. /\ log \in Seq(Nat) /\ segOf \in Seq(Nat) /\ tail \in Seq(Nat) /\ seg \in Nat /\ names \in Names
      /\ cut \in [index : Nat, boundary : Nat]
      /\ snapIndex \in Nat /\ prevBoundary \in Nat /\ damages \in Nat
  BY Zenon DEF TypeOK, LogTypeOK
<1>2. Len(log) \in Nat
  BY <1>1
<1>3. Len(tail) \in Nat
  BY <1>1
<1>4. \A i \in 1..Len(log) : i \in Nat
  BY <1>2
<1>5. names.dat \in FileType /\ names.prev \in FileType
  BY Zenon, <1>1 DEF Names
<1>6. names.dat.index \in Nat /\ names.prev.index \in Nat
  BY Zenon, <1>5 DEF FileType
<1>7. cut.index \in Nat /\ cut.boundary \in Nat
  BY Zenon, <1>1
<1> QED BY Zenon, <1>1, <1>2, <1>3, <1>4, <1>5, <1>6, <1>7

\* An empty directory.
LEMMA RecoveryInit == Init => RecoveryInv
<1> SUFFICES ASSUME Init PROVE RecoveryInv
  OBVIOUS
<1>1. /\ log = <<>> /\ segOf = <<>> /\ seg = 1 /\ tail = <<>> /\ poisoned = FALSE /\ pc = "down"
      /\ names = [dat |-> NoFile, prev |-> NoFile] /\ onDisk = {names}
  BY DEF Init, LogInit
<1>2. TypeOK
  <2>1. LogTypeOK(Nat)
    <3>1. \A S : <<>> \in Seq(S)
      OBVIOUS
    <3>2. 1 \in Nat
      OBVIOUS
    <3> QED BY Zenon, <1>1, <3>1, <3>2 DEF LogTypeOK
  <2>2. NoFile \in FileType
    BY DEF FileType, NoFile, File
  <2>3. names \in Names /\ onDisk \subseteq Names /\ tmp \in FileType
    <3>1. [dat |-> NoFile, prev |-> NoFile] \in Names
      BY <2>2 DEF Names
    <3> QED BY Zenon, <1>1, <2>2, <3>1 DEF Init
  <2>4. cut \in [index : Nat, boundary : Nat]
    BY DEF Init
  <2>5. /\ present \subseteq Nat /\ dpresent \subseteq Nat /\ doomed \subseteq Nat /\ snapIndex \in Nat
        /\ prevBoundary \in Nat /\ latestDamaged \in BOOLEAN /\ crashes \in Nat /\ damages \in Nat
    BY Zenon DEF Init
  <2> QED BY Zenon, <1>1, <2>1, <2>3, <2>4, <2>5 DEF TypeOK
<1>3. LogOK /\ SegOK
  BY <1>1 DEF LogOK, SegOK
<1>4. Covered(0)
  BY <1>1 DEF Covered
<1>5. NamesInv
  <2>1. names.dat = NoFile /\ names.prev = NoFile
    BY <1>1
  <2> QED BY Zenon, <1>1, <1>4, <2>1 DEF NamesInv, NamesOK, Whole
<1>6. pc \notin Running /\ pc \notin WritePC /\ pc \notin RemovePC /\ pc # "refused"
  BY <1>1, PCs
<1> QED BY Zenon, <1>2, <1>3, <1>5, <1>6 DEF RecoveryInv, RefusesOnlyLoneDamage

\* The names and the directory as they were, of a log and of segments that only
\* grow.
LEMMA SameNames ==
  ASSUME TypeOK, NamesInv, names' = names, onDisk' = onDisk, FilesKept
  PROVE  NamesInv'
<1>1. \A n \in onDisk \cup {names} : n \in Names
  BY Zenon DEF TypeOK
<1> QED BY Zenon, <1>1 DEF NamesInv, FilesKept

\* A group starts: the segments may grow by one.
LEMMA WriterBeginsKeeps == ASSUME RecoveryInv, WriterBegins PROVE RecoveryInv'
<1>1. /\ TypeOK /\ LogOK /\ SegOK /\ NamesInv /\ pc \in Running \ RemovePC
      /\ RunInv /\ (pc \in WritePC => CutInv)
  BY Zenon DEF RecoveryInv, WriterBegins
<1>2. /\ log' = log /\ segOf' = segOf /\ seg' \in {seg, seg + 1} /\ poisoned' = poisoned
      /\ present' = present \cup {seg'} /\ dpresent' = dpresent \cup {seg'}
      /\ names' = names /\ onDisk' = onDisk /\ tmp' = tmp /\ pc' = pc /\ snapIndex' = snapIndex
      /\ cut' = cut /\ doomed' = doomed /\ prevBoundary' = prevBoundary
      /\ latestDamaged' = latestDamaged /\ crashes' = crashes /\ damages' = damages
  BY Zenon DEF WriterBegins, AppendBegin, SegmentsGrow, nameVars, ckptState
<1>3. PICK n \in 1..2 : tail' = [i \in 1..n |-> Len(log) + i]
  BY Zenon DEF WriterBegins, AppendBegin
<1>4. /\ log \in Seq(Nat) /\ Len(log) \in Nat /\ seg \in Nat /\ cut.boundary \in Nat
      /\ prevBoundary \in Nat
  BY Zenon, <1>1, TypeFacts
<1>5. /\ tail' \in Seq(Nat) /\ Len(tail') = n /\ \A i \in 1..n : tail'[i] = Len(log) + i
  BY <1>3, <1>4
<1>6. seg' \in Nat /\ seg <= seg' /\ (\A x \in Nat : x <= seg => x <= seg')
  BY <1>2, <1>4
<1>7. TypeOK'
  BY Zenon, <1>1, <1>2, <1>5, <1>6 DEF TypeOK, LogTypeOK
<1>8. LogOK'
  <2>1. \A i \in 1..Len(log) : segOf[i] \in Nat
    BY Zenon, <1>1, ElementType DEF TypeOK, LogTypeOK, LogOK
  <2> QED BY Zenon, <1>1, <1>2, <1>5, <1>6, <2>1 DEF LogOK
<1>9. SegOK'
  BY Zenon, <1>2 DEF SegOK
<1>10. FilesKept /\ \A k, b : From(k, b) => From(k, b)'
  BY Zenon, <1>2, SameLog
<1>11. NamesInv'
  BY Zenon, <1>1, <1>2, <1>10, SameNames
<1>12. RefusesOnlyLoneDamage'
  BY Zenon, <1>2 DEF RecoveryInv, RefusesOnlyLoneDamage, NoFile, File
<1>13. RunInv'
  BY Zenon, <1>1, <1>2, <1>4, <1>6, <1>10 DEF RunInv, Kept, NoFile, File
<1>14. pc' \in WritePC => CutInv'
  BY Zenon, <1>1, <1>2, <1>4, <1>6, <1>10 DEF CutInv, FilesKept, NoFile, File
<1>15. pc' \notin RemovePC
  BY Zenon, <1>1, <1>2
<1> QED BY Zenon, <1>7, <1>8, <1>9, <1>11, <1>12, <1>13, <1>14, <1>15 DEF RecoveryInv, WritePC, RemovePC, Running

\* A group becomes durable and is published, or fails.
LEMMA WriterEndsKeeps == ASSUME RecoveryInv, WriterEnds PROVE RecoveryInv'
<1>1. /\ TypeOK /\ LogOK /\ SegOK /\ NamesInv /\ RunInv /\ pc \in Running
      /\ (pc \in WritePC => CutInv) /\ (pc \in RemovePC => RemoveInv)
  BY Zenon DEF RecoveryInv, WriterEnds
<1>2. /\ present' = present /\ dpresent' = dpresent
      /\ names' = names /\ onDisk' = onDisk /\ tmp' = tmp /\ pc' = pc
      /\ cut' = cut /\ doomed' = doomed /\ prevBoundary' = prevBoundary
      /\ latestDamaged' = latestDamaged /\ crashes' = crashes /\ damages' = damages
  BY Zenon DEF WriterEnds, segVars, nameVars, ckptState
<1>3. /\ log \in Seq(Nat) /\ Len(log) \in Nat /\ seg \in Nat /\ tail \in Seq(Nat) /\ Len(tail) \in Nat
      /\ cut.index \in Nat /\ cut.boundary \in Nat /\ prevBoundary \in Nat
      /\ names.dat.index \in Nat /\ names.prev.index \in Nat
  BY Zenon, <1>1, TypeFacts
<1>4. seg \in present \cap dpresent
  BY Zenon, <1>1, PCs DEF SegOK
<1>5. RefusesOnlyLoneDamage'
  BY Zenon, <1>2 DEF RecoveryInv, RefusesOnlyLoneDamage, NoFile, File
<1>6. CASE AppendOk /\ snapIndex' = Len(log')
  <2>1. /\ log' = log \o tail /\ segOf' = segOf \o [i \in 1..Len(tail) |-> seg] /\ seg' = seg
        /\ tail' = <<>> /\ poisoned' = poisoned
    BY Zenon, <1>6 DEF AppendOk
  <2>2. snapIndex' = Len(log')
    BY Zenon, <1>6
  <2>3. Len(tail) \in 0..Len(tail) /\ SubSeq(tail, 1, Len(tail)) = tail
    BY <1>3
  <2>4. /\ log' \in Seq(Nat) /\ segOf' \in Seq(Nat) /\ seg' \in Nat
        /\ Len(log') >= Len(log) /\ LogOK' /\ FilesKept
        /\ \A i \in 1..Len(log') : i > Len(log) => segOf'[i] = seg
        /\ \A i \in 1..Len(log) : i \in 1..Len(log') /\ segOf'[i] = segOf[i]
    BY Zenon, <1>1, <1>2, <1>4, <2>1, <2>3, LogGrows
  <2>5. Len(log') \in Nat /\ \A i \in 1..Len(log') : i \in 1..Len(log) \/ i > Len(log)
    BY <1>3, <2>4
  <2>6. TypeOK'
    <3>1. \A S : <<>> \in Seq(S)
      OBVIOUS
    <3> QED BY Zenon, <1>1, <1>2, <2>1, <2>2, <2>4, <2>5, <3>1 DEF TypeOK, LogTypeOK
  <2>7. \A k, b : From(k, b) /\ seg >= b => From(k, b)'
    BY Zenon, <2>4, <2>5 DEF From
  <2>8. RunInv'
    <3>1. seg >= prevBoundary
      BY <1>1, <1>3 DEF RunInv
    <3> QED BY Zenon, <1>1, <1>2, <2>1, <2>2, <2>7, <3>1 DEF RunInv, Kept, NoFile, File
  <2>9. ASSUME pc' \in WritePC PROVE CutInv'
    <3>1. CutInv
      BY Zenon, <1>1, <1>2, <2>9
    <3>2. seg >= cut.boundary /\ cut.index <= Len(log')
      BY <1>3, <2>4, <2>5, <3>1 DEF CutInv
    <3> QED BY Zenon, <3>1, <1>2, <2>1, <2>4, <2>7, <3>2 DEF CutInv, FilesKept, NoFile, File
  <2>10. ASSUME pc' \in RemovePC PROVE RemoveInv'
    <3>1. RemoveInv
      BY Zenon, <1>1, <1>2, <2>10
    <3> QED BY Zenon, <3>1, <1>2, <2>1, <2>4, <2>5 DEF RemoveInv, Usable
  <2>11. SegOK'
    BY Zenon, <1>2, <1>4, <2>1 DEF SegOK
  <2>12. NamesInv'
    BY Zenon, <1>1, <1>2, <2>4, SameNames
  <2> QED BY Zenon, <1>5, <2>4, <2>6, <2>8, <2>9, <2>10, <2>11, <2>12 DEF RecoveryInv, WritePC, RemovePC, Running
<1>7. CASE (AppendRolledBack \/ AppendPoisoned) /\ UNCHANGED snapIndex
  <2>1. /\ log' = log /\ segOf' = segOf /\ seg' = seg /\ tail' \in {tail, <<>>} /\ poisoned' \in BOOLEAN
        /\ snapIndex' = snapIndex
    BY Zenon, <1>1, <1>7 DEF AppendRolledBack, AppendPoisoned, TypeOK, LogTypeOK
  <2>2. tail' \in Seq(Nat)
    <3>1. \A S : <<>> \in Seq(S)
      OBVIOUS
    <3> QED BY Zenon, <1>3, <2>1, <3>1
  <2>3. TypeOK'
    BY Zenon, <1>1, <1>2, <2>1, <2>2 DEF TypeOK, LogTypeOK
  <2>4. LogOK'
    <3>1. Len(<<>>) = 0 /\ 1..0 = {}
      OBVIOUS
    <3> QED BY Zenon, <1>1, <2>1, <3>1 DEF LogOK
  <2>5. SegOK'
    BY Zenon, <1>2, <1>4, <2>1 DEF SegOK
  <2>6. FilesKept /\ \A k, b : From(k, b) => From(k, b)'
    BY Zenon, <1>2, <2>1, SameLog
  <2>7. NamesInv'
    BY Zenon, <1>1, <1>2, <2>6, SameNames
  <2>8. RunInv'
    BY Zenon, <1>1, <1>2, <2>1, <2>6 DEF RunInv, Kept, NoFile, File
  <2>9. pc' \in WritePC => CutInv'
    BY Zenon, <1>1, <1>2, <2>1, <2>6 DEF CutInv, FilesKept, NoFile, File
  <2>10. pc' \in RemovePC => RemoveInv'
    BY Zenon, <1>1, <1>2, <2>1 DEF RemoveInv, Usable
  <2> QED BY Zenon, <1>5, <2>3, <2>4, <2>5, <2>7, <2>8, <2>9, <2>10 DEF RecoveryInv, WritePC, RemovePC, Running
<1> QED BY Zenon, <1>6, <1>7 DEF WriterEnds

-----------------------------------------------------------------------------
(* The checkpoint *)

\* A step that leaves the log, the names and the segments alone, or adds
\* segments.
LEMMA Untouched ==
  ASSUME RecoveryInv, log' = log, segOf' = segOf, tail' = tail, seg' \in {seg, seg + 1},
         names' = names, onDisk' = onDisk, damages' = damages,
         present \cap dpresent \subseteq present' \cap dpresent',
         seg' # seg => seg' \in present' \cap dpresent', pc' \in Running, pc \in Running
  PROVE  /\ LogOK' /\ SegOK' /\ NamesInv' /\ RefusesOnlyLoneDamage' /\ FilesKept
         /\ \A k, b : From(k, b) => From(k, b)'
         /\ seg' \in Nat /\ seg <= seg' /\ \A x \in Nat : x <= seg => x <= seg'
<1>1. TypeOK /\ LogOK /\ SegOK /\ NamesInv
  BY Zenon DEF RecoveryInv
<1>2. log \in Seq(Nat) /\ Len(log) \in Nat /\ seg \in Nat /\ segOf \in Seq(Nat)
  BY Zenon, <1>1, TypeFacts
<1>3. seg' \in Nat /\ seg <= seg' /\ (\A x \in Nat : x <= seg => x <= seg')
  BY <1>2
<1>4. LogOK'
  <2>1. \A i \in 1..Len(log) : segOf[i] \in Nat
    BY Zenon, <1>1, <1>2, ElementType DEF LogOK
  <2>2. 1 \in Nat
    OBVIOUS
  <2> QED BY Zenon, <1>1, <1>3, <2>1, <2>2 DEF LogOK
<1>5. SegOK'
  BY Zenon, <1>1, PCs DEF SegOK
<1>6. FilesKept /\ \A k, b : From(k, b) => From(k, b)'
  BY Zenon, SameLog
<1>7. NamesInv'
  BY Zenon, <1>1, <1>6, SameNames
<1>8. RefusesOnlyLoneDamage'
  BY Zenon, PCs DEF RefusesOnlyLoneDamage
<1> QED BY Zenon, <1>3, <1>4, <1>5, <1>6, <1>7, <1>8

\* The exclusive instant: nothing is newer than the snapshot, and what comes is
\* written to the fresh segment.
LEMMA CheckpointCutKeeps == ASSUME RecoveryInv, CheckpointCut PROVE RecoveryInv'
<1>1. TypeOK /\ LogOK /\ RunInv /\ pc = "idle"
  BY Zenon, PCs DEF RecoveryInv, CheckpointCut
<1>2. /\ log' = log /\ segOf' = segOf /\ tail' = tail /\ seg' = seg + 1 /\ poisoned' = poisoned
      /\ present' = present \cup {seg'} /\ dpresent' = dpresent \cup {seg'}
      /\ names' = names /\ onDisk' = onDisk /\ tmp' = tmp /\ pc' = "tmp" /\ snapIndex' = snapIndex
      /\ cut' = [index |-> snapIndex, boundary |-> seg'] /\ doomed' = doomed
      /\ prevBoundary' = prevBoundary /\ latestDamaged' = latestDamaged
      /\ crashes' = crashes /\ damages' = damages
  BY Zenon DEF CheckpointCut, RotateOk, SegmentsGrow, nameVars, ckptState
<1>3. /\ Len(log) \in Nat /\ seg \in Nat /\ snapIndex \in Nat /\ prevBoundary \in Nat
      /\ \A i \in 1..Len(log) : i \in Nat
  BY Zenon, <1>1, TypeFacts
<1>4. pc' \in Running /\ pc \in Running /\ pc' \notin RemovePC
  BY Zenon, <1>1, <1>2, PCs
<1>5. /\ LogOK' /\ SegOK' /\ NamesInv' /\ RefusesOnlyLoneDamage' /\ FilesKept
      /\ (\A k, b : From(k, b) => From(k, b)')
      /\ seg' \in Nat /\ seg <= seg' /\ (\A x \in Nat : x <= seg => x <= seg')
  BY Zenon, <1>2, <1>4, Untouched
<1>6. /\ cut' \in [index : Nat, boundary : Nat] /\ cut'.index = Len(log) /\ cut'.boundary = seg'
  BY <1>1, <1>2, <1>3, <1>5 DEF RunInv
<1>7. TypeOK'
  BY Zenon, <1>1, <1>2, <1>4, <1>5, <1>6 DEF TypeOK, LogTypeOK
<1>8. RunInv'
  BY Zenon, <1>1, <1>2, <1>3, <1>5 DEF RunInv, Kept, NoFile, File
<1>9. CutInv'
  <2>1. Len(log) <= Len(log) /\ seg' <= seg' /\ \A i \in 1..Len(log) : ~(i > Len(log))
    BY <1>3, <1>5
  <2>2. prevBoundary <= seg'
    BY Zenon, <1>1, <1>3, <1>5 DEF RunInv
  <2>3. Covered(cut.index)' /\ From(cut.index, cut.boundary)'
    BY Zenon, <1>2, <1>6, <2>1 DEF Covered, From
  <2> QED BY Zenon, <1>2, <1>6, <2>1, <2>2, <2>3 DEF CutInv
<1> QED BY Zenon, <1>4, <1>5, <1>7, <1>8, <1>9 DEF RecoveryInv, WritePC, RemovePC, Running

\* A rotation that fails leaves everything but the log's own flag.
LEMMA CheckpointRefusedKeeps == ASSUME RecoveryInv, CheckpointRefused PROVE RecoveryInv'
<1>1. TypeOK /\ LogOK /\ RunInv /\ pc = "idle"
  BY Zenon, PCs DEF RecoveryInv, CheckpointRefused
<1>2. /\ log' = log /\ segOf' = segOf /\ tail' = tail /\ seg' = seg /\ poisoned' \in BOOLEAN
      /\ present' = present /\ dpresent' = dpresent
      /\ names' = names /\ onDisk' = onDisk /\ tmp' = tmp /\ pc' = pc /\ snapIndex' = snapIndex
      /\ cut' = cut /\ doomed' = doomed
      /\ prevBoundary' = prevBoundary /\ latestDamaged' = latestDamaged
      /\ crashes' = crashes /\ damages' = damages
  BY Zenon DEF CheckpointRefused, RotateFailed, segVars, nameVars, ckptState
<1>4. pc' \in Running /\ pc \in Running /\ pc' \notin RemovePC /\ pc' \notin WritePC
  BY Zenon, <1>1, <1>2, PCs
<1>5. /\ LogOK' /\ SegOK' /\ NamesInv' /\ RefusesOnlyLoneDamage' /\ FilesKept
      /\ (\A k, b : From(k, b) => From(k, b)')
  BY Zenon, <1>2, <1>4, Untouched
<1>7. TypeOK'
  BY Zenon, <1>1, <1>2 DEF TypeOK, LogTypeOK
<1>8. RunInv'
  BY Zenon, <1>1, <1>2, <1>5 DEF RunInv, Kept, NoFile, File
<1> QED BY Zenon, <1>4, <1>5, <1>7, <1>8 DEF RecoveryInv, WritePC, RemovePC, Running

\* The kinds of a checkpoint file.
LEMMA FileFacts ==
  /\ \A i \in Nat : /\ File("ok", i) \in FileType
                    /\ File("ok", i).kind = "ok" /\ File("ok", i).index = i /\ File("ok", i) # NoFile
  /\ \A i \in Nat : /\ File("unsynced", i) \in FileType
                    /\ File("unsynced", i).kind = "unsynced" /\ File("unsynced", i).index = i
  /\ NoFile \in FileType /\ NoFile.kind = "none" /\ NoFile.index = 0
  /\ DamagedFile \in FileType /\ DamagedFile.kind = "damaged" /\ DamagedFile.index = 0
  BY DEF File, FileType, NoFile, DamagedFile

\* The body is written, then synced.
LEMMA WriteKeeps == ASSUME RecoveryInv, WriteBody \/ SyncTmp PROVE RecoveryInv'
<1>1. /\ TypeOK /\ LogOK /\ RunInv /\ CutInv
      /\ pc \in {"tmp", "sync"} /\ pc' = IF pc = "tmp" THEN "sync" ELSE "demote"
  BY Zenon, PCs DEF RecoveryInv, WriteBody, SyncTmp, WriteStep
<1>2. /\ log' = log /\ segOf' = segOf /\ tail' = tail /\ seg' = seg /\ poisoned' = poisoned
      /\ present' = present /\ dpresent' = dpresent
      /\ names' = names /\ onDisk' = onDisk /\ snapIndex' = snapIndex
      /\ cut' = cut /\ doomed' = doomed
      /\ prevBoundary' = prevBoundary /\ latestDamaged' = latestDamaged
      /\ crashes' = crashes /\ damages' = damages
  BY Zenon DEF WriteBody, SyncTmp, WriteStep, logVars, segVars, nameVars, ckptState
<1>3. cut.index \in Nat
  BY Zenon, <1>1, TypeFacts
<1>4. tmp' = IF pc = "tmp" THEN File("unsynced", cut.index) ELSE File("ok", cut.index)
  <2>1. CASE WriteBody
    BY Zenon, <2>1 DEF WriteBody, WriteStep
  <2>2. CASE SyncTmp
    <3>1. pc = "sync" /\ tmp' = File("ok", tmp.index) /\ "sync" # "tmp"
      BY Zenon, <2>2 DEF SyncTmp, WriteStep
    <3>2. tmp.index = cut.index
      BY ZenonT(40), <1>1, <1>3, <3>1, FileFacts DEF CutInv
    <3> QED BY Zenon, <3>1, <3>2
  <2> QED BY Zenon, <2>1, <2>2
<1>5. tmp' \in FileType
  BY Zenon, <1>3, <1>4, FileFacts
<1>6. /\ pc' \in Running /\ pc \in Running /\ pc' \notin RemovePC /\ pc' \in {"sync", "demote"}
      /\ pc # "dirSync" /\ pc' # "dirSync"
  BY Zenon, <1>1, PCs
<1>7. /\ LogOK' /\ SegOK' /\ NamesInv' /\ RefusesOnlyLoneDamage' /\ FilesKept
      /\ (\A k, b : From(k, b) => From(k, b)')
  BY Zenon, <1>2, <1>6, Untouched
<1>8. TypeOK'
  BY Zenon, <1>1, <1>2, <1>5, <1>6 DEF TypeOK, LogTypeOK
<1>9. RunInv'
  BY Zenon, <1>1, <1>2, <1>6, <1>7 DEF RunInv, Kept, NoFile, File
<1>10. CutInv'
  <2>1. pc' = "sync" => tmp' = File("unsynced", cut.index)
    BY Zenon, <1>1, <1>4
  <2>2. pc' \in {"demote", "publish"} => tmp' = File("ok", cut.index)
    BY Zenon, <1>1, <1>4
  <2>3. pc' # "publish" /\ pc' # "dirSync"
    BY Zenon, <1>6
  <2>4. /\ cut.index <= Len(log) /\ cut.boundary <= seg /\ prevBoundary <= cut.boundary
        /\ Covered(cut.index) /\ From(cut.index, cut.boundary)
    BY Zenon, <1>1 DEF CutInv
  <2> QED BY Zenon, <1>2, <1>7, <2>1, <2>2, <2>3, <2>4 DEF CutInv, FilesKept, File
<1> QED BY Zenon, <1>6, <1>7, <1>8, <1>9, <1>10 DEF RecoveryInv, WritePC, RemovePC, Running

\* Any call fails: what was done so far stays, and the boundary with it.
LEMMA CheckpointErrorKeeps == ASSUME RecoveryInv, CheckpointError PROVE RecoveryInv'
<1>1. /\ TypeOK /\ LogOK /\ RunInv /\ (pc \in WritePC => CutInv)
      /\ pc \in WritePC \cup RemovePC /\ pc' = "idle" /\ doomed' = {}
  BY Zenon DEF RecoveryInv, CheckpointError, Running
<1>2. /\ log' = log /\ segOf' = segOf /\ tail' = tail /\ seg' = seg /\ poisoned' = poisoned
      /\ present' = present /\ dpresent' = dpresent
      /\ names' = names /\ onDisk' = onDisk /\ tmp' = tmp /\ snapIndex' = snapIndex
      /\ cut' = cut
      /\ prevBoundary' = prevBoundary /\ latestDamaged' = latestDamaged
      /\ crashes' = crashes /\ damages' = damages
  BY Zenon DEF CheckpointError, logVars, segVars, nameVars, ckptState
<1>3. /\ pc' \in Running /\ pc \in Running /\ pc' \notin RemovePC /\ pc' \notin WritePC
  BY Zenon, <1>1, PCs
<1>4. /\ LogOK' /\ SegOK' /\ NamesInv' /\ RefusesOnlyLoneDamage' /\ FilesKept
      /\ (\A k, b : From(k, b) => From(k, b)')
  BY Zenon, <1>2, <1>3, Untouched
<1>5. TypeOK'
  BY Zenon, <1>1, <1>2, <1>3 DEF TypeOK, LogTypeOK
<1>6. From(Kept.index, prevBoundary)'
  <2>1. CASE pc = "dirSync" /\ ~latestDamaged
    <3>1. CutInv /\ names.dat = File("ok", cut.index)
      BY Zenon, <1>1, <2>1, PCs DEF CutInv
    <3>2. cut.index \in Nat /\ cut.boundary \in Nat /\ prevBoundary \in Nat /\ segOf \in Seq(Nat)
      BY Zenon, <1>1, TypeFacts
    <3>3. names.dat.index = cut.index /\ names.dat # NoFile
      <4>1. File("ok", cut.index).index = cut.index /\ File("ok", cut.index) # NoFile
        BY <3>2, FileFacts
      <4> QED BY Zenon, <3>1, <4>1
    <3>4. Kept' = names.dat
      BY Zenon, <1>1, <1>2, <2>1, <3>3 DEF Kept, NoFile, File
    <3>5. \A i \in 1..Len(log) : segOf[i] \in Nat
      BY Zenon, <1>1, <3>2, ElementType DEF LogOK
    <3>6. \A x \in Nat : x >= cut.boundary => x >= prevBoundary
      BY <3>1, <3>2 DEF CutInv
    <3> QED BY Zenon, <1>2, <3>1, <3>3, <3>4, <3>5, <3>6 DEF CutInv, From
  <2>2. CASE pc = "dirSync" /\ latestDamaged
    <3>1. Kept' = Kept
      BY Zenon, <1>2, <2>2 DEF Kept
    <3> QED BY Zenon, <1>1, <1>2, <1>4, <3>1 DEF RunInv
  <2>3. CASE pc # "dirSync"
    <3>1. Kept' = Kept
      BY Zenon, <1>1, <1>2, <2>3 DEF Kept, NoFile, File
    <3> QED BY Zenon, <1>1, <1>2, <1>4, <3>1 DEF RunInv
  <2> QED BY Zenon, <2>1, <2>2, <2>3
<1>7. RunInv'
  BY Zenon, <1>1, <1>2, <1>6 DEF RunInv
<1> QED BY Zenon, <1>3, <1>4, <1>5, <1>7 DEF RecoveryInv, WritePC, RemovePC, Running

\* The checkpoint being replaced becomes snap.prev, unless it is damaged: for
\* every pair of names a power loss may leave.
LEMMA RetainPreviousKeeps == ASSUME RecoveryInv, RetainPrevious PROVE RecoveryInv'
<1>1. /\ TypeOK /\ LogOK /\ SegOK /\ NamesInv /\ RunInv /\ CutInv /\ pc = "demote" /\ pc' = "publish"
  BY Zenon, PCs DEF RecoveryInv, RetainPrevious, WriteStep
<1>2. /\ log' = log /\ segOf' = segOf /\ tail' = tail /\ seg' = seg /\ poisoned' = poisoned
      /\ present' = present /\ dpresent' = dpresent
      /\ tmp' = tmp /\ snapIndex' = snapIndex /\ cut' = cut /\ doomed' = doomed
      /\ prevBoundary' = prevBoundary /\ latestDamaged' = latestDamaged
      /\ crashes' = crashes /\ damages' = damages
  BY Zenon DEF RetainPrevious, WriteStep, logVars, segVars, nameVars, ckptState
<1>3. /\ pc' \in Running /\ pc \in Running /\ pc' \notin RemovePC
  BY Zenon, <1>1, PCs
<1>4. names \in Names /\ onDisk \subseteq Names /\ names.dat \in FileType
  BY Zenon, <1>1, TypeFacts DEF TypeOK
<1>5. FilesKept /\ (\A k, b : From(k, b) => From(k, b)')
  BY Zenon, <1>2, SameLog
<1>6. LogOK' /\ SegOK' /\ RefusesOnlyLoneDamage'
  <2>1. LogOK'
    BY Zenon, <1>1, <1>2 DEF LogOK
  <2>2. SegOK'
    BY Zenon, <1>1, <1>2 DEF SegOK
  <2> QED BY Zenon, <1>1, <2>1, <2>2 DEF RefusesOnlyLoneDamage
<1>7. ASSUME NamesInv', names' \in Names, onDisk' \subseteq Names, latestDamaged \/ names'.dat = NoFile,
             names'.dat.kind = "damaged" => latestDamaged, Kept' = Kept
      PROVE  RecoveryInv'
  <2>1. TypeOK'
    BY Zenon, <1>1, <1>2, <1>3, <1>7 DEF TypeOK, LogTypeOK
  <2>2. RunInv'
    BY Zenon, <1>1, <1>2, <1>5, <1>7 DEF RunInv
  <2>3. CutInv'
    <3>1. pc' \notin {"sync", "dirSync", "demote"}
      BY Zenon, <1>1
    <3> QED BY Zenon, <1>1, <1>2, <1>5, <1>7, <3>1 DEF CutInv, FilesKept, File, NoFile
  <2> QED BY Zenon, <1>3, <1>6, <1>7, <2>1, <2>2, <2>3 DEF RecoveryInv, WritePC, RemovePC, Running
<1>8. CASE ~latestDamaged /\ names.dat # NoFile
  <2> DEFINE new == [dat |-> NoFile, prev |-> names.dat]
  <2>1. /\ names' = Renamed(names, [to |-> "prev", file |-> names.dat])
        /\ onDisk' = onDisk \cup {Renamed(n, [to |-> "prev", file |-> names.dat]) : n \in onDisk}
    BY Zenon, <1>8 DEF RetainPrevious, Rename
  <2>2. \A n : Renamed(n, [to |-> "prev", file |-> names.dat]) = new
    BY DEF Renamed
  <2>3. new \in Names /\ new.dat = NoFile /\ new.prev = names.dat
    BY <1>4, FileFacts DEF Names
  <2> HIDE DEF new
  <2>4. names' = new /\ onDisk' \subseteq onDisk \cup {new}
    BY Zenon, <2>1, <2>2
  <2>5. Whole(names.dat)
    <3>1. names.dat # DamagedFile
      BY Zenon, <1>1, <1>8, FileFacts DEF RunInv
    <3> QED BY Zenon, <1>1, <3>1 DEF NamesInv, NamesOK
  <2>6. NamesOK(new)
    BY Zenon, <2>3, <2>5, <1>8 DEF NamesOK, Whole
  <2>7. NamesInv'
    BY Zenon, <1>1, <1>4, <1>5, <2>3, <2>4, <2>6 DEF NamesInv, FilesKept
  <2>8. Kept' = Kept
    <3>1. Kept = names.dat
      BY Zenon, <1>1, <1>8 DEF Kept
    <3>2. Kept' = names'.prev
      BY Zenon, <2>3, <2>4 DEF Kept, NoFile, File
    <3> QED BY Zenon, <2>3, <2>4, <3>1, <3>2
  <2>9. names'.dat.kind # "damaged"
    BY Zenon, <2>3, <2>4, FileFacts
  <2> QED BY Zenon, <1>4, <1>7, <2>3, <2>4, <2>7, <2>8, <2>9
<1>9. CASE ~(~latestDamaged /\ names.dat # NoFile)
  <2>1. names' = names /\ onDisk' = onDisk
    BY Zenon, <1>9 DEF RetainPrevious
  <2>2. NamesInv'
    BY Zenon, <1>1, <1>5, <2>1, SameNames
  <2>3. Kept' = Kept
    BY Zenon, <1>1, <1>2, <2>1 DEF Kept, NoFile, File
  <2> QED BY Zenon, <1>1, <1>4, <1>7, <1>9, <2>1, <2>2, <2>3 DEF RunInv
<1> QED BY Zenon, <1>8, <1>9

\* snap.tmp becomes snap.dat.
LEMMA PublishLatestKeeps == ASSUME RecoveryInv, PublishLatest PROVE RecoveryInv'
<1>1. /\ TypeOK /\ LogOK /\ SegOK /\ NamesInv /\ RunInv /\ CutInv /\ pc = "publish" /\ pc' = "dirSync"
  BY Zenon, PCs DEF RecoveryInv, PublishLatest, WriteStep
<1>2. /\ log' = log /\ segOf' = segOf /\ tail' = tail /\ seg' = seg /\ poisoned' = poisoned
      /\ present' = present /\ dpresent' = dpresent
      /\ tmp' = NoFile /\ snapIndex' = snapIndex /\ cut' = cut /\ doomed' = doomed
      /\ prevBoundary' = prevBoundary /\ latestDamaged' = latestDamaged
      /\ crashes' = crashes /\ damages' = damages
      /\ names' = Renamed(names, [to |-> "dat", file |-> tmp])
      /\ onDisk' = onDisk \cup {Renamed(n, [to |-> "dat", file |-> tmp]) : n \in onDisk}
  BY Zenon DEF PublishLatest, Rename, WriteStep, logVars, segVars, nameVars, ckptState
<1>3. /\ pc' \in Running /\ pc \in Running /\ pc' \notin RemovePC
  BY Zenon, <1>1, PCs
<1>4. names \in Names /\ onDisk \subseteq Names /\ cut.index \in Nat
  BY Zenon, <1>1, TypeFacts DEF TypeOK
<1>5. FilesKept /\ (\A k, b : From(k, b) => From(k, b)')
  BY Zenon, <1>2, SameLog
<1>6. LogOK' /\ SegOK' /\ RefusesOnlyLoneDamage'
  <2>1. LogOK'
    BY Zenon, <1>1, <1>2 DEF LogOK
  <2>2. SegOK'
    BY Zenon, <1>1, <1>2 DEF SegOK
  <2> QED BY Zenon, <1>1, <2>1, <2>2 DEF RefusesOnlyLoneDamage
<1>7. tmp = File("ok", cut.index) /\ tmp \in FileType /\ tmp.kind = "ok" /\ tmp.index = cut.index /\ tmp # NoFile
  <2>1. /\ File("ok", cut.index) \in FileType /\ File("ok", cut.index).kind = "ok"
        /\ File("ok", cut.index).index = cut.index /\ File("ok", cut.index) # NoFile
    BY <1>4, FileFacts
  <2> QED BY Zenon, <1>1, <2>1 DEF CutInv
<1>8. ASSUME NEW n \in Names
      PROVE  LET new == Renamed(n, [to |-> "dat", file |-> tmp]) IN
             new \in Names /\ new.dat = tmp /\ new.prev = n.prev
  <2>1. Renamed(n, [to |-> "dat", file |-> tmp]) = [n EXCEPT !.dat = tmp]
    BY DEF Renamed
  <2>2. /\ [n EXCEPT !.dat = tmp] \in Names
        /\ [n EXCEPT !.dat = tmp].dat = tmp /\ [n EXCEPT !.dat = tmp].prev = n.prev
    BY <1>7 DEF Names
  <2> QED BY Zenon, <2>1, <2>2
<1>9. Whole(tmp)
  BY Zenon, <1>1, <1>7 DEF Whole, CutInv
<1>10. ASSUME NEW n \in Names, NamesOK(n)
       PROVE  NamesOK(Renamed(n, [to |-> "dat", file |-> tmp]))
  BY Zenon, <1>7, <1>8, <1>9, <1>10 DEF NamesOK
<1>11. names' \in Names /\ onDisk' \subseteq Names /\ names'.dat = tmp /\ names'.prev = names.prev
  BY Zenon, <1>2, <1>4, <1>8
<1>12. \A n \in onDisk' \cup {names'} : n \in Names /\ NamesOK(n)
  BY Zenon, <1>1, <1>2, <1>4, <1>8, <1>10 DEF NamesInv
<1>13. NamesInv'
  BY Zenon, <1>5, <1>12 DEF NamesInv, FilesKept
<1>14. TypeOK'
  BY Zenon, <1>1, <1>2, <1>3, <1>11, FileFacts DEF TypeOK, LogTypeOK
<1>15. RunInv'
  <2>1. Kept = names.prev
    BY Zenon, <1>1 DEF CutInv, Kept
  <2>2. Kept' = names.prev
    BY Zenon, <1>1, <1>11 DEF Kept
  <2>3. names'.dat.kind # "damaged"
    BY Zenon, <1>7, <1>11
  <2> QED BY Zenon, <1>1, <1>2, <1>5, <2>1, <2>2, <2>3 DEF RunInv
<1>16. CutInv'
  <2>1. pc' \notin {"sync", "publish", "demote"}
    BY Zenon, <1>1
  <2> QED BY Zenon, <1>1, <1>2, <1>5, <1>7, <1>11, <2>1 DEF CutInv, FilesKept, File
<1> QED BY Zenon, <1>3, <1>6, <1>13, <1>14, <1>15, <1>16 DEF RecoveryInv, WritePC, RemovePC, Running

\* The directory is synced: the names seen are the only ones left, and neither
\* of them needs a segment below the boundary.
LEMMA SyncDirKeeps == ASSUME RecoveryInv, SyncDir PROVE RecoveryInv'
<1>1. /\ TypeOK /\ LogOK /\ SegOK /\ NamesInv /\ RunInv /\ CutInv /\ pc = "dirSync"
      /\ pc' \in {"idle", "remove"}
  BY Zenon, PCs DEF RecoveryInv, SyncDir
<1>2. /\ log' = log /\ segOf' = segOf /\ tail' = tail /\ seg' = seg /\ poisoned' = poisoned
      /\ present' = present /\ dpresent' = present
      /\ names' = names /\ onDisk' = {names}
      /\ tmp' = tmp /\ snapIndex' = snapIndex /\ cut' = cut
      /\ doomed' = {s \in present : s < prevBoundary /\ s # seg}
      /\ prevBoundary' = cut.boundary /\ latestDamaged' = FALSE
      /\ crashes' = crashes /\ damages' = damages
  BY Zenon DEF SyncDir, Removable, NextBoundary, logVars
<1>3. /\ pc' \in Running /\ pc \in Running /\ pc' \notin WritePC /\ pc' # "dirSync" /\ pc' # "refused"
  BY Zenon, <1>1, PCs
<1>4. /\ names \in Names /\ cut.index \in Nat /\ cut.boundary \in Nat /\ prevBoundary \in Nat
      /\ segOf \in Seq(Nat)
  BY Zenon, <1>1, TypeFacts
<1>5. FilesKept /\ (\A k, b : From(k, b) => From(k, b)')
  BY Zenon, <1>2, SameLog
<1>6. LogOK' /\ SegOK' /\ RefusesOnlyLoneDamage'
  <2>1. LogOK'
    BY Zenon, <1>1, <1>2 DEF LogOK
  <2>2. SegOK'
    BY Zenon, <1>1, <1>2 DEF SegOK
  <2> QED BY Zenon, <1>3, <2>1, <2>2 DEF RefusesOnlyLoneDamage
<1>7. NamesInv'
  BY Zenon, <1>1, <1>2, <1>4, <1>5 DEF NamesInv, FilesKept
<1>8. TypeOK'
  BY Zenon, <1>1, <1>2, <1>3, <1>4 DEF TypeOK, LogTypeOK
<1>9. /\ names.dat = File("ok", cut.index) /\ names.dat.kind = "ok" /\ names.dat.index = cut.index
      /\ names.dat # NoFile
  <2>1. /\ File("ok", cut.index).kind = "ok"
        /\ File("ok", cut.index).index = cut.index /\ File("ok", cut.index) # NoFile
    BY <1>4, FileFacts
  <2> QED BY Zenon, <1>1, <2>1 DEF CutInv
<1>10. RunInv'
  <2>1. Kept' = names.dat
    BY Zenon, <1>2, <1>3, <1>9 DEF Kept, NoFile, File
  <2>2. From(cut.index, cut.boundary) /\ cut.boundary <= seg
    BY Zenon, <1>1 DEF CutInv
  <2>3. From(Kept.index, prevBoundary)'
    BY Zenon, <1>2, <1>5, <1>9, <2>1, <2>2
  <2>4. names'.dat.kind # "damaged"
    BY Zenon, <1>2, <1>9
  <2> QED BY Zenon, <1>1, <1>2, <2>2, <2>3, <2>4 DEF RunInv
<1>11. RemoveInv'
  <2>1. \A i \in 1..Len(log) : segOf[i] \in Nat
    BY Zenon, <1>1, <1>4, ElementType DEF LogOK
  <2>2. \A x \in Nat : /\ x >= cut.boundary => ~(x < prevBoundary)
                       /\ x >= prevBoundary => ~(x < prevBoundary)
    BY <1>1, <1>4 DEF CutInv
  <2>3. \A i \in 1..Len(log) : i > names.dat.index => segOf[i] \notin doomed'
    BY Zenon, <1>1, <1>2, <1>9, <2>1, <2>2 DEF CutInv, From
  <2>4. \A i \in 1..Len(log) : i > names.prev.index => segOf[i] \notin doomed'
    <3>1. Kept = names.prev
      BY Zenon, <1>1 DEF Kept
    <3> QED BY Zenon, <1>1, <1>2, <2>1, <2>2, <3>1 DEF RunInv, From
  <2> QED BY Zenon, <1>2, <1>9, <2>3, <2>4 DEF RemoveInv
<1> QED BY Zenon, <1>3, <1>6, <1>7, <1>8, <1>10, <1>11 DEF RecoveryInv, WritePC, RemovePC, Running

\* A segment is removed, and the removal made durable: no file on disk needs it.
LEMMA RemoveKeeps == ASSUME RecoveryInv, RemoveSegment \/ SyncRemoval PROVE RecoveryInv'
<1>1. /\ TypeOK /\ LogOK /\ SegOK /\ NamesInv /\ RunInv /\ RemoveInv /\ pc \in RemovePC
      /\ pc' \in RemovePC \cup {"idle"}
  BY Zenon, PCs DEF RecoveryInv, RemoveSegment, SyncRemoval
<1>2. /\ log' = log /\ segOf' = segOf /\ tail' = tail /\ seg' = seg /\ poisoned' = poisoned
      /\ names' = names /\ onDisk' = onDisk
      /\ tmp' = tmp /\ snapIndex' = snapIndex /\ cut' = cut
      /\ prevBoundary' = prevBoundary /\ latestDamaged' = latestDamaged
      /\ crashes' = crashes /\ damages' = damages
  BY Zenon DEF RemoveSegment, SyncRemoval, logVars, nameVars, ckptState
<1>3. /\ present' \subseteq present /\ dpresent' \in {dpresent, present} /\ doomed' \subseteq doomed
      /\ \A s \in present \cap dpresent : s \notin doomed => s \in present' \cap dpresent'
  BY Zenon DEF RemoveSegment, SyncRemoval
<1>4. /\ pc' \in Running /\ pc \in Running /\ pc' \notin WritePC /\ pc' # "dirSync" /\ pc # "dirSync"
      /\ pc' # "refused"
  BY Zenon, <1>1, PCs
<1>5. LogOK' /\ SegOK' /\ RefusesOnlyLoneDamage'
  <2>1. LogOK'
    BY Zenon, <1>1, <1>2 DEF LogOK
  <2>2. SegOK'
    <3>1. seg \in present \cap dpresent
      BY Zenon, <1>1, PCs DEF SegOK
    <3> QED BY Zenon, <1>1, <1>2, <1>3, <3>1 DEF SegOK, RemoveInv
  <2> QED BY Zenon, <1>4, <2>1, <2>2 DEF RefusesOnlyLoneDamage
<1>6. ASSUME NEW f \in {names.dat, names.prev}, f.kind = "ok", Covered(f.index) PROVE Covered(f.index)'
  <2>1. Usable(f)
    BY Zenon, <1>6 DEF Usable
  <2>2. \A i \in 1..Len(log) : i > f.index => segOf[i] \notin doomed
    BY Zenon, <1>1, <2>1 DEF RemoveInv
  <2>3. \A k : Covered(k) /\ (\A i \in 1..Len(log) : i > k => segOf[i] \notin doomed) => Covered(k)'
    BY Zenon, <1>2, <1>3 DEF Covered
  <2>4. f' = f
    BY Zenon, <1>2
  <2>5. PICK k : k = f.index
    BY Zenon
  <2>6. Covered(k)'
    BY Zenon, <1>6, <2>2, <2>3, <2>5
  <2> QED BY Zenon, <2>5, <2>6, <2>4 DEF Covered
<1>7. NamesInv'
  <2>1. names.dat.kind = "ok" /\ names.dat # NoFile /\ names.dat # DamagedFile /\ onDisk' = {names}
    BY Zenon, <1>1, <1>2, FileFacts DEF RemoveInv
  <2>2. Whole(names.dat) /\ Whole(names.prev)
    BY Zenon, <1>1, <2>1 DEF NamesInv, NamesOK
  <2>3. Whole(names.dat)' /\ Whole(names.prev)'
    BY Zenon, <1>2, <1>6, <2>1, <2>2 DEF Whole, NoFile, File
  <2> QED BY Zenon, <1>2, <2>1, <2>3 DEF NamesInv, NamesOK, NoFile, File
<1>8. TypeOK'
  BY Zenon, <1>1, <1>2, <1>3, <1>4 DEF TypeOK, LogTypeOK
<1>9. RunInv'
  BY Zenon, <1>1, <1>2, <1>4 DEF RunInv, Kept, From, NoFile, File
<1>10. RemoveInv'
  BY Zenon, <1>1, <1>2, <1>3 DEF RemoveInv, Usable
<1> QED BY Zenon, <1>4, <1>5, <1>7, <1>8, <1>9, <1>10 DEF RecoveryInv, WritePC, RemovePC, Running

-----------------------------------------------------------------------------
(* Crashes, damage and open *)

\* A crash leaves the names as seen or, without power, some pair that the
\* invariant speaks of; no file that was renamed into place is torn.
LEMMA CrashKeeps == ASSUME RecoveryInv, Crash PROVE RecoveryInv'
<1>1. TypeOK /\ LogOK /\ SegOK /\ NamesInv /\ pc \in Running /\ pc' = "down"
  BY Zenon DEF RecoveryInv, Crash
<1>2. /\ log' = log /\ segOf' = segOf /\ tail' = tail /\ seg' = seg /\ poisoned' = poisoned
      /\ tmp' = NoFile /\ snapIndex' = snapIndex /\ cut' = cut /\ doomed' = {}
      /\ prevBoundary' = prevBoundary /\ latestDamaged' = latestDamaged
      /\ crashes' = crashes + 1 /\ damages' = damages
  BY Zenon DEF Crash, logVars, ckptState
<1>3. names \in Names /\ onDisk \subseteq Names /\ crashes \in Nat /\ present \subseteq Nat /\ dpresent \subseteq Nat
  BY Zenon, <1>1 DEF TypeOK
<1>4. crashes' \in Nat
  BY <1>2, <1>3
<1>5. names' \in onDisk \cup {names} /\ onDisk' \subseteq onDisk \cup {names}
  <2>1. CASE UNCHANGED <<names, onDisk, segVars>>
    BY Zenon, <2>1
  <2>2. CASE PowerLoss
    <3>1. PICK n \in onDisk : \E d \in Survives(n.dat), p \in Survives(n.prev) :
                                names' = [dat |-> d, prev |-> p]
      BY Zenon, <2>2 DEF PowerLoss
    <3>2. PICK d \in Survives(n.dat), p \in Survives(n.prev) : names' = [dat |-> d, prev |-> p]
      BY Zenon, <3>1
    <3>3. NamesOK(n) /\ n \in Names
      BY Zenon, <1>1, <1>3 DEF NamesInv
    <3>4. n.dat.kind # "unsynced" /\ n.prev.kind # "unsynced"
      BY Zenon, <3>3, FileFacts DEF NamesOK, Whole
    <3>5. d = n.dat /\ p = n.prev
      BY Zenon, <3>2, <3>4 DEF Survives
    <3>6. [dat |-> n.dat, prev |-> n.prev] = n
      BY <3>3 DEF Names
    <3> QED BY Zenon, <2>2, <3>2, <3>5, <3>6 DEF PowerLoss
  <2> QED BY Zenon, <2>1, <2>2 DEF Crash
<1>6. /\ present \cap dpresent \subseteq present' \cap dpresent'
      /\ present' \subseteq Nat /\ dpresent' \subseteq Nat
  <2>1. CASE UNCHANGED <<names, onDisk, segVars>>
    BY Zenon, <1>3, <2>1 DEF segVars
  <2>2. CASE PowerLoss
    <3>1. present' \in {s \in SUBSET (present \cup dpresent) : present \cap dpresent \subseteq s}
      BY Zenon, <2>2 DEF PowerLoss
    <3>2. present' \subseteq present \cup dpresent /\ present \cap dpresent \subseteq present'
      BY <3>1
    <3> QED BY Zenon, <1>3, <2>2, <3>2 DEF PowerLoss
  <2> QED BY Zenon, <2>1, <2>2 DEF Crash
<1>7. FilesKept
  BY Zenon, <1>2, <1>6, SameLog
<1>8. NamesInv'
  BY Zenon, <1>1, <1>3, <1>5, <1>7 DEF NamesInv, FilesKept
<1>9. TypeOK'
  <2>1. tmp' \in FileType /\ names' \in Names /\ onDisk' \subseteq Names /\ doomed' \subseteq Nat
    BY Zenon, <1>2, <1>3, <1>5, FileFacts
  <2> QED BY Zenon, <1>1, <1>2, <1>4, <1>6, <2>1 DEF TypeOK, LogTypeOK
<1>10. LogOK'
  BY Zenon, <1>1, <1>2 DEF LogOK
<1>11. SegOK'
  BY Zenon, <1>1, <1>2, <1>6, PCs DEF SegOK
<1>12. pc' \notin Running /\ pc' \notin WritePC /\ pc' \notin RemovePC /\ pc' # "refused"
  BY Zenon, <1>1, PCs
<1> QED BY Zenon, <1>8, <1>9, <1>10, <1>11, <1>12 DEF RecoveryInv, RefusesOnlyLoneDamage, WritePC, RemovePC, Running

\* snap.dat is damaged while the store is down.
LEMMA DamageKeeps == ASSUME RecoveryInv, Damage PROVE RecoveryInv'
<1>1. TypeOK /\ LogOK /\ SegOK /\ NamesInv /\ pc = "down"
  BY Zenon DEF RecoveryInv, Damage
<1>2. /\ log' = log /\ segOf' = segOf /\ tail' = tail /\ seg' = seg /\ poisoned' = poisoned
      /\ present' = present /\ dpresent' = dpresent /\ pc' = pc
      /\ tmp' = tmp /\ snapIndex' = snapIndex /\ cut' = cut /\ doomed' = doomed
      /\ prevBoundary' = prevBoundary /\ latestDamaged' = latestDamaged
      /\ crashes' = crashes /\ damages' = damages + 1
      /\ names' = [names EXCEPT !.dat = DamagedFile] /\ onDisk' = {names'}
  BY Zenon DEF Damage, logVars, segVars, ckptState
<1>3. names \in Names /\ damages \in Nat
  BY Zenon, <1>1, TypeFacts
<1>4. damages' \in Nat /\ damages' > 0
  BY <1>2, <1>3
<1>5. names' \in Names /\ names'.dat = DamagedFile /\ names'.prev = names.prev
  BY <1>2, <1>3, FileFacts DEF Names
<1>6. NamesInv'
  <2>1. Whole(names.prev)
    BY Zenon, <1>1 DEF NamesInv, NamesOK
  <2>2. Whole(names.prev)'
    BY Zenon, <1>2, <1>5, <2>1 DEF Whole, Covered, NoFile, File
  <2>3. DamagedFile # NoFile
    BY Zenon, FileFacts
  <2> QED BY Zenon, <1>2, <1>4, <1>5, <2>2, <2>3 DEF NamesInv, NamesOK, NoFile, DamagedFile, File
<1>7. TypeOK'
  BY Zenon, <1>1, <1>2, <1>4, <1>5 DEF TypeOK, LogTypeOK
<1>8. LogOK'
  BY Zenon, <1>1, <1>2 DEF LogOK
<1>9. SegOK'
  BY Zenon, <1>1, <1>2 DEF SegOK
<1>10. pc' \notin Running /\ pc' \notin WritePC /\ pc' \notin RemovePC /\ pc' # "refused"
  BY Zenon, <1>1, <1>2, PCs
<1> QED BY Zenon, <1>6, <1>7, <1>8, <1>9, <1>10 DEF RecoveryInv, RefusesOnlyLoneDamage, WritePC, RemovePC, Running

\* open: the checkpoint that load returns has its log, so replay reaches the last
\* record, and nothing it needs is below the boundary it leaves.
LEMMA OpenKeeps == ASSUME RecoveryInv, Open PROVE RecoveryInv'
<1>1. TypeOK /\ LogOK /\ SegOK /\ NamesInv /\ pc = "down" /\ NamesOK(names)
  BY Zenon DEF RecoveryInv, Open, NamesInv
<1>2. /\ names' = names /\ onDisk' = onDisk /\ tmp' = tmp /\ cut' = cut /\ doomed' = doomed
      /\ crashes' = crashes /\ damages' = damages /\ tail' = <<>> /\ poisoned' = FALSE
      /\ seg' \in {seg, seg + 1}
      /\ present' = present \cup {seg'} /\ dpresent' = dpresent \cup {seg'}
  BY Zenon DEF Open, Reopen, SegmentsGrow, nameVars
<1>3. PICK n \in 0..Len(tail) : /\ log' = log \o SubSeq(tail, 1, n)
                                /\ segOf' = segOf \o [i \in 1..n |-> seg]
  BY Zenon DEF Open, Reopen
<1>4. /\ Len(log) \in Nat /\ Len(tail) \in Nat /\ damages \in Nat
      /\ names.dat \in FileType /\ names.prev \in FileType
      /\ names.dat.index \in Nat /\ names.prev.index \in Nat
  BY Zenon, <1>1, TypeFacts
<1>5. n > 0 => seg \in present \cap dpresent
  <2>1. n > 0 => tail # <<>>
    BY <1>4
  <2> QED BY Zenon, <1>1, <2>1 DEF SegOK
<1>6. /\ log' \in Seq(Nat) /\ segOf' \in Seq(Nat) /\ seg' \in Nat
      /\ Len(log') >= Len(log) /\ LogOK' /\ FilesKept
      /\ \A i \in 1..Len(log') : i > Len(log) => segOf'[i] = seg /\ seg \in present \cap dpresent
      /\ \A i \in 1..Len(log) : i \in 1..Len(log') /\ segOf'[i] = segOf[i]
  BY Zenon, <1>1, <1>2, <1>3, <1>5, LogGrows
<1>7. Len(log') \in Nat /\ \A i \in 1..Len(log') : i \in 1..Len(log) \/ i > Len(log)
  BY <1>4, <1>6
<1>8. SegOK' /\ NamesInv'
  BY Zenon, <1>1, <1>2, <1>6, SameNames DEF SegOK
<1>9. ASSUME pc' \in {"idle", "refused"}, snapIndex' \in Nat, prevBoundary' \in Nat, latestDamaged' \in BOOLEAN
      PROVE  TypeOK'
  <2>1. <<>> \in Seq(Nat)
    OBVIOUS
  <2>2. pc' \in Running \cup {"down", "refused"}
    BY Zenon, <1>9, PCs
  <2>3. present' \subseteq Nat /\ dpresent' \subseteq Nat
    BY Zenon, <1>1, <1>2, <1>6 DEF TypeOK
  <2> QED BY Zenon, <1>1, <1>2, <1>6, <1>9, <2>1, <2>2, <2>3 DEF TypeOK, LogTypeOK
<1>10. CASE LoadRefuses
  <2>1. pc' = "refused" /\ snapIndex' = snapIndex /\ prevBoundary' = prevBoundary /\ latestDamaged' = latestDamaged
    BY Zenon, <1>10 DEF Open, ckptState
  <2>2. names.dat.kind = "damaged" /\ ~Usable(names.prev)
    <3>1. names.prev.kind # "damaged"
      BY Zenon, <1>1, FileFacts DEF NamesOK, Whole
    <3> QED BY Zenon, <1>10, <3>1 DEF LoadRefuses
  <2>3. names.prev = NoFile
    BY Zenon, <1>1, <2>2 DEF NamesOK, Whole, Usable
  <2>4. damages > 0
    BY Zenon, <1>1, <2>2, FileFacts DEF NamesOK, Whole
  <2>5. RefusesOnlyLoneDamage'
    BY Zenon, <1>2, <2>2, <2>3, <2>4 DEF RefusesOnlyLoneDamage, NoFile, File
  <2>6. TypeOK'
    BY Zenon, <1>1, <1>9, <2>1 DEF TypeOK
  <2>7. pc' \notin Running /\ pc' \notin WritePC /\ pc' \notin RemovePC
    BY Zenon, <2>1, PCs
  <2> QED BY Zenon, <1>6, <1>8, <2>5, <2>6, <2>7 DEF RecoveryInv, WritePC, RemovePC, Running
<1>11. CASE ~LoadRefuses
  <2> DEFINE base == Loaded.index
             r == Replay(base, log', segOf')
  <2>1. /\ pc' = IF r.refused THEN "refused" ELSE "idle"
        /\ snapIndex' = r.last
        /\ prevBoundary' = IF r.first = 0 THEN seg' ELSE r.first
        /\ latestDamaged' = (names.dat.kind = "damaged")
    BY Zenon, <1>11 DEF Open
  <2>2. Covered(base) /\ base <= Len(log) /\ base \in Nat
    <3>1. CASE Usable(names.dat)
      <4>1. Loaded = names.dat /\ names.dat # NoFile /\ names.dat # DamagedFile
        BY Zenon, <3>1, FileFacts DEF Loaded, Usable
      <4> QED BY Zenon, <1>1, <1>4, <4>1 DEF NamesOK, Whole
    <3>2. CASE ~Usable(names.dat) /\ names.prev # NoFile
      <4>1. Loaded = names.prev
        BY Zenon, <3>2 DEF Loaded
      <4> QED BY Zenon, <1>1, <1>4, <3>2, <4>1 DEF NamesOK, Whole
    <3>3. CASE ~Usable(names.dat) /\ names.prev = NoFile
      <4>1. names.dat.kind # "damaged"
        BY Zenon, <1>11, <3>3, FileFacts DEF LoadRefuses, Usable
      <4>2. names.dat = NoFile
        BY Zenon, <1>1, <3>3, <4>1, FileFacts DEF NamesOK, Whole, Usable
      <4>3. Loaded.index = 0 /\ Covered(0)
        BY Zenon, <1>1, <3>3, <4>2, FileFacts DEF NamesOK, Loaded
      <4>4. 0 <= Len(log) /\ 0 \in Nat
        BY <1>4
      <4> QED BY Zenon, <4>3, <4>4
    <3> QED BY Zenon, <3>1, <3>2, <3>3
  <2> HIDE DEF base
  <2>3. base <= Len(log')
    BY <1>4, <1>6, <1>7, <2>2
  <2>4. \A i \in 1..Len(log') : log'[i] = i /\ segOf'[i] # 0
    <3>1. \A x : 1 <= x => x # 0
      OBVIOUS
    <3> QED BY Zenon, <1>6, <3>1 DEF LogOK
  <2>5. \A i \in 1..Len(log') : i > base => segOf'[i] \in present
    BY Zenon, <1>6, <1>7, <2>2 DEF Covered
  <2>6. r = Replayed(base, segOf', Len(log'))
    BY Zenon, <1>7, <2>2, <2>3, <2>4, <2>5, ReplayFacts
  <2> HIDE DEF r
  <2>7. /\ r.refused = FALSE /\ r.last = Len(log')
        /\ base = Len(log') => r.first = 0
        /\ base # Len(log') => base + 1 \in 1..Len(log') /\ r.first = segOf'[base + 1]
    <3>1. CASE base = Len(log')
      <4>1. r = [last |-> base, first |-> 0, refused |-> FALSE]
        <5>1. Len(log') <= base
          BY <1>7, <3>1
        <5> QED BY Zenon, <2>6, <5>1 DEF Replayed
      <4>2. r.last = base /\ r.first = 0 /\ r.refused = FALSE
        BY <4>1
      <4> QED BY Zenon, <3>1, <4>2
    <3>2. CASE base # Len(log')
      <4>1. ~(Len(log') <= base) /\ base + 1 \in 1..Len(log')
        BY <1>7, <2>2, <2>3, <3>2
      <4>2. r = [last |-> Len(log'), first |-> segOf'[base + 1], refused |-> FALSE]
        BY Zenon, <2>6, <4>1 DEF Replayed
      <4>3. r.last = Len(log') /\ r.first = segOf'[base + 1] /\ r.refused = FALSE
        BY <4>2
      <4> QED BY Zenon, <3>2, <4>1, <4>3
    <3> QED BY Zenon, <3>1, <3>2
  <2>8. pc' = "idle" /\ snapIndex' = Len(log')
    BY Zenon, <2>1, <2>7
  <2>9. Kept' = Loaded
    <3>1. pc' # "dirSync"
      BY Zenon, <2>8
    <3>2. CASE names.dat.kind = "damaged"
      BY Zenon, <1>2, <2>1, <3>2 DEF Kept, Loaded, Usable
    <3>3. CASE names.dat = NoFile
      <4>1. ~Usable(names.dat)
        BY Zenon, <3>3, FileFacts DEF Usable
      <4> QED BY Zenon, <1>2, <3>3, <4>1 DEF Kept, Loaded, NoFile, File
    <3>4. CASE names.dat.kind # "damaged" /\ names.dat # NoFile
      <4>1. names.dat.kind = "ok"
        BY Zenon, <1>1, <3>4, FileFacts DEF NamesOK, Whole
      <4>2. Usable(names.dat)
        BY Zenon, <4>1 DEF Usable
      <4> QED BY Zenon, <1>2, <2>1, <3>1, <3>4, <4>2 DEF Kept, Loaded, NoFile, File
    <3> QED BY Zenon, <3>2, <3>3, <3>4
  <2>10. prevBoundary' \in Nat /\ prevBoundary' <= seg' /\ From(Kept.index, prevBoundary)'
    <3>1. CASE base = Len(log')
      <4>1. prevBoundary' = seg' /\ seg' <= seg' /\ \A i \in 1..Len(log') : ~(i > base)
        BY <1>6, <1>7, <2>1, <2>7, <3>1
      <4> QED BY Zenon, <1>6, <2>9, <4>1 DEF From, base
    <3>2. CASE base # Len(log')
      <4>1. /\ base + 1 \in 1..Len(log') /\ prevBoundary' = segOf'[base + 1]
            /\ segOf'[base + 1] \in Nat
        <5>1. base + 1 \in 1..Len(log') /\ r.first = segOf'[base + 1]
          BY Zenon, <2>7, <3>2
        <5>2. segOf'[base + 1] # 0
          BY Zenon, <2>4, <5>1
        <5>3. segOf'[base + 1] \in Nat
          BY Zenon, <1>6, <5>1, ElementType DEF LogOK
        <5> QED BY Zenon, <2>1, <5>1, <5>2, <5>3
      <4>2. \A i \in 1..Len(log') : i > base => base + 1 \in 1..i
        BY <1>7, <2>2
      <4>3. \A i \in 1..Len(log') : segOf'[i] \in Nat
        BY Zenon, <1>6, ElementType DEF LogOK
      <4>4. \A x, y \in Nat : y <= x => x >= y
        OBVIOUS
      <4>5. \A i \in 1..Len(log') : i > base => segOf'[i] >= segOf'[base + 1]
        BY Zenon, <1>6, <4>1, <4>2, <4>3, <4>4 DEF LogOK
      <4>6. From(Kept.index, prevBoundary)'
        BY Zenon, <2>9, <4>1, <4>5 DEF From, base
      <4> QED BY Zenon, <1>6, <4>1, <4>6 DEF LogOK
    <3> QED BY Zenon, <3>1, <3>2
  <2>11. TypeOK'
    BY Zenon, <1>7, <1>9, <2>1, <2>8, <2>10
  <2>12. RunInv'
    BY Zenon, <1>2, <2>1, <2>8, <2>10 DEF RunInv
  <2>13. pc' \notin WritePC /\ pc' \notin RemovePC /\ pc' # "refused"
    BY Zenon, <2>8, PCs
  <2> QED BY Zenon, <1>6, <1>8, <2>11, <2>12, <2>13 DEF RecoveryInv, RefusesOnlyLoneDamage, WritePC, RemovePC, Running
<1> QED BY Zenon, <1>10, <1>11

-----------------------------------------------------------------------------
(* The invariant holds *)

\* Every step of the writer, the checkpoint, a crash and open keeps the invariant.
LEMMA RecoveryNext == RecoveryInv /\ [Next]_vars => RecoveryInv'
<1> SUFFICES ASSUME RecoveryInv, [Next]_vars PROVE RecoveryInv'
  BY Zenon
<1>1. ASSUME UNCHANGED vars PROVE RecoveryInv'
  <2>1. /\ log' = log /\ segOf' = segOf /\ tail' = tail /\ seg' = seg /\ poisoned' = poisoned
        /\ present' = present /\ dpresent' = dpresent /\ pc' = pc
        /\ tmp' = tmp /\ snapIndex' = snapIndex /\ cut' = cut /\ doomed' = doomed
        /\ prevBoundary' = prevBoundary /\ latestDamaged' = latestDamaged
        /\ crashes' = crashes /\ damages' = damages /\ names' = names /\ onDisk' = onDisk
    BY Zenon, <1>1 DEF vars, logVars, segVars, nameVars, ckptState
  <2>2. FilesKept /\ (\A k, b : From(k, b) => From(k, b)')
    BY Zenon, <2>1, SameLog
  <2>3. TypeOK'
    BY Zenon, <2>1 DEF RecoveryInv, TypeOK, LogTypeOK
  <2>4. LogOK' /\ SegOK'
    BY Zenon, <2>1 DEF RecoveryInv, LogOK, SegOK
  <2>5. NamesInv'
    BY Zenon, <2>1, <2>2, SameNames DEF RecoveryInv
  <2>6. RefusesOnlyLoneDamage'
    BY Zenon, <2>1 DEF RecoveryInv, RefusesOnlyLoneDamage, NoFile, File
  <2>7. pc \in Running => RunInv'
    BY Zenon, <2>1, <2>2 DEF RecoveryInv, RunInv, Kept, NoFile, File
  <2>8. pc \in WritePC => CutInv'
    BY Zenon, <2>1, <2>2 DEF RecoveryInv, CutInv, FilesKept, NoFile, File
  <2>9. pc \in RemovePC => RemoveInv'
    BY Zenon, <2>1 DEF RecoveryInv, RemoveInv, Usable
  <2> QED BY Zenon, <2>1, <2>3, <2>4, <2>5, <2>6, <2>7, <2>8, <2>9 DEF RecoveryInv, WritePC, RemovePC, Running
<1> QED BY Zenon, <1>1, WriterBeginsKeeps, WriterEndsKeeps, CheckpointCutKeeps, CheckpointRefusedKeeps,
           WriteKeeps, RetainPreviousKeeps, PublishLatestKeeps, SyncDirKeeps, RemoveKeeps,
           CheckpointErrorKeeps, CrashKeeps, DamageKeeps, OpenKeeps DEF Next

\* At every step of a checkpoint, a crash or an open, what is on disk and what a
\* power loss may leave of it is enough to recover every acknowledged commit.
THEOREM RecoveryInvariant == Spec => []RecoveryInv
  BY RecoveryInit, RecoveryNext, PTL DEF Spec

\* An open that succeeds recovers every acknowledged commit.
THEOREM RecoversEverythingHolds == Spec => []RecoversEverything
<1>1. RecoveryInv => RecoversEverything
  BY Zenon DEF RecoveryInv, RecoversEverything, RunInv
<1> QED BY <1>1, RecoveryInvariant, PTL

\* Open refuses the store only when its one checkpoint was damaged.
THEOREM RefusesOnlyLoneDamageHolds == Spec => []RefusesOnlyLoneDamage
<1>1. RecoveryInv => RefusesOnlyLoneDamage
  BY Zenon DEF RecoveryInv
<1> QED BY <1>1, RecoveryInvariant, PTL

\* A fall-back to snap.prev always has a complete log to replay.
THEOREM FallBackHasLogHolds == Spec => []FallBackHasLog
<1>1. RecoveryInv => FallBackHasLog
  <2> SUFFICES ASSUME RecoveryInv PROVE FallBackHasLog
    BY Zenon
  <2>1. NamesInv /\ (pc = "idle" => RunInv)
    BY Zenon, PCs DEF RecoveryInv
  <2>2. ASSUME NEW n \in onDisk \cup {names}, NEW f \in {n.dat, n.prev}, Usable(f) PROVE Covered(f.index)
    <3>1. f # NoFile /\ f # DamagedFile
      BY Zenon, <2>2, FileFacts DEF Usable
    <3> QED BY Zenon, <2>1, <2>2, <3>1 DEF NamesInv, NamesOK, Whole
  <2>3. ASSUME pc = "idle"
        PROVE  LET next == IF latestDamaged \/ names.dat = NoFile THEN names.prev ELSE names.dat IN
               From(next.index, prevBoundary)
    BY Zenon, <2>1, <2>3 DEF RunInv, Kept
  <2> QED BY Zenon, <2>2, <2>3 DEF FallBackHasLog, Covered, From
<1> QED BY <1>1, RecoveryInvariant, PTL

=============================================================================
