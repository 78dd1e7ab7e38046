-------------------------- MODULE ValueStoreProofs --------------------------
(***************************************************************************)
(* Proofs about ValueStore, for any number of puts, compactions, crashes   *)
(* and damaged records.  For every handle that was returned while the      *)
(* directory was synced and whose record has not been lost to damage, the  *)
(* invariant says of every log that is, or that the durable directory may  *)
(* still name: no other record has the handle's id, some record or fence   *)
(* keeps the id from being given again, and, unless a compaction was told  *)
(* to drop the blob, the handle's record is there before any torn one.     *)
(***************************************************************************)
EXTENDS ValueStore, TLAPS, WellFoundedInduction

-----------------------------------------------------------------------------
(* The invariant *)

Bad == {Torn, Rotten}

\* The lowest id the store may give next, as far as one record tells.
Mark(r) == IF r.id = FenceId THEN r.blob ELSE r.id + 1

\* A record is bad, or marks an id that the store has.
Record == {r \in [id : Nat, blob : Nat] : r \in Bad \/ Mark(r) <= FenceId}

\* The handles that the properties speak of.
Sound == issued \ (shaky \cup damaged)

\* No other record has the id of h, and what precedes h leaves its id free.
Alone(s, h) ==
  /\ \A i \in 1..Len(s) : s[i].id = h.id => s[i] = h
  /\ \A j \in 1..Len(s) : \A i \in 1..(j - 1) : s[j] = h /\ s[i] \notin Bad => Mark(s[i]) <= h.id

\* Open finds record i of s, unless a record before it has rotted.
Reached(s, i) == \A j \in 1..i : s[j] # Torn

\* Open of a log that starts with s gives no id up to that of h.
Guards(s, h) ==
  \/ \E i \in 1..Len(s) : s[i] = Rotten
  \/ \E i \in 1..Len(s) : s[i] \notin Bad /\ h.id < Mark(s[i]) /\ Reached(s, i)

Has(s, h) == \E i \in 1..Len(s) : s[i] = h /\ Reached(s, i)

Prefix(s, t) == Len(s) <= Len(t) /\ \A i \in 1..Len(s) : s[i] = t[i]

\* A log on disk: its synced part, and what may follow.
Log == [sure : Seq(Record), maybe : Seq(Record)]
LogOK(b, h) ==
  /\ Alone(b.sure \o b.maybe, h)
  /\ Guards(b.sure, h)
  /\ h \notin dropped => Has(b.sure, h)

Current == [sure |-> sure, maybe |-> maybe]

TypeOK ==
  /\ file \in Seq(Record) /\ Current \in Log /\ behind \subseteq Log
  /\ pc \in {"idle", "sync", "roll_back", "sync_dir", "closed"}
  /\ index \subseteq [id : Nat, at : Nat] /\ nextId \in Nat /\ end \in Nat /\ poisoned \in BOOLEAN
  /\ puts \in Nat
  /\ issued \subseteq {r \in Record : r.id < FenceId}

\* The store while it is open.
OpenInv ==
  /\ Len(sure) <= end /\ end <= Len(file) /\ nextId <= FenceId
  /\ \A i \in 1..end : file[i] # Torn /\ (file[i] = Rotten \/ Mark(file[i]) <= nextId)
  /\ pc = "sync_dir" \/ (pc = "idle" /\ ~poisoned) => Len(file) = end
  /\ pc = "sync" => /\ Len(file) = end + 1 /\ nextId < FenceId
                    /\ file[end + 1] = [id |-> nextId, blob |-> puts]
  /\ \A e \in index : e.at \in 1..end /\ e.id < nextId
  /\ \A h \in Sound : /\ h.id < nextId
                      /\ \A e \in index : e.id = h.id => file[e.at] = h
                      /\ h \notin dropped => \E e \in index : e.id = h.id

DiskInv == \A h \in Sound : Alone(file, h) /\ \A b \in behind \cup {Current} : LogOK(b, h)

ValueInv ==
  /\ TypeOK
  /\ Prefix(sure, file)
  /\ DiskInv
  /\ IF pc = "closed" THEN index = {} ELSE OpenInv

-----------------------------------------------------------------------------
(* Sequences *)

\* A set of naturals has a least element: what an induction over the records of
\* a log rests on.
LEMMA LeastElement ==
  ASSUME NEW T \in SUBSET Nat, T # {}
  PROVE  \E m \in T : \A k \in T : m <= k
<1> DEFINE R == {ss \in Nat \X Nat : ss[1] < ss[2]}
<1>1. IsWellFoundedOn(R, Nat)
  BY Zenon, NatLessThanWellFounded DEF OpToRel
<1> HIDE DEF R
<1>2. PICK m \in T : \A k \in T : ~(<<k, m>> \in R)
  BY Zenon, <1>1, WFMin
<1>3. \A k \in T : ~(k < m)
  <2> TAKE k \in T
  <2>1. <<k, m>> \notin R BY Zenon, <1>2
  <2> QED BY Zenon, <2>1 DEF R
<1> QED
  BY <1>3, <1>2

\* The records of a log.
LEMMA SeqFacts ==
  ASSUME NEW s \in Seq(Record)
  PROVE  /\ Len(s) \in Nat /\ DOMAIN s = 1..Len(s)
         /\ \A i \in 1..Len(s) : i \in Nat /\ s[i] \in Record /\ s[i].id \in Nat /\ s[i].blob \in Nat
                                  /\ Mark(s[i]) \in Nat
<1>1. Len(s) \in Nat /\ DOMAIN s = 1..Len(s)
  OBVIOUS
<1>2. \A i \in 1..Len(s) : i \in Nat /\ s[i] \in Record
  OBVIOUS
<1>3. \A r \in Record : r.id \in Nat /\ r.blob \in Nat
  BY Zenon DEF Record
<1>4. \A r \in Record : Mark(r) \in Nat
  BY <1>3 DEF Mark
<1> QED BY Zenon, <1>1, <1>2, <1>3, <1>4

\* A first part of a log.
LEMMA FirstPart ==
  ASSUME NEW s \in Seq(Record), NEW n \in 0..Len(s)
  PROVE  /\ SubSeq(s, 1, n) \in Seq(Record) /\ Len(SubSeq(s, 1, n)) = n
         /\ Prefix(SubSeq(s, 1, n), s)
<1>1. Len(s) \in Nat
  OBVIOUS
<1>2. /\ SubSeq(s, 1, n) \in Seq(Record) /\ Len(SubSeq(s, 1, n)) = n
      /\ \A i \in 1..n : SubSeq(s, 1, n)[i] = s[i]
  BY <1>1
<1>3. n <= Len(s)
  BY <1>1
<1> QED BY Zenon, <1>2, <1>3 DEF Prefix

\* Two logs one after the other.
LEMMA ConcatFacts ==
  ASSUME NEW s \in Seq(Record), NEW u \in Seq(Record)
  PROVE  /\ s \o u \in Seq(Record) /\ Len(s \o u) = Len(s) + Len(u) /\ Prefix(s, s \o u)
         /\ \A i \in 1..Len(u) : (s \o u)[Len(s) + i] = u[i]
         /\ \A i \in 1..Len(s \o u) : i \in 1..Len(s) \/ (i - Len(s) \in 1..Len(u) /\ (s \o u)[i] = u[i - Len(s)])
<1>1. Len(s) \in Nat /\ Len(u) \in Nat
  OBVIOUS
<1>2. /\ s \o u \in Seq(Record) /\ Len(s \o u) = Len(s) + Len(u)
      /\ \A i \in 1..Len(s) : (s \o u)[i] = s[i]
      /\ \A i \in 1..Len(u) : (s \o u)[Len(s) + i] = u[i]
  OBVIOUS
<1>3. Len(s) <= Len(s) + Len(u)
  BY <1>1
<1>4. ASSUME NEW i \in 1..(Len(s) + Len(u)), i \notin 1..Len(s)
      PROVE  i - Len(s) \in 1..Len(u) /\ Len(s) + (i - Len(s)) = i
  BY <1>1, <1>4
<1> QED BY Zenon, <1>2, <1>3, <1>4 DEF Prefix

\* What follows a first part may only add to it.
LEMMA PrefixFacts ==
  ASSUME NEW s \in Seq(Record), NEW t \in Seq(Record), Prefix(s, t), NEW h
  PROVE  /\ Guards(s, h) => Guards(t, h)
         /\ Has(s, h) => Has(t, h)
         /\ Alone(t, h) => Alone(s, h)
         /\ \A i \in 1..Len(s) : i \in 1..Len(t) /\ t[i] = s[i]
<1>1. \A i \in 1..Len(s) : i \in 1..Len(t) /\ t[i] = s[i]
  <2>1. Len(s) \in Nat /\ Len(t) \in Nat /\ Len(s) <= Len(t)
    BY Zenon, SeqFacts DEF Prefix
  <2>2. \A i \in 1..Len(s) : i \in 1..Len(t)
    BY <2>1
  <2> QED BY Zenon, <2>2 DEF Prefix
<1>2. ASSUME NEW i \in 1..Len(s) PROVE \A j \in 1..i : j \in 1..Len(s)
  <2>1. Len(s) \in Nat
    BY Zenon, SeqFacts
  <2> QED BY <2>1
<1>3. \A i \in 1..Len(s) : Reached(s, i) => Reached(t, i)
  BY Zenon, <1>1, <1>2 DEF Reached
<1>4. Guards(s, h) => Guards(t, h)
  BY Zenon, <1>1, <1>3 DEF Guards
<1>5. Has(s, h) => Has(t, h)
  BY Zenon, <1>1, <1>3 DEF Has
<1>6. ASSUME NEW j \in 1..Len(s) PROVE \A i \in 1..(j - 1) : i \in 1..Len(s)
  <2>1. Len(s) \in Nat
    BY Zenon, SeqFacts
  <2> QED BY <2>1
<1>7. Alone(t, h) => Alone(s, h)
  BY Zenon, <1>1, <1>6 DEF Alone
<1> QED BY Zenon, <1>1, <1>4, <1>5, <1>7

\* Records of other ids may follow.
LEMMA AloneGrows ==
  ASSUME NEW s \in Seq(Record), NEW t \in Seq(Record), Prefix(s, t), NEW h, Alone(s, h),
         \A i \in 1..Len(t) : i \notin 1..Len(s) => t[i].id # h.id
  PROVE  Alone(t, h)
<1>1. \A i \in 1..Len(s) : i \in 1..Len(t) /\ t[i] = s[i]
  BY Zenon, PrefixFacts
<1>2. \A i \in 1..Len(t) : t[i].id = h.id => t[i] = h
  BY Zenon, <1>1 DEF Alone
<1>3. ASSUME NEW j \in 1..Len(t), NEW i \in 1..(j - 1), t[j] = h, t[i] \notin Bad PROVE Mark(t[i]) <= h.id
  <2>1. j \in 1..Len(s)
    BY Zenon, <1>3
  <2>2. i \in 1..Len(s)
    <3>1. Len(s) \in Nat
      BY Zenon, SeqFacts
    <3> QED BY <2>1, <3>1
  <2> QED BY Zenon, <1>1, <1>3, <2>1, <2>2 DEF Alone
<1> QED BY Zenon, <1>2, <1>3 DEF Alone

-----------------------------------------------------------------------------
(* The operators of the model *)

\* Torn and Rotten are no records of the store.
LEMMA BadFacts ==
  /\ FenceId \in Nat /\ Torn \in Record /\ Rotten \in Record /\ Torn # Rotten
  /\ Torn.id = FenceId /\ Rotten.id = FenceId
  /\ Torn.blob = FenceId + 1 /\ Rotten.blob = FenceId + 2
<1>1. /\ FenceId \in Nat /\ Torn \in [id : Nat, blob : Nat] /\ Rotten \in [id : Nat, blob : Nat]
      /\ Torn # Rotten /\ Torn.id = FenceId /\ Rotten.id = FenceId
      /\ Torn.blob = FenceId + 1 /\ Rotten.blob = FenceId + 2
  BY ValueAssumption DEF Torn, Rotten
<1> QED BY Zenon, <1>1 DEF Record, Bad

\* scan_records: the records before the first bad one, or all of them.
LEMMA IntactFacts ==
  ASSUME NEW s \in Seq(Record)
  PROVE  /\ Intact(s) \in Seq(Record) /\ Prefix(Intact(s), s)
         /\ \A i \in 1..Len(Intact(s)) : Intact(s)[i] \notin Bad
         /\ \/ Intact(s) = s
            \/ Len(Intact(s)) + 1 \in 1..Len(s) /\ s[Len(Intact(s)) + 1] \in Bad
<1> DEFINE stop == {i \in DOMAIN s : s[i] \in {Torn, Rotten}}
<1>1. Len(s) \in Nat /\ DOMAIN s = 1..Len(s)
  BY Zenon, SeqFacts
<1>2. CASE stop = {}
  <2>1. Intact(s) = s
    BY Zenon, <1>2 DEF Intact
  <2>2. Len(s) <= Len(s)
    BY <1>1
  <2> QED BY Zenon, <1>1, <1>2, <2>1, <2>2 DEF Prefix, Bad
<1>3. CASE stop # {}
  <2>1. stop \in SUBSET Nat
    BY <1>1
  <2>2. \E i \in stop : \A j \in stop : i <= j
    BY Zenon, <1>3, <2>1, LeastElement
  <2>3. PICK m : m = (CHOOSE i \in stop : \A j \in stop : i <= j)
    BY Zenon
  <2>4. m \in stop /\ \A j \in stop : m <= j
    BY Zenon, <2>2, <2>3
  <2>5. Intact(s) = SubSeq(s, 1, m - 1)
    BY Zenon, <1>3, <2>3 DEF Intact
  <2>6. m \in 1..Len(s) /\ m - 1 \in 0..Len(s) /\ (m - 1) + 1 = m /\ s[m] \in Bad
    BY <1>1, <2>4 DEF Bad
  <2>7. /\ SubSeq(s, 1, m - 1) \in Seq(Record) /\ Len(SubSeq(s, 1, m - 1)) = m - 1
        /\ Prefix(SubSeq(s, 1, m - 1), s)
    BY Zenon, <2>6, FirstPart
  <2>8. ASSUME NEW i \in 1..(m - 1) PROVE s[i] \notin Bad
    <3>1. i \in 1..Len(s) /\ ~(m <= i)
      BY <1>1, <2>6
    <3> QED BY Zenon, <1>1, <2>4, <3>1 DEF Bad
  <2> QED BY Zenon, <2>5, <2>6, <2>7, <2>8 DEF Prefix
<1> QED BY Zenon, <1>2, <1>3

\* open: the next id is the highest mark of the log.
LEMMA NextIdFacts ==
  ASSUME NEW s \in Seq(Record)
  PROVE  /\ NextId(s) \in Nat /\ \A i \in 1..Len(s) : Mark(s[i]) <= NextId(s)
         /\ NextId(s) = 0 \/ \E i \in 1..Len(s) : NextId(s) = Mark(s[i])
<1> DEFINE Top(n, m) == /\ m \in Nat /\ \A i \in 1..n : Mark(s[i]) <= m
                        /\ m = 0 \/ \E i \in 1..n : m = Mark(s[i])
           T == {n \in 0..Len(s) : ~\E m : Top(n, m)}
           marks == {IF r.id = FenceId THEN r.blob ELSE r.id + 1 : r \in Elems(s)} \cup {0}
<1>1. /\ Len(s) \in Nat /\ DOMAIN s = 1..Len(s) /\ \A i \in 1..Len(s) : Mark(s[i]) \in Nat
  BY Zenon, SeqFacts
<1>2. Top(0, 0)
  OBVIOUS
<1>3. \A m : m \in marks <=> (m = 0 \/ \E i \in 1..Len(s) : m = Mark(s[i]))
  BY Zenon, <1>1 DEF Elems, Mark
<1>4. \E m : Top(Len(s), m)
  <2>1. SUFFICES ASSUME ~\E m : Top(Len(s), m) PROVE FALSE
    BY Zenon
  <2> HIDE DEF Top
  <2>2. T \in SUBSET Nat /\ Len(s) \in T
    BY <1>1, <2>1
  <2>3. PICK n \in T : \A k \in T : n <= k
    BY Zenon, <2>2, LeastElement
  <2>4. n \in 0..Len(s) /\ ~\E m : Top(n, m)
    BY Zenon, <2>3
  <2>5. n # 0
    BY Zenon, <1>2, <2>4
  <2>6. n - 1 \in 0..Len(s) /\ ~(n <= n - 1) /\ n \in 1..Len(s) /\ n \in 1..n
    BY <1>1, <2>4, <2>5
  <2>7. PICK m : Top(n - 1, m)
    BY Zenon, <2>3, <2>6
  <2>8. \A i \in 1..n : i = n \/ i \in 1..(n - 1)
    BY <2>6
  <2>9. \A i \in 1..(n - 1) : i \in 1..n /\ i \in 1..Len(s)
    BY <1>1, <2>6
  <2> USE DEF Top
  <2>10. CASE Mark(s[n]) <= m
    <3>1. Top(n, m)
      BY Zenon, <2>7, <2>8, <2>9, <2>10
    <3> QED BY Zenon, <2>4, <3>1
  <2>11. CASE m < Mark(s[n])
    <3>1. \A x \in Nat : x <= m => x <= Mark(s[n])
      BY <1>1, <2>6, <2>7, <2>11
    <3>2. Mark(s[n]) <= Mark(s[n]) /\ Mark(s[n]) \in Nat
      BY <1>1, <2>6
    <3>3. Top(n, Mark(s[n]))
      BY Zenon, <1>1, <2>6, <2>7, <2>8, <2>9, <3>1, <3>2
    <3> QED BY Zenon, <2>4, <3>3
  <2>12. Mark(s[n]) <= m \/ m < Mark(s[n])
    BY <1>1, <2>6, <2>7
  <2> QED BY Zenon, <2>10, <2>11, <2>12
<1>5. PICK m : Top(Len(s), m)
  BY Zenon, <1>4
<1>6. m \in marks /\ \A o \in marks : o <= m
  <2>1. 0 <= m
    BY <1>5
  <2> QED BY Zenon, <1>3, <1>5, <2>1
<1>7. \A x \in marks : x \in Nat
  <2>1. 0 \in Nat
    OBVIOUS
  <2> HIDE DEF marks
  <2> QED BY Zenon, <1>1, <1>3, <2>1
<1>8. PICK k : k = NextId(s)
  BY Zenon
<1>9. k \in marks /\ \A o \in marks : o <= k
  BY Zenon, <1>6, <1>8 DEF NextId
<1> QED BY Zenon, <1>3, <1>7, <1>8, <1>9

\* u is what compact keeps of the first n records, f where each was.
Kept(u, n, f, live) ==
  /\ u \in Seq(Record) /\ f \in [1..Len(u) -> 1..n]
  /\ \A k \in 1..Len(u) : u[k] = file[f[k]] /\ u[k].id # FenceId /\ u[k].id \in live
  /\ \A k \in 1..Len(u) : \A l \in 1..(k - 1) : f[l] < f[k]
  /\ \A j \in 1..n : file[j].id # FenceId /\ file[j].id \in live => \E k \in 1..Len(u) : f[k] = j

KeptStep(u, n, live) ==
  IF file[n].id # FenceId /\ file[n].id \in live THEN Append(u, file[n]) ELSE u

\* One more record.
LEMMA KeptGrows ==
  ASSUME file \in Seq(Record), NEW live, NEW n \in 1..Len(file), NEW u, NEW f, Kept(u, n - 1, f, live)
  PROVE  \E g : Kept(KeptStep(u, n, live), n, g, live)
<1>1. /\ Len(file) \in Nat /\ file[n] \in Record /\ n \in Nat /\ n >= 1
      /\ u \in Seq(Record) /\ Len(u) \in Nat /\ f \in [1..Len(u) -> 1..(n - 1)]
  <2>1. Len(file) \in Nat /\ file[n] \in Record /\ u \in Seq(Record) /\ f \in [1..Len(u) -> 1..(n - 1)]
    BY Zenon, SeqFacts DEF Kept
  <2>2. Len(u) \in Nat
    BY Zenon, <2>1, SeqFacts
  <2> QED BY <2>1, <2>2
<1>2. \A j \in 1..n : j = n \/ j \in 1..(n - 1)
  BY <1>1
<1>3. \A j \in 1..(n - 1) : j \in 1..n /\ j < n
  BY <1>1
<1>4. CASE file[n].id # FenceId /\ file[n].id \in live
  <2> DEFINE v == Append(u, file[n])
             g == [k \in 1..(Len(u) + 1) |-> IF k = Len(u) + 1 THEN n ELSE f[k]]
  <2>1. /\ v \in Seq(Record) /\ Len(v) = Len(u) + 1 /\ v[Len(u) + 1] = file[n]
        /\ \A k \in 1..Len(u) : v[k] = u[k]
    BY <1>1
  <2>2. KeptStep(u, n, live) = v
    BY Zenon, <1>4 DEF KeptStep
  <2> HIDE DEF v
  <2>3. /\ \A k \in 1..(Len(u) + 1) : k = Len(u) + 1 \/ k \in 1..Len(u)
        /\ \A k \in 1..Len(u) : k # Len(u) + 1 /\ k \in 1..(Len(u) + 1)
        /\ \A l \in 1..(Len(u) + 1 - 1) : l \in 1..Len(u)
        /\ Len(u) + 1 \in 1..(Len(u) + 1)
        /\ n \in 1..n
        /\ \A k \in 1..Len(u) : \A l \in 1..(k - 1) : l \in 1..Len(u)
    BY <1>1
  <2>4. g[Len(u) + 1] = n /\ \A k \in 1..Len(u) : g[k] = f[k]
    BY Zenon, <2>3
  <2>5. g \in [1..Len(v) -> 1..n]
    BY Zenon, <1>1, <1>3, <2>1, <2>3
  <2> HIDE DEF g
  <2>6. \A k \in 1..Len(v) : v[k] = file[g[k]] /\ v[k].id # FenceId /\ v[k].id \in live
    BY ZenonT(40), <1>4, <2>1, <2>3, <2>4 DEF Kept
  <2>7. ASSUME NEW k \in 1..Len(v), NEW l \in 1..(k - 1) PROVE g[l] < g[k]
    <3>1. CASE k = Len(u) + 1
      <4>1. l \in 1..Len(u)
        BY <1>1, <3>1
      <4>2. f[l] \in 1..(n - 1)
        BY Zenon, <1>1, <4>1
      <4>3. g[l] = f[l] /\ g[k] = n /\ f[l] < n
        BY Zenon, <1>3, <2>4, <3>1, <4>1, <4>2
      <4> QED BY Zenon, <4>3
    <3>2. CASE k \in 1..Len(u)
      BY Zenon, <2>3, <2>4, <2>7, <3>2 DEF Kept
    <3> QED BY Zenon, <2>1, <2>3, <3>1, <3>2
  <2>8. \A j \in 1..n : file[j].id # FenceId /\ file[j].id \in live => \E k \in 1..Len(v) : g[k] = j
    <3> SUFFICES ASSUME NEW j \in 1..n, file[j].id # FenceId, file[j].id \in live
                 PROVE  \E k \in 1..Len(v) : g[k] = j
      BY Zenon
    <3>1. CASE j = n
      BY Zenon, <2>1, <2>3, <2>4, <3>1
    <3>2. CASE j \in 1..(n - 1)
      <4>1. PICK k \in 1..Len(u) : f[k] = j
        BY Zenon, <3>2 DEF Kept
      <4> QED BY Zenon, <2>1, <2>3, <2>4, <4>1
    <3> QED BY Zenon, <1>2, <3>1, <3>2
  <2>9. Kept(v, n, g, live)
    BY Zenon, <2>1, <2>5, <2>6, <2>7, <2>8 DEF Kept
  <2> QED BY Zenon, <2>2, <2>9
<1>5. CASE ~(file[n].id # FenceId /\ file[n].id \in live)
  <2>1. KeptStep(u, n, live) = u
    BY Zenon, <1>5 DEF KeptStep
  <2>2. f \in [1..Len(u) -> 1..n]
    BY Zenon, <1>1, <1>3
  <2>3. Kept(u, n, f, live)
    BY Zenon, <1>2, <1>5, <2>2 DEF Kept
  <2> QED BY Zenon, <2>1, <2>3
<1> QED BY Zenon, <1>4, <1>5

\* compact copies the live records, all of them and in their order.
LEMMA LiveFacts ==
  ASSUME file \in Seq(Record), NEW live
  PROVE  \E f : Kept(LiveRecords(live), Len(file), f, live)
<1> DEFINE F(g, m) == [i \in 0..m |-> IF i = 0 THEN <<>> ELSE KeptStep(g[i - 1], i, live)]
           top == Len(file)
<1>1. top \in Nat
  BY Zenon, SeqFacts
<1> HIDE DEF top
<1>2. \E g : g = F(g, top)
  <2> DEFINE T == {m \in 0..top : ~\E g : g = F(g, m)}
  <2>1. SUFFICES ASSUME ~\E g : g = F(g, top) PROVE FALSE
    BY Zenon
  <2>2. T \in SUBSET Nat /\ top \in T
    BY <1>1, <2>1
  <2>3. PICK m \in T : \A k \in T : m <= k
    BY Zenon, <2>2, LeastElement
  <2>4. m \in 0..top /\ ~\E g : g = F(g, m)
    BY Zenon, <2>3
  <2>5. m # 0
    <3>1. \A i \in 0..0 : i = 0
      OBVIOUS
    <3>2. [i \in 0..0 |-> <<>>] = F([i \in 0..0 |-> <<>>], 0)
      BY Zenon, <3>1
    <3> QED BY Zenon, <2>4, <3>2
  <2>6. m - 1 \in 0..top /\ ~(m <= m - 1)
    BY <1>1, <2>4, <2>5
  <2>7. PICK g : g = F(g, m - 1)
    BY Zenon, <2>3, <2>6
  <2> DEFINE h == [i \in 0..m |-> IF i = m THEN KeptStep(g[m - 1], m, live) ELSE g[i]]
  <2>8. ASSUME NEW i \in 0..m
        PROVE  /\ i # m => i \in 0..(m - 1)
               /\ i # 0 => i - 1 \in 0..m /\ i - 1 # m
    BY <1>1, <2>4
  <2>9. \A i \in 0..m : i # 0 => h[i - 1] = g[i - 1]
    BY Zenon, <2>8
  <2>10. \A i \in 0..m : h[i] = IF i = 0 THEN <<>> ELSE KeptStep(h[i - 1], i, live)
    <3> TAKE i \in 0..m
    <3>1. CASE i = m
      BY Zenon, <2>5, <2>9, <3>1
    <3>2. CASE i # m
      <4>1. h[i] = g[i] /\ i \in 0..(m - 1)
        BY Zenon, <2>8, <3>2
      <4>2. g[i] = IF i = 0 THEN <<>> ELSE KeptStep(g[i - 1], i, live)
        BY Zenon, <2>7, <4>1
      <4> QED BY Zenon, <2>9, <4>1, <4>2
    <3> QED BY Zenon, <3>1, <3>2
  <2>11. h = F(h, m)
    BY Zenon, <2>10
  <2> QED BY Zenon, <2>4, <2>11
<1>3. PICK g : g = (CHOOSE x : x = F(x, top))
  BY Zenon
<1>4. g = F(g, top)
  BY Zenon, <1>2, <1>3
<1>5. LiveRecords(live) = g[top]
  BY Zenon, <1>3 DEF LiveRecords, KeptStep, top
<1>6. \E f : Kept(g[top], top, f, live)
  <2> DEFINE T == {m \in 0..top : ~\E f : Kept(g[m], m, f, live)}
  <2>1. SUFFICES ASSUME ~\E f : Kept(g[top], top, f, live) PROVE FALSE
    BY Zenon
  <2>2. T \in SUBSET Nat /\ top \in T
    BY <1>1, <2>1
  <2>3. PICK m \in T : \A k \in T : m <= k
    BY Zenon, <2>2, LeastElement
  <2>4. m \in 0..top /\ ~\E f : Kept(g[m], m, f, live)
    BY Zenon, <2>3
  <2>5. m # 0
    <3>1. SUFFICES ASSUME m = 0 PROVE FALSE
      BY Zenon
    <3>2. g[m] = <<>>
      BY Zenon, <1>4, <2>4, <3>1
    <3>3. <<>> \in Seq(Record) /\ Len(<<>>) = 0 /\ 1..0 = {} /\ \A S : <<>> \in [{} -> S]
      OBVIOUS
    <3>4. Kept(<<>>, 0, <<>>, live)
      BY Zenon, <3>3 DEF Kept
    <3> QED BY Zenon, <2>4, <3>1, <3>2, <3>4
  <2>6. m - 1 \in 0..top /\ ~(m <= m - 1) /\ m \in 1..top
    BY <1>1, <2>4, <2>5
  <2>7. PICK f : Kept(g[m - 1], m - 1, f, live)
    BY Zenon, <2>3, <2>6
  <2>8. g[m] = KeptStep(g[m - 1], m, live)
    BY Zenon, <1>4, <2>4, <2>5
  <2>9. m \in 1..Len(file)
    BY Zenon, <2>6 DEF top
  <2> QED BY Zenon, <2>4, <2>7, <2>8, <2>9, KeptGrows
<1> QED BY Zenon, <1>5, <1>6 DEF top

-----------------------------------------------------------------------------
(* Parts of the invariant *)

\* The types of the parts.
LEMMA TypeFacts ==
  ASSUME TypeOK
  PROVE  /\ file \in Seq(Record) /\ sure \in Seq(Record) /\ maybe \in Seq(Record)
         /\ Len(file) \in Nat /\ Len(sure) \in Nat /\ Len(maybe) \in Nat
         /\ Current.sure = sure /\ Current.maybe = maybe
         /\ nextId \in Nat /\ end \in Nat /\ puts \in Nat /\ FenceId \in Nat
<1>1. Current.sure = sure /\ Current.maybe = maybe
  BY DEF Current
<1>2. file \in Seq(Record) /\ sure \in Seq(Record) /\ maybe \in Seq(Record)
  BY Zenon, <1>1 DEF TypeOK, Log
<1> QED BY Zenon, <1>1, <1>2, SeqFacts, BadFacts DEF TypeOK

\* A handle is a record, and neither a fence nor a bad one.
LEMMA HandleFacts ==
  ASSUME TypeOK, NEW h \in issued
  PROVE  /\ h \in Record /\ h.id \in Nat /\ h.id < FenceId /\ h.id # FenceId
         /\ h \notin Bad /\ Mark(h) = h.id + 1 /\ h.id < Mark(h)
<1>1. h \in Record /\ h.id < FenceId
  BY Zenon DEF TypeOK
<1>2. h.id \in Nat
  BY Zenon, <1>1 DEF Record
<1>3. FenceId \in Nat
  BY Zenon, BadFacts
<1>4. h.id # FenceId /\ h.id < h.id + 1
  BY <1>1, <1>2, <1>3
<1>5. h \notin Bad
  BY Zenon, <1>4, BadFacts DEF Bad
<1>6. Mark(h) = h.id + 1
  BY Zenon, <1>4 DEF Mark
<1> QED BY Zenon, <1>1, <1>2, <1>4, <1>5, <1>6

\* A log with a handle's record keeps its id from being given again.
LEMMA HasGuards ==
  ASSUME TypeOK, NEW h \in issued, NEW s, Has(s, h)
  PROVE  Guards(s, h)
  BY Zenon, HandleFacts DEF Has, Guards

\* The logs of the durable directory, when no record is dropped.
LEMMA SameLogs ==
  ASSUME dropped \subseteq dropped', NEW b, NEW h, LogOK(b, h)
  PROVE  LogOK(b, h)'
  BY Zenon DEF LogOK, Alone, Guards, Has, Reached, Bad, Torn, Rotten, Mark

\* Concatenation is associative.
LEMMA ConcatAssoc ==
  ASSUME NEW s \in Seq(Record), NEW u \in Seq(Record), NEW v \in Seq(Record)
  PROVE  s \o (u \o v) = (s \o u) \o v
  BY SMTT(30), SMTT(60)

\* Nothing follows.
LEMMA ConcatEmpty == ASSUME NEW s \in Seq(Record) PROVE s \o <<>> = s
  OBVIOUS

\* A log followed by records of other ids.
LEMMA AloneConcat ==
  ASSUME NEW s \in Seq(Record), NEW u \in Seq(Record), NEW h, Alone(s, h),
         \A i \in 1..Len(u) : u[i].id # h.id
  PROVE  Alone(s \o u, h)
<1>1. /\ s \o u \in Seq(Record) /\ Prefix(s, s \o u)
      /\ \A i \in 1..Len(s \o u) : i \in 1..Len(s) \/ (i - Len(s) \in 1..Len(u) /\ (s \o u)[i] = u[i - Len(s)])
  BY Zenon, ConcatFacts
<1>2. PICK t \in Seq(Record) : t = s \o u
  BY Zenon, <1>1
<1>3. \A i \in 1..Len(t) : i \notin 1..Len(s) => t[i].id # h.id
  BY Zenon, <1>1, <1>2
<1>4. Prefix(s, t)
  BY Zenon, <1>1, <1>2
<1> QED BY Zenon, <1>2, <1>3, <1>4, AloneGrows

\* A first part of what follows makes a first part of the whole.
LEMMA PrefixConcat ==
  ASSUME NEW s \in Seq(Record), NEW u \in Seq(Record), NEW v \in Seq(Record), Prefix(u, v)
  PROVE  Prefix(s \o u, s \o v)
<1>1. Len(s) \in Nat /\ Len(u) \in Nat /\ Len(v) \in Nat
  BY Zenon, SeqFacts
<1>2. Len(u) <= Len(v) /\ \A i \in 1..Len(u) : i \in 1..Len(v) /\ u[i] = v[i]
  BY Zenon, PrefixFacts DEF Prefix
<1>3. /\ Len(s \o u) = Len(s) + Len(u)
      /\ \A i \in 1..(Len(s) + Len(u)) : (s \o u)[i] = IF i <= Len(s) THEN s[i] ELSE u[i - Len(s)]
  OBVIOUS
<1>4. /\ Len(s \o v) = Len(s) + Len(v)
      /\ \A i \in 1..(Len(s) + Len(v)) : (s \o v)[i] = IF i <= Len(s) THEN s[i] ELSE v[i - Len(s)]
  OBVIOUS
<1>5. Len(s) + Len(u) <= Len(s) + Len(v)
  BY <1>1, <1>2
<1>6. ASSUME NEW i \in 1..(Len(s) + Len(u)) PROVE (s \o u)[i] = (s \o v)[i]
  <2>1. i \in 1..(Len(s) + Len(v)) /\ (i <= Len(s) \/ i - Len(s) \in 1..Len(u))
    BY <1>1, <1>2
  <2>2. CASE i <= Len(s)
    BY Zenon, <1>3, <1>4, <2>1, <2>2
  <2>3. CASE ~(i <= Len(s))
    <3>1. (s \o u)[i] = u[i - Len(s)]
      BY Zenon, <1>3, <2>3
    <3>2. (s \o v)[i] = v[i - Len(s)]
      BY Zenon, <1>4, <2>1, <2>3
    <3> QED BY Zenon, <1>2, <2>1, <2>3, <3>1, <3>2
  <2> QED BY Zenon, <2>2, <2>3
<1> QED BY Zenon, <1>3, <1>4, <1>5, <1>6 DEF Prefix

\* The index of a log has the place of each record that is not a fence.
LEMMA IndexFacts ==
  ASSUME NEW s \in Seq(Record)
  PROVE  /\ IndexOf(s) \subseteq [id : Nat, at : Nat]
         /\ \A e \in IndexOf(s) : e.at \in 1..Len(s) /\ e.id = s[e.at].id /\ e.id # FenceId
         /\ \A i \in 1..Len(s) : s[i].id # FenceId => \E e \in IndexOf(s) : e.id = s[i].id
<1>1. DOMAIN s = 1..Len(s) /\ \A i \in 1..Len(s) : i \in Nat /\ s[i].id \in Nat
  BY Zenon, SeqFacts
<1> DEFINE E(i) == [id |-> s[i].id, at |-> i]
<1>2. \A i : E(i).id = s[i].id /\ E(i).at = i
  OBVIOUS
<1>3. \A i \in 1..Len(s) : E(i) \in [id : Nat, at : Nat]
  BY <1>1
<1>4. \A e : e \in IndexOf(s) <=> \E i \in 1..Len(s) : s[i].id # FenceId /\ e = E(i)
  BY Zenon, <1>1 DEF IndexOf
<1> HIDE DEF E
<1>5. IndexOf(s) \subseteq [id : Nat, at : Nat]
  BY Zenon, <1>3, <1>4
<1>6. \A e \in IndexOf(s) : e.at \in 1..Len(s) /\ e.id = s[e.at].id /\ e.id # FenceId
  <2> TAKE e \in IndexOf(s)
  <2>1. PICK i \in 1..Len(s) : s[i].id # FenceId /\ e = E(i)
    BY Zenon, <1>4
  <2>2. e.id = s[i].id /\ e.at = i
    BY Zenon, <1>2, <2>1
  <2> QED BY Zenon, <2>1, <2>2
<1>7. \A i \in 1..Len(s) : s[i].id # FenceId => \E e \in IndexOf(s) : e.id = s[i].id
  BY Zenon, <1>2, <1>4
<1> QED BY Zenon, <1>5, <1>6, <1>7

\* What the index of a log says of a handle.
LEMMA IndexOfHandle ==
  ASSUME TypeOK, NEW s \in Seq(Record), NEW h \in issued, Alone(s, h)
  PROVE  /\ \A e \in IndexOf(s) : e.id = h.id => s[e.at] = h
         /\ Has(s, h) => \E e \in IndexOf(s) : e.id = h.id
<1>1. h.id # FenceId
  BY Zenon, HandleFacts
<1>2. /\ \A e \in IndexOf(s) : e.at \in 1..Len(s) /\ e.id = s[e.at].id
      /\ \A i \in 1..Len(s) : s[i].id # FenceId => \E e \in IndexOf(s) : e.id = s[i].id
  BY Zenon, IndexFacts
<1> QED BY ZenonT(40), <1>1, <1>2 DEF Alone, Has

\* The ids of an index are below the marks' bound.
LEMMA IndexBelow ==
  ASSUME NEW s \in Seq(Record), NEW n \in Nat, \A i \in 1..Len(s) : Mark(s[i]) <= n
  PROVE  \A e \in IndexOf(s) : e.id < n
<1> TAKE e \in IndexOf(s)
<1>1. e.at \in 1..Len(s) /\ e.id = s[e.at].id /\ e.id # FenceId /\ e.id \in Nat
  BY Zenon, IndexFacts, SeqFacts
<1>2. e.id + 1 <= n
  BY Zenon, <1>1 DEF Mark
<1> QED BY <1>1, <1>2

\* A record that rots takes no other handle's record with it.
LEMMA RotFacts ==
  ASSUME TypeOK, NEW h \in issued, NEW s \in Seq(Record), NEW t \in Seq(Record), NEW i \in 1..Len(s),
         Len(t) = Len(s), t[i] = Rotten, \A j \in 1..Len(s) : j # i => t[j] = s[j]
  PROVE  /\ Alone(s, h) => Alone(t, h)
         /\ Guards(t, h)
         /\ s[i] # h /\ Has(s, h) => Has(t, h)
<1>1. h.id # FenceId /\ h \notin Bad
  BY Zenon, HandleFacts
<1>2. Rotten.id = FenceId /\ Rotten \in Bad /\ Rotten # Torn
  BY Zenon, BadFacts DEF Bad
<1>3. ASSUME NEW j \in 1..Len(s) PROVE /\ \A k \in 1..(j - 1) : k \in 1..Len(s)
                                       /\ \A k \in 1..j : k \in 1..Len(s)
  <2>1. Len(s) \in Nat
    BY Zenon, SeqFacts
  <2> QED BY <2>1
<1>4. Alone(s, h) => Alone(t, h)
  BY Zenon, <1>1, <1>2, <1>3 DEF Alone
<1>5. Guards(t, h)
  BY Zenon DEF Guards
<1>6. s[i] # h /\ Has(s, h) => Has(t, h)
  BY ZenonT(40), <1>2, <1>3 DEF Has, Reached
<1> QED BY Zenon, <1>4, <1>5, <1>6

\* A step that leaves the logs and the handles alone, or forgets older logs.
LEMMA SameDisk ==
  ASSUME DiskInv, file' = file, sure' = sure, maybe' = maybe, behind' \subseteq behind, dropped' = dropped,
         issued' = issued, shaky' = shaky, damaged' = damaged
  PROVE  DiskInv'
<1>1. Sound' = Sound /\ Current' = Current
  BY Zenon DEF Sound, Current
<1>2. \A h : Alone(file, h) => Alone(file, h)'
  BY Zenon DEF Alone, Bad, Torn, Rotten, Mark
<1>3. \A b \in (behind \cup {Current})' : b \in behind \cup {Current}
  BY Zenon, <1>1
<1>4. \A b, h : LogOK(b, h) => LogOK(b, h)'
  BY Zenon, SameLogs
<1> QED BY Zenon, <1>1, <1>2, <1>3, <1>4 DEF DiskInv

-----------------------------------------------------------------------------
(* The steps *)

\* A fresh store has no handle to keep.
LEMMA ValueInit == Init => ValueInv
<1> SUFFICES ASSUME Init PROVE ValueInv
  BY Zenon
<1>1. Len(<<>>) = 0 /\ <<>> \in Seq(Record) /\ 1..0 = {} /\ 0 \in Nat /\ 0 <= 0
  OBVIOUS
<1>2. FenceId \in Nat /\ 0 <= FenceId
  BY BadFacts
<1>3. Current \in Log
  BY Zenon, <1>1 DEF Init, Current, Log
<1>4. TypeOK
  BY Zenon, <1>1, <1>3 DEF Init, TypeOK
<1>5. Prefix(sure, file)
  BY Zenon, <1>1 DEF Init, Prefix
<1>6. Sound = {}
  BY Zenon DEF Init, Sound
<1>7. DiskInv
  BY Zenon, <1>6 DEF DiskInv
<1>8. OpenInv
  BY Zenon, <1>1, <1>2, <1>6 DEF Init, OpenInv
<1>9. pc # "closed"
  BY Zenon DEF Init
<1> QED BY Zenon, <1>4, <1>5, <1>7, <1>8, <1>9 DEF ValueInv

\* put: a failed sync changes nothing but what put does next.
LEMMA SyncFailsKeeps == ValueInv /\ SyncFails => ValueInv'
<1> SUFFICES ASSUME ValueInv, SyncFails PROVE ValueInv'
  BY Zenon
<1>1. /\ pc = "sync" /\ pc' = "roll_back" /\ UNCHANGED <<file, sure, maybe, behind>>
      /\ UNCHANGED <<index, nextId, end, poisoned, puts>> /\ UNCHANGED <<issued, shaky, dropped, damaged>>
  BY Zenon DEF SyncFails, disk, memory, counters, ghosts
<1>2. TypeOK /\ Prefix(sure, file) /\ DiskInv /\ OpenInv
  BY Zenon, <1>1 DEF ValueInv
<1>3. TypeOK' /\ Prefix(sure, file)'
  BY Zenon, <1>1, <1>2 DEF TypeOK, Current, Prefix
<1>4. DiskInv'
  BY Zenon, <1>1, <1>2, SameDisk
<1>5. OpenInv'
  BY ZenonT(40), <1>1, <1>2 DEF OpenInv, Sound, Torn, Rotten, Mark
<1> QED BY Zenon, <1>1, <1>3, <1>4, <1>5 DEF ValueInv

\* compact: the directory is synced and the older logs are gone, or it is not.
LEMMA SyncDirKeeps == ValueInv /\ (SyncDirOk \/ SyncDirFails) => ValueInv'
<1> SUFFICES ASSUME ValueInv, SyncDirOk \/ SyncDirFails PROVE ValueInv'
  BY Zenon
<1>1. /\ pc = "sync_dir" /\ pc' = "idle" /\ UNCHANGED <<file, sure, maybe>> /\ behind' \subseteq behind
      /\ UNCHANGED <<index, nextId, end, poisoned, puts>> /\ UNCHANGED <<issued, shaky, dropped, damaged>>
  BY Zenon DEF SyncDirOk, SyncDirFails, disk, memory, counters, ghosts
<1>2. TypeOK /\ Prefix(sure, file) /\ DiskInv /\ OpenInv
  BY Zenon, <1>1 DEF ValueInv
<1>3. TypeOK' /\ Prefix(sure, file)'
  BY Zenon, <1>1, <1>2 DEF TypeOK, Current, Prefix
<1>4. DiskInv'
  BY Zenon, <1>1, <1>2, SameDisk
<1>5. OpenInv'
  BY ZenonT(40), <1>1, <1>2 DEF OpenInv, Sound, Torn, Rotten, Mark
<1> QED BY Zenon, <1>1, <1>3, <1>4, <1>5 DEF ValueInv

\* The process dies; the logs stay as they are.
LEMMA ExitKeeps == ValueInv /\ Exit => ValueInv'
<1> SUFFICES ASSUME ValueInv, Exit PROVE ValueInv'
  BY Zenon
<1>1. /\ pc' = "closed" /\ UNCHANGED <<file, sure, maybe, behind>>
      /\ index' = {} /\ nextId' = 0 /\ end' = 0 /\ poisoned' = FALSE /\ puts' = puts
      /\ UNCHANGED <<issued, shaky, dropped, damaged>>
  BY Zenon DEF Exit, Closed, disk, ghosts
<1>2. TypeOK /\ Prefix(sure, file) /\ DiskInv /\ 0 \in Nat
  BY DEF ValueInv
<1>3. TypeOK' /\ Prefix(sure, file)'
  BY Zenon, <1>1, <1>2 DEF TypeOK, Current, Prefix
<1>4. DiskInv'
  BY Zenon, <1>1, <1>2, SameDisk
<1> QED BY Zenon, <1>1, <1>3, <1>4 DEF ValueInv

\* A step that changes nothing.
LEMMA StutterKeeps == ValueInv /\ UNCHANGED vars => ValueInv'
<1> SUFFICES ASSUME ValueInv, UNCHANGED vars PROVE ValueInv'
  BY Zenon
<1>1. /\ UNCHANGED <<pc, file, sure, maybe, behind>>
      /\ UNCHANGED <<index, nextId, end, poisoned, puts>> /\ UNCHANGED <<issued, shaky, dropped, damaged>>
  BY Zenon DEF vars
<1>2. TypeOK /\ Prefix(sure, file) /\ DiskInv /\ IF pc = "closed" THEN index = {} ELSE OpenInv
  BY Zenon DEF ValueInv
<1>3. TypeOK' /\ Prefix(sure, file)'
  BY Zenon, <1>1, <1>2 DEF TypeOK, Current, Prefix
<1>4. DiskInv'
  BY Zenon, <1>1, <1>2, SameDisk
<1>5. OpenInv => OpenInv'
  BY ZenonT(40), <1>1 DEF OpenInv, Sound, Torn, Rotten, Mark
<1> QED BY Zenon, <1>1, <1>2, <1>3, <1>4, <1>5 DEF ValueInv

\* The record put writes, or the part of it, has an id no handle has.
LEMMA PutWriteKeeps == ASSUME NEW w \in {"all", "part", "nothing"} PROVE ValueInv /\ PutWrite(w) => ValueInv'
<1> SUFFICES ASSUME ValueInv, PutWrite(w) PROVE ValueInv'
  BY Zenon
<1> DEFINE rec == [id |-> nextId, blob |-> puts + 1]
           out == CASE w = "all" -> <<rec>> [] w = "part" -> <<Torn>> [] w = "nothing" -> <<>>
<1>1. /\ pc = "idle" /\ ~poisoned /\ nextId # FenceId /\ puts' = puts + 1
      /\ file' = file \o out /\ maybe' = maybe \o out
      /\ pc' = IF w = "all" THEN "sync" ELSE "roll_back"
      /\ UNCHANGED <<sure, behind, index, nextId, end, poisoned, issued, shaky, dropped, damaged>>
  BY Zenon DEF PutWrite, memory, ghosts
<1>2. TypeOK /\ Prefix(sure, file) /\ DiskInv /\ OpenInv
  BY Zenon, <1>1 DEF ValueInv
<1>3. /\ file \in Seq(Record) /\ sure \in Seq(Record) /\ maybe \in Seq(Record)
      /\ Len(file) \in Nat /\ Len(sure) \in Nat
      /\ nextId \in Nat /\ end \in Nat /\ puts \in Nat /\ FenceId \in Nat
      /\ Current.sure = sure /\ Current.maybe = maybe
  BY Zenon, <1>2, TypeFacts
<1>4. rec \in Record /\ rec.id = nextId /\ Torn \in Record /\ Torn.id = FenceId
  <2>1. rec \in [id : Nat, blob : Nat] /\ rec.id = nextId
    BY <1>3
  <2>2. nextId <= FenceId
    BY Zenon, <1>2 DEF OpenInv
  <2>3. nextId + 1 <= FenceId
    BY <1>1, <1>3, <2>2
  <2>4. Mark(rec) <= FenceId
    BY Zenon, <1>1, <2>1, <2>3 DEF Mark
  <2> QED BY Zenon, <2>1, <2>4, BadFacts DEF Record
<1> HIDE DEF rec
<1>5. out \in Seq(Record) /\ \A i \in 1..Len(out) : out[i] \in {rec, Torn}
  <2>1. \A r \in {rec, Torn} : <<r>> \in Seq(Record) /\ \A i \in 1..Len(<<r>>) : <<r>>[i] = r
    BY <1>4
  <2>2. <<>> \in Seq(Record) /\ \A i \in 1..Len(<<>>) : FALSE
    OBVIOUS
  <2>3. CASE w = "all"
    <3>1. out = <<rec>> BY <2>3
    <3> QED BY Zenon, <2>1, <3>1
  <2>4. CASE w = "part"
    <3>1. out = <<Torn>> BY <2>4
    <3> QED BY Zenon, <2>1, <3>1
  <2>5. CASE w = "nothing"
    <3>1. out = <<>> BY <2>5
    <3> QED BY Zenon, <2>2, <3>1
  <2> QED BY Zenon, <2>3, <2>4, <2>5
<1>6. w = "all" => Len(out) = 1 /\ out[1] = rec /\ 1 \in 1..Len(out)
  <2>1. w = "all" => out = <<rec>> OBVIOUS
  <2> HIDE DEF out
  <2> QED BY <2>1
<1> HIDE DEF out
<1>7. /\ file' \in Seq(Record) /\ Len(file') = Len(file) + Len(out) /\ Prefix(file, file')
      /\ \A i \in 1..Len(out) : file'[Len(file) + i] = out[i]
  <2>1. /\ file \o out \in Seq(Record) /\ Len(file \o out) = Len(file) + Len(out) /\ Prefix(file, file \o out)
        /\ \A i \in 1..Len(out) : (file \o out)[Len(file) + i] = out[i]
    BY ZenonT(40), <1>3, <1>5, ConcatFacts
  <2> QED BY Zenon, <1>1, <2>1
<1>8. maybe' \in Seq(Record)
  BY Zenon, <1>1, <1>3, <1>5, ConcatFacts
<1>9. TypeOK'
  <2>1. Current' \in Log
    BY Zenon, <1>1, <1>3, <1>8 DEF Current, Log
  <2>2. puts' \in Nat
    BY <1>1, <1>3
  <2>3. pc' \in {"idle", "sync", "roll_back", "sync_dir", "closed"}
    BY Zenon, <1>1
  <2> QED BY Zenon, <1>1, <1>2, <1>7, <2>1, <2>2, <2>3 DEF TypeOK
<1>10. Len(file) = end
  BY Zenon, <1>1, <1>2 DEF OpenInv
<1>11. \A i \in 1..Len(file) : i \in 1..Len(file') /\ file'[i] = file[i]
  BY Zenon, <1>3, <1>7, PrefixFacts
<1>12. Prefix(sure, file)'
  <2>1. Len(sure) <= Len(file) /\ \A i \in 1..Len(sure) : i \in 1..Len(file) /\ sure[i] = file[i]
    BY Zenon, <1>2, <1>3, PrefixFacts DEF Prefix
  <2>2. Len(sure) <= Len(file')
    <3>1. Len(file') \in Nat /\ Len(file) <= Len(file')
      BY Zenon, <1>7, SeqFacts DEF Prefix
    <3> QED BY <1>3, <2>1, <3>1
  <2> QED BY Zenon, <1>1, <1>11, <2>1, <2>2 DEF Prefix
<1>13. Sound' = Sound
  BY Zenon, <1>1 DEF Sound
<1>14. DiskInv'
  <2> SUFFICES ASSUME NEW h \in Sound
               PROVE  Alone(file, h)' /\ \A b \in (behind \cup {Current})' : LogOK(b, h)'
    BY Zenon, <1>13 DEF DiskInv
  <2>1. h \in issued /\ h.id < nextId /\ h.id \in Nat /\ h.id < FenceId
    BY Zenon, <1>2, HandleFacts DEF OpenInv, Sound
  <2>2. rec.id # h.id /\ Torn.id # h.id
    BY <1>3, <1>4, <2>1
  <2>3. \A i \in 1..Len(out) : out[i].id # h.id
    BY Zenon, <1>5, <2>2
  <2>4. Alone(file, h) /\ \A b \in behind \cup {Current} : LogOK(b, h)
    BY Zenon, <1>2 DEF DiskInv
  <2>5. Alone(file \o out, h)
    BY Zenon, <1>3, <1>5, <2>3, <2>4, AloneConcat
  <2>6. Alone(file, h)'
    BY Zenon, <1>1, <2>5 DEF Alone, Bad, Torn, Rotten, Mark
  <2>7. \A b \in behind : LogOK(b, h)'
    BY Zenon, <1>1, <2>4, SameLogs
  <2>8. LogOK(Current, h)
    BY Zenon, <2>4
  <2>9. Alone(sure \o maybe, h) /\ Guards(sure, h) /\ (h \notin dropped => Has(sure, h))
    BY Zenon, <1>3, <2>8 DEF LogOK
  <2>10. sure \o maybe \in Seq(Record)
    BY Zenon, <1>3, ConcatFacts
  <2>11. Alone((sure \o maybe) \o out, h)
    BY Zenon, <1>5, <2>3, <2>9, <2>10, AloneConcat
  <2>12. Alone(sure \o maybe', h)
    BY ZenonT(40), <1>1, <1>3, <1>5, <2>11, ConcatAssoc
  <2>13. Current'.sure = sure /\ Current'.maybe = maybe'
    BY <1>1 DEF Current
  <2>14. LogOK(Current', h)
    BY Zenon, <2>9, <2>12, <2>13 DEF LogOK
  <2>15. \A b : LogOK(b, h) => LogOK(b, h)'
    BY Zenon, <1>1, SameLogs
  <2>16. \A b \in (behind \cup {Current})' : b \in behind \/ b = Current'
    BY Zenon, <1>1
  <2> QED BY Zenon, <2>6, <2>7, <2>14, <2>15, <2>16
<1>15. OpenInv'
  <2>1. Len(sure) <= end /\ end <= Len(file') /\ nextId <= FenceId
    <3>1. Len(file) <= Len(file') BY Zenon, <1>7 DEF Prefix
    <3> QED BY Zenon, <1>2, <1>10, <3>1 DEF OpenInv
  <2>2. \A i \in 1..end : file'[i] = file[i]
    BY Zenon, <1>10, <1>11
  <2>3. w = "all" => /\ Len(file') = end + 1 /\ nextId < FenceId
                     /\ file'[end + 1] = [id |-> nextId, blob |-> puts']
    <3>1. nextId < FenceId
      BY <1>1, <1>3, <2>1
    <3> QED BY Zenon, <1>1, <1>6, <1>7, <1>10, <3>1 DEF rec
  <2>4. \A e \in index : e.at \in 1..end /\ file'[e.at] = file[e.at]
    BY Zenon, <1>2, <2>2 DEF OpenInv
  <2>5. pc' = "sync" => w = "all"
    BY Zenon, <1>1
  <2>6. ~(pc' = "sync_dir" \/ pc' = "idle")
    BY Zenon, <1>1
  <2>7. \A i \in 1..end : file'[i] # Torn /\ (file'[i] = Rotten \/ Mark(file'[i]) <= nextId)
    BY Zenon, <1>2, <2>2 DEF OpenInv
  <2>8. \A h \in Sound : /\ h.id < nextId
                         /\ \A e \in index : e.id = h.id => file'[e.at] = h
                         /\ h \notin dropped => \E e \in index : e.id = h.id
    BY Zenon, <1>2, <2>4 DEF OpenInv
  <2>9. \A e \in index : e.at \in 1..end /\ e.id < nextId
    BY Zenon, <1>2 DEF OpenInv
  <2> QED BY Zenon, <1>1, <1>13, <2>1, <2>3, <2>5, <2>6, <2>7, <2>8, <2>9 DEF OpenInv, Torn, Rotten, Mark
<1>16. pc' # "closed"
  BY Zenon, <1>1
<1> QED BY Zenon, <1>9, <1>12, <1>14, <1>15, <1>16 DEF ValueInv

\* The synced record is the handle's: its id is above every mark of the log.
LEMMA SyncOkKeeps == ValueInv /\ SyncOk => ValueInv'
<1> SUFFICES ASSUME ValueInv, SyncOk PROVE ValueInv'
  BY Zenon
<1> DEFINE rec == file[Len(file)]
           top == Len(file)
<1>1. /\ pc = "sync" /\ pc' = "idle" /\ sure' = file /\ maybe' = <<>> /\ file' = file /\ behind' = behind
      /\ end' = top /\ nextId' = nextId + 1 /\ index' = index \cup {[id |-> nextId, at |-> top]}
      /\ issued' = issued \cup {rec}
      /\ shaky' = IF behind = {} THEN shaky ELSE shaky \cup {rec}
      /\ UNCHANGED <<poisoned, puts, dropped, damaged>>
  BY Zenon DEF SyncOk, counters
<1>2. TypeOK /\ Prefix(sure, file) /\ DiskInv /\ OpenInv
  BY Zenon, <1>1 DEF ValueInv
<1>3. /\ file \in Seq(Record) /\ sure \in Seq(Record)
      /\ top \in Nat /\ Len(sure) \in Nat
      /\ nextId \in Nat /\ end \in Nat /\ puts \in Nat /\ FenceId \in Nat
      /\ Current.sure = sure
  BY Zenon, <1>2, TypeFacts
<1>4. /\ top = end + 1 /\ nextId < FenceId /\ rec = [id |-> nextId, blob |-> puts]
  BY Zenon, <1>1, <1>2 DEF OpenInv
<1>5. rec.id = nextId /\ rec \in Record /\ rec.id # FenceId /\ nextId < nextId + 1 /\ nextId + 1 \in Nat
  <2>1. rec.id = nextId /\ rec.id # FenceId /\ nextId < nextId + 1 /\ nextId + 1 \in Nat
    BY <1>3, <1>4
  <2>2. top \in 1..top
    BY <1>3, <1>4
  <2> QED BY Zenon, <1>3, <2>1, <2>2, SeqFacts
<1>6. rec \notin Bad /\ rec # Torn /\ Mark(rec) = nextId + 1
  BY Zenon, <1>5, BadFacts DEF Bad, Mark
<1>7. /\ \A i \in 1..top : i = top \/ i \in 1..end
      /\ \A i \in 1..end : i \in 1..top
      /\ \A i \in 1..(top - 1) : i \in 1..end
      /\ top \in 1..top /\ end <= top /\ top <= top
  BY <1>3, <1>4
<1>8. \A i \in 1..end : file[i] # Torn /\ (file[i] = Rotten \/ Mark(file[i]) <= nextId) /\ Mark(file[i]) \in Nat
  BY Zenon, <1>2, <1>3, <1>7, SeqFacts DEF OpenInv
<1>9. \A i \in 1..end : file[i].id # nextId
  <2> TAKE i \in 1..end
  <2>1. CASE file[i].id = FenceId
    BY Zenon, <1>4, <1>5, <2>1
  <2>2. CASE file[i].id # FenceId
    <3>1. Mark(file[i]) = file[i].id + 1 /\ file[i].id \in Nat
      BY Zenon, <1>3, <1>7, <2>2, SeqFacts DEF Mark
    <3>2. file[i] # Rotten
      BY Zenon, <2>2, BadFacts
    <3>3. file[i].id + 1 <= nextId
      BY Zenon, <1>8, <3>1, <3>2
    <3> QED BY <1>3, <3>1, <3>3
  <2> QED BY Zenon, <2>1, <2>2
<1>10. Alone(file, rec)
  <2>1. \A i \in 1..Len(file) : file[i].id = rec.id => file[i] = rec
    BY Zenon, <1>5, <1>7, <1>9
  <2>2. ASSUME NEW j \in 1..Len(file), NEW i \in 1..(j - 1), file[j] = rec, file[i] \notin Bad
        PROVE  Mark(file[i]) <= rec.id
    <3>1. j = top
      BY Zenon, <1>5, <1>7, <1>9, <2>2
    <3>2. i \in 1..end
      BY Zenon, <1>7, <3>1
    <3> QED BY Zenon, <1>5, <1>8, <2>2, <3>2 DEF Bad
  <2> QED BY Zenon, <2>1, <2>2 DEF Alone
<1>11. \A i \in 1..top : file[i] # Torn
  BY Zenon, <1>6, <1>7, <1>8
<1>12. Reached(file, top)
  BY Zenon, <1>11 DEF Reached
<1>13. Has(file, rec) /\ Guards(file, rec)
  BY Zenon, <1>5, <1>6, <1>7, <1>12 DEF Has, Guards
<1>14. TypeOK'
  <2>1. <<>> \in Seq(Record)
    OBVIOUS
  <2>2. Current' \in Log
    BY Zenon, <1>1, <1>3, <2>1 DEF Current, Log
  <2>3. rec.id < FenceId
    BY Zenon, <1>4, <1>5
  <2>4. issued' \subseteq {r \in Record : r.id < FenceId}
    BY Zenon, <1>1, <1>2, <1>5, <2>3 DEF TypeOK
  <2>5. index' \subseteq [id : Nat, at : Nat]
    <3>1. [id |-> nextId, at |-> top] \in [id : Nat, at : Nat]
      BY <1>3
    <3> QED BY Zenon, <1>1, <1>2, <3>1 DEF TypeOK
  <2> QED BY Zenon, <1>1, <1>2, <1>3, <1>5, <2>2, <2>4, <2>5 DEF TypeOK
<1>15. Prefix(sure, file)'
  BY Zenon, <1>1, <1>7 DEF Prefix
<1>16. \A h \in Sound' : h \in Sound \/ (h = rec /\ behind = {})
  BY Zenon, <1>1 DEF Sound
<1>17. DiskInv'
  <2> SUFFICES ASSUME NEW h \in Sound'
               PROVE  Alone(file, h)' /\ \A b \in (behind \cup {Current})' : LogOK(b, h)'
    BY Zenon DEF DiskInv
  <2>1. Current'.sure = file /\ Current'.maybe = <<>> /\ file \o <<>> = file
    BY <1>1, <1>3 DEF Current
  <2>4. Alone(file, h) /\ Guards(file, h) /\ (h \notin dropped => Has(file, h)) /\ \A b \in behind : LogOK(b, h)
    <3>1. CASE h \in Sound
      <4>1. Alone(file, h) /\ \A b \in behind \cup {Current} : LogOK(b, h)
        BY Zenon, <1>2, <3>1 DEF DiskInv
      <4>2. Guards(sure, h) /\ (h \notin dropped => Has(sure, h))
        BY Zenon, <1>3, <4>1 DEF LogOK
      <4>3. Guards(file, h) /\ (h \notin dropped => Has(file, h))
        BY Zenon, <1>2, <1>3, <4>2, PrefixFacts
      <4> QED BY Zenon, <4>1, <4>3
    <3>2. CASE h = rec /\ behind = {}
      BY Zenon, <1>10, <1>13, <3>2
    <3> QED BY Zenon, <1>16, <3>1, <3>2
  <2>5. LogOK(Current', h)
    BY Zenon, <2>1, <2>4 DEF LogOK
  <2>6. \A b : LogOK(b, h) => LogOK(b, h)'
    BY Zenon, <1>1, SameLogs
  <2>7. \A b \in (behind \cup {Current})' : b \in behind \/ b = Current'
    BY Zenon, <1>1
  <2>8. Alone(file, h)'
    BY Zenon, <1>1, <2>4 DEF Alone, Bad, Torn, Rotten, Mark
  <2> QED BY Zenon, <2>4, <2>5, <2>6, <2>7, <2>8
<1>18. OpenInv'
  <2>1. nextId' <= FenceId
    BY <1>1, <1>3, <1>4
  <2>2. \A i \in 1..top : file[i] # Torn /\ (file[i] = Rotten \/ Mark(file[i]) <= nextId + 1)
    <3> TAKE i \in 1..top
    <3>1. CASE i = top
      <4>1. nextId + 1 <= nextId + 1 BY <1>5
      <4> QED BY Zenon, <1>6, <3>1, <4>1
    <3>2. CASE i \in 1..end
      <4>1. \A m \in Nat : m <= nextId => m <= nextId + 1 BY <1>3
      <4> QED BY Zenon, <1>8, <3>2, <4>1
    <3> QED BY Zenon, <1>7, <3>1, <3>2
  <2>3. \A e \in index : e.at \in 1..end /\ e.id < nextId /\ e.id < nextId + 1 /\ e.id # nextId
    <3>1. \A e \in index : e.at \in 1..end /\ e.id < nextId /\ e.id \in Nat
      BY Zenon, <1>2 DEF OpenInv, TypeOK
    <3>2. \A x \in Nat : x < nextId => x < nextId + 1 /\ x # nextId
      BY <1>3
    <3> QED BY Zenon, <3>1, <3>2
  <2> DEFINE new == [id |-> nextId, at |-> top]
  <2>4. new.id = nextId /\ new.at = top
    OBVIOUS
  <2> HIDE DEF new
  <2>5. index' = index \cup {new}
    BY Zenon, <1>1 DEF new
  <2>6. \A e \in index' : e.at \in 1..top /\ e.id < nextId + 1
    BY Zenon, <1>5, <1>7, <2>3, <2>4, <2>5
  <2>7. ASSUME NEW h \in Sound'
        PROVE  /\ h.id < nextId + 1
               /\ \A e \in index' : e.id = h.id => file[e.at] = h
               /\ h \notin dropped => \E e \in index' : e.id = h.id
    <3>1. CASE h \in Sound
      <4>1. /\ h.id < nextId /\ \A e \in index : e.id = h.id => file[e.at] = h
            /\ h \notin dropped => \E e \in index : e.id = h.id
        BY Zenon, <1>2, <3>1 DEF OpenInv
      <4>2. h.id \in Nat
        BY Zenon, <1>2, <3>1, HandleFacts DEF Sound
      <4>3. h.id < nextId + 1 /\ h.id # nextId
        BY <1>3, <4>1, <4>2
      <4> QED BY Zenon, <2>4, <2>5, <4>1, <4>3
    <3>2. CASE h = rec
      BY Zenon, <1>5, <2>3, <2>4, <2>5, <3>2
    <3> QED BY Zenon, <1>16, <3>1, <3>2
  <2>8. Len(sure') <= end' /\ end' <= Len(file') /\ Len(file') = end'
    BY Zenon, <1>1, <1>7
  <2>9. \A i \in 1..end' : (file[i] # Torn /\ (file[i] = Rotten \/ Mark(file[i]) <= nextId))'
    BY Zenon, <1>1, <2>2 DEF Torn, Rotten, Mark
  <2>10. \A e \in index' : e.at \in 1..end' /\ e.id < nextId'
    BY Zenon, <1>1, <2>6
  <2>11. \A h \in Sound' : /\ h.id < nextId'
                           /\ \A e \in index' : e.id = h.id => file'[e.at] = h
                           /\ h \notin dropped' => \E e \in index' : e.id = h.id
    <3>1. nextId' = nextId + 1 /\ file' = file /\ dropped' = dropped
      BY Zenon, <1>1
    <3> QED BY Zenon, <2>7, <3>1
  <2>12. pc' # "sync"
    BY Zenon, <1>1
  <2> QED BY Zenon, <2>1, <2>8, <2>9, <2>10, <2>11, <2>12 DEF OpenInv
<1>19. pc' # "closed"
  BY Zenon, <1>1
<1> QED BY Zenon, <1>14, <1>15, <1>17, <1>18, <1>19 DEF ValueInv

\* roll_back cuts what follows the last intact record, and never a synced one.
LEMMA RollBackKeeps == ValueInv /\ (RollBack \/ RollBackFails) => ValueInv'
<1> SUFFICES ASSUME ValueInv, RollBack \/ RollBackFails PROVE ValueInv'
  BY Zenon
<1> DEFINE cut == SubSeq(file, 1, end)
<1>1. /\ pc = "roll_back" /\ pc' = "idle" /\ file' \in {file, cut}
      /\ \/ file' = cut /\ sure' = cut /\ maybe' = <<>> /\ poisoned' = poisoned
         \/ sure' = sure /\ maybe' = maybe /\ poisoned' = TRUE
      /\ UNCHANGED <<behind, index, nextId, end, puts, issued, shaky, dropped, damaged>>
  BY Zenon DEF RollBack, RollBackFails, memory, counters, ghosts
<1>2. TypeOK /\ Prefix(sure, file) /\ DiskInv /\ OpenInv
  BY Zenon, <1>1 DEF ValueInv
<1>3. /\ file \in Seq(Record) /\ sure \in Seq(Record) /\ maybe \in Seq(Record)
      /\ Len(file) \in Nat /\ Len(sure) \in Nat /\ end \in Nat
      /\ Current.sure = sure
  BY Zenon, <1>2, TypeFacts
<1>4. Len(sure) <= end /\ end <= Len(file)
  BY Zenon, <1>2 DEF OpenInv
<1>5. end \in 0..Len(file) /\ end <= end /\ Len(file) <= Len(file)
  BY <1>3, <1>4
<1>6. cut \in Seq(Record) /\ Len(cut) = end /\ Prefix(cut, file)
  BY Zenon, <1>3, <1>5, FirstPart
<1> HIDE DEF cut
<1>7. \A i \in 1..end : cut[i] = file[i]
  BY Zenon, <1>6 DEF Prefix
<1>8. Prefix(sure, cut)
  <2>1. \A i \in 1..Len(sure) : i \in 1..end
    BY <1>3, <1>4
  <2> QED BY Zenon, <1>2, <1>4, <1>6, <1>7, <2>1 DEF Prefix
<1>9. file' \in Seq(Record) /\ end <= Len(file') /\ \A i \in 1..end : file'[i] = file[i]
  BY Zenon, <1>1, <1>3, <1>4, <1>6, <1>7, <1>5
<1>10. \/ sure' = sure /\ maybe' = maybe /\ poisoned' = TRUE
       \/ sure' = cut /\ maybe' = <<>> /\ file' = cut
  BY Zenon, <1>1
<1>11. Prefix(sure, file)'
  <2>1. Prefix(cut, cut)
    BY Zenon, <1>5, <1>6 DEF Prefix
  <2>2. Prefix(sure', file')
    BY Zenon, <1>1, <1>2, <1>8, <1>10, <2>1
  <2> QED BY Zenon, <2>2 DEF Prefix
<1>12. TypeOK'
  <2>1. <<>> \in Seq(Record)
    OBVIOUS
  <2>2. sure' \in Seq(Record) /\ maybe' \in Seq(Record)
    BY Zenon, <1>3, <1>6, <1>10, <2>1
  <2>3. Current' \in Log
    BY Zenon, <2>2 DEF Current, Log
  <2>4. poisoned' \in BOOLEAN
    BY Zenon, <1>1, <1>2 DEF TypeOK
  <2> QED BY Zenon, <1>1, <1>2, <1>9, <2>3, <2>4 DEF TypeOK
<1>13. Sound' = Sound
  BY Zenon, <1>1 DEF Sound
<1>14. DiskInv'
  <2> SUFFICES ASSUME NEW h \in Sound
               PROVE  Alone(file, h)' /\ \A b \in (behind \cup {Current})' : LogOK(b, h)'
    BY Zenon, <1>13 DEF DiskInv
  <2>1. Alone(file, h) /\ \A b \in behind \cup {Current} : LogOK(b, h)
    BY Zenon, <1>2 DEF DiskInv
  <2>2. Alone(cut, h)
    BY Zenon, <1>3, <1>6, <2>1, PrefixFacts
  <2>3. Alone(file, h)'
    BY Zenon, <1>1, <2>1, <2>2 DEF Alone, Bad, Torn, Rotten, Mark
  <2>4. Guards(sure, h) /\ (h \notin dropped => Has(sure, h))
    BY Zenon, <1>3, <2>1 DEF LogOK
  <2>5. Guards(cut, h) /\ (h \notin dropped => Has(cut, h))
    BY Zenon, <1>3, <1>6, <1>8, <2>4, PrefixFacts
  <2>6. LogOK(Current', h)
    <3>1. CASE sure' = sure /\ maybe' = maybe
      <4>1. Current' = Current
        BY Zenon, <3>1 DEF Current
      <4> QED BY Zenon, <2>1, <4>1
    <3>2. CASE sure' = cut /\ maybe' = <<>>
      <4>1. Current'.sure = cut /\ Current'.maybe = <<>>
        BY <3>2 DEF Current
      <4>2. cut \o <<>> = cut
        BY Zenon, <1>6, ConcatEmpty
      <4> QED BY Zenon, <2>2, <2>5, <4>1, <4>2 DEF LogOK
    <3> QED BY Zenon, <1>10, <3>1, <3>2
  <2>7. \A b : LogOK(b, h) => LogOK(b, h)'
    BY Zenon, <1>1, SameLogs
  <2>8. \A b \in (behind \cup {Current})' : b \in behind \/ b = Current'
    BY Zenon, <1>1
  <2> QED BY Zenon, <2>1, <2>3, <2>6, <2>7, <2>8
<1>15. OpenInv'
  <2>1. Len(sure') <= end'
    BY Zenon, <1>1, <1>4, <1>5, <1>6, <1>10
  <2>2. \A i \in 1..end' : (file[i] # Torn /\ (file[i] = Rotten \/ Mark(file[i]) <= nextId))'
    BY Zenon, <1>1, <1>2, <1>9 DEF OpenInv, Torn, Rotten, Mark
  <2>3. ~poisoned' => Len(file') = end'
    BY Zenon, <1>1, <1>6, <1>10
  <2>4. \A e \in index : e.at \in 1..end /\ e.id < nextId /\ file'[e.at] = file[e.at]
    BY Zenon, <1>2, <1>9 DEF OpenInv
  <2>5. \A h \in Sound : /\ h.id < nextId
                         /\ \A e \in index : e.id = h.id => file'[e.at] = h
                         /\ h \notin dropped => \E e \in index : e.id = h.id
    BY Zenon, <1>2, <2>4 DEF OpenInv
  <2>6. end' <= Len(file') /\ nextId' <= FenceId
    BY Zenon, <1>1, <1>2, <1>9 DEF OpenInv
  <2>7. pc' = "idle" /\ pc' # "sync" /\ pc' # "sync_dir"
    BY Zenon, <1>1
  <2>8. \A e \in index' : e.at \in 1..end' /\ e.id < nextId'
    BY Zenon, <1>1, <2>4
  <2>9. \A h \in Sound' : /\ h.id < nextId'
                          /\ \A e \in index' : e.id = h.id => file'[e.at] = h
                          /\ h \notin dropped' => \E e \in index' : e.id = h.id
    BY Zenon, <1>1, <1>13, <2>5
  <2> QED BY Zenon, <2>1, <2>2, <2>3, <2>6, <2>7, <2>8, <2>9 DEF OpenInv
<1>16. pc' # "closed"
  BY Zenon, <1>1
<1> QED BY Zenon, <1>11, <1>12, <1>14, <1>15, <1>16 DEF ValueInv

\* A power loss leaves a log the directory named, with all it had synced.
LEMMA PowerLossKeeps == ValueInv /\ PowerLoss => ValueInv'
<1> SUFFICES ASSUME ValueInv, PowerLoss PROVE ValueInv'
  BY Zenon
<1>1. /\ pc' = "closed" /\ index' = {} /\ nextId' = 0 /\ end' = 0 /\ poisoned' = FALSE /\ puts' = puts
      /\ UNCHANGED <<issued, shaky, dropped, damaged>>
      /\ sure' = file' /\ maybe' = <<>> /\ behind' = {}
  BY Zenon DEF PowerLoss, Closed, ghosts
<1>2. TypeOK /\ DiskInv
  BY Zenon DEF ValueInv
<1>0. PICK b \in behind \cup {Current} :
        \E n \in 0..Len(b.maybe), torn \in {<<>>, <<Torn>>} :
          file' = b.sure \o SubSeq(b.maybe, 1, n) \o torn
  BY Zenon DEF PowerLoss, Current
<1>3. PICK n \in 0..Len(b.maybe), torn \in {<<>>, <<Torn>>} :
        file' = b.sure \o SubSeq(b.maybe, 1, n) \o torn
  BY Zenon, <1>0
<1>4. b \in Log
  BY Zenon, <1>2 DEF TypeOK
<1>5. b.sure \in Seq(Record) /\ b.maybe \in Seq(Record)
  BY Zenon, <1>4 DEF Log
<1> DEFINE part == SubSeq(b.maybe, 1, n)
<1>6. part \in Seq(Record) /\ Prefix(part, b.maybe)
  BY Zenon, <1>3, <1>5, FirstPart
<1> HIDE DEF part
<1>7. torn \in Seq(Record) /\ \A i \in 1..Len(torn) : torn[i] = Torn
  <2>1. Torn \in Record
    BY Zenon, BadFacts
  <2>2. <<Torn>> \in Seq(Record) /\ \A i \in 1..Len(<<Torn>>) : <<Torn>>[i] = Torn
    BY <2>1
  <2>3. <<>> \in Seq(Record) /\ \A i \in 1..Len(<<>>) : FALSE
    OBVIOUS
  <2> QED BY Zenon, <1>3, <2>2, <2>3
<1> DEFINE kept == b.sure \o part
<1>8. kept \in Seq(Record) /\ Prefix(b.sure, kept)
  BY Zenon, <1>5, <1>6, ConcatFacts
<1>9. b.sure \o b.maybe \in Seq(Record) /\ Prefix(kept, b.sure \o b.maybe)
  BY Zenon, <1>5, <1>6, ConcatFacts, PrefixConcat
<1>10. file' = kept \o torn
  BY Zenon, <1>3 DEF part
<1> HIDE DEF kept
<1>11. file' \in Seq(Record) /\ Prefix(kept, file')
  <2>1. kept \o torn \in Seq(Record) /\ Prefix(kept, kept \o torn)
    BY Zenon, <1>7, <1>8, ConcatFacts
  <2> QED BY Zenon, <1>10, <2>1
<1>12. TypeOK'
  <2>1. <<>> \in Seq(Record) /\ 0 \in Nat
    OBVIOUS
  <2>2. Current' \in Log
    BY Zenon, <1>1, <1>11, <2>1 DEF Current, Log
  <2> QED BY Zenon, <1>1, <1>2, <1>11, <2>1, <2>2 DEF TypeOK
<1>13. Prefix(sure, file)'
  <2>1. Len(file') \in Nat
    BY Zenon, <1>11, SeqFacts
  <2>2. Len(file') <= Len(file')
    BY <2>1
  <2> QED BY Zenon, <1>1, <2>2 DEF Prefix
<1>14. Sound' = Sound
  BY Zenon, <1>1 DEF Sound
<1>15. DiskInv'
  <2> SUFFICES ASSUME NEW h \in Sound
               PROVE  Alone(file, h)' /\ \A c \in (behind \cup {Current})' : LogOK(c, h)'
    BY Zenon, <1>14 DEF DiskInv
  <2>1. LogOK(b, h)
    BY Zenon, <1>2, <1>3 DEF DiskInv
  <2>2. Alone(b.sure \o b.maybe, h) /\ Guards(b.sure, h) /\ (h \notin dropped => Has(b.sure, h))
    BY Zenon, <2>1 DEF LogOK
  <2>3. Alone(kept, h)
    BY Zenon, <1>8, <1>9, <2>2, PrefixFacts
  <2>4. h.id # FenceId
    BY Zenon, <1>2, HandleFacts DEF Sound
  <2>5. \A i \in 1..Len(torn) : torn[i].id # h.id
    BY Zenon, <1>7, <2>4, BadFacts
  <2>6. Alone(file', h)
    BY Zenon, <1>7, <1>8, <1>10, <2>3, <2>5, AloneConcat
  <2>7. Guards(kept, h) /\ (h \notin dropped => Has(kept, h))
    BY Zenon, <1>5, <1>8, <2>2, PrefixFacts
  <2>8. Guards(file', h) /\ (h \notin dropped => Has(file', h))
    BY Zenon, <1>8, <1>11, <2>7, PrefixFacts
  <2>9. Current'.sure = file' /\ Current'.maybe = <<>>
    BY <1>1 DEF Current
  <2>10. file' \o <<>> = file'
    BY Zenon, <1>11, ConcatEmpty
  <2>11. LogOK(Current', h)
    BY Zenon, <2>6, <2>8, <2>9, <2>10 DEF LogOK
  <2>12. \A c : LogOK(c, h) => LogOK(c, h)'
    BY Zenon, <1>1, SameLogs
  <2>13. Alone(file, h)'
    BY Zenon, <2>6 DEF Alone, Bad, Torn, Rotten, Mark
  <2>14. \A c \in (behind \cup {Current})' : c = Current'
    BY Zenon, <1>1
  <2> QED BY Zenon, <2>11, <2>12, <2>13, <2>14
<1> QED BY Zenon, <1>1, <1>12, <1>13, <1>15 DEF ValueInv

\* The record that rots is the only one a handle can lose.
LEMMA RotKeeps == ASSUME NEW i PROVE ValueInv /\ Rot(i) => ValueInv'
<1> SUFFICES ASSUME ValueInv, Rot(i) PROVE ValueInv'
  BY Zenon
<1>1. /\ i \in DOMAIN sure /\ i \in DOMAIN file
      /\ file' = [file EXCEPT ![i] = Rotten] /\ sure' = [sure EXCEPT ![i] = Rotten]
      /\ damaged' = damaged \cup ({file[i]} \cap issued)
      /\ UNCHANGED <<maybe, behind, pc, index, nextId, end, poisoned, puts, issued, shaky, dropped>>
  BY Zenon DEF Rot, memory
<1>2. TypeOK /\ Prefix(sure, file) /\ DiskInv /\ IF pc = "closed" THEN index = {} ELSE OpenInv
  BY Zenon DEF ValueInv
<1>3. /\ file \in Seq(Record) /\ sure \in Seq(Record) /\ maybe \in Seq(Record)
      /\ Len(file) \in Nat /\ Len(sure) \in Nat /\ end \in Nat
      /\ Current.sure = sure /\ Current.maybe = maybe
  BY Zenon, <1>2, TypeFacts
<1>4. i \in 1..Len(sure) /\ i \in 1..Len(file) /\ Rotten \in Record /\ Rotten # Torn
  BY Zenon, <1>1, <1>3, SeqFacts, BadFacts
<1>5. /\ file' \in Seq(Record) /\ Len(file') = Len(file)
      /\ file'[i] = Rotten /\ \A j \in 1..Len(file) : j # i => file'[j] = file[j]
  BY <1>1, <1>3, <1>4
<1>6. /\ sure' \in Seq(Record) /\ Len(sure') = Len(sure)
      /\ sure'[i] = Rotten /\ \A j \in 1..Len(sure) : j # i => sure'[j] = sure[j]
  BY <1>1, <1>3, <1>4
<1>7. \A j \in 1..Len(sure) : j \in 1..Len(file) /\ file[j] = sure[j]
  BY Zenon, <1>2, <1>3, PrefixFacts
<1>8. Prefix(sure, file)'
  <2>1. Len(sure') <= Len(file')
    BY Zenon, <1>2, <1>5, <1>6 DEF Prefix
  <2>2. \A j \in 1..Len(sure') : sure'[j] = file'[j]
    BY Zenon, <1>5, <1>6, <1>7
  <2> QED BY Zenon, <2>1, <2>2 DEF Prefix
<1>9. TypeOK'
  <2>1. Current' \in Log
    BY Zenon, <1>1, <1>3, <1>6 DEF Current, Log
  <2> QED BY Zenon, <1>1, <1>2, <1>5, <2>1 DEF TypeOK
<1>10. \A h \in Sound' : h \in Sound /\ h \in issued /\ h # file[i]
  BY Zenon, <1>1 DEF Sound
<1>11. DiskInv'
  <2> SUFFICES ASSUME NEW h \in Sound'
               PROVE  Alone(file, h)' /\ \A b \in (behind \cup {Current})' : LogOK(b, h)'
    BY Zenon DEF DiskInv
  <2>1. h \in Sound /\ h \in issued /\ h # file[i] /\ h # sure[i]
    BY Zenon, <1>4, <1>7, <1>10
  <2>2. Alone(file, h) /\ \A b \in behind \cup {Current} : LogOK(b, h)
    BY Zenon, <1>2, <2>1 DEF DiskInv
  <2>3. Alone(file', h)
    BY Zenon, <1>2, <1>3, <1>4, <1>5, <2>1, <2>2, RotFacts
  <2>4. Alone(sure \o maybe, h) /\ Guards(sure, h) /\ (h \notin dropped => Has(sure, h))
    BY Zenon, <1>3, <2>2 DEF LogOK
  <2>5. Guards(sure', h) /\ (h \notin dropped => Has(sure', h))
    BY ZenonT(40), <1>2, <1>3, <1>4, <1>6, <2>1, <2>4, RotFacts
  <2>6. PICK s \in Seq(Record) : s = sure \o maybe
    BY Zenon, <1>3, ConcatFacts
  <2>7. PICK t \in Seq(Record) : t = sure' \o maybe
    BY Zenon, <1>3, <1>6, ConcatFacts
  <2>8. /\ Len(s) = Len(sure) + Len(maybe)
        /\ \A j \in 1..Len(s) : s[j] = IF j <= Len(sure) THEN sure[j] ELSE maybe[j - Len(sure)]
    BY <1>3, <2>6
  <2>9. /\ Len(t) = Len(sure') + Len(maybe)
        /\ \A j \in 1..Len(t) : t[j] = IF j <= Len(sure') THEN sure'[j] ELSE maybe[j - Len(sure')]
    <3>1. PICK x \in Seq(Record) : x = sure'
      BY Zenon, <1>6
    <3>2. PICK y \in Seq(Record) : y = x \o maybe
      BY Zenon, <1>3, ConcatFacts
    <3>3. /\ Len(y) = Len(x) + Len(maybe)
          /\ \A j \in 1..Len(y) : y[j] = IF j <= Len(x) THEN x[j] ELSE maybe[j - Len(x)]
      BY <1>3, <3>2
    <3> QED BY Zenon, <2>7, <3>1, <3>2, <3>3
  <2>10. /\ i \in 1..Len(s) /\ i <= Len(sure)
         /\ \A j \in 1..Len(s) : j <= Len(sure) => j \in 1..Len(sure)
    <3>1. Len(maybe) \in Nat BY Zenon, <1>3, SeqFacts
    <3> QED BY <1>3, <1>4, <2>8, <3>1
  <2>11. Len(t) = Len(s)
    BY Zenon, <1>6, <2>8, <2>9
  <2>12. t[i] = Rotten
    BY Zenon, <1>6, <2>9, <2>10, <2>11
  <2>13. \A j \in 1..Len(s) : j # i => t[j] = s[j]
    BY Zenon, <1>6, <2>8, <2>9, <2>10, <2>11
  <2>14. Alone(t, h)
    BY ZenonT(40), <1>2, <2>1, <2>4, <2>6, <2>10, <2>11, <2>12, <2>13, RotFacts
  <2>15. Current'.sure = sure' /\ Current'.maybe = maybe
    BY <1>1 DEF Current
  <2>16. LogOK(Current', h)
    BY Zenon, <2>5, <2>7, <2>14, <2>15 DEF LogOK
  <2>17. \A b : LogOK(b, h) => LogOK(b, h)'
    BY Zenon, <1>1, SameLogs
  <2>18. \A b \in (behind \cup {Current})' : b \in behind \/ b = Current'
    BY Zenon, <1>1
  <2>19. Alone(file, h)'
    BY Zenon, <2>3 DEF Alone, Bad, Torn, Rotten, Mark
  <2> QED BY Zenon, <2>2, <2>16, <2>17, <2>18, <2>19
<1>12. ASSUME OpenInv PROVE OpenInv'
  <2>1. Len(sure') <= end' /\ end' <= Len(file') /\ nextId' <= FenceId
    BY Zenon, <1>1, <1>5, <1>6, <1>12 DEF OpenInv
  <2>2. /\ \A j \in 1..end : j \in 1..Len(file)
        /\ i # end + 1 /\ (Len(file) = end + 1 => end + 1 \in 1..Len(file))
    <3>1. Len(sure) <= end /\ end <= Len(file)
      BY Zenon, <1>12 DEF OpenInv
    <3> QED BY <1>3, <1>4, <3>1
  <2>3. \A j \in 1..end : file'[j] # Torn /\ (file'[j] = Rotten \/ Mark(file'[j]) <= nextId)
    BY Zenon, <1>4, <1>5, <1>12, <2>2 DEF OpenInv
  <2>4. \A j \in 1..end' : (file[j] # Torn /\ (file[j] = Rotten \/ Mark(file[j]) <= nextId))'
    BY Zenon, <1>1, <2>3 DEF Torn, Rotten, Mark
  <2>5. (pc = "sync_dir" \/ (pc = "idle" /\ ~poisoned) => Len(file) = end)'
    BY Zenon, <1>1, <1>5, <1>12 DEF OpenInv
  <2>6. (pc = "sync" => /\ Len(file) = end + 1 /\ nextId < FenceId
                        /\ file[end + 1] = [id |-> nextId, blob |-> puts])'
    BY ZenonT(40), <1>1, <1>5, <1>12, <2>2 DEF OpenInv
  <2>7. \A e \in index' : e.at \in 1..end' /\ e.id < nextId'
    BY Zenon, <1>1, <1>12 DEF OpenInv
  <2>8. \A h \in Sound' : /\ h.id < nextId'
                          /\ \A e \in index' : e.id = h.id => file'[e.at] = h
                          /\ h \notin dropped' => \E e \in index' : e.id = h.id
    <3> TAKE h \in Sound'
    <3>1. h \in Sound /\ h # file[i]
      BY Zenon, <1>10
    <3>2. /\ h.id < nextId
          /\ \A e \in index : e.id = h.id => file[e.at] = h
          /\ h \notin dropped => \E e \in index : e.id = h.id
      BY Zenon, <1>12, <3>1 DEF OpenInv
    <3>3. \A e \in index : e.at \in 1..Len(file)
      BY Zenon, <1>12, <2>2 DEF OpenInv
    <3>4. \A e \in index : e.id = h.id => file'[e.at] = h
      BY Zenon, <1>5, <3>1, <3>2, <3>3
    <3> QED BY Zenon, <1>1, <3>2, <3>4
  <2> QED BY Zenon, <2>1, <2>4, <2>5, <2>6, <2>7, <2>8 DEF OpenInv
<1> QED BY Zenon, <1>1, <1>2, <1>8, <1>9, <1>11, <1>12 DEF ValueInv

\* What open keeps of a log: the handle's mark and record, unless a rotten
\* record took every mark of the handle with it.
LEMMA IntactKeeps ==
  ASSUME TypeOK, NEW h \in issued, NEW s \in Seq(Record), Alone(s, h), Guards(s, h),
         Rotten \in Elems(s) => h.id < NextId(Intact(s))
  PROVE  Guards(Intact(s), h) /\ (Has(s, h) => Has(Intact(s), h))
<1> DEFINE log == Intact(s)
<1>1. /\ log \in Seq(Record) /\ Prefix(log, s) /\ \A i \in 1..Len(log) : log[i] \notin Bad
      /\ log = s \/ (Len(log) + 1 \in 1..Len(s) /\ s[Len(log) + 1] \in Bad)
  BY Zenon, IntactFacts
<1>2. Rotten \in Elems(s) => h.id < NextId(log)
  BY Zenon
<1> HIDE DEF log
<1>3. /\ Len(log) \in Nat /\ Len(s) \in Nat /\ DOMAIN s = 1..Len(s)
      /\ \A i \in 1..Len(log) : i \in 1..Len(s) /\ s[i] = log[i]
  BY Zenon, <1>1, SeqFacts, PrefixFacts
<1>4. \A i \in 1..Len(log) : Reached(log, i)
  <2>1. \A i \in 1..Len(log) : \A j \in 1..i : j \in 1..Len(log)
    BY <1>3
  <2> QED BY Zenon, <1>1, <2>1 DEF Reached, Bad
<1>5. h.id \in Nat
  BY Zenon, HandleFacts
<1>6. CASE log = s
  BY Zenon, <1>6 DEF log
<1>7. CASE log # s /\ Rotten \in Elems(s)
  <2>1. NextId(log) = 0 \/ \E i \in 1..Len(log) : NextId(log) = Mark(log[i])
    BY Zenon, <1>1, NextIdFacts
  <2>2. NextId(log) # 0
    BY <1>2, <1>5, <1>7
  <2>3. PICK i \in 1..Len(log) : h.id < Mark(log[i])
    BY Zenon, <1>2, <1>7, <2>1, <2>2
  <2>4. Guards(log, h)
    BY Zenon, <1>1, <1>4, <2>3 DEF Guards
  <2>5. ASSUME Has(s, h) PROVE Has(log, h)
    <3>1. PICK p \in 1..Len(s) : s[p] = h
      BY Zenon, <2>5 DEF Has
    <3>2. CASE p \in 1..Len(log)
      BY Zenon, <1>3, <1>4, <3>1, <3>2 DEF Has
    <3>3. CASE p \notin 1..Len(log)
      <4>1. i \in 1..(p - 1)
        BY <1>3, <3>3
      <4>2. Mark(s[i]) <= h.id
        <5>1. s[i] = log[i] /\ s[i] \notin Bad
          BY Zenon, <1>1, <1>3
        <5> QED BY Zenon, <3>1, <4>1, <5>1 DEF Alone
      <4>3. Mark(log[i]) \in Nat /\ Mark(log[i]) <= h.id
        BY Zenon, <1>1, <1>3, <4>2, SeqFacts
      <4> QED BY <1>5, <2>3, <4>3
    <3> QED BY Zenon, <3>2, <3>3
  <2> QED BY Zenon, <2>4, <2>5 DEF log
<1>8. CASE log # s /\ Rotten \notin Elems(s)
  <2>1. \A i \in 1..Len(s) : s[i] # Rotten
    BY Zenon, <1>3, <1>8 DEF Elems
  <2>2. Len(log) + 1 \in 1..Len(s) /\ s[Len(log) + 1] = Torn
    BY Zenon, <1>1, <1>8, <2>1 DEF Bad
  <2>3. \A i \in 1..Len(s) : i \in 1..Len(log) \/ Len(log) + 1 \in 1..i
    BY <1>3
  <2>4. \A i \in 1..Len(s) : Reached(s, i) => i \in 1..Len(log)
    BY Zenon, <2>2, <2>3 DEF Reached
  <2>5. Guards(log, h)
    BY Zenon, <1>3, <1>4, <2>1, <2>4 DEF Guards
  <2>6. Has(s, h) => Has(log, h)
    BY Zenon, <1>3, <1>4, <2>4 DEF Has
  <2> QED BY Zenon, <2>5, <2>6 DEF log
<1> QED BY Zenon, <1>6, <1>7, <1>8

\* open: what it keeps of the log has each sound handle's mark, and its record
\* unless a compaction dropped it.
LEMMA OpenKeeps == ValueInv /\ Open => ValueInv'
<1> SUFFICES ASSUME ValueInv, Open PROVE ValueInv'
  BY Zenon
<1> DEFINE log == Intact(file)
<1>1. /\ pc = "closed" /\ pc' = "idle" /\ index' = IndexOf(log)
      /\ nextId' = NextId(log) /\ end' = Len(log) /\ poisoned' = FALSE /\ file' = log
      /\ IF log = file THEN sure' = sure /\ maybe' = maybe ELSE sure' = log /\ maybe' = <<>>
      /\ damaged' = IF Rotten \in Elems(file) THEN damaged \cup {h \in issued : h.id >= nextId'} ELSE damaged
      /\ UNCHANGED <<behind, puts, issued, shaky, dropped>>
  BY Zenon DEF Open, counters
<1>2. TypeOK /\ Prefix(sure, file) /\ DiskInv
  BY Zenon DEF ValueInv
<1>3. /\ file \in Seq(Record) /\ sure \in Seq(Record) /\ maybe \in Seq(Record) /\ FenceId \in Nat
      /\ Current.sure = sure /\ Current.maybe = maybe
  BY Zenon, <1>2, TypeFacts
<1>4. /\ log \in Seq(Record) /\ Prefix(log, file) /\ \A i \in 1..Len(log) : log[i] \notin Bad
  BY Zenon, <1>3, IntactFacts
<1>5. /\ NextId(log) \in Nat /\ \A i \in 1..Len(log) : Mark(log[i]) <= NextId(log)
      /\ NextId(log) = 0 \/ \E i \in 1..Len(log) : NextId(log) = Mark(log[i])
  BY Zenon, <1>4, NextIdFacts
<1>6. Len(log) \in Nat
  BY Zenon, <1>4, SeqFacts
<1>7. Len(log) <= Len(log)
  BY <1>6
<1>8. NextId(log) <= FenceId
  <2>1. \A i \in 1..Len(log) : Mark(log[i]) <= FenceId
    BY Zenon, <1>4, SeqFacts DEF Record
  <2>2. 0 <= FenceId
    BY <1>3
  <2> QED BY Zenon, <1>5, <2>1, <2>2
<1>9. ASSUME NEW h \in Sound'
      PROVE  /\ h \in Sound /\ h \in issued /\ Alone(log, h) /\ Guards(log, h) /\ (h \notin dropped => Has(log, h))
             /\ \A b \in behind \cup {Current} : LogOK(b, h)
  <2>1. h \in Sound /\ h \in issued
    BY Zenon, <1>1 DEF Sound
  <2>2. Alone(file, h) /\ \A b \in behind \cup {Current} : LogOK(b, h)
    BY Zenon, <1>2, <2>1 DEF DiskInv
  <2>3. Guards(sure, h) /\ (h \notin dropped => Has(sure, h))
    BY Zenon, <1>3, <2>2 DEF LogOK
  <2>4. Guards(file, h) /\ (h \notin dropped => Has(file, h))
    BY Zenon, <1>2, <1>3, <2>3, PrefixFacts
  <2>5. Rotten \in Elems(file) => ~(h.id >= NextId(log))
    BY Zenon, <1>1, <2>1 DEF Sound
  <2>6. h.id \in Nat
    BY ZenonT(40), <1>2, <2>1, HandleFacts
  <2>7. Rotten \in Elems(file) => h.id < NextId(log)
    BY <1>5, <2>5, <2>6
  <2>8. Guards(log, h) /\ (Has(file, h) => Has(log, h))
    BY Zenon, <1>2, <1>3, <2>1, <2>2, <2>4, <2>7, IntactKeeps
  <2>9. Alone(log, h)
    BY Zenon, <1>3, <1>4, <2>2, PrefixFacts
  <2> QED BY Zenon, <2>1, <2>2, <2>4, <2>8, <2>9
<1>10. Prefix(sure', file')
  <2>1. Prefix(log, log)
    BY Zenon, <1>7 DEF Prefix
  <2> QED BY Zenon, <1>1, <1>2, <2>1
<1>11. Prefix(sure, file)'
  BY Zenon, <1>10 DEF Prefix
<1>12. TypeOK'
  <2>1. <<>> \in Seq(Record)
    OBVIOUS
  <2>2. sure' \in Seq(Record) /\ maybe' \in Seq(Record)
    BY Zenon, <1>1, <1>3, <1>4, <2>1
  <2>3. Current' \in Log
    BY Zenon, <2>2 DEF Current, Log
  <2>4. index' \subseteq [id : Nat, at : Nat]
    BY Zenon, <1>1, <1>4, IndexFacts
  <2>5. file' \in Seq(Record) /\ nextId' \in Nat /\ end' \in Nat /\ poisoned' \in BOOLEAN
    BY Zenon, <1>1, <1>4, <1>5, <1>6
  <2>6. pc' \in {"idle", "sync", "roll_back", "sync_dir", "closed"} /\ UNCHANGED <<behind, puts, issued>>
    BY Zenon, <1>1
  <2> QED BY Zenon, <1>2, <2>3, <2>4, <2>5, <2>6 DEF TypeOK
<1>13. DiskInv'
  <2> SUFFICES ASSUME NEW h \in Sound'
               PROVE  Alone(file, h)' /\ \A b \in (behind \cup {Current})' : LogOK(b, h)'
    BY Zenon DEF DiskInv
  <2>1. /\ Alone(log, h) /\ Guards(log, h) /\ (h \notin dropped => Has(log, h))
        /\ \A b \in behind \cup {Current} : LogOK(b, h)
    BY Zenon, <1>9
  <2>2. LogOK(Current', h)
    <3>1. CASE log = file
      <4>1. Current' = Current
        BY Zenon, <1>1, <3>1 DEF Current
      <4> QED BY Zenon, <2>1, <4>1
    <3>2. CASE log # file
      <4>1. Current'.sure = log /\ Current'.maybe = <<>>
        BY <1>1, <3>2 DEF Current
      <4>2. log \o <<>> = log
        BY Zenon, <1>4, ConcatEmpty
      <4> QED BY Zenon, <2>1, <4>1, <4>2 DEF LogOK
    <3> QED BY Zenon, <3>1, <3>2
  <2>3. \A b : LogOK(b, h) => LogOK(b, h)'
    BY Zenon, <1>1, SameLogs
  <2>4. \A b \in (behind \cup {Current})' : b \in behind \/ b = Current'
    BY Zenon, <1>1
  <2>5. Alone(file', h)
    BY Zenon, <1>1, <2>1
  <2>6. Alone(file, h)'
    BY Zenon, <2>5 DEF Alone, Bad, Torn, Rotten, Mark
  <2> QED BY Zenon, <2>1, <2>2, <2>3, <2>4, <2>6
<1>14. OpenInv'
  <2>1. file' = log /\ end' = Len(log) /\ nextId' = NextId(log) /\ index' = IndexOf(log) /\ dropped' = dropped
    BY Zenon, <1>1
  <2> HIDE DEF log
  <2>2. Len(sure') <= end' /\ end' <= Len(file') /\ Len(file') = end' /\ nextId' <= FenceId
    BY Zenon, <1>7, <1>8, <1>10, <2>1 DEF Prefix
  <2>3. \A i \in 1..Len(log) : log[i] # Torn /\ Mark(log[i]) <= NextId(log)
    BY Zenon, <1>4, <1>5 DEF Bad
  <2>4. \A i \in 1..end' : (file[i] # Torn /\ (file[i] = Rotten \/ Mark(file[i]) <= nextId))'
    BY Zenon, <2>1, <2>3 DEF Torn, Mark
  <2>5. \A e \in index' : e.at \in 1..end' /\ e.id < nextId'
    <3>1. \A e \in IndexOf(log) : e.at \in 1..Len(log)
      BY Zenon, <1>4, IndexFacts
    <3>2. \A e \in IndexOf(log) : e.id < NextId(log)
      BY Zenon, <1>4, <1>5, IndexBelow
    <3> QED BY Zenon, <2>1, <3>1, <3>2
  <2>6. \A h \in Sound' : /\ h.id < nextId'
                          /\ \A e \in index' : e.id = h.id => file'[e.at] = h
                          /\ h \notin dropped' => \E e \in index' : e.id = h.id
    <3> TAKE h \in Sound'
    <3>1. h \in issued /\ Alone(log, h) /\ Guards(log, h) /\ (h \notin dropped => Has(log, h))
      BY Zenon, <1>9
    <3>2. /\ \A e \in IndexOf(log) : e.id = h.id => log[e.at] = h
          /\ Has(log, h) => \E e \in IndexOf(log) : e.id = h.id
      BY Zenon, <1>2, <1>4, <3>1, IndexOfHandle
    <3>3. PICK i \in 1..Len(log) : h.id < Mark(log[i])
      BY Zenon, <1>4, <3>1 DEF Guards, Bad
    <3>4. h.id \in Nat /\ Mark(log[i]) \in Nat /\ Mark(log[i]) <= NextId(log)
      BY Zenon, <1>2, <1>4, <1>5, <3>1, HandleFacts, SeqFacts
    <3>5. h.id < NextId(log)
      BY <1>5, <3>3, <3>4
    <3> QED BY Zenon, <2>1, <3>1, <3>2, <3>5
  <2>7. pc' # "sync"
    BY Zenon, <1>1
  <2> QED BY Zenon, <2>2, <2>4, <2>5, <2>6, <2>7 DEF OpenInv
<1>15. pc' # "closed"
  BY Zenon, <1>1
<1> QED BY Zenon, <1>11, <1>12, <1>13, <1>14, <1>15 DEF ValueInv

\* The compacted log: the live records in their order, and a fence that marks
\* every id that was given.
LEMMA CompactKeeps == ASSUME NEW live PROVE ValueInv /\ Compact(live) => ValueInv'
<1> SUFFICES ASSUME ValueInv, Compact(live) PROVE ValueInv'
  BY Zenon
<1> DEFINE u == LiveRecords(live)
           fence == [id |-> FenceId, blob |-> nextId]
           c == Append(u, fence)
<1>1. /\ pc = "idle" /\ ~poisoned /\ pc' = "sync_dir" /\ Len(Intact(file)) = end
      /\ file' = c /\ sure' = c /\ maybe' = <<>> /\ behind' = behind \cup {Current}
      /\ index' = IndexOf(c) /\ end' = Len(c)
      /\ dropped' = dropped \cup {file[e.at] : e \in {x \in index : x.id \notin live}}
      /\ UNCHANGED <<nextId, poisoned, puts, issued, shaky, damaged>>
  BY Zenon DEF Compact, Compacted, Current
<1>2. TypeOK /\ DiskInv /\ OpenInv
  BY Zenon, <1>1 DEF ValueInv
<1>3. /\ file \in Seq(Record) /\ Len(file) \in Nat /\ nextId \in Nat /\ FenceId \in Nat
  BY Zenon, <1>2, TypeFacts
<1>4. Len(file) = end /\ nextId <= FenceId
  BY Zenon, <1>1, <1>2 DEF OpenInv
<1>5. \A i \in 1..Len(file) : file[i] \notin Bad /\ Mark(file[i]) <= nextId
  <2>1. /\ \A i \in 1..Len(Intact(file)) : Intact(file)[i] \notin Bad
        /\ Intact(file) = file \/ Len(Intact(file)) + 1 \in 1..Len(file)
    BY Zenon, <1>3, IntactFacts
  <2>2. Len(file) + 1 \notin 1..Len(file)
    BY <1>3
  <2>3. \A i \in 1..Len(file) : file[i] \notin Bad
    BY Zenon, <1>1, <1>4, <2>1, <2>2
  <2> QED BY Zenon, <1>2, <1>4, <2>3 DEF OpenInv, Bad
<1>6. PICK f : Kept(u, Len(file), f, live)
  BY Zenon, <1>3, LiveFacts
<1> HIDE DEF u
<1>7. /\ u \in Seq(Record) /\ f \in [1..Len(u) -> 1..Len(file)]
      /\ \A k \in 1..Len(u) : u[k] = file[f[k]] /\ u[k].id # FenceId
      /\ \A k \in 1..Len(u) : \A l \in 1..(k - 1) : f[l] < f[k]
      /\ \A j \in 1..Len(file) : file[j].id # FenceId /\ file[j].id \in live => \E k \in 1..Len(u) : f[k] = j
  BY Zenon, <1>6 DEF Kept
<1>8. Len(u) \in Nat
  BY Zenon, <1>7, SeqFacts
<1>9. fence \in Record /\ fence.id = FenceId /\ Mark(fence) = nextId /\ fence \notin Bad
  <2>1. fence \in [id : Nat, blob : Nat] /\ fence.id = FenceId /\ fence.blob = nextId
    BY <1>3
  <2>2. Mark(fence) = nextId
    BY Zenon, <2>1 DEF Mark
  <2>3. nextId # FenceId + 1 /\ nextId # FenceId + 2
    BY <1>3, <1>4
  <2>4. fence \notin Bad
    BY Zenon, <2>1, <2>3, BadFacts DEF Bad
  <2> QED BY Zenon, <1>4, <2>1, <2>2, <2>4 DEF Record
<1> HIDE DEF fence
<1> DEFINE n == Len(u) + 1
<1>10. /\ c \in Seq(Record) /\ Len(c) = n /\ c[n] = fence /\ \A k \in 1..Len(u) : c[k] = u[k]
  BY <1>7, <1>8, <1>9
<1>11. /\ \A k \in 1..n : k = n \/ k \in 1..Len(u)
       /\ \A k \in 1..Len(u) : k \in 1..n /\ \A l \in 1..(k - 1) : l \in 1..Len(u)
       /\ n \in 1..n /\ n \in Nat /\ n <= n
  BY <1>8
<1> HIDE DEF c, n
<1>12. \A k \in 1..Len(u) : f[k] \in 1..Len(file) /\ c[k] = file[f[k]]
  BY Zenon, <1>7, <1>10
<1>13. \A k \in 1..n : c[k] \notin Bad /\ Mark(c[k]) <= nextId
  <2>1. nextId <= nextId
    BY <1>3
  <2> QED BY Zenon, <1>5, <1>9, <1>10, <1>11, <1>12, <2>1
<1>14. \A k \in 1..n : Reached(c, k)
  <2>1. \A k \in 1..n : \A l \in 1..k : l \in 1..n
    BY <1>11
  <2> QED BY Zenon, <1>13, <2>1 DEF Reached, Bad
<1>15. Sound' = Sound
  BY Zenon, <1>1 DEF Sound
<1>16. ASSUME NEW h \in Sound
       PROVE  /\ h \in issued /\ h.id < nextId /\ Alone(c, h) /\ Guards(c, h)
              /\ h \notin dropped' => h \notin dropped /\ Has(c, h)
              /\ \A b \in behind \cup {Current} : LogOK(b, h)
  <2>1. h \in issued /\ h.id < nextId /\ h.id # FenceId
    BY Zenon, <1>2, HandleFacts DEF Sound, OpenInv
  <2>2. Alone(file, h) /\ \A b \in behind \cup {Current} : LogOK(b, h)
    BY Zenon, <1>2 DEF DiskInv
  <2>3. Alone(c, h)
    <3>1. \A k \in 1..n : c[k].id = h.id => k \in 1..Len(u) /\ c[k] = h
      BY ZenonT(40), <1>9, <1>10, <1>11, <1>12, <2>1, <2>2 DEF Alone
    <3>2. ASSUME NEW j \in 1..n, NEW l \in 1..(j - 1), c[j] = h, c[l] \notin Bad PROVE Mark(c[l]) <= h.id
      <4>1. j \in 1..Len(u) /\ l \in 1..Len(u)
        BY Zenon, <1>11, <3>1, <3>2
      <4>2. f[j] \in 1..Len(file) /\ f[l] \in 1..Len(file) /\ f[l] < f[j]
        BY Zenon, <1>7, <1>12, <4>1
      <4>3. f[l] \in 1..(f[j] - 1)
        BY <1>3, <4>2
      <4> QED BY Zenon, <1>12, <2>2, <3>2, <4>1, <4>2, <4>3 DEF Alone
    <3> QED BY Zenon, <1>10, <3>1, <3>2 DEF Alone
  <2>4. Guards(c, h)
    BY Zenon, <1>9, <1>10, <1>11, <1>14, <2>1 DEF Guards
  <2>5. ASSUME h \notin dropped' PROVE h \notin dropped /\ Has(c, h)
    <3>1. h \notin dropped
      BY Zenon, <1>1, <2>5
    <3>2. PICK e \in index : e.id = h.id /\ file[e.at] = h /\ e.at \in 1..Len(file)
      BY Zenon, <1>2, <1>4, <3>1 DEF OpenInv
    <3>3. e.id \in live
      BY Zenon, <1>1, <2>5, <3>2
    <3>4. PICK k \in 1..Len(u) : f[k] = e.at
      BY Zenon, <1>7, <2>1, <3>2, <3>3
    <3>5. c[k] = h /\ k \in 1..n
      BY Zenon, <1>11, <1>12, <3>2, <3>4
    <3> QED BY Zenon, <1>10, <1>14, <3>1, <3>5 DEF Has
  <2> QED BY Zenon, <2>1, <2>2, <2>3, <2>4, <2>5
<1>17. Prefix(sure, file)'
  BY Zenon, <1>1, <1>10, <1>11 DEF Prefix
<1>18. TypeOK'
  <2>1. <<>> \in Seq(Record)
    OBVIOUS
  <2>2. Current' \in Log
    BY Zenon, <1>1, <1>10, <2>1 DEF Current, Log
  <2>3. behind' \subseteq Log
    BY Zenon, <1>1, <1>2 DEF TypeOK
  <2>4. index' \subseteq [id : Nat, at : Nat]
    BY Zenon, <1>1, <1>10, IndexFacts
  <2>5. file' \in Seq(Record) /\ end' \in Nat
    BY Zenon, <1>1, <1>10, <1>11
  <2>6. /\ pc' \in {"idle", "sync", "roll_back", "sync_dir", "closed"}
        /\ UNCHANGED <<nextId, poisoned, puts, issued>>
    BY Zenon, <1>1
  <2> QED BY Zenon, <1>2, <2>2, <2>3, <2>4, <2>5, <2>6 DEF TypeOK
<1>19. DiskInv'
  <2> SUFFICES ASSUME NEW h \in Sound
               PROVE  Alone(file, h)' /\ \A b \in (behind \cup {Current})' : LogOK(b, h)'
    BY Zenon, <1>15 DEF DiskInv
  <2>1. /\ Alone(c, h) /\ Guards(c, h) /\ (h \notin dropped' => Has(c, h))
        /\ \A b \in behind \cup {Current} : LogOK(b, h)
    BY Zenon, <1>16
  <2>2. Current'.sure = c /\ Current'.maybe = <<>>
    BY <1>1 DEF Current
  <2>3. c \o <<>> = c
    BY Zenon, <1>10, ConcatEmpty
  <2>4. /\ Alone(Current'.sure \o Current'.maybe, h) /\ Guards(Current'.sure, h)
        /\ h \notin dropped' => Has(Current'.sure, h)
    BY Zenon, <2>1, <2>2, <2>3
  <2>5. \A b : /\ Alone(b.sure \o b.maybe, h) /\ Guards(b.sure, h)
               /\ h \notin dropped' => Has(b.sure, h)
               => LogOK(b, h)'
    BY Zenon DEF LogOK, Alone, Guards, Has, Reached, Bad, Torn, Rotten, Mark
  <2>6. \A b : b = Current' => LogOK(b, h)'
    BY Zenon, <2>4, <2>5
  <2>7. \A b : LogOK(b, h) => LogOK(b, h)'
    <3>1. dropped \subseteq dropped'
      BY Zenon, <1>1
    <3> QED BY Zenon, <3>1, SameLogs
  <2>8. \A b \in (behind \cup {Current})' : b \in behind \cup {Current} \/ b = Current'
    BY Zenon, <1>1
  <2>9. Alone(file', h)
    BY Zenon, <1>1, <2>1
  <2>10. Alone(file, h)'
    BY Zenon, <2>9 DEF Alone, Bad, Torn, Rotten, Mark
  <2>11. \A b \in (behind \cup {Current})' : LogOK(b, h)'
    BY Zenon, <2>1, <2>6, <2>7, <2>8
  <2> QED BY Zenon, <2>10, <2>11
<1>20. OpenInv'
  <2>1. file' = c /\ sure' = c /\ end' = n /\ nextId' = nextId /\ index' = IndexOf(c) /\ Len(c) = n
    BY Zenon, <1>1, <1>10
  <2>2. Len(sure') <= end' /\ end' <= Len(file') /\ Len(file') = end' /\ nextId' <= FenceId
    BY Zenon, <1>4, <1>11, <2>1
  <2>3. \A i \in 1..n : c[i] # Torn /\ Mark(c[i]) <= nextId
    BY Zenon, <1>13 DEF Bad
  <2>4. \A i \in 1..end' : (file[i] # Torn /\ (file[i] = Rotten \/ Mark(file[i]) <= nextId))'
    BY Zenon, <2>1, <2>3 DEF Torn, Mark
  <2>5. \A e \in index' : e.at \in 1..end' /\ e.id < nextId'
    <3>1. \A e \in IndexOf(c) : e.at \in 1..n
      BY Zenon, <1>10, IndexFacts
    <3>2. \A e \in IndexOf(c) : e.id < nextId
      BY Zenon, <1>3, <1>10, <2>3, IndexBelow
    <3> QED BY Zenon, <2>1, <3>1, <3>2
  <2>6. \A h \in Sound' : /\ h.id < nextId'
                          /\ \A e \in index' : e.id = h.id => file'[e.at] = h
                          /\ h \notin dropped' => \E e \in index' : e.id = h.id
    <3> TAKE h \in Sound'
    <3>1. h \in issued /\ h.id < nextId /\ Alone(c, h) /\ (h \notin dropped' => Has(c, h))
      BY Zenon, <1>15, <1>16
    <3>2. /\ \A e \in IndexOf(c) : e.id = h.id => c[e.at] = h
          /\ Has(c, h) => \E e \in IndexOf(c) : e.id = h.id
      BY Zenon, <1>2, <1>10, <3>1, IndexOfHandle
    <3> QED BY Zenon, <2>1, <3>1, <3>2
  <2>7. pc' # "sync"
    BY Zenon, <1>1
  <2> QED BY Zenon, <2>2, <2>4, <2>5, <2>6, <2>7 DEF OpenInv
<1>21. pc' # "closed"
  BY Zenon, <1>1
<1> QED BY Zenon, <1>17, <1>18, <1>19, <1>20, <1>21 DEF ValueInv

-----------------------------------------------------------------------------
(* The theorems *)

\* Every step of the store keeps the invariant.
LEMMA ValueNext == ValueInv /\ [Next]_vars => ValueInv'
<1> SUFFICES ASSUME ValueInv, [Next]_vars PROVE ValueInv'
  BY Zenon
<1>1. \A w \in {"all", "part", "nothing"} : PutWrite(w) => ValueInv'
  BY Zenon, PutWriteKeeps
<1>2. \A live : Compact(live) => ValueInv'
  BY Zenon, CompactKeeps
<1>3. \A i : Rot(i) => ValueInv'
  BY Zenon, RotKeeps
<1> QED BY ZenonT(40), <1>1, <1>2, <1>3, SyncOkKeeps, SyncFailsKeeps, RollBackKeeps, SyncDirKeeps, ExitKeeps,
           PowerLossKeeps, OpenKeeps, StutterKeeps DEF Next

\* Of a sound handle every log that a crash may leave has no other record of its
\* id and a mark above it, whatever put, compact, open and the medium did.
THEOREM ValueInvariant == Spec => []ValueInv
  BY ValueInit, ValueNext, PTL DEF Spec

\* get: what the index says of a sound handle.
LEMMA GetFacts ==
  ASSUME ValueInv, NEW h \in Sound
  PROVE  /\ Get(h) \in {NoBlob, h.blob}
         /\ pc # "closed" /\ h \notin dropped => Get(h) = h.blob
<1> DEFINE hits == {e \in index : e.id = h.id}
<1>1. pc # "closed" => OpenInv
  BY Zenon DEF ValueInv
<1>2. pc = "closed" => index = {}
  BY Zenon DEF ValueInv
<1>3. hits = {} => Get(h) = NoBlob
  BY Zenon DEF Get
<1>4. ASSUME hits # {} PROVE Get(h) = h.blob
  <2>1. PICK x : x = (CHOOSE e \in hits : TRUE)
    BY Zenon
  <2>2. x \in hits
    BY Zenon, <1>4, <2>1
  <2>3. x \in index /\ x.id = h.id
    BY Zenon, <2>2
  <2>4. file[x.at] = h
    BY Zenon, <1>1, <1>2, <2>3 DEF OpenInv
  <2>5. Get(h) = IF file[x.at].id = h.id THEN file[x.at].blob ELSE NoBlob
    <3>1. Get(h) = IF hits = {} THEN NoBlob
                   ELSE IF file[(CHOOSE e \in hits : TRUE).at].id = h.id
                        THEN file[(CHOOSE e \in hits : TRUE).at].blob ELSE NoBlob
      BY DEF Get
    <3> HIDE DEF hits
    <3> QED BY Zenon, <1>4, <2>1, <3>1
  <2> QED BY Zenon, <2>4, <2>5
<1>5. pc # "closed" /\ h \notin dropped => hits # {}
  BY Zenon, <1>1 DEF OpenInv
<1> QED BY Zenon, <1>3, <1>4, <1>5

\* A handle never reads another blob than its own: put, compact and open give no
\* later blob the id of a handle that was returned while the directory was synced.
THEOREM HandleReadsItsBlobHolds == Spec => []HandleReadsItsBlob
<1>1. ValueInv => HandleReadsItsBlob
  BY Zenon, GetFacts DEF HandleReadsItsBlob, Sound
<1> QED BY <1>1, ValueInvariant, PTL

\* Such a handle reads its blob until compact is told to drop it, through failed
\* puts, compactions, crashes, power losses and damage to other records.
THEOREM HandleSurvivesHolds == Spec => []HandleSurvives
<1>1. ValueInv => HandleSurvives
  BY Zenon, GetFacts DEF HandleSurvives, Sound
<1> QED BY <1>1, ValueInvariant, PTL

=============================================================================
