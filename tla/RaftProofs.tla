----------------------------- MODULE RaftProofs -----------------------------
(***************************************************************************)
(* Proofs about RaftCluster, for a cluster of any size.  A client call is  *)
(* atomic under the driver's mutex and leaves no entry in flight, so what  *)
(* holds between calls is stronger than Raft's own invariant: every log,   *)
(* of a live node or a failed one, is a first part of the log of the       *)
(* acknowledged commands (LogsAgree, Settled), and a majority of the nodes *)
(* has that log whole.  An election needs a live majority, so one voter    *)
(* has the whole log and the candidate, being the most up to date, has it  *)
(* too; replication then makes every live log the leader's, a majority     *)
(* acknowledges, and the entry is committed and applied in the same call.  *)
(***************************************************************************)
EXTENDS RaftCluster, TLAPS, FiniteSetTheorems

USE RaftAssumption

-----------------------------------------------------------------------------
(* Numbers *)

\* A set of naturals has a least element: what an induction over the entries of
\* a log rests on.
LEMMA LeastElement ==
  ASSUME NEW T \in SUBSET Nat, T # {}
  PROVE  \E m \in T : \A k \in T : m <= k
<1> DEFINE R == {ss \in Nat \X Nat : ss[1] < ss[2]}
<1>1. IsWellFoundedOn(R, Nat)
  BY Zenon, NatLessThanWellFounded DEF OpToRel
<1> HIDE DEF R
<1>2. PICK m \in T : \A k \in T : ~(<<k, m>> \in R)
  BY Zenon, <1>1, WFMin
<1>3. \A k \in T : ~(k < m)
  <2> TAKE k \in T
  <2>1. <<k, m>> \notin R BY Zenon, <1>2
  <2> QED BY Zenon, <2>1 DEF R
<1> QED
  BY <1>3, <1>2

\* A function on a range of numbers has a greatest value.
LEMMA GreatestValue ==
  ASSUME NEW n \in Nat, NEW f \in [0..n -> Nat]
  PROVE  \E m \in 0..n : \A i \in 0..n : f[i] <= f[m]
<1> DEFINE Good(k) == \E m \in 0..k : \A i \in 0..k : f[i] <= f[m]
           T == {k \in 0..n : ~Good(k)}
<1>1. Good(0)
  <2>1. 0 \in 0..n /\ f[0] \in Nat /\ 0..0 = {0}
    OBVIOUS
  <2> QED BY <2>1
<1>2. SUFFICES ASSUME ~Good(n) PROVE FALSE
  BY Zenon
<1> HIDE DEF Good
<1>3. T \in SUBSET Nat /\ n \in T
  BY <1>2
<1>4. PICK k \in T : \A j \in T : k <= j
  BY Zenon, <1>3, LeastElement
<1>5. /\ k \in 0..n /\ k # 0 /\ k - 1 \in 0..n /\ k - 1 < k /\ ~Good(k)
      /\ k - 1 \notin T
  BY <1>1, <1>4
<1>10. Good(k - 1)
  BY Zenon, <1>5
<1> USE DEF Good
<1>6. PICK m \in 0..(k - 1) : \A i \in 0..(k - 1) : f[i] <= f[m]
  BY Zenon, <1>10
<1>7. m \in 0..k /\ k \in 0..k /\ f[m] \in Nat /\ f[k] \in Nat /\ \A i \in 0..k : i = k \/ i \in 0..(k - 1)
  BY <1>5
<1>8. CASE f[k] <= f[m]
  <2>1. \A i \in 0..k : f[i] <= f[m] BY Zenon, <1>6, <1>7, <1>8
  <2> QED BY Zenon, <2>1, <1>7, <1>5
<1>9. CASE f[m] < f[k]
  <2>1. \A i \in 0..k : f[i] \in Nat BY <1>5
  <2>2. \A i \in 0..k : f[i] <= f[k] BY <1>6, <1>7, <1>9, <2>1
  <2> QED BY Zenon, <2>2, <1>7, <1>5
<1> QED BY <1>8, <1>9, <1>7

\* And so has its restriction to a set of them.
LEMMA GreatestOn ==
  ASSUME NEW n \in Nat, NEW f \in [0..n -> Nat], NEW L \in SUBSET (0..n), L # {}
  PROVE  \E m \in L : \A i \in L : f[i] <= f[m]
<1> DEFINE g == [i \in 0..n |-> IF i \in L THEN f[i] + 1 ELSE 0]
<1>1. g \in [0..n -> Nat]
  OBVIOUS
<1>2. PICK m \in 0..n : \A i \in 0..n : g[i] <= g[m]
  BY Zenon, <1>1, GreatestValue
<1>3. PICK l \in L : TRUE
  BY Zenon
<1>4. m \in L
  BY <1>2, <1>3
<1>5. \A i \in L : f[i] \in Nat /\ g[i] = f[i] + 1
  BY Zenon
<1>6. \A i \in L : g[i] <= g[m]
  BY Zenon, <1>2
<1>7. ASSUME NEW i \in L PROVE f[i] <= f[m]
  <2>1. f[i] + 1 <= f[m] + 1 /\ f[i] \in Nat /\ f[m] \in Nat
    BY Zenon, <1>4, <1>5, <1>6
  <2> QED BY <2>1
<1> QED BY Zenon, <1>4, <1>7

-----------------------------------------------------------------------------
(* The invariant *)

Map == [Key -> [value : Value \cup {NoVal}, version : Nat]]

Node == [term : Nat, votedFor : NodeId \cup {None}, role : {"follower", "candidate", "leader"},
         log : Seq(LogEntry), commit : Nat, applied : Nat, state : Map, match : [NodeId -> Nat]]

\* Each call runs to its end before another begins, so that nothing stays in
\* a log without being acknowledged: every log is a first part of one log,
\* that of the acknowledged commands, ...
LogsAgree(ns, cmds) ==
  \A a \in NodeId :
    /\ LastIndex(ns[a]) <= Len(cmds)
    /\ \A i \in 1..LastIndex(ns[a]) : ns[a].log[i].cmd = cmds[i]
    /\ \A b \in NodeId : \A i \in 1..LastIndex(ns[a]) :
         i <= LastIndex(ns[b]) => ns[a].log[i] = ns[b].log[i]

\* ... with terms that grow along it and no further than its node's, ...
TermsGrow(ns) ==
  \A a \in NodeId : \A i \in 1..LastIndex(ns[a]) :
    /\ ns[a].log[i].term <= ns[a].term
    /\ \A j \in 1..i : ns[a].log[j].term <= ns[a].log[i].term

\* ... committed and applied as far as it goes.
Settled(ns) ==
  \A a \in NodeId : ns[a].commit = LastIndex(ns[a]) /\ ns[a].applied = LastIndex(ns[a])

OneLeader(ns) ==
  \A a, b \in NodeId :
    ns[a].role = "leader" /\ ns[b].role = "leader" /\ ns[a].term = ns[b].term => a = b

\* M[i] is the map after the first i commands.
History(M, cmds) ==
  /\ M \in [0..Len(cmds) -> Map]
  /\ M[0] = EmptyMap
  /\ \A i \in 1..Len(cmds) : M[i] = Apply(M[i - 1], cmds[i], i)

NodesInv(ns, cmds) ==
  /\ ns \in [NodeId -> Node]
  /\ LogsAgree(ns, cmds) /\ TermsGrow(ns) /\ Settled(ns) /\ OneLeader(ns)
  /\ \E M : History(M, cmds) /\ \A a \in NodeId : ns[a].state = M[LastIndex(ns[a])]

\* A majority holds the whole log.
Holders(ns, cmds) == {a \in NodeId : LastIndex(ns[a]) = Len(cmds)}

\* l leads the nodes: it holds the whole log, and no term is above its own.
Leads(ns, cmds, l) ==
  /\ l \in Live
  /\ ns[l].role = "leader"
  /\ LastIndex(ns[l]) = Len(cmds)
  /\ \A a \in NodeId : ns[a].term <= ns[l].term

RaftInv ==
  /\ TypeOK
  /\ NodesInv(nodes, acked)
  /\ Cardinality(Holders(nodes, acked)) >= Quorum
  /\ leader # None => Leads(nodes, acked, leader)
  /\ ~panicked

-----------------------------------------------------------------------------
(* One node *)

\* The state of a node that has applied nothing.
LEMMA EmptyMapType == EmptyMap \in Map
  BY Zenon DEF EmptyMap, Map, Absent

\* apply: a command turns a map into a map.
LEMMA ApplyType ==
  ASSUME NEW map \in Map, NEW cmd \in Cmd, NEW index \in Nat
  PROVE  Apply(map, cmd, index) \in Map
  BY Zenon DEF Apply, Map, Cmd, Absent

\* apply_committed on a node that has committed its whole log.
LEMMA ApplyCommittedFacts ==
  ASSUME NEW n \in Node, NEW cmds \in Seq(Cmd), NEW M, History(M, cmds),
         LastIndex(n) <= Len(cmds), \A i \in 1..LastIndex(n) : n.log[i].cmd = cmds[i],
         n.applied <= LastIndex(n), n.commit = LastIndex(n), n.state = M[n.applied]
  PROVE  ApplyCommitted(n) = [n EXCEPT !.applied = LastIndex(n), !.state = M[LastIndex(n)]]
<1> DEFINE upto == LastIndex(n)
           F(g) == [i \in n.applied..upto |->
                      IF i = n.applied THEN n.state ELSE Apply(g[i - 1], n.log[i].cmd, i)]
           h == [i \in n.applied..upto |-> M[i]]
<1>1. upto \in Nat /\ n.applied \in Nat /\ n.commit \in Nat /\ Len(cmds) \in Nat
  BY DEF Node, LastIndex
<1>2. Greatest(n.applied, Least(n.commit, LastIndex(n))) = upto
  BY <1>1 DEF Greatest, Least
<1>3. ASSUME NEW i \in n.applied..upto, i # n.applied
      PROVE  M[i] = Apply(M[i - 1], n.log[i].cmd, i) /\ i - 1 \in n.applied..upto
  BY <1>1, <1>3 DEF History
<1>4. h = F(h)
  BY Zenon, <1>3
<1>5. ASSUME NEW g, g = F(g) PROVE g = h
  <2> DEFINE T == {i \in n.applied..upto : g[i] # M[i]}
  <2>1. SUFFICES T = {}
    BY Zenon, <1>5
  <2>2. SUFFICES ASSUME T # {} PROVE FALSE
    BY Zenon
  <2>3. T \in SUBSET Nat
    BY <1>1
  <2>4. PICK i \in T : \A j \in T : i <= j
    BY Zenon, <2>2, <2>3, LeastElement
  <2>5. i \in n.applied..upto /\ g[i] # M[i]
    BY Zenon, <2>4
  <2>6. CASE i = n.applied
    BY Zenon, <1>5, <2>5, <2>6
  <2>7. CASE i # n.applied
    <3>1. M[i] = Apply(M[i - 1], n.log[i].cmd, i) /\ i - 1 \in n.applied..upto
      BY Zenon, <2>7, <2>5, <1>3
    <3>2. i - 1 \notin T
      BY <2>4, <2>5, <1>1
    <3>3. g[i - 1] = M[i - 1]
      BY Zenon, <3>1, <3>2
    <3>4. g[i] = Apply(g[i - 1], n.log[i].cmd, i)
      BY Zenon, <1>5, <2>5, <2>7
    <3> QED BY Zenon, <3>1, <3>3, <3>4, <2>5
  <2> QED BY Zenon, <2>6, <2>7
<1>6. (CHOOSE g : g = F(g)) = h
  BY Zenon, <1>4, <1>5
<1>7. h[upto] = M[upto]
  BY <1>1
<1> HIDE DEF h
<1> QED
  BY Zenon, <1>2, <1>6, <1>7 DEF ApplyCommitted

-----------------------------------------------------------------------------
(* Elections *)

\* The types of the fields of a node, and of the entries of its log.
LEMMA NodeFacts ==
  ASSUME NEW n \in Node
  PROVE  /\ n.term \in Nat /\ n.commit \in Nat /\ n.applied \in Nat /\ n.state \in Map
         /\ n.log \in Seq(LogEntry) /\ LastIndex(n) = Len(n.log) /\ LastIndex(n) \in Nat
         /\ DOMAIN n.log = 1..LastIndex(n)
         /\ \A i \in 1..LastIndex(n) : n.log[i] \in LogEntry /\ n.log[i].term \in Nat /\ TermOf(n, i) = n.log[i].term
         /\ \A i \in Nat : TermOf(n, i) \in Nat
         /\ TermOf(n, 0) = 0
<1>1. /\ n.term \in Nat /\ n.commit \in Nat /\ n.applied \in Nat /\ n.state \in Map
      /\ n.log \in Seq(LogEntry)
  BY Zenon DEF Node
<1>2. LastIndex(n) = Len(n.log) /\ LastIndex(n) \in Nat /\ DOMAIN n.log = 1..LastIndex(n)
  BY <1>1 DEF LastIndex
<1>3. ASSUME NEW i \in 1..LastIndex(n)
      PROVE  n.log[i] \in LogEntry /\ n.log[i].term \in Nat /\ TermOf(n, i) = n.log[i].term
  <2>1. n.log[i] \in LogEntry
    BY <1>1, <1>2, <1>3
  <2> QED BY Zenon, <2>1, <1>2 DEF LogEntry, TermOf
<1>4. \A i \in Nat : TermOf(n, i) \in Nat
  BY Zenon, <1>2, <1>3 DEF TermOf
<1>5. TermOf(n, 0) = 0
  BY <1>2 DEF TermOf
<1> QED BY Zenon, <1>1, <1>2, <1>3, <1>4, <1>5

\* Two majorities have a node in common.
LEMMA MajoritiesMeet ==
  ASSUME NEW A \in SUBSET NodeId, NEW B \in SUBSET NodeId,
         Cardinality(A) >= Quorum, Cardinality(B) >= Quorum
  PROVE  \E x \in A : x \in B
<1>1. IsFiniteSet(NodeId) /\ Cardinality(NodeId) = N
  <2>1. 0 \in Int /\ N - 1 \in Int
    OBVIOUS
  <2> QED BY <2>1, FS_Interval DEF NodeId
<1>2. IsFiniteSet(A) /\ IsFiniteSet(B) /\ IsFiniteSet(A \cup B) /\ IsFiniteSet(A \cap B)
  <2>1. A \cup B \subseteq NodeId /\ A \cap B \subseteq NodeId
    BY Zenon
  <2> QED BY Zenon, <1>1, <2>1, FS_Subset
<1>3. Cardinality(A \cup B) <= N
  <2>1. A \cup B \subseteq NodeId
    BY Zenon
  <2> QED BY Zenon, <1>1, <2>1, FS_Subset
<1>4. Cardinality(A \cup B) = Cardinality(A) + Cardinality(B) - Cardinality(A \cap B)
  BY Zenon, <1>2, FS_Union
<1>5. /\ Cardinality(A) \in Nat /\ Cardinality(B) \in Nat /\ Cardinality(A \cap B) \in Nat
      /\ Cardinality(A \cup B) \in Nat
  BY Zenon, <1>2, FS_CardinalityType
<1>6. Quorum \in Nat /\ 2 * Quorum > N
  BY DEF Quorum
<1>7. Cardinality(A \cap B) # 0
  BY <1>3, <1>4, <1>5, <1>6
<1>8. A \cap B # {}
  BY Zenon, <1>7, FS_EmptySet
<1> QED BY Zenon, <1>8

\* The greatest term exists.
LEMMA MaxTermFacts ==
  ASSUME NEW ns \in [NodeId -> Node]
  PROVE  MaxTermOf(ns) \in Nat /\ \A i \in NodeId : ns[i].term <= MaxTermOf(ns)
<1> DEFINE f == [i \in 0..(N - 1) |-> ns[i].term]
<1>1. N - 1 \in Nat /\ f \in [0..(N - 1) -> Nat]
  BY NodeFacts DEF NodeId
<1>2. PICK m \in 0..(N - 1) : \A i \in 0..(N - 1) : f[i] <= f[m]
  BY Zenon, <1>1, GreatestValue
<1>3. m \in NodeId /\ \A i \in NodeId : ns[i].term <= ns[m].term
  BY Zenon, <1>2 DEF NodeId
<1>4. \E t \in {ns[i].term : i \in NodeId} : \A i \in NodeId : ns[i].term <= t
  BY Zenon, <1>3
<1>5. /\ MaxTermOf(ns) \in {ns[i].term : i \in NodeId}
      /\ \A i \in NodeId : ns[i].term <= MaxTermOf(ns)
  BY Zenon, <1>4 DEF MaxTermOf
<1> QED BY Zenon, <1>5, NodeFacts

\* elect: a most up-to-date live node exists, and is the candidate.
LEMMA CandidateFacts ==
  ASSUME NEW ns \in [NodeId -> Node], Live # {}
  PROVE  /\ Candidate(ns) \in Live
         /\ \A o \in Live \ {Candidate(ns)} : Before(ns, Candidate(ns), o)
<1> DEFINE ft == [i \in 0..(N - 1) |-> LastTerm(ns[i])]
           fi == [i \in 0..(N - 1) |-> LastIndex(ns[i])]
<1>1. N - 1 \in Nat /\ Live \in SUBSET (0..(N - 1)) /\ Live \subseteq NodeId
  BY DEF Live, NodeId
<1>2. ft \in [0..(N - 1) -> Nat] /\ fi \in [0..(N - 1) -> Nat]
  BY Zenon, NodeFacts DEF NodeId, LastTerm
<1>3. PICK m \in Live : \A i \in Live : ft[i] <= ft[m]
  BY ZenonT(40), <1>1, <1>2, GreatestOn
<1> DEFINE L1 == {i \in Live : ft[i] = ft[m]}
<1>4. PICK p \in L1 : \A i \in L1 : fi[i] <= fi[p]
  <2>1. L1 \in SUBSET (0..(N - 1)) /\ m \in L1
    BY Zenon, <1>1
  <2> QED BY Zenon, <1>1, <1>2, <2>1, GreatestOn
<1> DEFINE L2 == {i \in L1 : fi[i] = fi[p]}
<1>5. PICK c \in L2 : \A i \in L2 : c <= i
  <2>1. L2 \in SUBSET Live /\ p \in L2
    BY Zenon
  <2>2. Live \in SUBSET Nat
    BY <1>1
  <2> HIDE DEF L2
  <2> QED BY Zenon, <2>1, <2>2, LeastElement
<1>6. ASSUME NEW o \in Live \ {c} PROVE Before(ns, c, o)
  <2>1. c \in Live /\ ft[c] = ft[m] /\ fi[c] = fi[p] /\ c \in Nat /\ o \in Nat
    BY <1>5, <1>1
  <2>2. ft[o] \in Nat /\ ft[c] \in Nat /\ fi[o] \in Nat /\ fi[c] \in Nat
    BY Zenon, <1>2, <1>1, <2>1
  <2>3. ft[o] <= ft[c]
    BY Zenon, <1>3, <2>1
  <2>4. ft[o] = ft[c] => fi[o] <= fi[c]
    BY Zenon, <1>4, <2>1
  <2>5. ft[o] = ft[c] /\ fi[o] = fi[c] => c < o
    <3>1. ft[o] = ft[c] /\ fi[o] = fi[c] => o \in L2
      BY Zenon, <2>1
    <3> HIDE DEF L2
    <3> QED BY <3>1, <1>5, <2>1
  <2>6. /\ ft[o] = LastTerm(ns[o]) /\ ft[c] = LastTerm(ns[c])
        /\ fi[o] = LastIndex(ns[o]) /\ fi[c] = LastIndex(ns[c])
    BY Zenon, <1>1, <2>1
  <2> HIDE DEF ft, fi
  <2> QED BY <2>2, <2>3, <2>4, <2>5, <2>6 DEF Before
<1>7. \E d \in Live : \A o \in Live \ {d} : Before(ns, d, o)
  BY Zenon, <1>5, <1>6
<1> QED BY Zenon, <1>7 DEF Candidate

\* Among the live majority is a node with the whole log, so the candidate has
\* the whole log.
LEMMA CandidateHolds ==
  ASSUME RaftInv, Cardinality(Live) >= Quorum
  PROVE  Candidate(nodes) \in Live /\ LastIndex(nodes[Candidate(nodes)]) = Len(acked)
<1> DEFINE c == Candidate(nodes)
<1>1. /\ nodes \in [NodeId -> Node] /\ LogsAgree(nodes, acked) /\ TermsGrow(nodes)
      /\ Len(acked) \in Nat /\ Cardinality(Holders(nodes, acked)) >= Quorum
  BY DEF RaftInv, NodesInv, TypeOK
<1>2. PICK h \in Live : h \in Holders(nodes, acked)
  <2>1. Live \in SUBSET NodeId /\ Holders(nodes, acked) \in SUBSET NodeId
    BY Zenon DEF Live, Holders
  <2> QED BY Zenon, <1>1, <2>1, MajoritiesMeet
<1>3. c \in Live /\ \A o \in Live \ {c} : Before(nodes, c, o)
  BY Zenon, <1>1, <1>2, CandidateFacts
<1>4. c \in NodeId /\ h \in NodeId /\ LastIndex(nodes[h]) = Len(acked)
  BY Zenon, <1>2, <1>3 DEF Live, Holders
<1> HIDE DEF c
<1>5. CASE c = h
  BY Zenon, <1>3, <1>4, <1>5 DEF c
<1>6. CASE c # h
  <2>1. Before(nodes, c, h)
    BY Zenon, <1>2, <1>3, <1>6
  <2>2. nodes[c] \in Node /\ nodes[h] \in Node
    BY Zenon, <1>1, <1>4
  <2> DEFINE i == LastIndex(nodes[c])
             j == LastIndex(nodes[h])
  <2>3. i \in Nat /\ j \in Nat /\ i <= j
    BY Zenon, <1>1, <1>4, <2>2, NodeFacts DEF LogsAgree
  <2>4. CASE i = 0
    <3>1. LastTerm(nodes[c]) = 0 /\ LastTerm(nodes[h]) \in Nat
      BY Zenon, <2>2, <2>3, <2>4, NodeFacts DEF LastTerm
    <3> HIDE DEF i, j
    <3>2. i >= j
      BY SMTT(30), SMTT(60), <3>1, <2>1, <2>3 DEF Before, i, j
    <3> QED BY <3>2, <2>3, <1>3, <1>4 DEF i, j, c
  <2>5. CASE i # 0
    <3>1. i \in 1..i /\ i \in 1..j /\ j \in 1..j
      BY <2>3, <2>5
    <3>2. nodes[c].log[i] = nodes[h].log[i]
      BY Zenon, <3>1, <2>3, <1>1, <1>4 DEF LogsAgree
    <3>3. nodes[h].log[i].term <= nodes[h].log[j].term
      BY Zenon, <3>1, <1>1, <1>4 DEF TermsGrow
    <3>4. LastTerm(nodes[c]) = nodes[c].log[i].term /\ LastTerm(nodes[h]) = nodes[h].log[j].term
      BY Zenon, <3>1, <2>2, NodeFacts DEF LastTerm
    <3>5. nodes[c].log[i].term \in Nat /\ nodes[h].log[j].term \in Nat
      BY Zenon, <3>1, <2>2, NodeFacts
    <3>6. LastTerm(nodes[c]) <= LastTerm(nodes[h])
      BY Zenon, <3>2, <3>3, <3>4
    <3> HIDE DEF i, j
    <3>7. i >= j
      BY <3>4, <3>5, <3>6, <2>1, <2>3 DEF Before, i, j
    <3> QED BY <3>7, <2>3, <1>3, <1>4 DEF i, j, c
  <2> QED BY Zenon, <2>4, <2>5
<1> QED BY Zenon, <1>5, <1>6

\* A step that leaves the logs and what was applied of them alone, with terms
\* that only grow and one leader to a term, keeps the invariant of the nodes.
LEMMA SameLogs ==
  ASSUME NEW cmds, NEW ns, NodesInv(ns, cmds), NEW ms \in [NodeId -> Node],
         \A a \in NodeId : /\ ms[a].log = ns[a].log /\ ms[a].commit = ns[a].commit
                           /\ ms[a].applied = ns[a].applied /\ ms[a].state = ns[a].state
                           /\ ns[a].term <= ms[a].term,
         OneLeader(ms)
  PROVE  NodesInv(ms, cmds) /\ Holders(ms, cmds) = Holders(ns, cmds)
<1>1. \A a \in NodeId : LastIndex(ms[a]) = LastIndex(ns[a])
  BY Zenon DEF LastIndex
<1>2. LogsAgree(ms, cmds)
  BY <1>1 DEF NodesInv, LogsAgree
<1>3. TermsGrow(ms)
  <2> SUFFICES ASSUME NEW a \in NodeId, NEW i \in 1..LastIndex(ms[a])
               PROVE  /\ ms[a].log[i].term <= ms[a].term
                      /\ \A j \in 1..i : ms[a].log[j].term <= ms[a].log[i].term
    BY Zenon DEF TermsGrow
  <2>1. ns[a].log[i].term <= ns[a].term /\ \A j \in 1..i : ns[a].log[j].term <= ns[a].log[i].term
    BY Zenon, <1>1 DEF NodesInv, TermsGrow
  <2>2. ns[a] \in Node /\ ms[a] \in Node
    BY Zenon DEF NodesInv
  <2>3. ns[a].log[i].term \in Nat /\ ns[a].term \in Nat /\ ms[a].term \in Nat
    BY Zenon, <1>1, <2>2, NodeFacts
  <2> QED BY <2>1, <2>3
<1>4. Settled(ms)
  BY Zenon, <1>1 DEF NodesInv, Settled
<1>5. \E M : History(M, cmds) /\ \A a \in NodeId : ms[a].state = M[LastIndex(ms[a])]
  BY <1>1 DEF NodesInv
<1>6. Holders(ms, cmds) = Holders(ns, cmds)
  BY Zenon, <1>1 DEF Holders
<1> QED BY Zenon, <1>2, <1>3, <1>4, <1>5, <1>6 DEF NodesInv

\* A node after request_vote of a later term: a follower of that term.
LEMMA RequestVoteFacts ==
  ASSUME NEW n \in Node, NEW from \in NodeId, NEW t \in Nat, n.term < t,
         NEW li, NEW lt
  PROVE  LET m == RequestVote(n, from, t, li, lt) IN
         /\ m \in Node /\ m.term = t /\ m.role = "follower"
         /\ m.log = n.log /\ m.commit = n.commit /\ m.applied = n.applied /\ m.state = n.state
<1>1. n.term \in Nat
  BY Zenon, NodeFacts
<1> DEFINE q == [n EXCEPT !.term = t, !.votedFor = None, !.role = "follower"]
<1>2. Adopt(n, t) = q
  BY Zenon, <1>1 DEF Adopt
<1>3. /\ q \in Node /\ q.term = t /\ q.role = "follower"
      /\ q.log = n.log /\ q.commit = n.commit /\ q.applied = n.applied /\ q.state = n.state
  BY Zenon DEF Node
<1> HIDE DEF q
<1>4. CASE Granted(n, from, t, li, lt)
  <2>1. RequestVote(n, from, t, li, lt) = [q EXCEPT !.votedFor = from]
    BY Zenon, <1>2, <1>4 DEF RequestVote
  <2> QED BY Zenon, <2>1, <1>3 DEF Node
<1>5. CASE ~Granted(n, from, t, li, lt)
  BY Zenon, <1>5, <1>2, <1>3 DEF RequestVote
<1> QED BY Zenon, <1>4, <1>5

\* elect: the vote keeps the invariant of the nodes, and whom it makes the leader
\* leads them.
LEMMA BallotFacts ==
  ASSUME NEW cmds, NEW ns, NodesInv(ns, cmds), NEW c \in Live, LastIndex(ns[c]) = Len(cmds),
         NEW t \in Nat, \A a \in NodeId : ns[a].term < t
  PROVE  LET b == Ballot(ns, c, t) IN
         /\ NodesInv(b.nodes, cmds) /\ Holders(b.nodes, cmds) = Holders(ns, cmds)
         /\ b.leader # None => b.leader = c /\ Leads(b.nodes, cmds, c)
<1> DEFINE won == 1 + Cardinality(Votes(ns, c, t)) >= Quorum
           ms == Voted(ns, c, t, won)
<1>1. Ballot(ns, c, t) = [nodes |-> ms, leader |-> IF won THEN c ELSE None]
  BY Zenon DEF Ballot
<1> HIDE DEF won
<1>2. ns \in [NodeId -> Node] /\ c \in NodeId /\ OneLeader(ns)
  BY Zenon DEF NodesInv, Live
<1>3. /\ ms[c] \in Node /\ ms[c].term = t
      /\ ms[c].log = ns[c].log /\ ms[c].commit = ns[c].commit /\ ms[c].applied = ns[c].applied
      /\ ms[c].state = ns[c].state
      /\ won => ms[c].role = "leader"
      /\ ~won => ms[c].role = "candidate"
  <2>1. ns[c] \in Node /\ NoMatch \in [NodeId -> Nat]
    BY Zenon, <1>2 DEF NoMatch
  <2> DEFINE s == [StartElection(ns[c], c) EXCEPT !.term = t]
  <2>2. /\ s \in Node /\ s.term = t /\ s.role = "candidate" /\ s.log = ns[c].log
        /\ s.commit = ns[c].commit /\ s.applied = ns[c].applied /\ s.state = ns[c].state
    BY Zenon, <2>1, <1>2 DEF StartElection, Node
  <2>3. ms[c] = IF won THEN BecomeLeader(s) ELSE s
    BY Zenon, <1>2 DEF Voted
  <2> HIDE DEF s, ms
  <2>4. CASE won
    BY ZenonT(40), <2>1, <2>2, <2>3, <2>4 DEF BecomeLeader, Node
  <2>5. CASE ~won
    BY Zenon, <2>2, <2>3, <2>5
  <2> QED BY Zenon, <2>4, <2>5
<1>4. ASSUME NEW a \in NodeId, a # c
      PROVE  /\ ms[a] \in Node /\ ms[a].term <= t /\ ns[a].term <= ms[a].term
             /\ ms[a].log = ns[a].log /\ ms[a].commit = ns[a].commit
             /\ ms[a].applied = ns[a].applied /\ ms[a].state = ns[a].state
             /\ ms[a].role = "leader" => ms[a].term < t /\ ms[a] = ns[a]
  <2>1. ns[a] \in Node /\ ns[a].term \in Nat /\ ns[a].term < t
    BY Zenon, <1>2, <1>4, NodeFacts
  <2>2. CASE a \in Live
    <3>1. ms[a] = RequestVote(ns[a], c, t, LastTerm(ns[c]), LastIndex(ns[c]))
      BY Zenon, <2>2, <1>4 DEF Voted
    <3> HIDE DEF ms
    <3> QED BY <3>1, <2>1, <1>2, RequestVoteFacts
  <2>3. CASE a \notin Live
    <3>1. ms[a] = ns[a]
      BY Zenon, <2>3, <1>4 DEF Voted
    <3> HIDE DEF ms
    <3> QED BY <3>1, <2>1
  <2> QED BY Zenon, <2>2, <2>3
<1>5. ms \in [NodeId -> Node]
  <2>1. ms = [a \in NodeId |-> ms[a]]
    BY Zenon DEF Voted
  <2>2. \A a \in NodeId : ms[a] \in Node
    BY Zenon, <1>3, <1>4
  <2> HIDE DEF ms
  <2> QED BY Zenon, <2>1, <2>2
<1> HIDE DEF ms
<1>6. OneLeader(ms)
  <2> SUFFICES ASSUME NEW a \in NodeId, NEW b \in NodeId, ms[a].role = "leader",
                      ms[b].role = "leader", ms[a].term = ms[b].term
               PROVE  a = b
    BY Zenon DEF OneLeader
  <2>1. \A d \in NodeId : ms[d].term \in Nat
    BY Zenon, <1>5, NodeFacts
  <2>2. CASE a = c
    BY <2>1, <2>2, <1>3, <1>4
  <2>3. CASE b = c
    BY <2>1, <2>3, <1>3, <1>4
  <2>4. CASE a # c /\ b # c
    BY <2>4, <1>4, <1>2 DEF OneLeader
  <2> QED BY Zenon, <2>2, <2>3, <2>4
<1>7. NodesInv(ms, cmds) /\ Holders(ms, cmds) = Holders(ns, cmds)
  <2>1. \A a \in NodeId : /\ ms[a].log = ns[a].log /\ ms[a].commit = ns[a].commit
                          /\ ms[a].applied = ns[a].applied /\ ms[a].state = ns[a].state
                          /\ ns[a].term <= ms[a].term
    <3>1. ns[c].term <= t
      <4>1. ns[c].term \in Nat /\ ns[c].term < t
        BY Zenon, <1>2, NodeFacts
      <4> QED BY <4>1
    <3> QED BY Zenon, <1>3, <1>4, <3>1
  <2> QED BY Zenon, <2>1, <1>5, <1>6, SameLogs
<1>8. ASSUME won PROVE Leads(ms, cmds, c)
  <2>1. LastIndex(ms[c]) = Len(cmds)
    BY Zenon, <1>3 DEF LastIndex
  <2>2. \A a \in NodeId : ms[a].term <= ms[c].term
    BY <1>3, <1>4
  <2> QED BY Zenon, <1>3, <1>8, <2>1, <2>2 DEF Leads
<1> QED BY <1>1, <1>7, <1>8

\* ensure_leader.
LEMMA EnsureFacts ==
  ASSUME RaftInv
  PROVE  LET e == EnsureLeader IN
         /\ NodesInv(e.nodes, acked) /\ Holders(e.nodes, acked) = Holders(nodes, acked)
         /\ e.leader # None => Leads(e.nodes, acked, e.leader) /\ Cardinality(Live) >= Quorum
<1>1. NodesInv(nodes, acked) /\ nodes \in [NodeId -> Node]
  BY Zenon DEF RaftInv, NodesInv
<1>2. Cardinality(Live) \in Nat /\ Quorum \in Nat
  <2>1. IsFiniteSet(NodeId) /\ Live \subseteq NodeId
    BY FS_Interval DEF NodeId, Live
  <2> QED BY <2>1, FS_Subset, FS_CardinalityType DEF Quorum
<1>3. CASE Cardinality(Live) < Quorum
  <2>1. EnsureLeader = [nodes |-> nodes, leader |-> None]
    BY <1>2, <1>3 DEF EnsureLeader
  <2> QED BY Zenon, <2>1, <1>1
<1>4. CASE Cardinality(Live) >= Quorum /\ leader # None /\ leader \notin down
  <2>1. EnsureLeader = [nodes |-> nodes, leader |-> leader]
    BY <1>2, <1>4 DEF EnsureLeader
  <2> QED BY Zenon, <2>1, <1>1, <1>4 DEF RaftInv
<1>5. CASE Cardinality(Live) >= Quorum /\ ~(leader # None /\ leader \notin down)
  <2> DEFINE t == MaxTermOf(nodes) + 1
             c == Candidate(nodes)
  <2>1. EnsureLeader = Ballot(nodes, c, t)
    BY <1>2, <1>5 DEF EnsureLeader, Elect
  <2>2. c \in Live /\ LastIndex(nodes[c]) = Len(acked)
    BY Zenon, <1>5, CandidateHolds
  <2>3. t \in Nat /\ \A a \in NodeId : nodes[a].term < t
    <3>1. MaxTermOf(nodes) \in Nat /\ \A a \in NodeId : nodes[a].term <= MaxTermOf(nodes)
      BY Zenon, <1>1, MaxTermFacts
    <3>2. \A a \in NodeId : nodes[a].term \in Nat
      BY Zenon, <1>1, NodeFacts
    <3> QED BY <3>1, <3>2
  <2> HIDE DEF t, c
  <2>4. /\ NodesInv(Ballot(nodes, c, t).nodes, acked)
        /\ Holders(Ballot(nodes, c, t).nodes, acked) = Holders(nodes, acked)
        /\ Ballot(nodes, c, t).leader # None =>
             Ballot(nodes, c, t).leader = c /\ Leads(Ballot(nodes, c, t).nodes, acked, c)
    BY <2>2, <2>3, <1>1, BallotFacts
  <2> QED BY Zenon, <2>1, <2>4, <1>5
<1> QED BY <1>2, <1>3, <1>4, <1>5

-----------------------------------------------------------------------------
(* Replication *)

\* Two sequences are equal if they are so entry by entry.
LEMMA SameSeq ==
  ASSUME NEW S, NEW s \in Seq(S), NEW u \in Seq(S), Len(s) = Len(u),
         \A i \in 1..Len(s) : s[i] = u[i]
  PROVE  s = u
  OBVIOUS

\* The entries of a part of a sequence.
LEMMA SubSeqFacts ==
  ASSUME NEW S, NEW s \in Seq(S), NEW m \in Nat, m >= 1, NEW n \in Nat, n <= Len(s), m <= n + 1
  PROVE  /\ SubSeq(s, m, n) \in Seq(S) /\ Len(SubSeq(s, m, n)) = n - m + 1
         /\ \A i \in 1..(n - m + 1) : SubSeq(s, m, n)[i] = s[m + i - 1]
  OBVIOUS

\* The slice from an index to itself is the one element there.
LEMMA OneEntry ==
  ASSUME NEW S, NEW s \in Seq(S), NEW m \in 1..Len(s)
  PROVE  Len(SubSeq(s, m, m)) = 1 /\ SubSeq(s, m, m)[1] = s[m]
  OBVIOUS

\* The entries of two sequences one after the other.
LEMMA ConcatFacts ==
  ASSUME NEW S, NEW s \in Seq(S), NEW u \in Seq(S)
  PROVE  /\ s \o u \in Seq(S) /\ Len(s \o u) = Len(s) + Len(u)
         /\ \A i \in 1..Len(s) : (s \o u)[i] = s[i]
         /\ \A i \in 1..Len(u) : (s \o u)[Len(s) + i] = u[i]
  OBVIOUS

\* An index into two sequences one after the other is one into either.
LEMMA TwoParts ==
  ASSUME NEW m \in Nat, NEW n \in Nat, NEW i \in 1..(m + n)
  PROVE  i \in 1..m \/ \E j \in 1..n : i = m + j
<1>1. i \in 1..m \/ (i - m \in 1..n /\ i = m + (i - m))
  OBVIOUS
<1> QED BY Zenon, <1>1

\* append_entries: what follows its last entry, given to a log that is a first
\* part of the leader's, makes it the leader's.
LEMMA MergeRest ==
  ASSUME NEW log \in Seq(LogEntry), NEW full \in Seq(LogEntry),
         Len(log) < Len(full), \A i \in 1..Len(log) : log[i] = full[i]
  PROVE  LET en == SubSeq(full, Len(log) + 1, Len(full)) IN
         Merge(log, Len(log), en) = full /\ Len(log) + Len(en) = Len(full)
<1> DEFINE rest == SubSeq(full, Len(log) + 1, Len(full))
<1>1. Len(log) \in Nat /\ Len(full) \in Nat /\ DOMAIN log = 1..Len(log)
  OBVIOUS
<1>2. PICK en \in Seq(LogEntry) :
        /\ en = rest /\ Len(log) + Len(en) = Len(full)
        /\ \A i \in 1..Len(en) : en[i] = full[Len(log) + i]
  <2>1. /\ rest \in Seq(LogEntry) /\ Len(rest) = Len(full) - (Len(log) + 1) + 1
        /\ \A i \in 1..(Len(full) - (Len(log) + 1) + 1) : rest[i] = full[Len(log) + 1 + i - 1]
    BY <1>1, SubSeqFacts
  <2> HIDE DEF rest
  <2>2. /\ Len(log) + (Len(full) - (Len(log) + 1) + 1) = Len(full)
        /\ \A i \in 1..(Len(full) - (Len(log) + 1) + 1) : Len(log) + 1 + i - 1 = Len(log) + i
    BY <1>1
  <2>3. \A i \in 1..Len(rest) : rest[i] = full[Len(log) + i]
    <3> TAKE i \in 1..Len(rest)
    <3>1. rest[i] = full[Len(log) + 1 + i - 1] /\ Len(log) + 1 + i - 1 = Len(log) + i
      BY Zenon, <2>1, <2>2
    <3> QED BY Zenon, <3>1
  <2>4. Len(log) + Len(rest) = Len(full)
    BY Zenon, <2>1, <2>2
  <2> QED BY Zenon, <2>1, <2>3, <2>4
<1> HIDE DEF rest
<1>3. Held(log, Len(log), en) = 0
  <2> DEFINE P(k) == /\ \A i \in 1..k : Len(log) + i \in DOMAIN log /\ log[Len(log) + i].term = en[i].term
                     /\ k < Len(en) =>
                          ~(Len(log) + k + 1 \in DOMAIN log /\ log[Len(log) + k + 1].term = en[k + 1].term)
  <2>1. Len(log) + 1 \notin DOMAIN log /\ Len(log) + 0 + 1 = Len(log) + 1 /\ Len(en) \in Nat
    BY <1>1
  <2>2. 0 \in 0..Len(en) /\ P(0)
    <3>1. 0 \in 0..Len(en) /\ 1..0 = {}
      BY <2>1
    <3> QED BY Zenon, <3>1, <2>1
  <2>3. ASSUME NEW k \in 0..Len(en), P(k) PROVE k = 0
    <3>1. k # 0 => 1 \in 1..k
      BY <2>1
    <3> QED BY Zenon, <3>1, <2>1, <2>3
  <2> HIDE DEF P
  <2>4. (CHOOSE k \in 0..Len(en) : P(k)) = 0
    BY Zenon, <2>2, <2>3
  <2> QED BY Zenon, <2>4 DEF Held, P
<1>4. Merge(log, Len(log), en) = SubSeq(log, 1, Len(log)) \o SubSeq(en, 1, Len(en))
  <2>1. Len(log) + 0 = Len(log) /\ 0 + 1 = 1 /\ 0 # Len(en)
    BY <1>1, <1>2
  <2> QED BY Zenon, <1>3, <2>1 DEF Merge
<1>5. SubSeq(log, 1, Len(log)) = log /\ SubSeq(en, 1, Len(en)) = en
  OBVIOUS
<1>6. /\ log \o en \in Seq(LogEntry) /\ Len(log \o en) = Len(full)
      /\ \A i \in 1..Len(log) : (log \o en)[i] = full[i]
      /\ \A i \in 1..Len(en) : (log \o en)[Len(log) + i] = full[Len(log) + i]
  <2>1. /\ log \o en \in Seq(LogEntry) /\ Len(log \o en) = Len(log) + Len(en)
        /\ \A i \in 1..Len(log) : (log \o en)[i] = log[i]
        /\ \A i \in 1..Len(en) : (log \o en)[Len(log) + i] = en[i]
    BY ConcatFacts
  <2> QED BY Zenon, <2>1, <1>2
<1>7. ASSUME NEW i \in 1..Len(full) PROVE (log \o en)[i] = full[i]
  <2>1. i \in 1..(Len(log) + Len(en)) /\ Len(en) \in Nat
    BY <1>2
  <2>2. i \in 1..Len(log) \/ \E j \in 1..Len(en) : i = Len(log) + j
    BY ZenonT(40), <1>1, <2>1, TwoParts
  <2> QED BY Zenon, <2>2, <1>6
<1>8. log \o en = full
  BY Zenon, <1>6, <1>7, SameSeq
<1> QED BY Zenon, <1>2, <1>4, <1>5, <1>8 DEF rest

\* And its last entry, given to a log equal to the leader's, changes nothing.
LEMMA MergeNone ==
  ASSUME NEW log \in Seq(LogEntry), NEW prev \in Nat, prev + 1 = Len(log)
  PROVE  LET en == SubSeq(log, prev + 1, prev + 1) IN
         Merge(log, prev, en) = log /\ prev + Len(en) = Len(log)
<1>1. PICK en : en = SubSeq(log, prev + 1, prev + 1)
  BY Zenon
<1>2. Len(en) = 1 /\ en[1] = log[prev + 1]
  <2>1. prev + 1 \in 1..Len(log)
    OBVIOUS
  <2> QED BY Zenon, <1>1, <2>1, OneEntry
<1>3. Held(log, prev, en) = 1
  <2> DEFINE P(k) == /\ \A i \in 1..k : prev + i \in DOMAIN log /\ log[prev + i].term = en[i].term
                     /\ k < Len(en) =>
                          ~(prev + k + 1 \in DOMAIN log /\ log[prev + k + 1].term = en[k + 1].term)
  <2>1. prev + 1 \in DOMAIN log /\ prev + 0 + 1 = prev + 1
    OBVIOUS
  <2>2. 1 \in 0..Len(en) /\ P(1)
    <3>1. 1 \in 0..1 /\ ~(1 < 1) /\ \A i \in 1..1 : i = 1
      OBVIOUS
    <3> QED BY Zenon, <3>1, <2>1, <1>2
  <2>3. ASSUME NEW k \in 0..Len(en), P(k) PROVE k = 1
    <3>1. k = 0 \/ k = 1
      BY <1>2, <2>3
    <3>2. ~P(0)
      <4>1. 0 < 1 /\ 0 + 1 = 1
        OBVIOUS
      <4> QED BY Zenon, <4>1, <2>1, <1>2
    <3> QED BY Zenon, <3>1, <3>2, <2>3
  <2> HIDE DEF P
  <2>4. (CHOOSE k \in 0..Len(en) : P(k)) = 1
    BY Zenon, <2>2, <2>3
  <2> QED BY Zenon, <2>4 DEF Held, P
<1>4. Merge(log, prev, en) = log
  BY Zenon, <1>2, <1>3 DEF Merge
<1> QED BY Zenon, <1>1, <1>2, <1>4

\* The node after a message of a term that is not below its own.
LEMMA AdoptFacts ==
  ASSUME NEW n \in Node, NEW t \in Nat, n.term <= t
  PROVE  LET q == Adopt(n, t) IN
         /\ q \in Node /\ q.log = n.log /\ q.commit = n.commit /\ q.applied = n.applied
         /\ q.state = n.state /\ q.term = t
<1>1. n.term \in Nat
  BY Zenon, NodeFacts
<1>2. CASE t > n.term
  <2>1. Adopt(n, t) = [n EXCEPT !.term = t, !.votedFor = None, !.role = "follower"]
    BY Zenon, <1>2 DEF Adopt
  <2> QED BY Zenon, <2>1 DEF Node
<1>3. CASE ~(t > n.term)
  <2>1. Adopt(n, t) = n /\ n.term = t
    BY <1>1, <1>3 DEF Adopt
  <2> QED BY Zenon, <2>1
<1> QED BY Zenon, <1>2, <1>3

\* peer_catch_up of a peer whose log is a first part of the leader's: the first
\* attempt succeeds, and the logs are equal.
LEMMA CatchUpFacts ==
  ASSUME NEW ldr \in Node, NEW peer \in Node, LastIndex(peer) <= LastIndex(ldr),
         \A i \in 1..LastIndex(peer) : peer.log[i] = ldr.log[i],
         peer.term <= ldr.term, ldr.commit <= LastIndex(ldr), peer.commit <= LastIndex(peer)
  PROVE  LET r == CatchUp(ldr, peer, LastIndex(ldr)) IN
         /\ r.ok = TRUE
         /\ r.node \in Node /\ r.node.log = ldr.log /\ r.node.commit <= LastIndex(ldr)
         /\ r.node.applied = peer.applied /\ r.node.state = peer.state
         /\ peer.term <= r.node.term /\ r.node.term <= ldr.term
         /\ LastIndex(ldr) = 0 \/ r.node.term = ldr.term
         /\ r.node.role = "leader" => r.node = peer
<1> DEFINE idx == LastIndex(ldr)
           top == LastIndex(peer)
<1>1. /\ idx \in Nat /\ top \in Nat /\ ldr.log \in Seq(LogEntry) /\ peer.log \in Seq(LogEntry)
      /\ Len(ldr.log) = idx /\ Len(peer.log) = top
      /\ ldr.term \in Nat /\ peer.term \in Nat /\ ldr.commit \in Nat /\ peer.commit \in Nat
  BY Zenon, NodeFacts
<1>2. CASE idx = 0
  <2>1. CatchUp(ldr, peer, idx) = [node |-> peer, ok |-> TRUE]
    BY Zenon, <1>2 DEF CatchUp
  <2>2. peer.log = ldr.log
    BY SMTT(30), SMTT(60), <1>1, <1>2, SameSeq
  <2> QED BY <2>1, <2>2, <1>1, <1>2
<1>3. CASE idx # 0
  <2> DEFINE Prev(len) == Least(len + 1, idx) - 1
             Sent(p, prev) == AppendEntries(p, ldr.term, prev, TermOf(ldr, prev),
                                            SubSeq(ldr.log, prev + 1, idx), ldr.commit)
             Ok(p, prev) == Accepts(p, ldr.term, prev, TermOf(ldr, prev))
             F(g) == [len \in 0..top |->
                       IF Ok(CutTo(ldr, peer, len), Prev(len))
                          \/ LastIndex(Sent(CutTo(ldr, peer, len), Prev(len))) = len
                       THEN [node |-> Sent(CutTo(ldr, peer, len), Prev(len)),
                             ok |-> Ok(CutTo(ldr, peer, len), Prev(len))]
                       ELSE g[LastIndex(Sent(CutTo(ldr, peer, len), Prev(len)))]]
             h == [len \in 0..top |-> [node |-> Sent(CutTo(ldr, peer, len), Prev(len)), ok |-> TRUE]]
  <2>1. ASSUME NEW len \in 0..top
        PROVE  Ok(CutTo(ldr, peer, len), Prev(len)) = TRUE
    <3> DEFINE p == CutTo(ldr, peer, len)
    <3>1. /\ p.term \in Nat /\ p.term <= ldr.term
          /\ DOMAIN p.log = 1..len /\ \A i \in 1..len : p.log[i] = ldr.log[i]
      <4>1. CASE len = top
        <5>1. p = peer
          BY Zenon, <4>1 DEF CutTo
        <5> QED BY Zenon, <5>1, <4>1, <1>1, NodeFacts
      <4>2. CASE len # top
        <5> DEFINE q == Adopt(peer, ldr.term)
        <5>1. q.term \in Nat /\ q.term <= ldr.term /\ q.log = peer.log /\ q \in Node
          BY <1>1, AdoptFacts
        <5> HIDE DEF q
        <5>2. p = [q EXCEPT !.role = "follower", !.log = SubSeq(@, 1, len)]
          BY Zenon, <4>2 DEF CutTo, q
        <5>3. p.term = q.term /\ p.log = SubSeq(peer.log, 1, len)
          BY Zenon, <5>1, <5>2 DEF Node
        <5>4. /\ DOMAIN SubSeq(peer.log, 1, len) = 1..len
              /\ \A i \in 1..len : SubSeq(peer.log, 1, len)[i] = peer.log[i] /\ i \in 1..top
          BY <1>1
        <5> HIDE DEF p
        <5> QED BY Zenon, <5>1, <5>3, <5>4
      <4> QED BY Zenon, <4>1, <4>2
    <3> HIDE DEF p
    <3>2. Prev(len) = 0 \/ (Prev(len) \in 1..len /\ Prev(len) \in 1..idx)
      BY SMTT(30), SMTT(60), <1>1, <1>3 DEF Least
    <3>3. PrevOk(p, Prev(len), TermOf(ldr, Prev(len)))
      <4> HIDE DEF Prev
      <4> QED BY ZenonT(40), <3>1, <3>2, NodeFacts DEF PrevOk
    <3>4. Accepts(p, ldr.term, Prev(len), TermOf(ldr, Prev(len))) <=> TRUE
      <4> HIDE DEF Prev
      <4> QED BY Zenon, <3>1, <3>3, <1>1 DEF Accepts
    <3> QED BY Zenon, <3>4 DEF p, Accepts
  <2> HIDE DEF Sent, Ok, Prev
  <2>2. h = F(h) /\ \A g : g = F(g) => g = h
    BY Zenon, <2>1
  <2> HIDE DEF h
  <2>3. (CHOOSE g : g = F(g)) = h
    BY Zenon, <2>2
  <2>4. CatchUp(ldr, peer, idx) = h[top]
    BY Zenon, <2>3, <1>3 DEF CatchUp, Sent, Ok, Prev
  <2>5. h[top] = [node |-> Sent(peer, Prev(top)), ok |-> TRUE]
    <3>1. CutTo(ldr, peer, top) = peer /\ top \in 0..top
      BY <1>1 DEF CutTo
    <3> QED BY Zenon, <3>1 DEF h
  <2> DEFINE prev == Prev(top)
             en == SubSeq(ldr.log, prev + 1, idx)
             q == Adopt(peer, ldr.term)
             m == [q EXCEPT !.role = "follower"]
             n == Sent(peer, prev)
  <2>6. prev \in Nat /\ prev = Least(Len(peer.log) + 1, idx) - 1
    BY <1>1, <1>3 DEF Prev, Least
  <2>7. PrevOk(peer, prev, TermOf(ldr, prev))
    <3>1. CutTo(ldr, peer, top) = peer /\ top \in 0..top
      BY <1>1 DEF CutTo
    <3> QED BY Zenon, <3>1, <2>1 DEF Ok, Accepts
  <2>8. Merge(peer.log, prev, en) = ldr.log /\ prev + Len(en) = idx
    <3>1. CASE top < idx
      <4>1. prev = Len(peer.log) /\ Len(peer.log) < Len(ldr.log) /\ Len(ldr.log) = idx
        BY <1>1, <2>6, <3>1 DEF Least
      <4>2. \A i \in 1..Len(peer.log) : peer.log[i] = ldr.log[i]
        BY Zenon, <1>1
      <4> HIDE DEF prev, idx, top
      <4>3. LET e == SubSeq(ldr.log, Len(peer.log) + 1, Len(ldr.log)) IN
            Merge(peer.log, Len(peer.log), e) = ldr.log /\ Len(peer.log) + Len(e) = Len(ldr.log)
        BY Zenon, <4>1, <4>2, <1>1, MergeRest
      <4> QED BY Zenon, <4>1, <4>3 DEF en
    <3>2. CASE top = idx
      <4>1. prev + 1 = Len(peer.log) /\ idx = prev + 1
        BY SMTT(30), SMTT(60), <1>1, <1>3, <2>6, <3>2 DEF Least
      <4>2. peer.log = ldr.log
        BY Zenon, <1>1, <3>2, SameSeq
      <4> HIDE DEF prev, idx, top
      <4>3. LET e == SubSeq(peer.log, prev + 1, prev + 1) IN
            Merge(peer.log, prev, e) = peer.log /\ prev + Len(e) = Len(peer.log)
        BY Zenon, <4>1, <2>6, <1>1, MergeNone
      <4> QED BY Zenon, <4>1, <4>2, <4>3 DEF en
    <3>3. top < idx \/ top = idx
      BY <1>1
    <3> QED BY Zenon, <3>1, <3>2, <3>3
  <2>9. /\ q \in Node /\ q.log = peer.log /\ q.commit = peer.commit /\ q.applied = peer.applied
        /\ q.state = peer.state /\ q.term = ldr.term
    BY Zenon, <1>1, AdoptFacts
  <2> HIDE DEF prev, en, q
  <2>10. /\ m \in Node /\ m.log = peer.log /\ m.commit = peer.commit /\ m.applied = peer.applied
         /\ m.state = peer.state /\ m.term = ldr.term /\ m.role = "follower"
    BY Zenon, <2>9 DEF Node
  <2>11. n = [m EXCEPT !.log = Merge(@, prev, en),
                       !.commit = Greatest(@, Least(ldr.commit, prev + Len(en)))]
    <3>1. ~(ldr.term < peer.term)
      BY <1>1
    <3> QED BY Zenon, <3>1, <2>7 DEF Sent, AppendEntries, en, q
  <2> HIDE DEF m, n
  <2>12. Greatest(m.commit, Least(ldr.commit, prev + Len(en))) \in 0..idx
    BY <2>10, <2>8, <1>1 DEF Greatest, Least
  <2>13. /\ n \in Node /\ n.log = ldr.log /\ n.commit \in 0..idx /\ n.applied = peer.applied
         /\ n.state = peer.state /\ n.term = ldr.term /\ n.role = "follower"
    <3> DEFINE cm == Greatest(m.commit, Least(ldr.commit, prev + Len(en)))
    <3>1. n = [m EXCEPT !.log = ldr.log, !.commit = cm]
      BY Zenon, <2>8, <2>10, <2>11
    <3>2. cm \in Nat /\ cm \in 0..idx /\ ldr.log \in Seq(LogEntry)
      BY <2>12, <1>1
    <3> HIDE DEF cm
    <3> QED BY Zenon, <3>1, <3>2, <2>10 DEF Node
  <2>14. CatchUp(ldr, peer, idx).node = n /\ CatchUp(ldr, peer, idx).ok = TRUE
    BY <2>4, <2>5 DEF n, prev
  <2> QED BY <2>13, <2>14, <1>1
<1> QED BY Zenon, <1>2, <1>3

-----------------------------------------------------------------------------
(* Applying *)

\* The nodes when l has just proposed, or is about to serve a read: its log is
\* that of the commands, and every other log is a first part of it.
Ready(ns, cmds, M, l) ==
  /\ ns \in [NodeId -> Node] /\ l \in Live /\ History(M, cmds) /\ OneLeader(ns)
  /\ LastIndex(ns[l]) = Len(cmds) /\ ns[l].role = "leader"
  /\ \A j \in 1..Len(cmds) : ns[l].log[j].cmd = cmds[j]
  /\ \A j \in 1..Len(cmds) : \A k \in 1..j : ns[l].log[k].term <= ns[l].log[j].term
  /\ \A a \in NodeId :
       /\ LastIndex(ns[a]) <= Len(cmds)
       /\ \A j \in 1..LastIndex(ns[a]) : ns[a].log[j] = ns[l].log[j] /\ ns[a].log[j].term <= ns[a].term
       /\ ns[a].term <= ns[l].term
       /\ ns[a].applied <= LastIndex(ns[a]) /\ ns[a].commit <= LastIndex(ns[a])
       /\ a \notin Live => ns[a].applied = LastIndex(ns[a]) /\ ns[a].commit = LastIndex(ns[a])
       /\ ns[a].state = M[ns[a].applied]

\* ... and when the live ones have been brought up to it.
Brought(ns, cmds, M, l) == Ready(ns, cmds, M, l) /\ \A a \in Live : ns[a].log = ns[l].log

\* apply_committed of the driver, from there.
LEMMA ApplyLiveFacts ==
  ASSUME NEW ns, NEW cmds \in Seq(Cmd), NEW M, NEW l, Brought(ns, cmds, M, l)
  PROVE  LET ms == ApplyLive(ns, l, Len(cmds)) IN
         /\ NodesInv(ms, cmds) /\ Leads(ms, cmds, l) /\ Live \subseteq Holders(ms, cmds)
         /\ \A a \in Live : ms[a].state = ms[l].state
<1> DEFINE K == Len(cmds)
           ms == ApplyLive(ns, l, K)
<1>0. /\ ns \in [NodeId -> Node] /\ l \in Live /\ Live \subseteq NodeId /\ l \in NodeId /\ K \in Nat
      /\ History(M, cmds) /\ M \in [0..K -> Map]
  <2>1. ns \in [NodeId -> Node] /\ l \in Live /\ History(M, cmds)
    BY Zenon DEF Brought, Ready
  <2>2. Live \subseteq NodeId
    BY Zenon DEF Live
  <2>3. K \in Nat
    OBVIOUS
  <2> QED BY Zenon, <2>1, <2>2, <2>3 DEF History
<1>1. ASSUME NEW a \in Live
      PROVE  /\ ms[a] \in Node /\ ms[a].log = ns[a].log /\ ms[a].commit = K /\ ms[a].applied = K
             /\ ms[a].state = M[K] /\ ms[a].term = ns[a].term /\ ms[a].role = ns[a].role
             /\ LastIndex(ns[a]) = K
  <2>1. a \in NodeId /\ ns[a] \in Node /\ ns[a].log = ns[l].log
    BY Zenon, <1>0 DEF Brought, Ready
  <2>2. /\ LastIndex(ns[a]) = K /\ ns[a].commit \in Nat /\ ns[a].applied \in Nat
        /\ ns[a].commit <= K /\ ns[a].applied <= K /\ ns[a].state = M[ns[a].applied]
        /\ \A j \in 1..K : ns[a].log[j].cmd = cmds[j]
    BY ZenonT(40), <2>1, NodeFacts DEF Brought, Ready, LastIndex
  <2>3. TermOf(ns[a], K) = TermOf(ns[l], K)
    BY Zenon, <2>1 DEF TermOf
  <2> DEFINE n == [ns[a] EXCEPT !.commit = K]
  <2>4. Greatest(ns[a].commit, K) = K
    BY <2>2, <1>0 DEF Greatest
  <2>5. ms[a] = ApplyCommitted(n)
    BY Zenon, <2>1, <2>3, <2>4 DEF ApplyLive
  <2>6. /\ n \in Node /\ n.commit = K /\ n.log = ns[a].log /\ n.applied = ns[a].applied
        /\ n.state = ns[a].state /\ n.term = ns[a].term /\ n.role = ns[a].role
    BY Zenon, <2>1, <1>0 DEF Node
  <2> HIDE DEF n, ms
  <2>7. LastIndex(n) = K
    BY Zenon, <2>6, <2>2 DEF LastIndex
  <2>8. ApplyCommitted(n) = [n EXCEPT !.applied = K, !.state = M[K]]
    <3>1. /\ LastIndex(n) <= Len(cmds) /\ \A i \in 1..LastIndex(n) : n.log[i].cmd = cmds[i]
          /\ n.applied <= LastIndex(n) /\ n.commit = LastIndex(n) /\ n.state = M[n.applied]
      BY <2>2, <2>6, <2>7
    <3>2. ApplyCommitted(n) = [n EXCEPT !.applied = LastIndex(n), !.state = M[LastIndex(n)]]
      BY ZenonT(40), <3>1, <2>6, <1>0, ApplyCommittedFacts
    <3> QED BY Zenon, <3>2, <2>7
  <2>9. M[K] \in Map
    BY <1>0
  <2>10. ASSUME NEW m, m = [n EXCEPT !.applied = K, !.state = M[K]]
         PROVE  /\ m \in Node /\ m.log = n.log /\ m.commit = n.commit /\ m.applied = K
                /\ m.state = M[K] /\ m.term = n.term /\ m.role = n.role
    BY Zenon, <2>6, <2>9, <2>10, <1>0 DEF Node
  <2> QED BY Zenon, <2>2, <2>5, <2>6, <2>8, <2>10
<1>2. ASSUME NEW a \in NodeId, a \notin Live PROVE ms[a] = ns[a]
  BY Zenon, <1>2 DEF ApplyLive
<1>3. ms \in [NodeId -> Node]
  <2>1. ms = [a \in NodeId |-> ms[a]]
    BY Zenon DEF ApplyLive
  <2> HIDE DEF ms
  <2>2. \A a \in NodeId : ms[a] \in Node
    BY Zenon, <1>0, <1>1, <1>2
  <2> QED BY Zenon, <2>1, <2>2
<1> HIDE DEF ms
<1>4. \A a \in NodeId : /\ ms[a].log = ns[a].log /\ LastIndex(ms[a]) = LastIndex(ns[a])
                        /\ ms[a].term = ns[a].term /\ ms[a].role = ns[a].role
  BY Zenon, <1>1, <1>2 DEF LastIndex
<1>5. LogsAgree(ms, cmds)
  <2> SUFFICES ASSUME NEW a \in NodeId
               PROVE  /\ LastIndex(ns[a]) <= K
                      /\ \A i \in 1..LastIndex(ns[a]) : ns[a].log[i].cmd = cmds[i]
                      /\ \A b \in NodeId : \A i \in 1..LastIndex(ns[a]) :
                           i <= LastIndex(ns[b]) => ns[a].log[i] = ns[b].log[i]
    BY <1>4 DEF LogsAgree
  <2>1. /\ LastIndex(ns[a]) <= K
        /\ \A j \in 1..LastIndex(ns[a]) : ns[a].log[j] = ns[l].log[j]
        /\ \A j \in 1..K : ns[l].log[j].cmd = cmds[j]
    BY Zenon DEF Brought, Ready
  <2>2. \A b \in NodeId : LastIndex(ns[b]) \in Nat /\ \A j \in 1..LastIndex(ns[b]) : ns[b].log[j] = ns[l].log[j]
    BY ZenonT(40), <1>0, NodeFacts DEF Brought, Ready
  <2>3. ASSUME NEW i \in 1..LastIndex(ns[a])
        PROVE  i \in 1..K /\ \A b \in NodeId : i <= LastIndex(ns[b]) => i \in 1..LastIndex(ns[b])
    BY <2>1, <2>2, <1>0
  <2> QED BY Zenon, <2>1, <2>2, <2>3
<1>6. TermsGrow(ms)
  <2> SUFFICES ASSUME NEW a \in NodeId, NEW i \in 1..LastIndex(ns[a])
               PROVE  /\ ns[a].log[i].term <= ns[a].term
                      /\ \A j \in 1..i : ns[a].log[j].term <= ns[a].log[i].term
    BY Zenon, <1>4 DEF TermsGrow
  <2>1. /\ LastIndex(ns[a]) <= K /\ LastIndex(ns[a]) \in Nat
        /\ \A j \in 1..LastIndex(ns[a]) : ns[a].log[j] = ns[l].log[j] /\ ns[a].log[j].term <= ns[a].term
        /\ \A j \in 1..K : \A k \in 1..j : ns[l].log[k].term <= ns[l].log[j].term
    BY Zenon, <1>0, NodeFacts DEF Brought, Ready
  <2>2. i \in 1..K /\ \A j \in 1..i : j \in 1..LastIndex(ns[a])
    BY <2>1, <1>0
  <2> QED BY Zenon, <2>1, <2>2
<1>7. Settled(ms)
  BY ZenonT(40), <1>0, <1>1, <1>2, <1>4 DEF Settled, Brought, Ready
<1>8. OneLeader(ms)
  <2>1. OneLeader(ns)
    BY Zenon DEF Brought, Ready
  <2> QED BY <2>1, <1>4 DEF OneLeader
<1>9. \A a \in NodeId : ms[a].state = M[LastIndex(ms[a])]
  <2> TAKE a \in NodeId
  <2>1. CASE a \in Live
    BY Zenon, <2>1, <1>1, <1>4
  <2>2. CASE a \notin Live
    <3>1. ns[a].state = M[ns[a].applied] /\ ns[a].applied = LastIndex(ns[a])
      BY Zenon, <2>2 DEF Brought, Ready
    <3> QED BY Zenon, <3>1, <2>2, <1>2
  <2> QED BY Zenon, <2>1, <2>2
<1>10. NodesInv(ms, cmds)
  BY Zenon, <1>0, <1>3, <1>5, <1>6, <1>7, <1>8, <1>9 DEF NodesInv
<1>11. Leads(ms, cmds, l)
  BY ZenonT(40), <1>0, <1>4 DEF Leads, Brought, Ready
<1>12. Live \subseteq Holders(ms, cmds)
  BY Zenon, <1>0, <1>1, <1>4 DEF Holders
<1> QED BY Zenon, <1>0, <1>1, <1>10, <1>11, <1>12 DEF ms

-----------------------------------------------------------------------------
(* Bringing the live nodes up to the leader *)

\* replicate_live: every live node ends with the log of the leader, and nothing
\* else the invariant speaks of changes.
LEMMA ReplicatedFacts ==
  ASSUME NEW ns, NEW cmds \in Seq(Cmd), NEW M, NEW l, Ready(ns, cmds, M, l)
  PROVE  LET rs == Replies(ns, l, LastIndex(ns[l]))
             ms == Replicated(ns, rs)
         IN  /\ Brought(ms, cmds, M, l) /\ ms[l] = ns[l]
             /\ DOMAIN rs = Live \ {l} /\ \A i \in Live \ {l} : rs[i].ok = TRUE
<1> DEFINE rs == Replies(ns, l, LastIndex(ns[l]))
           ms == Replicated(ns, rs)
<1>0. /\ ns \in [NodeId -> Node] /\ l \in Live /\ Live \subseteq NodeId /\ l \in NodeId
      /\ LastIndex(ns[l]) = Len(cmds) /\ Len(cmds) \in Nat
      /\ DOMAIN ns[l].log = 1..Len(cmds) /\ ns[l].term \in Nat
  <2>1. ns \in [NodeId -> Node] /\ l \in Live /\ LastIndex(ns[l]) = Len(cmds)
    BY Zenon DEF Ready
  <2>2. Live \subseteq NodeId
    BY Zenon DEF Live
  <2> QED BY Zenon, <2>1, <2>2, NodeFacts
<1>1. DOMAIN rs = Live \ {l} /\ \A a \in Live \ {l} : rs[a] = CatchUp(ns[l], ns[a], LastIndex(ns[l]))
  BY Zenon DEF Replies
<1> HIDE DEF rs
<1>2. ASSUME NEW a \in Live \ {l}
      PROVE  LET r == rs[a] IN
             /\ r.ok = TRUE
             /\ r.node \in Node /\ r.node.log = ns[l].log /\ r.node.commit <= Len(cmds)
             /\ r.node.applied = ns[a].applied /\ r.node.state = ns[a].state
             /\ ns[a].term <= r.node.term /\ r.node.term <= ns[l].term
             /\ Len(cmds) = 0 \/ r.node.term = ns[l].term
             /\ r.node.role = "leader" => r.node = ns[a]
  <2>1. a \in NodeId /\ ns[a] \in Node /\ ns[l] \in Node
    BY Zenon, <1>0
  <2>2. /\ LastIndex(ns[a]) <= LastIndex(ns[l])
        /\ \A i \in 1..LastIndex(ns[a]) : ns[a].log[i] = ns[l].log[i]
        /\ ns[a].term <= ns[l].term /\ ns[l].commit <= LastIndex(ns[l]) /\ ns[a].commit <= LastIndex(ns[a])
    BY Zenon, <1>0, <2>1 DEF Ready
  <2>3. LET r == CatchUp(ns[l], ns[a], LastIndex(ns[l])) IN
        /\ r.ok = TRUE
        /\ r.node \in Node /\ r.node.log = ns[l].log /\ r.node.commit <= LastIndex(ns[l])
        /\ r.node.applied = ns[a].applied /\ r.node.state = ns[a].state
        /\ ns[a].term <= r.node.term /\ r.node.term <= ns[l].term
        /\ LastIndex(ns[l]) = 0 \/ r.node.term = ns[l].term
        /\ r.node.role = "leader" => r.node = ns[a]
    BY Zenon, <2>1, <2>2, CatchUpFacts
  <2> QED BY Zenon, <2>3, <1>0, <1>1
<1>3. /\ ms = [a \in NodeId |-> ms[a]]
      /\ \A a \in Live \ {l} : ms[a] = rs[a].node
      /\ \A a \in NodeId : a \notin Live \ {l} => ms[a] = ns[a]
  <2>1. \A a \in NodeId : ms[a] = IF a \in Live \ {l} THEN rs[a].node ELSE ns[a]
    BY Zenon, <1>1 DEF Replicated
  <2>2. ms = [a \in NodeId |-> ms[a]]
    BY Zenon DEF Replicated
  <2> QED BY Zenon, <2>1, <2>2, <1>0
<1> HIDE DEF ms
<1>4. ms[l] = ns[l]
  BY Zenon, <1>0, <1>3
<1>5. ms \in [NodeId -> Node]
  <2>1. \A a \in NodeId : ms[a] \in Node
    BY Zenon, <1>0, <1>2, <1>3
  <2> QED BY Zenon, <2>1, <1>3
<1>6. ASSUME NEW a \in NodeId, a \notin Live \ {l}
      PROVE  /\ LastIndex(ms[a]) <= Len(cmds)
             /\ \A j \in 1..LastIndex(ms[a]) : ms[a].log[j] = ms[l].log[j] /\ ms[a].log[j].term <= ms[a].term
             /\ ms[a].term <= ms[l].term
             /\ ms[a].applied <= LastIndex(ms[a]) /\ ms[a].commit <= LastIndex(ms[a])
             /\ a \notin Live => ms[a].applied = LastIndex(ms[a]) /\ ms[a].commit = LastIndex(ms[a])
             /\ ms[a].state = M[ms[a].applied]
  <2>1. ms[a] = ns[a]
    BY Zenon, <1>3, <1>6
  <2>2. /\ LastIndex(ns[a]) <= Len(cmds)
        /\ \A j \in 1..LastIndex(ns[a]) : ns[a].log[j] = ns[l].log[j] /\ ns[a].log[j].term <= ns[a].term
        /\ ns[a].term <= ns[l].term
        /\ ns[a].applied <= LastIndex(ns[a]) /\ ns[a].commit <= LastIndex(ns[a])
        /\ a \notin Live => ns[a].applied = LastIndex(ns[a]) /\ ns[a].commit = LastIndex(ns[a])
        /\ ns[a].state = M[ns[a].applied]
    BY Zenon DEF Ready
  <2> QED BY Zenon, <2>1, <2>2, <1>4
<1>7. ASSUME NEW a \in Live \ {l}
      PROVE  /\ LastIndex(ms[a]) <= Len(cmds)
             /\ \A j \in 1..LastIndex(ms[a]) : ms[a].log[j] = ms[l].log[j] /\ ms[a].log[j].term <= ms[a].term
             /\ ms[a].term <= ms[l].term
             /\ ms[a].applied <= LastIndex(ms[a]) /\ ms[a].commit <= LastIndex(ms[a])
             /\ ms[a].state = M[ms[a].applied] /\ ms[a].log = ms[l].log
  <2>1. /\ ms[a].log = ns[l].log /\ ms[a].commit <= Len(cmds) /\ ms[a].applied = ns[a].applied
        /\ ms[a].state = ns[a].state /\ ms[a].term <= ns[l].term
        /\ Len(cmds) = 0 \/ ms[a].term = ns[l].term
    BY ZenonT(40), <1>2, <1>3
  <2>2. a \in NodeId /\ LastIndex(ms[a]) = Len(cmds)
    BY Zenon, <1>0, <2>1 DEF LastIndex
  <2>3. /\ ns[a].applied <= LastIndex(ns[a]) /\ LastIndex(ns[a]) <= Len(cmds)
        /\ ns[a].state = M[ns[a].applied]
        /\ \A j \in 1..Len(cmds) : ns[l].log[j].term <= ns[l].term
    BY Zenon, <1>0, <2>2 DEF Ready
  <2>4. ns[a].applied \in Nat /\ LastIndex(ns[a]) \in Nat
    BY ZenonT(40), <2>2, <1>0, NodeFacts
  <2>5. ms[a].applied <= LastIndex(ms[a])
    BY SMTT(30), SMTT(60), <2>1, <2>2, <2>3, <2>4, <1>0
  <2>6. \A j \in 1..Len(cmds) : ms[a].log[j].term <= ms[a].term
    <3>1. CASE Len(cmds) = 0
      BY <3>1
    <3>2. CASE Len(cmds) # 0
      BY Zenon, <3>2, <2>1, <2>3
    <3> QED BY Zenon, <3>1, <3>2
  <2>7. Len(cmds) <= Len(cmds)
    BY <1>0
  <2> QED BY ZenonT(40), <2>1, <2>2, <2>3, <2>5, <2>6, <2>7, <1>4
<1>8. OneLeader(ms)
  <2>1. \A a \in NodeId : ms[a].role = "leader" => ms[a] = ns[a]
    BY ZenonT(40), <1>2, <1>3
  <2>2. OneLeader(ns)
    BY Zenon DEF Ready
  <2> QED BY Zenon, <2>1, <2>2 DEF OneLeader
<1>9. Ready(ms, cmds, M, l)
  BY ZenonT(40), <1>4, <1>5, <1>6, <1>7, <1>8 DEF Ready
<1>10. \A a \in Live : ms[a].log = ms[l].log
  BY Zenon, <1>7
<1> QED BY Zenon, <1>1, <1>2, <1>4, <1>9, <1>10 DEF rs, ms, Brought

\* Under the invariant, a leader is ready to serve.
LEMMA LeaderReady ==
  ASSUME NEW ns, NEW cmds \in Seq(Cmd), NodesInv(ns, cmds), NEW l, Leads(ns, cmds, l)
  PROVE  \E M : Ready(ns, cmds, M, l)
<1>1. PICK M : History(M, cmds) /\ \A a \in NodeId : ns[a].state = M[LastIndex(ns[a])]
  BY Zenon DEF NodesInv
<1>2. /\ ns \in [NodeId -> Node] /\ l \in Live /\ l \in NodeId /\ OneLeader(ns)
      /\ LastIndex(ns[l]) = Len(cmds) /\ ns[l].role = "leader"
      /\ LogsAgree(ns, cmds) /\ TermsGrow(ns) /\ Settled(ns)
  BY Zenon DEF NodesInv, Leads, Live
<1>3. ASSUME NEW a \in NodeId
      PROVE  /\ LastIndex(ns[a]) <= Len(cmds)
             /\ \A j \in 1..LastIndex(ns[a]) : ns[a].log[j] = ns[l].log[j] /\ ns[a].log[j].term <= ns[a].term
             /\ ns[a].term <= ns[l].term
             /\ ns[a].applied <= LastIndex(ns[a]) /\ ns[a].commit <= LastIndex(ns[a])
             /\ ns[a].applied = LastIndex(ns[a]) /\ ns[a].commit = LastIndex(ns[a])
             /\ ns[a].state = M[ns[a].applied]
  <2>1. LastIndex(ns[a]) \in Nat /\ Len(cmds) \in Nat
    BY Zenon, <1>2, NodeFacts
  <2>2. LastIndex(ns[a]) <= Len(cmds)
    BY Zenon, <1>2 DEF LogsAgree
  <2>3. \A j \in 1..LastIndex(ns[a]) : j <= LastIndex(ns[l])
    BY SMTT(30), SMTT(60), <1>2, <2>1, <2>2
  <2>4. ns[a].applied = LastIndex(ns[a]) /\ ns[a].commit = LastIndex(ns[a])
    BY Zenon, <1>2 DEF Settled
  <2>5. LastIndex(ns[a]) <= LastIndex(ns[a])
    BY <2>1
  <2>6. \A j \in 1..LastIndex(ns[a]) : ns[a].log[j] = ns[l].log[j]
    BY Zenon, <1>2, <2>3 DEF LogsAgree
  <2>7. \A j \in 1..LastIndex(ns[a]) : ns[a].log[j].term <= ns[a].term
    BY Zenon, <1>2 DEF TermsGrow
  <2>8. ns[a].term <= ns[l].term
    BY Zenon DEF Leads
  <2> QED BY Zenon, <1>1, <2>2, <2>4, <2>5, <2>6, <2>7, <2>8
<1>4. \A j \in 1..Len(cmds) : ns[l].log[j].cmd = cmds[j]
  BY Zenon, <1>2 DEF LogsAgree
<1>5. \A j \in 1..Len(cmds) : \A k \in 1..j : ns[l].log[k].term <= ns[l].log[j].term
  BY Zenon, <1>2 DEF TermsGrow
<1> QED BY ZenonT(40), <1>1, <1>2, <1>3, <1>4, <1>5 DEF Ready

-----------------------------------------------------------------------------
(* Committing *)

\* propose: the leader's log is that of the commands and the new one.
LEMMA ProposeFacts ==
  ASSUME NEW ns, NEW cmds \in Seq(Cmd), NEW M, NEW l, Ready(ns, cmds, M, l), NEW cmd \in Cmd
  PROVE  LET ms == [ns EXCEPT ![l] = Propose(@, l, cmd)]
             idx == Len(cmds) + 1
         IN  /\ \E W : Ready(ms, Append(cmds, cmd), W, l)
             /\ ms \in [NodeId -> Node] /\ LastIndex(ms[l]) = idx /\ ms[l].log[idx].term = ms[l].term
             /\ ms[l].commit = ns[l].commit /\ ms[l].match[l] = idx
<1> DEFINE K == Len(cmds)
           idx == K + 1
           c2 == Append(cmds, cmd)
           n == ns[l]
           m == Propose(n, l, cmd)
           ms == [ns EXCEPT ![l] = Propose(@, l, cmd)]
           e == [term |-> n.term, cmd |-> cmd]
           W == [i \in 0..idx |-> IF i = idx THEN Apply(M[K], cmd, idx) ELSE M[i]]
<1>0. /\ ns \in [NodeId -> Node] /\ l \in Live /\ History(M, cmds) /\ OneLeader(ns)
      /\ LastIndex(n) = K /\ n.role = "leader"
  BY Zenon DEF Ready
<1>1. /\ l \in NodeId /\ K \in Nat /\ idx \in Nat /\ n \in Node /\ n.term \in Nat /\ M \in [0..K -> Map]
      /\ n.log \in Seq(LogEntry) /\ Len(n.log) = K /\ n.match \in [NodeId -> Nat] /\ M[K] \in Map
  <2>1. l \in NodeId
    BY Zenon, <1>0 DEF Live
  <2>2. K \in Nat /\ idx \in Nat
    OBVIOUS
  <2>3. n \in Node /\ n.term \in Nat /\ n.log \in Seq(LogEntry) /\ Len(n.log) = K
    BY Zenon, <1>0, <2>1, NodeFacts
  <2>4. n.match \in [NodeId -> Nat]
    BY Zenon, <2>3 DEF Node
  <2>5. M \in [0..K -> Map]
    BY Zenon, <1>0 DEF History
  <2>6. K \in 0..K
    BY <2>2
  <2> QED BY Zenon, <2>1, <2>2, <2>3, <2>4, <2>5, <2>6
<1>2. /\ c2 \in Seq(Cmd) /\ Len(c2) = idx /\ c2[idx] = cmd /\ \A i \in 1..K : c2[i] = cmds[i]
  OBVIOUS
<1>3. e \in LogEntry /\ e.term = n.term /\ e.cmd = cmd
  BY Zenon, <1>1 DEF LogEntry
<1>4. /\ Append(n.log, e) \in Seq(LogEntry) /\ Len(Append(n.log, e)) = idx
      /\ Append(n.log, e)[idx] = e /\ \A i \in 1..K : Append(n.log, e)[i] = n.log[i]
  <2> HIDE DEF n, e
  <2> QED BY <1>1, <1>3
<1>5. /\ m \in Node /\ m.log = Append(n.log, e) /\ m.match[l] = idx /\ m.commit = n.commit
      /\ m.applied = n.applied /\ m.state = n.state /\ m.term = n.term /\ m.role = n.role
  <2> HIDE DEF n
  <2> DEFINE mt == [n.match EXCEPT ![l] = LastIndex(n) + 1]
             lg == Append(n.log, e)
  <2>1. m = [n EXCEPT !.log = lg, !.match = mt]
    BY Zenon, <1>1 DEF Propose, Node
  <2>2. mt \in [NodeId -> Nat] /\ mt[l] = idx /\ lg \in Seq(LogEntry)
    BY Zenon, <1>0, <1>1, <1>4
  <2> HIDE DEF mt, lg, m
  <2>3. /\ m \in Node /\ m.log = lg /\ m.match = mt /\ m.commit = n.commit
        /\ m.applied = n.applied /\ m.state = n.state /\ m.term = n.term /\ m.role = n.role
    BY Zenon, <2>1, <2>2, <1>1 DEF Node
  <2> QED BY Zenon, <2>2, <2>3 DEF lg
<1>6. ms[l] = m /\ \A a \in NodeId : a # l => ms[a] = ns[a]
  BY Zenon, <1>0, <1>1
<1>7. ms \in [NodeId -> Node]
  <2>1. ms = [a \in NodeId |-> IF a = l THEN m ELSE ns[a]]
    BY Zenon, <1>0
  <2> HIDE DEF ms, m
  <2>2. \A a \in NodeId : (IF a = l THEN m ELSE ns[a]) \in Node
    BY Zenon, <1>0, <1>5
  <2> QED BY Zenon, <2>1, <2>2
<1> HIDE DEF ms, m, n, e
<1>8. LastIndex(m) = idx
  BY Zenon, <1>4, <1>5 DEF LastIndex
<1>9. History(W, c2)
  <2>1. W \in [0..idx -> Map]
    <3>1. Apply(M[K], cmd, idx) \in Map
      BY Zenon, <1>1, ApplyType
    <3>2. \A i \in 0..idx : i = idx \/ i \in 0..K
      BY <1>1
    <3>3. \A i \in 0..idx : (IF i = idx THEN Apply(M[K], cmd, idx) ELSE M[i]) \in Map
      BY Zenon, <3>1, <3>2, <1>1
    <3> QED BY Zenon, <3>3
  <2>2. \A i \in 0..K : W[i] = M[i]
    BY <1>1
  <2>3. W[idx] = Apply(M[K], cmd, idx)
    BY <1>1
  <2> HIDE DEF W
  <2>4. W[0] = EmptyMap
    <3>1. 0 \in 0..K
      BY <1>1
    <3> QED BY Zenon, <3>1, <2>2, <1>0 DEF History
  <2>5. ASSUME NEW i \in 1..idx PROVE W[i] = Apply(W[i - 1], c2[i], i)
    <3>1. CASE i = idx
      <4>1. idx - 1 = K /\ K \in 0..K
        BY <1>1
      <4> QED BY Zenon, <3>1, <4>1, <2>2, <2>3, <1>2
    <3>2. CASE i # idx
      <4>1. i \in 1..K /\ i \in 0..K /\ i - 1 \in 0..K
        BY <3>2, <1>1
      <4>2. M[i] = Apply(M[i - 1], cmds[i], i)
        BY Zenon, <4>1, <1>0 DEF History
      <4> QED BY Zenon, <4>1, <4>2, <2>2, <1>2
    <3> QED BY Zenon, <3>1, <3>2
  <2> HIDE DEF c2
  <2> QED BY Zenon, <2>1, <2>4, <2>5, <1>2 DEF History
<1>10. \A i \in 0..K : W[i] = M[i]
  BY <1>1
<1> HIDE DEF W, c2
<1>11. \A j \in 1..idx : m.log[j].cmd = c2[j]
  <2> TAKE j \in 1..idx
  <2>1. CASE j = idx
    BY Zenon, <2>1, <1>2, <1>3, <1>4, <1>5
  <2>2. CASE j # idx
    <3>1. j \in 1..K
      BY <2>2, <1>1
    <3>2. n.log[j].cmd = cmds[j]
      BY Zenon, <3>1 DEF Ready, n
    <3> QED BY ZenonT(40), <3>1, <3>2, <1>2, <1>4, <1>5
  <2> QED BY Zenon, <2>1, <2>2
<1>12. \A j \in 1..K : n.log[j].term <= n.term /\ n.log[j].term \in Nat
  <2>1. \A j \in 1..K : n.log[j].term <= n.term
    BY Zenon, <1>0, <1>1 DEF Ready, n
  <2>2. \A j \in 1..K : n.log[j].term \in Nat
    BY Zenon, <1>0, <1>1, NodeFacts
  <2> QED BY Zenon, <2>1, <2>2
<1>13. \A j \in 1..idx : \A k \in 1..j : m.log[k].term <= m.log[j].term
  <2> SUFFICES ASSUME NEW j \in 1..idx, NEW k \in 1..j PROVE m.log[k].term <= m.log[j].term
    BY Zenon
  <2>1. CASE j = idx
    <3>1. k = idx \/ k \in 1..K
      BY SMTT(30), SMTT(60), <2>1, <1>1
    <3>2. n.term <= n.term
      BY <1>1
    <3> QED BY ZenonT(40), <3>1, <3>2, <2>1, <1>3, <1>4, <1>5, <1>12
  <2>2. CASE j # idx
    <3>1. j \in 1..K /\ k \in 1..K
      BY <2>2, <1>1
    <3>2. n.log[k].term <= n.log[j].term
      BY Zenon, <3>1 DEF Ready, n
    <3> QED BY Zenon, <3>1, <3>2, <1>4, <1>5
  <2> QED BY Zenon, <2>1, <2>2
<1>14. ASSUME NEW a \in NodeId
       PROVE  /\ LastIndex(ms[a]) <= idx
              /\ \A j \in 1..LastIndex(ms[a]) : ms[a].log[j] = m.log[j] /\ ms[a].log[j].term <= ms[a].term
              /\ ms[a].term <= m.term
              /\ ms[a].applied <= LastIndex(ms[a]) /\ ms[a].commit <= LastIndex(ms[a])
              /\ a \notin Live => ms[a].applied = LastIndex(ms[a]) /\ ms[a].commit = LastIndex(ms[a])
              /\ ms[a].state = W[ms[a].applied]
  <2>0. /\ LastIndex(ns[a]) <= K
        /\ \A j \in 1..LastIndex(ns[a]) : ns[a].log[j] = n.log[j] /\ ns[a].log[j].term <= ns[a].term
        /\ ns[a].term <= n.term
        /\ ns[a].applied <= LastIndex(ns[a]) /\ ns[a].commit <= LastIndex(ns[a])
        /\ a \notin Live => ns[a].applied = LastIndex(ns[a]) /\ ns[a].commit = LastIndex(ns[a])
        /\ ns[a].state = M[ns[a].applied]
    BY Zenon DEF Ready, n
  <2>1. ns[a].applied \in Nat /\ ns[a].commit \in Nat /\ LastIndex(ns[a]) \in Nat
    BY Zenon, <1>0, NodeFacts
  <2>2. ns[a].state = W[ns[a].applied]
    <3>1. ns[a].applied \in 0..K
      BY <2>0, <2>1, <1>1
    <3> QED BY ZenonT(40), <3>1, <2>0, <1>10
  <2>3. CASE a = l
    <3>1. ms[a] = m /\ ns[a] = n
      BY Zenon, <2>3, <1>6 DEF n
    <3>2. n.applied <= idx /\ n.commit <= idx /\ idx <= idx /\ m.term <= m.term
      BY SMTT(30), SMTT(60), <3>1, <2>0, <2>1, <1>0, <1>1, <1>5
    <3>3. \A j \in 1..idx : m.log[j].term <= m.term
      <4> TAKE j \in 1..idx
      <4>1. j = idx \/ j \in 1..K
        BY <1>1
      <4> QED BY ZenonT(40), <4>1, <3>2, <1>3, <1>4, <1>5, <1>12
    <3> QED BY ZenonT(40), <3>1, <3>2, <3>3, <2>2, <2>3, <1>0, <1>5, <1>8
  <2>4. CASE a # l
    <3>1. ms[a] = ns[a]
      BY Zenon, <2>4, <1>6
    <3>2. LastIndex(ns[a]) <= idx /\ \A j \in 1..LastIndex(ns[a]) : j \in 1..K
      BY <2>0, <2>1, <1>1
    <3> QED BY ZenonT(40), <3>1, <3>2, <2>0, <2>2, <1>4, <1>5
  <2> QED BY Zenon, <2>3, <2>4
<1>15. OneLeader(ms)
  <2>1. \A a \in NodeId : ms[a].role = ns[a].role /\ ms[a].term = ns[a].term
    BY Zenon, <1>5, <1>6 DEF n
  <2> QED BY Zenon, <2>1, <1>0 DEF OneLeader
<1>16. Ready(ms, c2, W, l)
  BY ZenonT(40), <1>0, <1>2, <1>5, <1>6, <1>7, <1>8, <1>9, <1>11, <1>13, <1>14, <1>15 DEF Ready
<1>17. ms[l].log[idx].term = ms[l].term
  BY Zenon, <1>3, <1>4, <1>5, <1>6
<1> QED BY ZenonT(40), <1>5, <1>6, <1>7, <1>8, <1>16, <1>17 DEF ms, c2, n

\* advance_commit: a majority has the last entry, and it is of the leader's term.
LEMMA AdvanceFacts ==
  ASSUME NEW n \in Node, n.role = "leader", LastIndex(n) # 0, n.log[LastIndex(n)].term = n.term,
         n.commit < LastIndex(n), NEW Q \in SUBSET NodeId, Cardinality(Q) >= Quorum,
         \A p \in Q : n.match[p] >= LastIndex(n)
  PROVE  AdvanceCommit(n) = [n EXCEPT !.commit = LastIndex(n)]
<1> DEFINE idx == LastIndex(n)
           H == {p \in NodeId : n.match[p] >= idx}
<1>1. idx \in Nat /\ n.commit \in Nat
  BY Zenon, NodeFacts
<1>2. Cardinality(H) >= Quorum
  <2>1. 0 \in Int /\ N - 1 \in Int
    OBVIOUS
  <2>2. IsFiniteSet(NodeId)
    BY Zenon, <2>1, FS_Interval DEF NodeId
  <2>3. H \subseteq NodeId /\ Q \subseteq H
    BY Zenon
  <2> HIDE DEF H
  <2>4. IsFiniteSet(H)
    BY Zenon, <2>2, <2>3, FS_Subset
  <2>5. IsFiniteSet(Q) /\ Cardinality(Q) <= Cardinality(H)
    BY Zenon, <2>3, <2>4, FS_Subset
  <2>6. Cardinality(H) \in Nat /\ Cardinality(Q) \in Nat /\ Quorum \in Nat
    BY <2>4, <2>5, FS_CardinalityType DEF Quorum
  <2> QED BY <2>5, <2>6
<1>3. idx \in (n.commit + 1)..LastIndex(n)
  BY <1>1
<1>4. idx \in Committable(n) /\ \A j \in Committable(n) : j <= idx
  <2>1. idx \in Committable(n)
    BY Zenon, <1>2, <1>3 DEF Committable
  <2>2. \A j \in (n.commit + 1)..LastIndex(n) : j <= idx
    BY <1>1
  <2> QED BY Zenon, <2>1, <2>2 DEF Committable
<1>5. ASSUME NEW i \in Committable(n), \A j \in Committable(n) : j <= i PROVE i = idx
  <2>1. idx <= i /\ i <= idx
    BY Zenon, <1>4, <1>5
  <2>2. i \in (n.commit + 1)..LastIndex(n)
    BY Zenon DEF Committable
  <2> QED BY <2>1, <2>2, <1>1
<1> HIDE DEF idx
<1>6. (CHOOSE i \in Committable(n) : \A j \in Committable(n) : j <= i) = idx
  BY Zenon, <1>4, <1>5
<1>7. Committable(n) # {}
  BY Zenon, <1>4
<1> QED BY Zenon, <1>6, <1>7 DEF AdvanceCommit, idx

\* What the leader knows of the others, and what it has committed, may change.
LEMMA BroughtLeader ==
  ASSUME NEW ns, NEW cmds \in Seq(Cmd), NEW M, NEW l, Brought(ns, cmds, M, l), NEW n \in Node,
         n.log = ns[l].log, n.role = ns[l].role, n.term = ns[l].term, n.applied = ns[l].applied,
         n.state = ns[l].state, n.commit = Len(cmds)
  PROVE  Brought([ns EXCEPT ![l] = n], cmds, M, l)
<1>1. PICK ms : ms = [ns EXCEPT ![l] = n]
  BY Zenon
<1>2. /\ ns \in [NodeId -> Node] /\ l \in Live /\ OneLeader(ns) /\ History(M, cmds)
      /\ LastIndex(ns[l]) = Len(cmds)
  BY Zenon DEF Brought, Ready
<1>3. l \in NodeId /\ Live \subseteq NodeId
  BY Zenon, <1>2 DEF Live
<1>4. ms[l] = n /\ (\A a \in NodeId : a # l => ms[a] = ns[a]) /\ ms \in [NodeId -> Node]
  BY Zenon, <1>1, <1>2, <1>3
<1>5. \A a \in NodeId : /\ ms[a].log = ns[a].log /\ ms[a].role = ns[a].role /\ ms[a].term = ns[a].term
                        /\ ms[a].applied = ns[a].applied /\ ms[a].state = ns[a].state
                        /\ LastIndex(ms[a]) = LastIndex(ns[a])
  BY Zenon, <1>4 DEF LastIndex
<1>6. OneLeader(ms)
  BY <1>2, <1>5 DEF OneLeader
<1>7. ASSUME NEW a \in NodeId
      PROVE  /\ ms[a].commit <= LastIndex(ms[a])
             /\ a \notin Live => ms[a].commit = LastIndex(ms[a])
  <2>1. CASE a = l
    <3>1. Len(cmds) <= Len(cmds)
      OBVIOUS
    <3> QED BY ZenonT(40), <2>1, <3>1, <1>2, <1>4, <1>5
  <2>2. CASE a # l
    <3>1. ns[a].commit <= LastIndex(ns[a]) /\ (a \notin Live => ns[a].commit = LastIndex(ns[a]))
      BY Zenon DEF Brought, Ready
    <3> QED BY Zenon, <2>2, <3>1, <1>4
  <2> QED BY Zenon, <2>1, <2>2
<1>8. /\ \A j \in 1..Len(cmds) : ns[l].log[j].cmd = cmds[j]
      /\ \A j \in 1..Len(cmds) : \A k \in 1..j : ns[l].log[k].term <= ns[l].log[j].term
      /\ ns[l].role = "leader"
      /\ \A a \in Live : ns[a].log = ns[l].log
  BY Zenon DEF Brought, Ready
<1>9. ASSUME NEW a \in NodeId
      PROVE  /\ LastIndex(ns[a]) <= Len(cmds)
             /\ \A j \in 1..LastIndex(ns[a]) : ns[a].log[j] = ns[l].log[j] /\ ns[a].log[j].term <= ns[a].term
             /\ ns[a].term <= ns[l].term
             /\ ns[a].applied <= LastIndex(ns[a])
             /\ a \notin Live => ns[a].applied = LastIndex(ns[a])
             /\ ns[a].state = M[ns[a].applied]
  BY ZenonT(40) DEF Brought, Ready
<1>10. ASSUME NEW a \in NodeId
      PROVE  /\ LastIndex(ms[a]) <= Len(cmds)
             /\ \A j \in 1..LastIndex(ms[a]) : ms[a].log[j] = ms[l].log[j] /\ ms[a].log[j].term <= ms[a].term
             /\ ms[a].term <= ms[l].term
             /\ ms[a].applied <= LastIndex(ms[a])
             /\ a \notin Live => ms[a].applied = LastIndex(ms[a])
             /\ ms[a].state = M[ms[a].applied]
  BY SMTT(30), SMTT(60), <1>3, <1>5, <1>9
<1>11. Ready(ms, cmds, M, l)
  <2>1. /\ \A j \in 1..Len(cmds) : ms[l].log[j].cmd = cmds[j]
        /\ \A j \in 1..Len(cmds) : \A k \in 1..j : ms[l].log[k].term <= ms[l].log[j].term
        /\ ms[l].role = "leader" /\ LastIndex(ms[l]) = Len(cmds)
    BY ZenonT(40), <1>2, <1>3, <1>5, <1>8
  <2> QED BY ZenonT(40), <2>1, <1>2, <1>4, <1>6, <1>7, <1>10 DEF Ready
<1>12. \A a \in Live : ms[a].log = ms[l].log
  BY Zenon, <1>3, <1>5, <1>8
<1> QED BY Zenon, <1>1, <1>11, <1>12 DEF Brought

\* cluster_commit from the proposal on: every live node acknowledges, so the
\* entry is committed and applied.
LEMMA FinishFacts ==
  ASSUME NEW ns, NEW cmds \in Seq(Cmd), NEW W, NEW l, Ready(ns, cmds, W, l), NEW cmd,
         Cardinality(Live) >= Quorum, LastIndex(ns[l]) # 0,
         ns[l].log[LastIndex(ns[l])].term = ns[l].term, ns[l].commit < LastIndex(ns[l]),
         ns[l].match[l] = LastIndex(ns[l]), Finish(ns, l, LastIndex(ns[l]), cmd)
  PROVE  /\ panicked' = FALSE /\ acked' = Append(acked, cmd) /\ outcome' = "ok"
         /\ NodesInv(nodes', cmds) /\ Leads(nodes', cmds, l) /\ Live \subseteq Holders(nodes', cmds)
<1> DEFINE idx == LastIndex(ns[l])
           rs == Replies(ns, l, idx)
           ms == Replicated(ns, rs)
           acks == {i \in DOMAIN rs : rs[i].ok}
           match == [p \in NodeId |-> IF p \in acks THEN idx ELSE ms[l].match[p]]
           sent == [ms EXCEPT ![l].match = [p \in NodeId |-> IF p \in acks THEN idx ELSE @[p]]]
<1>1. /\ Brought(ms, cmds, W, l) /\ ms[l] = ns[l]
      /\ DOMAIN rs = Live \ {l} /\ \A i \in Live \ {l} : rs[i].ok = TRUE
  BY Zenon, ReplicatedFacts
<1>2. acks = Live \ {l}
  BY Zenon, <1>1
<1>3. IF 1 + Cardinality(acks) < Quorum
      THEN nodes' = sent /\ outcome' = "no_leader" /\ UNCHANGED <<acked, panicked>>
      ELSE CommitSucceeds(sent, l, idx, cmd)
  BY ZenonT(40) DEF Finish
<1> HIDE DEF rs, ms, acks
<1>4. /\ l \in Live /\ l \in NodeId /\ Live \in SUBSET NodeId /\ ms \in [NodeId -> Node]
      /\ ms[l] \in Node /\ idx \in Nat /\ ms[l].match \in [NodeId -> Nat] /\ idx = Len(cmds)
  <2>1. l \in Live /\ ms \in [NodeId -> Node] /\ idx = Len(cmds)
    BY Zenon, <1>1 DEF Brought, Ready
  <2>2. Live \in SUBSET NodeId /\ l \in NodeId
    BY Zenon, <2>1 DEF Live
  <2>3. ms[l] \in Node /\ idx \in Nat
    BY <2>1, <2>2
  <2>4. ms[l].match \in [NodeId -> Nat]
    BY Zenon, <2>3 DEF Node
  <2> QED BY Zenon, <2>1, <2>2, <2>3, <2>4
<1>5. ~(1 + Cardinality(acks) < Quorum)
  <2>1. 0 \in Int /\ N - 1 \in Int
    OBVIOUS
  <2>2. IsFiniteSet(NodeId)
    BY Zenon, <2>1, FS_Interval DEF NodeId
  <2>3. IsFiniteSet(Live)
    BY Zenon, <2>2, <1>4, FS_Subset
  <2>4. Cardinality(Live \ {l}) = Cardinality(Live) - 1
    BY ZenonT(40), <2>3, <1>4, FS_RemoveElement
  <2>5. Cardinality(Live) \in Nat /\ Quorum \in Nat
    BY <2>3, FS_CardinalityType DEF Quorum
  <2> QED BY SMTT(30), SMTT(60), <2>4, <2>5, <1>2
<1>6. CommitSucceeds(sent, l, idx, cmd)
  BY Zenon, <1>3, <1>5
<1>7. /\ match \in [NodeId -> Nat] /\ \A p \in Live : match[p] >= idx
  <2>1. match \in [NodeId -> Nat]
    BY Zenon, <1>4
  <2>2. match[l] = idx
    BY Zenon, <1>1, <1>2, <1>4
  <2>3. \A p \in Live \ {l} : match[p] = idx
    BY ZenonT(40), <1>2, <1>4
  <2>4. idx >= idx
    BY <1>4
  <2> QED BY ZenonT(40), <2>1, <2>2, <2>3, <2>4
<1>8. /\ sent[l] = [ms[l] EXCEPT !.match = match]
      /\ \A n : [sent EXCEPT ![l] = n] = [ms EXCEPT ![l] = n]
  BY Zenon, <1>4
<1> HIDE DEF match, sent
<1>9. /\ sent[l] \in Node /\ sent[l].match = match /\ sent[l].role = ns[l].role
      /\ sent[l].log = ns[l].log /\ sent[l].commit = ns[l].commit /\ sent[l].term = ns[l].term
      /\ sent[l].applied = ns[l].applied /\ sent[l].state = ns[l].state
  <2>1. ASSUME NEW n, n = [ms[l] EXCEPT !.match = match]
        PROVE  /\ n \in Node /\ n.match = match /\ n.role = ms[l].role
               /\ n.log = ms[l].log /\ n.commit = ms[l].commit /\ n.term = ms[l].term
               /\ n.applied = ms[l].applied /\ n.state = ms[l].state
    BY Zenon, <2>1, <1>4, <1>7 DEF Node
  <2> QED BY ZenonT(40), <2>1, <1>1, <1>8
<1>10. LastIndex(sent[l]) = idx /\ sent[l].role = "leader"
  BY Zenon, <1>9 DEF LastIndex, Ready
<1>11. AdvanceCommit(sent[l]) = [sent[l] EXCEPT !.commit = idx]
  <2>1. /\ LastIndex(sent[l]) # 0 /\ sent[l].log[LastIndex(sent[l])].term = sent[l].term
        /\ sent[l].commit < LastIndex(sent[l])
    BY Zenon, <1>9, <1>10
  <2>2. \A p \in Live : sent[l].match[p] >= LastIndex(sent[l])
    BY Zenon, <1>7, <1>9, <1>10
  <2>3. AdvanceCommit(sent[l]) = [sent[l] EXCEPT !.commit = LastIndex(sent[l])]
    BY ZenonT(40), <2>1, <2>2, <1>4, <1>9, <1>10, AdvanceFacts
  <2> QED BY Zenon, <2>3, <1>10
<1> DEFINE ldr == AdvanceCommit(sent[l])
<1>12. /\ ldr \in Node /\ ldr.commit = idx /\ ldr.log = ns[l].log /\ ldr.role = ns[l].role
       /\ ldr.term = ns[l].term /\ ldr.applied = ns[l].applied /\ ldr.state = ns[l].state
  <2> HIDE DEF idx
  <2>1. ASSUME NEW n, n = [sent[l] EXCEPT !.commit = idx]
        PROVE  /\ n \in Node /\ n.commit = idx /\ n.log = sent[l].log /\ n.role = sent[l].role
               /\ n.term = sent[l].term /\ n.applied = sent[l].applied /\ n.state = sent[l].state
    BY Zenon, <2>1, <1>4, <1>9 DEF Node
  <2> QED BY Zenon, <2>1, <1>9, <1>11
<1>13. /\ panicked' = (sent[l].role # "leader" \/ ldr.commit # idx)
       /\ nodes' = ApplyLive([sent EXCEPT ![l] = ldr], l, ldr.commit)
       /\ acked' = Append(acked, cmd) /\ outcome' = "ok"
  BY Zenon, <1>6 DEF CommitSucceeds
<1> HIDE DEF ldr
<1>14. panicked' = FALSE
  BY Zenon, <1>10, <1>12, <1>13
<1>15. Brought([ms EXCEPT ![l] = ldr], cmds, W, l)
  BY ZenonT(40), <1>1, <1>4, <1>12, BroughtLeader
<1>16. nodes' = ApplyLive([ms EXCEPT ![l] = ldr], l, Len(cmds))
  BY ZenonT(40), <1>4, <1>8, <1>12, <1>13
<1>17. /\ NodesInv(nodes', cmds) /\ Leads(nodes', cmds, l) /\ Live \subseteq Holders(nodes', cmds)
  BY Zenon, <1>15, <1>16, ApplyLiveFacts
<1> QED BY Zenon, <1>13, <1>14, <1>17

-----------------------------------------------------------------------------
(* The invariant holds *)

\* When every node of a live majority has the whole log, a majority has it.
LEMMA MajorityHolds ==
  ASSUME NEW ns, NEW cmds, Live \subseteq Holders(ns, cmds), Cardinality(Live) >= Quorum
  PROVE  Cardinality(Holders(ns, cmds)) >= Quorum
<1>1. 0 \in Int /\ N - 1 \in Int
  OBVIOUS
<1>2. IsFiniteSet(NodeId) /\ Holders(ns, cmds) \subseteq NodeId
  BY Zenon, <1>1, FS_Interval DEF NodeId, Holders
<1>3. IsFiniteSet(Holders(ns, cmds))
  BY Zenon, <1>2, FS_Subset
<1>4. IsFiniteSet(Live) /\ Cardinality(Live) <= Cardinality(Holders(ns, cmds))
  BY Zenon, <1>3, FS_Subset
<1>5. Cardinality(Live) \in Nat /\ Cardinality(Holders(ns, cmds)) \in Nat /\ Quorum \in Nat
  BY SMTT(30), SMTT(60), <1>3, <1>4, FS_CardinalityType DEF Quorum
<1> QED BY <1>4, <1>5

\* Nodes with empty logs satisfy the invariant.
LEMMA RaftInit == Init => RaftInv
<1> SUFFICES ASSUME Init PROVE RaftInv
  BY Zenon
<1>1. NewNode \in Node
  <2>1. EmptyMap \in Map
    BY Zenon, EmptyMapType
  <2> QED BY <2>1 DEF NewNode, Node
<1>2. nodes = [a \in NodeId |-> NewNode] /\ acked = <<>> /\ leader = None /\ ~panicked
  BY Zenon DEF Init
<1>3. nodes \in [NodeId -> Node] /\ \A a \in NodeId : nodes[a] = NewNode
  BY Zenon, <1>1, <1>2
<1>4. /\ LastIndex(NewNode) = 0 /\ NewNode.commit = 0 /\ NewNode.applied = 0
      /\ NewNode.state = EmptyMap /\ NewNode.role = "follower" /\ Len(acked) = 0 /\ 1..0 = {}
  BY <1>2 DEF NewNode, LastIndex
<1>5. LogsAgree(nodes, acked) /\ TermsGrow(nodes) /\ Settled(nodes) /\ OneLeader(nodes)
  <2>1. 0 <= 0
    OBVIOUS
  <2> QED BY Zenon, <2>1, <1>3, <1>4 DEF LogsAgree, TermsGrow, Settled, OneLeader
<1>6. \E M : History(M, acked) /\ \A a \in NodeId : nodes[a].state = M[LastIndex(nodes[a])]
  <2> DEFINE M == [i \in 0..0 |-> EmptyMap]
  <2>1. M \in [0..0 -> Map] /\ M[0] = EmptyMap
    BY EmptyMapType
  <2> HIDE DEF M
  <2> QED BY Zenon, <2>1, <1>3, <1>4 DEF History
<1>7. NodesInv(nodes, acked)
  BY Zenon, <1>3, <1>5, <1>6 DEF NodesInv
<1>8. TypeOK
  <2>1. \A a \in NodeId : nodes[a].applied <= nodes[a].commit /\ nodes[a].commit <= LastIndex(nodes[a])
    BY <1>3, <1>4
  <2>2. /\ leader \in NodeId \cup {None} /\ down \subseteq NodeId /\ acked \in Seq(Cmd)
        /\ outcome \in {"none", "ok", "no_leader"} /\ panicked \in BOOLEAN
    <3>1. leader = None /\ down = {} /\ acked = <<>> /\ outcome = "none" /\ panicked = FALSE
      BY Zenon DEF Init
    <3>2. <<>> \in Seq(Cmd)
      OBVIOUS
    <3> QED BY Zenon, <3>1, <3>2
  <2> QED BY Zenon, <2>1, <2>2, <1>3 DEF TypeOK, Node, Map
<1>9. Cardinality(Holders(nodes, acked)) >= Quorum
  <2>1. Holders(nodes, acked) = NodeId
    BY Zenon, <1>3, <1>4 DEF Holders
  <2>2. Cardinality(NodeId) = N
    BY FS_Interval DEF NodeId
  <2>3. N >= Quorum
    BY DEF Quorum
  <2> QED BY Zenon, <2>1, <2>2, <2>3
<1> QED BY Zenon, <1>2, <1>7, <1>8, <1>9 DEF RaftInv

\* What a client call has to leave.
LEMMA CallKeeps ==
  ASSUME RaftInv, NodesInv(nodes', acked'), acked' \in Seq(Cmd), down' = down,
         leader' \in NodeId \cup {None}, Cardinality(Holders(nodes', acked')) >= Quorum,
         leader' # None => Leads(nodes', acked', leader'), ~panicked', panicked' \in BOOLEAN,
         outcome' \in {"none", "ok", "no_leader"}
  PROVE  RaftInv'
<1>1. nodes' \in [NodeId -> Node] /\ Settled(nodes')
  BY Zenon DEF NodesInv
<1>2. \A a \in NodeId : nodes'[a].applied <= nodes'[a].commit /\ nodes'[a].commit <= LastIndex(nodes'[a])
  <2>1. \A a \in NodeId : LastIndex(nodes'[a]) \in Nat
    BY Zenon, <1>1, NodeFacts
  <2> QED BY <2>1, <1>1 DEF Settled
<1>3. down' \subseteq NodeId
  BY Zenon DEF RaftInv, TypeOK
<1>4. TypeOK'
  BY Zenon, <1>1, <1>2, <1>3 DEF TypeOK, Node, Map
<1>5. leader' # None => Leads(nodes, acked, leader)'
  BY Zenon DEF Leads, Live
<1> QED BY Zenon, <1>4, <1>5 DEF RaftInv

\* cluster_commit keeps the invariant.
LEMMA CommitKeeps == ASSUME RaftInv, NEW cmd \in Cmd, Commit(cmd) PROVE RaftInv'
<1>1. PICK e : /\ e = EnsureLeader /\ e.leader # None /\ leader' = e.leader /\ down' = down
               /\ Finish([e.nodes EXCEPT ![e.leader] = Propose(@, e.leader, cmd)], e.leader,
                         LastIndex(e.nodes[e.leader]) + 1, cmd)
  BY Zenon DEF Commit
<1> DEFINE ns == e.nodes
           l == e.leader
           ms == [ns EXCEPT ![l] = Propose(@, l, cmd)]
           c2 == Append(acked, cmd)
<1>2. NodesInv(ns, acked) /\ Leads(ns, acked, l) /\ Cardinality(Live) >= Quorum
  BY Zenon, <1>1, EnsureFacts
<1>3. acked \in Seq(Cmd) /\ c2 \in Seq(Cmd) /\ Len(acked) \in Nat
  BY DEF RaftInv, TypeOK
<1>4. /\ LastIndex(ns[l]) = Len(acked) /\ ns[l].commit = Len(acked) /\ l \in NodeId
  BY Zenon, <1>2 DEF Leads, Live, NodesInv, Settled
<1>5. Finish(ms, l, Len(acked) + 1, cmd)
  BY Zenon, <1>1, <1>4
<1> HIDE DEF ns, l, ms, c2
<1>6. PICK M : Ready(ns, acked, M, l)
  BY Zenon, <1>2, <1>3, LeaderReady
<1>7. /\ \E W : Ready(ms, c2, W, l)
      /\ LastIndex(ms[l]) = Len(acked) + 1 /\ ms[l].log[Len(acked) + 1].term = ms[l].term
      /\ ms[l].commit = ns[l].commit /\ ms[l].match[l] = Len(acked) + 1
  <2>1. LET m == [ns EXCEPT ![l] = Propose(@, l, cmd)]
            idx == Len(acked) + 1
        IN  /\ \E W : Ready(m, Append(acked, cmd), W, l)
            /\ m \in [NodeId -> Node] /\ LastIndex(m[l]) = idx /\ m[l].log[idx].term = m[l].term
            /\ m[l].commit = ns[l].commit /\ m[l].match[l] = idx
    BY <1>3, <1>6, ProposeFacts
  <2> QED BY ZenonT(40), <2>1 DEF ms, c2
<1>8. PICK W : Ready(ms, c2, W, l)
  BY ZenonT(40), <1>7
<1>9. LastIndex(ms[l]) # 0 /\ ms[l].commit < LastIndex(ms[l])
  BY SMTT(30), SMTT(60), <1>3, <1>4, <1>7
<1>10. /\ panicked' = FALSE /\ acked' = Append(acked, cmd) /\ outcome' = "ok"
       /\ NodesInv(nodes', c2) /\ Leads(nodes', c2, l) /\ Live \subseteq Holders(nodes', c2)
  <2>1. Finish(ms, l, LastIndex(ms[l]), cmd)
    BY Zenon, <1>5, <1>7
  <2>2. ms[l].log[LastIndex(ms[l])].term = ms[l].term /\ ms[l].match[l] = LastIndex(ms[l])
    BY Zenon, <1>7
  <2> QED BY ZenonT(40), <2>1, <2>2, <1>2, <1>3, <1>8, <1>9, FinishFacts
<1>11. Cardinality(Holders(nodes', c2)) >= Quorum
  BY Zenon, <1>2, <1>10, MajorityHolds
<1>12. leader' = l /\ acked' = c2 /\ panicked' \in BOOLEAN /\ ~panicked' /\ down' = down
  BY Zenon, <1>1, <1>10 DEF l, c2
<1> QED BY ZenonT(40), <1>3, <1>4, <1>10, <1>11, <1>12, CallKeeps

\* A read through the leader keeps it.
LEMMA ReadKeeps == ASSUME RaftInv, Read PROVE RaftInv'
<1>1. PICK e : /\ e = EnsureLeader /\ e.leader # None /\ leader' = e.leader /\ outcome' = "ok"
               /\ down' = down /\ acked' = acked
               /\ nodes' = ApplyLive(
                    Replicated(e.nodes, Replies(e.nodes, e.leader, LastIndex(e.nodes[e.leader]))),
                    e.leader, e.nodes[e.leader].commit)
               /\ panicked' = \E i \in Live, k \in Key :
                                nodes'[i].state[k].value # nodes'[e.leader].state[k].value
  BY Zenon DEF Read
<1> DEFINE ns == e.nodes
           l == e.leader
           ms == Replicated(ns, Replies(ns, l, LastIndex(ns[l])))
<1>2. NodesInv(ns, acked) /\ Leads(ns, acked, l) /\ Cardinality(Live) >= Quorum
  BY Zenon, <1>1, EnsureFacts
<1>3. acked \in Seq(Cmd)
  BY Zenon DEF RaftInv, TypeOK
<1>4. ns[l].commit = Len(acked) /\ l \in NodeId
  BY Zenon, <1>2 DEF Leads, Live, NodesInv, Settled
<1>5. nodes' = ApplyLive(ms, l, Len(acked))
  BY Zenon, <1>1, <1>4
<1> HIDE DEF ns, l, ms
<1>6. PICK M : Ready(ns, acked, M, l)
  BY Zenon, <1>2, <1>3, LeaderReady
<1>7. Brought(ms, acked, M, l)
  BY Zenon, <1>3, <1>6, ReplicatedFacts DEF ms
<1>8. /\ NodesInv(nodes', acked) /\ Leads(nodes', acked, l) /\ Live \subseteq Holders(nodes', acked)
      /\ \A a \in Live : nodes'[a].state = nodes'[l].state
  <2>1. LET m == ApplyLive(ms, l, Len(acked)) IN
        /\ NodesInv(m, acked) /\ Leads(m, acked, l) /\ Live \subseteq Holders(m, acked)
        /\ \A a \in Live : m[a].state = m[l].state
    BY <1>3, <1>7, ApplyLiveFacts
  <2> QED BY Zenon, <2>1, <1>5
<1>9. Cardinality(Holders(nodes', acked)) >= Quorum
  BY Zenon, <1>2, <1>8, MajorityHolds
<1>10. ~panicked' /\ panicked' \in BOOLEAN
  BY Zenon, <1>1, <1>8 DEF l
<1>11. leader' = l /\ acked' = acked /\ down' = down
  BY Zenon, <1>1 DEF l
<1> QED BY ZenonT(40), <1>1, <1>3, <1>4, <1>8, <1>9, <1>10, <1>11, CallKeeps

\* And so does a call that finds no leader.
LEMMA NoLeaderKeeps == ASSUME RaftInv, NoLeader PROVE RaftInv'
<1>1. PICK e : /\ e = EnsureLeader /\ nodes' = e.nodes /\ leader' = None /\ outcome' = "no_leader"
               /\ down' = down /\ acked' = acked /\ panicked' = panicked
  BY Zenon DEF NoLeader
<1>2. NodesInv(nodes', acked) /\ Holders(nodes', acked) = Holders(nodes, acked)
  BY Zenon, <1>1, EnsureFacts
<1>3. /\ acked \in Seq(Cmd) /\ Cardinality(Holders(nodes, acked)) >= Quorum /\ ~panicked
      /\ panicked \in BOOLEAN
  BY Zenon DEF RaftInv, TypeOK
<1> QED BY Zenon, <1>1, <1>2, <1>3, CallKeeps

\* Every client call, failure and revival keeps the invariant.
LEMMA RaftNext == RaftInv /\ [Next]_vars => RaftInv'
<1> SUFFICES ASSUME RaftInv, [Next]_vars PROVE RaftInv'
  BY Zenon
<1>1. ASSUME NEW cmd \in Cmd, Commit(cmd) PROVE RaftInv'
  BY Zenon, <1>1, CommitKeeps
<1>2. CASE Read
  BY Zenon, <1>2, ReadKeeps
<1>3. CASE NoLeader
  BY Zenon, <1>3, NoLeaderKeeps
<1>4. ASSUME NEW i \in NodeId, Fail(i) PROVE RaftInv'
  <2>1. /\ nodes' = nodes /\ acked' = acked /\ panicked' = panicked /\ down' = down \cup {i}
        /\ leader' = IF leader = i THEN None ELSE leader
        /\ outcome' = "none"
    BY Zenon, <1>4 DEF Fail
  <2>2. TypeOK'
    BY Zenon, <2>1 DEF RaftInv, TypeOK
  <2>3. leader' # None => Leads(nodes, acked, leader)'
    BY Zenon, <2>1 DEF RaftInv, Leads, Live
  <2> QED BY Zenon, <2>1, <2>2, <2>3 DEF RaftInv
<1>5. ASSUME NEW i \in NodeId, Revive(i) PROVE RaftInv'
  <2>1. /\ nodes' = nodes /\ acked' = acked /\ panicked' = panicked /\ down' = down \ {i}
        /\ leader' = leader /\ outcome' = "none"
    BY Zenon, <1>5 DEF Revive
  <2>2. TypeOK'
    BY Zenon, <2>1 DEF RaftInv, TypeOK
  <2>3. leader' # None => Leads(nodes, acked, leader)'
    BY Zenon, <2>1 DEF RaftInv, Leads, Live
  <2> QED BY Zenon, <2>1, <2>2, <2>3 DEF RaftInv
<1>6. CASE UNCHANGED vars
  BY Zenon, <1>6 DEF vars, RaftInv, TypeOK, Leads, Live
<1> QED BY Zenon, <1>1, <1>2, <1>3, <1>4, <1>5, <1>6 DEF Next

\* In every state each log is a first part of the log of the acknowledged
\* commands, held whole by a majority.
THEOREM RaftInvariant == Spec => []RaftInv
  BY RaftInit, RaftNext, PTL DEF Spec

\* One leader to a term, and log matching, for a cluster of any size and any
\* number of elections, failures and revivals.
THEOREM LogMatchingHolds == Spec => []LogMatching
<1>1. RaftInv => LogMatching
  <2> SUFFICES ASSUME RaftInv PROVE LogMatching
    BY Zenon
  <2>1. nodes \in [NodeId -> Node] /\ LogsAgree(nodes, acked) /\ OneLeader(nodes)
    BY Zenon DEF RaftInv, NodesInv
  <2>2. ASSUME NEW a \in NodeId, NEW b \in NodeId, NEW i \in DOMAIN nodes[a].log \cap DOMAIN nodes[b].log
        PROVE  SubSeq(nodes[a].log, 1, i) = SubSeq(nodes[b].log, 1, i)
    <3>1. /\ nodes[a].log \in Seq(LogEntry) /\ nodes[b].log \in Seq(LogEntry)
          /\ LastIndex(nodes[a]) = Len(nodes[a].log) /\ LastIndex(nodes[b]) = Len(nodes[b].log)
      BY Zenon, <2>1, NodeFacts
    <3>2. i \in Nat /\ i <= Len(nodes[a].log) /\ i <= Len(nodes[b].log) /\ i >= 1
      BY <3>1
    <3>3. \A j \in 1..i : j \in 1..LastIndex(nodes[a]) /\ j <= LastIndex(nodes[b])
      BY <3>1, <3>2
    <3>4. \A j \in 1..i : nodes[a].log[j] = nodes[b].log[j]
      BY Zenon, <2>1, <3>3 DEF LogsAgree
    <3> QED BY <3>1, <3>2, <3>4
  <2> QED BY Zenon, <2>1, <2>2 DEF LogMatching, OneLeader
<1> QED BY <1>1, RaftInvariant, PTL

\* Whoever leads has every acknowledged command at its index, applied.
THEOREM NoLostUpdateHolds == Spec => []NoLostUpdate
<1>1. RaftInv => NoLostUpdate
  <2> SUFFICES ASSUME RaftInv, leader # None
               PROVE  /\ nodes[leader].applied >= Len(acked)
                      /\ \A i \in DOMAIN acked : nodes[leader].log[i].cmd = acked[i]
    BY Zenon DEF NoLostUpdate
  <2>1. leader \in NodeId /\ LastIndex(nodes[leader]) = Len(acked)
    BY Zenon DEF RaftInv, Leads, Live
  <2>2. /\ nodes[leader].applied = Len(acked)
        /\ \A i \in 1..Len(acked) : nodes[leader].log[i].cmd = acked[i]
    BY Zenon, <2>1 DEF RaftInv, NodesInv, Settled, LogsAgree
  <2>3. acked \in Seq(Cmd)
    BY Zenon DEF RaftInv, TypeOK
  <2>4. DOMAIN acked = 1..Len(acked) /\ Len(acked) >= Len(acked)
    BY SMTT(30), SMTT(60), <2>3
  <2> QED BY Zenon, <2>2, <2>4
<1> QED BY <1>1, RaftInvariant, PTL

\* No node, live or failed, has applied what was not acknowledged, or in another
\* order.
THEOREM AppliedIsAckedHolds == Spec => []AppliedIsAcked
<1>1. RaftInv => AppliedIsAcked
  BY Zenon DEF RaftInv, NodesInv, Settled, LogsAgree, AppliedIsAcked
<1> QED BY <1>1, RaftInvariant, PTL

\* No assertion of the driver fails.
THEOREM NeverPanicsHolds == Spec => []NeverPanics
<1>1. RaftInv => NeverPanics
  BY Zenon DEF RaftInv, NeverPanics
<1> QED BY <1>1, RaftInvariant, PTL
=============================================================================
