------------------------------ MODULE RaftNode ------------------------------
(***************************************************************************)
(* The Raft state machine of one node: src/raft/node.rs, and the key-value *)
(* map it replicates (Op::apply in src/types.rs).  A node is a record and  *)
(* each of its methods an operator from the node, and the message it is    *)
(* called with, to the node it leaves (and the answer it gives).           *)
(*                                                                         *)
(* leader_id and next_idx are written by the code and never read; they are *)
(* left out.                                                               *)
(***************************************************************************)
EXTENDS Naturals, Sequences, FiniteSets

CONSTANTS N, Key, Value, NoVal, None

ASSUME RaftAssumption == N \in Nat \ {0} /\ NoVal \notin Value /\ None \notin Nat

NodeId == 0..(N - 1)
Cmd == [key : Key, value : Value \cup {NoVal}]   \* NoVal: a delete
LogEntry == [term : Nat, cmd : Cmd]

\* The members of a quorum, fixed by the size of the cluster.
Quorum == N \div 2 + 1

Absent == [value |-> NoVal, version |-> 0]
EmptyMap == [k \in Key |-> Absent]

\* Op::apply: a put of the value already there changes nothing.
Apply(map, cmd, index) ==
  IF cmd.value = map[cmd.key].value THEN map
  ELSE [map EXCEPT ![cmd.key] =
         IF cmd.value = NoVal THEN Absent ELSE [value |-> cmd.value, version |-> index]]

NewNode ==
  [term |-> 0, votedFor |-> None, role |-> "follower", log |-> <<>>, commit |-> 0,
   applied |-> 0, state |-> EmptyMap, match |-> [p \in NodeId |-> 0]]

LastIndex(n) == Len(n.log)
TermOf(n, i) == IF i \in DOMAIN n.log THEN n.log[i].term ELSE 0
LastTerm(n) == TermOf(n, LastIndex(n))

NoMatch == [p \in NodeId |-> 0]

StartElection(n, id) ==
  [n EXCEPT !.term = @ + 1, !.votedFor = id, !.role = "candidate", !.match = NoMatch]

BecomeLeader(n) == [n EXCEPT !.role = "leader", !.match = NoMatch]

\* The node after it has seen a message of the given term.
Adopt(n, term) ==
  IF term > n.term THEN [n EXCEPT !.term = term, !.votedFor = None, !.role = "follower"] ELSE n

\* Is a log with this tip at least as up to date as the node's?
UpToDate(n, lastIndex, lastTerm) ==
  \/ lastTerm > LastTerm(n)
  \/ lastTerm = LastTerm(n) /\ lastIndex >= LastIndex(n)

Granted(n, from, term, lastIndex, lastTerm) ==
  LET m == Adopt(n, term) IN
  /\ term = m.term
  /\ m.votedFor \in {None, from}
  /\ UpToDate(m, lastIndex, lastTerm)

RequestVote(n, from, term, lastIndex, lastTerm) ==
  IF Granted(n, from, term, lastIndex, lastTerm)
  THEN [Adopt(n, term) EXCEPT !.votedFor = from]
  ELSE Adopt(n, term)

-----------------------------------------------------------------------------
(* append_entries *)

\* How many of the entries, from the first, the log holds with the same term.
Held(log, prev, entries) ==
  CHOOSE k \in 0..Len(entries) :
    /\ \A i \in 1..k : prev + i \in DOMAIN log /\ log[prev + i].term = entries[i].term
    /\ k < Len(entries) =>
         ~(prev + k + 1 \in DOMAIN log /\ log[prev + k + 1].term = entries[k + 1].term)

\* Mutant: entries the log already holds are appended again.
MergeAgain(log, prev, entries) == log \o entries

\* The log after the entries that follow prev: those it holds are skipped, the
\* first one it does not hold replaces whatever is at and after its index.
Merge(log, prev, entries) ==
  LET k == Held(log, prev, entries) IN
  IF k = Len(entries) THEN log
  ELSE SubSeq(log, 1, prev + k) \o SubSeq(entries, k + 1, Len(entries))

PrevOk(n, prev, prevTerm) ==
  prev = 0 \/ (prev \in DOMAIN n.log /\ n.log[prev].term = prevTerm)

Least(a, b) == IF a < b THEN a ELSE b
Greatest(a, b) == IF a > b THEN a ELSE b

Accepts(n, term, prev, prevTerm) == term >= n.term /\ PrevOk(n, prev, prevTerm)

AppendEntries(n, term, prev, prevTerm, entries, leaderCommit) ==
  LET m == [Adopt(n, term) EXCEPT !.role = "follower"] IN
  CASE term < n.term -> n
    [] term >= n.term /\ ~PrevOk(n, prev, prevTerm) ->
         [m EXCEPT !.log = SubSeq(@, 1, Least(prev - 1, Len(@)))]
    [] OTHER ->
         [m EXCEPT !.log = Merge(@, prev, entries),
                   !.commit = Greatest(@, Least(leaderCommit, prev + Len(entries)))]

-----------------------------------------------------------------------------
\* Mutant: one node too many is asked for.
CommittableStrict(n) ==
  {i \in (n.commit + 1)..LastIndex(n) :
     /\ n.log[i].term = n.term
     /\ Cardinality({p \in NodeId : n.match[p] >= i}) > Quorum}

\* advance_commit: the last index of the node's own term on a majority.
Committable(n) ==
  {i \in (n.commit + 1)..LastIndex(n) :
     /\ n.log[i].term = n.term
     /\ Cardinality({p \in NodeId : n.match[p] >= i}) >= Quorum}

AdvanceCommit(n) ==
  IF n.role # "leader" \/ Committable(n) = {} THEN n
  ELSE [n EXCEPT !.commit = CHOOSE i \in Committable(n) : \A j \in Committable(n) : j <= i]

\* apply_committed: in index order, as far as the log goes.
ApplyCommitted(n) ==
  LET upto == Greatest(n.applied, Least(n.commit, LastIndex(n)))
      map[i \in n.applied..upto] ==
        IF i = n.applied THEN n.state ELSE Apply(map[i - 1], n.log[i].cmd, i)
  IN  [n EXCEPT !.applied = upto, !.state = map[upto]]

Propose(n, id, cmd) ==
  [n EXCEPT !.log = Append(@, [term |-> n.term, cmd |-> cmd]),
            !.match[id] = LastIndex(n) + 1]

=============================================================================
