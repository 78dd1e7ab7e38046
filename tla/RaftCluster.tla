----------------------------- MODULE RaftCluster -----------------------------
(***************************************************************************)
(* The synchronous cluster driver: src/raft/cluster.rs.  A client call     *)
(* holds the cluster's mutex from start to end, so each call is one        *)
(* action; what interleaves is calls, failures and revivals.               *)
(***************************************************************************)
EXTENDS RaftNode

CONSTANTS MaxTerm, MaxLog

VARIABLES
  nodes,     \* the nodes, by id
  leader,    \* the node the driver takes for the leader, or None
  down,      \* the failed nodes
  acked,     \* the commands acknowledged, in index order
  outcome,   \* what the last client call returned
  panicked   \* an assertion of the driver failed

vars == <<nodes, leader, down, acked, outcome, panicked>>

TypeOK ==
  /\ nodes \in [NodeId ->
       [term : Nat, votedFor : NodeId \cup {None}, role : {"follower", "candidate", "leader"},
        log : Seq(LogEntry), commit : Nat, applied : Nat,
        state : [Key -> [value : Value \cup {NoVal}, version : Nat]],
        match : [NodeId -> Nat]]]
  /\ \A i \in NodeId : nodes[i].applied <= nodes[i].commit /\ nodes[i].commit <= LastIndex(nodes[i])
  /\ leader \in NodeId \cup {None}
  /\ down \subseteq NodeId
  /\ acked \in Seq(Cmd)
  /\ outcome \in {"none", "ok", "no_leader"}
  /\ panicked \in BOOLEAN

Init ==
  /\ nodes = [i \in NodeId |-> NewNode]
  /\ leader = None /\ down = {} /\ acked = <<>> /\ outcome = "none" /\ panicked = FALSE

Live == NodeId \ down

-----------------------------------------------------------------------------
(* Elections *)

\* Is log tip (t, i) of node a behind that of node b, or equal with b lower?
Before(ns, b, a) ==
  \/ LastTerm(ns[b]) > LastTerm(ns[a])
  \/ /\ LastTerm(ns[b]) = LastTerm(ns[a])
     /\ \/ LastIndex(ns[b]) > LastIndex(ns[a])
        \/ LastIndex(ns[b]) = LastIndex(ns[a]) /\ b < a

\* The live node with the most up-to-date log, the lowest id among equals.
Candidate(ns) == CHOOSE c \in Live : \A o \in Live \ {c} : Before(ns, c, o)

MaxTermOf(ns) == CHOOSE t \in {ns[i].term : i \in NodeId} : \A i \in NodeId : ns[i].term <= t

\* The votes of the other live nodes for candidate c in term t.  The driver
\* hands its (last_term, last_index) to request_vote, which takes
\* (last_index, last_term).
Votes(ns, c, t) ==
  {v \in Live \ {c} : Granted(ns[v], c, t, LastTerm(ns[c]), LastIndex(ns[c]))}

\* The nodes after the vote.
Voted(ns, c, t, won) ==
  [i \in NodeId |->
    CASE i = c /\ won -> BecomeLeader([StartElection(ns[c], c) EXCEPT !.term = t])
      [] i = c /\ ~won -> [StartElection(ns[c], c) EXCEPT !.term = t]
      [] i \in Live \ {c} -> RequestVote(ns[i], c, t, LastTerm(ns[c]), LastIndex(ns[c]))
      [] OTHER -> ns[i]]

\* The nodes after the vote, and the leader, None if the candidate lost.
Ballot(ns, c, t) ==
  LET won == 1 + Cardinality(Votes(ns, c, t)) >= Quorum IN
  [nodes |-> Voted(ns, c, t, won), leader |-> IF won THEN c ELSE None]

\* elect.
Elect(ns) == Ballot(ns, Candidate(ns), MaxTermOf(ns) + 1)

\* ensure_leader: the nodes it leaves and the leader, None when there is none.
EnsureLeader ==
  CASE Cardinality(Live) < Quorum -> [nodes |-> nodes, leader |-> None]
    [] Cardinality(Live) >= Quorum /\ leader # None /\ leader \notin down ->
         [nodes |-> nodes, leader |-> leader]
    [] OTHER -> Elect(nodes)

-----------------------------------------------------------------------------
(* Replication *)

\* The peer once the leader's attempts have cut its log down to len.
CutTo(ldr, peer, len) ==
  IF len = LastIndex(peer) THEN peer
  ELSE [Adopt(peer, ldr.term) EXCEPT !.role = "follower", !.log = SubSeq(@, 1, len)]

\* peer_catch_up: append from the peer's tip, or from idx if that is earlier,
\* until the peer accepts or rejects without dropping anything.
CatchUp(ldr, peer, idx) ==
  LET try[len \in 0..LastIndex(peer)] ==
        LET After(q, ok) ==
              IF ok \/ LastIndex(q) = len THEN [node |-> q, ok |-> ok] ELSE try[LastIndex(q)]
            Attempt(p, prev) ==
              After(AppendEntries(p, ldr.term, prev, TermOf(ldr, prev),
                                  SubSeq(ldr.log, prev + 1, idx), ldr.commit),
                    Accepts(p, ldr.term, prev, TermOf(ldr, prev)))
        IN  Attempt(CutTo(ldr, peer, len), Least(len + 1, idx) - 1)
  IN  IF idx = 0 THEN [node |-> peer, ok |-> TRUE] ELSE try[LastIndex(peer)]

\* apply_committed of the driver: on every live node that holds at upto what
\* the leader holds there.
ApplyLive(ns, l, upto) ==
  [i \in NodeId |->
    IF i \in Live /\ TermOf(ns[i], upto) = TermOf(ns[l], upto)
    THEN ApplyCommitted([ns[i] EXCEPT !.commit = Greatest(@, upto)])
    ELSE ns[i]]

\* What each live follower answers, and becomes, when brought up to idx of the
\* leader's log.
Replies(ns, l, idx) == [i \in Live \ {l} |-> CatchUp(ns[l], ns[i], idx)]

Replicated(ns, replies) ==
  [i \in NodeId |-> IF i \in DOMAIN replies THEN replies[i].node ELSE ns[i]]

-----------------------------------------------------------------------------
(* Client calls *)

\* The driver has not panicked, and the bound on terms allows the call.
Callable(e) == ~panicked /\ MaxTermOf(e.nodes) <= MaxTerm

\* A call that finds no leader returns NoLeader.
NoLeader ==
  \E e \in {EnsureLeader} :
    /\ Callable(e)
    /\ e.leader = None
    /\ nodes' = e.nodes /\ leader' = None /\ outcome' = "no_leader"
    /\ UNCHANGED <<down, acked, panicked>>

\* A majority holds entry idx: the leader commits it, every live node applies.
CommitSucceeds(ns, l, idx, cmd) ==
  \E ldr \in {AdvanceCommit(ns[l])} :
    /\ panicked' = (ns[l].role # "leader" \/ ldr.commit # idx)
    /\ nodes' = ApplyLive([ns EXCEPT ![l] = ldr], l, ldr.commit)
    /\ acked' = Append(acked, cmd)
    /\ outcome' = "ok"

\* cluster_commit from the proposal on: replicate to the live nodes, count the
\* acknowledgements.
Finish(ns, l, idx, cmd) ==
  \E replies \in {Replies(ns, l, idx)} :
    \E acks \in {{i \in DOMAIN replies : replies[i].ok}} :
      LET sent == [Replicated(ns, replies) EXCEPT ![l].match =
                     [p \in NodeId |-> IF p \in acks THEN idx ELSE @[p]]]
      IN  IF 1 + Cardinality(acks) < Quorum
          THEN nodes' = sent /\ outcome' = "no_leader" /\ UNCHANGED <<acked, panicked>>
          ELSE CommitSucceeds(sent, l, idx, cmd)

\* Mutant: the entry is acknowledged once it is in the leader's log.
CommitUnreplicated(cmd) ==
  \E e \in {EnsureLeader} :
    /\ Callable(e)
    /\ e.leader # None
    /\ LastIndex(e.nodes[e.leader]) < MaxLog
    /\ leader' = e.leader
    /\ nodes' = [e.nodes EXCEPT ![e.leader] = Propose(@, e.leader, cmd)]
    /\ acked' = Append(acked, cmd)
    /\ outcome' = "ok"
    /\ UNCHANGED <<down, panicked>>

\* put and delete (cluster_commit): propose, replicate to the live nodes,
\* commit on a majority, apply.
Commit(cmd) ==
  \E e \in {EnsureLeader} :
    /\ Callable(e)
    /\ e.leader # None
    /\ LastIndex(e.nodes[e.leader]) < MaxLog
    /\ leader' = e.leader
    /\ Finish([e.nodes EXCEPT ![e.leader] = Propose(@, e.leader, cmd)], e.leader,
              LastIndex(e.nodes[e.leader]) + 1, cmd)
    /\ UNCHANGED down

\* get and scan: bring the live followers up to the leader, apply what is
\* committed and read the leader's map; get panics if a live node disagrees.
Read ==
  \E e \in {EnsureLeader} :
    /\ Callable(e)
    /\ e.leader # None
    /\ nodes' = ApplyLive(
         Replicated(e.nodes, Replies(e.nodes, e.leader, LastIndex(e.nodes[e.leader]))),
         e.leader, e.nodes[e.leader].commit)
    /\ leader' = e.leader /\ outcome' = "ok"
    /\ panicked' = \E i \in Live, k \in Key :
                     nodes'[i].state[k].value # nodes'[e.leader].state[k].value
    /\ UNCHANGED <<down, acked>>

Fail(i) ==
  /\ ~panicked
  /\ leader' = IF leader = i THEN None ELSE leader
  /\ down' = down \cup {i}
  /\ outcome' = "none"
  /\ UNCHANGED <<nodes, acked, panicked>>

Revive(i) ==
  /\ ~panicked
  /\ down' = down \ {i}
  /\ outcome' = "none"
  /\ UNCHANGED <<nodes, leader, acked, panicked>>

Next ==
  \/ \E cmd \in Cmd : Commit(cmd)
  \/ Read
  \/ NoLeader
  \/ \E i \in NodeId : Fail(i) \/ Revive(i)

Spec == Init /\ [][Next]_vars

-----------------------------------------------------------------------------
(* Properties *)

\* A term has at most one leader; and log matching: two logs with the same term
\* at an index agree up to it.
LogMatching ==
  \A a, b \in NodeId :
    /\ nodes[a].role = "leader" /\ nodes[b].role = "leader" /\ nodes[a].term = nodes[b].term => a = b
    /\ \A i \in DOMAIN nodes[a].log \cap DOMAIN nodes[b].log :
         nodes[a].log[i].term = nodes[b].log[i].term =>
           SubSeq(nodes[a].log, 1, i) = SubSeq(nodes[b].log, 1, i)

\* No lost updates across failover: whoever leads holds every acknowledged
\* command at its index, and has applied it.
NoLostUpdate ==
  leader # None =>
    /\ nodes[leader].applied >= Len(acked)
    /\ \A i \in DOMAIN acked : nodes[leader].log[i].cmd = acked[i]

\* No split-brain commit: what any node applied, live or failed, is what was
\* acknowledged, in the same order.
AppliedIsAcked ==
  \A a \in NodeId :
    /\ nodes[a].applied <= Len(acked)
    /\ \A i \in 1..nodes[a].applied : nodes[a].log[i].cmd = acked[i]

\* The driver's assertions hold: a majority commits the entry, only a leader
\* proposes, and the live nodes agree when a read is served.
NeverPanics == ~panicked

\* An election succeeds iff a live node can reach a whole-cluster quorum: a
\* call is refused only while the live nodes are a minority.
MajorityServes == outcome = "no_leader" => Cardinality(Live) < Quorum

=============================================================================
