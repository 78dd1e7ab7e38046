---------------------------- MODULE MCSnapshot -----------------------------
(***************************************************************************)
(* Instances of SnapshotMap, Checker, Framing and Owners for TLC.  A       *)
(* behaviour is either that of a store watched by the checker, or that of  *)
(* a directory whose owners are killed before they record anything.        *)
(***************************************************************************)
EXTENDS Checker, Owners

VARIABLE side

mcVars == <<allVars, ownVars, side>>

\* Keys at the edge of a prefix whose last byte is the largest: the upper
\* bound of prefix <<0, 1>> is <<1>>.
SomeKeys == {<<0, 1>>, <<1>>}
SomeValues == {<<1>>, <<2>>}

Long(n) == [i \in 1..n |-> 7]

\* The smallest record, the largest one (a payload of MAX_PAYLOAD bytes), one
\* byte more, a batch, and no ops at all.
SomeBatches ==
  {put(<<1>>, <<9>>),
   put(<<>>, <<>>),
   delete(<<1>>),
   put(<<0, 1>>, <<>>) \o delete(<<1>>),
   <<>>,
   put(<<1>>, Long(MAX_PAYLOAD - MIN_PAYLOAD - 1)),
   put(<<1>>, Long(MAX_PAYLOAD - MIN_PAYLOAD))}

MCInit ==
  /\ WatchedInit /\ OwnersInit
  /\ side \in {"watched", "owned"}
  /\ side = "watched" => lockable

\* What a commit changed, recorded by nobody.
Unrecorded ==
  {[index |-> Len(past), key |-> k, value |-> Observed(data', k)] : k \in Key}

MCNext ==
  /\ \/ side = "watched" /\ WatchedNext /\ UNCHANGED ownVars
     \/ /\ side = "owned" /\ OwnersNext
        /\ unrecorded' = unrecorded \cup (IF past' = past THEN {} ELSE Unrecorded)
        /\ UNCHANGED writes
  /\ UNCHANGED side

MCSpec == MCInit /\ [][MCNext]_mcVars

=============================================================================
