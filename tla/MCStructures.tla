---------------------------- MODULE MCStructures ----------------------------
\* The B+ tree, the file its document is kept in, and epoch-based reclamation,
\* for TLC, one of them in each behaviour.
EXTENDS BTree, DocumentFile, EpochRcu, TLC

VARIABLE side

mcVars == <<treeVars, documentVars, vars, side>>

ProcSymmetry == Permutations(Reader) \cup Permutations(Writer) \cup Permutations(Reclaimer)

MCInit == TreeInit /\ DocumentInit /\ Init /\ side \in {"tree", "document", "epoch"}

MCNext ==
  \/ side = "tree" /\ TreeNext /\ UNCHANGED <<documentVars, vars, side>>
  \/ side = "document" /\ DocumentNext /\ UNCHANGED <<treeVars, vars, side>>
  \/ side = "epoch" /\ Next /\ UNCHANGED <<treeVars, documentVars, side>>

MCSpec == MCInit /\ [][MCNext]_mcVars
=============================================================================
