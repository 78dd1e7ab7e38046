---------------------------- MODULE DocumentFile ----------------------------
(***************************************************************************)
(* How a tree's document gets to disk and back: commit_document and open   *)
(* of src/btree_store.rs, with create_dir_all_durably and fsync_dir of     *)
(* src/wal.rs.  A document is a number, in the order of the commits.       *)
(*                                                                         *)
(* The file system is external.  A directory entry, or a file's contents,  *)
(* is on disk for certain once it was synced; a power loss may take back   *)
(* any that was not.  A rename is atomic.  The steps of a commit leave     *)
(* nothing in memory, so an error in one and an exit of the process are    *)
(* the same to the next commit.                                            *)
(***************************************************************************)
EXTENDS Naturals, FiniteSets, FiniteSetsExt

CONSTANTS
  Levels,   \* how deep the directory is below one that exists for certain
  MaxDocs   \* bound on the commits tried

ASSUME DocumentAssumption == Levels \in Nat \ {0} /\ MaxDocs \in Nat

VARIABLES
  made,      \* the levels of the path that exist
  settled,   \* those whose entry in their parent was synced
  tmp,       \* btree.tmp
  live,      \* btree.dat
  names,     \* the files that btree.dat may be after a power loss
  step,      \* what the commit does next
  missing,   \* the levels create_dir_all_durably found missing and has not settled
  doc,       \* the document of the last commit tried
  good,      \* that of the last commit that returned Ok, 0 for the empty tree
  since,     \* those tried since
  orphan     \* has a call ended between making a directory and syncing its parent?

documentVars == <<made, settled, tmp, live, names, step, missing, doc, good, since, orphan>>
disk == <<made, settled, live, names>>
judged == <<good, orphan>>

Path == 1..Levels
NoFile == [doc |-> 0, whole |-> TRUE, synced |-> TRUE]

DocumentInit ==
  /\ made = {} /\ settled = {} /\ missing = {}
  /\ tmp = NoFile /\ live = NoFile /\ names = {NoFile}
  /\ step = "idle" /\ doc = 0 /\ good = 0 /\ since = {} /\ orphan = FALSE

\* open: an empty tree without the file, an error if it is not a whole document.
Refused == MaxDocs + 1
OpenedDoc == IF live.whole THEN live.doc ELSE Refused

-----------------------------------------------------------------------------
(* create_dir_all_durably *)

Begin ==
  /\ step = "idle" /\ doc < MaxDocs
  /\ step' = "mkdir" /\ missing' = Path \ made
  /\ doc' = doc + 1 /\ since' = since \cup {doc + 1}
  /\ UNCHANGED <<disk, tmp, judged>>

\* The levels are made one by one, outermost first ...
MakeDir ==
  /\ step = "mkdir"
  /\ \/ made # Path /\ made' = made \cup {Min(Path \ made)} /\ UNCHANGED step
     \/ made = Path /\ step' = "parents" /\ UNCHANGED made
  /\ UNCHANGED <<settled, live, names, tmp, missing, doc, since, judged>>

\* ... and then the parent of each that was missing is synced.
SyncParent ==
  /\ step = "parents"
  /\ \/ missing # {} /\ missing' = missing \ {Min(missing)}
                     /\ settled' = settled \cup {Min(missing)} /\ UNCHANGED step
     \/ missing = {} /\ step' = "open" /\ UNCHANGED <<missing, settled>>
  /\ UNCHANGED <<made, live, names, tmp, doc, since, judged>>

-----------------------------------------------------------------------------
(* commit_document *)

OpenTmp ==
  /\ step = "open" /\ step' = "write"
  /\ tmp' = [doc |-> doc, whole |-> FALSE, synced |-> FALSE]
  /\ UNCHANGED <<disk, missing, doc, since, judged>>

WriteTmp ==
  /\ step = "write" /\ step' = "sync"
  /\ tmp' = [tmp EXCEPT !.whole = TRUE]
  /\ UNCHANGED <<disk, missing, doc, since, judged>>

\* Mutant: the bytes are flushed, not synced.
FlushTmp ==
  /\ step = "sync" /\ step' = "rename"
  /\ UNCHANGED <<disk, tmp, missing, doc, since, judged>>

SyncTmp ==
  /\ step = "sync" /\ step' = "rename"
  /\ tmp' = [tmp EXCEPT !.synced = TRUE]
  /\ UNCHANGED <<disk, missing, doc, since, judged>>

Rename ==
  /\ step = "rename" /\ step' = "fsync"
  /\ live' = tmp /\ names' = names \cup {tmp} /\ tmp' = NoFile
  /\ UNCHANGED <<made, settled, missing, doc, since, judged>>

\* fsync_dir, and Ok.
SyncDir ==
  /\ step = "fsync" /\ step' = "idle"
  /\ names' = {live}
  /\ good' = doc /\ since' = {}
  /\ UNCHANGED <<made, settled, tmp, live, missing, doc, orphan>>

-----------------------------------------------------------------------------
(* Failures *)

\* A step fails, or the process exits.
Fails ==
  /\ step # "idle" /\ step' = "idle" /\ missing' = {}
  /\ orphan' = (orphan \/ made # settled)
  /\ UNCHANGED <<disk, tmp, doc, good, since>>

\* What a file may be after a power loss.
Torn(f) == IF f.synced THEN {f} ELSE {[f EXCEPT !.whole = FALSE], f}

\* The power goes: of the entries not synced, any may be gone, and a level
\* takes what is below it along.
PowerLoss ==
  /\ \E left \in {Cardinality(made)} \cup {i - 1 : i \in made \ settled} :
       /\ made' = 1..left /\ settled' = 1..left
       /\ IF left < Levels THEN live' = NoFile
          ELSE \E f \in names : \E g \in Torn(f) : live' = [g EXCEPT !.synced = TRUE]
  /\ names' = {live'}
  /\ tmp' = NoFile /\ step' = "idle" /\ missing' = {}
  /\ UNCHANGED <<doc, good, since, orphan>>

DocumentNext ==
  \/ Begin \/ MakeDir \/ SyncParent \/ OpenTmp \/ WriteTmp \/ SyncTmp \/ Rename \/ SyncDir
  \/ Fails \/ PowerLoss

DocumentSpec == DocumentInit /\ [][DocumentNext]_documentVars

-----------------------------------------------------------------------------
(* Properties *)

\* Whatever fails and whenever the power goes, open finds the document of the
\* last commit that returned, or one tried since, whole: never an older one,
\* never a torn one.  (Unless an earlier call ended after it had made a
\* directory and before it synced the parent: see DurableOnceReturned.)
CommittedSurvives == orphan \/ OpenedDoc \in since \cup {good}

\* "so the new document is durable once this returns" (commit_document).
DurableOnceReturned == OpenedDoc \in since \cup {good}

=============================================================================
