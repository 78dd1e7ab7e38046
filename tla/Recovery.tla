------------------------------ MODULE Recovery ------------------------------
(***************************************************************************)
(* Checkpoints and recovery: Store::checkpoint and Store::open_with of     *)
(* src/engine.rs over checkpoint::write and checkpoint::load of            *)
(* src/checkpoint.rs and Wal::remove_segments_before.  A checkpoint is     *)
(* written, renamed into place and made durable, and log segments deleted, *)
(* one file system call at a time, while a writer goes on appending; the   *)
(* process or the machine may stop between any two calls, any call may     *)
(* fail, and snap.dat may be found damaged when the store is opened.       *)
(*                                                                         *)
(* The log is DurableLog, whose history `log' is never cut: the records    *)
(* still on disk are those whose segment is present.  Record i of the      *)
(* history has commit index i, and the state at index i is the result of   *)
(* the first i records, so a checkpoint is represented by its index.       *)
(***************************************************************************)
EXTENDS DurableLog

CONSTANTS
  MaxSeg,     \* bound on the segments
  MaxRec,     \* bound on the records
  MaxCrash,   \* bound on the number of crashes
  MaxDamage   \* bound on the times snap.dat is damaged while the store is down

ASSUME RecoveryAssumption == {MaxSeg, MaxRec, MaxCrash, MaxDamage} \subseteq Nat

VARIABLES
  present, dpresent, \* segments in the directory as seen; as last synced
  names,             \* snap.dat and snap.prev as seen ...
  onDisk,            \* ... and as a power loss may leave them
  tmp,               \* snap.tmp
  pc,                \* where the checkpoint (or the open) is
  snapIndex,         \* the index of the published snapshot
  cut,               \* the snapshot index and the boundary the checkpoint drew
  prevBoundary, latestDamaged,  \* CheckpointState
  doomed,            \* segments remove_segments_before has yet to remove
  crashes, damages

segVars == <<present, dpresent>>
nameVars == <<names, onDisk, tmp>>
ckptState == <<prevBoundary, latestDamaged>>
vars == <<logVars, segVars, nameVars, ckptState, pc, snapIndex, cut, doomed, crashes, damages>>

\* A checkpoint file: absent, complete (and synced or not), or damaged.
File(kind, i) == [kind |-> kind, index |-> i]
NoFile == File("none", 0)
DamagedFile == File("damaged", 0)
FileType == [kind : {"none", "ok", "unsynced", "damaged"}, index : Nat]
Names == [dat : FileType, prev : FileType]
Usable(f) == f.kind \in {"ok", "unsynced"}

WritePC == {"tmp", "sync", "demote", "publish", "dirSync"}
RemovePC == {"remove", "removeSync"}
Running == WritePC \cup RemovePC \cup {"idle"}

TypeOK ==
  /\ LogTypeOK(Nat)
  /\ present \subseteq Nat /\ dpresent \subseteq Nat
  /\ names \in Names /\ onDisk \subseteq Names
  /\ tmp \in FileType
  /\ pc \in Running \cup {"down", "refused"}
  /\ snapIndex \in Nat
  /\ cut \in [index : Nat, boundary : Nat]
  /\ prevBoundary \in Nat /\ latestDamaged \in BOOLEAN
  /\ doomed \subseteq Nat
  /\ crashes \in Nat /\ damages \in Nat

\* An empty directory, not opened yet.
Init ==
  /\ LogInit
  /\ present = {} /\ dpresent = {}
  /\ names = [dat |-> NoFile, prev |-> NoFile] /\ onDisk = {names}
  /\ tmp = NoFile
  /\ pc = "down"
  /\ snapIndex = 0
  /\ cut = [index |-> 0, boundary |-> 0]
  /\ prevBoundary = 0 /\ latestDamaged = FALSE
  /\ doomed = {}
  /\ crashes = 0 /\ damages = 0

-----------------------------------------------------------------------------
(* The writer, over the log.  The log lock is held while an append is in
   flight and while segments are removed. *)

\* A segment's creation is durable before the log uses it (module Wal).
SegmentsGrow ==
  /\ seg' <= MaxSeg
  /\ present' = present \cup {seg'}
  /\ dpresent' = dpresent \cup {seg'}

\* A group starts; its append may rotate.
WriterBegins ==
  /\ pc \in Running \ RemovePC
  /\ \E n \in 1..2 : Len(log) + n <= MaxRec /\ AppendBegin([i \in 1..n |-> Len(log) + i])
  /\ SegmentsGrow
  /\ UNCHANGED <<nameVars, ckptState, pc, snapIndex, cut, doomed, crashes, damages>>

\* It succeeds and is published, or fails.
WriterEnds ==
  /\ pc \in Running
  /\ \/ AppendOk /\ snapIndex' = Len(log')
     \/ (AppendRolledBack \/ AppendPoisoned) /\ UNCHANGED snapIndex
  /\ UNCHANGED <<segVars, nameVars, ckptState, pc, cut, doomed, crashes, damages>>

-----------------------------------------------------------------------------
(* Store::checkpoint *)

\* The exclusive instant: pin the snapshot and rotate (module GroupCommit).
CheckpointCut ==
  /\ pc = "idle"
  /\ RotateOk
  /\ SegmentsGrow
  /\ cut' = [index |-> snapIndex, boundary |-> seg']
  /\ pc' = "tmp"
  /\ UNCHANGED <<nameVars, ckptState, snapIndex, doomed, crashes, damages>>

\* The rotation fails.
CheckpointRefused ==
  /\ pc = "idle"
  /\ RotateFailed
  /\ UNCHANGED <<segVars, nameVars, ckptState, pc, snapIndex, cut, doomed, crashes, damages>>

\* A step of checkpoint::write.
WriteStep(from, to) ==
  /\ pc = from
  /\ pc' = to
  /\ UNCHANGED <<logVars, segVars, snapIndex, cut, crashes, damages>>

\* Stream the body to snap.tmp.
WriteBody ==
  /\ WriteStep("tmp", "sync")
  /\ tmp' = File("unsynced", cut.index)
  /\ UNCHANGED <<names, onDisk, ckptState, doomed>>

\* Mutant: snap.tmp is renamed without an fsync.
SyncTmpSkipped ==
  /\ WriteStep("sync", "demote")
  /\ UNCHANGED <<nameVars, ckptState, doomed>>

\* fsync it.
SyncTmp ==
  /\ WriteStep("sync", "demote")
  /\ tmp' = File("ok", tmp.index)
  /\ UNCHANGED <<names, onDisk, ckptState, doomed>>

\* The effect of one rename on the names: snap.dat moves to snap.prev, or
\* snap.tmp to snap.dat.
Renamed(n, r) ==
  IF r.to = "prev" THEN [dat |-> NoFile, prev |-> r.file] ELSE [n EXCEPT !.dat = r.file]

\* Until the directory is synced a power loss keeps any of the renames, in order.
Rename(r) ==
  /\ names' = Renamed(names, r)
  /\ onDisk' = onDisk \cup {Renamed(n, r) : n \in onDisk}

\* Replaced::Retain: keep the checkpoint being replaced as snap.prev.
RetainPrevious ==
  /\ WriteStep("demote", "publish")
  /\ IF ~latestDamaged /\ names.dat # NoFile
     THEN Rename([to |-> "prev", file |-> names.dat])
     ELSE UNCHANGED <<names, onDisk>>
  /\ UNCHANGED <<tmp, ckptState, doomed>>

\* snap.tmp becomes snap.dat.
PublishLatest ==
  /\ WriteStep("publish", "dirSync")
  /\ Rename([to |-> "dat", file |-> tmp])
  /\ tmp' = NoFile
  /\ UNCHANGED <<ckptState, doomed>>

\* Mutant: the boundary of this checkpoint, not of the one before.
RemovableTooSoon == {s \in present : s < cut.boundary /\ s # seg}

\* remove_segments_before(prev_boundary): older than the boundary, and not the
\* segment being appended to.
Removable == {s \in present : s < prevBoundary /\ s # seg}

\* The boundary the next checkpoint will use.
NextBoundary == cut.boundary

\* fsync the directory (which makes every entry durable); checkpoint takes
\* over: note the boundary for the next one and list the segments to remove.
SyncDir ==
  /\ pc = "dirSync"
  /\ tail = <<>> \/ poisoned
  /\ onDisk' = {names}
  /\ dpresent' = present
  /\ latestDamaged' = FALSE
  /\ prevBoundary' = NextBoundary
  /\ doomed' = Removable
  /\ pc' = IF doomed' = {} THEN "idle" ELSE "remove"
  /\ UNCHANGED <<logVars, present, names, tmp, snapIndex, cut, crashes, damages>>

\* remove_segments_before: oldest first ...
RemoveSegment ==
  /\ pc = "remove"
  /\ \E s \in doomed :
       /\ \A t \in doomed : s <= t
       /\ present' = present \ {s}
       /\ doomed' = doomed \ {s}
  /\ pc' = IF doomed' = {} THEN "removeSync" ELSE "remove"
  /\ UNCHANGED <<logVars, dpresent, nameVars, ckptState, snapIndex, cut, crashes, damages>>

\* ... then fsync the directory.
SyncRemoval ==
  /\ pc = "removeSync"
  /\ dpresent' = present
  /\ pc' = "idle"
  /\ UNCHANGED <<logVars, present, nameVars, ckptState, snapIndex, cut, doomed, crashes, damages>>

\* Any call fails and the checkpoint returns its error, leaving what it did.
CheckpointError ==
  /\ pc \in WritePC \cup RemovePC
  /\ pc' = "idle"
  /\ doomed' = {}
  /\ UNCHANGED <<logVars, segVars, nameVars, ckptState, snapIndex, cut, crashes, damages>>

-----------------------------------------------------------------------------
(* Crashes and damage *)

\* What power loss may leave of a file.
Survives(f) == IF f.kind = "unsynced" THEN {File("ok", f.index), DamagedFile} ELSE {f}

PowerLoss ==
  /\ \E n \in onDisk : \E d \in Survives(n.dat), p \in Survives(n.prev) :
       names' = [dat |-> d, prev |-> p]
  /\ onDisk' = {names'}
  /\ present' \in {s \in SUBSET (present \cup dpresent) : present \cap dpresent \subseteq s}
  /\ dpresent' = present'

\* The process ends, or the machine does.
Crash ==
  /\ crashes < MaxCrash
  /\ pc \in Running
  /\ crashes' = crashes + 1
  /\ UNCHANGED <<names, onDisk, segVars>> \/ PowerLoss
  /\ tmp' = NoFile
  /\ pc' = "down"
  /\ doomed' = {}
  /\ UNCHANGED <<logVars, ckptState, snapIndex, cut, damages>>

\* snap.dat is found damaged when the store is next opened.
Damage ==
  /\ pc = "down"
  /\ damages < MaxDamage
  /\ names.dat.kind = "ok"
  /\ damages' = damages + 1
  /\ names' = [names EXCEPT !.dat = DamagedFile]
  /\ onDisk' = {names'}
  /\ UNCHANGED <<logVars, segVars, tmp, ckptState, pc, snapIndex, cut, doomed, crashes>>

-----------------------------------------------------------------------------
(* Store::open_with *)

\* checkpoint::load: the latest file, else the previous one.
LoadRefuses ==
  IF names.dat.kind = "damaged" THEN ~Usable(names.prev)
  ELSE names.dat.kind = "none" /\ names.prev.kind = "damaged"
Loaded == IF Usable(names.dat) THEN names.dat ELSE names.prev

\* replay and its sink: skip what the checkpoint covers, then insist that the
\* index goes on without a gap; note the first segment with a new record.
Replay(base, recs, segs) ==
  LET acc[i \in 0..Len(recs)] ==
        IF i = 0 THEN [last |-> base, first |-> 0, refused |-> FALSE]
        ELSE LET a == acc[i - 1] IN
             IF segs[i] \notin present \/ a.refused \/ (recs[i] <= a.last /\ a.last = base) THEN a
             ELSE IF recs[i] # a.last + 1 THEN [a EXCEPT !.refused = TRUE]
             ELSE [last |-> recs[i], first |-> IF a.first = 0 THEN segs[i] ELSE a.first,
                   refused |-> FALSE]
  IN  acc[Len(recs)]

\* Load, replay, resume the log (Wal::open), publish.
Open ==
  /\ pc = "down"
  /\ Reopen
  /\ SegmentsGrow
  /\ IF LoadRefuses
     THEN pc' = "refused" /\ UNCHANGED <<snapIndex, ckptState>>
     ELSE LET r == Replay(Loaded.index, log', segOf') IN
          /\ pc' = IF r.refused THEN "refused" ELSE "idle"
          /\ snapIndex' = r.last
          /\ prevBoundary' = IF r.first = 0 THEN seg' ELSE r.first
          /\ latestDamaged' = (names.dat.kind = "damaged")
  /\ UNCHANGED <<nameVars, cut, doomed, crashes, damages>>

Next ==
  \/ WriterBegins \/ WriterEnds
  \/ CheckpointCut \/ CheckpointRefused \/ WriteBody \/ SyncTmp \/ RetainPrevious \/ PublishLatest
  \/ SyncDir \/ RemoveSegment \/ SyncRemoval \/ CheckpointError
  \/ Crash \/ Damage \/ Open

Spec == Init /\ [][Next]_vars

-----------------------------------------------------------------------------
(* Properties *)

\* Every open that succeeds recovers every acknowledged commit, and nothing
\* is lost while the store runs.
RecoversEverything == pc \in Running => snapIndex = Len(log)

\* Open refuses the store only when snap.dat was damaged while the store was
\* down and there was no snap.prev to fall back on: no crash, failed call or
\* fall-back leads to a missing record or to no usable checkpoint.
RefusesOnlyLoneDamage ==
  pc = "refused" => damages > 0 /\ names.dat.kind = "damaged" /\ names.prev = NoFile

\* "A fall-back to snap.prev always has a complete log to replay": whatever
\* generation is on disk, seen or synced, every record newer than it is in a
\* segment that is on disk, seen and synced; and what prev_boundary promises:
\* those newer than the checkpoint that the next one will leave as snap.prev
\* live at or above it.
FallBackHasLog ==
  /\ \A n \in onDisk \cup {names} : \A f \in {n.dat, n.prev} : Usable(f) =>
       \A i \in 1..Len(log) : i > f.index => segOf[i] \in present \cap dpresent
  /\ pc = "idle" =>
       LET next == IF latestDamaged \/ names.dat = NoFile THEN names.prev ELSE names.dat IN
       \A i \in 1..Len(log) : i > next.index => segOf[i] >= prevBoundary

=============================================================================
