----------------------------- MODULE ValueStore -----------------------------
(***************************************************************************)
(* The off-heap value store: src/valuestore.rs.  One process puts and      *)
(* compacts under the store's lock; what is modelled step by step is the   *)
(* file: what was written, what is durable, and which inode the durable    *)
(* directory names after a rename.                                         *)
(*                                                                         *)
(* A record is [id, blob]; the blob of a fence is the id high-water mark,  *)
(* that of any other record a number no other put shares.  Torn stands     *)
(* for a record cut short, Rotten for one the medium has damaged since.    *)
(* An offset is the position of a record; blobs are of one length.         *)
(***************************************************************************)
EXTENDS Naturals, Sequences, FiniteSets

CONSTANTS
  FenceId,    \* BlobId::MAX, the id no blob gets
  MaxPuts, MaxCompact, MaxCrash, MaxRot

ASSUME ValueAssumption == FenceId \in Nat \ {0} /\ {MaxPuts, MaxCompact, MaxCrash, MaxRot} \subseteq Nat

VARIABLES
  file,      \* the log as the process sees it
  sure,      \* what of it survives a power failure for certain ...
  maybe,     \* ... and what may follow that, in whole or in part
  behind,    \* older logs the durable directory may still name
  pc,
  index, nextId, end, poisoned,   \* Inner
  puts, compactions, crashes, rots,
  issued,    \* the handles put returned
  shaky,     \* those returned while an unsynced rename was behind them
  dropped,   \* the blobs a compaction was told are not live
  damaged    \* the blobs that rotted, or that open cut off with a rotten record

vars == <<file, sure, maybe, behind, pc, index, nextId, end, poisoned, puts, compactions, crashes, rots,
          issued, shaky, dropped, damaged>>
memory == <<index, nextId, end, poisoned>>
counters == <<puts, compactions, crashes, rots>>
disk == <<file, sure, maybe, behind>>
ghosts == <<issued, shaky, dropped, damaged>>

Torn == [id |-> FenceId, blob |-> FenceId + 1]
Rotten == [id |-> FenceId, blob |-> FenceId + 2]
Init ==
  /\ file = <<>> /\ sure = <<>> /\ maybe = <<>> /\ behind = {}
  /\ pc = "idle" /\ index = {} /\ nextId = 0 /\ end = 0 /\ poisoned = FALSE
  /\ puts = 0 /\ compactions = 0 /\ crashes = 0 /\ rots = 0
  /\ issued = {} /\ shaky = {} /\ dropped = {} /\ damaged = {}

Elems(s) == {s[i] : i \in DOMAIN s}

\* scan_records: the records before the first that is not whole.
Intact(s) ==
  LET stop == {i \in DOMAIN s : s[i] \in {Torn, Rotten}} IN
  IF stop = {} THEN s ELSE SubSeq(s, 1, (CHOOSE i \in stop : \A j \in stop : i <= j) - 1)

\* The index of a log: where the record of each id is.
IndexOf(s) == {[id |-> s[i].id, at |-> i] : i \in {j \in DOMAIN s : s[j].id # FenceId}}

NoBlob == 0

\* get: the record the index has for the id, if it is whole and of that id.
Get(h) ==
  LET hits == {e \in index : e.id = h.id} IN
  IF hits = {} THEN NoBlob
  ELSE LET rec == file[(CHOOSE e \in hits : TRUE).at] IN
       IF rec.id = h.id THEN rec.blob ELSE NoBlob

-----------------------------------------------------------------------------
(* put *)

\* The record is written, in part if the write fails.
PutWrite(w) ==
  /\ pc = "idle" /\ ~poisoned /\ nextId # FenceId /\ puts < MaxPuts
  /\ puts' = puts + 1
  /\ LET rec == [id |-> nextId, blob |-> puts + 1]
         out == CASE w = "all" -> <<rec>> [] w = "part" -> <<Torn>> [] w = "nothing" -> <<>>
     IN  file' = file \o out /\ maybe' = maybe \o out
  /\ pc' = IF w = "all" THEN "sync" ELSE "roll_back"
  /\ UNCHANGED <<sure, behind, memory, compactions, crashes, rots, ghosts>>

\* The sync succeeds: the handle is returned.
SyncOk ==
  LET rec == file[Len(file)] IN
  /\ pc = "sync"
  /\ sure' = file /\ maybe' = <<>>
  /\ end' = Len(file) /\ nextId' = nextId + 1 /\ index' = index \cup {[id |-> nextId, at |-> Len(file)]}
  /\ issued' = issued \cup {rec}
  /\ shaky' = IF behind = {} THEN shaky ELSE shaky \cup {rec}
  /\ pc' = "idle"
  /\ UNCHANGED <<file, behind, poisoned, counters, dropped, damaged>>

SyncFails ==
  /\ pc = "sync" /\ pc' = "roll_back"
  /\ UNCHANGED <<disk, memory, counters, ghosts>>

\* Mutant: a failed append is left in the log.
RollBackSkipped ==
  /\ pc = "roll_back" /\ pc' = "idle"
  /\ UNCHANGED <<disk, memory, counters, ghosts>>

\* roll_back: cut the log to its last intact record and sync the cut ...
RollBack ==
  /\ pc = "roll_back" /\ pc' = "idle"
  /\ file' = SubSeq(file, 1, end) /\ sure' = SubSeq(file, 1, end) /\ maybe' = <<>>
  /\ UNCHANGED <<behind, memory, counters, ghosts>>

\* ... or poison the store, the cut made or not.
RollBackFails ==
  /\ pc = "roll_back" /\ pc' = "idle"
  /\ poisoned' = TRUE
  /\ file' \in {file, SubSeq(file, 1, end)}
  /\ UNCHANGED <<sure, maybe, behind, index, nextId, end, counters, ghosts>>

-----------------------------------------------------------------------------
(* compact *)

\* The records of the live blobs, in their order.
LiveRecords(live) ==
  LET kept[i \in 0..Len(file)] ==
        IF i = 0 THEN <<>>
        ELSE IF file[i].id # FenceId /\ file[i].id \in live THEN Append(kept[i - 1], file[i])
        ELSE kept[i - 1]
  IN  kept[Len(file)]

\* Mutant: the compacted log ends without a fence.
CompactedUnfenced(live) == LiveRecords(live)

\* The live records, then the fence.
Compacted(live) == Append(LiveRecords(live), [id |-> FenceId, blob |-> nextId])

\* A log that is damaged before its end is refused.  Else the new log is
\* written, synced and renamed over the old one.  An error before the rename
\* leaves the store as it was.
Compact(live) ==
  /\ pc = "idle" /\ ~poisoned /\ compactions < MaxCompact
  /\ Len(Intact(file)) = end
  /\ compactions' = compactions + 1
  /\ file' = Compacted(live) /\ sure' = Compacted(live) /\ maybe' = <<>>
  /\ behind' = behind \cup {[sure |-> sure, maybe |-> maybe]}
  /\ index' = IndexOf(file') /\ end' = Len(Compacted(live))
  /\ dropped' = dropped \cup {file[e.at] : e \in {f \in index : f.id \notin live}}
  /\ pc' = "sync_dir"
  /\ UNCHANGED <<nextId, poisoned, puts, crashes, rots, issued, shaky, damaged>>

SyncDirOk ==
  /\ pc = "sync_dir" /\ pc' = "idle"
  /\ behind' = {}
  /\ UNCHANGED <<file, sure, maybe, memory, counters, ghosts>>

\* compact returns the error; the store goes on with the new log.
SyncDirFails ==
  /\ pc = "sync_dir" /\ pc' = "idle"
  /\ UNCHANGED <<disk, memory, counters, ghosts>>

-----------------------------------------------------------------------------
(* Crashes and open *)

\* What the process had in memory is gone.
Closed ==
  /\ pc # "closed" /\ crashes < MaxCrash
  /\ pc' = "closed" /\ crashes' = crashes + 1
  /\ index' = {} /\ nextId' = 0 /\ end' = 0 /\ poisoned' = FALSE
  /\ UNCHANGED <<puts, compactions, rots, ghosts>>

\* The process dies: what it wrote stays.
Exit == Closed /\ UNCHANGED disk

\* The machine loses power: some log the durable directory may name is left,
\* with what was synced and some of what was not.
PowerLoss ==
  /\ Closed
  /\ \E b \in behind \cup {[sure |-> sure, maybe |-> maybe]} :
     \E n \in 0..Len(b.maybe), torn \in {<<>>, <<Torn>>} :
       /\ torn # <<>> => n < Len(b.maybe)
       /\ file' = b.sure \o SubSeq(b.maybe, 1, n) \o torn
  /\ sure' = file' /\ maybe' = <<>> /\ behind' = {}

\* One above the highest id in the log, and no lower than any fence.
NextId(s) ==
  LET marks == {IF r.id = FenceId THEN r.blob ELSE r.id + 1 : r \in Elems(s)} \cup {0}
  IN  CHOOSE m \in marks : \A o \in marks : o <= m

\* open: rebuild the index, cut a torn tail and sync the cut.
Open ==
  LET log == Intact(file) IN
  /\ pc = "closed" /\ pc' = "idle"
  /\ index' = IndexOf(log)
  /\ nextId' = NextId(log) /\ end' = Len(log) /\ poisoned' = FALSE
  /\ file' = log
  /\ IF log = file THEN UNCHANGED <<sure, maybe>> ELSE sure' = log /\ maybe' = <<>>
  /\ damaged' = IF Rotten \in Elems(file) THEN damaged \cup {h \in issued : h.id >= nextId'}
                ELSE damaged
  /\ UNCHANGED <<behind, counters, issued, shaky, dropped>>

\* The medium damages a record that was durable.
Rot(i) ==
  /\ rots < MaxRot /\ rots' = rots + 1
  /\ i \in DOMAIN sure /\ i \in DOMAIN file
  /\ file' = [file EXCEPT ![i] = Rotten] /\ sure' = [sure EXCEPT ![i] = Rotten]
  /\ damaged' = damaged \cup ({file[i]} \cap issued)
  /\ UNCHANGED <<maybe, behind, pc, memory, puts, compactions, crashes, issued, shaky, dropped>>

Next ==
  \/ \E w \in {"all", "part", "nothing"} : PutWrite(w)
  \/ SyncOk \/ SyncFails \/ RollBack \/ RollBackFails
  \/ \E live \in SUBSET {e.id : e \in index} : Compact(live)
  \/ SyncDirOk \/ SyncDirFails
  \/ Exit \/ PowerLoss \/ Open
  \/ \E i \in DOMAIN file : Rot(i)

Spec == Init /\ [][Next]_vars

-----------------------------------------------------------------------------
(* Properties *)

\* A handle reads its own blob or nothing, across failed puts, compactions,
\* damage, crashes and reopens: no later put inherits the id of a handle that
\* was returned while the directory was synced.  (Unless open cut off the
\* handle's record, or the fence behind it, with a record that had rotted.)
HandleReadsItsBlob ==
  \A h \in issued \ (shaky \cup damaged) : Get(h) \in {NoBlob, h.blob}

\* Such a handle stays readable until a compaction is told that its blob is not
\* live: also when another record rots, which compact then refuses to copy.
HandleSurvives ==
  pc # "closed" => \A h \in issued \ (shaky \cup dropped \cup damaged) : Get(h) = h.blob

\* "The record is fsync'd before the id is handed out, so a returned handle is
\* durable": every handle returned and not compacted away is found by open.
ReturnedIsDurable == pc # "closed" => \A h \in issued \ dropped : Get(h) = h.blob

=============================================================================
