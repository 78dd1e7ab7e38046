-------------------------------- MODULE Wal --------------------------------
(***************************************************************************)
(* The write-ahead log of src/wal.rs at the level of the file system calls *)
(* it makes: segments are files whose contents and directory entries       *)
(* become durable only when they are synced.  Appends, rollbacks,          *)
(* rotations and their failures, the end of the process at any step, power *)
(* loss at any step, and Wal::open with its tail repair.                   *)
(*                                                                         *)
(* A segment's contents are a sequence of blocks: the header Hdr, a record *)
(* (numbered 1, 2, ... in the order the engine offers them) or Bad, a      *)
(* block that is cut short or fails its CRC.  Lengths and offsets count    *)
(* blocks.  Wal's methods run under the WAL mutex: one call at a time.     *)
(***************************************************************************)
EXTENDS Integers, Sequences, FiniteSets

CONSTANTS
  MaxSeg,     \* the largest segment number (u32::MAX in the code)
  MaxLen,     \* Wal::max_seg_bytes, in blocks, header included
  MaxGroup,   \* bound on the records of one append
  MaxRec,     \* bound on the records offered
  MaxCrash,   \* bound on the number of crashes
  Settings    \* what kinds of crash may happen together in one behaviour:
              \* "exit", the process ends; "power", the machine does

ASSUME WalAssumption ==
  /\ {MaxSeg, MaxLen, MaxGroup, MaxRec, MaxCrash} \subseteq Nat \ {0}
  /\ Settings \subseteq SUBSET {"exit", "power"}

VARIABLES
  dir, ddir,         \* the directory as the process sees it; as last synced
  live, sure, maybe, \* each file as seen; as last synced; what writes since may add
  pc,                \* the step the running call is at
  segSeq, segLen,    \* Wal::seg_seq and Wal::seg_bytes
  buf,               \* the records of the running append
  rotating,          \* who called rotate_segment: "append" or "engine"
  poisoned,          \* Wal::poisoned is Some
  log, segOf, tail,  \* the records acknowledged or recovered, their segments,
                     \* and the records written but in neither state
  offered, crashes,
  kinds,             \* the kinds of crash of this behaviour
  resumed,           \* has the segment not been synced since open found it unsynced?
  exposed            \* has the power gone while it had not?

fileVars == <<dir, ddir, live, sure, maybe>>
walVars == <<segSeq, segLen, poisoned>>
logVars == <<log, segOf, tail>>
logView == <<log, segOf, segSeq, tail, poisoned>>
world == <<kinds, exposed>>
vars == <<fileVars, walVars, logVars, pc, buf, rotating, offered, crashes, world, resumed>>

Seg == 1..MaxSeg
Hdr == 0
Bad == -1
Rec == 1..MaxRec
Block == {Hdr, Bad} \cup Rec

OpenPC == {"openCut", "openCutSync", "openCreate", "openHeader", "openHdrSync", "openDir"}
WritePC == {"write", "writing", "sync", "cut", "cutSync"}
RotatePC == {"rotSync", "rotCreate", "rotHeader", "rotHdrSync", "rotRemove", "rotRemoveSync", "rotDir"}
PC == OpenPC \cup WritePC \cup RotatePC \cup {"down", "ready", "refused"}

TypeOK ==
  /\ dir \subseteq Seg /\ ddir \subseteq Seg
  /\ live \in [Seg -> Seq(Block)] /\ sure \in [Seg -> Seq(Block)] /\ maybe \in [Seg -> Seq(Block)]
  /\ pc \in PC
  /\ segSeq \in Seg /\ segLen \in Nat
  /\ buf \in Seq(Rec) /\ tail \in Seq(Rec)
  /\ rotating \in {"append", "engine"}
  /\ poisoned \in BOOLEAN
  /\ log \in Seq(Rec) /\ segOf \in Seq(Seg)
  /\ offered \in 0..MaxRec /\ crashes \in 0..MaxCrash
  /\ kinds \in Settings /\ resumed \in BOOLEAN /\ exposed \in BOOLEAN

Init ==
  /\ dir = {} /\ ddir = {}
  /\ live = [s \in Seg |-> <<>>] /\ sure = live /\ maybe = live
  /\ pc = "down"
  /\ segSeq = 1 /\ segLen = 0
  /\ buf = <<>> /\ rotating = "engine" /\ poisoned = FALSE
  /\ log = <<>> /\ segOf = <<>> /\ tail = <<>>
  /\ offered = 0 /\ crashes = 0
  /\ kinds \in Settings /\ resumed = FALSE /\ exposed = FALSE

Prefixes(s) == {SubSeq(s, 1, n) : n \in 0..Len(s)}

-----------------------------------------------------------------------------
(* The file system *)

\* What interrupted or unsynced writes of s may leave: any prefix, with any
\* of its blocks damaged.
Damaged(s) ==
  UNION {{[i \in 1..n |-> IF i \in hit THEN Bad ELSE s[i]] : hit \in SUBSET (1..n)} : n \in 0..Len(s)}

\* A write that stops part way: whole blocks, then perhaps a piece of one.
Partial(s) ==
  Prefixes(s) \cup {Append(p, Bad) : p \in Prefixes(s) \ {s}}

\* What of s was written since the last sync.
Written(s) == SubSeq(live[s], Len(sure[s]) + 1, Len(live[s]))

\* Write w at the end of s, as far as part.
WriteTo(s, w, part) ==
  /\ live' = [live EXCEPT ![s] = @ \o part]
  /\ maybe' = [maybe EXCEPT ![s] = Written(s) \o w]

SyncFile(s) ==
  /\ sure' = [sure EXCEPT ![s] = live[s]]
  /\ maybe' = [maybe EXCEPT ![s] = <<>>]

SetLen(s, n) == live' = [live EXCEPT ![s] = SubSeq(@, 1, n)]

\* What power loss may leave of file s.
AfterPower(s) == {sure[s] \o d : d \in Damaged(maybe[s])} \cup {live[s]}

\* What it may leave of files 1..n, each file for itself.
Left[n \in 0..MaxSeg] ==
  IF n = 0 THEN {<<>>} ELSE UNION {{Append(f, c) : c \in AfterPower(n)} : f \in Left[n - 1]}

\* Power loss: unsynced contents and directory entries may or may not have
\* reached the disk, each file and each entry for itself.
PowerLoss ==
  /\ dir' \in {d \in SUBSET (dir \cup ddir) : dir \cap ddir \subseteq d}
  /\ ddir' = dir'
  /\ \E left \in Left[MaxSeg] : live' = [s \in Seg |-> IF s \in dir' THEN left[s] ELSE <<>>]
  /\ sure' = live'
  /\ maybe' = [s \in Seg |-> <<>>]

-----------------------------------------------------------------------------
(* append_many *)

\* check_usable, then rotate first if the group would overflow a segment that
\* already holds records.
AppendMany ==
  /\ pc = "ready" /\ ~poisoned
  /\ \E n \in 1..MaxGroup :
       /\ offered + n <= MaxRec
       /\ offered' = offered + n
       /\ buf' = [i \in 1..n |-> offered + i]
       /\ pc' = IF segLen + n > MaxLen /\ segLen > 1 THEN "rotSync" ELSE "write"
  /\ rotating' = "append"
  /\ UNCHANGED <<fileVars, walVars, logVars, crashes, world>>

\* write_all has written part of the group.
WriteSome ==
  /\ pc = "write"
  /\ \E part \in Partial(buf) : WriteTo(segSeq, buf, part)
  /\ tail' = buf
  /\ pc' = "writing"
  /\ UNCHANGED <<dir, ddir, sure, walVars, log, segOf, buf, rotating, offered, crashes, world>>

\* write_all has written all of it.
WriteAll ==
  /\ pc = "writing"
  /\ live' = [live EXCEPT ![segSeq] = SubSeq(@, 1, segLen) \o buf]
  /\ pc' = "sync"
  /\ UNCHANGED <<dir, ddir, sure, maybe, walVars, logVars, buf, rotating, offered, crashes, world>>

\* sync_all succeeded: the group is durable and acknowledged.
SyncOk ==
  /\ pc = "sync"
  /\ SyncFile(segSeq)
  /\ segLen' = segLen + Len(buf)
  /\ log' = log \o tail
  /\ segOf' = segOf \o [i \in 1..Len(tail) |-> segSeq]
  /\ tail' = <<>> /\ buf' = <<>>
  /\ pc' = "ready"
  /\ UNCHANGED <<dir, ddir, live, segSeq, poisoned, rotating, offered, crashes, world>>

\* The write or the sync failed: roll back.
AppendError ==
  /\ pc \in {"writing", "sync"}
  /\ pc' = "cut"
  /\ UNCHANGED <<fileVars, walVars, logVars, buf, rotating, offered, crashes, world>>

\* Mutant: the failed group stays in the segment.
CutSkipped ==
  /\ pc = "cut"
  /\ pc' = "cutSync"
  /\ UNCHANGED <<fileVars, walVars, logVars, buf, rotating, offered, crashes, world>>

\* roll_back: set_len to the end of the last durable record ...
Cut ==
  /\ pc = "cut"
  /\ SetLen(segSeq, segLen)
  /\ pc' = "cutSync"
  /\ UNCHANGED <<dir, ddir, sure, maybe, walVars, logVars, buf, rotating, offered, crashes, world>>

\* ... and sync_all.
CutSync ==
  /\ pc = "cutSync"
  /\ SyncFile(segSeq)
  /\ tail' = <<>> /\ buf' = <<>>
  /\ pc' = "ready"
  /\ UNCHANGED <<dir, ddir, live, walVars, log, segOf, rotating, offered, crashes, world>>

\* Either of them fails: poisoned.
CutError ==
  /\ pc \in {"cut", "cutSync"}
  /\ poisoned' = TRUE
  /\ buf' = <<>>
  /\ pc' = "ready"
  /\ UNCHANGED <<fileVars, segSeq, segLen, logVars, rotating, offered, crashes, world>>

-----------------------------------------------------------------------------
(* rotate_segment *)

\* The engine's call, for a checkpoint.
RotateSegment ==
  /\ pc = "ready" /\ ~poisoned
  /\ rotating' = "engine"
  /\ pc' = "rotSync"
  /\ UNCHANGED <<fileVars, walVars, logVars, buf, offered, crashes, world>>

\* The call ends with an error, poisoning the log or not; an append that
\* asked for the rotation ends with it.
RotateFails(poison) ==
  /\ poisoned' = poison
  /\ buf' = <<>>
  /\ pc' = "ready"
  /\ UNCHANGED <<segSeq, segLen, logVars, rotating, offered, crashes, world>>

\* A step of the rotation succeeds.
RotateTo(where) ==
  /\ pc' = where
  /\ UNCHANGED <<walVars, logVars, buf, rotating, offered, crashes, world>>

\* self.file.sync_all, and checked_add on the segment number.
RotateSync ==
  /\ pc = "rotSync"
  /\ \/ SyncFile(segSeq) /\ segSeq < MaxSeg /\ RotateTo("rotCreate")
     \/ SyncFile(segSeq) /\ segSeq = MaxSeg /\ RotateFails(FALSE)
     \/ UNCHANGED <<sure, maybe>> /\ RotateFails(FALSE)
  /\ UNCHANGED <<dir, ddir, live>>

\* create_new.  A failure that finds the name taken, by a file that was there
\* or by a create that did succeed, poisons the log.
RotateCreate ==
  LET next == segSeq + 1
      created == /\ dir' = dir \cup {next}
                 /\ live' = [live EXCEPT ![next] = <<>>]
                 /\ sure' = [sure EXCEPT ![next] = <<>>]
                 /\ maybe' = [maybe EXCEPT ![next] = <<>>]
                 /\ UNCHANGED ddir
  IN
  /\ pc = "rotCreate"
  /\ \/ next \notin dir /\ created /\ RotateTo("rotHeader")
     \/ next \notin dir /\ created /\ RotateFails(TRUE)
     \/ UNCHANGED fileVars /\ RotateFails(next \in dir)

\* Write the header.
RotateHeader ==
  /\ pc = "rotHeader"
  /\ \/ WriteTo(segSeq + 1, <<Hdr>>, <<Hdr>>) /\ RotateTo("rotHdrSync")
     \/ \E part \in Partial(<<Hdr>>) : WriteTo(segSeq + 1, <<Hdr>>, part) /\ RotateTo("rotRemove")
  /\ UNCHANGED <<dir, ddir, sure>>

\* Sync the header.
RotateHdrSync ==
  /\ pc = "rotHdrSync"
  /\ \/ SyncFile(segSeq + 1) /\ RotateTo("rotDir")
     \/ UNCHANGED <<sure, maybe>> /\ RotateTo("rotRemove")
  /\ UNCHANGED <<dir, ddir, live>>

\* Mutant: a half-born segment that stays does not poison the log.
RotateRemoveUnpoisoned ==
  /\ pc = "rotRemove"
  /\ \/ dir' = dir \ {segSeq + 1} /\ RotateTo("rotRemoveSync")
     \/ UNCHANGED dir /\ RotateFails(FALSE)
  /\ UNCHANGED <<ddir, live, sure, maybe>>

\* Remove the half-born segment ...
RotateRemove ==
  /\ pc = "rotRemove"
  /\ \/ dir' = dir \ {segSeq + 1} /\ RotateTo("rotRemoveSync")
     \/ UNCHANGED dir /\ RotateFails(TRUE)
  /\ UNCHANGED <<ddir, live, sure, maybe>>

\* ... and sync the directory.
RotateRemoveSync ==
  /\ pc = "rotRemoveSync"
  /\ \/ ddir' = dir /\ RotateFails(FALSE)
     \/ UNCHANGED ddir /\ RotateFails(TRUE)
  /\ UNCHANGED <<dir, live, sure, maybe>>

\* Sync the directory, then switch; an append goes on in the new segment.
RotateDir ==
  /\ pc = "rotDir"
  /\ \/ /\ ddir' = dir
        /\ segSeq' = segSeq + 1
        /\ segLen' = 1
        /\ pc' = IF rotating = "append" THEN "write" ELSE "ready"
        /\ UNCHANGED <<poisoned, logVars, buf, rotating, offered, crashes, world>>
     \/ UNCHANGED ddir /\ RotateFails(TRUE)
  /\ UNCHANGED <<dir, live, sure, maybe>>

-----------------------------------------------------------------------------
(* Wal::open and replay *)

\* scan_segment: where the first torn block begins (counted from 0), or the
\* length of the segment if it ends cleanly.  A header alone and torn is a
\* creation cut short; a torn header in front of records is corruption.
NoHeader(f) == f = <<>> \/ f = <<Bad>>
Corrupt(f) == Len(f) > 1 /\ f[1] # Hdr
Intact(f) ==
  IF NoHeader(f) THEN 0
  ELSE CHOOSE n \in 0..Len(f) :
         /\ \A i \in 1..n : f[i] # Bad
         /\ n < Len(f) => f[n + 1] = Bad
Torn(f) == NoHeader(f) \/ Intact(f) < Len(f)

MaxOf(S) == CHOOSE s \in S : \A t \in S : t <= s
Last == IF dir = {} THEN 1 ELSE MaxOf(dir)

\* replay refuses damage anywhere but in the last segment's tail.
ReplayRefuses ==
  \E s \in dir : Corrupt(live[s]) \/ (s # Last /\ Torn(live[s]))

\* The records replay hands out, and their segments, over segments 1..n.
Replayed[n \in 0..MaxSeg] ==
  IF n = 0 THEN <<>>
  ELSE IF n \notin dir THEN Replayed[n - 1]
  ELSE Replayed[n - 1] \o SubSeq(live[n], 2, Intact(live[n]))
ReplayedFrom[n \in 0..MaxSeg] ==
  IF n = 0 THEN <<>>
  ELSE IF n \notin dir THEN ReplayedFrom[n - 1]
  ELSE ReplayedFrom[n - 1] \o [i \in 1..(IF Intact(live[n]) = 0 THEN 0 ELSE Intact(live[n]) - 1) |-> n]

OpenTo(where) ==
  /\ pc' = where
  /\ UNCHANGED <<walVars, logVars, buf, rotating, offered, crashes, world>>

\* replay, then pick the segment to resume.
OpenScan ==
  /\ pc = "down"
  /\ OpenTo(CASE ReplayRefuses -> "refused"
              [] ~ReplayRefuses /\ dir = {} -> "openCreate"
              [] ~ReplayRefuses /\ dir # {} /\ Torn(live[Last]) -> "openCut"
              [] OTHER -> "openDir")
  /\ UNCHANGED fileVars

\* repair_tail: set_len at the first torn block ...
OpenCut ==
  /\ pc = "openCut"
  /\ SetLen(Last, Intact(live[Last]))
  /\ OpenTo("openCutSync")
  /\ UNCHANGED <<dir, ddir, sure, maybe>>

\* ... and sync_all.
OpenCutSync ==
  /\ pc = "openCutSync"
  /\ SyncFile(Last)
  /\ OpenTo(IF live[Last] = <<>> THEN "openHeader" ELSE "openDir")
  /\ UNCHANGED <<dir, ddir, live>>

\* Create the first segment.
OpenCreate ==
  /\ pc = "openCreate"
  /\ dir' = {1}
  /\ OpenTo("openHeader")
  /\ UNCHANGED <<ddir, live, sure, maybe>>

\* An empty segment is given its header ...
OpenHeader ==
  /\ pc = "openHeader"
  /\ WriteTo(Last, <<Hdr>>, <<Hdr>>)
  /\ OpenTo("openHdrSync")
  /\ UNCHANGED <<dir, ddir, sure>>

\* ... and synced.
OpenHdrSync ==
  /\ pc = "openHdrSync"
  /\ SyncFile(Last)
  /\ OpenTo("openDir")
  /\ UNCHANGED <<dir, ddir, live>>

\* Sync the directory: the log is open, what replay found is handed out.
OpenDir ==
  /\ pc = "openDir"
  /\ ddir' = dir
  /\ segSeq' = Last
  /\ segLen' = Len(live[Last])
  /\ poisoned' = FALSE
  /\ log' = Replayed[MaxSeg]
  /\ segOf' = ReplayedFrom[MaxSeg]
  /\ tail' = <<>> /\ buf' = <<>>
  /\ pc' = "ready"
  /\ UNCHANGED <<dir, live, sure, maybe, rotating, offered, crashes, world>>

-----------------------------------------------------------------------------

\* The process ends (killed, the store is dropped, or an open fails on an I/O
\* error), or the machine does.  Its memory is gone; walVars and logVars keep
\* the last values they had.  What a write in progress had not written yet is
\* never written; nothing that an earlier process left unsynced is forgotten.
Crash ==
  /\ crashes < MaxCrash
  /\ pc # "refused"
  /\ crashes' = crashes + 1
  /\ \/ /\ "exit" \in kinds
        /\ maybe' = IF pc = "writing" /\ ~resumed
                    THEN [maybe EXCEPT ![segSeq] = SubSeq(live[segSeq], segLen + 1, Len(live[segSeq]))]
                    ELSE maybe
        /\ UNCHANGED <<dir, ddir, live, sure, exposed>>
     \/ "power" \in kinds /\ PowerLoss /\ exposed' = (exposed \/ resumed)
  /\ pc' = "down"
  /\ UNCHANGED <<walVars, logVars, buf, rotating, offered, kinds>>

Step ==
  \/ AppendMany \/ WriteSome \/ WriteAll \/ SyncOk \/ AppendError \/ Cut \/ CutSync \/ CutError
  \/ RotateSegment \/ RotateSync \/ RotateCreate \/ RotateHeader \/ RotateHdrSync
  \/ RotateRemove \/ RotateRemoveSync \/ RotateDir
  \/ OpenScan \/ OpenCut \/ OpenCutSync \/ OpenCreate \/ OpenHeader \/ OpenHdrSync \/ OpenDir
  \/ Crash

\* open resumes a segment whose blocks, or whose last truncation, the process
\* before it may not have synced, and does not sync them: the next sync does.
Next ==
  /\ Step
  /\ resumed' = IF pc = "openDir" /\ pc' = "ready" THEN maybe[Last] # <<>>
                ELSE resumed /\ maybe'[segSeq'] # <<>>

Spec == Init /\ [][Next]_vars

-----------------------------------------------------------------------------
(* Properties *)

\* No crash makes recovery refuse the log: only the last segment is ever
\* torn, and no bad header ever stands in front of records.  (Unless the power
\* went after an open found blocks the process before it had not synced, and
\* before the next sync.)
CrashIsNotCorruption == pc = "refused" => exposed

\* Every append starts on a clean boundary in the newest segment: what precedes
\* it is the header and the acknowledged records, with nothing after them that
\* a failed append left behind; and while the log takes appends no newer
\* segment is beside the current one, nor would power loss bring one back, even
\* after a rotation failed ("no newer segment may exist beside the one being
\* appended to").
CleanBoundary ==
  /\ pc \in WritePC \cup {"ready"} /\ ~poisoned => \A s \in dir \cup ddir : s <= segSeq
  /\ pc = "write" =>
       /\ Len(live[segSeq]) = segLen
       /\ \E n \in 0..Len(log) :
            /\ \A i \in 1..Len(log) : segOf[i] = segSeq <=> i > n
            /\ live[segSeq] = <<Hdr>> \o SubSeq(log, n + 1, Len(log))

\* The file-level log keeps the promise the engine is built on, with the
\* same exception.
Contract == INSTANCE DurableLog WITH seg <- segSeq
ImplementsDurableLog == Contract!LogInit /\ [][exposed' \/ Contract!LogNext]_logView

=============================================================================
