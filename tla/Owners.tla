------------------------------- MODULE Owners -------------------------------
(***************************************************************************)
(* Processes that open one store directory, work on it and are killed      *)
(* (src/main.rs, and lock_dir of src/engine.rs), over the bytes of the     *)
(* log.  A killed process leaves what it wrote, up to any byte, and its    *)
(* lock goes with it; a process that opens the directory cuts the log      *)
(* where a record is torn, which in the log of a live owner is a record    *)
(* being written.  data and past are the commits the directory has taken:  *)
(* those acknowledged, and one found whole that a kill left unanswered.    *)
(* Power loss, segments and checkpoints are in modules Wal and Recovery.   *)
(***************************************************************************)
EXTENDS Framing, FiniteSets, FiniteSetsExt

CONSTANTS
  Process,  \* processes of the machine
  Nobody,   \* no process
  Batches,  \* what callers ask the store to commit
  MaxCommits \* bound on the records of the log

ASSUME OwnersAssumption == Nobody \notin Process /\ MaxCommits \in 0..MaxIndex

VARIABLES
  lockable, \* the file system has file locks
  holder,   \* who holds LOCK
  segment,  \* the bytes of the log
  pc,       \* where each process is
  left,     \* the bytes each process has yet to write
  asked,    \* the ops it is committing
  mem,      \* the snapshot its store serves
  index,    \* and that snapshot's index
  marker    \* what CHILD_DONE says was committed, or 0

ownVars == <<lockable, holder, segment, pc, left, asked, mem, index, marker>>
dirVars == <<data, past, ownVars>>

OwnersInit ==
  /\ MapInit
  /\ lockable \in BOOLEAN
  /\ holder = Nobody /\ segment = <<>> /\ marker = 0
  /\ pc = [p \in Process |-> "out"]
  /\ left = [p \in Process |-> <<>>]
  /\ asked = [p \in Process |-> <<>>]
  /\ mem = [p \in Process |-> << >>]
  /\ index = [p \in Process |-> 0]

\* The fold of open_with over the records of the log.
Replayed(recs) == FoldLeft(LAMBDA m, r : ApplyAll(m, r.ops, r.index), << >>, recs)

\* open_with takes a log whose records count 1, 2, 3, ... and refuses another.
InOrder(recs) == \A i \in DOMAIN recs : recs[i].index = i

\* Mutant: the lock is not taken.
LockDirIgnored(p) == UNCHANGED holder

\* lock_dir: WouldBlock if somebody else has the lock, and no lock at all
\* where the file system has none; there it is for the users of the directory
\* to open it one at a time.
LockDir(p) ==
  /\ IF lockable THEN holder = Nobody ELSE \A q \in Process : pc[q] = "out"
  /\ holder' = IF lockable THEN p ELSE holder

\* A record found whole is part of the store, acknowledged or not.
Adopt(recs) ==
  IF Len(recs) > Index THEN Commit(recs[Len(recs)].ops) ELSE UNCHANGED <<data, past>>

\* Store::open: own the directory, replay the log, cut its torn tail.  A log
\* that is not a segment yet gets its header.
Open(p) ==
  /\ pc[p] = "out"
  /\ LockDir(p)
  /\ \E found \in {scan_segment(segment)} :
       /\ found.error = "none" /\ InOrder(found.recs)
       /\ mem' = [mem EXCEPT ![p] = Replayed(found.recs)]
       /\ index' = [index EXCEPT ![p] = Len(found.recs)]
       /\ segment' = IF found.torn = Clean THEN segment ELSE SubSeq(segment, 1, found.torn)
       /\ left' = [left EXCEPT ![p] = IF found.torn = 0 THEN header_for(SEGMENT_VERSION) ELSE <<>>]
       /\ pc' = [pc EXCEPT ![p] = IF found.torn = 0 THEN "birth" ELSE "open"]
       /\ Adopt(found.recs)
  /\ UNCHANGED <<lockable, asked, marker>>

\* Part of what a process has to write reaches the file.
WriteSome(p) ==
  /\ pc[p] \in {"birth", "commit"} /\ left[p] # <<>>
  /\ \E n \in 1..Len(left[p]) :
       /\ segment' = segment \o SubSeq(left[p], 1, n)
       /\ left' = [left EXCEPT ![p] = SubSeq(@, n + 1, Len(@))]
  /\ UNCHANGED <<data, past, lockable, holder, pc, asked, mem, index, marker>>

\* The header is written: the store is open.
Born(p) ==
  /\ pc[p] = "birth" /\ left[p] = <<>>
  /\ pc' = [pc EXCEPT ![p] = "open"]
  /\ UNCHANGED <<data, past, lockable, holder, segment, left, asked, mem, index, marker>>

\* The ops of a call of put and of delete; apply_batch takes several.
put(k, v) == <<[type |-> "put", key |-> k, value |-> v]>>
delete(k) == <<[type |-> "delete", key |-> k]>>

\* apply_batch, where no ops are no commit: the ops are framed and handed to
\* write.
Ask(p, ops) ==
  /\ pc[p] = "open" /\ index[p] < MaxCommits
  /\ ops # <<>> /\ check_ops(ops)
  /\ pc' = [pc EXCEPT ![p] = "commit"]
  /\ asked' = [asked EXCEPT ![p] = ops]
  /\ left' = [left EXCEPT ![p] = Frame([term |-> Term, index |-> index[p] + 1, ops |-> ops])]
  /\ UNCHANGED <<data, past, lockable, holder, segment, mem, index, marker>>

\* The record is written and synced: publish it and return.
Answer(p) ==
  /\ pc[p] = "commit" /\ left[p] = <<>>
  /\ Commit(asked[p])
  /\ mem' = [mem EXCEPT ![p] = ApplyAll(@, asked[p], index[p] + 1)]
  /\ index' = [index EXCEPT ![p] = @ + 1]
  /\ pc' = [pc EXCEPT ![p] = "open"]
  /\ asked' = [asked EXCEPT ![p] = <<>>]
  /\ UNCHANGED <<lockable, holder, segment, left, marker>>

\* The end of run: CHILD_DONE is written once every put has returned, and the
\* process sleeps until it is killed.
Park(p) ==
  /\ pc[p] = "open" /\ index[p] > 0
  /\ marker' = index[p]
  /\ pc' = [pc EXCEPT ![p] = "parked"]
  /\ UNCHANGED <<data, past, lockable, holder, segment, left, asked, mem, index>>

\* SIGKILL.
Kill(p) ==
  /\ pc[p] # "out"
  /\ pc' = [pc EXCEPT ![p] = "out"]
  /\ holder' = IF holder = p THEN Nobody ELSE holder
  /\ left' = [left EXCEPT ![p] = <<>>]
  /\ asked' = [asked EXCEPT ![p] = <<>>]
  /\ mem' = [mem EXCEPT ![p] = << >>]
  /\ index' = [index EXCEPT ![p] = 0]
  /\ UNCHANGED <<data, past, lockable, segment, marker>>

OwnersNext ==
  \E p \in Process :
    \/ Open(p) \/ WriteSome(p) \/ Born(p) \/ Answer(p) \/ Park(p) \/ Kill(p)
    \/ \E ops \in Batches : Ask(p, ops)

OwnersSpec == OwnersInit /\ [][OwnersNext]_dirVars

\* Store::len, and Store::get: one value or none.
len(p) == Cardinality(DOMAIN mem[p])
get(p, k) == IF k \in DOMAIN mem[p] THEN <<mem[p][k].value>> ELSE <<>>

\* What verify compares: the number of keys, and the value of every key that
\* run had written.
Verify(p, wrote) ==
  /\ len(p) >= Cardinality(DOMAIN wrote)
  /\ \A k \in DOMAIN wrote : get(p, k) = <<wrote[k].value>>

\* Nobody is at work on the log, and it ends with a whole record.  Its bytes
\* depend neither on locks nor on the marker: each log is looked at once.
AtRest ==
  /\ \A p \in Process : pc[p] = "out"
  /\ lockable /\ marker = 0
  /\ scan_segment(segment).torn = Clean

-----------------------------------------------------------------------------
(* Properties *)

\* The log can always be opened, and a store that opens serves everything any
\* process was ever told is committed, whichever byte the kills fell on and
\* whoever tried to open the directory meanwhile: the snapshot of an open store
\* is the directory's, and verify accepts the store once CHILD_DONE exists and
\* nothing was committed since.
KilledStoreRecovers ==
  /\ \A found \in {scan_segment(segment)} : found.error = "none" /\ InOrder(found.recs)
  /\ \A p \in Process : pc[p] \in {"open", "parked"} =>
       /\ mem[p] = data /\ index[p] = Index
       /\ marker = Index => Verify(p, past[marker + 1])

\* One byte of the log damaged, in whatever way, costs the records from the
\* damaged one on and no other; nothing that was not written is ever read, and
\* no damage looks like a log of another version.
DamageIsDetected ==
  AtRest =>
    \A recs \in {scan_segment(segment).recs}, i \in DOMAIN segment, flip \in {1, 128, 255} :
      \A found \in {scan_segment([segment EXCEPT ![i] = @ ^^ flip])} :
        /\ found.error # "Unsupported" /\ IsPrefix(found.recs, recs)
        /\ i <= HEADER_LEN => (found.error = "InvalidData") = (Len(segment) > HEADER_LEN)
        /\ i > HEADER_LEN => found.error = "none" /\
             LET before == HEADER_LEN + Len(FlattenSeq([n \in DOMAIN found.recs |-> Frame(recs[n])]))
             IN  found.torn = before /\ before < i

\* A checkpoint decodes to the snapshot it was written from; cut anywhere or
\* with any byte damaged it is refused as damaged, never taken for another
\* snapshot or for a file of another version.
CheckpointIsExact ==
  AtRest =>
    \A file \in {CheckpointFile(Index, data)} :
      /\ Framable(data)
      /\ decode(file) = Loaded(Index, data, "none")
      /\ \A n \in 0..(Len(file) - 1) : decode(SubSeq(file, 1, n)).error = "InvalidData"
      /\ \A i \in DOMAIN file, flip \in {1, 128, 255} :
           decode([file EXCEPT ![i] = @ ^^ flip]).error = "InvalidData"

\* The table-driven checksum is the remainder of the division by the CRC-32
\* generator, and folding a message in two chunks, cut anywhere, gives the
\* checksum of the whole.
ChecksumIsRemainder ==
  AtRest =>
    \A m \in {SubSeq(segment, Max({1, Len(segment) - 11}), Len(segment))} :
      /\ OnesOf(crc32(m)) = Remainder(m)
      /\ \A n \in 0..Len(m) :
           Finished(Update(Update(AllOnes, SubSeq(m, 1, n)), SubSeq(m, n + 1, Len(m)))) = crc32(m)

=============================================================================
