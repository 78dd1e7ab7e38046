------------------------------ MODULE Framing ------------------------------
(***************************************************************************)
(* The byte layouts of src/wal.rs and src/checkpoint.rs: how a commit is   *)
(* framed as a log record and a snapshot as a checkpoint file, and how     *)
(* both are read back, with every bound the readers check.  Integers are   *)
(* little endian, W32 or W64 digits below Radix, so that a small instance  *)
(* reaches the limit of a length field; checksums are the real ones.  A    *)
(* reader that may fail returns a sequence of at most one result.          *)
(***************************************************************************)
EXTENDS SnapshotMap, Crc

CONSTANTS
  W32,   \* bytes of a u32 field (4)
  W64,   \* bytes of a u64 field (8)
  Radix, \* what a byte of such a field counts up to (256)
  Term   \* the term of every record (the store has one)

ASSUME FramingAssumption ==
  W32 \in Nat \ {0} /\ W64 \in Nat \ {0} /\ Radix \in 2..256 /\ Term \in Nat

\* to_le_bytes of n as an integer of w bytes, which drops what does not fit.
Le(n, w) == [i \in 1..w |-> (n \div Radix^(i - 1)) % Radix]

\* from_le_bytes of the w bytes of b after position at.
LeAt(b, at, w) ==
  FoldRight(LAMBDA byte, n : byte + Radix * n, SubSeq(b, at + 1, at + w), 0)

-----------------------------------------------------------------------------
(* Log records *)

SEGMENT_MAGIC == <<75, 83, 87, 76>>
SEGMENT_VERSION == 1
HEADER_LEN == 4 + W32 + 4
MIN_PAYLOAD == 1 + 2 * W64 + 2 * W32
MAX_PAYLOAD == Radix^W32 - 1
TAG_PUT == 1
TAG_DELETE == 2
TAG_BATCH == 3

header_for(version) ==
  LET head == SEGMENT_MAGIC \o Le(version, W32) IN head \o CrcBytes(crc32(head))

op_tag(op) == IF op.type = "put" THEN TAG_PUT ELSE TAG_DELETE
ValueOf(op) == IF op.type = "put" THEN op.value ELSE <<>>

payload_len(ops) ==
  LET body(op) == 2 * W32 + Len(op.key) + Len(ValueOf(op)) IN
  IF Len(ops) = 1 THEN 1 + 2 * W64 + body(ops[1])
  ELSE FoldLeft(LAMBDA n, op : n + 1 + body(op), 1 + 2 * W64 + W32, ops)

\* The store accepts these ops as one commit; it refuses any others.
check_ops(ops) == ops # <<>> /\ payload_len(ops) <= MAX_PAYLOAD

encode_op_body(op) ==
  Le(Len(op.key), W32) \o op.key \o Le(Len(ValueOf(op)), W32) \o ValueOf(op)

encode_payload(rec) ==
  LET stamp == Le(rec.term, W64) \o Le(rec.index, W64) IN
  IF Len(rec.ops) = 1
  THEN <<op_tag(rec.ops[1])>> \o stamp \o encode_op_body(rec.ops[1])
  ELSE <<TAG_BATCH>> \o stamp \o Le(Len(rec.ops), W32)
         \o FlattenSeq([i \in DOMAIN rec.ops |->
                         <<op_tag(rec.ops[i])>> \o encode_op_body(rec.ops[i])])

\* The bytes the log appends for a record.
Frame(rec) ==
  LET payload == encode_payload(rec) IN
  Le(Len(payload), W32) \o payload \o CrcBytes(crc32(payload))

\* Cursor::take of a length and of as many bytes.
Prefixed(b, at) ==
  IF at + W32 > Len(b) \/ at + W32 + LeAt(b, at, W32) > Len(b) THEN <<>>
  ELSE <<[bytes |-> SubSeq(b, at + W32 + 1, at + W32 + LeAt(b, at, W32)),
          end |-> at + W32 + LeAt(b, at, W32)]>>

OpOf(tag, key, value) ==
  IF value = <<>> \/ tag \notin {TAG_PUT, TAG_DELETE} THEN <<>>
  ELSE <<[op |-> IF tag = TAG_PUT
                 THEN [type |-> "put", key |-> key, value |-> value[1].bytes]
                 ELSE [type |-> "delete", key |-> key],
          end |-> value[1].end]>>

OpWithKey(tag, b, key) ==
  IF key = <<>> THEN <<>> ELSE OpOf(tag, key[1].bytes, Prefixed(b, key[1].end))

\* The op whose body follows position at, and where it ends.
decode_op(tag, b, at) == OpWithKey(tag, b, Prefixed(b, at))

\* n more tagged ops of a batch, of which one has been read.
RECURSIVE DecodeBatch(_, _, _, _)
DecodeBatch(b, n, ops, next) ==
  IF next = <<>> THEN <<>>
  ELSE IF n = 1 THEN <<[ops |-> Append(ops, next[1].op), end |-> next[1].end]>>
  ELSE IF next[1].end + 1 > Len(b) THEN <<>>
  ELSE DecodeBatch(b, n - 1, Append(ops, next[1].op),
                   decode_op(b[next[1].end + 1], b, next[1].end + 1))

\* The ops after the stamp, as many as the count says; a count of none, or of
\* more than there is room for, is refused.
BatchOf(b, at, n) ==
  IF n = 0 \/ n > (Len(b) - at) \div (1 + 2 * W32) THEN <<>>
  ELSE DecodeBatch(b, n, <<>>, decode_op(b[at + 1], b, at + 1))

SingleOf(one) == IF one = <<>> THEN <<>> ELSE <<[ops |-> <<one[1].op>>, end |-> one[1].end]>>

DecodeOps(b, at) ==
  IF b[1] # TAG_BATCH THEN SingleOf(decode_op(b[1], b, at))
  ELSE IF at + W32 > Len(b) THEN <<>> ELSE BatchOf(b, at + W32, LeAt(b, at, W32))

RecordOf(b, ops) ==
  IF ops = <<>> \/ ops[1].end # Len(b) THEN <<>>
  ELSE <<[term |-> LeAt(b, 1, W64), index |-> LeAt(b, 1 + W64, W64), ops |-> ops[1].ops]>>

decode_payload(b) ==
  IF 1 + 2 * W64 > Len(b) THEN <<>> ELSE RecordOf(b, DecodeOps(b, 1 + 2 * W64))

\* What a scan found: the records, where a torn one begins (or Clean), and the
\* error it ended with, if any.
Found(recs, torn, error) == [recs |-> recs, torn |-> torn, error |-> error]
Clean == 0 - 1

\* The n bytes of a payload after position at and their checksum are intact.
IntactPayload(b, at, n) ==
  CrcBytes(crc32(SubSeq(b, at + 1, at + n))) = SubSeq(b, at + n + 1, at + n + 4)

\* A payload of n bytes after position at is whole.
Whole(b, at, n) ==
  n >= MIN_PAYLOAD /\ at + n + 4 <= Len(b) /\ IntactPayload(b, at, n)

\* The records from position at on.
RECURSIVE ScanRecords(_, _, _)
ScanRecords(b, at, recs) ==
  IF at = Len(b) THEN Found(recs, Clean, "none")
  ELSE IF at + W32 > Len(b) \/ ~Whole(b, at + W32, LeAt(b, at, W32))
  THEN Found(recs, at, "none")
  ELSE IF decode_payload(SubSeq(b, at + W32 + 1, at + W32 + LeAt(b, at, W32))) = <<>>
  THEN Found(recs, Clean, "InvalidData")
  ELSE ScanRecords(b, at + W32 + LeAt(b, at, W32) + 4,
         recs \o decode_payload(SubSeq(b, at + W32 + 1, at + W32 + LeAt(b, at, W32))))

\* Mutant: the header's checksum is not looked at.
HeaderUnchecked(b) == SubSeq(b, 1, 4) = SEGMENT_MAGIC

IntactHeader(b) ==
  /\ SubSeq(b, 1, 4) = SEGMENT_MAGIC
  /\ CrcBytes(crc32(SubSeq(b, 1, 4 + W32))) = SubSeq(b, 5 + W32, HEADER_LEN)

scan_segment(b) ==
  IF Len(b) < HEADER_LEN THEN Found(<<>>, 0, "none")
  ELSE IF ~IntactHeader(b)
  THEN IF Len(b) = HEADER_LEN THEN Found(<<>>, 0, "none") ELSE Found(<<>>, Clean, "InvalidData")
  ELSE IF LeAt(b, 4, W32) # SEGMENT_VERSION THEN Found(<<>>, Clean, "Unsupported")
  ELSE ScanRecords(b, HEADER_LEN, <<>>)

-----------------------------------------------------------------------------
(* Checkpoints *)

CHECKPOINT_MAGIC == <<75, 83, 78, 49>>
FORMAT == 1
BODY_HEADER == 4 + W32 + 2 * W64
MIN_ENTRY_LEN == 2 * W32 + W64

\* len32 refuses a key or a value that its length field cannot hold.
Framable(map) ==
  \A k \in DOMAIN map : Len(k) <= MAX_PAYLOAD /\ Len(map[k].value) <= MAX_PAYLOAD

write_body(index, map) ==
  LET keys == SetToSortSeq(DOMAIN map, Less)
      entry(k) == Le(Len(k), W32) \o k \o Le(Len(map[k].value), W32) \o map[k].value
                    \o Le(map[k].version, W64)
  IN  CHECKPOINT_MAGIC \o Le(FORMAT, W32) \o Le(index, W64) \o Le(Len(keys), W64)
        \o FlattenSeq([i \in DOMAIN keys |-> entry(keys[i])])

\* The file checkpoint::write leaves: the body and its checksum.
CheckpointFile(index, map) ==
  LET body == write_body(index, map) IN body \o CrcBytes(crc32(body))

Loaded(index, map, error) == [index |-> index, data |-> map, error |-> error]
Refused(error) == Loaded(0, << >>, error)

\* An entry: its key, its value, its version.
EntryOf(b, key, value) ==
  IF value = <<>> THEN <<>>
  ELSE IF value[1].end + W64 > Len(b) THEN <<>>
  ELSE <<[key |-> key, value |-> value[1].bytes, version |-> LeAt(b, value[1].end, W64),
          end |-> value[1].end + W64]>>

EntryAt(b, key) == IF key = <<>> THEN <<>> ELSE EntryOf(b, key[1].bytes, Prefixed(b, key[1].end))

\* n more entries from position at on, the next of them read: distinct keys,
\* and nothing after them.
RECURSIVE DecodeEntries(_, _, _, _, _)
DecodeEntries(b, at, n, map, e) ==
  IF n = 0 THEN IF at = Len(b) THEN <<map>> ELSE <<>>
  ELSE IF e = <<>> THEN <<>>
  ELSE IF e[1].key \in DOMAIN map THEN <<>>
  ELSE DecodeEntries(b, e[1].end, n - 1,
         With(map, e[1].key, [value |-> e[1].value, version |-> e[1].version]),
         EntryAt(b, Prefixed(b, e[1].end)))

\* The count can be no larger than the body has room for.
EntriesOf(body, count) ==
  IF Len(body) < BODY_HEADER THEN <<>>
  ELSE IF count > (Len(body) - BODY_HEADER) \div MIN_ENTRY_LEN THEN <<>>
  ELSE DecodeEntries(body, BODY_HEADER, count, << >>,
                     EntryAt(body, Prefixed(body, BODY_HEADER)))

IntactFile(b) ==
  /\ Len(b) >= 4 + W32 + 4
  /\ SubSeq(b, 1, 4) = CHECKPOINT_MAGIC
  /\ CrcBytes(crc32(SubSeq(b, 1, Len(b) - 4))) = SubSeq(b, Len(b) - 3, Len(b))

SnapshotOf(b, entries) ==
  IF entries = <<>> THEN Refused("InvalidData")
  ELSE Loaded(LeAt(b, 4 + W32, W64), entries[1], "none")

\* Mutant: the format version is looked at before the checksum.
decode_version_first(b) ==
  IF Len(b) < 4 + W32 + 4 THEN Refused("InvalidData")
  ELSE IF LeAt(b, 4, W32) # FORMAT THEN Refused("Unsupported")
  ELSE IF ~IntactFile(b) THEN Refused("InvalidData")
  ELSE SnapshotOf(b, EntriesOf(SubSeq(b, 1, Len(b) - 4), LeAt(b, 4 + W32 + W64, W64)))

\* Magic and checksum, then the version, then what this version's layout asks.
decode(b) ==
  IF ~IntactFile(b) THEN Refused("InvalidData")
  ELSE IF LeAt(b, 4, W32) # FORMAT THEN Refused("Unsupported")
  ELSE SnapshotOf(b, EntriesOf(SubSeq(b, 1, Len(b) - 4), LeAt(b, 4 + W32 + W64, W64)))

=============================================================================
