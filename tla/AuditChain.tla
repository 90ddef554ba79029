----------------------------- MODULE AuditChain -----------------------------
(***************************************************************************)
(* The hash-chained audit log: chain::Writer, the recovery Writer::open    *)
(* runs, and verify_segments_with.                                         *)
(*                                                                         *)
(* A segment file is the sequence of its lines, named by its first batch.  *)
(* Records wait in the BufWriter, then in the page cache (files), and are  *)
(* durable once synced.  A killed process loses the buffer, a power loss   *)
(* also what was not synced; either may tear the line being written.       *)
(*                                                                         *)
(* A hash is the list of batches it covers, so equal hashes mean equal     *)
(* chains.  Every trailer is signed by the one key; nobody else writes.    *)
(***************************************************************************)
EXTENDS Integers, Sequences, FiniteSets, FiniteSetsExt

CONSTANTS
  MaxRecords,     \* bound on the records of a behaviour
  BatchRecords,   \* WriterOptions.batch_records
  SegmentLines,   \* WriterOptions.segment_bytes, in lines
  Worlds,         \* the kinds of failure that may occur together in a behaviour
  MaxIoFaults       \* bound on the writes and syncs that fail

ASSUME AuditAssumptions ==
  /\ MaxRecords \in Nat /\ BatchRecords \in Nat \ {0} /\ SegmentLines \in Nat \ {0}
  /\ Worlds \subseteq SUBSET {"kill", "power", "io"} /\ MaxIoFaults \in Nat

VARIABLES
  world,      \* the kinds of failure this behaviour may meet
  files,      \* segment -> its lines, as a reader sees them
  synced,     \* segment -> how many of its lines are durable
  aside,      \* records in .unsealed files
  forged,     \* contents of .forged files
  pc,         \* where the writer stands; "down" when no sensor runs
  cur,        \* Writer.out: the segment being written
  buf,        \* Writer.out: lines still in the BufWriter
  pending,    \* Writer.pending: records of the open batch
  head,       \* Writer.head
  lines,      \* Writer.segment_len, in lines
  appended,   \* records handed to the writer so far
  faults,     \* writes and syncs that failed so far
  exported,   \* the chain head in the metrics
  found       \* history: records in the segments when the writer last opened

disk == <<files, synced, aside, forged>>
writer == <<pc, cur, buf, pending, head, lines>>
avars == <<world, disk, writer, appended, faults, exported, found>>

GENESIS == <<>>
Genesis == [next_seq |-> 0, hash |-> GENESIS]
NoHead == [next_seq |-> -1, hash |-> GENESIS]

\* batch_hash_v2: the record count is that of the records.
BatchHash(prev, seq, records) == Append(prev, [seq |-> seq, records |-> records])

Header(h) == [kind |-> "header", seq |-> h.next_seq, prev |-> h.hash]
Record(r) == [kind |-> "record", id |-> r]
Torn == [kind |-> "torn"]

\* sign_batch.
Trailer(h, records) ==
  [kind |-> "batch", seq |-> h.next_seq, records |-> Len(records), prev |-> h.hash,
   hash |-> BatchHash(h.hash, h.next_seq, records)]

IsTorn(data) == data # <<>> /\ data[Len(data)] = Torn
Complete(data) == IF IsTorn(data) THEN SubSeq(data, 1, Len(data) - 1) ELSE data
RecordsOf(data) == {data[i].id : i \in {j \in DOMAIN data : data[j].kind = "record"}}
OnDisk == UNION {RecordsOf(files[s]) : s \in DOMAIN files}

Without(f, s) == [x \in DOMAIN f \ {s} |-> f[x]]
With(f, s, v) == [x \in DOMAIN f \cup {s} |-> IF x = s THEN v ELSE f[x]]

AInit ==
  /\ world \in Worlds
  /\ files = <<>> /\ synced = <<>> /\ aside = {} /\ forged = {}
  /\ pc = "down" /\ cur = -1 /\ buf = <<>> /\ pending = <<>> /\ head = NoHead /\ lines = 0
  /\ appended = 0 /\ faults = 0 /\ exported = NoHead /\ found = {}
-----------------------------------------------------------------------------
(* Appending and sealing *)

\* append: the record is in the buffer and in the open batch; a full batch is
\* sealed by the same call.  A BufWriter without room writes out what it holds.
AppendRecord ==
  /\ pc = "run"
  /\ appended < MaxRecords
  /\ appended' = appended + 1
  /\ \/ /\ buf' = Append(buf, Record(appended + 1))
        /\ UNCHANGED files
     \/ /\ buf # <<>>
        /\ files' = [files EXCEPT ![cur] = @ \o buf]
        /\ buf' = <<Record(appended + 1)>>
  /\ lines' = lines + 1
  /\ pending' = Append(pending, appended + 1)
  /\ pc' = IF Len(pending) + 1 >= BatchRecords THEN "seal" ELSE "run"
  /\ UNCHANGED <<world, synced, aside, forged, cur, head, exported, faults, found>>

\* tick finds the open batch old enough, or the writer is dropped.
Tick ==
  /\ pc = "run"
  /\ pending # <<>>
  /\ pc' = "seal"
  /\ UNCHANGED <<world, disk, cur, buf, pending, head, lines, appended, exported, faults, found>>

SealWrite ==
  /\ pc = "seal"
  /\ buf' = Append(buf, Trailer(head, pending))
  /\ pc' = "flush"
  /\ UNCHANGED <<world, disk, cur, pending, head, lines, appended, exported, faults, found>>

SealFlush ==
  /\ pc = "flush"
  /\ files' = [files EXCEPT ![cur] = @ \o buf]
  /\ buf' = <<>>
  /\ pc' = "sync"
  /\ UNCHANGED <<world, synced, aside, forged, cur, pending, head, lines, appended, exported, faults, found>>

\* Mutant: the segment is not synced.
SealWithoutSync ==
  /\ pc = "sync"
  /\ head' = [next_seq |-> head.next_seq + 1, hash |-> BatchHash(head.hash, head.next_seq, pending)]
  /\ pending' = <<>>
  /\ lines' = lines + 1
  /\ IF lines + 1 >= SegmentLines
     THEN pc' = "start" /\ UNCHANGED exported
     ELSE pc' = "run" /\ exported' = head'
  /\ UNCHANGED <<world, disk, cur, buf, appended, faults, found>>

\* The batch is durable: only now does the chain move on.  Past segment_bytes
\* the next segment is started before seal returns and the head is exported.
SealSync ==
  /\ pc = "sync"
  /\ synced' = [synced EXCEPT ![cur] = Len(files[cur])]
  /\ head' = [next_seq |-> head.next_seq + 1, hash |-> BatchHash(head.hash, head.next_seq, pending)]
  /\ pending' = <<>>
  /\ lines' = lines + 1
  /\ IF lines + 1 >= SegmentLines
     THEN pc' = "start" /\ UNCHANGED exported
     ELSE pc' = "run" /\ exported' = head'
  /\ UNCHANGED <<world, files, aside, forged, cur, buf, appended, faults, found>>

\* start_segment creates or truncates the file...
StartSegment ==
  /\ pc = "start"
  /\ files' = With(files, head.next_seq, <<>>)
  /\ synced' = With(synced, head.next_seq, 0)
  /\ buf' = <<Header(head)>>
  /\ pc' = "header"
  /\ UNCHANGED <<world, aside, forged, cur, pending, head, lines, appended, exported, faults, found>>

\* ...and flushes the header, which is not synced.
StartHeader ==
  /\ pc = "header"
  /\ files' = [files EXCEPT ![head.next_seq] = buf]
  /\ buf' = <<>>
  /\ cur' = head.next_seq
  /\ lines' = 1
  /\ pc' = "run"
  /\ exported' = head
  /\ UNCHANGED <<world, synced, aside, forged, pending, head, appended, faults, found>>
-----------------------------------------------------------------------------
(* Writer::open *)

\* recover's loop over the lines of one segment: the head after the last batch
\* that checks out, the line it ends on, and whether anything no writer leaves
\* follows it.
ScanStart == [head |-> NoHead, end |-> 0, batches |-> 0, pending |-> <<>>, forged |-> FALSE]

Accepts(h, t, records) ==
  /\ t.seq = h.next_seq
  /\ t.prev = h.hash
  /\ t.records = Len(records)
  /\ t.hash = BatchHash(h.hash, t.seq, records)

ScanLine(s, i, line) ==
  IF s.forged \/ (s.head = NoHead /\ i > 1) THEN s
  ELSE CASE line.kind = "header" /\ i = 1 ->
              [s EXCEPT !.head = [next_seq |-> line.seq, hash |-> line.prev], !.end = 1]
         [] line.kind = "batch" /\ Accepts(s.head, line, s.pending) ->
              [s EXCEPT !.head = [next_seq |-> line.seq + 1, hash |-> line.hash], !.end = i,
                        !.batches = @ + 1, !.pending = <<>>]
         [] line.kind = "record" -> [s EXCEPT !.pending = Append(@, line.id)]
         [] OTHER -> [s EXCEPT !.forged = TRUE]

Scan(data) ==
  LET after[i \in 0..Len(data)] ==
        IF i = 0 THEN ScanStart ELSE ScanLine(after[i - 1], i, data[i])
  IN  after[Len(data)]

Newest == Max(DOMAIN files)

\* Mutant: one line short.
LeftoversShort(data, end) == RecordsOf(SubSeq(data, end + 2, Len(data)))

\* The records recover copies aside.
Leftovers(data, end) == RecordsOf(SubSeq(data, end + 1, Len(data)))

Open ==
  /\ pc = "down"
  /\ pc' = "recover"
  /\ found' = OnDisk
  /\ UNCHANGED <<world, disk, cur, buf, pending, head, lines, appended, faults, exported>>

\* One turn of open's loop: nothing left, or recover(newest segment).
Recover ==
  /\ pc = "recover"
  /\ LET data == files[Newest]
         s == Scan(Complete(data))
     IN  \/ /\ DOMAIN files = {}
            /\ head' = Genesis
            /\ pc' = "start"
            /\ UNCHANGED disk
         \/ /\ DOMAIN files # {} /\ data = <<>>
            /\ files' = Without(files, Newest)
            /\ synced' = Without(synced, Newest)
            /\ UNCHANGED <<aside, forged, head, pc>>
         \/ /\ DOMAIN files # {} /\ data # <<>> /\ s.end = Len(data)
            /\ head' = s.head
            /\ pc' = "start"
            /\ UNCHANGED disk
         \/ /\ DOMAIN files # {} /\ s.forged /\ s.batches = 0
            /\ files' = Without(files, Newest)
            /\ synced' = Without(synced, Newest)
            /\ forged' = forged \cup {data}
            /\ UNCHANGED <<aside, head, pc>>
         \/ /\ DOMAIN files # {} /\ s.forged /\ s.batches > 0
            /\ head' = s.head
            /\ pc' = "start"
            /\ UNCHANGED disk
         \/ /\ DOMAIN files # {} /\ ~s.forged /\ s.end < Len(data)
            /\ aside' = aside \cup Leftovers(data, s.end)
            /\ head' = s.head
            /\ pc' = "cut"
            /\ UNCHANGED <<files, synced, forged>>
  /\ UNCHANGED <<world, cur, buf, pending, lines, appended, exported, faults, found>>

\* Mutant: the segment is not cut.
CutNothing ==
  /\ pc = "cut"
  /\ IF head = NoHead
     THEN /\ files' = Without(files, Newest)
          /\ synced' = Without(synced, Newest)
          /\ pc' = "recover"
     ELSE UNCHANGED <<files, synced>> /\ pc' = "start"
  /\ UNCHANGED <<world, aside, forged, cur, buf, pending, head, lines, appended, exported, faults, found>>

\* The copy is durable: cut the segment, or remove one without a header.
Cut ==
  /\ pc = "cut"
  /\ LET end == Scan(Complete(files[Newest])).end
     IN  IF head = NoHead
         THEN /\ files' = Without(files, Newest)
              /\ synced' = Without(synced, Newest)
              /\ pc' = "recover"
         ELSE /\ files' = [files EXCEPT ![Newest] = SubSeq(@, 1, end)]
              /\ synced' = [synced EXCEPT ![Newest] = end]
              /\ pc' = "start"
  /\ UNCHANGED <<world, aside, forged, cur, buf, pending, head, lines, appended, exported, faults, found>>
-----------------------------------------------------------------------------
(* Failures *)

Target == IF pc = "header" THEN head.next_seq ELSE cur
Full(s) == IF s = Target THEN files[s] \o buf ELSE files[s]

\* What may be left of a sequence of lines of which the first n are safe.
Survivors(data, n) ==
  {SubSeq(data, 1, i) : i \in n..Len(data)} \cup
  {Append(SubSeq(data, 1, i), Torn) : i \in n..(Len(data) - 1)}

WriterGone ==
  /\ pc' = "down" /\ cur' = -1 /\ buf' = <<>> /\ pending' = <<>> /\ head' = NoHead /\ lines' = 0

\* A kill leaves what was flushed, and any part of what was being flushed.
KillWriter ==
  /\ "kill" \in world
  /\ pc # "down"
  /\ IF buf = <<>> THEN files' = files
     ELSE \E data \in Survivors(Full(Target), Len(files[Target])) :
            files' = [files EXCEPT ![Target] = data]
  /\ WriterGone
  /\ UNCHANGED <<world, synced, aside, forged, appended, exported, faults, found>>

\* A power loss leaves what was synced, and any part of the rest; a file of
\* which nothing was synced may be gone.
PowerLoss ==
  /\ "power" \in world
  /\ pc # "down" \/ \E s \in DOMAIN files : synced[s] < Len(files[s])
  /\ \E kept \in SUBSET DOMAIN files :
       /\ {s \in DOMAIN files : synced[s] > 0} \subseteq kept
       /\ files' \in {f \in [kept -> UNION {Survivors(Full(s), synced[s]) : s \in kept}] :
                        \A s \in kept : f[s] \in Survivors(Full(s), synced[s])}
       /\ synced' = [s \in kept |-> Len(files'[s])]
  /\ WriterGone
  /\ found' = {}
  /\ UNCHANGED <<world, aside, forged, appended, faults, exported>>

\* A seal that fails leaves head and pending as they were.  What the flush had
\* written is in the file, the rest stays in the buffer, the trailer in either.
SealFails ==
  /\ "io" \in world /\ faults < MaxIoFaults /\ faults' = faults + 1
  /\ pc \in {"seal", "flush", "sync"}
  /\ \E n \in 0..Len(buf) :
       /\ n > 0 => pc = "flush"
       /\ files' = [files EXCEPT ![cur] = @ \o SubSeq(buf, 1, n)]
       /\ buf' = SubSeq(buf, n + 1, Len(buf))
  /\ pc' = "run"
  /\ UNCHANGED <<world, synced, aside, forged, cur, pending, head, lines, appended, exported, found>>

\* A segment that cannot be started: the file may be there, with all, part or
\* none of its header.  A running writer has sealed its batch and stays with the
\* segment it had; open returns the error and the sensor runs without a log.
StartFails ==
  /\ "io" \in world /\ faults < MaxIoFaults /\ faults' = faults + 1
  /\ pc \in {"start", "header"}
  /\ \/ UNCHANGED files
     \/ /\ pc = "header"
        /\ \E data \in Survivors(buf, 0) : files' = [files EXCEPT ![head.next_seq] = data]
  /\ IF cur = -1
     THEN WriterGone /\ UNCHANGED exported
     ELSE buf' = <<>> /\ pc' = "run" /\ exported' = head /\ UNCHANGED <<cur, pending, head, lines>>
  /\ UNCHANGED <<world, synced, aside, forged, appended, found>>

ANext ==
  \/ AppendRecord \/ Tick \/ SealWrite \/ SealFlush \/ SealSync \/ StartSegment \/ StartHeader
  \/ Open \/ Recover \/ Cut
  \/ KillWriter \/ PowerLoss \/ SealFails \/ StartFails

ASpec == AInit /\ [][ANext]_avars
-----------------------------------------------------------------------------
(* verify_segments_with: the problems it reports, on the segments as a      *)
(* reader sees them at any time.                                            *)

VerifyStart ==
  [head |-> NoHead, problems |-> {}, sealed |-> FALSE, header |-> FALSE, pending |-> <<>>]

VerifyHeader(v, line, i) ==
  LET h == [next_seq |-> line.seq, hash |-> line.prev]
      bad == {p \in {"chain does not start at batch 0"} : v.head = NoHead /\ h # Genesis}
               \cup {p \in {"segment does not continue the chain"} : v.head # NoHead /\ v.head # h}
  IN  IF i # 1 THEN [v EXCEPT !.problems = @ \cup {"header inside a segment"}]
      ELSE [v EXCEPT !.problems = @ \cup bad, !.header = TRUE,
                     !.head = IF v.head = NoHead THEN h ELSE @]

VerifyBatch(v, t) ==
  LET good == v.header /\ Accepts(v.head, t, v.pending)
      h == [next_seq |-> t.seq + 1, hash |-> t.hash]
  IN  IF v.head = NoHead THEN [v EXCEPT !.problems = @ \cup {"batch before any header"}]
      ELSE [v EXCEPT !.problems = IF good THEN @ ELSE @ \cup {"bad batch"},
                     !.sealed = @ \/ good,
                     !.head = h,
                     !.pending = <<>>]

VerifyLine(v, i, line) ==
  CASE line.kind = "header" -> VerifyHeader(v, line, i)
    [] line.kind = "batch" -> VerifyBatch(v, line)
    [] OTHER -> [v EXCEPT !.pending = Append(@, line.id)]

VerifySegment(v, data, newest) ==
  LET body == Complete(data)
      after[i \in 0..Len(body)] ==
        IF i = 0 THEN [v EXCEPT !.header = FALSE, !.pending = <<>>]
        ELSE VerifyLine(after[i - 1], i, body[i])
      end == after[Len(body)]
  IN  [end EXCEPT !.problems = @
         \cup {p \in {"torn line inside the chain"} : IsTorn(data) /\ ~newest}
         \cup {p \in {"segment has no header"} : ~end.header}
         \cup {p \in {"records not sealed"} : end.pending # <<>> /\ ~newest}]

\* Segments in name order, the oldest first.
Verify ==
  LET last == IF DOMAIN files = {} THEN 0 ELSE Newest + 1
      upto[n \in 0..last] ==
        IF n = 0 THEN VerifyStart
        ELSE IF n - 1 \notin DOMAIN files THEN upto[n - 1]
        ELSE VerifySegment(upto[n - 1], files[n - 1], n - 1 = Newest)
  IN  upto[last]

\* A log without segments, or without a batch that verifies, proves nothing.
Problems ==
  Verify.problems \cup {p \in {"forged segment"} : forged # {}}
                  \cup {p \in {"no batch verified"} : ~Verify.sealed}
-----------------------------------------------------------------------------
\* What an honest log may show: a newest segment whose header is not written yet,
\* and no batch before the first is sealed and exported.
HeaderPending == DOMAIN files # {} /\ Complete(files[Newest]) = <<>>
Honest == {p \in {"segment has no header"} : HeaderPending}
            \cup {p \in {"no batch verified"} : exported.next_seq <= 0}

\* Whenever rk audit verify reads the directory, while the writer is at work, after a
\* kill or a power loss, before and during recovery, it finds nothing wrong with the
\* log, but for a newest segment that has no header yet and a log without batches
\* before the first one's head was exported.
LogVerifies == "io" \notin world => Problems \subseteq Honest

\* Recovery drops no record that had reached a segment, whatever failed before: each
\* is still in a segment, or in a file set aside.
RecoveryKeepsRecords ==
  pc \in {"start", "header", "run", "seal", "flush", "sync"} =>
    found \subseteq OnDisk \cup aside \cup UNION {RecordsOf(data) : data \in forged}

\* "A verification failure: evidence of tampering or corruption" (Problem): the log
\* of a writer that is never killed, on which only writes and syncs fail, shows none.
FaultsLookHonest == Problems \subseteq Honest
=============================================================================
