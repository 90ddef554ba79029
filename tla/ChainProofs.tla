---------------------------- MODULE ChainProofs -----------------------------
(***************************************************************************)
(* Proofs about the chain of the audit log, for a log that meets kills or  *)
(* power losses, not both, and no failing writes.                          *)
(*                                                                         *)
(* LogInv: every segment starts at the head where the one before it ends,  *)
(* and all but the newest end with a batch; what a failure may still take  *)
(* away is only the end of the segment being written. The verifier, run on *)
(* the segments of a chain, finds the heads that recovery finds and        *)
(* nothing wrong.                                                          *)
(***************************************************************************)
EXTENDS AuditProofs

\* The failures for which the chain is promised to hold: a log that meets both a kill
\* and a power loss may lose what recovery relied on, and one on which writes fail may
\* hold a batch twice.
Chainable == "io" \notin world /\ ~("kill" \in world /\ "power" \in world)

Body(fs, f) == Complete(fs[f])
Read(fs, f) == Scan(Body(fs, f))

\* h is the head of the chain before segment n.
Precedes(fs, n, h) ==
  \/ h = Genesis /\ \A g \in DOMAIN fs : ~(g < n)
  \/ \E p \in DOMAIN fs : p < n /\ h = Read(fs, p).head /\ \A g \in DOMAIN fs : g < n => g <= p

\* Segment f goes on where the chain before it ends...
Joined(fs, f) ==
  \E h \in HeadSet : /\ Precedes(fs, f, h) /\ h.next_seq = f
                     /\ Body(fs, f) # <<>> => fs[f][1].prev = h.hash

\* ... and ends with a batch.
Whole(fs, f) == Body(fs, f) # <<>> /\ ~IsTorn(fs[f]) /\ Read(fs, f).pending = <<>>

Linked(fs) ==
  \A f \in DOMAIN fs : /\ ~Read(fs, f).forged /\ Joined(fs, f)
                       /\ (\E g \in DOMAIN fs : g > f) => Whole(fs, f)

\* The segment being written, with what is still in the buffer.
Logical == files[cur] \o buf
NextHead == [next_seq |-> head.next_seq + 1, hash |-> BatchHash(head.hash, head.next_seq, pending)]

AtStart ==
  /\ Precedes(files, head.next_seq, head)
  /\ head.next_seq \in DOMAIN files => Read(files, head.next_seq).batches = 0
AllWhole == \A f \in DOMAIN files : Whole(files, f)
Running == (\A f \in DOMAIN files : f <= cur) /\ ~Scan(Logical).forged
Collecting == Scan(Logical).head = head /\ Scan(Logical).pending = pending
Sealing == Scan(Logical).head = NextHead /\ Scan(Logical).pending = <<>>

ChainInv ==
  /\ forged = {} /\ Linked(files)
  /\ pc \in {"start", "header"} => AtStart
  /\ pc = "start" => AllWhole
  /\ pc \notin RunPc => pending = <<>>
  /\ pc \in RunPc => Running
  /\ pc \in {"run", "seal"} => Collecting
  /\ pc \in {"flush", "sync"} => Sealing

\* All but the segment being written is synced.
Settled == pc \in {"down", "recover", "cut", "start"}
SyncInv ==
  "power" \in world =>
    \A f \in DOMAIN files : Settled \/ (\E g \in DOMAIN files : g > f) => synced[f] = Len(files[f])

\* A batch whose head was exported is on the disk.
Durable(fs, sy, f) == IF "power" \in world THEN sy[f] ELSE Len(Body(fs, f))
SealedIn(fs, sy, f) == Scan(Pre(fs[f], Durable(fs, sy, f))).batches > 0
HasBatch(fs, sy) == \E f \in DOMAIN fs : SealedIn(fs, sy, f)
Claimed == exported.next_seq > 0 \/ (pc \in RunPc \cup {"start", "header"} /\ head.next_seq > 0)
SealedInv == Claimed => HasBatch(files, synced)

LogInv == world \in Worlds /\ (Chainable => ChainInv /\ SyncInv /\ SealedInv)

\* What a reader of the segments below n sees is the same.
AgreeBelow(fs, gs, n) ==
  /\ \A g \in DOMAIN fs : g < n => g \in DOMAIN gs /\ gs[g] = fs[g]
  /\ \A g \in DOMAIN gs : g < n => g \in DOMAIN fs

\* So the chain before segment n is the same.
LEMMA PrecedesFrame ==
  ASSUME NEW fs, NEW gs, NEW n, NEW h, AgreeBelow(fs, gs, n), Precedes(fs, n, h)
  PROVE  Precedes(gs, n, h)
  <1>1. CASE h = Genesis /\ \A g \in DOMAIN fs : ~(g < n)
    BY <1>1 DEF Precedes, AgreeBelow
  <1>2. CASE \E p \in DOMAIN fs : p < n /\ h = Read(fs, p).head /\ \A g \in DOMAIN fs : g < n => g <= p
    <2>1. PICK p \in DOMAIN fs : p < n /\ h = Read(fs, p).head /\ \A g \in DOMAIN fs : g < n => g <= p
      BY <1>2
    <2>2. p \in DOMAIN gs /\ gs[p] = fs[p]
      BY <2>1 DEF AgreeBelow
    <2>3. Read(gs, p) = Read(fs, p)
      BY <2>2 DEF Read, Body
    <2>4. \A g \in DOMAIN gs : g < n => g <= p
      BY <2>1 DEF AgreeBelow
    <2> QED BY <2>1, <2>2, <2>3, <2>4, Zenon DEF Precedes
  <1> QED BY <1>1, <1>2 DEF Precedes

\* Only the newest segment changes, goes or comes.
Topped(fs, c) == \A f \in DOMAIN fs : f \in Nat /\ f <= c
TopOk(fs, gs, c) ==
  c \in DOMAIN gs =>
    ~Read(gs, c).forged /\ Joined(gs, c) /\ \A f \in DOMAIN fs : f < c => Whole(fs, f)

\* A chain whose newest segment is changed to one that goes on from it is a chain.
LEMMA LinkedTop ==
  ASSUME NEW fs, NEW gs, NEW c \in Nat, Linked(fs), Topped(fs, c), Topped(gs, c), AgreeBelow(fs, gs, c), TopOk(fs, gs, c)
  PROVE  Linked(gs)
  <1> SUFFICES ASSUME NEW f \in DOMAIN gs
               PROVE  /\ ~Read(gs, f).forged /\ Joined(gs, f)
                      /\ (\E g \in DOMAIN gs : g > f) => Whole(gs, f)
    BY DEF Linked
  <1>1. CASE f = c
    <2>1. ~Read(gs, f).forged /\ Joined(gs, f)
      BY <1>1 DEF TopOk
    <2>2. ~\E g \in DOMAIN gs : g > f
      BY <1>1 DEF Topped
    <2> QED BY <2>1, <2>2
  <1>2. CASE f # c
    <2>1. f < c /\ f \in Nat
      BY <1>2 DEF Topped
    <2>2. f \in DOMAIN fs /\ gs[f] = fs[f]
      BY <2>1 DEF AgreeBelow
    <2>3. Body(gs, f) = Body(fs, f) /\ Read(gs, f) = Read(fs, f)
      BY <2>2 DEF Body, Read
    <2>4. ~Read(fs, f).forged /\ Joined(fs, f) /\ ((\E g \in DOMAIN fs : g > f) => Whole(fs, f))
      BY <2>2 DEF Linked
    <2>5. AgreeBelow(fs, gs, f)
      <3>1. \A g \in DOMAIN fs : g < f => g < c
        BY <2>1 DEF Topped
      <3>2. \A g \in DOMAIN gs : g < f => g < c
        BY <2>1 DEF Topped
      <3> QED BY <3>1, <3>2 DEF AgreeBelow
    <2>6. Joined(gs, f)
      <3>1. PICK h \in HeadSet : /\ Precedes(fs, f, h) /\ h.next_seq = f
                                 /\ Body(fs, f) # <<>> => fs[f][1].prev = h.hash
        BY <2>4 DEF Joined
      <3>2. Precedes(gs, f, h)
        BY <2>5, <3>1, PrecedesFrame
      <3> QED BY <2>2, <2>3, <3>1, <3>2, Zenon DEF Joined
    <2>7. ASSUME NEW g \in DOMAIN gs, g > f PROVE Whole(fs, f)
      <3>1. CASE g = c
        BY <2>1, <2>2, <3>1 DEF TopOk
      <3>2. CASE g # c
        <4>1. g < c
          BY <3>2 DEF Topped
        <4>2. g \in DOMAIN fs
          BY <4>1 DEF AgreeBelow
        <4> QED BY <2>4, <2>7, <4>2
      <3> QED BY <3>1, <3>2
    <2>8. Whole(fs, f) => Whole(gs, f)
      BY <2>2, <2>3 DEF Whole
    <2> QED BY <2>3, <2>4, <2>6, <2>7, <2>8
  <1> QED BY <1>1, <1>2

\* Two segments that begin the same.
LEMMA PreEqual ==
  ASSUME NEW c \in Seq(Line), NEW d \in Seq(Line), NEW n \in 0..Len(c), n <= Len(d),
         \A i \in 1..n : c[i] = d[i]
  PROVE  Pre(c, n) = Pre(d, n)
  <1>0. Len(c) \in Nat /\ Len(d) \in Nat /\ n \in 0..Len(d)
    BY SeqLength
  <1>1. Pre(c, n) \in Seq(Line) /\ Len(Pre(c, n)) = n /\ \A i \in 1..n : Pre(c, n)[i] = c[i]
    BY PreFacts
  <1>2. Pre(d, n) \in Seq(Line) /\ Len(Pre(d, n)) = n /\ \A i \in 1..n : Pre(d, n)[i] = d[i]
    BY <1>0, PreFacts
  <1> HIDE DEF Pre
  <1> QED BY <1>1, <1>2, SeqSame

\* A batch read at the beginning is read in the whole.
LEMMA BatchesStay ==
  ASSUME NEW c \in Seq(Line), NEW d \in Seq(Line), NEW n \in 0..Len(c), NEW m \in n..Len(d),
         \A i \in 1..n : c[i] = d[i], Scan(Pre(c, n)).batches > 0
  PROVE  Scan(Pre(d, m)).batches > 0
  <1>0. Len(c) \in Nat /\ Len(d) \in Nat
    BY SeqLength
  <1>1. n \in 0..Len(d) /\ n <= Len(d) /\ n \in Nat
    BY <1>0
  <1>2. Pre(c, n) = Pre(d, n)
    BY <1>1, PreEqual
  <1>3. /\ Scan(Pre(d, n)).batches <= Scan(Pre(d, m)).batches
        /\ Scan(Pre(d, n)).batches \in Nat /\ Scan(Pre(d, m)).batches \in Nat
    BY <1>1, ScanMono
  <1> QED BY <1>2, <1>3

\* One more record in a segment, and one more batch.
LEMMA RecordScan ==
  ASSUME NEW data \in Seq(Line), NEW f \in Nat, Headed(data, f), ~Scan(data).forged, NEW r \in Nat
  PROVE  LET s == Scan(data)
             t == Scan(Append(data, Record(r)))
         IN  ~t.forged /\ t.head = s.head /\ t.pending = Append(s.pending, r) /\ t.batches = s.batches
  <1> DEFINE s == Scan(data)
             t == Scan(Append(data, Record(r)))
             i == Len(data) + 1
  <1>1. Len(data) \in Nat /\ i \in Nat /\ i > 1
    BY SeqLength, SeqEmpty DEF Headed
  <1>2. s \in ScanState /\ s.head # NoHead
    BY ScanType, ScanPlace DEF Headed
  <1>3. Record(r) \in Line /\ Record(r).kind = "record" /\ Record(r).id = r
    BY DEF Line, RecordLine, Record
  <1>4. t = ScanLine(s, i, Record(r))
    BY <1>3, ScanAppend
  <1> DEFINE l == Record(r)
  <1> HIDE DEF s, t, i, l
  <1>5. \/ Skipped(s, i, t) \/ HeaderRead(s, i, l, t) \/ BatchRead(s, i, l, t)
        \/ RecordRead(s, i, l, t) \/ Refused(s, i, l, t)
    BY <1>1, <1>2, <1>3, <1>4, ScanCases DEF l
  <1>6. ~s.forged
    BY DEF s
  <1>7. RecordRead(s, i, l, t)
    BY <1>1, <1>2, <1>3, <1>5, <1>6 DEF Skipped, HeaderRead, BatchRead, Refused, l
  <1>8. ~t.forged /\ t.head = s.head /\ t.pending = Append(s.pending, r) /\ t.batches = s.batches
    BY <1>3, <1>7 DEF RecordRead, l
  <1> QED BY <1>8 DEF s, t

\* A batch sealed by the head that was found is accepted.
LEMMA BatchScan ==
  ASSUME NEW data \in Seq(Line), NEW f \in Nat, Headed(data, f), ~Scan(data).forged
  PROVE  LET s == Scan(data)
             h == s.head
             t == Scan(Append(data, Trailer(h, s.pending)))
         IN  /\ ~t.forged /\ t.pending = <<>> /\ t.batches = s.batches + 1
             /\ t.head = [next_seq |-> h.next_seq + 1, hash |-> BatchHash(h.hash, h.next_seq, s.pending)]
  <1> DEFINE s == Scan(data)
             h == s.head
             l == Trailer(h, s.pending)
             t == Scan(Append(data, l))
             i == Len(data) + 1
  <1>1. Len(data) \in Nat /\ i \in Nat /\ i > 1
    BY SeqLength, SeqEmpty DEF Headed
  <1>2. s \in ScanState /\ s.head # NoHead
    BY ScanType, ScanPlace DEF Headed
  <1>3. /\ l.kind = "batch" /\ l.seq = h.next_seq /\ l.records = Len(s.pending) /\ l.prev = h.hash
        /\ l.hash = BatchHash(h.hash, h.next_seq, s.pending)
    BY DEF Trailer
  <1>4. l \in Line
    <2>1. h.next_seq \in Int /\ h.hash \in Seq(Batch) /\ s.pending \in Seq(Nat)
      BY <1>2 DEF ScanState, HeadSet, Hash
    <2>2. [seq |-> h.next_seq, records |-> s.pending] \in Batch
      BY <2>1 DEF Batch
    <2>3. BatchHash(h.hash, h.next_seq, s.pending) \in Hash
      BY <2>1, <2>2, SeqAppend DEF BatchHash, Hash
    <2>4. Len(s.pending) \in Nat
      BY <2>1, SeqLength
    <2>5. l \in BatchLine
      BY <2>1, <2>3, <2>4 DEF Trailer, BatchLine, Hash
    <2> QED BY <2>5 DEF Line
  <1>5. t = ScanLine(s, i, l)
    BY <1>4, ScanAppend
  <1>6. ~s.forged
    OBVIOUS
  <1> HIDE DEF s, t, i, l
  <1>7. Accepts(s.head, l, s.pending)
    BY <1>3 DEF Accepts
  <1>8. t = [s EXCEPT !.head = [next_seq |-> l.seq + 1, hash |-> l.hash], !.end = i,
                      !.batches = s.batches + 1, !.pending = <<>>]
    BY <1>1, <1>2, <1>3, <1>5, <1>6, <1>7 DEF ScanLine
  <1>9. /\ ~t.forged /\ t.pending = <<>> /\ t.batches = s.batches + 1
        /\ t.head = [next_seq |-> l.seq + 1, hash |-> l.hash]
    BY <1>2, <1>6, <1>8 DEF ScanState
  <1>10. t.head = [next_seq |-> h.next_seq + 1, hash |-> BatchHash(h.hash, h.next_seq, s.pending)]
    BY <1>3, <1>9
  <1> QED BY <1>9, <1>10 DEF s, t, l

\* A new segment reads as the chain it continues.
LEMMA HeaderScan ==
  ASSUME NEW h \in HeadSet
  PROVE  LET t == Scan(<<Header(h)>>)
         IN  ~t.forged /\ t.head = h /\ t.pending = <<>> /\ t.batches = 0
  <1> DEFINE l == Header(h)
             t == Scan(<<l>>)
  <1>1. l \in Line /\ l.kind = "header" /\ l.seq = h.next_seq /\ l.prev = h.hash
    BY DEF Header, Line, HeaderLine, HeadSet
  <1>2. t = ScanLine(ScanStart, 1, l)
    <2>1. <<>> \in Seq(Line) /\ Append(<<>>, l) = <<l>> /\ Len(<<>>) + 1 = 1
      BY <1>1
    <2> HIDE DEF l
    <2>2. Scan(Append(<<>>, l)) = ScanLine(Scan(<<>>), Len(<<>>) + 1, l)
      BY <1>1, <2>1, ScanAppend, Zenon
    <2> QED BY <2>1, <2>2, ScanEmpty
  <1> HIDE DEF l, t
  <1>3. ~ScanStart.forged /\ ScanStart.pending = <<>> /\ ScanStart.batches = 0
    BY DEF ScanStart
  <1>4. t = [ScanStart EXCEPT !.head = [next_seq |-> l.seq, hash |-> l.prev], !.end = 1]
    BY <1>1, <1>2, <1>3 DEF ScanLine
  <1>5. ~t.forged /\ t.head = [next_seq |-> l.seq, hash |-> l.prev] /\ t.pending = <<>> /\ t.batches = 0
    BY <1>4 DEF ScanStart
  <1>6. [next_seq |-> h.next_seq, hash |-> h.hash] = h
    BY DEF HeadSet
  <1> QED BY <1>1, <1>5, <1>6 DEF l, t

-----------------------------------------------------------------------------
(* The chain through the writer's steps *)

GoodLog == ChainInv /\ SyncInv /\ SealedInv

\* The newest segment becomes d...
JoinsAt(fs, c, d) ==
  \E h \in HeadSet : /\ Precedes(fs, c, h) /\ h.next_seq = c
                     /\ Complete(d) # <<>> => d[1].prev = h.hash

\* It stays a chain when d goes on from the segments before.
LEMMA LinkedPut ==
  ASSUME NEW fs, NEW sy, DiskOk(fs, sy), Linked(fs), NEW c \in DOMAIN fs, Topped(fs, c),
         NEW d, ~Scan(Complete(d)).forged, JoinsAt(fs, c, d)
  PROVE  Linked([fs EXCEPT ![c] = d])
  <1> DEFINE gs == [fs EXCEPT ![c] = d]
  <1>1. DOMAIN gs = DOMAIN fs /\ gs[c] = d /\ \A f \in DOMAIN fs : f # c => gs[f] = fs[f]
    BY Zenon
  <1>2. c \in Nat
    BY DEF Topped
  <1> HIDE DEF gs
  <1>3. AgreeBelow(fs, gs, c)
    BY <1>1, <1>2 DEF AgreeBelow
  <1>4. Topped(gs, c)
    BY <1>1 DEF Topped
  <1>5. Joined(gs, c)
    <2>1. PICK h \in HeadSet : /\ Precedes(fs, c, h) /\ h.next_seq = c
                               /\ Complete(d) # <<>> => d[1].prev = h.hash
      BY DEF JoinsAt
    <2>2. Precedes(gs, c, h)
      BY <1>3, <2>1, PrecedesFrame
    <2> QED BY <1>1, <2>1, <2>2, Zenon DEF Joined, Body
  <1>6. TopOk(fs, gs, c)
    <2>1. ~Read(gs, c).forged
      BY <1>1 DEF Read, Body
    <2>2. \A f \in DOMAIN fs : f < c => Whole(fs, f)
      BY <1>2 DEF Linked, Topped
    <2> QED BY <1>5, <2>1, <2>2 DEF TopOk
  <1>7. Linked(gs)
    BY <1>2, <1>3, <1>4, <1>6, LinkedTop
  <1> QED BY <1>7 DEF gs

\* ... or goes.
LEMMA LinkedWithout ==
  ASSUME NEW fs, Linked(fs), NEW c \in DOMAIN fs, Topped(fs, c)
  PROVE  Linked(Without(fs, c))
  <1> DEFINE gs == Without(fs, c)
  <1>1. DOMAIN gs = DOMAIN fs \ {c} /\ \A f \in DOMAIN gs : gs[f] = fs[f]
    BY DEF Without
  <1>2. c \in Nat
    BY DEF Topped
  <1> HIDE DEF gs
  <1>3. AgreeBelow(fs, gs, c) /\ Topped(gs, c) /\ TopOk(fs, gs, c)
    BY <1>1, <1>2 DEF AgreeBelow, Topped, TopOk
  <1>4. Linked(gs)
    BY <1>2, <1>3, LinkedTop
  <1> QED BY <1>4 DEF gs

\* The newest segment has none above it.
LEMMA TopIsTopped ==
  ASSUME DiskOk(files, synced), NEW c, \A f \in DOMAIN files : f <= c
  PROVE  Topped(files, c)
  BY DEF DiskOk, Topped

\* What is known of the segment being written.
LEMMA RunFacts ==
  ASSUME DirInv, ChainInv, pc \in RunPc
  PROVE  /\ cur \in Nat /\ cur \in DOMAIN files /\ Topped(files, cur)
         /\ files[cur] \in Seq(Line) /\ buf \in Seq(Line) /\ Logical \in Seq(Line)
         /\ Headed(files[cur], cur) /\ Headed(Logical, cur) /\ ~Scan(Logical).forged
         /\ Complete(files[cur]) = files[cur] /\ Complete(Logical) = Logical
         /\ Len(files[cur]) \in 1..Len(Logical) /\ files[cur] = Pre(Logical, Len(files[cur]))
         /\ files[cur][1] = Logical[1] /\ files[cur] # <<>> /\ Len(Logical) \in Nat
         /\ \A i \in 1..Len(files[cur]) : Logical[i] = files[cur][i]
  <1>1. cur \in DOMAIN files /\ Headed(files[cur], cur) /\ DiskOk(files, synced) /\ buf \in Seq(Line)
    BY DEF DirInv, PlaceInv, RunPlace, WriterOk
  <1>2. cur \in Nat /\ files[cur] \in Seq(Line) /\ Len(files[cur]) \in Nat
    BY <1>1, DiskFacts
  <1>3. Running
    BY DEF ChainInv
  <1>4. Topped(files, cur) /\ ~Scan(Logical).forged
    BY <1>1, <1>3, TopIsTopped DEF Running
  <1>5. /\ Logical \in Seq(Line) /\ Len(Logical) = Len(files[cur]) + Len(buf) /\ Len(buf) \in Nat
        /\ \A i \in 1..Len(files[cur]) : Logical[i] = files[cur][i]
        /\ files[cur] # <<>> => Logical # <<>> /\ Logical[1] = files[cur][1]
    BY <1>1, <1>2, Extended DEF Logical
  <1>6. files[cur] # <<>> /\ Headed(Logical, cur)
    BY <1>1, <1>5 DEF Headed
  <1>7. Len(files[cur]) \in 1..Len(Logical) /\ Len(Logical) \in Nat
    BY <1>2, <1>5, <1>6, SeqEmpty
  <1>8. files[cur] = Pre(Logical, Len(files[cur]))
    <2> DEFINE n == Len(files[cur])
    <2>1. n \in 0..Len(files[cur]) /\ n <= Len(Logical)
      BY <1>2, <1>7
    <2>2. Pre(files[cur], n) = files[cur]
      BY <1>2, <2>1, PreFacts
    <2>3. Pre(files[cur], n) = Pre(Logical, n)
      BY <1>2, <1>5, <2>1, PreEqual
    <2> QED BY <2>2, <2>3
  <1>9. Complete(files[cur]) = files[cur]
    <2>1. Complete(Pre(Logical, Len(files[cur]))) = Pre(Logical, Len(files[cur]))
      BY <1>2, <1>4, <1>5, <1>6, <1>7, PrefixOk
    <2> QED BY <1>8, <2>1
  <1>10. Complete(Logical) = Logical
    BY <1>2, <1>4, <1>5, <1>6, NoTornInside
  <1> QED BY <1>1, <1>2, <1>4, <1>5, <1>6, <1>7, <1>8, <1>9, <1>10

\* The buffer is written out.
LEMMA GrownLog ==
  ASSUME DirInv, ChainInv, pc \in RunPc
  PROVE  /\ DOMAIN Grown(buf) = DOMAIN files /\ Grown(buf)[cur] = Logical
         /\ \A f \in DOMAIN files : f # cur => Grown(buf)[f] = files[f]
         /\ Linked(Grown(buf))
         /\ HasBatch(files, synced) => HasBatch(Grown(buf), synced)
  <1> DEFINE gs == Grown(buf)
  <1>0. /\ cur \in Nat /\ cur \in DOMAIN files /\ Topped(files, cur)
        /\ files[cur] \in Seq(Line) /\ Logical \in Seq(Line)
        /\ ~Scan(Logical).forged /\ files[cur] # <<>>
        /\ Complete(files[cur]) = files[cur] /\ Complete(Logical) = Logical
        /\ files[cur][1] = Logical[1] /\ Len(Logical) \in Nat
        /\ Len(files[cur]) \in 1..Len(Logical)
        /\ \A i \in 1..Len(files[cur]) : Logical[i] = files[cur][i]
    BY RunFacts
  <1>1. gs = [files EXCEPT ![cur] = Logical]
    BY DEF Grown, Logical
  <1>2. DiskOk(files, synced) /\ Linked(files)
    BY DEF DirInv, ChainInv
  <1>3. DOMAIN gs = DOMAIN files /\ gs[cur] = Logical /\ \A f \in DOMAIN files : f # cur => gs[f] = files[f]
    BY <1>0, <1>1, Zenon
  <1>4. JoinsAt(files, cur, Logical)
    <2>1. Joined(files, cur)
      BY <1>0, <1>2 DEF Linked
    <2>2. PICK h \in HeadSet : /\ Precedes(files, cur, h) /\ h.next_seq = cur
                               /\ Body(files, cur) # <<>> => files[cur][1].prev = h.hash
      BY <2>1 DEF Joined
    <2>3. Logical[1].prev = h.hash
      BY <1>0, <2>2 DEF Body
    <2> QED BY <2>2, <2>3, Zenon DEF JoinsAt
  <1>5. Linked(gs)
    <2>1. ~Scan(Complete(Logical)).forged
      BY <1>0
    <2>2. Linked([files EXCEPT ![cur] = Logical])
      BY <1>0, <1>2, <1>4, <2>1, LinkedPut
    <2> QED BY <1>1, <2>2
  <1>6. ASSUME HasBatch(files, synced) PROVE HasBatch(gs, synced)
    <2>1. PICK f \in DOMAIN files : SealedIn(files, synced, f)
      BY <1>6 DEF HasBatch
    <2> HIDE DEF gs
    <2>2. CASE f # cur
      <3>1. SealedIn(gs, synced, f)
        BY <1>3, <2>1, <2>2 DEF SealedIn, Durable, Body
      <3> QED BY <1>3, <3>1 DEF HasBatch
    <2>3. CASE f = cur
      <3> DEFINE n == Durable(files, synced, cur)
                 m == Durable(gs, synced, cur)
      <3>1. synced[cur] \in 0..Len(files[cur])
        BY <1>0, <1>2, DiskFacts
      <3>2. n \in 0..Len(files[cur]) /\ m \in n..Len(Logical)
        <4>1. CASE "power" \in world
          BY <1>0, <3>1, <4>1 DEF Durable
        <4>2. CASE "power" \notin world
          BY <1>0, <1>3, <4>2 DEF Durable, Body
        <4> QED BY <4>1, <4>2
      <3>3. Scan(Pre(files[cur], n)).batches > 0
        BY <2>1, <2>3 DEF SealedIn
      <3>4. \A i \in 1..n : files[cur][i] = Logical[i]
        BY <1>0, <3>2
      <3> HIDE DEF n, m
      <3>5. Scan(Pre(Logical, m)).batches > 0
        BY <1>0, <3>2, <3>3, <3>4, BatchesStay
      <3>6. SealedIn(gs, synced, cur)
        BY <1>3, <3>5 DEF SealedIn, m
      <3> QED BY <1>0, <1>3, <3>6 DEF HasBatch
    <2> QED BY <2>2, <2>3
  <1> QED BY <1>3, <1>5, <1>6

\* A running writer goes on running.
LEMMA RunLog ==
  ASSUME DirInv, GoodLog, pc \in RunPc, pc' \in RunPc, cur' = cur, head' = head, exported' = exported,
         world' = world, forged' = forged, synced' = synced, files' = files \/ files' = Grown(buf),
         ~Scan(Logical').forged, pc' \in {"run", "seal"} => Collecting', pc' \in {"flush", "sync"} => Sealing'
  PROVE  GoodLog'
  <1>1. ChainInv /\ SyncInv /\ SealedInv /\ Running
    BY DEF GoodLog, ChainInv
  <1>2. /\ DOMAIN files' = DOMAIN files /\ \A f \in DOMAIN files : f # cur => files'[f] = files[f]
        /\ Linked(files')
        /\ HasBatch(files, synced) => HasBatch(files', synced)
    <2>1. CASE files' = files
      BY <1>1, <2>1 DEF ChainInv
    <2>2. CASE files' = Grown(buf)
      BY <1>1, <2>2, GrownLog
    <2> QED BY <2>1, <2>2
  <1>3. pc' \notin {"start", "header"} /\ pc' # "start" /\ ~Settled' /\ ~Settled
    BY DEF RunPc, Settled
  <1>4. Running'
    BY <1>1, <1>2 DEF Running
  <1>5. ChainInv'
    BY <1>1, <1>2, <1>3, <1>4 DEF ChainInv
  <1>6. SyncInv'
    <2> SUFFICES ASSUME "power" \in world, NEW f \in DOMAIN files', Settled' \/ \E g \in DOMAIN files' : g > f
                 PROVE  synced'[f] = Len(files'[f])
      BY DEF SyncInv
    <2>1. PICK g \in DOMAIN files : g > f
      BY <1>2, <1>3
    <2>2. f # cur /\ f \in DOMAIN files
      <3>1. Topped(files, cur) /\ cur \in Nat
        BY <1>1, RunFacts
      <3> QED BY <1>2, <2>1, <3>1 DEF Topped
    <2>3. synced[f] = Len(files[f])
      BY <1>1, <2>1, <2>2 DEF SyncInv
    <2> QED BY <1>2, <2>2, <2>3
  <1>7. SealedInv'
    <2>1. Claimed' => Claimed
      BY DEF Claimed
    <2>2. (HasBatch(files, synced))' = HasBatch(files', synced)
      BY DEF HasBatch, SealedIn, Durable
    <2> QED BY <1>1, <1>2, <2>1, <2>2 DEF SealedInv
  <1> QED BY <1>5, <1>6, <1>7 DEF GoodLog

\* A line appended to what is still to be written is appended to the whole.
LEMMA ConcatAppend ==
  ASSUME NEW c \in Seq(Line), NEW d \in Seq(Line), NEW l \in Line
  PROVE  c \o Append(d, l) = Append(c \o d, l) /\ (c \o d) \o <<l>> = Append(c \o d, l)
  <1>1. Append(d, l) = d \o <<l>> /\ <<l>> \in Seq(Line) /\ c \o d \in Seq(Line)
    BY SeqConcat
  <1>2. (c \o d) \o <<l>> = Append(c \o d, l)
    BY <1>1
  <1>3. c \o (d \o <<l>>) = (c \o d) \o <<l>>
    BY <1>1, SeqConcatTwice
  <1> QED BY <1>1, <1>2, <1>3

\* The log stays a chain through append.
LEMMA AppendLog == ASSUME DirInv, GoodLog, AppendRecord PROVE GoodLog'
  <1> DEFINE l == Record(appended + 1)
             L == Logical
  <1>1. /\ pc = "run" /\ pc \in RunPc /\ pc' \in {"run", "seal"} /\ pc' \in RunPc
        /\ pending' = Append(pending, appended + 1)
        /\ synced' = synced /\ forged' = forged /\ cur' = cur /\ head' = head /\ exported' = exported /\ world' = world
    BY DEF AppendRecord, RunPc
  <1>2. WriterOk /\ l \in Line /\ appended + 1 \in Nat
    BY WriterLines DEF DirInv
  <1>3. /\ files[cur] \in Seq(Line) /\ buf \in Seq(Line) /\ L \in Seq(Line) /\ Headed(L, cur) /\ ~Scan(L).forged
        /\ cur \in Nat /\ cur \in DOMAIN files
    BY <1>1, RunFacts DEF GoodLog
  <1>4. files' = files \/ files' = Grown(buf)
    BY Zenon DEF AppendRecord, Grown
  <1>5. Logical' = Append(L, l)
    <2>1. CASE files' = files /\ buf' = Append(buf, l)
      BY <1>1, <1>2, <1>3, <2>1, ConcatAppend DEF Logical
    <2>2. CASE files' = Grown(buf) /\ buf' = <<l>>
      <3>1. files'[cur] = L
        BY <1>1, <2>2, GrownLog DEF GoodLog
      <3>2. (files[cur] \o buf) \o <<l>> = Append(files[cur] \o buf, l)
        BY <1>2, <1>3, ConcatAppend
      <3> QED BY <1>1, <2>2, <3>1, <3>2 DEF Logical
    <2> QED BY <2>1, <2>2, Zenon DEF AppendRecord, Grown
  <1> HIDE DEF L
  <1>6. LET t == Scan(Append(L, l))
        IN  ~t.forged /\ t.head = Scan(L).head /\ t.pending = Append(Scan(L).pending, appended + 1)
    BY <1>2, <1>3, RecordScan
  <1>7. Scan(L).head = head /\ Scan(L).pending = pending
    BY <1>1 DEF GoodLog, ChainInv, Collecting, L
  <1>8. ~Scan(Logical').forged /\ Collecting'
    BY <1>1, <1>5, <1>6, <1>7 DEF Collecting
  <1> QED BY <1>1, <1>4, <1>8, RunLog

\* The log stays a chain through a tick.
LEMMA TickLog == ASSUME DirInv, GoodLog, Tick PROVE GoodLog'
  <1>1. /\ pc = "run" /\ pc \in RunPc /\ pc' = "seal" /\ pc' \in RunPc
        /\ UNCHANGED <<disk, cur, head, exported, world, buf, pending>>
    BY DEF Tick, RunPc
  <1>2. Logical' = Logical /\ UNCHANGED <<files, synced, forged>>
    BY <1>1 DEF Logical, disk
  <1>3. ~Scan(Logical).forged /\ Collecting
    BY <1>1 DEF GoodLog, ChainInv, Running
  <1>4. ~Scan(Logical').forged /\ Collecting'
    BY <1>1, <1>2, <1>3 DEF Collecting
  <1> QED BY <1>1, <1>2, <1>4, RunLog

\* The log stays a chain through seal's write.
LEMMA SealWriteLog == ASSUME DirInv, GoodLog, SealWrite PROVE GoodLog'
  <1> DEFINE l == Trailer(head, pending)
             L == Logical
  <1>1. /\ pc = "seal" /\ pc \in RunPc /\ pc' = "flush" /\ pc' \in RunPc /\ buf' = Append(buf, l)
        /\ UNCHANGED <<disk, cur, head, exported, world, pending>>
    BY DEF SealWrite, RunPc
  <1>2. l \in Line
    BY WriterLines DEF DirInv
  <1>3. /\ files[cur] \in Seq(Line) /\ buf \in Seq(Line) /\ L \in Seq(Line) /\ Headed(L, cur) /\ ~Scan(L).forged
        /\ cur \in Nat
    BY <1>1, RunFacts DEF GoodLog
  <1>4. Scan(L).head = head /\ Scan(L).pending = pending
    BY <1>1 DEF GoodLog, ChainInv, Collecting
  <1>5. UNCHANGED <<files, synced, forged>>
    BY <1>1 DEF disk
  <1>6. Logical' = Append(L, l)
    <2> HIDE DEF l
    <2>1. files[cur] \o Append(buf, l) = Append(files[cur] \o buf, l)
      BY <1>2, <1>3, ConcatAppend, Zenon
    <2> QED BY <1>1, <1>5, <2>1 DEF Logical
  <1> HIDE DEF L
  <1>7. LET t == Scan(Append(L, l))
        IN  /\ ~t.forged /\ t.pending = <<>>
            /\ t.head = [next_seq |-> head.next_seq + 1, hash |-> BatchHash(head.hash, head.next_seq, pending)]
    BY <1>3, <1>4, BatchScan
  <1>8. ~Scan(Logical').forged /\ Sealing'
    BY <1>1, <1>6, <1>7 DEF Sealing, NextHead
  <1> QED BY <1>1, <1>5, <1>8, RunLog

\* The log stays a chain through its flush.
LEMMA SealFlushLog == ASSUME DirInv, GoodLog, SealFlush PROVE GoodLog'
  <1>1. /\ pc = "flush" /\ pc \in RunPc /\ pc' = "sync" /\ pc' \in RunPc /\ buf' = <<>> /\ files' = Grown(buf)
        /\ UNCHANGED <<synced, forged, cur, head, exported, world, pending>>
    BY DEF SealFlush, RunPc, Grown
  <1>2. files'[cur] = Logical /\ Logical \in Seq(Line) /\ ~Scan(Logical).forged
    BY <1>1, GrownLog, RunFacts DEF GoodLog
  <1>3. Logical' = Logical
    BY <1>1, <1>2, SeqConcatEmpty DEF Logical
  <1>4. Sealing
    BY <1>1 DEF GoodLog, ChainInv
  <1>5. ~Scan(Logical').forged /\ Sealing'
    BY <1>1, <1>2, <1>3, <1>4 DEF Sealing, NextHead
  <1> QED BY <1>1, <1>5, RunLog

\* The log stays a chain through its sync.
LEMMA SealSyncLog == ASSUME DirInv, GoodLog, SealSync PROVE GoodLog'
  <1> DEFINE d == files[cur]
  <1>1. /\ pc = "sync" /\ pc \in RunPc /\ pc' \in {"run", "start"} /\ synced' = [synced EXCEPT ![cur] = Len(files[cur])]
        /\ head' = NextHead /\ pending' = <<>> /\ UNCHANGED <<files, forged, cur, buf, world>>
    BY DEF SealSync, RunPc, NextHead
  <1>2. /\ cur \in Nat /\ cur \in DOMAIN files /\ Topped(files, cur) /\ d \in Seq(Line) /\ d # <<>>
        /\ Headed(d, cur) /\ Complete(d) = d /\ Logical \in Seq(Line) /\ ~Scan(Logical).forged
    BY <1>1, RunFacts DEF GoodLog
  <1>3. buf = <<>> /\ Above /\ DiskOk(files, synced)
    BY <1>1 DEF DirInv, PlaceInv, RunPlace
  <1>4. Logical = d
    BY <1>2, <1>3, SeqConcatEmpty DEF Logical
  <1>5. Scan(d).head = NextHead /\ Scan(d).pending = <<>> /\ ~Scan(d).forged /\ Linked(files) /\ forged = {}
    BY <1>1, <1>2, <1>4 DEF GoodLog, ChainInv, Sealing
  <1>6. DOMAIN synced = DOMAIN files /\ synced'[cur] = Len(d) /\ \A f \in DOMAIN files : f # cur => synced'[f] = synced[f]
    BY <1>1, <1>2, <1>3 DEF DiskOk
  <1>7. Scan(d).batches > 0
    <2>1. Scan(d).head.next_seq = cur + Scan(d).batches
      BY <1>2, ScanPlace DEF Headed
    <2>2. NextHead.next_seq = head.next_seq + 1 /\ head.next_seq \in Nat /\ cur <= head.next_seq
      BY <1>2, <1>3 DEF NextHead, Above
    <2>3. Scan(d).batches \in Nat
      BY <1>2, ScanType DEF ScanState
    <2> QED BY <1>2, <1>5, <2>1, <2>2, <2>3
  <1>8. SealedInv'
    <2>1. Durable(files, synced, cur)' = Len(d)
      BY <1>1, <1>2, <1>6 DEF Durable, Body
    <2>2. Pre(d, Len(d)) = d
      <3>1. Len(d) \in 0..Len(d)
        BY <1>2, SeqLength
      <3> QED BY <1>2, <3>1, PreFacts
    <2>3. SealedIn(files, synced, cur)'
      BY <1>1, <1>7, <2>1, <2>2 DEF SealedIn
    <2>4. HasBatch(files, synced)'
      BY <1>1, <1>2, <2>3 DEF HasBatch
    <2> QED BY <2>4 DEF SealedInv
  <1>9. SyncInv'
    <2> SUFFICES ASSUME "power" \in world, NEW f \in DOMAIN files PROVE synced'[f] = Len(files[f])
      BY <1>1 DEF SyncInv
    <2>1. CASE f = cur
      BY <1>6, <2>1
    <2>2. CASE f # cur
      <3>1. cur > f
        BY <1>2, <2>2 DEF Topped
      <3>2. synced[f] = Len(files[f])
        BY <1>2, <3>1 DEF GoodLog, SyncInv
      <3> QED BY <1>6, <2>2, <3>2
    <2> QED BY <2>1, <2>2
  <1>10. Linked(files)' /\ Logical' = Logical /\ (\A f \in DOMAIN files' : f <= cur')
    BY <1>1, <1>2, <1>5 DEF Logical, Topped, Linked, Joined, Precedes, Whole, Read, Body
  <1>11. CASE pc' = "run"
    <2>1. Running' /\ Collecting'
      BY <1>1, <1>2, <1>4, <1>5, <1>10 DEF Running, Collecting
    <2>2. ChainInv'
      BY <1>1, <1>5, <1>10, <1>11, <2>1 DEF ChainInv, RunPc
    <2> QED BY <1>8, <1>9, <2>2 DEF GoodLog
  <1>12. CASE pc' = "start"
    <2>1. head'.next_seq = head.next_seq + 1 /\ head.next_seq \in Nat /\ cur <= head.next_seq
      BY <1>1, <1>2, <1>3 DEF NextHead, Above
    <2>2. head'.next_seq \notin DOMAIN files /\ cur < head'.next_seq /\ \A g \in DOMAIN files : g <= cur
      BY <1>2, <2>1 DEF Topped
    <2>3. Read(files, cur).head = head'
      BY <1>1, <1>2, <1>5 DEF Read, Body
    <2>4. Precedes(files, head'.next_seq, head')
      BY <1>2, <2>2, <2>3 DEF Precedes
    <2>5. AtStart'
      BY <1>1, <2>2, <2>4 DEF AtStart, Precedes, Read, Body
    <2>6. \A f \in DOMAIN files : Whole(files, f)
      <3>1. Whole(files, cur)
        <4>1. ~IsTorn(d)
          BY <1>2, <1>5, NoTornInside
        <4> QED BY <1>2, <1>5, <4>1 DEF Whole, Read, Body
      <3>2. \A f \in DOMAIN files : f # cur => cur > f
        BY <1>2 DEF Topped
      <3> QED BY <1>2, <1>5, <3>1, <3>2 DEF Linked
    <2>7. AllWhole'
      BY <1>1, <2>6 DEF AllWhole, Whole, Read, Body
    <2>8. ChainInv'
      BY <1>1, <1>5, <1>10, <1>12, <2>5, <2>7 DEF ChainInv, RunPc
    <2> QED BY <1>8, <1>9, <2>8 DEF GoodLog
  <1> QED BY <1>1, <1>11, <1>12

\* What is durable of a segment is read again.
LEMMA SealedReads ==
  ASSUME NEW fs, NEW sy, DiskOk(fs, sy), NEW f \in DOMAIN fs, SealedIn(fs, sy, f)
  PROVE  Read(fs, f).batches > 0 /\ Body(fs, f) # <<>> /\ fs[f] # <<>>
  <1> DEFINE data == fs[f]
             n == Durable(fs, sy, f)
             m == Len(data) - 1
  <1>1. data \in Seq(Line) /\ Len(data) \in Nat /\ sy[f] \in 0..Len(data)
    BY DiskFacts
  <1>2. /\ Complete(data) \in Seq(Line) /\ Len(Complete(data)) <= Len(data)
        /\ IsTorn(data) => Complete(data) = Pre(data, Len(data) - 1) /\ Len(Complete(data)) = Len(data) - 1
        /\ ~IsTorn(data) => Complete(data) = data
    BY <1>1, Completed
  <1>3. Len(Complete(data)) \in Nat
    BY <1>2, SeqLength
  <1>4. n \in 0..Len(data) /\ ("power" \notin world => n = Len(Complete(data)))
    BY <1>1, <1>2, <1>3 DEF Durable, Body
  <1>5. Scan(Pre(data, n)).batches > 0
    BY DEF SealedIn
  <1>6. Len(data) \in 0..Len(data) /\ Pre(data, Len(data)) = data
    BY <1>1, PreFacts
  <1> HIDE DEF n
  <1>7. Scan(Complete(data)).batches > 0
    <2>1. CASE ~IsTorn(data)
      <3>1. Len(data) \in n..Len(data)
        BY <1>1, <1>4
      <3>2. /\ Scan(Pre(data, n)).batches <= Scan(Pre(data, Len(data))).batches
            /\ Scan(Pre(data, n)).batches \in Nat /\ Scan(Pre(data, Len(data))).batches \in Nat
        BY <1>1, <1>4, <3>1, ScanMono
      <3> QED BY <1>2, <1>5, <1>6, <2>1, <3>2
    <2>2. CASE IsTorn(data)
      <3>1. m \in Nat /\ m < Len(data) /\ m + 1 = Len(data) /\ m \in 0..Len(data) /\ Complete(data) = Pre(data, m)
        BY <1>1, <1>2, <1>3, <2>2
      <3>2. data[m + 1] = Torn
        BY <2>2, <3>1 DEF IsTorn
      <3> HIDE DEF m
      <3>3. CASE n <= m
        <4>1. m \in n..Len(data)
          BY <1>4, <3>1, <3>3
        <4>2. /\ Scan(Pre(data, n)).batches <= Scan(Pre(data, m)).batches
              /\ Scan(Pre(data, n)).batches \in Nat /\ Scan(Pre(data, m)).batches \in Nat
          BY <1>1, <1>4, <4>1, ScanMono
        <4> QED BY <1>5, <3>1, <4>2
      <3>4. CASE n > m
        <4>1. n = m + 1
          BY <1>1, <1>4, <3>1, <3>4
        <4>2. LET s == Scan(Pre(data, m))
                  t == Scan(Pre(data, m + 1))
              IN  \/ Skipped(s, m + 1, t) \/ HeaderRead(s, m + 1, data[m + 1], t) \/ BatchRead(s, m + 1, data[m + 1], t)
                  \/ RecordRead(s, m + 1, data[m + 1], t) \/ Refused(s, m + 1, data[m + 1], t)
          BY <1>1, <3>1, ScanStep
        <4>3. ~BatchRead(Scan(Pre(data, m)), m + 1, data[m + 1], Scan(Pre(data, m + 1)))
          BY <3>2 DEF BatchRead, Torn
        <4>4. Scan(Pre(data, m + 1)).batches = Scan(Pre(data, m)).batches
          BY <4>2, <4>3, Zenon DEF Skipped, HeaderRead, RecordRead, Refused
        <4> QED BY <1>5, <3>1, <4>1, <4>4
      <3> QED BY <1>4, <3>1, <3>3, <3>4
    <2> QED BY <2>1, <2>2
  <1>8. Complete(data) # <<>>
    <2>1. ScanStart.batches = 0
      BY DEF ScanStart
    <2> QED BY <1>7, <2>1, ScanEmpty
  <1>9. data # <<>>
    BY <1>8 DEF Complete, IsTorn
  <1> QED BY <1>7, <1>8, <1>9 DEF Read, Body

\* A batch that is on the disk stays there when its segment stays.
LEMMA SealedElsewhere ==
  ASSUME NEW fs, NEW sy, NEW gs, NEW ty, HasBatch(fs, sy), NEW c,
         c \in DOMAIN fs => ~SealedIn(fs, sy, c),
         \A f \in DOMAIN fs : f # c => f \in DOMAIN gs /\ gs[f] = fs[f] /\ ty[f] = sy[f]
  PROVE  HasBatch(gs, ty)
  <1>1. PICK f \in DOMAIN fs : SealedIn(fs, sy, f)
    BY DEF HasBatch
  <1>2. f # c
    BY <1>1
  <1>3. f \in DOMAIN gs /\ gs[f] = fs[f] /\ ty[f] = sy[f]
    BY <1>2
  <1>4. SealedIn(gs, ty, f)
    BY <1>1, <1>3 DEF SealedIn, Durable, Body
  <1> QED BY <1>3, <1>4 DEF HasBatch

\* The log stays a chain through start_segment.
LEMMA StartSegmentLog == ASSUME DirInv, GoodLog, StartSegment PROVE GoodLog'
  <1> DEFINE n == head.next_seq
  <1>1. /\ pc = "start" /\ pc' = "header" /\ files' = With(files, n, <<>>) /\ synced' = With(synced, n, 0)
        /\ UNCHANGED <<forged, pending, head, exported, world>>
    BY DEF StartSegment
  <1>2. DiskOk(files, synced) /\ Above /\ AtStart /\ AllWhole /\ Linked(files) /\ forged = {} /\ pending = <<>> /\ head \in HeadSet
    BY <1>1 DEF DirInv, PlaceInv, BetweenPlace, GoodLog, ChainInv, WriterOk, RunPc
  <1>3. n \in Nat /\ Topped(files, n) /\ DOMAIN synced = DOMAIN files
    BY <1>2 DEF Above, Topped, DiskOk
  <1>4. /\ DOMAIN files' = DOMAIN files \cup {n} /\ files'[n] = <<>>
        /\ \A f \in DOMAIN files : f # n => f \in DOMAIN files' /\ files'[f] = files[f] /\ synced'[f] = synced[f]
    BY <1>1, <1>3 DEF With
  <1>5. AgreeBelow(files, files', n)
    BY <1>3, <1>4 DEF AgreeBelow
  <1>6. Topped(files', n)
    BY <1>3, <1>4 DEF Topped
  <1>7. Precedes(files, n, head)
    BY <1>2 DEF AtStart
  <1>8. Precedes(files', n, head)
    BY <1>5, <1>7, PrecedesFrame
  <1>9. Body(files', n) = <<>> /\ Read(files', n) = ScanStart
    BY <1>4, ScanEmpty DEF Body, Read, Complete, IsTorn
  <1>10. TopOk(files, files', n)
    <2>1. ~Read(files', n).forged
      BY <1>9 DEF ScanStart
    <2>2. Joined(files', n)
      BY <1>2, <1>8, <1>9 DEF Joined
    <2> QED BY <1>2, <2>1, <2>2 DEF TopOk, AllWhole
  <1>11. Linked(files')
    BY <1>2, <1>3, <1>5, <1>6, <1>10, LinkedTop
  <1>12. AtStart'
    <2>1. Read(files', n).batches = 0
      BY <1>9 DEF ScanStart
    <2> QED BY <1>1, <1>8, <2>1 DEF AtStart
  <1>13. ChainInv'
    BY <1>1, <1>2, <1>11, <1>12 DEF ChainInv, RunPc
  <1>14. SyncInv'
    <2> SUFFICES ASSUME "power" \in world, NEW f \in DOMAIN files', \E g \in DOMAIN files' : g > f
                 PROVE  synced'[f] = Len(files'[f])
      BY <1>1 DEF SyncInv, Settled
    <2>1. f # n
      BY <1>3, <1>6 DEF Topped
    <2>2. f \in DOMAIN files
      BY <1>4, <2>1
    <2>3. synced[f] = Len(files[f])
      BY <1>1, <2>2 DEF GoodLog, SyncInv, Settled
    <2> QED BY <1>4, <2>1, <2>2, <2>3
  <1>15. SealedInv'
    <2>1. Claimed' => Claimed
      BY <1>1 DEF Claimed
    <2>2. n \in DOMAIN files => ~SealedIn(files, synced, n)
      <3> SUFFICES ASSUME n \in DOMAIN files, SealedIn(files, synced, n) PROVE FALSE
        OBVIOUS
      <3>1. Read(files, n).batches > 0
        BY <1>2, SealedReads
      <3>2. Read(files, n).batches = 0
        BY <1>2 DEF AtStart
      <3> QED BY <3>1, <3>2
    <2>3. HasBatch(files, synced) => HasBatch(files', synced')
      <3> HIDE DEF n
      <3> QED BY <1>4, <2>2, SealedElsewhere
    <2>4. HasBatch(files, synced)' <=> HasBatch(files', synced')
      BY <1>1 DEF HasBatch, SealedIn, Durable
    <2> QED BY <2>1, <2>3, <2>4 DEF SealedInv, GoodLog
  <1> QED BY <1>13, <1>14, <1>15 DEF GoodLog

\* world stays, so what is durable depends on the directory alone.
LEMMA SealedFrame ==
  ASSUME world' = world
  PROVE  HasBatch(files, synced)' <=> HasBatch(files', synced')
  BY DEF HasBatch, SealedIn, Durable

\* The log stays a chain through its header.
LEMMA StartHeaderLog == ASSUME DirInv, GoodLog, StartHeader PROVE GoodLog'
  <1> DEFINE n == head.next_seq
             d == <<Header(head)>>
  <1>1. /\ pc = "header" /\ pc' = "run" /\ files' = [files EXCEPT ![n] = buf] /\ buf' = <<>> /\ cur' = n /\ exported' = head
        /\ UNCHANGED <<synced, forged, pending, head, world>>
    BY DEF StartHeader
  <1>2. /\ DiskOk(files, synced) /\ Above /\ AtStart /\ Linked(files) /\ forged = {} /\ pending = <<>> /\ head \in HeadSet
        /\ n \in DOMAIN files /\ files[n] = <<>> /\ buf = d /\ buf \in Seq(Line)
    BY <1>1 DEF DirInv, PlaceInv, BetweenPlace, HeaderPlace, GoodLog, ChainInv, WriterOk, RunPc
  <1>3. n \in Nat /\ Topped(files, n)
    BY <1>2 DEF Above, Topped, DiskOk
  <1>4. /\ DOMAIN files' = DOMAIN files /\ files'[n] = d
        /\ \A f \in DOMAIN files : f # n => f \in DOMAIN files' /\ files'[f] = files[f] /\ synced'[f] = synced[f]
    BY <1>1, <1>2
  <1>5. ~Scan(d).forged /\ Scan(d).head = head /\ Scan(d).pending = <<>>
    BY <1>2, HeaderScan
  <1>6. Headed(d, n) /\ d[1].prev = head.hash /\ d \in Seq(Line)
    BY <1>2 DEF Headed, Header
  <1> HIDE DEF d
  <1>7. Complete(d) = d
    BY <1>3, <1>5, <1>6, NoTornInside
  <1>8. JoinsAt(files, n, d)
    BY <1>2, <1>6 DEF JoinsAt, AtStart
  <1>9. Linked(files')
    <2>1. ~Scan(Complete(d)).forged
      BY <1>5, <1>7
    <2> HIDE DEF n
    <2>2. Linked([files EXCEPT ![n] = d])
      BY <1>2, <1>3, <1>8, <2>1, LinkedPut
    <2> QED BY <1>1, <1>2, <2>2
  <1>10. Logical' = d
    BY <1>1, <1>4, <1>6, SeqConcatEmpty DEF Logical
  <1>11. Running' /\ Collecting'
    BY <1>1, <1>2, <1>3, <1>4, <1>5, <1>10 DEF Running, Collecting, Topped
  <1>12. ChainInv'
    BY <1>1, <1>2, <1>9, <1>11 DEF ChainInv, RunPc
  <1>13. SyncInv'
    <2> SUFFICES ASSUME "power" \in world, NEW f \in DOMAIN files', \E g \in DOMAIN files' : g > f
                 PROVE  synced'[f] = Len(files'[f])
      BY <1>1 DEF SyncInv, Settled
    <2>1. f # n
      BY <1>3, <1>4 DEF Topped
    <2>2. f \in DOMAIN files /\ \E g \in DOMAIN files : g > f
      BY <1>4
    <2>3. synced[f] = Len(files[f])
      BY <2>2 DEF GoodLog, SyncInv
    <2> QED BY <1>4, <2>1, <2>2, <2>3
  <1>14. SealedInv'
    <2>1. Claimed' => Claimed
      BY <1>1 DEF Claimed, RunPc
    <2>2. ~SealedIn(files, synced, n)
      BY <1>2, SealedReads
    <2>3. HasBatch(files, synced) => HasBatch(files', synced')
      <3> HIDE DEF n
      <3> QED BY <1>4, <2>2, SealedElsewhere
    <2> QED BY <1>1, <2>1, <2>3, SealedFrame DEF SealedInv, GoodLog
  <1> QED BY <1>12, <1>13, <1>14 DEF GoodLog

\* A step of a writer that is not at work and that leaves the segments alone.
LEMMA IdleLog ==
  ASSUME GoodLog, pc \in {"down", "recover", "cut"}, pc' \in {"down", "recover", "cut"},
         UNCHANGED <<files, synced, forged, pending, exported, world>>
  PROVE  GoodLog'
  <1>1. Linked(files)' /\ forged' = {} /\ pending' = <<>>
    BY DEF GoodLog, ChainInv, RunPc, Linked, Joined, Precedes, Whole, Read, Body
  <1>2. ChainInv'
    BY <1>1 DEF ChainInv, RunPc
  <1>3. SyncInv'
    BY DEF GoodLog, SyncInv, Settled
  <1>4. SealedInv'
    <2>1. Claimed' => Claimed
      BY DEF Claimed, RunPc
    <2> QED BY <2>1, SealedFrame DEF GoodLog, SealedInv
  <1> QED BY <1>2, <1>3, <1>4 DEF GoodLog

\* The log stays a chain through Writer::open.
LEMMA OpenLog == ASSUME DirInv, GoodLog, Open PROVE GoodLog'
  BY IdleLog DEF Open, disk

\* The newest segment, found empty or without a header, is removed.
LEMMA RemovesLog ==
  ASSUME DirInv, GoodLog, pc \in {"recover", "cut"}, pc' = "recover", UNCHANGED <<forged, pending, exported, world>>,
         DOMAIN files # {}, files' = Without(files, Newest), synced' = Without(synced, Newest), Body(files, Newest) = <<>>
  PROVE  GoodLog'
  <1> DEFINE N == Newest
  <1>1. DiskOk(files, synced) /\ Linked(files) /\ forged = {} /\ pending = <<>>
    BY DEF DirInv, GoodLog, ChainInv, RunPc
  <1>2. N \in DOMAIN files /\ \A f \in DOMAIN files : f <= N
    BY <1>1, NewestFacts
  <1>3. Topped(files, N)
    BY <1>1, <1>2, TopIsTopped
  <1> HIDE DEF N
  <1>4. /\ DOMAIN files' = DOMAIN files \ {N}
        /\ \A f \in DOMAIN files : f # N => f \in DOMAIN files' /\ files'[f] = files[f] /\ synced'[f] = synced[f]
    BY <1>1 DEF Without, DiskOk, N
  <1>5. Linked(files')
    BY <1>1, <1>2, <1>3, LinkedWithout DEF N
  <1>6. ChainInv'
    BY <1>1, <1>5 DEF ChainInv, RunPc
  <1>7. SyncInv'
    BY <1>4 DEF GoodLog, SyncInv, Settled
  <1>8. SealedInv'
    <2>1. Claimed' => Claimed
      BY DEF Claimed, RunPc
    <2>2. ~SealedIn(files, synced, N)
      BY <1>1, <1>2, SealedReads DEF N
    <2>3. HasBatch(files, synced) => HasBatch(files', synced')
      BY <1>4, <2>2, SealedElsewhere
    <2> QED BY <2>1, <2>3, SealedFrame DEF GoodLog, SealedInv
  <1> QED BY <1>6, <1>7, <1>8 DEF GoodLog

\* A segment read to its end, with nothing torn, is durable once it is synced.
LEMMA ReadsSealed ==
  ASSUME NEW fs, NEW sy, DiskOk(fs, sy), NEW f \in DOMAIN fs, ~IsTorn(fs[f]), Read(fs, f).batches > 0,
         "power" \in world => sy[f] = Len(fs[f])
  PROVE  SealedIn(fs, sy, f)
  <1>1. fs[f] \in Seq(Line) /\ Len(fs[f]) \in Nat
    BY DiskFacts
  <1>2. Body(fs, f) = fs[f]
    BY DEF Body, Complete
  <1>3. Durable(fs, sy, f) = Len(fs[f])
    BY <1>2 DEF Durable
  <1>4. Len(fs[f]) \in 0..Len(fs[f])
    BY <1>1
  <1>5. Pre(fs[f], Len(fs[f])) = fs[f]
    BY <1>1, <1>4, PreFacts
  <1> QED BY <1>2, <1>3, <1>5 DEF SealedIn, Read

\* Where the writer takes up the chain: after the newest segment N.
LEMMA TakesUpChain ==
  ASSUME NEW fs, NEW sy, DiskOk(fs, sy), Linked(fs), NEW N \in DOMAIN fs, Topped(fs, N), Whole(fs, N), Headed(fs[N], N),
         Scan(fs[N]).batches = 0 => Len(fs[N]) = 1,
         "power" \in world => \A f \in DOMAIN fs : sy[f] = Len(fs[f])
  PROVE  LET h == Scan(fs[N]).head
         IN  /\ Precedes(fs, h.next_seq, h)
             /\ h.next_seq \in DOMAIN fs => Read(fs, h.next_seq).batches = 0
             /\ \A f \in DOMAIN fs : Whole(fs, f)
             /\ h.next_seq > 0 => HasBatch(fs, sy)
  <1> DEFINE d == fs[N]
             s == Scan(d)
             h == s.head
  <1>1. N \in Nat /\ d \in Seq(Line) /\ Len(d) \in Nat
    BY DiskFacts
  <1>2. Body(fs, N) = d /\ Read(fs, N) = s /\ ~s.forged
    BY DEF Whole, Body, Read, Complete, Linked
  <1>3. s \in ScanState /\ h.next_seq = N + s.batches /\ h # NoHead
    BY <1>1, ScanType, ScanPlace DEF Headed
  <1>4. s.batches \in Nat
    BY <1>3 DEF ScanState
  <1>5. \A f \in DOMAIN fs : Whole(fs, f)
    <2>1. \A f \in DOMAIN fs : f = N \/ N > f
      BY <1>1 DEF Topped
    <2> QED BY <2>1 DEF Linked
  <1>6. ASSUME NEW f \in DOMAIN fs, Read(fs, f).batches > 0 PROVE HasBatch(fs, sy)
    <2>1. ~IsTorn(fs[f])
      BY <1>5 DEF Whole
    <2>2. SealedIn(fs, sy, f)
      BY <1>6, <2>1, ReadsSealed
    <2> QED BY <2>2 DEF HasBatch
  <1>7. CASE s.batches > 0
    <2>1. Precedes(fs, h.next_seq, h)
      BY <1>1, <1>2, <1>3, <1>4, <1>7 DEF Precedes, Topped
    <2>2. h.next_seq \notin DOMAIN fs
      BY <1>1, <1>3, <1>4, <1>7 DEF Topped
    <2>3. HasBatch(fs, sy)
      BY <1>2, <1>6, <1>7
    <2> QED BY <1>5, <2>1, <2>2, <2>3
  <1>8. CASE s.batches = 0
    <2>1. h.next_seq = N /\ Len(d) = 1
      BY <1>1, <1>3, <1>8
    <2>2. PICK g \in HeadSet : Precedes(fs, N, g) /\ g.next_seq = N /\ d[1].prev = g.hash
      BY <1>1, <1>2 DEF Linked, Joined, Headed
    <2>3. d[1] \in HeaderLine
      <3>1. d[1] \in Line /\ d[1].kind = "header"
        BY <1>1, <2>1, SeqElements DEF Headed
      <3> QED BY <3>1 DEF Line, RecordLine, BatchLine, Torn
    <2>4. d[1] = Header(g)
      BY <2>2, <2>3 DEF Header, HeaderLine, Headed
    <2>5. d = <<Header(g)>>
      BY <1>1, <2>1, <2>4
    <2>6. h = g
      BY <2>2, <2>5, HeaderScan
    <2>7. Precedes(fs, h.next_seq, h)
      BY <2>1, <2>2, <2>6
    <2>8. Read(fs, h.next_seq).batches = 0
      BY <1>2, <1>8, <2>1
    <2>9. ASSUME h.next_seq > 0 PROVE HasBatch(fs, sy)
      <3>1. g # Genesis
        BY <2>6, <2>9 DEF Genesis
      <3>2. PICK p \in DOMAIN fs : p < N /\ g = Read(fs, p).head
        BY <2>2, <3>1 DEF Precedes
      <3> DEFINE q == Body(fs, p)
      <3>3. Whole(fs, p) /\ p \in Nat /\ Begun(fs[p], p) /\ fs[p] \in Seq(Line)
        BY <1>5, DiskFacts
      <3>4. q = fs[p] /\ q # <<>> /\ q # <<Torn>>
        BY <3>3 DEF Whole, Body, Complete, IsTorn
      <3>5. Headed(q, p)
        BY <3>3, <3>4 DEF Begun
      <3> HIDE DEF q
      <3>6. Scan(q).head.next_seq = p + Scan(q).batches /\ Scan(q).batches \in Nat
        BY <3>3, <3>4, <3>5, ScanPlace, ScanType DEF Headed, ScanState
      <3>7. Scan(q).head = g
        BY <3>2 DEF Read, q
      <3>8. Scan(q).batches > 0
        BY <1>1, <2>2, <3>2, <3>3, <3>6, <3>7
      <3>9. Read(fs, p).batches > 0
        BY <3>8 DEF Read, q
      <3> QED BY <1>6, <3>2, <3>9
    <2> QED BY <1>5, <2>7, <2>8, <2>9
  <1> QED BY <1>4, <1>7, <1>8

\* The writer takes up the chain after segment N, the newest.
LEMMA TakesUpLog ==
  ASSUME GoodLog, DiskOk(files', synced'), Linked(files'), forged' = {}, pending' = <<>>, world' = world, exported' = exported,
         pc' = "start", NEW N \in DOMAIN files', Topped(files', N), Whole(files', N), Headed(files'[N], N),
         Scan(files'[N]).batches = 0 => Len(files'[N]) = 1,
         "power" \in world => \A f \in DOMAIN files' : synced'[f] = Len(files'[f]),
         head' = Scan(files'[N]).head, HasBatch(files, synced) => HasBatch(files', synced')
  PROVE  GoodLog'
  <1>1. /\ Precedes(files', head'.next_seq, head')
        /\ head'.next_seq \in DOMAIN files' => Read(files', head'.next_seq).batches = 0
        /\ \A f \in DOMAIN files' : Whole(files', f)
        /\ head'.next_seq > 0 => HasBatch(files', synced')
    BY TakesUpChain
  <1>2. AtStart' /\ AllWhole'
    BY <1>1 DEF AtStart, AllWhole
  <1>3. ChainInv'
    BY <1>2 DEF ChainInv, RunPc
  <1>4. SyncInv'
    BY DEF SyncInv
  <1>5. Claimed' => Claimed \/ head'.next_seq > 0
    BY DEF Claimed
  <1>6. SealedInv'
    BY <1>1, <1>5, SealedFrame DEF GoodLog, SealedInv
  <1> QED BY <1>3, <1>4, <1>6 DEF GoodLog

\* The log stays a chain through recover.
LEMMA RecoverLog == ASSUME DirInv, GoodLog, Recover PROVE GoodLog'
  <1> DEFINE N == Newest
             data == files[N]
             c == Complete(data)
             s == Scan(c)
  <1>1. pc = "recover" /\ UNCHANGED <<pending, exported, world>>
    BY DEF Recover
  <1>2. /\ DiskOk(files, synced) /\ Linked(files) /\ forged = {} /\ pending = <<>>
        /\ "power" \in world => \A f \in DOMAIN files : synced[f] = Len(files[f])
    BY <1>1 DEF DirInv, GoodLog, ChainInv, SyncInv, RunPc, Settled
  <1>3. CASE DOMAIN files = {} /\ head' = Genesis /\ pc' = "start" /\ UNCHANGED disk
    <2>1. UNCHANGED <<files, synced, forged>>
      BY <1>3 DEF disk
    <2>2. AtStart'
      BY <1>3, <2>1 DEF AtStart, Precedes
    <2>3. AllWhole' /\ Linked(files') /\ Linked(files)'
      BY <1>3, <2>1 DEF AllWhole, Linked
    <2>4. ChainInv'
      BY <1>1, <1>2, <1>3, <2>1, <2>2, <2>3 DEF ChainInv, RunPc
    <2>5. SyncInv'
      BY <1>3, <2>1 DEF SyncInv
    <2>6. Claimed' => Claimed
      BY <1>1, <1>3 DEF Claimed, Genesis
    <2>7. ~HasBatch(files, synced)
      BY <1>3 DEF HasBatch
    <2>8. SealedInv'
      BY <2>6, <2>7 DEF SealedInv, GoodLog
    <2> QED BY <2>4, <2>5, <2>8 DEF GoodLog
  <1>4. ASSUME DOMAIN files # {}
        PROVE  /\ N \in DOMAIN files /\ N \in Nat /\ Topped(files, N) /\ data \in Seq(Line) /\ c \in Seq(Line)
               /\ Len(data) \in Nat /\ Len(c) \in Nat /\ Len(c) <= Len(data) /\ ~s.forged /\ s \in ScanState
               /\ s.head = NoHead => c = <<>> /\ s = ScanStart
               /\ s.head # NoHead => Headed(data, N) /\ (s.batches = 0 => s.end = 1)
    <2>1. N \in DOMAIN files /\ \A f \in DOMAIN files : f <= N
      BY <1>2, <1>4, NewestFacts
    <2>2. Topped(files, N)
      BY <1>2, <2>1, TopIsTopped
    <2>3. N \in Nat /\ data \in Seq(Line) /\ Len(data) \in Nat
      BY <1>2, <2>1, DiskFacts
    <2>4. c \in Seq(Line) /\ Len(c) <= Len(data) /\ Len(c) \in Nat
      BY <2>3, Completed, SeqLength
    <2>5. ~s.forged
      BY <1>2, <2>1 DEF Linked, Read, Body
    <2> QED BY <1>2, <2>1, <2>2, <2>3, <2>4, <2>5, RecoverScan
  <1>5. CASE /\ DOMAIN files # {} /\ data = <<>>
             /\ files' = Without(files, N) /\ synced' = Without(synced, N) /\ UNCHANGED <<aside, forged, head, pc>>
    <2>1. Body(files, N) = <<>>
      BY <1>5 DEF Body, Complete, IsTorn
    <2>2. pc \in {"recover", "cut"} /\ pc' = "recover" /\ UNCHANGED <<forged, pending, exported, world>>
      BY <1>1, <1>5
    <2> QED BY <1>5, <2>1, <2>2, RemovesLog
  <1>6. CASE DOMAIN files # {} /\ data # <<>> /\ s.end = Len(data) /\ head' = s.head /\ pc' = "start" /\ UNCHANGED disk
    <2>1. UNCHANGED <<files, synced, forged>>
      BY <1>6 DEF disk
    <2>2. s.end \in 0..Len(c)
      BY <1>4, <1>6, ScanCutEnd
    <2>3. Len(c) = Len(data)
      BY <1>4, <1>6, <2>2
    <2>4. ~IsTorn(data) /\ c = data
      BY <1>4, <1>6, <2>3, Completed
    <2>5. Scan(data).pending = <<>>
      <3>1. Scan(Pre(c, s.end)).pending = <<>>
        BY <1>4, <1>6, ScanCutEnd
      <3>2. Pre(c, s.end) = c
        BY <1>4, <1>6, <2>2, <2>3, PreFacts
      <3> QED BY <2>4, <3>1, <3>2
    <2>6. s.head # NoHead
      BY <1>4, <1>6, <2>4
    <2>7. Whole(files, N)
      BY <1>6, <2>4, <2>5 DEF Whole, Body, Read
    <2>8. /\ Headed(files'[N], N) /\ (Scan(files'[N]).batches = 0 => Len(files'[N]) = 1) /\ head' = Scan(files'[N]).head
      BY <1>4, <1>6, <2>1, <2>4, <2>6
    <2>9. /\ DiskOk(files', synced') /\ Linked(files') /\ forged' = {} /\ pending' = <<>> /\ world' = world /\ exported' = exported
          /\ N \in DOMAIN files' /\ Topped(files', N) /\ Whole(files', N)
          /\ ("power" \in world => \A f \in DOMAIN files' : synced'[f] = Len(files'[f]))
          /\ (HasBatch(files, synced) => HasBatch(files', synced'))
      BY <1>1, <1>2, <1>4, <1>6, <2>1, <2>7
    <2> HIDE DEF N
    <2> QED BY <1>6, <2>8, <2>9, TakesUpLog
  <1>7. CASE /\ DOMAIN files # {} /\ ~s.forged /\ s.end < Len(data)
             /\ aside' = aside \cup Leftovers(data, s.end) /\ head' = s.head /\ pc' = "cut"
             /\ UNCHANGED <<files, synced, forged>>
    BY <1>1, <1>7, IdleLog
  <1>8. CASE DOMAIN files # {} /\ s.forged
    BY <1>4, <1>8
  <1> QED BY <1>3, <1>5, <1>6, <1>7, <1>8, Zenon DEF Recover

\* The log stays a chain through recover's truncation.
LEMMA CutLog == ASSUME DirInv, GoodLog, Cut PROVE GoodLog'
  <1> DEFINE N == Newest
             data == files[N]
             c == Complete(data)
             s == Scan(c)
  <1>1. pc = "cut" /\ UNCHANGED <<pending, exported, world, head, forged>>
    BY DEF Cut
  <1>2. /\ DiskOk(files, synced) /\ Linked(files) /\ forged = {} /\ pending = <<>> /\ DOMAIN files # {}
        /\ "power" \in world => \A f \in DOMAIN files : synced[f] = Len(files[f])
        /\ head = s.head /\ s.end < Len(data)
    BY <1>1 DEF DirInv, GoodLog, ChainInv, SyncInv, RunPc, Settled, PlaceInv, CutPlace
  <1>3. N \in DOMAIN files /\ \A f \in DOMAIN files : f <= N
    BY <1>2, NewestFacts
  <1>4. Topped(files, N) /\ N \in Nat /\ data \in Seq(Line) /\ Len(data) \in Nat
    BY <1>2, <1>3, TopIsTopped, DiskFacts
  <1>5. c \in Seq(Line) /\ Len(c) <= Len(data) /\ Len(c) \in Nat /\ \A i \in 1..Len(c) : c[i] = data[i]
    BY <1>4, Completed, SeqLength
  <1>6. /\ s \in ScanState /\ ~s.forged
        /\ s.head = NoHead => c = <<>>
        /\ s.head # NoHead => c # <<>> /\ Headed(data, N) /\ s.end >= 1 /\ (s.batches = 0 => s.end = 1)
    <2>1. ~s.forged
      BY <1>2, <1>3 DEF Linked, Read, Body
    <2>2. /\ s \in ScanState
          /\ s.head = NoHead => c = <<>>
          /\ s.head # NoHead => /\ c # <<>> /\ Headed(data, N) /\ s.end \in 1..Len(data)
                                /\ s.batches = 0 => s.end = 1
      BY <1>2, <1>3, RecoverScan, Zenon
    <2>3. s.head # NoHead => s.end >= 1
      BY <1>4, <2>2
    <2> QED BY <2>1, <2>2, <2>3
  <1>7. CASE head = NoHead /\ files' = Without(files, N) /\ synced' = Without(synced, N) /\ pc' = "recover"
    <2>1. Body(files, N) = <<>>
      BY <1>2, <1>6, <1>7 DEF Body
    <2>2. pc \in {"recover", "cut"} /\ UNCHANGED <<forged, pending, exported, world>>
      BY <1>1
    <2> QED BY <1>2, <1>7, <2>1, <2>2, RemovesLog
  <1>8. CASE head # NoHead /\ files' = [files EXCEPT ![N] = Pre(data, s.end)] /\ synced' = [synced EXCEPT ![N] = s.end] /\ pc' = "start"
    <2> DEFINE d == Pre(data, s.end)
               e == s.end
    <2>1. e \in 1..Len(c) /\ e \in Nat
      BY <1>2, <1>5, <1>6, <1>8, ScanCutEnd
    <2>2. d = Pre(c, e)
      <3>1. e \in 0..Len(c) /\ e <= Len(data)
        BY <1>4, <1>5, <2>1
      <3>2. \A i \in 1..e : c[i] = data[i]
        BY <1>5, <2>1
      <3>3. Pre(c, e) = Pre(data, e)
        <4> HIDE DEF c, data, e
        <4> QED BY <1>4, <1>5, <3>1, <3>2, PreEqual, Zenon
      <3> QED BY <3>3, Zenon
    <2>3. /\ Scan(d).head = s.head /\ Scan(d).batches = s.batches /\ ~Scan(d).forged /\ Scan(d).pending = <<>>
      BY <1>5, <1>6, <2>2, ScanCutEnd
    <2>4. Headed(data, N) /\ (Scan(d).batches = 0 => e = 1)
      BY <1>2, <1>6, <1>8, <2>3
    <2>5. d \in Seq(Line) /\ Len(d) = e /\ \A i \in 1..e : d[i] = data[i]
      <3>1. e \in 0..Len(data)
        BY <1>4, <1>5, <2>1
      <3> QED BY <1>4, <3>1, PreFacts
    <2>6. d # <<>> /\ d[1] = data[1] /\ e \in 0..Len(d)
      BY <2>1, <2>5
    <2> HIDE DEF d
    <2>7. Headed(d, N) /\ Begun(d, N)
      BY <2>4, <2>5, <2>6 DEF Headed, Begun
    <2>8. Complete(d) = d /\ ~IsTorn(d)
      BY <1>4, <2>3, <2>5, <2>7, NoTornInside
    <2> HIDE DEF e
    <2>9. files' = [files EXCEPT ![N] = d] /\ synced' = [synced EXCEPT ![N] = e]
      BY <1>8 DEF d, e
    <2>10. JoinsAt(files, N, d)
      <3>1. PICK h \in HeadSet : /\ Precedes(files, N, h) /\ h.next_seq = N
                                 /\ Body(files, N) # <<>> => data[1].prev = h.hash
        BY <1>2, <1>3 DEF Linked, Joined
      <3>2. data[1].prev = h.hash
        BY <1>2, <1>6, <1>8, <3>1 DEF Body
      <3> QED BY <2>6, <3>1, <3>2 DEF JoinsAt
    <2> HIDE DEF N
    <2>11. Linked(files')
      <3>1. ~Scan(Complete(d)).forged
        BY <2>3, <2>8
      <3>2. Linked([files EXCEPT ![N] = d])
        BY <1>2, <1>3, <1>4, <2>10, <3>1, LinkedPut
      <3> QED BY <2>9, <3>2
    <2>12. DiskOk(files', synced')
      <3>1. DiskOk([files EXCEPT ![N] = d], [synced EXCEPT ![N] = e])
        BY <1>2, <1>3, <2>6, <2>7, DiskPut, Zenon
      <3> QED BY <2>9, <3>1
    <2>13. DOMAIN files' = DOMAIN files /\ files'[N] = d /\ \A f \in DOMAIN files : f # N => files'[f] = files[f]
      BY <1>3, <2>9, Zenon
    <2>14. synced'[N] = e /\ \A f \in DOMAIN files : f # N => synced'[f] = synced[f]
      <3>1. DOMAIN synced = DOMAIN files
        BY <1>2 DEF DiskOk
      <3> QED BY <1>3, <2>9, <3>1, Zenon
    <2>15. "power" \in world => \A f \in DOMAIN files' : synced'[f] = Len(files'[f])
      BY <1>2, <2>5, <2>13, <2>14
    <2>16. Whole(files', N)
      BY <2>3, <2>6, <2>8, <2>13 DEF Whole, Body, Read
    <2>17. HasBatch(files, synced) => HasBatch(files', synced')
      <3>1. CASE SealedIn(files, synced, N)
        <4>1. Read(files, N).batches > 0
          BY <1>2, <1>3, <3>1, SealedReads
        <4>2. Read(files', N).batches > 0
          BY <2>3, <2>8, <2>13, <4>1 DEF Read, Body, N
        <4>3. N \in DOMAIN files' /\ ~IsTorn(files'[N])
          BY <1>3, <2>8, <2>13
        <4>4. SealedIn(files', synced', N)
          BY <2>12, <2>15, <4>2, <4>3, ReadsSealed
        <4> QED BY <4>3, <4>4 DEF HasBatch
      <3>2. CASE ~SealedIn(files, synced, N)
        BY <2>13, <2>14, <3>2, SealedElsewhere
      <3> QED BY <3>1, <3>2
    <2>18. /\ N \in DOMAIN files' /\ Topped(files', N) /\ Headed(files'[N], N)
           /\ (Scan(files'[N]).batches = 0 => Len(files'[N]) = 1) /\ head' = Scan(files'[N]).head
      <3>1. head' = s.head
        BY <1>1, <1>2
      <3> QED BY <1>3, <1>4, <2>3, <2>4, <2>5, <2>7, <2>13, <3>1 DEF Topped
    <2>19. forged' = {} /\ pending' = <<>> /\ world' = world /\ exported' = exported /\ pc' = "start"
      BY <1>1, <1>2, <1>8
    <2> QED BY <2>11, <2>12, <2>15, <2>16, <2>17, <2>18, <2>19, TakesUpLog
  <1> QED BY <1>7, <1>8, Zenon DEF Cut, Pre

-----------------------------------------------------------------------------
(* What a failure leaves *)

\* A reader sees a first part of the segment, with or without a torn line after it.
LEMMA SurvivedComplete ==
  ASSUME NEW full \in Seq(Line), \A i \in 1..Len(full) : full[i] # Torn,
         NEW n \in 0..Len(full), NEW data \in Survivors(full, n)
  PROVE  \E i \in n..Len(full) : Complete(data) = Pre(full, i) /\ (i > 0 => data[1] = full[1])
  <1>1. Len(full) \in Nat /\ Torn \in Line
    BY SeqLength DEF Line
  <1>2. CASE \E i \in n..Len(full) : data = Pre(full, i)
    <2>1. PICK i \in n..Len(full) : data = Pre(full, i)
      BY <1>2
    <2>2. i \in 0..Len(full) /\ i \in Nat
      BY <1>1, <2>1
    <2>3. data \in Seq(Line) /\ Len(data) = i /\ \A j \in 1..i : data[j] = full[j]
      BY <2>1, <2>2, PreFacts
    <2>4. ~IsTorn(data)
      <3> SUFFICES ASSUME data # <<>>, data[Len(data)] = Torn PROVE FALSE
        BY DEF IsTorn
      <3>1. i # 0
        BY <2>3, SeqEmpty
      <3>2. i \in 1..i /\ i \in 1..Len(full)
        BY <1>1, <2>2, <3>1
      <3> QED BY <2>3, <3>2
    <2>5. Complete(data) = Pre(full, i)
      BY <2>1, <2>4 DEF Complete
    <2>6. i > 0 => data[1] = full[1]
      BY <2>2, <2>3
    <2> QED BY <2>5, <2>6
  <1>3. CASE \E i \in n..(Len(full) - 1) : data = Append(Pre(full, i), Torn)
    <2>1. PICK i \in n..(Len(full) - 1) : data = Append(Pre(full, i), Torn)
      BY <1>3
    <2>2. i \in 0..Len(full) /\ i \in Nat /\ i \in n..Len(full)
      BY <1>1, <2>1
    <2> DEFINE d == Pre(full, i)
    <2>3. d \in Seq(Line) /\ Len(d) = i /\ \A j \in 1..i : d[j] = full[j]
      BY <2>2, PreFacts
    <2> HIDE DEF d
    <2>4. data = Append(d, Torn)
      BY <2>1 DEF d
    <2>5. /\ data \in Seq(Line) /\ Len(data) = i + 1 /\ data[i + 1] = Torn
          /\ \A j \in 1..i : data[j] = d[j]
      BY <1>1, <2>3, <2>4, SeqAppend
    <2>6. IsTorn(data)
      BY <2>2, <2>5 DEF IsTorn
    <2>7. Complete(data) = Pre(data, i)
      BY <2>2, <2>5, <2>6, Completed
    <2>8. i \in 0..Len(data)
      BY <2>2, <2>5
    <2>9. Pre(data, i) \in Seq(Line) /\ Len(Pre(data, i)) = i /\ \A j \in 1..i : Pre(data, i)[j] = data[j]
      BY <2>5, <2>8, PreFacts
    <2>10. Pre(data, i) = d
      BY <2>3, <2>5, <2>9, SeqSame
    <2>11. i > 0 => data[1] = full[1]
      BY <2>2, <2>3, <2>5
    <2> QED BY <2>2, <2>7, <2>10, <2>11 DEF d
  <1> QED BY <1>2, <1>3 DEF Survivors, Pre

\* Nothing of a segment that is all safe goes.
LEMMA SurvivedAll ==
  ASSUME NEW full \in Seq(Line), NEW data \in Survivors(full, Len(full))
  PROVE  data = full
  <1>1. Len(full) \in Nat /\ Len(full) \in 0..Len(full)
    BY SeqLength
  <1>2. data \in Seq(Line) /\ Len(full) <= Len(data) /\ Len(data) <= Len(full) /\ \A i \in 1..Len(full) : data[i] = full[i]
    BY <1>1, Survived
  <1>3. Len(data) = Len(full)
    BY <1>1, <1>2, SeqLength
  <1> QED BY <1>2, <1>3, SeqSame

\* What is left of the segment being written goes on from the chain before it.
LEMMA TopSurvives ==
  ASSUME NEW fs, NEW c \in Nat, NEW full \in Seq(Line), Headed(full, c), ~Scan(full).forged, JoinsAt(fs, c, full),
         NEW n \in 0..Len(full), NEW data \in Survivors(full, n)
  PROVE  ~Scan(Complete(data)).forged /\ JoinsAt(fs, c, data) /\ Len(Complete(data)) >= n /\ Len(Complete(data)) \in Nat
  <1>1. Len(full) \in Nat
    BY SeqLength
  <1>2. (\A i \in 1..Len(full) : full[i] # Torn) /\ Complete(full) = full
    BY NoTornInside
  <1>3. PICK i \in n..Len(full) : Complete(data) = Pre(full, i) /\ (i > 0 => data[1] = full[1])
    BY <1>2, SurvivedComplete
  <1>4. i \in 0..Len(full) /\ i \in Nat /\ i >= n
    BY <1>1, <1>3
  <1>5. Len(Pre(full, i)) = i /\ (i = 0 => Pre(full, i) = <<>>)
    BY <1>4, PreFacts
  <1>6. CASE i = 0
    <2>1. Complete(data) = <<>>
      BY <1>3, <1>5, <1>6
    <2>2. ~Scan(Complete(data)).forged
      BY <2>1, ScanEmpty DEF ScanStart
    <2>3. JoinsAt(fs, c, data)
      BY <2>1 DEF JoinsAt
    <2> QED BY <1>3, <1>4, <1>5, <2>2, <2>3
  <1>7. CASE i # 0
    <2>1. i \in 1..Len(full) /\ data[1] = full[1]
      BY <1>3, <1>4, <1>7
    <2>2. ~Scan(Pre(full, i)).forged
      BY <2>1, PrefixOk
    <2>3. full # <<>>
      BY DEF Headed
    <2>4. JoinsAt(fs, c, data)
      BY <1>2, <2>1, <2>3 DEF JoinsAt
    <2> QED BY <1>3, <1>4, <1>5, <2>2, <2>4
  <1> QED BY <1>6, <1>7

\* The segment a failure finds the writer at.
LEMMA TargetFull ==
  ASSUME DirInv, ChainInv, pc \in RunPc \cup {"header"}
  PROVE  LET c == Target
         IN  /\ c \in Nat /\ c \in DOMAIN files /\ Topped(files, c) /\ Full(c) \in Seq(Line) /\ Headed(Full(c), c)
             /\ ~Scan(Full(c)).forged /\ JoinsAt(files, c, Full(c)) /\ Complete(files[c]) = files[c]
             /\ Len(files[c]) \in 0..Len(Full(c)) /\ \A i \in 1..Len(files[c]) : Full(c)[i] = files[c][i]
  <1>1. CASE pc \in RunPc
    <2>1. Target = cur /\ Full(cur) = Logical
      BY <1>1 DEF Target, Full, Logical, RunPc
    <2>2. /\ cur \in Nat /\ cur \in DOMAIN files /\ Topped(files, cur) /\ Logical \in Seq(Line)
          /\ Headed(Logical, cur) /\ ~Scan(Logical).forged /\ Complete(files[cur]) = files[cur] /\ Complete(Logical) = Logical
          /\ Len(files[cur]) \in 1..Len(Logical) /\ files[cur][1] = Logical[1] /\ files[cur] # <<>>
          /\ \A i \in 1..Len(files[cur]) : Logical[i] = files[cur][i]
      BY <1>1, RunFacts
    <2>3. PICK h \in HeadSet : /\ Precedes(files, cur, h) /\ h.next_seq = cur
                               /\ Body(files, cur) # <<>> => files[cur][1].prev = h.hash
      BY <2>2 DEF ChainInv, Linked, Joined
    <2>4. Logical[1].prev = h.hash
      BY <2>2, <2>3 DEF Body
    <2>5. JoinsAt(files, cur, Logical)
      BY <2>3, <2>4 DEF JoinsAt
    <2>6. Len(files[cur]) \in 0..Len(Logical)
      BY <2>2
    <2> QED BY <2>1, <2>2, <2>5, <2>6
  <1>2. CASE pc = "header"
    <2> DEFINE n == head.next_seq
               d == <<Header(head)>>
    <2>1. /\ DiskOk(files, synced) /\ Above /\ AtStart /\ head \in HeadSet
          /\ n \in DOMAIN files /\ files[n] = <<>> /\ buf = d /\ buf \in Seq(Line)
      BY <1>2 DEF DirInv, PlaceInv, BetweenPlace, HeaderPlace, ChainInv, WriterOk
    <2>2. n \in Nat /\ Topped(files, n)
      BY <2>1 DEF Above, Topped, DiskOk
    <2>3. Target = n /\ Full(n) = d
      BY <1>2, <2>1, SeqConcatEmpty DEF Target, Full
    <2>4. ~Scan(d).forged
      BY <2>1, HeaderScan
    <2>5. Headed(d, n) /\ d[1].prev = head.hash /\ d \in Seq(Line)
      BY <2>1 DEF Headed, Header
    <2>6. JoinsAt(files, n, d)
      BY <2>1, <2>5 DEF JoinsAt, AtStart
    <2>7. Complete(files[n]) = files[n] /\ Len(files[n]) = 0
      BY <2>1 DEF Complete, IsTorn
    <2>8. Len(files[n]) \in 0..Len(d) /\ \A i \in 1..Len(files[n]) : d[i] = files[n][i]
      BY <2>5, <2>7, SeqLength
    <2> HIDE DEF n, d
    <2> QED BY <2>1, <2>2, <2>3, <2>4, <2>5, <2>6, <2>7, <2>8
  <1> QED BY <1>1, <1>2

\* The sensor is gone: what is promised of the directory alone.
LEMMA GoneLog ==
  ASSUME GoodLog, WriterGone, Linked(files'), forged' = forged, world' = world, exported' = exported,
         HasBatch(files, synced) => HasBatch(files', synced'),
         "power" \in world => \A f \in DOMAIN files' : synced'[f] = Len(files'[f])
  PROVE  GoodLog'
  <1>1. pc' = "down" /\ pending' = <<>>
    BY DEF WriterGone
  <1>2. ChainInv'
    BY <1>1 DEF ChainInv, GoodLog, RunPc
  <1>3. SyncInv'
    BY DEF SyncInv
  <1>4. Claimed' => Claimed
    BY <1>1 DEF Claimed, RunPc
  <1>5. SealedInv'
    BY <1>4, SealedFrame DEF GoodLog, SealedInv
  <1> QED BY <1>2, <1>3, <1>5 DEF GoodLog

\* The log stays a chain through a kill.
LEMMA KillLog == ASSUME DirInv, GoodLog, Chainable, KillWriter PROVE GoodLog'
  <1>1. /\ "kill" \in world /\ WriterGone /\ UNCHANGED <<world, synced, forged, exported>> /\ pc # "down"
    BY DEF KillWriter
  <1>2. "power" \notin world
    BY <1>1 DEF Chainable
  <1>3. ChainInv /\ Linked(files) /\ DiskOk(files, synced)
    BY DEF GoodLog, ChainInv, DirInv
  <1>4. CASE buf = <<>> /\ files' = files
    BY <1>1, <1>2, <1>3, <1>4, GoneLog
  <1>5. CASE buf # <<>> /\ \E data \in Survivors(Full(Target), Len(files[Target])) : files' = [files EXCEPT ![Target] = data]
    <2>1. pc \in RunPc \cup {"header"}
      BY <1>1, <1>5 DEF DirInv, PlaceInv, IdlePlace, StartPlace, WriterOk, RunPc
    <2> DEFINE c == Target
               full == Full(c)
    <2>2. /\ c \in Nat /\ c \in DOMAIN files /\ Topped(files, c) /\ full \in Seq(Line) /\ Headed(full, c)
          /\ ~Scan(full).forged /\ JoinsAt(files, c, full) /\ Complete(files[c]) = files[c]
          /\ Len(files[c]) \in 0..Len(full) /\ \A i \in 1..Len(files[c]) : full[i] = files[c][i]
      BY <1>3, <2>1, TargetFull
    <2>3. PICK data \in Survivors(full, Len(files[c])) : files' = [files EXCEPT ![c] = data]
      BY <1>5, Zenon
    <2> HIDE DEF c, full
    <2>4. /\ ~Scan(Complete(data)).forged /\ JoinsAt(files, c, data)
          /\ Len(Complete(data)) >= Len(files[c]) /\ Len(Complete(data)) \in Nat
      BY <2>2, <2>3, TopSurvives
    <2>5. data \in Seq(Line) /\ \A i \in 1..Len(files[c]) : data[i] = full[i]
      BY <2>2, <2>3, Survived
    <2>6. Linked(files')
      <3>1. Linked([files EXCEPT ![c] = data])
        BY <1>3, <2>2, <2>4, LinkedPut
      <3> QED BY <2>3, <3>1
    <2>7. DOMAIN files' = DOMAIN files /\ files'[c] = data /\ \A f \in DOMAIN files : f # c => files'[f] = files[f]
      BY <2>2, <2>3, Zenon
    <2>8. HasBatch(files, synced) => HasBatch(files', synced')
      <3>1. CASE SealedIn(files, synced, c)
        <4> DEFINE n == Len(files[c])
                   m == Len(Complete(data))
        <4>1. files[c] \in Seq(Line) /\ n \in Nat /\ n \in 0..Len(files[c])
          BY <1>3, <2>2, DiskFacts
        <4>2. Scan(Pre(files[c], n)).batches > 0
          BY <1>2, <2>2, <3>1 DEF SealedIn, Durable, Body
        <4>3. m <= Len(data) /\ Len(data) \in Nat
          BY <2>5, Completed, SeqLength
        <4>4. m \in n..Len(data)
          BY <2>4, <4>1, <4>3
        <4>5. \A i \in 1..n : files[c][i] = data[i]
          BY <2>2, <2>5
        <4> HIDE DEF n, m
        <4>6. Scan(Pre(data, m)).batches > 0
          BY <2>5, <4>1, <4>2, <4>4, <4>5, BatchesStay, Zenon
        <4>7. SealedIn(files', synced', c)
          BY <1>2, <2>7, <4>6 DEF SealedIn, Durable, Body, m
        <4> QED BY <2>2, <2>7, <4>7 DEF HasBatch
      <3>2. CASE ~SealedIn(files, synced, c)
        BY <1>1, <2>7, <3>2, SealedElsewhere
      <3> QED BY <3>1, <3>2
    <2> QED BY <1>1, <1>2, <2>6, <2>8, GoneLog
  <1> QED BY <1>4, <1>5, Zenon DEF KillWriter

\* Away from the writer's buffer a failure finds what a reader saw.
LEMMA FullElsewhere ==
  ASSUME DiskOk(files, synced), NEW f \in DOMAIN files, f # Target \/ buf = <<>>
  PROVE  Full(f) = files[f]
  <1>1. files[f] \in Seq(Line)
    BY DiskFacts
  <1> QED BY <1>1, SeqConcatEmpty DEF Full

\* What a power loss leaves of each segment, and which segments.
PowerLeft ==
  /\ DOMAIN files' \subseteq DOMAIN files
  /\ \A f \in DOMAIN files : synced[f] > 0 => f \in DOMAIN files'
  /\ \A f \in DOMAIN files' : files'[f] \in Survivors(Full(f), synced[f]) /\ synced'[f] = Len(files'[f])

\* That is what PowerLoss does.
LEMMA PowerLeaves == ASSUME PowerLoss PROVE PowerLeft
  <1>1. PICK kept \in SUBSET DOMAIN files :
          /\ {s \in DOMAIN files : synced[s] > 0} \subseteq kept
          /\ files' \in {f \in [kept -> UNION {Survivors(Full(s), synced[s]) : s \in kept}] :
                           \A s \in kept : f[s] \in Survivors(Full(s), synced[s])}
          /\ synced' = [s \in kept |-> Len(files'[s])]
    BY Zenon DEF PowerLoss
  <1>2. DOMAIN files' = kept /\ \A s \in kept : files'[s] \in Survivors(Full(s), synced[s])
    BY <1>1
  <1>3. \A f \in DOMAIN files : synced[f] > 0 => f \in kept
    BY <1>1
  <1>4. \A s \in kept : synced'[s] = Len(files'[s])
    BY <1>1
  <1> QED BY <1>1, <1>2, <1>3, <1>4, Zenon DEF PowerLeft

\* A durable batch survives a power loss.
LEMMA PowerKeepsBatch ==
  ASSUME DirInv, PowerLeft, "power" \in world, HasBatch(files, synced), DiskOk(files', synced')
  PROVE  HasBatch(files', synced')
  <1>1. PICK f \in DOMAIN files : SealedIn(files, synced, f)
    BY DEF HasBatch
  <1> DEFINE n == synced[f]
             c == files[f]
             full == Full(f)
  <1>2. c \in Seq(Line) /\ n \in 0..Len(c) /\ Len(c) \in Nat /\ n \in Nat
    BY <1>1, DiskFacts DEF DirInv
  <1>3. Scan(Pre(c, n)).batches > 0
    BY <1>1 DEF SealedIn, Durable
  <1>4. n > 0
    <2> SUFFICES ASSUME n = 0 PROVE FALSE
      BY <1>2
    <2>1. Pre(c, n) = <<>>
      BY <1>2, PreFacts
    <2> QED BY <1>3, <2>1, ScanEmpty DEF ScanStart
  <1>5. f \in DOMAIN files' /\ files'[f] \in Survivors(full, n) /\ synced'[f] = Len(files'[f])
    BY <1>1, <1>4 DEF PowerLeft
  <1>6. full \in Seq(Line) /\ Len(c) \in 0..Len(full) /\ \A i \in 1..Len(c) : full[i] = c[i]
    <2>1. full \in Seq(Line) /\ Len(c) \in 0..Len(full)
      BY <1>1, FullBegun
    <2>2. buf \in Seq(Line)
      BY DEF DirInv, WriterOk
    <2>3. \A i \in 1..Len(c) : full[i] = c[i]
      <3>1. CASE f = Target
        BY <1>2, <2>2, <3>1, Extended DEF Full
      <3>2. CASE f # Target
        BY <3>2 DEF Full
      <3> QED BY <3>1, <3>2
    <2> QED BY <2>1, <2>3
  <1> HIDE DEF full, c, n
  <1>7. n \in 0..Len(full)
    BY <1>2, <1>6, SeqLength
  <1>8. files'[f] \in Seq(Line) /\ n <= Len(files'[f]) /\ \A i \in 1..n : files'[f][i] = full[i]
    BY <1>5, <1>6, <1>7, Survived
  <1>9. \A i \in 1..n : c[i] = files'[f][i]
    BY <1>2, <1>6, <1>8
  <1> DEFINE d == files'[f]
             m == Len(d)
  <1>10. d \in Seq(Line) /\ m \in n..Len(d) /\ \A i \in 1..n : c[i] = d[i]
    BY <1>2, <1>8, <1>9, SeqLength
  <1>11. Scan(Pre(d, m)).batches > 0
    <2> HIDE DEF d, m
    <2> QED BY <1>2, <1>3, <1>10, BatchesStay
  <1>12. SealedIn(files', synced', f)
    BY <1>5, <1>11 DEF SealedIn, Durable
  <1> QED BY <1>5, <1>12 DEF HasBatch

\* The chain of a directory of which only the newest segment, c, was not all synced.
LEMMA PowerTop ==
  ASSUME DirInv, ChainInv, PowerLeft, NEW c \in DOMAIN files, Topped(files, c),
         \A f \in DOMAIN files : f # c => Full(f) = files[f] /\ synced[f] = Len(files[f]),
         c \in DOMAIN files' => ~Scan(Complete(files'[c])).forged /\ JoinsAt(files, c, files'[c])
  PROVE  Linked(files')
  <1>1. DiskOk(files, synced) /\ Linked(files)
    BY DEF DirInv, ChainInv
  <1>2. c \in Nat
    BY DEF Topped
  <1>3. ASSUME NEW f \in DOMAIN files, f < c PROVE f \in DOMAIN files' /\ files'[f] = files[f] /\ Whole(files, f)
    <2>1. Whole(files, f)
      BY <1>1, <1>2, <1>3 DEF Linked, Topped
    <2>2. f # c /\ files[f] \in Seq(Line) /\ Len(files[f]) \in Nat
      BY <1>1, <1>2, <1>3, DiskFacts
    <2>3. files[f] # <<>>
      BY <2>1 DEF Whole, Body, Complete, IsTorn
    <2>4. synced[f] > 0
      BY <2>2, <2>3, SeqEmpty
    <2>5. f \in DOMAIN files' /\ files'[f] \in Survivors(files[f], Len(files[f]))
      BY <2>2, <2>4 DEF PowerLeft
    <2> QED BY <2>1, <2>2, <2>5, SurvivedAll
  <1>4. Topped(files', c)
    BY DEF Topped, PowerLeft
  <1>5. AgreeBelow(files, files', c)
    BY <1>3 DEF AgreeBelow, PowerLeft
  <1>6. TopOk(files, files', c)
    <2> SUFFICES ASSUME c \in DOMAIN files' PROVE ~Read(files', c).forged /\ Joined(files', c)
      BY <1>3 DEF TopOk
    <2>1. PICK h \in HeadSet : /\ Precedes(files, c, h) /\ h.next_seq = c
                               /\ Complete(files'[c]) # <<>> => files'[c][1].prev = h.hash
      BY DEF JoinsAt
    <2>2. Precedes(files', c, h)
      BY <1>5, <2>1, PrecedesFrame
    <2>3. Joined(files', c)
      BY <2>1, <2>2 DEF Joined, Body
    <2> QED BY <2>3 DEF Read, Body
  <1> QED BY <1>1, <1>2, <1>4, <1>5, <1>6, LinkedTop

\* The log stays a chain through a power loss.
LEMMA PowerLog == ASSUME DirInv, GoodLog, PowerLoss PROVE GoodLog'
  <1>1. "power" \in world /\ WriterGone /\ UNCHANGED <<world, forged, exported>>
    BY DEF PowerLoss
  <1>2. PowerLeft /\ DiskOk(files', synced')
    BY PowerLeaves, PowerDir DEF DirInv
  <1>3. ChainInv /\ Linked(files) /\ DiskOk(files, synced)
    BY DEF GoodLog, ChainInv, DirInv
  <1>4. Linked(files')
    <2>1. CASE pc \in RunPc \cup {"header"}
      <3> DEFINE c == Target
                 full == Full(c)
                 n == synced[c]
      <3>1. /\ c \in Nat /\ c \in DOMAIN files /\ Topped(files, c) /\ full \in Seq(Line) /\ Headed(full, c)
            /\ ~Scan(full).forged /\ JoinsAt(files, c, full) /\ Len(files[c]) \in 0..Len(full)
        BY <1>3, <2>1, TargetFull
      <3>2. n \in 0..Len(full)
        BY <1>3, <3>1, DiskFacts, SeqLength
      <3>3. \A f \in DOMAIN files : f # c => Full(f) = files[f]
        BY <1>3, FullElsewhere
      <3>4. \A f \in DOMAIN files : f # c => synced[f] = Len(files[f])
        <4>1. \A f \in DOMAIN files : f # c => c > f
          BY <3>1 DEF Topped
        <4> QED BY <1>1, <3>1, <4>1 DEF GoodLog, SyncInv
      <3>5. ASSUME c \in DOMAIN files' PROVE ~Scan(Complete(files'[c])).forged /\ JoinsAt(files, c, files'[c])
        <4>1. files'[c] \in Survivors(full, n)
          BY <1>2, <3>5 DEF PowerLeft
        <4> HIDE DEF c, full, n
        <4> QED BY <3>1, <3>2, <4>1, TopSurvives
      <3> HIDE DEF c
      <3> QED BY <1>2, <1>3, <3>1, <3>3, <3>4, <3>5, PowerTop
    <2>2. CASE pc \notin RunPc \cup {"header"}
      <3>1. Settled /\ buf = <<>>
        BY <2>2 DEF DirInv, WriterOk, PlaceInv, IdlePlace, StartPlace, Settled
      <3>2. \A f \in DOMAIN files : Full(f) = files[f] /\ synced[f] = Len(files[f])
        BY <1>1, <1>3, <3>1, FullElsewhere DEF GoodLog, SyncInv
      <3>3. CASE DOMAIN files = {}
        BY <1>2, <3>3 DEF PowerLeft, Linked
      <3>4. CASE DOMAIN files # {}
        <4> DEFINE c == Newest
        <4>1. c \in DOMAIN files /\ \A f \in DOMAIN files : f <= c
          BY <1>3, <3>4, NewestFacts
        <4>2. Topped(files, c)
          BY <1>3, <4>1, TopIsTopped
        <4> HIDE DEF c
        <4>3. ASSUME c \in DOMAIN files' PROVE ~Scan(Complete(files'[c])).forged /\ JoinsAt(files, c, files'[c])
          <5>1. files[c] \in Seq(Line) /\ files'[c] \in Survivors(files[c], Len(files[c]))
            BY <1>2, <1>3, <3>2, <4>1, <4>3, DiskFacts DEF PowerLeft
          <5>2. files'[c] = files[c]
            BY <5>1, SurvivedAll
          <5>3. ~Read(files, c).forged /\ Joined(files, c)
            BY <1>3, <4>1 DEF Linked
          <5> QED BY <5>2, <5>3 DEF Read, Body, Joined, JoinsAt
        <4>4. \A f \in DOMAIN files : f # c => Full(f) = files[f] /\ synced[f] = Len(files[f])
          BY <3>2
        <4> QED BY <1>2, <1>3, <4>1, <4>2, <4>3, <4>4, PowerTop
      <3> QED BY <3>3, <3>4, Zenon
    <2> QED BY <2>1, <2>2
  <1>5. HasBatch(files, synced) => HasBatch(files', synced')
    BY <1>1, <1>2, PowerKeepsBatch
  <1>6. \A f \in DOMAIN files' : synced'[f] = Len(files'[f])
    BY <1>2 DEF PowerLeft
  <1> QED BY <1>1, <1>4, <1>5, <1>6, GoneLog

\* A behaviour meets the failures it started with.
LEMMA WorldStays == ASSUME [ANext]_avars PROVE world' = world
  <1>1. CASE UNCHANGED avars
    BY <1>1 DEF avars
  <1>2. CASE AppendRecord \/ Tick \/ SealWrite \/ SealFlush
    BY <1>2 DEF AppendRecord, Tick, SealWrite, SealFlush
  <1>3. CASE SealSync \/ StartSegment \/ StartHeader \/ Open
    BY <1>3 DEF SealSync, StartSegment, StartHeader, Open
  <1>4. CASE Recover \/ Cut \/ KillWriter
    BY <1>4, Zenon DEF Recover, Cut, KillWriter
  <1>5. CASE PowerLoss \/ SealFails \/ StartFails
    BY <1>5, Zenon DEF PowerLoss, SealFails, StartFails
  <1> QED BY <1>1, <1>2, <1>3, <1>4, <1>5 DEF ANext

\* The chain through every step of a log for which it is promised.
THEOREM ChainInStep == ASpec => []LogInv
  <1>1. AInit => LogInv
    <2> SUFFICES ASSUME AInit PROVE LogInv
      OBVIOUS
    <2>1. DOMAIN files = {}
      BY DEF AInit
    <2>2. ChainInv
      BY <2>1 DEF AInit, ChainInv, Linked, RunPc
    <2>3. SyncInv
      BY <2>1 DEF SyncInv
    <2>4. SealedInv
      BY DEF AInit, SealedInv, Claimed, NoHead, RunPc
    <2> QED BY <2>2, <2>3, <2>4 DEF LogInv, AInit
  <1>2. DirInv /\ LogInv /\ [ANext]_avars => LogInv'
    <2> SUFFICES ASSUME DirInv, LogInv, [ANext]_avars PROVE LogInv'
      OBVIOUS
    <2>1. world' = world
      BY WorldStays
    <2> SUFFICES ASSUME Chainable' PROVE GoodLog'
      BY <2>1 DEF LogInv, GoodLog
    <2>2. Chainable
      BY <2>1 DEF Chainable
    <2>3. GoodLog
      BY <2>2 DEF LogInv, GoodLog
    <2>4. CASE UNCHANGED avars
      <3>1. UNCHANGED <<files, synced, forged, pc, cur, buf, pending, head, exported, world>>
        BY <2>4 DEF avars, disk, writer
      <3>2. ChainInv'
        BY <2>3, <3>1, Zenon DEF GoodLog, ChainInv, Linked, Joined, Precedes, Whole, Read, Body, AtStart, AllWhole, Running,
                          Collecting, Sealing, Logical, NextHead
      <3>3. SyncInv'
        BY <2>3, <3>1 DEF GoodLog, SyncInv, Settled
      <3>4. SealedInv'
        BY <2>3, <3>1, SealedFrame DEF GoodLog, SealedInv, Claimed
      <3> QED BY <2>1, <3>2, <3>3, <3>4 DEF GoodLog
    <2>5. CASE AppendRecord
      BY <2>1, <2>3, <2>5, AppendLog
    <2>6. CASE Tick
      BY <2>1, <2>3, <2>6, TickLog
    <2>7. CASE SealWrite
      BY <2>1, <2>3, <2>7, SealWriteLog
    <2>8. CASE SealFlush
      BY <2>1, <2>3, <2>8, SealFlushLog
    <2>9. CASE SealSync
      BY <2>1, <2>3, <2>9, SealSyncLog
    <2>10. CASE StartSegment
      BY <2>1, <2>3, <2>10, StartSegmentLog
    <2>11. CASE StartHeader
      BY <2>1, <2>3, <2>11, StartHeaderLog
    <2>12. CASE Open
      BY <2>1, <2>3, <2>12, OpenLog
    <2>13. CASE Recover
      BY <2>1, <2>3, <2>13, RecoverLog
    <2>14. CASE Cut
      BY <2>1, <2>3, <2>14, CutLog
    <2>15. CASE KillWriter
      BY <2>1, <2>2, <2>3, <2>15, KillLog
    <2>16. CASE PowerLoss
      BY <2>1, <2>3, <2>16, PowerLog
    <2>17. CASE SealFails
      BY <2>2, <2>17 DEF SealFails, Chainable
    <2>18. CASE StartFails
      BY <2>2, <2>18 DEF StartFails, Chainable
    <2> QED BY <2>4, <2>5, <2>6, <2>7, <2>8, <2>9, <2>10, <2>11, <2>12, <2>13, <2>14, <2>15, <2>16, <2>17, <2>18 DEF ANext
  <1> QED BY <1>1, <1>2, DirectoryInStep, PTL DEF ASpec

-----------------------------------------------------------------------------
(***************************************************************************)
(* The verifier, run on the segments of a chain, finds the heads that      *)
(* recovery finds and nothing wrong.                                       *)
(***************************************************************************)
\* The verifier's head before segment n.
Reached(v, n) ==
  \/ v.head = NoHead /\ \A g \in DOMAIN files : ~(g < n)
  \/ \E p \in DOMAIN files : p < n /\ v.head = Read(files, p).head /\ \A g \in DOMAIN files : g < n => g <= p

\* Every segment that has a header goes on from there.
LEMMA ReachedGoesOn ==
  ASSUME DiskOk(files, synced), Linked(files), NEW f \in DOMAIN files, Body(files, f) # <<>>, NEW v \in VerifyState, Reached(v, f)
  PROVE  Headed(Body(files, f), f) /\ GoesOn(v, Body(files, f)[1])
  <1> DEFINE b == Body(files, f)
             h0 == [next_seq |-> b[1].seq, hash |-> b[1].prev]
  <1>1. f \in Nat /\ files[f] \in Seq(Line) /\ Begun(files[f], f)
    BY DiskFacts
  <1>2. b \in Seq(Line) /\ Len(b) \in Nat /\ \A i \in 1..Len(b) : b[i] = files[f][i]
    BY <1>1, Completed, SeqLength DEF Body
  <1>3. Len(b) # 0
    BY <1>2, SeqEmpty
  <1>4. b[1] = files[f][1] /\ files[f] # <<>> /\ files[f] # <<Torn>>
    <2>1. 1 \in 1..Len(b)
      BY <1>2, <1>3
    <2>2. files[f] # <<>> /\ files[f] # <<Torn>>
      BY DEF Body, Complete, IsTorn
    <2> QED BY <1>2, <2>1, <2>2
  <1>5. Headed(b, f)
    BY <1>1, <1>4 DEF Begun, Headed
  <1>6. PICK h \in HeadSet : /\ Precedes(files, f, h) /\ h.next_seq = f
                             /\ Body(files, f) # <<>> => files[f][1].prev = h.hash
    BY DEF Linked, Joined
  <1>7. h0 = h
    BY <1>4, <1>5, <1>6 DEF Headed, HeadSet
  <1> HIDE DEF b
  <1>8. CASE v.head = NoHead /\ \A g \in DOMAIN files : ~(g < f)
    <2>1. h = Genesis
      BY <1>6, <1>8 DEF Precedes
    <2> QED BY <1>5, <1>7, <1>8, <2>1 DEF GoesOn, b
  <1>9. CASE \E p \in DOMAIN files : p < f /\ v.head = Read(files, p).head /\ \A g \in DOMAIN files : g < f => g <= p
    <2>1. PICK p \in DOMAIN files : p < f /\ v.head = Read(files, p).head /\ \A g \in DOMAIN files : g < f => g <= p
      BY <1>9
    <2>2. PICK q \in DOMAIN files : q < f /\ h = Read(files, q).head /\ \A g \in DOMAIN files : g < f => g <= q
      BY <1>6, <2>1 DEF Precedes
    <2>3. p \in Nat /\ q \in Nat /\ p <= q /\ q <= p
      BY <2>1, <2>2, DiskFacts
    <2>4. v.head = h
      BY <2>1, <2>2, <2>3
    <2>5. v.head # NoHead
      BY <1>1, <1>6, <2>4 DEF NoHead
    <2> QED BY <1>5, <1>7, <2>4, <2>5 DEF GoesOn, b
  <1> QED BY <1>8, <1>9 DEF Reached

\* Between segments the verifier's head stays.
LEMMA ReachedOn ==
  ASSUME DiskOk(files, synced), NEW v, NEW w, NEW n \in Nat,
         n \notin DOMAIN files => w = v /\ Reached(v, n),
         n \in DOMAIN files => w.head = Read(files, n).head
  PROVE  Reached(w, n + 1)
  <1>1. \A g \in DOMAIN files : g \in Nat
    BY DEF DiskOk
  <1>2. CASE n \in DOMAIN files
    <2>1. n < n + 1 /\ \A g \in DOMAIN files : g < n + 1 => g <= n
      BY <1>1
    <2> QED BY <1>2, <2>1 DEF Reached
  <1>3. CASE n \notin DOMAIN files
    <2>1. \A g \in DOMAIN files : g < n + 1 <=> g < n
      BY <1>1, <1>3
    <2> QED BY <1>3, <2>1 DEF Reached
  <1> QED BY <1>2, <1>3

\* A run of the verifier over the segments.
Last == IF DOMAIN files = {} THEN 0 ELSE Newest + 1
Turn(v, n) == IF n - 1 \notin DOMAIN files THEN v ELSE VerifySegment(v, files[n - 1], n - 1 = Newest)
IsReading(a) ==
  a \in [0..Last -> VerifyState] /\ a[0] = VerifyStart /\ \A n \in 1..Last : a[n] = Turn(a[n - 1], n)

\* The lines of a linked log are no torn ones.
LEMMA LinkedLines ==
  ASSUME DiskOk(files, synced), Linked(files), NEW f \in DOMAIN files
  PROVE  Body(files, f) \in Seq(Line) /\ \A i \in 1..Len(Body(files, f)) : Body(files, f)[i] # Torn
  <1> DEFINE b == Body(files, f)
  <1>1. f \in Nat /\ files[f] \in Seq(Line) /\ Begun(files[f], f)
    BY DiskFacts
  <1>2. b \in Seq(Line) /\ Len(b) \in Nat /\ \A i \in 1..Len(b) : b[i] = files[f][i]
    BY <1>1, Completed, SeqLength DEF Body
  <1>3. ~Scan(b).forged
    BY DEF Linked, Read
  <1>4. CASE b = <<>>
    BY <1>2, <1>4
  <1>5. CASE b # <<>>
    <2>1. files[f] # <<>> /\ files[f] # <<Torn>>
      BY <1>5 DEF Body, Complete, IsTorn
    <2>2. 1 \in 1..Len(b)
      BY <1>2, <1>5, SeqEmpty
    <2>3. Headed(b, f)
      BY <1>1, <1>2, <1>5, <2>1, <2>2 DEF Begun, Headed
    <2> HIDE DEF b
    <2>4. \A i \in 1..Len(b) : b[i] # Torn
      BY <1>1, <1>2, <1>3, <2>3, NoTornInside
    <2> QED BY <1>2, <2>4 DEF b
  <1> QED BY <1>4, <1>5

\* No segment is past the last turn of the verifier.
LEMMA LastType ==
  ASSUME DiskOk(files, synced)
  PROVE  Last \in Nat /\ \A f \in DOMAIN files : f < Last
  <1>1. CASE DOMAIN files = {}
    BY <1>1 DEF Last
  <1>2. CASE DOMAIN files # {}
    <2>1. Newest \in DOMAIN files /\ \A f \in DOMAIN files : f <= Newest
      BY <1>2, NewestFacts
    <2>2. Newest \in Nat /\ \A f \in DOMAIN files : f \in Nat
      BY <2>1, DiskFacts
    <2> QED BY <1>2, <2>1, <2>2 DEF Last
  <1> QED BY <1>1, <1>2, Zenon

\* Verify is the end of such a run.
LEMMA VerifyReads ==
  ASSUME DiskOk(files, synced), Linked(files)
  PROVE  \E a : IsReading(a) /\ Verify = a[Last]
  <1> DEFINE n == Last
             turn == [vi \in VerifyState \X (1..n) |-> Turn(vi[1], vi[2])]
             init == VerifyStart
  <1>0. n \in Nat
    BY LastType
  <1>init. init \in VerifyState
    BY DEF VerifyStart, VerifyState, NoHead, HeadSet, GENESIS, Hash
  <1>1. turn \in Loops(n, VerifyState)
    <2>1. ASSUME NEW v \in VerifyState, NEW i \in 1..n PROVE Turn(v, i) \in VerifyState
      <3>1. CASE i - 1 \notin DOMAIN files
        BY <3>1 DEF Turn
      <3>2. CASE i - 1 \in DOMAIN files
        <4> DEFINE data == files[i - 1]
                   newest == i - 1 = Newest
        <4>1. Complete(data) \in Seq(Line) /\ \A j \in 1..Len(Complete(data)) : Complete(data)[j] # Torn
          BY <3>2, LinkedLines DEF Body
        <4>2. Turn(v, i) = VerifySegment(v, data, newest)
          BY <3>2 DEF Turn
        <4> HIDE DEF data, newest
        <4> QED BY <4>1, <4>2, VerifyType
      <3> QED BY <3>1, <3>2
    <2> HIDE DEF n
    <2> QED BY <2>1 DEF Loops
  <1>2. \A v \in VerifyState, i \in 1..n : turn[<<v, i>>] = Turn(v, i)
    OBVIOUS
  <1> HIDE DEF turn, init
  <1>3. PICK a : IsRun(a, n, VerifyState, init, turn)
    <2> HIDE DEF n
    <2> QED BY <1>0, <1>1, <1>init, LoopRuns, Zenon
  <1>4. a \in [0..n -> VerifyState] /\ a[0] = init /\ \A i \in 1..n : a[i - 1] \in VerifyState
    <2> HIDE DEF n
    <2> QED BY <1>0, <1>3 DEF IsRun
  <1>5. \A i \in 1..n : a[i] = Turn(a[i - 1], i)
    <2> HIDE DEF n
    <2> QED BY <1>2, <1>3, <1>4, Zenon DEF IsRun
  <1> DEFINE Q(u) == u = [i \in 0..n |-> IF i = 0 THEN init ELSE Turn(u[i - 1], i)]
             u == CHOOSE w : Q(w)
  <1>6. Q(a)
    <2> HIDE DEF n
    <2>1. \A i \in 0..n : i # 0 => i \in 1..n
      BY <1>0
    <2> QED BY <1>4, <1>5, <2>1
  <1>7. Q(u)
    BY <1>6, Zenon
  <1>8. Verify = u[n]
    BY DEF Verify, Turn, Last, init
  <1> HIDE DEF u
  <1>9. u[0] = init /\ \A i \in 1..n : u[i] = Turn(u[i - 1], i)
    <2> HIDE DEF n
    <2> QED BY <1>0, <1>7
  <1>10. Follows(u, n, VerifyState, turn)
    <2> HIDE DEF n
    <2> QED BY <1>2, <1>9 DEF Follows
  <1>11. \A i \in 0..n : a[i] = u[i]
    <2>1. u[0] = init /\ n \in Nat
      BY <1>0, <1>9
    <2> HIDE DEF n, Q
    <2> QED BY <1>3, <1>10, <2>1, LoopDetermined
  <1>12. a[n] = u[n]
    <2> HIDE DEF n
    <2> QED BY <1>0, <1>11
  <1> QED BY <1>4, <1>5, <1>8, <1>12, Zenon DEF IsReading, init

\* What the verifier has found when it comes to segment n.
Faultless(v, n) ==
  /\ v.problems \subseteq {p \in {"segment has no header"} : n = Last /\ HeaderPending}
  /\ n < Last => Reached(v, n)
  /\ \A f \in DOMAIN files : f < n /\ Read(files, f).batches > 0 => v.sealed

\* Nothing is found wrong with the next segment...
LEMMA TurnFaultless ==
  ASSUME DiskOk(files, synced), Linked(files), NEW n \in Nat, n < Last, NEW v \in VerifyState, Faultless(v, n)
  PROVE  Faultless(Turn(v, n + 1), n + 1)
  <1> DEFINE w == Turn(v, n + 1)
  <1>0. (n + 1) - 1 = n /\ Last \in Nat /\ n # Last /\ \A f \in DOMAIN files : f \in Nat
    BY LastType DEF DiskOk
  <1>1. v.problems = {} /\ Reached(v, n)
    BY <1>0, Zenon DEF Faultless
  <1>2. ASSUME n \notin DOMAIN files PROVE Faultless(w, n + 1)
    <2>1. w = v
      BY <1>0, <1>2 DEF Turn
    <2>2. Reached(w, n + 1)
      BY <1>1, <1>2, <2>1, ReachedOn
    <2>3. \A f \in DOMAIN files : f < n + 1 => f < n
      BY <1>0, <1>2
    <2> HIDE DEF w
    <2> QED BY <1>1, <2>1, <2>2, <2>3, Zenon DEF Faultless
  <1>3. ASSUME n \in DOMAIN files PROVE Faultless(w, n + 1)
    <2> DEFINE data == files[n]
               newest == n = Newest
    <2>1. w = VerifySegment(v, data, newest)
      BY <1>0, <1>3 DEF Turn
    <2>2. Newest \in DOMAIN files /\ Newest \in Nat /\ n <= Newest /\ Last = Newest + 1
      <3>1. Newest \in DOMAIN files /\ n <= Newest
        BY <1>3, NewestFacts
      <3> QED BY <1>0, <1>3, <3>1 DEF Last
    <2>3. newest \/ Whole(files, n)
      <3>1. CASE newest
        BY <3>1
      <3>2. CASE ~newest
        <4>1. Newest > n
          BY <2>2, <3>2
        <4> QED BY <1>3, <2>2, <4>1 DEF Linked
      <3> QED BY <3>1, <3>2
    <2>4. newest \in BOOLEAN /\ (newest => n + 1 = Last)
      BY <2>2
    <2>5. Complete(data) \in Seq(Line)
      BY <1>3, LinkedLines DEF Body
    <2>6. CASE Complete(data) = <<>>
      <3>1. newest /\ n + 1 = Last
        BY <2>3, <2>4, <2>6 DEF Whole, Body
      <3>2. HeaderPending
        BY <1>3, <2>6, <3>1 DEF HeaderPending
      <3> HIDE DEF data, newest
      <3>3. w.sealed = v.sealed /\ w.problems \subseteq v.problems \cup {"segment has no header"}
        BY <2>1, <2>6, <3>1, VerifyBare, Zenon
      <3>4. ASSUME NEW f \in DOMAIN files, f < n + 1, Read(files, f).batches > 0 PROVE w.sealed
        <4>1. f # n
          <5> SUFFICES ASSUME f = n PROVE FALSE
            OBVIOUS
          <5>1. Read(files, f) = ScanStart
            BY <2>6, ScanEmpty DEF Read, Body, data
          <5> QED BY <3>4, <5>1 DEF ScanStart
        <4>2. f < n
          BY <1>0, <3>4, <4>1
        <4> QED BY <3>3, <3>4, <4>2, Zenon DEF Faultless
      <3> HIDE DEF w
      <3>5. ~(n + 1 < Last)
        BY <1>0, <3>1
      <3>6. w.problems \subseteq {p \in {"segment has no header"} : n + 1 = Last /\ HeaderPending}
        BY <1>1, <3>1, <3>2, <3>3, Zenon
      <3> QED BY <3>4, <3>5, <3>6, Zenon DEF Faultless
    <2>7. CASE Complete(data) # <<>>
      <3>1. Headed(Complete(data), n) /\ GoesOn(v, Complete(data)[1])
        BY <1>1, <1>3, <2>7, ReachedGoesOn DEF Body
      <3>2. ~Scan(Complete(data)).forged
        BY <1>3 DEF Linked, Read, Body
      <3>3. ~newest => ~IsTorn(data) /\ Scan(Complete(data)).pending = <<>>
        BY <2>3 DEF Whole, Read, Body
      <3>4. Read(files, n) = Scan(Complete(data))
        BY DEF Read, Body
      <3> HIDE DEF data, newest
      <3>5. w.head = Scan(Complete(data)).head /\ w.problems = v.problems /\ (v.sealed \/ Scan(Complete(data)).batches > 0 => w.sealed)
        <4>1. LET u == VerifySegment(v, data, newest)
                  s == Scan(Complete(data))
              IN  u \in VerifyState /\ u.head = s.head /\ u.problems = v.problems /\ (v.sealed \/ s.batches > 0 => u.sealed)
          BY <2>4, <2>5, <3>1, <3>2, <3>3, VerifyHeaded
        <4> QED BY <2>1, <4>1, Zenon
      <3> HIDE DEF w
      <3>6. Reached(w, n + 1)
        BY <1>3, <3>4, <3>5, ReachedOn, Zenon
      <3>7. ASSUME NEW f \in DOMAIN files, f < n + 1, Read(files, f).batches > 0 PROVE w.sealed
        <4>1. CASE f = n
          BY <3>4, <3>5, <3>7, <4>1, Zenon
        <4>2. CASE f # n
          <5>1. f < n
            BY <1>0, <3>7, <4>2
          <5> QED BY <3>5, <3>7, <5>1, Zenon DEF Faultless
        <4> QED BY <4>1, <4>2
      <3> QED BY <1>1, <3>5, <3>6, <3>7 DEF Faultless
    <2> QED BY <2>6, <2>7
  <1> QED BY <1>2, <1>3

\* ... nor with any.
LEMMA ReadingFaultless ==
  ASSUME DiskOk(files, synced), Linked(files), NEW a, IsReading(a)
  PROVE  a[Last] \in VerifyState /\ Faultless(a[Last], Last)
  <1>0. Last \in Nat
    BY LastType
  <1> DEFINE E == {n \in Nat : n <= Last => Faultless(a[n], n)}
  <1>1. 0 \in E
    <2>1. a[0] = VerifyStart
      BY DEF IsReading
    <2>2. \A f \in DOMAIN files : f \in Nat /\ ~(f < 0)
      BY DEF DiskOk
    <2>3. Faultless(VerifyStart, 0)
      BY <2>2 DEF Faultless, VerifyStart, Reached
    <2> QED BY <2>1, <2>3
  <1>2. ASSUME NEW n \in E PROVE n + 1 \in E
    <2> SUFFICES ASSUME n + 1 <= Last PROVE Faultless(a[n + 1], n + 1)
      BY <1>2
    <2>1. n \in Nat /\ n < Last /\ n \in 0..Last /\ n + 1 \in 1..Last /\ (n + 1) - 1 = n
      BY <1>0, <1>2
    <2>2. a[n] \in VerifyState /\ a[n + 1] = Turn(a[n], n + 1)
      BY <2>1 DEF IsReading
    <2>3. Faultless(a[n], n)
      BY <1>0, <1>2, <2>1
    <2> QED BY <2>1, <2>2, <2>3, TurnFaultless
  <1>3. \A n \in Nat : n \in E
    <2>1. E \in SUBSET Nat
      OBVIOUS
    <2> HIDE DEF E
    <2> QED BY <1>1, <1>2, <2>1, Induction, Zenon
  <1>4. Last \in 0..Last
    BY <1>0
  <1>5. a[Last] \in VerifyState
    BY <1>4 DEF IsReading
  <1> QED BY <1>0, <1>3, <1>5

\* The head exported to the metrics is one the writer had.
THEOREM ExportedIsAHead == ASpec => [](exported \in HeadSet)
  <1>1. AInit => exported \in HeadSet
    BY DEF AInit, NoHead, GENESIS, HeadSet, Hash
  <1>2. exported \in HeadSet /\ DirInv /\ DirInv' /\ [ANext]_avars => (exported \in HeadSet)'
    <2> SUFFICES ASSUME exported \in HeadSet, DirInv, DirInv', [ANext]_avars PROVE exported' \in HeadSet
      OBVIOUS
    <2>1. head \in HeadSet /\ head' \in HeadSet
      BY DEF DirInv, WriterOk
    <2>2. CASE UNCHANGED avars
      BY <2>2 DEF avars
    <2>3. CASE AppendRecord \/ Tick \/ SealWrite \/ SealFlush
      BY <2>3 DEF AppendRecord, Tick, SealWrite, SealFlush
    <2>4. CASE SealSync
      BY <2>1, <2>4 DEF SealSync
    <2>5. CASE StartSegment \/ StartHeader \/ Open
      BY <2>1, <2>5 DEF StartSegment, StartHeader, Open
    <2>6. CASE Recover \/ Cut \/ KillWriter
      <3>1. exported' = exported
        BY <2>6, Zenon DEF Recover, Cut, KillWriter
      <3> QED BY <3>1
    <2>7. CASE PowerLoss \/ SealFails
      <3>1. exported' = exported
        BY <2>7, Zenon DEF PowerLoss, SealFails
      <3> QED BY <3>1
    <2>8. CASE StartFails
      <3>1. exported' = exported \/ exported' = head
        BY <2>8, Zenon DEF StartFails
      <3> QED BY <2>1, <3>1
    <2> QED BY <2>2, <2>3, <2>4, <2>5, <2>6, <2>7, <2>8 DEF ANext
  <1> QED BY <1>1, <1>2, DirectoryInStep, PTL DEF ASpec

\* No log meets both kills and power losses, unless its writes may fail too.
SeparateFailures == \A w \in Worlds : {"kill", "power"} \subseteq w => "io" \in w

\* rk audit verify finds nothing wrong with a log that met kills or power losses, not
\* both, wherever the writer or its recovery stands.
THEOREM LogAlwaysVerifies ==
  ASSUME SeparateFailures
  PROVE  ASpec => []LogVerifies
  <1>1. DirInv /\ LogInv /\ exported \in HeadSet => LogVerifies
    <2> SUFFICES ASSUME DirInv, LogInv, exported \in HeadSet, "io" \notin world PROVE Problems \subseteq Honest
      BY DEF LogVerifies
    <2>1. Chainable
      BY DEF LogInv, SeparateFailures, Chainable
    <2>2. forged = {} /\ Linked(files) /\ DiskOk(files, synced) /\ SealedInv
      BY <2>1 DEF LogInv, ChainInv, DirInv
    <2>3. PICK a : IsReading(a) /\ Verify = a[Last]
      BY <2>2, VerifyReads
    <2>4. Faultless(Verify, Last)
      BY <2>2, <2>3, ReadingFaultless
    <2>5. Verify.problems \subseteq {p \in {"segment has no header"} : HeaderPending}
      BY <2>4, Zenon DEF Faultless
    <2>6. exported.next_seq \in Int
      BY DEF HeadSet
    <2>7. ~Verify.sealed => exported.next_seq <= 0
      <3> SUFFICES ASSUME exported.next_seq > 0 PROVE Verify.sealed
        BY <2>6
      <3>1. PICK f \in DOMAIN files : SealedIn(files, synced, f)
        BY <2>2 DEF SealedInv, Claimed, HasBatch
      <3>2. Read(files, f).batches > 0 /\ f < Last
        BY <2>2, <3>1, SealedReads, LastType
      <3> QED BY <2>4, <3>1, <3>2, Zenon DEF Faultless
    <2> QED BY <2>2, <2>5, <2>7, Zenon DEF Problems, Honest
  <1> QED BY <1>1, DirectoryInStep, ChainInStep, ExportedIsAHead, PTL
=============================================================================
