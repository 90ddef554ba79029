---------------------------- MODULE AuditProofs -----------------------------
(***************************************************************************)
(* Proofs about the directory of the audit log, for every batch and        *)
(* segment size and any number of records, restarts and failures.          *)
(*                                                                         *)
(* DirInv says how the directory and the writer stand to each other,       *)
(* whatever fails; with it, recovery loses no record. The loops over the   *)
(* lines of a segment are handled by induction over their turns.           *)
(***************************************************************************)
EXTENDS AuditChain, WellFoundedInduction, TLAPS

\* The elements of a sequence over S are in S.
LEMMA SeqElements ==
  ASSUME NEW T, NEW q \in Seq(T), NEW i \in 1..Len(q)
  PROVE  q[i] \in T
  OBVIOUS

\* The empty sequence, and the length of any other.
LEMMA SeqEmpty ==
  ASSUME NEW T
  PROVE  << >> \in Seq(T) /\ Len(<< >>) = 0 /\ \A q \in Seq(T) : q # << >> => Len(q) \in Nat \ {0}
  OBVIOUS

\* A sequence is a function of the numbers up to its length.
LEMMA SeqLength ==
  ASSUME NEW T, NEW q \in Seq(T)
  PROVE  Len(q) \in Nat /\ q \in [1..Len(q) -> T] /\ DOMAIN q = 1..Len(q)
  OBVIOUS

\* Sequences with the same elements are the same.
LEMMA SeqSame ==
  ASSUME NEW T, NEW p \in Seq(T), NEW q \in Seq(T), Len(p) = Len(q), \A i \in 1..Len(p) : p[i] = q[i]
  PROVE  p = q
  OBVIOUS

\* Concatenation puts one sequence after the other.
LEMMA SeqConcat ==
  ASSUME NEW T, NEW p \in Seq(T), NEW q \in Seq(T)
  PROVE  /\ p \o q \in Seq(T) /\ Len(p \o q) = Len(p) + Len(q)
         /\ \A i \in 1..(Len(p) + Len(q)) : (p \o q)[i] = IF i <= Len(p) THEN p[i] ELSE q[i - Len(p)]
  OBVIOUS

\* Append puts an element at the end.
LEMMA SeqAppend ==
  ASSUME NEW T, NEW q \in Seq(T), NEW e \in T
  PROVE  /\ Append(q, e) \in Seq(T) /\ Append(q, e) # << >> /\ Len(Append(q, e)) = Len(q) + 1
         /\ \A i \in 1..Len(q) : Append(q, e)[i] = q[i]
         /\ Append(q, e)[Len(q) + 1] = e
  OBVIOUS

\* SubSeq takes the elements from m to n.
LEMMA SeqSubSeq ==
  ASSUME NEW T, NEW q, NEW m \in Int, NEW n \in Int, \A i \in m..n : q[i] \in T
  PROVE  /\ SubSeq(q, m, n) \in Seq(T) /\ Len(SubSeq(q, m, n)) = IF m <= n THEN n - m + 1 ELSE 0
         /\ \A i \in 1..(n - m + 1) : SubSeq(q, m, n)[i] = q[m + i - 1]
  OBVIOUS

\* Nothing is added by the empty sequence.
LEMMA SeqConcatEmpty ==
  ASSUME NEW T, NEW q \in Seq(T)
  PROVE  q \o << >> = q /\ << >> \o q = q
  OBVIOUS

\* Concatenation is associative.
LEMMA SeqConcatTwice ==
  ASSUME NEW T, NEW p \in Seq(T), NEW q \in Seq(T), NEW r \in Seq(T)
  PROVE  (p \o q) \o r = p \o (q \o r)
  OBVIOUS

\* Induction over the numbers, for a property given as a set.
LEMMA Induction ==
  ASSUME NEW S \in SUBSET Nat, 0 \in S, \A n \in S : n + 1 \in S
  PROVE  \A n \in Nat : n \in S
  <1> DEFINE R == {ss \in Nat \X Nat : ss[1] < ss[2]}
             T == Nat \ S
  <1> SUFFICES ASSUME T # {} PROVE FALSE
    OBVIOUS
  <1>1. \E x \in T : \A y \in T : ~ (<<y, x>> \in R)
    <2>1. IsWellFoundedOn(R, Nat)
      BY NatLessThanWellFounded, Zenon DEF OpToRel
    <2>2. T \subseteq Nat
      OBVIOUS
    <2> HIDE DEF R, T
    <2> QED BY <2>1, <2>2, WFMin, Zenon
  <1>2. PICK x \in T : \A y \in T : ~ (<<y, x>> \in R)
    BY <1>1
  <1>3. x \in Nat /\ x # 0 /\ x \notin S
    OBVIOUS
  <1>4. x - 1 \in Nat /\ x - 1 < x /\ (x - 1) + 1 = x
    BY <1>3
  <1>5. <<x - 1, x>> \in R
    BY <1>3, <1>4
  <1>6. x - 1 \in S
    BY <1>2, <1>4, <1>5
  <1> QED BY <1>3, <1>4, <1>6

\* A loop of n turns over states in R, and one of its runs.
Loops(n, R) == [R \X (1..n) -> R]
IsRun(a, n, R, init, turn) ==
  a \in [0..n -> R] /\ a[0] = init /\ \A i \in 1..n : a[i] = turn[<<a[i - 1], i>>]

\* It has a run.
LEMMA LoopRuns ==
  ASSUME NEW n \in Nat, NEW R, NEW init \in R, NEW turn \in Loops(n, R)
  PROVE  \E a : IsRun(a, n, R, init, turn)
  <1> USE DEF Loops
  <1> DEFINE P(m) == \E a \in [0..m -> R] : a[0] = init /\ \A i \in 1..m : a[i] = turn[<<a[i - 1], i>>]
             S == {m \in Nat : m <= n => P(m)}
  <1>1. 0 \in S
    <2> DEFINE z == [i \in 0..0 |-> init]
    <2>1. z \in [0..0 -> R] /\ z[0] = init /\ \A i \in 1..0 : z[i] = turn[<<z[i - 1], i>>]
      OBVIOUS
    <2> HIDE DEF z
    <2>2. P(0)
      BY <2>1
    <2> QED BY <2>2
  <1>2. ASSUME NEW m \in S PROVE m + 1 \in S
    <2> SUFFICES ASSUME m + 1 <= n PROVE P(m + 1)
      <3> HIDE DEF P
      <3> QED OBVIOUS
    <2>1. PICK a \in [0..m -> R] : a[0] = init /\ \A i \in 1..m : a[i] = turn[<<a[i - 1], i>>]
      BY <1>2
    <2> DEFINE v == turn[<<a[m], m + 1>>]
               b == [i \in 0..(m + 1) |-> IF i = m + 1 THEN v ELSE a[i]]
    <2>2. m \in Nat /\ a[m] \in R /\ m + 1 \in 1..n
      BY <1>2, <2>1
    <2>3. v \in R
      BY <2>2
    <2> HIDE DEF v
    <2>4. b \in [0..(m + 1) -> R]
      BY <2>1, <2>2, <2>3
    <2>5. b[0] = init
      BY <2>1, <2>2
    <2>6. ASSUME NEW i \in 1..(m + 1) PROVE b[i] = turn[<<b[i - 1], i>>]
      <3>1. CASE i = m + 1
        <4>1. i - 1 = m /\ m \in 0..(m + 1) /\ m # m + 1 /\ i \in 0..(m + 1)
          BY <2>2, <3>1
        <4>2. b[i - 1] = a[m] /\ b[i] = v
          BY <3>1, <4>1
        <4> QED BY <3>1, <4>2, Zenon DEF v
      <3>2. CASE i # m + 1
        <4>1. i \in 1..m /\ i - 1 \in 0..m /\ i - 1 # m + 1
          BY <2>2, <3>2
        <4> QED BY <2>1, <2>2, <3>2, <4>1
      <3> QED BY <3>1, <3>2
    <2> HIDE DEF b
    <2> QED BY <2>4, <2>5, <2>6
  <1> HIDE DEF P
  <1>3. S \in SUBSET Nat
    OBVIOUS
  <1>4. \A m \in Nat : m \in S
    <2> HIDE DEF S
    <2> QED BY <1>1, <1>2, <1>3, Induction, Zenon
  <1>5. P(n)
    BY <1>4
  <1> QED BY <1>5 DEF P, IsRun

\* It has one run.
Follows(b, n, R, turn) == \A i \in 1..n : b[i - 1] \in R => b[i] = turn[<<b[i - 1], i>>]

\* What starts like a run and takes its turns is that run.
LEMMA LoopDetermined ==
  ASSUME NEW n \in Nat, NEW R, NEW init, NEW a, NEW b, NEW turn,
         IsRun(a, n, R, init, turn), b[0] = init, Follows(b, n, R, turn)
  PROVE  \A i \in 0..n : a[i] = b[i]
  <1> USE DEF IsRun, Follows
  <1> DEFINE E == {i \in Nat : i <= n => a[i] = b[i]}
  <1>1. 0 \in E
    OBVIOUS
  <1>2. ASSUME NEW m \in E PROVE m + 1 \in E
    <2> SUFFICES ASSUME m + 1 <= n PROVE a[m + 1] = b[m + 1]
      OBVIOUS
    <2>1. m \in Nat /\ m \in 0..n /\ m + 1 \in 1..n /\ (m + 1) - 1 = m /\ a[m] = b[m]
      BY <1>2
    <2>2. a[m + 1] = turn[<<a[m], m + 1>>]
      BY <2>1
    <2>3. b[m] \in R => b[m + 1] = turn[<<b[m], m + 1>>]
      BY <2>1
    <2> QED BY <2>1, <2>2, <2>3
  <1>3. E \in SUBSET Nat
    OBVIOUS
  <1>4. \A m \in Nat : m \in E
    <2> HIDE DEF E
    <2> QED BY <1>1, <1>2, <1>3, Induction, Zenon
  <1> QED BY <1>4
-----------------------------------------------------------------------------
Batch == [seq : Int, records : Seq(Nat)]
Hash == Seq(Batch)
HeadSet == [next_seq : Int, hash : Hash]
HeaderLine == [kind : {"header"}, seq : Int, prev : Hash]
RecordLine == [kind : {"record"}, id : Nat]
BatchLine == [kind : {"batch"}, seq : Int, records : Nat, prev : Hash, hash : Hash]
Line == HeaderLine \cup RecordLine \cup BatchLine \cup {Torn}
ScanState == [head : HeadSet, end : Nat, batches : Nat, pending : Seq(Nat), forged : BOOLEAN]

\* A line is of one kind.
LEMMA LineKinds ==
  ASSUME NEW l \in Line
  PROVE  /\ l.kind \in {"header", "record", "batch", "torn"}
         /\ l.kind = "header" => l \in HeaderLine /\ l.seq \in Int /\ l.prev \in Hash
         /\ l.kind = "record" => l \in RecordLine /\ l.id \in Nat
         /\ l.kind = "batch" => l \in BatchLine /\ l.seq \in Int /\ l.records \in Nat
                                  /\ l.prev \in Hash /\ l.hash \in Hash
         /\ l.kind = "torn" => l = Torn
  BY DEF Line, HeaderLine, RecordLine, BatchLine, Torn

\* recover's loop stays within its state.
LEMMA ScanLineType ==
  ASSUME NEW s \in ScanState, NEW i \in Nat, NEW l \in Line
  PROVE  ScanLine(s, i, l) \in ScanState
  <1>1. CASE s.forged \/ (s.head = NoHead /\ i > 1)
    <2>1. ScanLine(s, i, l) = s
      BY <1>1, Zenon DEF ScanLine
    <2> QED BY <2>1
  <1>2. CASE ~(s.forged \/ (s.head = NoHead /\ i > 1)) /\ l.kind = "header" /\ i = 1
    <2>1. ScanLine(s, i, l) = [s EXCEPT !.head = [next_seq |-> l.seq, hash |-> l.prev], !.end = 1]
      BY <1>2 DEF ScanLine
    <2>2. [next_seq |-> l.seq, hash |-> l.prev] \in HeadSet /\ 1 \in Nat
      BY <1>2, LineKinds DEF HeadSet
    <2> QED BY <2>1, <2>2, Zenon DEF ScanState
  <1>3. CASE /\ ~(s.forged \/ (s.head = NoHead /\ i > 1))
             /\ l.kind = "batch" /\ Accepts(s.head, l, s.pending)
    <2>1. ScanLine(s, i, l) = [s EXCEPT !.head = [next_seq |-> l.seq + 1, hash |-> l.hash], !.end = i,
                                        !.batches = s.batches + 1, !.pending = <<>>]
      BY <1>3 DEF ScanLine
    <2>2. [next_seq |-> l.seq + 1, hash |-> l.hash] \in HeadSet /\ s.batches + 1 \in Nat /\ <<>> \in Seq(Nat)
      BY <1>3, LineKinds DEF HeadSet, ScanState
    <2> QED BY <2>1, <2>2, Zenon DEF ScanState
  <1>4. CASE ~(s.forged \/ (s.head = NoHead /\ i > 1)) /\ l.kind = "record"
    <2>1. ScanLine(s, i, l) = [s EXCEPT !.pending = Append(s.pending, l.id)]
      BY <1>4 DEF ScanLine
    <2>2. Append(s.pending, l.id) \in Seq(Nat)
      BY <1>4, LineKinds DEF ScanState
    <2> QED BY <2>1, <2>2, Zenon DEF ScanState
  <1>5. CASE /\ ~(s.forged \/ (s.head = NoHead /\ i > 1))
             /\ ~(l.kind = "header" /\ i = 1)
             /\ ~(l.kind = "batch" /\ Accepts(s.head, l, s.pending))
             /\ l.kind # "record"
    <2>1. ScanLine(s, i, l) = [s EXCEPT !.forged = TRUE]
      BY <1>5 DEF ScanLine
    <2> QED BY <2>1, Zenon DEF ScanState
  <1> QED BY <1>1, <1>2, <1>3, <1>4, <1>5

\* A run of recover's loop over the lines of data.
IsScan(a, data) ==
  /\ a \in [0..Len(data) -> ScanState]
  /\ a[0] = ScanStart
  /\ \A i \in 1..Len(data) : a[i] = ScanLine(a[i - 1], i, data[i])

\* recover's loop starts in one of its states.
LEMMA ScanStartType == ScanStart \in ScanState
  BY DEF ScanStart, ScanState, NoHead, HeadSet, GENESIS, Hash

\* Scan is the end of the run.
LEMMA ScanRuns ==
  ASSUME NEW data \in Seq(Line)
  PROVE  \E a : IsScan(a, data) /\ Scan(data) = a[Len(data)]
  <1> DEFINE n == Len(data)
             turn == [si \in ScanState \X (1..n) |-> ScanLine(si[1], si[2], data[si[2]])]
  <1>0. n \in Nat /\ \A i \in 1..n : data[i] \in Line
    BY SeqLength, SeqElements
  <1>1. turn \in Loops(n, ScanState)
    BY <1>0, ScanLineType DEF Loops
  <1>2. \A s \in ScanState, i \in 1..n : turn[<<s, i>>] = ScanLine(s, i, data[i])
    OBVIOUS
  <1> HIDE DEF turn
  <1>3. PICK a : IsRun(a, n, ScanState, ScanStart, turn)
    <2> HIDE DEF n
    <2> QED BY <1>0, <1>1, ScanStartType, LoopRuns, Zenon
  <1>4. a \in [0..n -> ScanState] /\ a[0] = ScanStart /\ \A i \in 1..n : a[i - 1] \in ScanState
    BY <1>0, <1>3 DEF IsRun
  <1>5. \A i \in 1..n : a[i] = ScanLine(a[i - 1], i, data[i])
    BY <1>2, <1>3, <1>4, Zenon DEF IsRun
  <1> DEFINE Q(u) == u = [i \in 0..n |-> IF i = 0 THEN ScanStart ELSE ScanLine(u[i - 1], i, data[i])]
             u == CHOOSE v : Q(v)
  <1>6. Q(a)
    <2>1. \A i \in 0..n : i # 0 => i \in 1..n
      BY <1>0
    <2> QED BY <1>4, <1>5, <2>1
  <1>7. Q(u)
    BY <1>6, Zenon
  <1>8. Scan(data) = u[n]
    BY Zenon DEF Scan
  <1> HIDE DEF u
  <1>9. u[0] = ScanStart /\ \A i \in 1..n : u[i] = ScanLine(u[i - 1], i, data[i])
    BY <1>0, <1>7
  <1>10. Follows(u, n, ScanState, turn)
    BY <1>2, <1>9 DEF Follows
  <1>11. \A i \in 0..n : a[i] = u[i]
    <2>1. u[0] = ScanStart /\ n \in Nat
      BY <1>0, <1>9
    <2> HIDE DEF n, Q
    <2> QED BY <1>3, <1>10, <2>1, LoopDetermined
  <1>12. a[n] = u[n]
    BY <1>0, <1>11
  <1> QED BY <1>4, <1>5, <1>8, <1>12 DEF IsScan

\* Scans of sequences with a common beginning agree on it.
LEMMA ScanCommon ==
  ASSUME NEW c \in Seq(Line), NEW d \in Seq(Line), NEW a, NEW b, IsScan(a, c), IsScan(b, d),
         Len(c) <= Len(d), \A i \in 1..Len(c) : c[i] = d[i]
  PROVE  a[Len(c)] = b[Len(c)]
  <1>0. Len(c) \in Nat /\ Len(d) \in Nat
    BY SeqLength
  <1> DEFINE E == {i \in Nat : i <= Len(c) => a[i] = b[i]}
  <1>1. 0 \in E
    BY DEF IsScan
  <1>2. ASSUME NEW n \in E PROVE n + 1 \in E
    <2> SUFFICES ASSUME n + 1 <= Len(c) PROVE a[n + 1] = b[n + 1]
      OBVIOUS
    <2>1. n + 1 \in 1..Len(c) /\ n + 1 \in 1..Len(d) /\ (n + 1) - 1 = n /\ a[n] = b[n]
      BY <1>0, <1>2
    <2>2. a[n + 1] = ScanLine(a[(n + 1) - 1], n + 1, c[n + 1]) /\ b[n + 1] = ScanLine(b[(n + 1) - 1], n + 1, d[n + 1])
      BY <2>1 DEF IsScan
    <2> QED BY <2>1, <2>2
  <1>3. E \in SUBSET Nat
    OBVIOUS
  <1>4. \A m \in Nat : m \in E
    <2> HIDE DEF E
    <2> QED BY <1>1, <1>2, <1>3, Induction, Zenon
  <1> QED BY <1>0, <1>4

\* Scanning one line more.
LEMMA ScanAppend ==
  ASSUME NEW data \in Seq(Line), NEW l \in Line
  PROVE  Scan(Append(data, l)) = ScanLine(Scan(data), Len(data) + 1, l)
  <1> DEFINE d == Append(data, l)
  <1>1. /\ d \in Seq(Line) /\ Len(d) = Len(data) + 1 /\ Len(data) \in Nat
        /\ \A i \in 1..Len(data) : data[i] = d[i]
        /\ d[Len(data) + 1] = l
    BY SeqAppend, SeqLength
  <1> HIDE DEF d
  <1>2. PICK a : IsScan(a, data) /\ Scan(data) = a[Len(data)]
    BY ScanRuns
  <1>3. PICK b : IsScan(b, d) /\ Scan(d) = b[Len(d)]
    BY <1>1, ScanRuns
  <1>4. a[Len(data)] = b[Len(data)]
    BY <1>1, <1>2, <1>3, ScanCommon
  <1>5. b[Len(data) + 1] = ScanLine(b[(Len(data) + 1) - 1], Len(data) + 1, l)
    BY <1>1, <1>3 DEF IsScan
  <1>6. (Len(data) + 1) - 1 = Len(data)
    BY <1>1
  <1> QED BY <1>1, <1>2, <1>3, <1>4, <1>5, <1>6 DEF d

\* A scan ends in one of its states.
LEMMA ScanType ==
  ASSUME NEW data \in Seq(Line)
  PROVE  Scan(data) \in ScanState
  <1>1. PICK a : IsScan(a, data) /\ Scan(data) = a[Len(data)]
    BY ScanRuns
  <1>2. Len(data) \in 0..Len(data)
    BY SeqLength
  <1> QED BY <1>1, <1>2 DEF IsScan

\* An empty segment is scanned as it starts.
LEMMA ScanEmpty == Scan(<<>>) = ScanStart
  <1>1. <<>> \in Seq(Line) /\ Len(<<>>) = 0
    OBVIOUS
  <1> QED BY <1>1, ScanRuns, Zenon DEF IsScan

\* The first lines of a segment.
Pre(data, n) == SubSeq(data, 1, n)

\* They are the lines of the segment, one more with each turn.
LEMMA PreFacts ==
  ASSUME NEW data \in Seq(Line), NEW n \in 0..Len(data)
  PROVE  /\ Pre(data, n) \in Seq(Line) /\ Len(Pre(data, n)) = n
         /\ \A i \in 1..n : Pre(data, n)[i] = data[i]
         /\ n = Len(data) => Pre(data, n) = data
         /\ n = 0 => Pre(data, n) = <<>>
         /\ n < Len(data) => Pre(data, n + 1) = Append(Pre(data, n), data[n + 1]) /\ data[n + 1] \in Line
  <1>0. Len(data) \in Nat /\ n \in Nat /\ n <= Len(data)
    BY SeqLength
  <1>1. /\ Pre(data, n) \in Seq(Line) /\ Len(Pre(data, n)) = n
        /\ \A i \in 1..n : Pre(data, n)[i] = data[i]
    BY <1>0 DEF Pre
  <1>2. n = Len(data) => Pre(data, n) = data
    BY <1>0, <1>1, SeqSame
  <1>3. n = 0 => Pre(data, n) = <<>>
    BY <1>0, <1>1
  <1>4. ASSUME n < Len(data) PROVE Pre(data, n + 1) = Append(Pre(data, n), data[n + 1]) /\ data[n + 1] \in Line
    <2>1. n + 1 \in 1..Len(data) /\ data[n + 1] \in Line
      BY <1>0, <1>4, SeqElements
    <2>2. /\ Pre(data, n + 1) \in Seq(Line) /\ Len(Pre(data, n + 1)) = n + 1
          /\ \A i \in 1..(n + 1) : Pre(data, n + 1)[i] = data[i]
      BY <1>0, <1>4 DEF Pre
    <2> DEFINE e == Append(Pre(data, n), data[n + 1])
    <2>3. /\ e \in Seq(Line) /\ Len(e) = n + 1
          /\ \A i \in 1..n : e[i] = Pre(data, n)[i]
          /\ e[n + 1] = data[n + 1]
      BY <1>1, <2>1, SeqAppend
    <2>4. \A i \in 1..(n + 1) : e[i] = data[i]
      <3> HIDE DEF e
      <3> QED BY <1>0, <1>1, <2>3
    <2> HIDE DEF e
    <2>5. Pre(data, n + 1) = e
      BY <2>2, <2>3, <2>4, SeqSame
    <2> QED BY <2>1, <2>5 DEF e
  <1> QED BY <1>1, <1>2, <1>3, <1>4

\* Scanning the lines one by one.
LEMMA ScanPre ==
  ASSUME NEW data \in Seq(Line), NEW n \in 0..Len(data), n < Len(data)
  PROVE  Scan(Pre(data, n + 1)) = ScanLine(Scan(Pre(data, n)), n + 1, data[n + 1])
  <1>1. /\ Pre(data, n) \in Seq(Line) /\ Len(Pre(data, n)) = n
        /\ Pre(data, n + 1) = Append(Pre(data, n), data[n + 1]) /\ data[n + 1] \in Line
    BY PreFacts
  <1> QED BY <1>1, ScanAppend, Zenon

\* What a line does to recover's loop.
Skipped(s, i, t) == (s.forged \/ (s.head = NoHead /\ i > 1)) /\ t = s
HeaderRead(s, i, l, t) ==
  /\ ~s.forged /\ i = 1 /\ l.kind = "header" /\ t.head = [next_seq |-> l.seq, hash |-> l.prev]
  /\ t.end = 1 /\ t.batches = s.batches /\ t.pending = s.pending /\ ~t.forged
BatchRead(s, i, l, t) ==
  /\ ~s.forged /\ ~(s.head = NoHead /\ i > 1) /\ l.kind = "batch" /\ Accepts(s.head, l, s.pending)
  /\ t.head = [next_seq |-> l.seq + 1, hash |-> l.hash]
  /\ t.end = i /\ t.batches = s.batches + 1 /\ t.pending = <<>> /\ ~t.forged
RecordRead(s, i, l, t) ==
  /\ ~s.forged /\ ~(s.head = NoHead /\ i > 1) /\ l.kind = "record"
  /\ t.head = s.head /\ t.end = s.end /\ t.batches = s.batches
  /\ t.pending = Append(s.pending, l.id) /\ ~t.forged
Refused(s, i, l, t) ==
  /\ ~s.forged /\ ~(s.head = NoHead /\ i > 1) /\ l.kind # "record"
  /\ ~(l.kind = "header" /\ i = 1)
  /\ t.head = s.head /\ t.end = s.end /\ t.batches = s.batches /\ t.pending = s.pending /\ t.forged

\* A line does one of these five things.
LEMMA ScanCases ==
  ASSUME NEW s \in ScanState, NEW i \in Nat, NEW l \in Line
  PROVE  LET t == ScanLine(s, i, l)
         IN  \/ Skipped(s, i, t) \/ HeaderRead(s, i, l, t) \/ BatchRead(s, i, l, t)
             \/ RecordRead(s, i, l, t) \/ Refused(s, i, l, t)
  <1> DEFINE t == ScanLine(s, i, l)
  <1>1. CASE s.forged \/ (s.head = NoHead /\ i > 1)
    <2>1. t = s
      BY <1>1, Zenon DEF ScanLine
    <2> QED BY <1>1, <2>1, Zenon DEF Skipped
  <1>2. CASE ~(s.forged \/ (s.head = NoHead /\ i > 1)) /\ l.kind = "header" /\ i = 1
    <2>1. t = [s EXCEPT !.head = [next_seq |-> l.seq, hash |-> l.prev], !.end = 1]
      BY <1>2 DEF ScanLine
    <2>2. HeaderRead(s, i, l, t)
      BY <1>2, <2>1, Zenon DEF ScanState, HeaderRead
    <2> QED BY <2>2
  <1>3. CASE /\ ~(s.forged \/ (s.head = NoHead /\ i > 1))
             /\ l.kind = "batch" /\ Accepts(s.head, l, s.pending)
    <2>1. t = [s EXCEPT !.head = [next_seq |-> l.seq + 1, hash |-> l.hash], !.end = i,
                        !.batches = s.batches + 1, !.pending = <<>>]
      BY <1>3 DEF ScanLine
    <2>2. BatchRead(s, i, l, t)
      BY <1>3, <2>1, Zenon DEF ScanState, BatchRead
    <2> QED BY <2>2
  <1>4. CASE ~(s.forged \/ (s.head = NoHead /\ i > 1)) /\ l.kind = "record"
    <2>1. t = [s EXCEPT !.pending = Append(s.pending, l.id)]
      BY <1>4 DEF ScanLine
    <2>2. RecordRead(s, i, l, t)
      BY <1>4, <2>1, Zenon DEF ScanState, RecordRead
    <2> QED BY <2>2
  <1>5. CASE /\ ~(s.forged \/ (s.head = NoHead /\ i > 1))
             /\ ~(l.kind = "header" /\ i = 1)
             /\ ~(l.kind = "batch" /\ Accepts(s.head, l, s.pending))
             /\ l.kind # "record"
    <2>1. t = [s EXCEPT !.forged = TRUE]
      BY <1>5 DEF ScanLine
    <2>2. Refused(s, i, l, t)
      BY <1>5, <2>1, Zenon DEF ScanState, Refused
    <2> QED BY <2>2
  <1> QED BY <1>1, <1>2, <1>3, <1>4, <1>5

\* The scan of a segment that begins with the header of batch f: where it ends, and the
\* head it finds.
LEMMA ScanPlace ==
  ASSUME NEW data \in Seq(Line), NEW f \in Nat,
         data # <<>>, data[1].kind = "header", data[1].seq = f
  PROVE  LET s == Scan(data)
         IN  /\ s.head # NoHead /\ s.end \in 1..Len(data)
             /\ s.head.next_seq = f + s.batches /\ (s.batches = 0 => s.end = 1)
  <1>0. Len(data) \in Nat /\ Len(data) # 0 /\ data[1] \in Line
    BY SeqLength, SeqElements, SeqEmpty
  <1> DEFINE S(n) == Scan(Pre(data, n))
             P(n) == /\ S(n).head # NoHead /\ S(n).end \in 1..n
                     /\ S(n).head.next_seq = f + S(n).batches /\ (S(n).batches = 0 => S(n).end = 1)
             E == {n \in Nat : n + 1 <= Len(data) => P(n + 1)}
  <1>1. \A n \in 0..Len(data) : S(n) \in ScanState
    BY PreFacts, ScanType
  <1>2. \A n \in Nat : n < Len(data) => S(n + 1) = ScanLine(S(n), n + 1, data[n + 1]) /\ data[n + 1] \in Line
    <2> SUFFICES ASSUME NEW n \in Nat, n < Len(data)
                 PROVE  S(n + 1) = ScanLine(S(n), n + 1, data[n + 1]) /\ data[n + 1] \in Line
      OBVIOUS
    <2>1. n \in 0..Len(data)
      BY <1>0
    <2> QED BY <2>1, ScanPre, PreFacts
  <1>3. S(0) = ScanStart
    BY <1>0, PreFacts, ScanEmpty
  <1> HIDE DEF S
  <1>4. 0 \in E
    <2>1. S(1) = ScanLine(ScanStart, 1, data[1])
      BY <1>0, <1>2, <1>3
    <2>2. HeaderRead(ScanStart, 1, data[1], S(1))
      <3>1. ~Refused(ScanStart, 1, data[1], S(1)) /\ ~BatchRead(ScanStart, 1, data[1], S(1))
              /\ ~RecordRead(ScanStart, 1, data[1], S(1)) /\ ~Skipped(ScanStart, 1, S(1))
        BY DEF Refused, BatchRead, RecordRead, Skipped, ScanStart
      <3> QED BY <1>0, <2>1, <3>1, ScanStartType, ScanCases
    <2>3. P(1)
      BY <2>2 DEF HeaderRead, ScanStart, NoHead
    <2> QED BY <2>3
  <1>5. ASSUME NEW n \in E PROVE n + 1 \in E
    <2> SUFFICES ASSUME (n + 1) + 1 <= Len(data) PROVE P((n + 1) + 1)
      <3> HIDE DEF P
      <3> QED BY <1>5
    <2> DEFINE m == n + 1
    <2>0. n \in Nat /\ m \in Nat /\ m >= 1 /\ m < Len(data) /\ m \in 0..Len(data) /\ m + 1 > 1 /\ P(m)
      BY <1>0, <1>5
    <2>1. S(m + 1) = ScanLine(S(m), m + 1, data[m + 1]) /\ S(m) \in ScanState /\ data[m + 1] \in Line
      BY <1>1, <1>2, <2>0
    <2>2. S(m + 1) \in ScanState
      <3>1. m + 1 \in 0..Len(data)
        BY <1>0, <2>0
      <3> QED BY <1>1, <3>1
    <2>3. S(m).batches \in Nat /\ S(m).end \in Nat /\ S(m).head.next_seq \in Int /\ S(m + 1).batches \in Nat
      BY <2>1, <2>2 DEF ScanState, HeadSet
    <2> HIDE DEF m
    <2>4. \/ Skipped(S(m), m + 1, S(m + 1)) \/ HeaderRead(S(m), m + 1, data[m + 1], S(m + 1))
          \/ BatchRead(S(m), m + 1, data[m + 1], S(m + 1))
          \/ RecordRead(S(m), m + 1, data[m + 1], S(m + 1)) \/ Refused(S(m), m + 1, data[m + 1], S(m + 1))
      BY <2>0, <2>1, ScanCases
    <2>5. CASE Skipped(S(m), m + 1, S(m + 1))
      BY <2>0, <2>3, <2>5 DEF Skipped, m
    <2>6. CASE HeaderRead(S(m), m + 1, data[m + 1], S(m + 1))
      BY <2>0, <2>6 DEF HeaderRead
    <2>7. CASE BatchRead(S(m), m + 1, data[m + 1], S(m + 1))
      <3>1. data[m + 1].seq = f + S(m).batches
        BY <2>0, <2>7 DEF BatchRead, Accepts
      <3>2. S(m + 1).head.next_seq = data[m + 1].seq + 1 /\ S(m + 1).end = m + 1 /\ S(m + 1).batches = S(m).batches + 1
        BY <2>7 DEF BatchRead
      <3>3. S(m + 1).head # NoHead
        BY <2>3, <3>1, <3>2 DEF NoHead
      <3>4. S(m + 1).head.next_seq = f + S(m + 1).batches /\ S(m + 1).batches # 0 /\ S(m + 1).end \in 1..(m + 1)
        <4>1. m \in Nat /\ m >= 1 /\ S(m).batches \in Nat
          BY <2>0, <2>3
        <4>2. S(m + 1).end \in 1..(m + 1)
          BY <3>2, <4>1
        <4>3. (f + S(m).batches) + 1 = f + (S(m).batches + 1) /\ S(m).batches + 1 # 0
          BY <4>1
        <4> QED BY <3>1, <3>2, <4>2, <4>3
      <3>5. P(m + 1)
        BY <3>3, <3>4
      <3> QED BY <3>5 DEF m
    <2>8. CASE RecordRead(S(m), m + 1, data[m + 1], S(m + 1))
      BY <2>0, <2>3, <2>8 DEF RecordRead, m
    <2>9. CASE Refused(S(m), m + 1, data[m + 1], S(m + 1))
      BY <2>0, <2>3, <2>9 DEF Refused, m
    <2> QED BY <2>4, <2>5, <2>6, <2>7, <2>8, <2>9
  <1>6. \A n \in Nat : n \in E
    <2>1. E \in SUBSET Nat
      OBVIOUS
    <2> HIDE DEF E
    <2> QED BY <1>4, <1>5, <2>1, Induction, Zenon
  <1>7. P(Len(data))
    <2>1. Len(data) - 1 \in Nat /\ (Len(data) - 1) + 1 = Len(data)
      BY <1>0
    <2> HIDE DEF P
    <2>2. Len(data) - 1 \in E
      <3> HIDE DEF E
      <3> QED BY <1>6, <2>1
    <2> QED BY <1>0, <2>1, <2>2
  <1>8. Pre(data, Len(data)) = data
    BY <1>0, PreFacts
  <1> QED BY <1>7, <1>8 DEF S

-----------------------------------------------------------------------------
\* A bounded set of numbers has a greatest one.
Bounded(S) == \E b \in Nat : \A x \in S : x <= b

\* Max picks it.
LEMMA Greatest ==
  ASSUME NEW S \in SUBSET Nat, S # {}, Bounded(S)
  PROVE  Max(S) \in S /\ \A x \in S : x <= Max(S)
  <1>0. PICK b \in Nat : \A x \in S : x <= b
    BY DEF Bounded
  <1> DEFINE IsMax(x) == x \in S /\ \A y \in S : x >= y
             E == {n \in Nat : \E x \in S : x >= n}
  <1>1. \E x : IsMax(x)
    <2> SUFFICES ASSUME \A x : ~IsMax(x) PROVE FALSE
      OBVIOUS
    <2>1. 0 \in E
      OBVIOUS
    <2>2. ASSUME NEW n \in E PROVE n + 1 \in E
      <3>1. PICK x \in S : x >= n
        BY <2>2
      <3>2. PICK y \in S : ~(x >= y)
        BY <3>1
      <3>3. y >= n + 1 /\ n \in Nat
        BY <2>2, <3>1, <3>2
      <3> QED BY <3>3
    <2>3. E \in SUBSET Nat
      OBVIOUS
    <2>4. \A n \in Nat : n \in E
      <3> HIDE DEF E
      <3> QED BY <2>1, <2>2, <2>3, Induction, Zenon
    <2>5. b + 1 \in E
      <3>1. b + 1 \in Nat
        BY <1>0
      <3> HIDE DEF E
      <3> QED BY <2>4, <3>1, Zenon
    <2>6. PICK x \in S : x >= b + 1
      BY <2>5
    <2> QED BY <1>0, <2>6
  <1>2. Max(S) = CHOOSE x : IsMax(x)
    BY Zenon DEF Max
  <1>3. IsMax(Max(S))
    BY <1>1, <1>2, Zenon
  <1> QED BY <1>3

\* The records of the parts of a segment.
LEMMA RecordsParts ==
  ASSUME NEW data \in Seq(Line), NEW e \in 0..Len(data)
  PROVE  RecordsOf(data) \subseteq RecordsOf(Pre(data, e)) \cup Leftovers(data, e)
  <1> SUFFICES ASSUME NEW r \in RecordsOf(data)
               PROVE  r \in RecordsOf(Pre(data, e)) \cup Leftovers(data, e)
    OBVIOUS
  <1>0. Len(data) \in Nat /\ e \in Nat /\ e <= Len(data) /\ DOMAIN data = 1..Len(data)
    BY SeqLength
  <1>1. PICK i \in 1..Len(data) : data[i].kind = "record" /\ r = data[i].id
    BY <1>0 DEF RecordsOf
  <1>2. CASE i <= e
    <2> DEFINE d == Pre(data, e)
    <2>1. d \in Seq(Line) /\ Len(d) = e /\ d[i] = data[i]
      BY <1>0, <1>1, <1>2, PreFacts
    <2>2. i \in DOMAIN d
      BY <1>0, <1>1, <1>2, <2>1, SeqLength
    <2> HIDE DEF d
    <2>3. r \in RecordsOf(d)
      BY <1>1, <2>1, <2>2 DEF RecordsOf
    <2> QED BY <2>3 DEF d
  <1>3. CASE i > e
    <2> DEFINE d == SubSeq(data, e + 1, Len(data))
               j == i - e
    <2>0. \A k \in (e + 1)..Len(data) : data[k] \in Line
      BY <1>0, SeqElements
    <2>1. /\ d \in Seq(Line) /\ Len(d) = Len(data) - e
          /\ \A k \in 1..(Len(data) - (e + 1) + 1) : d[k] = data[(e + 1) + k - 1]
      <3>1. e + 1 \in Int /\ Len(data) \in Int /\ e + 1 <= Len(data)
        BY <1>0, <1>1, <1>3
      <3>2. /\ d \in Seq(Line) /\ Len(d) = IF e + 1 <= Len(data) THEN Len(data) - (e + 1) + 1 ELSE 0
            /\ \A k \in 1..(Len(data) - (e + 1) + 1) : d[k] = data[(e + 1) + k - 1]
        BY <2>0, <3>1, SeqSubSeq, SMTT(30)
      <3>3. Len(data) - (e + 1) + 1 = Len(data) - e
        BY <1>0
      <3> QED BY <3>1, <3>2, <3>3, Zenon
    <2>2. j \in 1..(Len(data) - e) /\ j \in 1..(Len(data) - (e + 1) + 1) /\ (e + 1) + j - 1 = i
      BY <1>0, <1>1, <1>3
    <2>3. DOMAIN d = 1..(Len(data) - e)
      BY <2>1, SeqLength
    <2> HIDE DEF d, j
    <2>4. j \in DOMAIN d /\ d[j] = data[i]
      BY <2>1, <2>2, <2>3, Zenon
    <2>5. r \in RecordsOf(d)
      BY <1>1, <2>4 DEF RecordsOf
    <2> QED BY <2>5 DEF Leftovers, d
  <1> QED BY <1>0, <1>1, <1>2, <1>3

\* What is appended takes no record away, and keeps the beginning.
LEMMA Extended ==
  ASSUME NEW c \in Seq(Line), NEW d \in Seq(Line)
  PROVE  /\ c \o d \in Seq(Line) /\ Len(c \o d) = Len(c) + Len(d) /\ Len(c) \in Nat /\ Len(d) \in Nat
         /\ \A i \in 1..Len(c) : (c \o d)[i] = c[i]
         /\ RecordsOf(c) \subseteq RecordsOf(c \o d)
         /\ c # <<>> => c \o d # <<>> /\ (c \o d)[1] = c[1]
  <1>1. /\ c \o d \in Seq(Line) /\ Len(c \o d) = Len(c) + Len(d) /\ Len(c) \in Nat /\ Len(d) \in Nat
        /\ \A i \in 1..Len(c) : (c \o d)[i] = c[i]
    BY SeqConcat, SeqLength
  <1>2. DOMAIN c = 1..Len(c) /\ DOMAIN (c \o d) = 1..Len(c \o d)
    BY <1>1, SeqLength
  <1>3. \A i \in DOMAIN c : i \in DOMAIN (c \o d)
    BY <1>1, <1>2
  <1>4. RecordsOf(c) \subseteq RecordsOf(c \o d)
    BY <1>1, <1>2, <1>3 DEF RecordsOf
  <1>5. ASSUME c # <<>> PROVE c \o d # <<>> /\ (c \o d)[1] = c[1]
    <2>1. Len(c) # 0 /\ 1 \in 1..Len(c) /\ Len(c \o d) # 0
      BY <1>1, <1>5, SeqEmpty
    <2> QED BY <1>1, <2>1
  <1> QED BY <1>1, <1>4, <1>5

\* What is left of a segment begins like it.
LEMMA Survived ==
  ASSUME NEW full \in Seq(Line), NEW n \in 0..Len(full), NEW data \in Survivors(full, n)
  PROVE  /\ data \in Seq(Line) /\ n <= Len(data) /\ Len(data) <= Len(full)
         /\ \A i \in 1..n : data[i] = full[i]
         /\ data \in {<<>>, <<Torn>>} \/ (data # <<>> /\ full # <<>> /\ data[1] = full[1])
         /\ n > 0 => data # <<>> /\ data[1] = full[1]
  <1>0. Len(full) \in Nat /\ n \in Nat /\ n <= Len(full) /\ Torn \in Line
    BY SeqLength DEF Line
  <1>1. PICK i \in n..Len(full) : data = Pre(full, i) \/ (i < Len(full) /\ data = Append(Pre(full, i), Torn))
    <2>1. CASE data \in {SubSeq(full, 1, i) : i \in n..Len(full)}
      BY <2>1, Zenon DEF Pre
    <2>2. CASE data \in {Append(SubSeq(full, 1, i), Torn) : i \in n..(Len(full) - 1)}
      <3>1. PICK i \in n..(Len(full) - 1) : data = Append(SubSeq(full, 1, i), Torn)
        BY <2>2, Zenon
      <3>2. i \in n..Len(full) /\ i < Len(full)
        BY <1>0
      <3> QED BY <3>1, <3>2, Zenon DEF Pre
    <2> QED BY <2>1, <2>2, Zenon DEF Survivors
  <1> DEFINE d == Pre(full, i)
  <1>2. i \in 0..Len(full) /\ i \in Nat
    BY <1>0, <1>1
  <1>3. d \in Seq(Line) /\ Len(d) = i /\ (\A j \in 1..i : d[j] = full[j]) /\ (i = 0 => d = <<>>)
    BY <1>2, PreFacts
  <1>4. full # <<>> <=> Len(full) # 0
    BY SeqEmpty
  <1> HIDE DEF d
  <1>5. CASE data = d
    <2>1. data \in Seq(Line) /\ n <= Len(data) /\ Len(data) <= Len(full) /\ \A j \in 1..n : data[j] = full[j]
      BY <1>0, <1>1, <1>2, <1>3, <1>5
    <2>2. CASE i = 0
      BY <1>0, <1>1, <1>2, <1>3, <1>5, <2>1, <2>2
    <2>3. CASE i > 0
      <3>1. data # <<>> /\ full # <<>> /\ data[1] = full[1]
        BY <1>0, <1>1, <1>2, <1>3, <1>4, <1>5, <2>3
      <3> QED BY <2>1, <3>1
    <2> QED BY <1>2, <2>2, <2>3
  <1>6. CASE i < Len(full) /\ data = Append(d, Torn)
    <2>1. data \in Seq(Line) /\ Len(data) = i + 1 /\ \A j \in 1..i : data[j] = d[j]
      BY <1>0, <1>3, <1>6, SeqAppend
    <2>2. n <= Len(data) /\ Len(data) <= Len(full) /\ \A j \in 1..n : data[j] = full[j]
      BY <1>0, <1>1, <1>2, <1>3, <1>6, <2>1
    <2>3. CASE i = 0
      <3>1. data = <<Torn>>
        BY <1>3, <1>6, <2>3
      <3> QED BY <1>0, <1>1, <2>1, <2>2, <2>3, <3>1
    <2>4. CASE i > 0
      <3>1. data # <<>> /\ full # <<>> /\ data[1] = full[1]
        BY <1>0, <1>1, <1>2, <1>3, <1>4, <2>1, <2>4
      <3> QED BY <2>1, <2>2, <3>1
    <2> QED BY <1>2, <2>3, <2>4
  <1> QED BY <1>1, <1>5, <1>6 DEF d

\* Complete drops a torn line.
LEMMA Completed ==
  ASSUME NEW data \in Seq(Line)
  PROVE  /\ Complete(data) \in Seq(Line) /\ Len(Complete(data)) <= Len(data)
         /\ IsTorn(data) => Complete(data) = Pre(data, Len(data) - 1) /\ Len(Complete(data)) = Len(data) - 1
         /\ ~IsTorn(data) => Complete(data) = data
         /\ \A i \in 1..Len(Complete(data)) : Complete(data)[i] = data[i]
  <1>0. Len(data) \in Nat /\ (data # <<>> => Len(data) # 0)
    BY SeqLength, SeqEmpty
  <1>1. CASE IsTorn(data)
    <2>1. Complete(data) = Pre(data, Len(data) - 1) /\ Len(data) - 1 \in 0..Len(data)
      BY <1>0, <1>1 DEF Complete, IsTorn, Pre
    <2>2. /\ Pre(data, Len(data) - 1) \in Seq(Line) /\ Len(Pre(data, Len(data) - 1)) = Len(data) - 1
          /\ \A i \in 1..(Len(data) - 1) : Pre(data, Len(data) - 1)[i] = data[i]
      BY <2>1, PreFacts
    <2> QED BY <1>0, <1>1, <2>1, <2>2
  <1>2. CASE ~IsTorn(data)
    BY <1>0, <1>2 DEF Complete
  <1> QED BY <1>1, <1>2

-----------------------------------------------------------------------------
(* More about recover's loop *)

\* A segment begins with the header that names it, or has no complete line.
Headed(data, f) == data # <<>> /\ data[1].kind = "header" /\ data[1].seq = f
Begun(data, f) == data \in Seq(Line) /\ (data = <<>> \/ data = <<Torn>> \/ Headed(data, f))

\* One turn of the loop over data.
LEMMA ScanStep ==
  ASSUME NEW data \in Seq(Line), NEW n \in Nat, n < Len(data)
  PROVE  LET s == Scan(Pre(data, n))
             t == Scan(Pre(data, n + 1))
             l == data[n + 1]
         IN  /\ s \in ScanState /\ t \in ScanState /\ l \in Line
             /\ \/ Skipped(s, n + 1, t) \/ HeaderRead(s, n + 1, l, t) \/ BatchRead(s, n + 1, l, t)
                \/ RecordRead(s, n + 1, l, t) \/ Refused(s, n + 1, l, t)
  <1> DEFINE s == Scan(Pre(data, n))
             t == Scan(Pre(data, n + 1))
             l == data[n + 1]
  <1>1. Len(data) \in Nat
    BY SeqLength
  <1>2. n \in 0..Len(data) /\ n + 1 \in 0..Len(data) /\ n + 1 \in Nat
    BY <1>1
  <1>3. s \in ScanState /\ t \in ScanState /\ l \in Line
    BY <1>2, PreFacts, ScanType
  <1>4. t = ScanLine(s, n + 1, l)
    BY <1>2, ScanPre
  <1> HIDE DEF s, t, l
  <1>5. \/ Skipped(s, n + 1, t) \/ HeaderRead(s, n + 1, l, t) \/ BatchRead(s, n + 1, l, t)
        \/ RecordRead(s, n + 1, l, t) \/ Refused(s, n + 1, l, t)
    BY <1>2, <1>3, <1>4, ScanCases
  <1> QED BY <1>3, <1>5 DEF s, t, l

\* What was refused stays refused, and the batches read stay read.
LEMMA ScanMono ==
  ASSUME NEW data \in Seq(Line), NEW n \in 0..Len(data), NEW m \in n..Len(data)
  PROVE  /\ Scan(Pre(data, n)).forged => Scan(Pre(data, m)).forged
         /\ Scan(Pre(data, n)).batches <= Scan(Pre(data, m)).batches
         /\ Scan(Pre(data, n)).batches \in Nat /\ Scan(Pre(data, m)).batches \in Nat
  <1> DEFINE S(k) == Scan(Pre(data, k))
             P(k) == (S(n).forged => S(k).forged) /\ S(n).batches <= S(k).batches
             E == {k \in Nat : n + k <= Len(data) => P(n + k)}
  <1>0. Len(data) \in Nat /\ n \in Nat /\ m \in Nat /\ n <= m /\ m <= Len(data)
    BY SeqLength
  <1>1. \A k \in 0..Len(data) : S(k) \in ScanState
    BY PreFacts, ScanType
  <1>2. \A k \in 0..Len(data) : S(k).batches \in Nat /\ S(k).forged \in BOOLEAN
    BY <1>1 DEF ScanState
  <1>3. 0 \in E
    <2>1. S(n).batches \in Nat /\ n + 0 = n
      BY <1>0, <1>2
    <2> HIDE DEF S
    <2> QED BY <1>0, <2>1
  <1>4. ASSUME NEW k \in E PROVE k + 1 \in E
    <2> SUFFICES ASSUME n + (k + 1) <= Len(data) PROVE P(n + (k + 1))
      <3> HIDE DEF P
      <3> QED BY <1>4
    <2> DEFINE j == n + k
    <2>1. j \in Nat /\ j < Len(data) /\ n + (k + 1) = j + 1 /\ P(j) /\ j \in 0..Len(data) /\ j + 1 \in 0..Len(data)
      <3>1. k \in Nat /\ j \in Nat /\ j < Len(data) /\ n + (k + 1) = j + 1
        BY <1>0, <1>4
      <3>2. P(j)
        <4> HIDE DEF P
        <4> QED BY <1>0, <1>4, <3>1
      <3> HIDE DEF P
      <3> QED BY <1>0, <3>1, <3>2
    <2> HIDE DEF j
    <2>2. \/ Skipped(S(j), j + 1, S(j + 1)) \/ HeaderRead(S(j), j + 1, data[j + 1], S(j + 1))
          \/ BatchRead(S(j), j + 1, data[j + 1], S(j + 1))
          \/ RecordRead(S(j), j + 1, data[j + 1], S(j + 1)) \/ Refused(S(j), j + 1, data[j + 1], S(j + 1))
      BY <2>1, ScanStep, Zenon
    <2>3. S(j).batches \in Nat /\ S(n).batches \in Nat
      BY <1>0, <1>2, <2>1
    <2> HIDE DEF S
    <2>4. (S(j).forged => S(j + 1).forged) /\ (S(j + 1).batches = S(j).batches \/ S(j + 1).batches = S(j).batches + 1)
      BY <2>2, Zenon DEF Skipped, HeaderRead, BatchRead, RecordRead, Refused
    <2>5. P(j + 1)
      BY <2>1, <2>3, <2>4
    <2> QED BY <2>1, <2>5
  <1>5. \A k \in Nat : k \in E
    <2>1. E \in SUBSET Nat
      OBVIOUS
    <2> HIDE DEF E
    <2> QED BY <1>3, <1>4, <2>1, Induction, Zenon
  <1>6. P(m)
    <2>1. m - n \in Nat /\ n + (m - n) = m
      BY <1>0
    <2>2. m - n \in E
      <3> HIDE DEF E
      <3> QED BY <1>5, <2>1, Zenon
    <2> HIDE DEF P
    <2> QED BY <1>0, <2>1, <2>2
  <1>7. n \in 0..Len(data) /\ m \in 0..Len(data)
    BY <1>0
  <1> QED BY <1>2, <1>6, <1>7

\* A segment with a header that recover accepts has no torn line in it.
LEMMA NoTornInside ==
  ASSUME NEW data \in Seq(Line), NEW f \in Nat, Headed(data, f), ~Scan(data).forged
  PROVE  (\A i \in 1..Len(data) : data[i] # Torn) /\ ~IsTorn(data) /\ Complete(data) = data
  <1>0. Len(data) \in Nat /\ Len(data) # 0
    BY SeqLength, SeqEmpty DEF Headed
  <1>1. ASSUME NEW i \in 1..Len(data), data[i] = Torn PROVE FALSE
    <2> DEFINE n == i - 1
               d == Pre(data, n)
               s == Scan(d)
               t == Scan(Pre(data, i))
    <2>1. n \in Nat /\ n < Len(data) /\ n + 1 = i /\ n \in 0..Len(data) /\ i \in 0..Len(data) /\ i \in Nat
      BY <1>0
    <2>2. data[1].kind = "header" /\ data[1].seq = f /\ data[i].kind = "torn"
      BY <1>1 DEF Headed, Torn
    <2>3. i # 1 /\ n >= 1 /\ i > 1
      BY <2>1, <2>2
    <2>4. d \in Seq(Line) /\ Len(d) = n /\ d[1] = data[1]
      BY <2>1, <2>3, PreFacts
    <2>5. d # <<>>
      BY <2>3, <2>4
    <2>6. s.head # NoHead
      BY <2>2, <2>4, <2>5, ScanPlace
    <2>7. \/ Skipped(s, n + 1, t) \/ HeaderRead(s, n + 1, data[n + 1], t) \/ BatchRead(s, n + 1, data[n + 1], t)
          \/ RecordRead(s, n + 1, data[n + 1], t) \/ Refused(s, n + 1, data[n + 1], t)
      BY <2>1, ScanStep
    <2>8. t.forged
      <3> HIDE DEF s, t, d, n
      <3>1. ~HeaderRead(s, n + 1, data[n + 1], t) /\ ~BatchRead(s, n + 1, data[n + 1], t) /\ ~RecordRead(s, n + 1, data[n + 1], t)
        BY <2>1, <2>2 DEF HeaderRead, BatchRead, RecordRead
      <3> QED BY <2>6, <2>7, <3>1, Zenon DEF Skipped, Refused
    <2>9. Len(data) \in i..Len(data) /\ Pre(data, Len(data)) = data
      BY <1>0, <2>1, PreFacts
    <2>10. Scan(data).forged
      BY <2>1, <2>8, <2>9, ScanMono
    <2> QED BY <2>10
  <1>2. ~IsTorn(data)
    BY <1>0, <1>1 DEF IsTorn
  <1> QED BY <1>1, <1>2 DEF Complete

\* Cut after the last batch, a segment reads the same and leaves nothing pending.
LEMMA ScanCutEnd ==
  ASSUME NEW data \in Seq(Line), ~Scan(data).forged
  PROVE  LET s == Scan(data)
             c == Scan(Pre(data, s.end))
         IN  /\ s.end \in 0..Len(data)
             /\ c.head = s.head /\ c.batches = s.batches /\ ~c.forged /\ c.pending = <<>>
  <1> DEFINE S(k) == Scan(Pre(data, k))
             P(k) == ~S(k).forged => /\ S(k).end \in 0..k
                                     /\ S(S(k).end).head = S(k).head /\ S(S(k).end).batches = S(k).batches
                                     /\ ~S(S(k).end).forged /\ S(S(k).end).pending = <<>>
             E == {k \in Nat : k <= Len(data) => P(k)}
  <1>0. Len(data) \in Nat
    BY SeqLength
  <1>1. S(0) = ScanStart
    BY <1>0, PreFacts, ScanEmpty
  <1>2. \A k \in Nat : k < Len(data) =>
          /\ S(k) \in ScanState /\ S(k + 1) \in ScanState
          /\ \/ Skipped(S(k), k + 1, S(k + 1)) \/ HeaderRead(S(k), k + 1, data[k + 1], S(k + 1))
             \/ BatchRead(S(k), k + 1, data[k + 1], S(k + 1))
             \/ RecordRead(S(k), k + 1, data[k + 1], S(k + 1)) \/ Refused(S(k), k + 1, data[k + 1], S(k + 1))
    BY ScanStep, Zenon
  <1> HIDE DEF S
  <1>3. 0 \in E
    <2>1. S(0).end = 0 /\ S(0).pending = <<>>
      BY <1>1 DEF ScanStart
    <2> QED BY <2>1
  <1>4. ASSUME NEW k \in E PROVE k + 1 \in E
    <2> SUFFICES ASSUME k + 1 <= Len(data), ~S(k + 1).forged PROVE P(k + 1)
      <3>1. k + 1 <= Len(data) => P(k + 1)
        OBVIOUS
      <3> HIDE DEF P
      <3> QED BY <1>4, <3>1
    <2>1. k \in Nat /\ k < Len(data) /\ P(k)
      BY <1>0, <1>4
    <2>2. /\ S(k) \in ScanState /\ S(k + 1) \in ScanState
          /\ \/ Skipped(S(k), k + 1, S(k + 1)) \/ HeaderRead(S(k), k + 1, data[k + 1], S(k + 1))
             \/ BatchRead(S(k), k + 1, data[k + 1], S(k + 1))
             \/ RecordRead(S(k), k + 1, data[k + 1], S(k + 1)) \/ Refused(S(k), k + 1, data[k + 1], S(k + 1))
      BY <1>2, <2>1, Zenon
    <2>3. CASE Skipped(S(k), k + 1, S(k + 1))
      <3>1. S(k + 1) = S(k)
        BY <2>3 DEF Skipped
      <3> QED BY <2>1, <3>1
    <2>4. CASE HeaderRead(S(k), k + 1, data[k + 1], S(k + 1))
      <3>1. k = 0 /\ S(k + 1).end = k + 1 /\ S(k + 1).pending = S(k).pending
        BY <2>1, <2>4 DEF HeaderRead
      <3>2. S(k + 1).pending = <<>>
        BY <1>1, <3>1 DEF ScanStart
      <3> QED BY <3>1, <3>2
    <2>5. CASE BatchRead(S(k), k + 1, data[k + 1], S(k + 1))
      <3>1. S(k + 1).end = k + 1 /\ S(k + 1).pending = <<>>
        BY <2>5 DEF BatchRead
      <3> QED BY <2>1, <3>1
    <2>6. CASE RecordRead(S(k), k + 1, data[k + 1], S(k + 1))
      <3>1. S(k + 1).end = S(k).end /\ S(k + 1).head = S(k).head /\ S(k + 1).batches = S(k).batches /\ ~S(k).forged
        BY <2>6 DEF RecordRead
      <3>2. S(k + 1).end \in 0..(k + 1)
        BY <2>1, <3>1
      <3> QED BY <2>1, <3>1, <3>2
    <2>7. CASE Refused(S(k), k + 1, data[k + 1], S(k + 1))
      BY <2>7 DEF Refused
    <2> QED BY <2>2, <2>3, <2>4, <2>5, <2>6, <2>7, Zenon
  <1>5. \A k \in Nat : k \in E
    <2>1. E \in SUBSET Nat
      OBVIOUS
    <2> HIDE DEF E
    <2> QED BY <1>3, <1>4, <2>1, Induction, Zenon
  <1>6. P(Len(data)) /\ S(Len(data)) = Scan(data)
    <2>1. P(Len(data))
      <3> HIDE DEF P
      <3> QED BY <1>0, <1>5
    <2>2. Pre(data, Len(data)) = data
      BY <1>0, PreFacts
    <2> QED BY <2>1, <2>2 DEF S
  <1> QED BY <1>6 DEF S

\* A beginning of a segment that reads well reads well.
LEMMA PrefixOk ==
  ASSUME NEW data \in Seq(Line), NEW f \in Nat, Headed(data, f), ~Scan(data).forged, NEW k \in 1..Len(data)
  PROVE  LET d == Pre(data, k)
         IN  /\ d \in Seq(Line) /\ Len(d) = k /\ d[1] = data[1] /\ d # <<>>
             /\ Headed(d, f) /\ ~Scan(d).forged /\ ~IsTorn(d) /\ Complete(d) = d
  <1> DEFINE d == Pre(data, k)
  <1>0. Len(data) \in Nat /\ k \in 0..Len(data) /\ Len(data) \in k..Len(data) /\ 1 \in 1..k
    BY SeqLength
  <1>1. d \in Seq(Line) /\ Len(d) = k /\ \A i \in 1..k : d[i] = data[i]
    BY <1>0, PreFacts
  <1>2. d[1] = data[1] /\ d # <<>>
    BY <1>0, <1>1
  <1>3. Headed(d, f)
    BY <1>2 DEF Headed
  <1>4. ~Scan(d).forged
    <2>1. Pre(data, Len(data)) = data
      BY <1>0, PreFacts
    <2>2. Scan(d).forged => Scan(Pre(data, Len(data))).forged
      BY <1>0, ScanMono
    <2> QED BY <2>1, <2>2
  <1>5. ~IsTorn(d) /\ Complete(d) = d
    <2> HIDE DEF d
    <2> QED BY <1>1, <1>3, <1>4, NoTornInside
  <1> QED BY <1>1, <1>2, <1>3, <1>4, <1>5

-----------------------------------------------------------------------------
(* What rk audit verify makes of one segment *)

\* What it may report of the segments, and its state as it reads them.
Reported ==
  {"chain does not start at batch 0", "segment does not continue the chain", "header inside a segment",
   "batch before any header", "bad batch", "torn line inside the chain", "segment has no header", "records not sealed"}
VerifyState == [head : HeadSet, problems : SUBSET Reported, sealed : BOOLEAN, header : BOOLEAN, pending : Seq(Nat)]

\* The verifier's state before a segment.
Fresh(v) == [v EXCEPT !.header = FALSE, !.pending = <<>>]

\* Nothing else of the state changes.
LEMMA FreshType ==
  ASSUME NEW v \in VerifyState
  PROVE  /\ Fresh(v) \in VerifyState /\ Fresh(v).head = v.head /\ Fresh(v).problems = v.problems
         /\ Fresh(v).sealed = v.sealed /\ ~Fresh(v).header /\ Fresh(v).pending = <<>>
  <1>1. <<>> \in Seq(Nat) /\ FALSE \in BOOLEAN
    OBVIOUS
  <1>2. Fresh(v) \in VerifyState
    BY <1>1, Zenon DEF Fresh, VerifyState
  <1>3. /\ Fresh(v).head = v.head /\ Fresh(v).problems = v.problems
        /\ Fresh(v).sealed = v.sealed /\ ~Fresh(v).header /\ Fresh(v).pending = <<>>
    BY Zenon DEF Fresh, VerifyState
  <1> QED BY <1>2, <1>3

\* The state of the verifier after a header,
LEMMA VerifyHeaderType ==
  ASSUME NEW v \in VerifyState, NEW i \in Nat, NEW l \in Line, l.kind = "header"
  PROVE  VerifyHeader(v, l, i) \in VerifyState
  <1> DEFINE h == [next_seq |-> l.seq, hash |-> l.prev]
             bad == {p \in {"chain does not start at batch 0"} : v.head = NoHead /\ h # Genesis}
                      \cup {p \in {"segment does not continue the chain"} : v.head # NoHead /\ v.head # h}
             head1 == IF v.head = NoHead THEN h ELSE v.head
  <1>1. v.problems \in SUBSET Reported /\ v.head \in HeadSet
    BY DEF VerifyState
  <1>2. h \in HeadSet
    BY LineKinds DEF HeadSet
  <1>3. bad \in SUBSET Reported
    BY Zenon DEF Reported
  <1>4. head1 \in HeadSet
    BY <1>1, <1>2
  <1>5. CASE i # 1
    <2>1. VerifyHeader(v, l, i) = [v EXCEPT !.problems = v.problems \cup {"header inside a segment"}]
      BY <1>5 DEF VerifyHeader
    <2>2. v.problems \cup {"header inside a segment"} \in SUBSET Reported
      BY <1>1, Zenon DEF Reported
    <2> QED BY <2>1, <2>2, Zenon DEF VerifyState
  <1>6. CASE i = 1
    <2>1. VerifyHeader(v, l, i) = [v EXCEPT !.problems = v.problems \cup bad, !.header = TRUE, !.head = head1]
      BY <1>6 DEF VerifyHeader
    <2>2. v.problems \cup bad \in SUBSET Reported
      BY <1>1, <1>3, Zenon
    <2> HIDE DEF bad, head1
    <2> QED BY <1>4, <2>1, <2>2, Zenon DEF VerifyState
  <1> QED BY <1>5, <1>6

\* after a batch,
LEMMA VerifyBatchType ==
  ASSUME NEW v \in VerifyState, NEW l \in Line, l.kind = "batch"
  PROVE  VerifyBatch(v, l) \in VerifyState
  <1> DEFINE good == v.header /\ Accepts(v.head, l, v.pending)
             h == [next_seq |-> l.seq + 1, hash |-> l.hash]
             ps == IF good THEN v.problems ELSE v.problems \cup {"bad batch"}
             sd == v.sealed \/ good
  <1>1. v.problems \in SUBSET Reported
    BY DEF VerifyState
  <1>2. h \in HeadSet
    BY LineKinds DEF HeadSet
  <1>3. ps \in SUBSET Reported /\ sd \in BOOLEAN /\ <<>> \in Seq(Nat)
    <2>1. v.sealed \in BOOLEAN /\ v.header \in BOOLEAN
      BY DEF VerifyState
    <2>2. sd \in BOOLEAN
      BY <2>1, Zenon
    <2> HIDE DEF good
    <2>3. ps \in SUBSET Reported
      BY <1>1, Zenon DEF Reported
    <2>4. <<>> \in Seq(Nat)
      OBVIOUS
    <2> HIDE DEF ps, sd
    <2> QED BY <2>2, <2>3, <2>4
  <1>4. CASE v.head = NoHead
    <2>1. VerifyBatch(v, l) = [v EXCEPT !.problems = v.problems \cup {"batch before any header"}]
      BY <1>4 DEF VerifyBatch
    <2>2. v.problems \cup {"batch before any header"} \in SUBSET Reported
      BY <1>1, Zenon DEF Reported
    <2> QED BY <2>1, <2>2, Zenon DEF VerifyState
  <1>5. CASE v.head # NoHead
    <2>1. VerifyBatch(v, l) = [v EXCEPT !.problems = ps, !.sealed = sd, !.head = h, !.pending = <<>>]
      BY <1>5, Zenon DEF VerifyBatch
    <2> HIDE DEF ps, sd, h
    <2> QED BY <1>2, <1>3, <2>1, Zenon DEF VerifyState
  <1> QED BY <1>4, <1>5

\* after any line,
LEMMA VerifyLineType ==
  ASSUME NEW v \in VerifyState, NEW i \in Nat, NEW l \in Line, l # Torn
  PROVE  VerifyLine(v, i, l) \in VerifyState
  <1>1. CASE l.kind = "header"
    <2>1. VerifyLine(v, i, l) = VerifyHeader(v, l, i)
      BY <1>1 DEF VerifyLine
    <2> QED BY <1>1, <2>1, VerifyHeaderType
  <1>2. CASE l.kind = "batch"
    <2>1. VerifyLine(v, i, l) = VerifyBatch(v, l)
      BY <1>2 DEF VerifyLine
    <2> QED BY <1>2, <2>1, VerifyBatchType
  <1>3. CASE l.kind = "record"
    <2>1. VerifyLine(v, i, l) = [v EXCEPT !.pending = Append(v.pending, l.id)]
      BY <1>3 DEF VerifyLine
    <2>2. Append(v.pending, l.id) \in Seq(Nat)
      BY <1>3, LineKinds DEF VerifyState
    <2> QED BY <2>1, <2>2, Zenon DEF VerifyState
  <1> QED BY <1>1, <1>2, <1>3, LineKinds

\* A run of the verifier's loop over the lines of body.
IsVerify(a, v, body) ==
  /\ a \in [0..Len(body) -> VerifyState]
  /\ a[0] = Fresh(v)
  /\ \A i \in 1..Len(body) : a[i] = VerifyLine(a[i - 1], i, body[i])

\* What is said of a segment once its lines are read.
Remarks(data, newest, end) ==
  {p \in {"torn line inside the chain"} : IsTorn(data) /\ ~newest}
    \cup {p \in {"segment has no header"} : ~end.header}
    \cup {p \in {"records not sealed"} : end.pending # <<>> /\ ~newest}
Remarked(data, newest, end) == [end EXCEPT !.problems = end.problems \cup Remarks(data, newest, end)]

\* VerifySegment is the end of the run, with the remarks.
LEMMA VerifyRuns ==
  ASSUME NEW v \in VerifyState, NEW data, NEW newest, Complete(data) \in Seq(Line),
         \A i \in 1..Len(Complete(data)) : Complete(data)[i] # Torn
  PROVE  \E a : /\ IsVerify(a, v, Complete(data))
                /\ VerifySegment(v, data, newest) = Remarked(data, newest, a[Len(Complete(data))])
  <1> DEFINE body == Complete(data)
             n == Len(body)
             turn == [si \in VerifyState \X (1..n) |-> VerifyLine(si[1], si[2], body[si[2]])]
  <1>0. n \in Nat /\ \A i \in 1..n : body[i] \in Line /\ body[i] # Torn
    BY SeqLength, SeqElements
  <1>1. turn \in Loops(n, VerifyState)
    <2> HIDE DEF body, n
    <2> QED BY <1>0, VerifyLineType DEF Loops
  <1>2. \A s \in VerifyState, i \in 1..n : turn[<<s, i>>] = VerifyLine(s, i, body[i])
    OBVIOUS
  <1> HIDE DEF turn
  <1> DEFINE init == Fresh(v)
  <1>init. init \in VerifyState
    BY FreshType
  <1> HIDE DEF init
  <1>3. PICK a : IsRun(a, n, VerifyState, init, turn)
    <2> HIDE DEF n
    <2> QED BY <1>0, <1>1, <1>init, LoopRuns, Zenon
  <1>4. a \in [0..n -> VerifyState] /\ a[0] = init /\ \A i \in 1..n : a[i - 1] \in VerifyState
    <2> HIDE DEF n
    <2> QED BY <1>0, <1>3 DEF IsRun
  <1>5. \A i \in 1..n : a[i] = VerifyLine(a[i - 1], i, body[i])
    <2> HIDE DEF n, body
    <2> QED BY <1>2, <1>3, <1>4, Zenon DEF IsRun
  <1> DEFINE Q(u) == u = [i \in 0..n |-> IF i = 0 THEN init ELSE VerifyLine(u[i - 1], i, body[i])]
             u == CHOOSE w : Q(w)
  <1>6. Q(a)
    <2> HIDE DEF n, body
    <2>1. \A i \in 0..n : i # 0 => i \in 1..n
      BY <1>0
    <2> QED BY <1>4, <1>5, <2>1
  <1>7. Q(u)
    BY <1>6, Zenon
  <1>8. VerifySegment(v, data, newest) = Remarked(data, newest, u[n])
    BY Zenon DEF VerifySegment, Remarked, Remarks, init, Fresh
  <1> HIDE DEF u
  <1>9. u[0] = init /\ \A i \in 1..n : u[i] = VerifyLine(u[i - 1], i, body[i])
    <2> HIDE DEF n, body
    <2> QED BY <1>0, <1>7
  <1>10. Follows(u, n, VerifyState, turn)
    <2> HIDE DEF n, body
    <2> QED BY <1>2, <1>9 DEF Follows
  <1>11. \A i \in 0..n : a[i] = u[i]
    <2>1. u[0] = init /\ n \in Nat
      BY <1>0, <1>9
    <2> HIDE DEF n, Q
    <2> QED BY <1>3, <1>10, <2>1, LoopDetermined
  <1>12. a[n] = u[n]
    <2> HIDE DEF n
    <2> QED BY <1>0, <1>11
  <1>13. IsVerify(a, v, body)
    <2> HIDE DEF body
    <2> QED BY <1>4, <1>5 DEF IsVerify, init
  <1> QED BY <1>8, <1>12, <1>13

\* after its remarks on a segment,
LEMMA RemarksType ==
  ASSUME NEW data, NEW newest, NEW w \in VerifyState
  PROVE  LET t == Remarked(data, newest, w)
         IN  /\ t \in VerifyState /\ t.head = w.head /\ t.sealed = w.sealed
             /\ t.problems = w.problems \cup Remarks(data, newest, w)
  <1> DEFINE ps == w.problems \cup Remarks(data, newest, w)
  <1>1. w.problems \in SUBSET Reported
    BY DEF VerifyState
  <1>2. Remarks(data, newest, w) \in SUBSET Reported
    BY Zenon DEF Remarks, Reported
  <1>3. ps \in SUBSET Reported
    BY <1>1, <1>2
  <1> HIDE DEF ps
  <1>4. [w EXCEPT !.problems = ps] \in VerifyState
    BY <1>3, Zenon DEF VerifyState
  <1>5. /\ [w EXCEPT !.problems = ps].head = w.head /\ [w EXCEPT !.problems = ps].sealed = w.sealed
        /\ [w EXCEPT !.problems = ps].problems = ps
    BY Zenon DEF VerifyState
  <1> QED BY <1>4, <1>5 DEF ps, Remarked

\* and after a segment.
LEMMA VerifyType ==
  ASSUME NEW v \in VerifyState, NEW data, NEW newest, Complete(data) \in Seq(Line),
         \A i \in 1..Len(Complete(data)) : Complete(data)[i] # Torn
  PROVE  VerifySegment(v, data, newest) \in VerifyState
  <1> DEFINE n == Len(Complete(data))
  <1>1. PICK a : /\ IsVerify(a, v, Complete(data))
                 /\ VerifySegment(v, data, newest) = Remarked(data, newest, a[n])
    BY VerifyRuns
  <1>2. n \in Nat /\ n \in 0..n
    BY SeqLength
  <1>3. a[n] \in VerifyState
    BY <1>1, <1>2 DEF IsVerify
  <1> QED BY <1>1, <1>3, RemarksType

\* A segment of which only the file, or a torn header, is there.
LEMMA VerifyBare ==
  ASSUME NEW v \in VerifyState, NEW data, NEW newest, Complete(data) = <<>>
  PROVE  LET w == VerifySegment(v, data, newest)
         IN  /\ w \in VerifyState /\ w.sealed = v.sealed
             /\ newest => w.problems \subseteq v.problems \cup {"segment has no header"}
  <1> DEFINE w == VerifySegment(v, data, newest)
  <1>1. Complete(data) \in Seq(Line) /\ Len(Complete(data)) = 0 /\ \A i \in 1..0 : Complete(data)[i] # Torn
    OBVIOUS
  <1>2. PICK a : IsVerify(a, v, Complete(data)) /\ w = Remarked(data, newest, a[Len(Complete(data))])
    BY <1>1, VerifyRuns, Zenon
  <1>3. a[0] = Fresh(v)
    BY <1>2 DEF IsVerify
  <1> DEFINE e == Fresh(v)
  <1>4. e \in VerifyState /\ e.problems = v.problems /\ e.sealed = v.sealed
    BY FreshType
  <1> HIDE DEF e
  <1>5. w = Remarked(data, newest, e)
    BY <1>1, <1>2, <1>3 DEF e
  <1> HIDE DEF w
  <1>6. w \in VerifyState /\ w.sealed = e.sealed /\ w.problems = e.problems \cup Remarks(data, newest, e)
    BY <1>4, <1>5, RemarksType
  <1>7. newest => Remarks(data, newest, e) \subseteq {"segment has no header"}
    BY Zenon DEF Remarks
  <1> QED BY <1>4, <1>6, <1>7, Zenon DEF w

\* What the verifier does with a line that recovery reads too.
LEMMA VerifyReadsHeader ==
  ASSUME NEW v \in VerifyState, NEW l \in Line, l.kind = "header",
         v.head = NoHead => [next_seq |-> l.seq, hash |-> l.prev] = Genesis,
         v.head # NoHead => v.head = [next_seq |-> l.seq, hash |-> l.prev]
  PROVE  LET w == VerifyLine(v, 1, l)
         IN  /\ w.head = [next_seq |-> l.seq, hash |-> l.prev] /\ w.problems = v.problems /\ w.sealed = v.sealed
             /\ w.header /\ w.pending = v.pending
  <1> DEFINE h == [next_seq |-> l.seq, hash |-> l.prev]
             w == VerifyLine(v, 1, l)
             bad == {p \in {"chain does not start at batch 0"} : v.head = NoHead /\ h # Genesis}
                      \cup {p \in {"segment does not continue the chain"} : v.head # NoHead /\ v.head # h}
             head1 == IF v.head = NoHead THEN h ELSE v.head
  <1>1. w = VerifyHeader(v, l, 1)
    BY DEF VerifyLine
  <1>2. VerifyHeader(v, l, 1) = [v EXCEPT !.problems = v.problems \cup bad, !.header = TRUE, !.head = head1]
    BY DEF VerifyHeader
  <1>3. bad = {} /\ head1 = h
    BY Zenon
  <1>4. v.problems \cup bad = v.problems
    BY <1>3, Zenon
  <1> HIDE DEF bad, head1
  <1>5. w = [v EXCEPT !.problems = v.problems, !.header = TRUE, !.head = h]
    BY <1>1, <1>2, <1>3, <1>4
  <1> HIDE DEF w, h
  <1>6. w.head = h /\ w.problems = v.problems /\ w.sealed = v.sealed /\ w.header /\ w.pending = v.pending
    BY <1>5, Zenon DEF VerifyState
  <1> QED BY <1>6 DEF w, h

\* A batch that recovery accepts is not reported.
LEMMA VerifyReadsBatch ==
  ASSUME NEW v \in VerifyState, NEW i, NEW l \in Line, l.kind = "batch", v.head # NoHead, v.header,
         Accepts(v.head, l, v.pending)
  PROVE  LET w == VerifyLine(v, i, l)
         IN  /\ w.head = [next_seq |-> l.seq + 1, hash |-> l.hash] /\ w.problems = v.problems /\ w.sealed
             /\ w.header /\ w.pending = <<>>
  <1> DEFINE h == [next_seq |-> l.seq + 1, hash |-> l.hash]
             w == VerifyLine(v, i, l)
             good == v.header /\ Accepts(v.head, l, v.pending)
             ps == IF good THEN v.problems ELSE v.problems \cup {"bad batch"}
             sd == v.sealed \/ good
  <1>1. w = VerifyBatch(v, l)
    BY DEF VerifyLine
  <1>2. VerifyBatch(v, l) = [v EXCEPT !.problems = ps, !.sealed = sd, !.head = h, !.pending = <<>>]
    BY Zenon DEF VerifyBatch
  <1>3. ps = v.problems /\ sd
    BY Zenon
  <1> HIDE DEF ps, sd
  <1>4. w = [v EXCEPT !.problems = v.problems, !.sealed = sd, !.head = h, !.pending = <<>>]
    BY <1>1, <1>2, <1>3, Zenon
  <1> HIDE DEF w, h
  <1>5. w.head = h /\ w.problems = v.problems /\ w.sealed = sd /\ w.header /\ w.pending = <<>>
    BY <1>4, Zenon DEF VerifyState
  <1> QED BY <1>3, <1>5 DEF w, h

\* A record waits for its batch.
LEMMA VerifyReadsRecord ==
  ASSUME NEW v \in VerifyState, NEW i, NEW l \in Line, l.kind = "record"
  PROVE  LET w == VerifyLine(v, i, l)
         IN  /\ w.head = v.head /\ w.problems = v.problems /\ w.sealed = v.sealed
             /\ w.header = v.header /\ w.pending = Append(v.pending, l.id)
  <1> DEFINE w == VerifyLine(v, i, l)
             q == Append(v.pending, l.id)
  <1>1. w = [v EXCEPT !.pending = q]
    BY DEF VerifyLine
  <1> HIDE DEF w, q
  <1>2. w.head = v.head /\ w.problems = v.problems /\ w.sealed = v.sealed /\ w.header = v.header /\ w.pending = q
    BY <1>1, Zenon DEF VerifyState
  <1> QED BY <1>2 DEF w, q

\* The header of a segment goes on from the verifier's head.
GoesOn(v, l) ==
  LET h == [next_seq |-> l.seq, hash |-> l.prev]
  IN  (v.head = NoHead => h = Genesis) /\ (v.head # NoHead => v.head = h)

\* Where the verifier and recovery stand after the same lines.
InStep(v, e, s) ==
  /\ e.head = s.head /\ e.pending = s.pending /\ e.problems = v.problems /\ e.header
  /\ v.sealed \/ s.batches > 0 => e.sealed

\* Over a segment that recovery accepts, the verifier finds the same head and nothing wrong.
LEMMA VerifyAgrees ==
  ASSUME NEW v \in VerifyState, NEW a, NEW body \in Seq(Line), NEW f \in Nat, Headed(body, f), ~Scan(body).forged,
         IsVerify(a, v, body), GoesOn(v, body[1])
  PROVE  InStep(v, a[Len(body)], Scan(body))
  <1>0. Len(body) \in Nat /\ Len(body) # 0 /\ body[1] \in Line
    BY SeqLength, SeqElements, SeqEmpty DEF Headed
  <1> DEFINE S(n) == Scan(Pre(body, n))
             P(n) == InStep(v, a[n], S(n))
             E == {n \in Nat : n + 1 <= Len(body) => P(n + 1)}
  <1>1. \A n \in Nat : n < Len(body) => a[n + 1] = VerifyLine(a[n], n + 1, body[n + 1]) /\ a[n] \in VerifyState
    <2> SUFFICES ASSUME NEW n \in Nat, n < Len(body)
                 PROVE  a[n + 1] = VerifyLine(a[n], n + 1, body[n + 1]) /\ a[n] \in VerifyState
      OBVIOUS
    <2>1. n + 1 \in 1..Len(body) /\ n \in 0..Len(body) /\ (n + 1) - 1 = n
      BY <1>0
    <2> QED BY <2>1 DEF IsVerify
  <1>2. \A n \in Nat : n < Len(body) =>
          LET s == S(n)
              t == S(n + 1)
              l == body[n + 1]
          IN  /\ s \in ScanState /\ t \in ScanState /\ l \in Line
              /\ \/ Skipped(s, n + 1, t) \/ HeaderRead(s, n + 1, l, t) \/ BatchRead(s, n + 1, l, t)
                 \/ RecordRead(s, n + 1, l, t) \/ Refused(s, n + 1, l, t)
    BY ScanStep
  <1>3. \A n \in 1..Len(body) : ~S(n).forged /\ S(n).head # NoHead
    <2> SUFFICES ASSUME NEW n \in 1..Len(body) PROVE ~S(n).forged /\ S(n).head # NoHead
      OBVIOUS
    <2>1. Pre(body, n) \in Seq(Line) /\ Headed(Pre(body, n), f) /\ ~S(n).forged
      BY PrefixOk
    <2>2. S(n).head # NoHead
      BY <2>1, ScanPlace DEF Headed
    <2> QED BY <2>1, <2>2
  <1>4. S(0) = ScanStart
    BY <1>0, PreFacts, ScanEmpty
  <1> HIDE DEF S
  <1>5. 0 \in E
    <2>1. HeaderRead(ScanStart, 1, body[1], S(1))
      <3>1. ~Refused(ScanStart, 1, body[1], S(1)) /\ ~BatchRead(ScanStart, 1, body[1], S(1))
              /\ ~RecordRead(ScanStart, 1, body[1], S(1)) /\ ~Skipped(ScanStart, 1, S(1))
        BY DEF Refused, BatchRead, RecordRead, Skipped, ScanStart, Headed
      <3>2. 0 < Len(body) /\ 0 + 1 = 1
        BY <1>0
      <3> QED BY <1>2, <1>4, <3>1, <3>2
    <2>2. a[0] = Fresh(v) /\ a[1] = VerifyLine(a[0], 1, body[1])
      BY <1>0, <1>1 DEF IsVerify
    <2>3. /\ a[0] \in VerifyState /\ a[0].head = v.head /\ a[0].problems = v.problems
          /\ a[0].sealed = v.sealed /\ a[0].pending = <<>>
      BY <2>2, FreshType
    <2>4. body[1].kind = "header"
      BY DEF Headed
    <2>5. /\ a[1].head = [next_seq |-> body[1].seq, hash |-> body[1].prev] /\ a[1].problems = a[0].problems
          /\ a[1].sealed = a[0].sealed /\ a[1].header /\ a[1].pending = a[0].pending
      <3>1. /\ a[0].head = NoHead => [next_seq |-> body[1].seq, hash |-> body[1].prev] = Genesis
            /\ a[0].head # NoHead => a[0].head = [next_seq |-> body[1].seq, hash |-> body[1].prev]
        BY <2>3, Zenon DEF GoesOn
      <3>2. LET w == VerifyLine(a[0], 1, body[1])
            IN  /\ w.head = [next_seq |-> body[1].seq, hash |-> body[1].prev] /\ w.problems = a[0].problems
                /\ w.sealed = a[0].sealed /\ w.header /\ w.pending = a[0].pending
        BY <1>0, <2>3, <2>4, <3>1, VerifyReadsHeader, Zenon
      <3> QED BY <2>2, <3>2, Zenon
    <2>6. S(1).head = [next_seq |-> body[1].seq, hash |-> body[1].prev] /\ S(1).pending = <<>> /\ S(1).batches = 0
      BY <2>1 DEF HeaderRead, ScanStart
    <2>7. P(1)
      BY <2>3, <2>5, <2>6 DEF InStep
    <2> QED BY <2>7
  <1>6. ASSUME NEW n \in E PROVE n + 1 \in E
    <2> SUFFICES ASSUME (n + 1) + 1 <= Len(body) PROVE P((n + 1) + 1)
      <3> HIDE DEF P
      <3> QED BY <1>6
    <2> DEFINE m == n + 1
               l == body[m + 1]
    <2>0. n \in Nat /\ m \in Nat /\ m < Len(body) /\ m \in 1..Len(body) /\ m + 1 \in 1..Len(body) /\ m + 1 > 1 /\ m + 1 # 1
      BY <1>0, <1>6
    <2>1. P(m)
      BY <1>0, <1>6
    <2> HIDE DEF m
    <2>2. a[m + 1] = VerifyLine(a[m], m + 1, l) /\ a[m] \in VerifyState
      BY <1>1, <2>0
    <2>3. /\ S(m) \in ScanState /\ S(m + 1) \in ScanState /\ l \in Line
          /\ \/ Skipped(S(m), m + 1, S(m + 1)) \/ HeaderRead(S(m), m + 1, l, S(m + 1)) \/ BatchRead(S(m), m + 1, l, S(m + 1))
             \/ RecordRead(S(m), m + 1, l, S(m + 1)) \/ Refused(S(m), m + 1, l, S(m + 1))
      BY <1>2, <2>0
    <2>4. ~S(m).forged /\ S(m).head # NoHead /\ ~S(m + 1).forged
      BY <1>3, <2>0
    <2> HIDE DEF l
    <2>5. a[m].head = S(m).head /\ a[m].pending = S(m).pending /\ a[m].problems = v.problems /\ a[m].header
      BY <2>1 DEF InStep
    <2>6. CASE BatchRead(S(m), m + 1, l, S(m + 1))
      <3>1. l.kind = "batch" /\ Accepts(a[m].head, l, a[m].pending) /\ a[m].head # NoHead
        BY <2>4, <2>5, <2>6, Zenon DEF BatchRead
      <3>2. /\ a[m + 1].head = [next_seq |-> l.seq + 1, hash |-> l.hash] /\ a[m + 1].problems = a[m].problems
            /\ a[m + 1].sealed /\ a[m + 1].header /\ a[m + 1].pending = <<>>
        <4>1. a[m] \in VerifyState /\ l \in Line /\ a[m].header /\ a[m].head # NoHead
          BY <2>2, <2>3, <2>5, <3>1, Zenon
        <4>2. LET w == VerifyLine(a[m], m + 1, l)
              IN  /\ w.head = [next_seq |-> l.seq + 1, hash |-> l.hash] /\ w.problems = a[m].problems
                  /\ w.sealed /\ w.header /\ w.pending = <<>>
          BY <3>1, <4>1, VerifyReadsBatch
        <4> QED BY <2>2, <4>2, Zenon
      <3>3. S(m + 1).head = [next_seq |-> l.seq + 1, hash |-> l.hash] /\ S(m + 1).pending = <<>>
        BY <2>6, Zenon DEF BatchRead
      <3>4. P(m + 1)
        BY <2>5, <3>2, <3>3, Zenon DEF InStep
      <3> QED BY <3>4 DEF m
    <2>7. CASE RecordRead(S(m), m + 1, l, S(m + 1))
      <3>1. l.kind = "record"
        BY <2>7 DEF RecordRead
      <3>2. /\ a[m + 1].head = a[m].head /\ a[m + 1].problems = a[m].problems /\ a[m + 1].sealed = a[m].sealed
            /\ a[m + 1].header = a[m].header /\ a[m + 1].pending = Append(a[m].pending, l.id)
        BY <2>2, <2>3, <3>1, VerifyReadsRecord
      <3>3. S(m + 1).head = S(m).head /\ S(m + 1).pending = Append(S(m).pending, l.id) /\ S(m + 1).batches = S(m).batches
        BY <2>7 DEF RecordRead
      <3>4. P(m + 1)
        BY <2>1, <3>2, <3>3, Zenon DEF InStep
      <3> QED BY <3>4 DEF m
    <2>8. ~Skipped(S(m), m + 1, S(m + 1)) /\ ~HeaderRead(S(m), m + 1, l, S(m + 1)) /\ ~Refused(S(m), m + 1, l, S(m + 1))
      BY <2>0, <2>4, Zenon DEF Skipped, HeaderRead, Refused
    <2> QED BY <2>3, <2>6, <2>7, <2>8
  <1>7. \A n \in Nat : n \in E
    <2>1. E \in SUBSET Nat
      OBVIOUS
    <2> HIDE DEF E
    <2> QED BY <1>5, <1>6, <2>1, Induction, Zenon
  <1>8. P(Len(body))
    <2>1. Len(body) - 1 \in Nat /\ (Len(body) - 1) + 1 = Len(body)
      BY <1>0
    <2> HIDE DEF P
    <2>2. Len(body) - 1 \in E
      <3> HIDE DEF E
      <3> QED BY <1>7, <2>1
    <2> QED BY <1>0, <2>1, <2>2
  <1>9. Pre(body, Len(body)) = body
    BY <1>0, PreFacts
  <1> QED BY <1>8, <1>9 DEF S

\* What the verifier says of a segment of a linked log.
LEMMA VerifyHeaded ==
  ASSUME NEW v \in VerifyState, NEW data, NEW newest \in BOOLEAN, Complete(data) \in Seq(Line), NEW f \in Nat,
         Headed(Complete(data), f), ~Scan(Complete(data)).forged, GoesOn(v, Complete(data)[1]),
         ~newest => ~IsTorn(data) /\ Scan(Complete(data)).pending = <<>>
  PROVE  LET w == VerifySegment(v, data, newest)
             s == Scan(Complete(data))
         IN  w \in VerifyState /\ w.head = s.head /\ w.problems = v.problems /\ (v.sealed \/ s.batches > 0 => w.sealed)
  <1> DEFINE body == Complete(data)
             n == Len(body)
             w == VerifySegment(v, data, newest)
  <1>1. \A i \in 1..Len(body) : body[i] # Torn
    BY NoTornInside
  <1>2. PICK a : IsVerify(a, v, body) /\ w = Remarked(data, newest, a[n])
    BY <1>1, VerifyRuns, Zenon
  <1>3. n \in Nat /\ n \in 0..n
    BY SeqLength
  <1>4. a[n] \in VerifyState
    BY <1>2, <1>3 DEF IsVerify
  <1> DEFINE e == a[n]
  <1>5. InStep(v, e, Scan(body))
    <2>1. body \in Seq(Line) /\ Headed(body, f) /\ ~Scan(body).forged /\ IsVerify(a, v, body) /\ GoesOn(v, body[1])
      BY <1>2
    <2> HIDE DEF body
    <2> QED BY <2>1, VerifyAgrees, Zenon
  <1> HIDE DEF w, body, n, e
  <1>6. e \in VerifyState /\ w = Remarked(data, newest, e)
    BY <1>2, <1>4 DEF e
  <1>7. w \in VerifyState /\ w.head = e.head /\ w.sealed = e.sealed /\ w.problems = e.problems \cup Remarks(data, newest, e)
    BY <1>6, RemarksType
  <1>8. Remarks(data, newest, e) = {}
    <2>1. e.header /\ (newest \/ (~IsTorn(data) /\ e.pending = <<>>))
      BY <1>5 DEF InStep, body
    <2> QED BY <2>1, Zenon DEF Remarks
  <1> QED BY <1>5, <1>7, <1>8, Zenon DEF InStep, w, body

-----------------------------------------------------------------------------
(* The directory and the writer, whatever failed before *)

DiskOk(fs, sy) ==
  /\ DOMAIN fs \subseteq Nat
  /\ fs = [f \in DOMAIN fs |-> fs[f]] /\ sy = [f \in DOMAIN fs |-> sy[f]]
  /\ \A f \in DOMAIN fs : Begun(fs[f], f) /\ sy[f] \in 0..Len(fs[f])
  /\ Bounded(DOMAIN fs)

RecordsIn(fs) == UNION {RecordsOf(fs[f]) : f \in DOMAIN fs}
Kept == RecordsIn(files) \cup aside \cup UNION {RecordsOf(data) : data \in forged}

RunPc == {"run", "seal", "flush", "sync"}

WriterOk ==
  /\ pc \in {"down", "recover", "cut", "start", "header"} \cup RunPc
  /\ buf \in Seq(Line) /\ pending \in Seq(Nat) /\ head \in HeadSet /\ appended \in Nat

\* Where the writer stands in the directory.
Above == head.next_seq \in Nat /\ \A f \in DOMAIN files : f <= head.next_seq
IdlePlace == cur = -1 /\ buf = <<>>
RunPlace == cur \in DOMAIN files /\ Headed(files[cur], cur) /\ Above
BetweenPlace == Above /\ (cur = -1 \/ (cur < head.next_seq /\ RunPlace))
StartPlace == buf = <<>> /\ (head.next_seq \in DOMAIN files => RecordsOf(files[head.next_seq]) = {})
HeaderPlace ==
  head.next_seq \in DOMAIN files /\ files[head.next_seq] = <<>> /\ buf = <<Header(head)>>
CutPlace ==
  /\ DOMAIN files # {}
  /\ LET s == Scan(Complete(files[Newest]))
     IN  /\ Leftovers(files[Newest], s.end) \subseteq aside
         /\ head = s.head /\ s.end < Len(files[Newest])

PlaceInv ==
  /\ pc \in {"down", "recover", "cut"} => IdlePlace
  /\ pc \in RunPc => RunPlace
  /\ pc = "sync" => buf = <<>>
  /\ pc \in {"start", "header"} => BetweenPlace
  /\ pc = "start" => StartPlace
  /\ pc = "header" => HeaderPlace
  /\ pc = "cut" => CutPlace

FoundInv == pc # "down" => found \subseteq Kept

DirInv == DiskOk(files, synced) /\ WriterOk /\ PlaceInv /\ FoundInv

\* A line is written over: the directory stays well formed...
LEMMA DiskPut ==
  ASSUME NEW fs, NEW sy, DiskOk(fs, sy), NEW c \in DOMAIN fs, NEW d, Begun(d, c), NEW n \in 0..Len(d)
  PROVE  DiskOk([fs EXCEPT ![c] = d], [sy EXCEPT ![c] = n])
  <1> DEFINE gs == [fs EXCEPT ![c] = d]
             gy == [sy EXCEPT ![c] = n]
  <1>0. /\ DOMAIN fs \subseteq Nat
        /\ fs = [f \in DOMAIN fs |-> fs[f]] /\ sy = [f \in DOMAIN fs |-> sy[f]]
        /\ \A f \in DOMAIN fs : Begun(fs[f], f) /\ sy[f] \in 0..Len(fs[f])
        /\ Bounded(DOMAIN fs)
    BY DEF DiskOk
  <1>1. DOMAIN gs = DOMAIN fs /\ DOMAIN gy = DOMAIN fs /\ gs[c] = d /\ gy[c] = n
    BY <1>0
  <1>2. \A f \in DOMAIN fs : f # c => gs[f] = fs[f] /\ gy[f] = sy[f]
    BY <1>0
  <1>3. gs = [f \in DOMAIN gs |-> gs[f]] /\ gy = [f \in DOMAIN gs |-> gy[f]]
    <2>1. gs = [f \in DOMAIN fs |-> IF f = c THEN d ELSE fs[f]]
      BY <1>0, Zenon
    <2>2. gy = [f \in DOMAIN sy |-> IF f = c THEN n ELSE sy[f]] /\ DOMAIN sy = DOMAIN fs
      BY <1>0, Zenon
    <2> HIDE DEF gs, gy
    <2> QED BY <1>1, <2>1, <2>2
  <1> HIDE DEF gs, gy
  <1>4. \A f \in DOMAIN gs : Begun(gs[f], f) /\ gy[f] \in 0..Len(gs[f])
    BY <1>0, <1>1, <1>2, Zenon
  <1>5. DiskOk(gs, gy)
    BY <1>0, <1>1, <1>3, <1>4, Zenon DEF DiskOk
  <1> QED BY <1>5 DEF gs, gy

\* ... a segment is created or truncated...
LEMMA DiskWith ==
  ASSUME NEW fs, NEW sy, DiskOk(fs, sy), NEW c \in Nat
  PROVE  DiskOk(With(fs, c, <<>>), With(sy, c, 0))
  <1> DEFINE gs == With(fs, c, <<>>)
             gy == With(sy, c, 0)
  <1>0. /\ DOMAIN fs \subseteq Nat
        /\ DOMAIN sy = DOMAIN fs
        /\ \A f \in DOMAIN fs : Begun(fs[f], f) /\ sy[f] \in 0..Len(fs[f])
    BY DEF DiskOk
  <1>1. PICK b \in Nat : \A f \in DOMAIN fs : f <= b
    BY DEF DiskOk, Bounded
  <1>2. /\ DOMAIN gs = DOMAIN fs \cup {c} /\ gs[c] = <<>> /\ gy[c] = 0
        /\ \A f \in DOMAIN fs : f # c => gs[f] = fs[f] /\ gy[f] = sy[f]
    BY <1>0 DEF With
  <1>3. gs = [f \in DOMAIN gs |-> gs[f]] /\ gy = [f \in DOMAIN gs |-> gy[f]]
    BY <1>0 DEF With
  <1>4. <<>> \in Seq(Line) /\ 0 \in 0..Len(<<>>)
    OBVIOUS
  <1>5. DOMAIN gs \subseteq Nat /\ \E m \in Nat : \A f \in DOMAIN gs : f <= m
    <2>1. b + c \in Nat /\ \A f \in DOMAIN gs : f \in Nat /\ f <= b + c
      BY <1>0, <1>1, <1>2
    <2> QED BY <2>1
  <1> HIDE DEF gs, gy
  <1>6. \A f \in DOMAIN gs : Begun(gs[f], f) /\ gy[f] \in 0..Len(gs[f])
    BY <1>0, <1>2, <1>4, Zenon DEF Begun
  <1>7. DiskOk(gs, gy)
    BY <1>3, <1>5, <1>6, Zenon DEF DiskOk, Bounded
  <1> QED BY <1>7 DEF gs, gy

\* ... or one is removed.
LEMMA DiskWithout ==
  ASSUME NEW fs, NEW sy, DiskOk(fs, sy), NEW c
  PROVE  DiskOk(Without(fs, c), Without(sy, c))
  <1> DEFINE gs == Without(fs, c)
             gy == Without(sy, c)
  <1>0. /\ DOMAIN fs \subseteq Nat
        /\ DOMAIN sy = DOMAIN fs
        /\ \A f \in DOMAIN fs : Begun(fs[f], f) /\ sy[f] \in 0..Len(fs[f])
    BY DEF DiskOk
  <1>1. PICK b \in Nat : \A f \in DOMAIN fs : f <= b
    BY DEF DiskOk, Bounded
  <1>2. /\ DOMAIN gs = DOMAIN fs \ {c} /\ DOMAIN gy = DOMAIN fs \ {c}
        /\ \A f \in DOMAIN gs : gs[f] = fs[f] /\ gy[f] = sy[f]
    BY <1>0 DEF Without
  <1>3. gs = [f \in DOMAIN gs |-> gs[f]] /\ gy = [f \in DOMAIN gs |-> gy[f]]
    BY <1>0 DEF Without
  <1> HIDE DEF gs, gy
  <1>4. \A f \in DOMAIN gs : f \in DOMAIN fs
    BY <1>2
  <1>5. DOMAIN gs \subseteq Nat /\ \E m \in Nat : \A f \in DOMAIN gs : f <= m
    BY <1>0, <1>1, <1>4, Zenon
  <1>6. \A f \in DOMAIN gs : Begun(gs[f], f) /\ gy[f] \in 0..Len(gs[f])
    BY <1>0, <1>2, <1>4, Zenon
  <1>7. DiskOk(gs, gy)
    BY <1>3, <1>5, <1>6, Zenon DEF DiskOk, Bounded
  <1> QED BY <1>7 DEF gs, gy

\* The records of a directory in which only segment c changes.
SameBut(fs, gs, c) ==
  DOMAIN fs \ {c} \subseteq DOMAIN gs /\ \A f \in DOMAIN fs : f # c => gs[f] = fs[f]
SegRecords(fs, c) == IF c \in DOMAIN fs THEN RecordsOf(fs[c]) ELSE {}

\* If segment c keeps its records but X, so does the directory.
LEMMA RecordsPut ==
  ASSUME NEW fs, NEW gs, NEW c, NEW X, SameBut(fs, gs, c),
         SegRecords(fs, c) \subseteq SegRecords(gs, c) \cup X
  PROVE  RecordsIn(fs) \subseteq RecordsIn(gs) \cup X
  <1> SUFFICES ASSUME NEW r \in RecordsIn(fs) PROVE r \in RecordsIn(gs) \cup X
    OBVIOUS
  <1>1. PICK f \in DOMAIN fs : r \in RecordsOf(fs[f])
    BY DEF RecordsIn
  <1>2. CASE f # c
    <2>1. f \in DOMAIN gs /\ gs[f] = fs[f]
      BY <1>1, <1>2 DEF SameBut
    <2> QED BY <1>1, <2>1 DEF RecordsIn
  <1>3. CASE f = c
    <2>1. CASE r \in SegRecords(gs, c)
      BY <2>1, Zenon DEF RecordsIn, SegRecords
    <2>2. r \in SegRecords(fs, c)
      BY <1>1, <1>3 DEF SegRecords
    <2> QED BY <2>1, <2>2
  <1> QED BY <1>2, <1>3

\* A segment is written to while what is synced stays the same.
LEMMA DiskFile ==
  ASSUME NEW fs, NEW sy, DiskOk(fs, sy), NEW c \in DOMAIN fs, NEW d, Begun(d, c), sy[c] \in 0..Len(d)
  PROVE  DiskOk([fs EXCEPT ![c] = d], sy)
  <1>1. [sy EXCEPT ![c] = sy[c]] = sy
    BY Zenon DEF DiskOk
  <1> QED BY <1>1, DiskPut

\* What the directory's form says of one segment.
LEMMA DiskFacts ==
  ASSUME NEW fs, NEW sy, DiskOk(fs, sy), NEW f \in DOMAIN fs
  PROVE  /\ f \in Nat /\ Begun(fs[f], f) /\ fs[f] \in Seq(Line) /\ Len(fs[f]) \in Nat
         /\ sy[f] \in 0..Len(fs[f])
  BY SeqLength DEF DiskOk, Begun

\* The newest segment is there, and none is newer.
LEMMA NewestFacts ==
  ASSUME DiskOk(files, synced), DOMAIN files # {}
  PROVE  Newest \in DOMAIN files /\ \A f \in DOMAIN files : f <= Newest
  <1>1. DOMAIN files \in SUBSET Nat /\ Bounded(DOMAIN files)
    BY DEF DiskOk
  <1> QED BY <1>1, Greatest DEF Newest

\* The lines a writer writes are lines.
LEMMA WriterLines ==
  ASSUME WriterOk
  PROVE  /\ Record(appended + 1) \in Line /\ Header(head) \in Line /\ Trailer(head, pending) \in Line
         /\ [next_seq |-> head.next_seq + 1, hash |-> BatchHash(head.hash, head.next_seq, pending)] \in HeadSet
         /\ appended + 1 \in Nat /\ head.next_seq \in Int
  <1>1. head.next_seq \in Int /\ head.hash \in Seq(Batch) /\ pending \in Seq(Nat) /\ appended + 1 \in Nat
    BY DEF WriterOk, HeadSet, Hash
  <1>2. [seq |-> head.next_seq, records |-> pending] \in Batch
    BY <1>1 DEF Batch
  <1>3. BatchHash(head.hash, head.next_seq, pending) \in Hash
    BY <1>1, <1>2, SeqAppend DEF BatchHash, Hash
  <1>4. Len(pending) \in Nat
    BY <1>1, SeqLength
  <1>5. Trailer(head, pending) \in BatchLine
    BY <1>1, <1>3, <1>4 DEF Trailer, BatchLine, Hash
  <1>6. Record(appended + 1) \in RecordLine /\ Header(head) \in HeaderLine
    BY <1>1 DEF Record, RecordLine, Header, HeaderLine, Hash
  <1>7. [next_seq |-> head.next_seq + 1, hash |-> BatchHash(head.hash, head.next_seq, pending)] \in HeadSet
    BY <1>1, <1>3 DEF HeadSet
  <1> QED BY <1>1, <1>5, <1>6, <1>7 DEF Line

\* Lines go to the end of the segment being written.
Grown(x) == [files EXCEPT ![cur] = @ \o x]

\* The directory stays well formed and loses no record.
LEMMA CurGrows ==
  ASSUME DirInv, pc \in RunPc, NEW x \in Seq(Line)
  PROVE  /\ DiskOk(Grown(x), synced) /\ DOMAIN Grown(x) = DOMAIN files /\ Headed(Grown(x)[cur], cur)
         /\ RecordsIn(files) \subseteq RecordsIn(Grown(x))
  <1> DEFINE d == files[cur] \o x
             fs == Grown(x)
  <1>1. cur \in DOMAIN files /\ Headed(files[cur], cur) /\ DiskOk(files, synced)
    BY DEF DirInv, PlaceInv, RunPlace
  <1>2. /\ Begun(files[cur], cur) /\ files[cur] \in Seq(Line) /\ Len(files[cur]) \in Nat
        /\ synced[cur] \in 0..Len(files[cur])
    BY <1>1, DiskFacts
  <1>3. /\ d \in Seq(Line) /\ Len(d) = Len(files[cur]) + Len(x) /\ Len(x) \in Nat
        /\ RecordsOf(files[cur]) \subseteq RecordsOf(d)
        /\ files[cur] # <<>> => d # <<>> /\ d[1] = files[cur][1]
    BY <1>2, Extended
  <1>6. fs = [files EXCEPT ![cur] = d]
    BY DEF Grown
  <1> HIDE DEF d, fs
  <1>4. Headed(d, cur) /\ Begun(d, cur)
    BY <1>1, <1>3, Zenon DEF Headed, Begun
  <1>5. synced[cur] \in 0..Len(d)
    BY <1>2, <1>3
  <1>7. DiskOk(fs, synced)
    BY <1>1, <1>4, <1>5, <1>6, DiskFile, Zenon
  <1>8. DOMAIN fs = DOMAIN files /\ fs[cur] = d /\ \A f \in DOMAIN files : f # cur => fs[f] = files[f]
    BY <1>1, <1>6, Zenon
  <1>9. RecordsIn(files) \subseteq RecordsIn(fs) \cup {}
    <2>1. SegRecords(files, cur) \subseteq SegRecords(fs, cur) \cup {}
      BY <1>1, <1>3, <1>8 DEF SegRecords
    <2>2. SameBut(files, fs, cur)
      BY <1>8 DEF SameBut
    <2> QED BY <2>1, <2>2, RecordsPut, Zenon
  <1> QED BY <1>4, <1>7, <1>8, <1>9 DEF fs

\* What recovery found is still kept when no segment loses a record.
LEMMA KeptGrows ==
  ASSUME FoundInv, pc # "down", found' = found, aside' = aside, forged' = forged,
         RecordsIn(files) \subseteq RecordsIn(files')
  PROVE  FoundInv'
  BY DEF FoundInv, Kept

\* A running writer goes on running.
LEMMA RunStep ==
  ASSUME DirInv, pc \in RunPc, pc' \in RunPc, cur' = cur, Above', DiskOk(files', synced'), WriterOk',
         cur \in DOMAIN files', Headed(files'[cur], cur), RecordsIn(files) \subseteq RecordsIn(files'),
         found' = found, aside' = aside, forged' = forged, pc' = "sync" => buf' = <<>>
  PROVE  DirInv'
  <1>1. pc # "down" /\ pc' \notin {"down", "recover", "cut"} /\ pc' \notin {"start", "header"}
    BY DEF RunPc
  <1>2. FoundInv'
    BY <1>1, KeptGrows DEF DirInv
  <1>3. RunPlace'
    BY DEF RunPlace
  <1>4. PlaceInv'
    BY <1>1, <1>3 DEF PlaceInv
  <1> QED BY <1>2, <1>4 DEF DirInv

\* The directory and the writer stay in step through append.
LEMMA AppendDir == ASSUME DirInv, AppendRecord PROVE DirInv'
  <1>1. pc = "run" /\ pc \in RunPc /\ pc' \in RunPc /\ pc' # "sync"
    BY DEF AppendRecord, RunPc
  <1>2. /\ appended' = appended + 1 /\ pending' = Append(pending, appended + 1)
        /\ synced' = synced /\ aside' = aside /\ forged' = forged /\ cur' = cur /\ head' = head /\ found' = found
    BY DEF AppendRecord
  <1>3. WriterOk /\ DiskOk(files, synced) /\ RunPlace
    BY <1>1 DEF DirInv, PlaceInv
  <1>4. Record(appended + 1) \in Line /\ appended + 1 \in Nat
    BY <1>3, WriterLines
  <1>5. buf' \in Seq(Line)
    <2>1. <<Record(appended + 1)>> \in Seq(Line)
      BY <1>4
    <2>2. Append(buf, Record(appended + 1)) \in Seq(Line)
      BY <1>3, <1>4, SeqAppend DEF WriterOk
    <2> QED BY <2>1, <2>2, Zenon DEF AppendRecord
  <1>6. pending' \in Seq(Nat)
    BY <1>2, <1>3, <1>4, SeqAppend DEF WriterOk
  <1>7. WriterOk'
    BY <1>1, <1>2, <1>3, <1>4, <1>5, <1>6 DEF WriterOk
  <1>8. /\ DiskOk(files', synced') /\ DOMAIN files' = DOMAIN files /\ Headed(files'[cur], cur)
        /\ RecordsIn(files) \subseteq RecordsIn(files')
    <2>1. CASE files' = files
      BY <1>2, <1>3, <2>1 DEF RunPlace
    <2>2. CASE files' = Grown(buf)
      <3>1. buf \in Seq(Line)
        BY <1>3 DEF WriterOk
      <3> QED BY <1>1, <1>2, <2>2, <3>1, CurGrows
    <2> QED BY <2>1, <2>2, Zenon DEF AppendRecord, Grown
  <1>9. Above' /\ cur \in DOMAIN files'
    BY <1>2, <1>3, <1>8 DEF Above, RunPlace
  <1> QED BY <1>1, <1>2, <1>7, <1>8, <1>9, RunStep

\* The directory and the writer stay in step through a tick.
LEMMA TickDir == ASSUME DirInv, Tick PROVE DirInv'
  <1>1. pc = "run" /\ pc \in RunPc /\ pc' \in RunPc /\ pc' = "seal" /\ UNCHANGED <<disk, cur, buf, pending, head, appended, found>>
    BY DEF Tick, RunPc
  <1>2. WriterOk /\ DiskOk(files, synced) /\ RunPlace
    BY <1>1 DEF DirInv, PlaceInv
  <1>3. /\ WriterOk' /\ DiskOk(files', synced') /\ Above' /\ cur \in DOMAIN files' /\ Headed(files'[cur], cur)
        /\ RecordsIn(files) \subseteq RecordsIn(files')
    BY <1>1, <1>2 DEF WriterOk, disk, Above, RunPlace
  <1> QED BY <1>1, <1>3, RunStep DEF disk

\* The directory and the writer stay in step through seal's write.
LEMMA SealWriteDir == ASSUME DirInv, SealWrite PROVE DirInv'
  <1>1. /\ pc = "seal" /\ pc \in RunPc /\ pc' \in RunPc /\ pc' = "flush" /\ buf' = Append(buf, Trailer(head, pending))
        /\ UNCHANGED <<disk, cur, pending, head, appended, found>>
    BY DEF SealWrite, RunPc
  <1>2. WriterOk /\ DiskOk(files, synced) /\ RunPlace
    BY <1>1 DEF DirInv, PlaceInv
  <1>3. buf' \in Seq(Line)
    BY <1>1, <1>2, WriterLines, SeqAppend DEF WriterOk
  <1>4. /\ WriterOk' /\ DiskOk(files', synced') /\ Above' /\ cur \in DOMAIN files' /\ Headed(files'[cur], cur)
        /\ RecordsIn(files) \subseteq RecordsIn(files')
    BY <1>1, <1>2, <1>3 DEF WriterOk, disk, Above, RunPlace
  <1> QED BY <1>1, <1>4, RunStep DEF disk

\* The directory and the writer stay in step through its flush.
LEMMA SealFlushDir == ASSUME DirInv, SealFlush PROVE DirInv'
  <1>1. /\ pc = "flush" /\ pc \in RunPc /\ pc' \in RunPc /\ buf' = <<>> /\ files' = Grown(buf)
        /\ UNCHANGED <<synced, aside, forged, cur, pending, head, appended, found>>
    BY DEF SealFlush, RunPc, Grown
  <1>2. WriterOk /\ RunPlace /\ buf \in Seq(Line) /\ <<>> \in Seq(Line)
    BY <1>1 DEF DirInv, PlaceInv, WriterOk
  <1>3. /\ DiskOk(files', synced') /\ DOMAIN files' = DOMAIN files /\ Headed(files'[cur], cur)
        /\ RecordsIn(files) \subseteq RecordsIn(files')
    BY <1>1, <1>2, CurGrows
  <1>4. WriterOk' /\ Above' /\ cur \in DOMAIN files'
    BY <1>1, <1>2, <1>3 DEF WriterOk, Above, RunPlace
  <1> QED BY <1>1, <1>3, <1>4, RunStep

\* The directory and the writer stay in step through a seal that fails.
LEMMA SealFailsDir == ASSUME DirInv, SealFails PROVE DirInv'
  <1>1. /\ pc \in RunPc /\ pc' \in RunPc /\ pc' = "run"
        /\ UNCHANGED <<synced, aside, forged, cur, pending, head, appended, found>>
    BY DEF SealFails, RunPc
  <1>2. WriterOk /\ RunPlace /\ buf \in Seq(Line) /\ Len(buf) \in Nat
    BY <1>1, SeqLength DEF DirInv, PlaceInv, WriterOk
  <1>3. PICK n \in 0..Len(buf) : files' = Grown(SubSeq(buf, 1, n)) /\ buf' = SubSeq(buf, n + 1, Len(buf))
    BY Zenon DEF SealFails, Grown
  <1>4. SubSeq(buf, 1, n) \in Seq(Line)
    BY <1>2, PreFacts DEF Pre
  <1>5. buf' \in Seq(Line)
    <2>1. \A i \in (n + 1)..Len(buf) : buf[i] \in Line
      BY <1>2, SeqElements
    <2>2. n + 1 \in Int /\ Len(buf) \in Int
      BY <1>2
    <2> QED BY <1>3, <2>1, <2>2, SeqSubSeq
  <1>6. /\ DiskOk(files', synced') /\ DOMAIN files' = DOMAIN files /\ Headed(files'[cur], cur)
        /\ RecordsIn(files) \subseteq RecordsIn(files')
    <2> DEFINE x == SubSeq(buf, 1, n)
    <2>1. x \in Seq(Line) /\ files' = Grown(x) /\ synced' = synced
      BY <1>1, <1>3, <1>4
    <2> HIDE DEF x
    <2> QED BY <1>1, <2>1, CurGrows
  <1>7. WriterOk' /\ Above' /\ cur \in DOMAIN files'
    BY <1>1, <1>2, <1>5, <1>6 DEF WriterOk, Above, RunPlace
  <1> QED BY <1>1, <1>6, <1>7, RunStep

\* The writer comes to start a segment.
LEMMA BetweenStep ==
  ASSUME DirInv, pc # "down", pc' = "start", BetweenPlace', StartPlace',
         DiskOk(files', synced'), WriterOk',
         RecordsIn(files) \subseteq RecordsIn(files'), found' = found, aside' = aside, forged' = forged
  PROVE  DirInv'
  <1>1. FoundInv'
    BY KeptGrows DEF DirInv
  <1>2. PlaceInv'
    BY DEF PlaceInv, RunPc
  <1> QED BY <1>1, <1>2 DEF DirInv

\* The directory and the writer stay in step through its sync.
LEMMA SealSyncDir == ASSUME DirInv, SealSync PROVE DirInv'
  <1> DEFINE h == [next_seq |-> head.next_seq + 1, hash |-> BatchHash(head.hash, head.next_seq, pending)]
  <1>1. /\ pc = "sync" /\ pc \in RunPc /\ pc' \in {"run", "start"}
        /\ synced' = [synced EXCEPT ![cur] = Len(files[cur])] /\ head' = h /\ pending' = <<>>
        /\ UNCHANGED <<files, aside, forged, cur, buf, appended, found>>
    BY DEF SealSync, RunPc
  <1>2. WriterOk /\ DiskOk(files, synced) /\ RunPlace /\ buf = <<>>
    BY <1>1 DEF DirInv, PlaceInv
  <1>3. h \in HeadSet /\ h.next_seq = head.next_seq + 1
    BY <1>2, WriterLines
  <1> HIDE DEF h
  <1>4. cur \in DOMAIN files /\ Headed(files[cur], cur) /\ Above
    BY <1>2 DEF RunPlace
  <1>5. Above' /\ cur < head'.next_seq /\ head'.next_seq \notin DOMAIN files
    <2>1. cur \in Nat /\ DOMAIN files \subseteq Nat
      BY <1>2, <1>4 DEF DiskOk
    <2> QED BY <1>1, <1>3, <1>4, <2>1 DEF Above
  <1>6. DiskOk(files', synced')
    <2>1. Begun(files[cur], cur) /\ Len(files[cur]) \in Nat
      BY <1>2, <1>4, DiskFacts
    <2>2. Len(files[cur]) \in 0..Len(files[cur])
      BY <2>1
    <2>3. [files EXCEPT ![cur] = files[cur]] = files
      BY <1>2, Zenon DEF DiskOk
    <2>4. DiskOk([files EXCEPT ![cur] = files[cur]], [synced EXCEPT ![cur] = Len(files[cur])])
      BY <1>2, <1>4, <2>1, <2>2, DiskPut, Zenon
    <2> QED BY <1>1, <2>3, <2>4
  <1>7. WriterOk'
    <2>1. <<>> \in Seq(Nat)
      OBVIOUS
    <2>2. head' \in HeadSet /\ pc' \in {"down", "recover", "cut", "start", "header"} \cup RunPc
      BY <1>1, <1>3 DEF RunPc
    <2> QED BY <1>1, <1>2, <2>1, <2>2, Zenon DEF WriterOk
  <1>8. RecordsIn(files) \subseteq RecordsIn(files') /\ cur \in DOMAIN files' /\ Headed(files'[cur], cur) /\ cur' = cur
    BY <1>1, <1>4
  <1>9. CASE pc' = "run"
    <2>1. pc' \in RunPc /\ pc' # "sync"
      BY <1>9 DEF RunPc
    <2> QED BY <1>1, <1>5, <1>6, <1>7, <1>8, <2>1, RunStep
  <1>10. CASE pc' = "start"
    <2>1. BetweenPlace' /\ StartPlace'
      BY <1>1, <1>2, <1>5, <1>8 DEF BetweenPlace, StartPlace, RunPlace
    <2>2. pc # "down"
      BY <1>1
    <2> QED BY <1>1, <1>6, <1>7, <1>8, <1>10, <2>1, <2>2, BetweenStep
  <1> QED BY <1>1, <1>9, <1>10

\* The directory and the writer stay in step through start_segment.
LEMMA StartSegmentDir == ASSUME DirInv, StartSegment PROVE DirInv'
  <1> DEFINE n == head.next_seq
  <1>1. /\ pc = "start" /\ pc' = "header" /\ files' = With(files, n, <<>>) /\ synced' = With(synced, n, 0)
        /\ buf' = <<Header(head)>> /\ UNCHANGED <<aside, forged, cur, pending, head, appended, found>>
    BY DEF StartSegment
  <1>2. WriterOk /\ DiskOk(files, synced) /\ BetweenPlace /\ StartPlace
    BY <1>1 DEF DirInv, PlaceInv
  <1>3. n \in Nat /\ Above
    BY <1>2 DEF BetweenPlace, Above
  <1>4. DiskOk(files', synced')
    BY <1>1, <1>2, <1>3, DiskWith
  <1>5. /\ DOMAIN files' = DOMAIN files \cup {n} /\ files'[n] = <<>>
        /\ \A f \in DOMAIN files : f # n => files'[f] = files[f]
    BY <1>1 DEF With
  <1>6. Above'
    BY <1>1, <1>3, <1>5 DEF Above
  <1>7. cur = -1 \/ (cur < n /\ cur \in DOMAIN files /\ Headed(files[cur], cur))
    BY <1>2 DEF BetweenPlace, RunPlace
  <1>8. cur = -1 \/ (cur < n /\ cur \in DOMAIN files' /\ Headed(files'[cur], cur))
    <2>1. CASE cur # -1
      <3>1. cur # n
        BY <1>3, <1>7, <2>1
      <3> QED BY <1>5, <1>7, <2>1, <3>1
    <2> QED BY <2>1
  <1>9. BetweenPlace' /\ HeaderPlace'
    BY <1>1, <1>5, <1>6, <1>8 DEF BetweenPlace, RunPlace, HeaderPlace
  <1>10. PlaceInv'
    BY <1>1, <1>9 DEF PlaceInv, RunPc
  <1>11. WriterOk'
    <2>1. <<Header(head)>> \in Seq(Line)
      BY <1>2, WriterLines
    <2> QED BY <1>1, <1>2, <2>1 DEF WriterOk
  <1>12. RecordsIn(files) \subseteq RecordsIn(files')
    <2>1. SameBut(files, files', n)
      BY <1>5 DEF SameBut
    <2>2. SegRecords(files, n) \subseteq SegRecords(files', n) \cup {}
      BY <1>2 DEF SegRecords, StartPlace
    <2>3. RecordsIn(files) \subseteq RecordsIn(files') \cup {}
      BY <2>1, <2>2, RecordsPut, Zenon
    <2> QED BY <2>3
  <1>13. FoundInv'
    BY <1>1, <1>12, KeptGrows DEF DirInv
  <1> QED BY <1>4, <1>10, <1>11, <1>13 DEF DirInv

\* The directory and the writer stay in step through its header.
LEMMA StartHeaderDir == ASSUME DirInv, StartHeader PROVE DirInv'
  <1> DEFINE n == head.next_seq
             d == <<Header(head)>>
  <1>1. /\ pc = "header" /\ pc' = "run" /\ files' = [files EXCEPT ![n] = buf] /\ buf' = <<>> /\ cur' = n
        /\ UNCHANGED <<synced, aside, forged, pending, head, appended, found>>
    BY DEF StartHeader
  <1>2. WriterOk /\ DiskOk(files, synced) /\ BetweenPlace /\ HeaderPlace
    BY <1>1 DEF DirInv, PlaceInv
  <1>3. n \in DOMAIN files /\ files[n] = <<>> /\ buf = d /\ Above
    BY <1>2 DEF BetweenPlace, HeaderPlace
  <1>4. d \in Seq(Line) /\ Len(d) = 1 /\ Headed(d, n)
    BY <1>2, WriterLines DEF Headed, Header
  <1>5. Begun(d, n)
    BY <1>4 DEF Begun
  <1> HIDE DEF d
  <1>6. synced[n] \in 0..Len(d)
    <2>1. synced[n] \in 0..Len(files[n]) /\ Len(<<>>) = 0
      BY <1>2, <1>3, DiskFacts
    <2> QED BY <1>3, <1>4, <2>1
  <1>7. DiskOk(files', synced')
    <2>1. DiskOk([files EXCEPT ![n] = d], synced)
      BY <1>2, <1>3, <1>5, <1>6, DiskFile, Zenon
    <2> QED BY <1>1, <1>3, <2>1
  <1>8. /\ DOMAIN files' = DOMAIN files /\ files'[n] = d
        /\ \A f \in DOMAIN files : f # n => files'[f] = files[f]
    BY <1>1, <1>3
  <1>9. RunPlace'
    BY <1>1, <1>3, <1>4, <1>8 DEF RunPlace, Above
  <1>10. PlaceInv'
    BY <1>1, <1>9 DEF PlaceInv, RunPc
  <1>11. WriterOk'
    <2>1. <<>> \in Seq(Line)
      OBVIOUS
    <2> QED BY <1>1, <1>2, <2>1 DEF WriterOk, RunPc
  <1>12. RecordsIn(files) \subseteq RecordsIn(files')
    <2>1. SameBut(files, files', n)
      BY <1>8 DEF SameBut
    <2>2. RecordsOf(<<>>) = {}
      BY DEF RecordsOf
    <2>3. SegRecords(files, n) \subseteq SegRecords(files', n) \cup {}
      BY <1>3, <2>2 DEF SegRecords
    <2>4. RecordsIn(files) \subseteq RecordsIn(files') \cup {}
      BY <2>1, <2>3, RecordsPut, Zenon
    <2> QED BY <2>4
  <1>13. FoundInv'
    <2>1. FoundInv /\ pc # "down" /\ found' = found /\ aside' = aside /\ forged' = forged
      BY <1>1 DEF DirInv
    <2> QED BY <1>12, <2>1, KeptGrows
  <1> QED BY <1>7, <1>10, <1>11, <1>13 DEF DirInv

\* The directory and the writer stay in step through Writer::open.
LEMMA OpenDir == ASSUME DirInv, Open PROVE DirInv'
  <1>1. pc = "down" /\ pc' = "recover" /\ found' = OnDisk /\ UNCHANGED <<disk, cur, buf, pending, head, appended>>
    BY DEF Open
  <1>2. OnDisk = RecordsIn(files)
    BY DEF OnDisk, RecordsIn
  <1>3. FoundInv'
    BY <1>1, <1>2 DEF FoundInv, Kept, disk
  <1>4. PlaceInv'
    BY <1>1 DEF DirInv, PlaceInv, IdlePlace, RunPc
  <1>5. WriterOk' /\ DiskOk(files', synced')
    BY <1>1 DEF DirInv, WriterOk, disk
  <1> QED BY <1>3, <1>4, <1>5 DEF DirInv

\* What recover makes of the segment f.
LEMMA RecoverScan ==
  ASSUME DiskOk(files, synced), NEW f \in DOMAIN files
  PROVE  LET s == Scan(Complete(files[f]))
         IN  /\ s \in ScanState /\ Complete(files[f]) \in Seq(Line)
             /\ s.head = NoHead => Complete(files[f]) = <<>> /\ s = ScanStart
             /\ s.head # NoHead => /\ Complete(files[f]) # <<>> /\ Headed(files[f], f)
                                   /\ s.end \in 1..Len(files[f])
                                   /\ s.head.next_seq = f + s.batches
                                   /\ s.batches = 0 => s.end = 1
  <1> DEFINE data == files[f]
             c == Complete(files[f])
             s == Scan(c)
  <1>1. f \in Nat /\ Begun(data, f) /\ data \in Seq(Line) /\ Len(data) \in Nat
    BY DiskFacts
  <1>2. /\ c \in Seq(Line) /\ Len(c) <= Len(data)
        /\ IsTorn(data) => c = Pre(data, Len(data) - 1) /\ Len(c) = Len(data) - 1
        /\ ~IsTorn(data) => c = data
        /\ \A i \in 1..Len(c) : c[i] = data[i]
    BY <1>1, Completed
  <1>3. s \in ScanState
    BY <1>2, ScanType
  <1>4. CASE c = <<>>
    <2>1. s = ScanStart
      BY <1>4, ScanEmpty
    <2> QED BY <1>2, <1>3, <1>4, <2>1 DEF ScanStart
  <1>5. CASE c # <<>>
    <2>1. Len(c) \in Nat /\ Len(c) # 0
      BY <1>2, <1>5, SeqLength, SeqEmpty
    <2>2. c[1] = data[1] /\ data # <<>>
      BY <1>1, <1>2, <2>1, SeqEmpty
    <2>3. data # <<Torn>>
      <3> SUFFICES ASSUME data = <<Torn>> PROVE FALSE
        OBVIOUS
      <3>1. Len(data) = 1 /\ data[1] = Torn /\ IsTorn(data)
        BY DEF IsTorn
      <3> QED BY <1>2, <2>1, <3>1
    <2>4. Headed(data, f)
      BY <1>1, <2>2, <2>3 DEF Begun
    <2>5. c[1].kind = "header" /\ c[1].seq = f
      BY <2>2, <2>4 DEF Headed
    <2> HIDE DEF c, data
    <2>6. /\ s.head # NoHead /\ s.end \in 1..Len(c)
          /\ s.head.next_seq = f + s.batches /\ (s.batches = 0 => s.end = 1)
      BY <1>1, <1>2, <1>5, <2>5, ScanPlace
    <2>7. s.end \in 1..Len(data)
      BY <1>1, <1>2, <2>1, <2>6
    <2> QED BY <1>2, <1>3, <1>5, <2>4, <2>6, <2>7 DEF c, data
  <1> QED BY <1>4, <1>5

\* A header is no record.
LEMMA HeaderOnly ==
  ASSUME NEW data \in Seq(Line), NEW f, Headed(data, f), Len(data) = 1
  PROVE  RecordsOf(data) = {}
  <1>1. DOMAIN data = {1}
    BY SeqLength
  <1> QED BY <1>1 DEF RecordsOf, Headed

\* What recovery found is still kept when nothing kept is lost.
LEMMA KeptStays ==
  ASSUME FoundInv, pc # "down", found' = found, Kept \subseteq Kept'
  PROVE  FoundInv'
  BY DEF FoundInv

\* The writer takes up the chain after the newest segment.
LEMMA TakesUp ==
  ASSUME DirInv, pc \in {"recover", "cut"}, pc' = "start", UNCHANGED <<cur, buf, pending, appended, found, aside, forged>>,
         head' \in HeadSet, Above', head'.next_seq \in DOMAIN files' => RecordsOf(files'[head'.next_seq]) = {},
         DiskOk(files', synced'), Kept \subseteq Kept'
  PROVE  DirInv'
  <1>1. cur = -1 /\ buf = <<>> /\ WriterOk /\ FoundInv
    BY DEF DirInv, PlaceInv, IdlePlace
  <1>2. BetweenPlace' /\ StartPlace'
    BY <1>1 DEF BetweenPlace, StartPlace
  <1>3. PlaceInv'
    BY <1>2 DEF PlaceInv, RunPc
  <1>4. WriterOk'
    BY <1>1 DEF WriterOk
  <1>5. FoundInv'
    BY <1>1, KeptStays
  <1> QED BY <1>3, <1>4, <1>5 DEF DirInv

\* A segment is removed that keeps nothing of its own.
LEMMA Removes ==
  ASSUME DirInv, pc \in {"recover", "cut"}, pc' = "recover", UNCHANGED <<cur, buf, pending, appended, found, head>>,
         NEW c, files' = Without(files, c), synced' = Without(synced, c),
         NEW X, SegRecords(files, c) \subseteq X,
         X \cup aside \cup UNION {RecordsOf(data) : data \in forged}
           \subseteq aside' \cup UNION {RecordsOf(data) : data \in forged'}
  PROVE  DirInv'
  <1>1. cur = -1 /\ buf = <<>> /\ WriterOk /\ FoundInv /\ DiskOk(files, synced)
    BY DEF DirInv, PlaceInv, IdlePlace
  <1>2. PlaceInv'
    BY <1>1 DEF PlaceInv, RunPc, IdlePlace
  <1>3. WriterOk'
    BY <1>1 DEF WriterOk
  <1>4. DiskOk(files', synced')
    BY <1>1, DiskWithout
  <1>5. SameBut(files, files', c)
    BY DEF SameBut, Without
  <1>6. RecordsIn(files) \subseteq RecordsIn(files') \cup X
    BY <1>5, RecordsPut
  <1>7. Kept \subseteq Kept'
    BY <1>6 DEF Kept
  <1>8. FoundInv'
    BY <1>1, <1>7, KeptStays
  <1> QED BY <1>2, <1>3, <1>4, <1>8 DEF DirInv

\* The directory and the writer stay in step through recover.
LEMMA RecoverDir == ASSUME DirInv, Recover PROVE DirInv'
  <1> DEFINE N == Newest
             data == files[N]
             s == Scan(Complete(data))
             U == UNION {RecordsOf(d) : d \in forged}
  <1>1. pc = "recover" /\ UNCHANGED <<cur, buf, pending, appended, found>>
    BY DEF Recover
  <1>2. WriterOk /\ DiskOk(files, synced) /\ FoundInv /\ cur = -1 /\ buf = <<>>
    BY <1>1 DEF DirInv, PlaceInv, IdlePlace
  <1>3. CASE DOMAIN files = {} /\ head' = Genesis /\ pc' = "start" /\ UNCHANGED disk
    <2>1. head' \in HeadSet /\ head'.next_seq \in Nat
      BY <1>3 DEF Genesis, GENESIS, HeadSet, Hash
    <2>2. UNCHANGED <<files, synced, aside, forged>>
      BY <1>3 DEF disk
    <2>3. Above' /\ (head'.next_seq \in DOMAIN files' => RecordsOf(files'[head'.next_seq]) = {})
      BY <1>3, <2>1, <2>2 DEF Above
    <2>4. DiskOk(files', synced') /\ Kept \subseteq Kept'
      BY <1>2, <2>2 DEF Kept
    <2> QED BY <1>1, <1>3, <2>1, <2>2, <2>3, <2>4, TakesUp
  <1>4. ASSUME DOMAIN files # {}
        PROVE  /\ N \in DOMAIN files /\ N \in Nat /\ (\A f \in DOMAIN files : f \in Nat /\ f <= N)
               /\ data \in Seq(Line) /\ Len(data) \in Nat /\ s \in ScanState
               /\ s.head = NoHead => Complete(data) = <<>> /\ s = ScanStart
               /\ s.head # NoHead => /\ Complete(data) # <<>> /\ Headed(data, N)
                                     /\ s.end \in 1..Len(data)
                                     /\ s.head.next_seq = N + s.batches
                                     /\ s.batches = 0 => s.end = 1
    <2>1. N \in DOMAIN files /\ \A f \in DOMAIN files : f <= N
      BY <1>2, <1>4, NewestFacts
    <2>2. N \in Nat /\ (\A f \in DOMAIN files : f \in Nat) /\ data \in Seq(Line) /\ Len(data) \in Nat
      BY <1>2, <2>1, DiskFacts
    <2> QED BY <1>2, <2>1, <2>2, RecoverScan
  <1>5. CASE /\ DOMAIN files # {} /\ data = <<>>
             /\ files' = Without(files, N) /\ synced' = Without(synced, N) /\ UNCHANGED <<aside, forged, head, pc>>
    <2>1. SegRecords(files, N) \subseteq {}
      BY <1>5 DEF SegRecords, RecordsOf
    <2>2. {} \cup aside \cup U \subseteq aside' \cup U'
      BY <1>5
    <2>3. pc \in {"recover", "cut"} /\ pc' = "recover"
      BY <1>1, <1>5
    <2> DEFINE X == {}
    <2>4. SegRecords(files, N) \subseteq X /\ X \cup aside \cup U \subseteq aside' \cup U'
      BY <2>1, <2>2
    <2> HIDE DEF N, X
    <2> QED BY <1>1, <1>5, <2>3, <2>4, Removes
  <1>6. CASE DOMAIN files # {} /\ data # <<>> /\ s.end = Len(data) /\ head' = s.head /\ pc' = "start" /\ UNCHANGED disk
    <2>1. s.head # NoHead
      <3> SUFFICES ASSUME s.head = NoHead PROVE FALSE
        OBVIOUS
      <3>1. s.end = 0
        BY <1>4, <1>6 DEF ScanStart
      <3>2. data \in Seq(Line) /\ Len(data) = 0 /\ data # <<>>
        BY <1>4, <1>6, <3>1
      <3> QED BY <3>2, SeqEmpty
    <2>2. s.batches \in Nat /\ s.head \in HeadSet
      BY <1>4, <1>6 DEF ScanState
    <2>3. UNCHANGED <<files, synced, aside, forged>>
      BY <1>6 DEF disk
    <2>4. head' \in HeadSet /\ Above'
      BY <1>4, <1>6, <2>1, <2>2, <2>3 DEF Above
    <2>5. ASSUME head'.next_seq \in DOMAIN files' PROVE RecordsOf(files'[head'.next_seq]) = {}
      <3>1. head'.next_seq = N /\ s.batches = 0
        BY <1>4, <1>6, <2>1, <2>2, <2>3, <2>5
      <3>2. Len(data) = 1 /\ Headed(data, N) /\ data \in Seq(Line)
        BY <1>4, <1>6, <2>1, <3>1
      <3>3. RecordsOf(data) = {}
        BY <3>2, HeaderOnly
      <3> QED BY <2>3, <3>1, <3>3
    <2>6. DiskOk(files', synced') /\ Kept \subseteq Kept'
      BY <1>2, <2>3 DEF Kept
    <2> QED BY <1>1, <1>6, <2>3, <2>4, <2>5, <2>6, TakesUp
  <1>7. CASE /\ DOMAIN files # {} /\ s.forged /\ s.batches = 0
             /\ files' = Without(files, N) /\ synced' = Without(synced, N)
             /\ forged' = forged \cup {data} /\ UNCHANGED <<aside, head, pc>>
    <2>1. SegRecords(files, N) \subseteq RecordsOf(data)
      BY <1>7 DEF SegRecords
    <2>2. RecordsOf(data) \cup aside \cup U \subseteq aside' \cup U'
      BY <1>7
    <2>3. pc \in {"recover", "cut"} /\ pc' = "recover"
      BY <1>1, <1>7
    <2> DEFINE X == RecordsOf(data)
    <2> HIDE DEF N, X
    <2>4. SegRecords(files, N) \subseteq X /\ X \cup aside \cup U \subseteq aside' \cup U'
      BY <2>1, <2>2 DEF X
    <2> QED BY <1>1, <1>7, <2>3, <2>4, Removes
  <1>8. CASE DOMAIN files # {} /\ s.forged /\ s.batches > 0 /\ head' = s.head /\ pc' = "start" /\ UNCHANGED disk
    <2>1. s.head # NoHead
      <3> SUFFICES ASSUME s.head = NoHead PROVE FALSE
        OBVIOUS
      <3>1. s.batches = 0
        BY <1>4, <1>8 DEF ScanStart
      <3> QED BY <1>8, <3>1
    <2>2. s.batches \in Nat /\ s.head \in HeadSet
      BY <1>4, <1>8 DEF ScanState
    <2>3. UNCHANGED <<files, synced, aside, forged>>
      BY <1>8 DEF disk
    <2>4. head' \in HeadSet /\ Above' /\ head'.next_seq \notin DOMAIN files'
      BY <1>4, <1>8, <2>1, <2>2, <2>3 DEF Above
    <2>5. DiskOk(files', synced') /\ Kept \subseteq Kept'
      BY <1>2, <2>3 DEF Kept
    <2> QED BY <1>1, <1>8, <2>3, <2>4, <2>5, TakesUp
  <1>9. CASE /\ DOMAIN files # {} /\ ~s.forged /\ s.end < Len(data)
             /\ aside' = aside \cup Leftovers(data, s.end) /\ head' = s.head /\ pc' = "cut"
             /\ UNCHANGED <<files, synced, forged>>
    <2>1. Newest' = N
      BY <1>9 DEF Newest
    <2>2. CutPlace'
      BY <1>9, <2>1 DEF CutPlace
    <2>3. PlaceInv'
      BY <1>1, <1>2, <1>9, <2>2 DEF PlaceInv, IdlePlace, RunPc
    <2>4. s.head \in HeadSet
      BY <1>4, <1>9 DEF ScanState
    <2>5. WriterOk'
      BY <1>1, <1>2, <1>9, <2>4 DEF WriterOk
    <2>6. Kept \subseteq Kept'
      BY <1>9 DEF Kept
    <2>7. FoundInv'
      BY <1>1, <1>2, <2>6, KeptStays
    <2> QED BY <1>2, <1>9, <2>3, <2>5, <2>7 DEF DirInv
  <1> HIDE DEF U
  <1> QED BY <1>3, <1>5, <1>6, <1>7, <1>8, <1>9, Zenon DEF Recover

\* The directory and the writer stay in step through recover's truncation.
LEMMA CutDir == ASSUME DirInv, Cut PROVE DirInv'
  <1> DEFINE N == Newest
             data == files[N]
             s == Scan(Complete(data))
             U == UNION {RecordsOf(d) : d \in forged}
  <1>1. pc = "cut" /\ UNCHANGED <<cur, buf, pending, head, appended, found, aside, forged>>
    BY DEF Cut
  <1>2. /\ DiskOk(files, synced) /\ WriterOk /\ DOMAIN files # {}
        /\ Leftovers(data, s.end) \subseteq aside /\ head = s.head /\ s.end < Len(data)
    BY <1>1 DEF DirInv, PlaceInv, CutPlace
  <1>3. N \in DOMAIN files /\ \A f \in DOMAIN files : f <= N
    BY <1>2, NewestFacts
  <1>4. /\ N \in Nat /\ (\A f \in DOMAIN files : f \in Nat) /\ data \in Seq(Line) /\ Len(data) \in Nat
        /\ synced[N] \in 0..Len(data)
    BY <1>2, <1>3, DiskFacts
  <1>5. /\ s \in ScanState
        /\ s.head = NoHead => Complete(data) = <<>> /\ s = ScanStart
        /\ s.head # NoHead => /\ Headed(data, N) /\ s.end \in 1..Len(data)
                              /\ s.head.next_seq = N + s.batches /\ (s.batches = 0 => s.end = 1)
    BY <1>2, <1>3, RecoverScan, Zenon
  <1>6. s.end \in Nat /\ s.batches \in Nat /\ s.end \in 0..Len(data)
    BY <1>2, <1>4, <1>5 DEF ScanState
  <1>7. RecordsOf(data) \subseteq RecordsOf(Pre(data, s.end)) \cup aside
    <2>1. RecordsOf(data) \subseteq RecordsOf(Pre(data, s.end)) \cup Leftovers(data, s.end)
      BY <1>4, <1>6, RecordsParts
    <2> QED BY <1>2, <2>1
  <1>8. CASE head = NoHead /\ files' = Without(files, N) /\ synced' = Without(synced, N) /\ pc' = "recover"
    <2>1. s.end = 0
      BY <1>2, <1>5, <1>8 DEF ScanStart
    <2>2. RecordsOf(Pre(data, 0)) = {}
      BY <1>4, PreFacts DEF RecordsOf
    <2>3. SegRecords(files, N) \subseteq aside
      BY <1>3, <1>7, <2>1, <2>2 DEF SegRecords
    <2>4. aside \cup aside \cup U \subseteq aside' \cup U'
      BY <1>1
    <2> HIDE DEF N, s
    <2> QED BY <1>1, <1>8, <2>3, <2>4, Removes
  <1>9. CASE head # NoHead /\ files' = [files EXCEPT ![N] = Pre(data, s.end)] /\ synced' = [synced EXCEPT ![N] = s.end] /\ pc' = "start"
    <2> DEFINE d == Pre(data, s.end)
    <2>1. s.head # NoHead /\ s.end >= 1
      BY <1>2, <1>5, <1>6, <1>9
    <2>2. d \in Seq(Line) /\ Len(d) = s.end /\ \A i \in 1..s.end : d[i] = data[i]
      BY <1>4, <1>6, PreFacts
    <2>3. d # <<>> /\ d[1] = data[1]
      BY <1>6, <2>1, <2>2
    <2>4. Headed(d, N) /\ Begun(d, N)
      BY <1>5, <2>1, <2>2, <2>3 DEF Headed, Begun
    <2>5. s.end \in 0..Len(d)
      <3> HIDE DEF d, s
      <3> QED BY <1>6, <2>2
    <2>6. head' = s.head /\ s.head \in HeadSet
      BY <1>1, <1>2, <1>5 DEF ScanState
    <2> HIDE DEF d
    <2>7. files' = [files EXCEPT ![N] = d]
      BY <1>9 DEF d
    <2>8. DiskOk(files', synced')
      <3> DEFINE e == s.end
      <3>1. e \in 0..Len(d) /\ synced' = [synced EXCEPT ![N] = e]
        BY <1>9, <2>5
      <3> HIDE DEF e, N
      <3>2. DiskOk([files EXCEPT ![N] = d], [synced EXCEPT ![N] = e])
        BY <1>2, <1>3, <2>4, <3>1, DiskPut, Zenon
      <3> QED BY <2>7, <3>1, <3>2
    <2>9. DOMAIN files' = DOMAIN files /\ files'[N] = d /\ \A f \in DOMAIN files : f # N => files'[f] = files[f]
      BY <1>3, <2>7, Zenon
    <2>10. Above'
      BY <1>3, <1>4, <1>5, <1>6, <2>1, <2>6, <2>9 DEF Above
    <2>11. ASSUME head'.next_seq \in DOMAIN files' PROVE RecordsOf(files'[head'.next_seq]) = {}
      <3>1. head'.next_seq = N /\ s.batches = 0
        BY <1>3, <1>4, <1>5, <1>6, <2>1, <2>6, <2>9, <2>11
      <3>2. Len(d) = 1
        BY <1>5, <2>1, <2>2, <3>1
      <3>3. RecordsOf(d) = {}
        BY <2>2, <2>4, <3>2, HeaderOnly
      <3> QED BY <2>9, <3>1, <3>3
    <2>12. Kept \subseteq Kept'
      <3>1. SameBut(files, files', N)
        BY <2>9 DEF SameBut
      <3>2. SegRecords(files, N) \subseteq SegRecords(files', N) \cup aside
        BY <1>3, <1>7, <2>9 DEF SegRecords, d
      <3>3. RecordsIn(files) \subseteq RecordsIn(files') \cup aside
        BY <3>1, <3>2, RecordsPut
      <3> QED BY <1>1, <3>3 DEF Kept
    <2> QED BY <1>1, <1>9, <2>6, <2>8, <2>10, <2>11, <2>12, TakesUp
  <1> HIDE DEF U
  <1> QED BY <1>8, <1>9, Zenon DEF Cut, Pre

\* What a failure leaves of a segment begins like it.
LEMMA SurvivedBegun ==
  ASSUME NEW full, NEW f, Begun(full, f), NEW n \in 0..Len(full), NEW data \in Survivors(full, n)
  PROVE  Begun(data, f) /\ n <= Len(data) /\ Len(data) \in Nat
  <1>0. full \in Seq(Line)
    BY DEF Begun
  <1>1. /\ data \in Seq(Line) /\ n <= Len(data) /\ Len(data) <= Len(full)
        /\ data \in {<<>>, <<Torn>>} \/ (data # <<>> /\ full # <<>> /\ data[1] = full[1])
    BY <1>0, Survived
  <1>2. Len(data) \in Nat
    BY <1>1, SeqLength
  <1>3. CASE data # <<>> /\ full # <<>> /\ data[1] = full[1]
    <2>1. CASE full = <<Torn>>
      <3>1. Len(data) = 1 /\ data[1] = Torn
        BY <1>1, <1>2, <1>3, <2>1, SeqEmpty
      <3>2. data = <<Torn>>
        BY <1>1, <3>1
      <3> QED BY <1>1, <1>2, <3>2 DEF Begun
    <2>2. CASE Headed(full, f)
      BY <1>1, <1>2, <1>3, <2>2 DEF Begun, Headed
    <2> QED BY <1>3, <2>1, <2>2 DEF Begun
  <1> QED BY <1>1, <1>2, <1>3 DEF Begun

\* A segment with what the writer still holds for it.
LEMMA FullBegun ==
  ASSUME DirInv, NEW f \in DOMAIN files
  PROVE  Begun(Full(f), f) /\ Len(files[f]) \in 0..Len(Full(f)) /\ Full(f) \in Seq(Line)
  <1>1. /\ f \in Nat /\ Begun(files[f], f) /\ files[f] \in Seq(Line) /\ Len(files[f]) \in Nat
        /\ WriterOk /\ buf \in Seq(Line)
    BY DiskFacts DEF DirInv, WriterOk
  <1>2. CASE f # Target \/ buf = <<>>
    <2>1. Full(f) = files[f]
      BY <1>1, <1>2 DEF Full
    <2> QED BY <1>1, <2>1
  <1>3. CASE f = Target /\ buf # <<>>
    <2> DEFINE full == files[f] \o buf
    <2>1. Full(f) = full
      BY <1>3 DEF Full
    <2>2. /\ full \in Seq(Line) /\ Len(full) = Len(files[f]) + Len(buf) /\ Len(buf) \in Nat
          /\ files[f] # <<>> => full # <<>> /\ full[1] = files[f][1]
      BY <1>1, Extended
    <2>3. CASE pc = "header"
      <3>1. files[f] = <<>> /\ buf = <<Header(head)>> /\ f = head.next_seq
        BY <1>3, <2>3 DEF DirInv, PlaceInv, HeaderPlace, Target
      <3>2. full = buf
        BY <1>1, <3>1
      <3>3. Headed(full, f)
        BY <3>1, <3>2 DEF Headed, Header
      <3> QED BY <1>1, <2>1, <2>2, <3>3 DEF Begun
    <2>4. CASE pc \in RunPc
      <3>1. Headed(files[f], f)
        BY <1>3, <2>4 DEF DirInv, PlaceInv, RunPlace, Target, RunPc
      <3>2. Headed(full, f)
        BY <2>2, <3>1 DEF Headed
      <3> QED BY <1>1, <2>1, <2>2, <3>2 DEF Begun
    <2>5. pc = "header" \/ pc \in RunPc
      BY <1>1, <1>3 DEF DirInv, PlaceInv, IdlePlace, StartPlace, WriterOk
    <2> QED BY <2>3, <2>4, <2>5
  <1> QED BY <1>2, <1>3

\* The writer is gone, and the directory left well formed.
LEMMA GoneStep ==
  ASSUME DirInv, WriterGone, DiskOk(files', synced'), appended' = appended
  PROVE  DirInv'
  <1>1. WriterOk'
    BY DEF DirInv, WriterOk, WriterGone, NoHead, GENESIS, HeadSet, Hash
  <1>2. PlaceInv' /\ FoundInv'
    BY DEF PlaceInv, FoundInv, WriterGone, IdlePlace, RunPc
  <1> QED BY <1>1, <1>2 DEF DirInv

\* The directory and the writer stay in step through a kill.
LEMMA KillDir == ASSUME DirInv, KillWriter PROVE DirInv'
  <1>1. WriterGone /\ synced' = synced /\ appended' = appended
    BY DEF KillWriter
  <1>2. DiskOk(files, synced) /\ WriterOk
    BY DEF DirInv
  <1>3. DiskOk(files', synced')
    <2>1. CASE buf = <<>>
      BY <1>1, <1>2, <2>1 DEF KillWriter
    <2>2. CASE buf # <<>>
      <3>1. PICK data \in Survivors(Full(Target), Len(files[Target])) : files' = [files EXCEPT ![Target] = data]
        BY <2>2, Zenon DEF KillWriter
      <3>2. Target \in DOMAIN files
        BY <1>2, <2>2 DEF DirInv, PlaceInv, IdlePlace, StartPlace, WriterOk, HeaderPlace, RunPlace, Target, RunPc
      <3> DEFINE t == Target
                 full == Full(t)
                 n == Len(files[t])
      <3>3. Begun(full, t) /\ n \in 0..Len(full) /\ full \in Seq(Line)
        BY <3>2, FullBegun
      <3>4. synced[t] \in 0..n /\ n \in Nat
        BY <1>2, <3>2, DiskFacts
      <3>5. data \in Survivors(full, n)
        BY <3>1
      <3>6. t \in DOMAIN files /\ files' = [files EXCEPT ![t] = data]
        BY <3>1, <3>2
      <3> HIDE DEF t, full, n
      <3>7. Begun(data, t) /\ n <= Len(data) /\ Len(data) \in Nat
        BY <3>3, <3>5, SurvivedBegun
      <3>8. synced[t] \in 0..Len(data)
        BY <3>4, <3>7
      <3>9. DiskOk([files EXCEPT ![t] = data], synced)
        BY <1>2, <3>6, <3>7, <3>8, DiskFile, Zenon
      <3> QED BY <1>1, <3>6, <3>9
    <2> QED BY <2>1, <2>2
  <1> QED BY <1>1, <1>3, GoneStep

\* The directory and the writer stay in step through a power loss.
LEMMA PowerDir == ASSUME DirInv, PowerLoss PROVE DirInv'
  <1>1. WriterGone /\ appended' = appended
    BY DEF PowerLoss
  <1>2. DiskOk(files, synced)
    BY DEF DirInv
  <1>3. PICK kept \in SUBSET DOMAIN files :
          /\ files' \in {f \in [kept -> UNION {Survivors(Full(s), synced[s]) : s \in kept}] :
                           \A s \in kept : f[s] \in Survivors(Full(s), synced[s])}
          /\ synced' = [s \in kept |-> Len(files'[s])]
    BY Zenon DEF PowerLoss
  <1>4. /\ DOMAIN files' = kept /\ files' = [s \in kept |-> files'[s]]
        /\ \A s \in kept : files'[s] \in Survivors(Full(s), synced[s])
    BY <1>3, Zenon
  <1>5. DOMAIN synced' = kept /\ \A s \in kept : synced'[s] = Len(files'[s])
    BY <1>3, Zenon
  <1>6. ASSUME NEW s \in kept PROVE Begun(files'[s], s) /\ synced'[s] \in 0..Len(files'[s])
    <2> DEFINE full == Full(s)
               n == synced[s]
               data == files'[s]
    <2>1. s \in DOMAIN files
      BY <1>6
    <2>2. Begun(full, s) /\ Len(files[s]) \in 0..Len(full)
      BY <2>1, FullBegun
    <2>3. n \in 0..Len(files[s]) /\ Len(files[s]) \in Nat
      BY <1>2, <2>1, DiskFacts
    <2>4. n \in 0..Len(full)
      BY <2>2, <2>3
    <2>5. data \in Survivors(full, n)
      BY <1>4, <1>6
    <2> HIDE DEF full, n, data
    <2>6. Begun(data, s) /\ Len(data) \in Nat
      BY <2>2, <2>4, <2>5, SurvivedBegun
    <2>7. Len(data) \in 0..Len(data)
      BY <2>6
    <2> QED BY <1>5, <1>6, <2>6, <2>7 DEF data
  <1>7. DOMAIN files' \subseteq Nat /\ Bounded(DOMAIN files')
    <2>1. DOMAIN files' \subseteq DOMAIN files
      BY <1>4
    <2> QED BY <1>2, <2>1 DEF DiskOk, Bounded
  <1>8. synced' = [s \in DOMAIN files' |-> synced'[s]]
    BY <1>3, <1>4, <1>5
  <1>9. DiskOk(files', synced')
    BY <1>4, <1>6, <1>7, <1>8, Zenon DEF DiskOk
  <1> QED BY <1>1, <1>9, GoneStep

\* The directory and the writer stay in step through a start_segment that fails.
LEMMA StartFailsDir == ASSUME DirInv, StartFails PROVE DirInv'
  <1> DEFINE n == head.next_seq
  <1>1. pc \in {"start", "header"} /\ pc # "down" /\ UNCHANGED <<synced, aside, forged, appended, found>>
    BY DEF StartFails
  <1>2. WriterOk /\ DiskOk(files, synced) /\ BetweenPlace
    BY <1>1 DEF DirInv, PlaceInv
  <1>3. /\ DiskOk(files', synced') /\ RecordsIn(files) \subseteq RecordsIn(files') /\ DOMAIN files' = DOMAIN files
        /\ \A f \in DOMAIN files : f # n => files'[f] = files[f]
    <2>1. CASE files' = files
      BY <1>1, <1>2, <2>1
    <2>2. CASE pc = "header" /\ \E data \in Survivors(buf, 0) : files' = [files EXCEPT ![n] = data]
      <3>1. PICK data \in Survivors(buf, 0) : files' = [files EXCEPT ![n] = data]
        BY <2>2, Zenon
      <3>2. n \in DOMAIN files /\ files[n] = <<>> /\ buf = <<Header(head)>>
        BY <2>2 DEF DirInv, PlaceInv, HeaderPlace
      <3>3. buf \in Seq(Line) /\ Headed(buf, n)
        BY <1>2, <3>2 DEF WriterOk, Headed, Header
      <3>4. Begun(buf, n) /\ Len(buf) \in Nat /\ 0 \in 0..Len(buf)
        BY <3>3, SeqLength DEF Begun
      <3> HIDE DEF n
      <3>5. Begun(data, n) /\ Len(data) \in Nat
        BY <3>4, SurvivedBegun
      <3>6. synced[n] \in 0..Len(files[n]) /\ Len(<<>>) = 0
        BY <1>2, <3>2, DiskFacts
      <3>7. synced[n] \in 0..Len(data)
        BY <3>2, <3>5, <3>6
      <3>8. DiskOk([files EXCEPT ![n] = data], synced)
        BY <1>2, <3>2, <3>5, <3>7, DiskFile, Zenon
      <3>9. DOMAIN files' = DOMAIN files /\ \A f \in DOMAIN files : f # n => files'[f] = files[f]
        BY <3>1, Zenon
      <3>10. SameBut(files, files', n)
        BY <3>9 DEF SameBut
      <3>11. SegRecords(files, n) \subseteq SegRecords(files', n) \cup {}
        BY <3>2 DEF SegRecords, RecordsOf
      <3>12. RecordsIn(files) \subseteq RecordsIn(files') \cup {}
        BY <3>10, <3>11, RecordsPut, Zenon
      <3>13. DiskOk(files', synced') /\ RecordsIn(files) \subseteq RecordsIn(files')
        <4>1. synced' = synced
          BY <1>1
        <4>2. DiskOk(files', synced')
          BY <3>1, <3>8, <4>1, Zenon
        <4> QED BY <3>12, <4>2
      <3> QED BY <3>9, <3>13, Zenon
    <2> QED BY <2>1, <2>2, Zenon DEF StartFails
  <1>4. CASE cur = -1
    <2>1. WriterGone
      BY <1>4, Zenon DEF StartFails
    <2> QED BY <1>1, <1>3, <2>1, GoneStep
  <1>5. CASE cur # -1
    <2>1. buf' = <<>> /\ pc' = "run" /\ UNCHANGED <<cur, pending, head>>
      BY <1>5, Zenon DEF StartFails
    <2>2. cur < n /\ cur \in DOMAIN files /\ Headed(files[cur], cur) /\ Above
      BY <1>2, <1>5 DEF BetweenPlace, RunPlace
    <2>3. cur # n
      BY <2>2 DEF Above
    <2>4. RunPlace'
      BY <1>3, <2>1, <2>2, <2>3 DEF RunPlace, Above
    <2>5. PlaceInv'
      BY <2>1, <2>4 DEF PlaceInv, RunPc
    <2>6. WriterOk'
      <3>1. <<>> \in Seq(Line)
        OBVIOUS
      <3> QED BY <1>1, <1>2, <2>1, <3>1 DEF WriterOk, RunPc
    <2>7. FoundInv'
      <3>1. FoundInv /\ found' = found /\ aside' = aside /\ forged' = forged
        BY <1>1 DEF DirInv
      <3> QED BY <1>1, <1>3, <3>1, KeptGrows
    <2> QED BY <1>3, <2>5, <2>6, <2>7 DEF DirInv
  <1> QED BY <1>4, <1>5

\* The invariant holds of an empty directory.
LEMMA InitDir == ASSUME AInit PROVE DirInv
  <1>1. DOMAIN <<>> = {} /\ <<>> = [f \in {} |-> files[f]] /\ <<>> = [f \in {} |-> synced[f]]
    OBVIOUS
  <1>2. DiskOk(files, synced)
    <2>1. Bounded({})
      <3>1. 0 \in Nat
        OBVIOUS
      <3> QED BY <3>1 DEF Bounded
    <2> QED BY <1>1, <2>1 DEF AInit, DiskOk
  <1>3. WriterOk
    BY DEF AInit, WriterOk, NoHead, GENESIS, HeadSet, Hash
  <1>4. PlaceInv /\ FoundInv
    BY DEF AInit, PlaceInv, FoundInv, IdlePlace, RunPc
  <1> QED BY <1>2, <1>3, <1>4 DEF DirInv

\* The directory and the writer stay in step, whatever fails.
THEOREM DirectoryInStep == ASpec => []DirInv
  <1>1. AInit => DirInv
    BY InitDir
  <1>2. DirInv /\ [ANext]_avars => DirInv'
    <2> SUFFICES ASSUME DirInv, [ANext]_avars PROVE DirInv'
      OBVIOUS
    <2>1. CASE UNCHANGED avars
      <3>1. UNCHANGED <<files, synced, aside, forged, pc, cur, buf, pending, head, appended, found>>
        BY <2>1 DEF avars, disk, writer
      <3>2. Newest' = Newest
        BY <3>1 DEF Newest
      <3>3. PlaceInv'
        BY <3>1, <3>2, Zenon DEF DirInv, PlaceInv, IdlePlace, RunPlace, BetweenPlace, StartPlace, HeaderPlace, CutPlace, Above
      <3> QED BY <3>1, <3>3 DEF DirInv, WriterOk, FoundInv, Kept
    <2> QED BY <2>1, AppendDir, TickDir, SealWriteDir, SealFlushDir, SealSyncDir, StartSegmentDir, StartHeaderDir,
               OpenDir, RecoverDir, CutDir, KillDir, PowerDir, SealFailsDir, StartFailsDir DEF ANext
  <1> QED BY <1>1, <1>2, PTL DEF ASpec

\* Recovery drops no record that had reached a segment: whatever is killed, loses power
\* or fails, and for every batch and segment size, each record Writer::open finds is in
\* a segment, in an .unsealed file or in a .forged one when it returns and after.
THEOREM RecoveryLosesNothing == ASpec => []RecoveryKeepsRecords
  <1>1. DirInv => RecoveryKeepsRecords
    BY DEF DirInv, FoundInv, RecoveryKeepsRecords, Kept, OnDisk, RecordsIn
  <1> QED BY <1>1, DirectoryInStep, PTL

=============================================================================
