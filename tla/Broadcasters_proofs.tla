------------------------ MODULE Broadcasters_proofs -------------------------
(***************************************************************************)
(* Proofs about the two strategies with an event loop, and about all of them:*)
(*                                                                         *)
(*   Rings   the io_uring broadcaster: whose writes are in the ring;       *)
(*   Epolls  the epoll broadcaster: where a message is.                    *)
(*                                                                         *)
(* Each is the inductive invariant of one kind of behaviour, and the       *)
(* theorems about all strategies put them together.                        *)
(***************************************************************************)
EXTENDS Sharded_proofs

-----------------------------------------------------------------------------
(* The io_uring broadcaster                                                 *)

\* A write that is submitted for a call.
Op == Call \X Writer

RingRecord == [sq : Seq(Op), flight : SUBSET Op, cq : Seq(BOOLEAN), want : Nat]

\* No more completions are waited for than entries were published.
WantOK == held # 0 /\ call[held].at = 1 => ring.want <= Len(ring.sq)

RingTypes ==
    /\ BaseOK /\ job \in Tasked /\ ring \in RingRecord /\ held \in Call \cup {0}
    /\ ~past.panicked /\ WantOK

InRing == Range(ring.sq) \cup ring.flight

\* The set F of writes has n members: some sequence of that length lists each once.
Numbers(F, n) == \E q \in Seq(Op) : IsInjective(q) /\ Range(q) = F /\ Len(q) = n

\* The writers that call k has not come to, and those it has a write in the ring for.
Waiting(k) == Range(job[k][0]) \cup {w \in Writer : <<k, w>> \in InRing}

\* The ring is used by one call at a time: the entries that it has published, then
\* the writes that the kernel has taken, each until it has posted a completion.
RingOK ==
    /\ IsInjective(ring.sq)
    /\ \A op \in InRing : op[1] = held /\ op[2] \notin Range(job[held][0])
    /\ held = 0 => ring.cq = <<>>
    /\ held # 0 => call[held].pc = "open" /\ call[held].at \in {1, 2}
    /\ held # 0 /\ call[held].at = 1 => ring.flight = {} /\ ring.cq = <<>> /\ ring.want = Len(ring.sq)
    /\ held # 0 /\ call[held].at = 2 =>
          ring.sq = <<>> /\ \E n \in Nat : Numbers(ring.flight, n) /\ n + Len(ring.cq) = ring.want

RingCall(k) ==
    /\ IsInjective(job[k][0])
    /\ call[k].pc = "new" => owes[k] = {} /\ job[k][0] = <<>> /\ \A w \in Writer : k \notin Range(got[w])
    /\ call[k].pc = "open" => owes[k] \subseteq Waiting(k)
    /\ call[k].pc = "returned" => owes[k] = {} /\ job[k][0] = <<>>
    /\ \A w \in Waiting(k) : k \notin Range(got[w])
    /\ call[k].err \/ (held = k /\ FALSE \in Range(ring.cq)) <=> k \in past.failed

Rings ==
    /\ RingTypes
    /\ ~past.lapse => RingOK /\ (\A k \in Call : RingCall(k)) /\ (\A w \in Writer : IsInjective(got[w]))

RingInv == kind = "iouring" => Rings
-----------------------------------------------------------------------------
(* Sequences of writes                                                      *)

-----------------------------------------------------------------------------
(* The steps of the io_uring broadcaster                                    *)

\* What the types say, one by one.
LEMMA RingFacts ==
    ASSUME RingTypes
    PROVE  /\ SlicesOK /\ slice \in [Shard -> Slice] /\ call \in [Call -> CallRecord]
           /\ owes \in [Call -> SUBSET Writer] /\ may \in [Call -> SUBSET Writer]
           /\ got \in [Writer -> Seq(Call)] /\ past \in PastRecord
           /\ job \in Tasked /\ \A k \in Call : job[k][0] \in Seq(Writer)
           /\ ring \in RingRecord /\ ring.sq \in Seq(Op) /\ ring.flight \in SUBSET Op
           /\ ring.cq \in Seq(BOOLEAN) /\ ring.want \in Nat
           /\ InRing \subseteq Op /\ held \in Call \cup {0} /\ WantOK
           /\ Registered \subseteq Writer
<1>1. /\ BaseOK /\ job \in Tasked /\ ring \in RingRecord /\ held \in Call \cup {0} /\ WantOK
  BY DEF RingTypes
<1>2. /\ SlicesOK /\ slice \in [Shard -> Slice] /\ call \in [Call -> CallRecord]
      /\ owes \in [Call -> SUBSET Writer] /\ may \in [Call -> SUBSET Writer]
      /\ got \in [Writer -> Seq(Call)] /\ past \in PastRecord
  BY <1>1 DEF BaseOK, SlicesOK
<1>3. \A k \in Call : job[k][0] \in Seq(Writer)
  BY <1>1, ShardZero DEF Tasked
<1>4. /\ ring.sq \in Seq(Op) /\ ring.flight \in SUBSET Op
      /\ ring.cq \in Seq(BOOLEAN) /\ ring.want \in Nat
  BY <1>1 DEF RingRecord
<1>5. InRing \subseteq Op
  BY <1>4, RangeIs DEF InRing
<1> QED
  BY <1>1, <1>2, <1>3, <1>4, <1>5, RegisteredHeld

\* What the history says after a Remove, a failed write and a lapse.
LEMMA PastStep ==
    ASSUME past \in PastRecord
    PROVE  /\ past' = [past EXCEPT !.removes = @ + 1] =>
                /\ past' \in PastRecord /\ past'.failed = past.failed /\ past'.torn = past.torn
                /\ past'.lapse = past.lapse /\ past'.panicked = past.panicked
           /\ \A k \in Call : past' = [past EXCEPT !.fails = @ + 1, !.failed = @ \cup {k}] =>
                /\ past' \in PastRecord /\ past'.failed = past.failed \cup {k} /\ past'.torn = past.torn
                /\ past'.lapse = past.lapse /\ past'.panicked = past.panicked
           /\ past' = [past EXCEPT !.fails = @ + 1, !.lapse = TRUE] =>
                /\ past' \in PastRecord /\ past'.failed = past.failed /\ past'.torn = past.torn
                /\ past'.lapse /\ past'.panicked = past.panicked
<1>1. /\ past.fails + 1 \in Nat /\ past.removes + 1 \in Nat
      /\ \A k \in Call : past.failed \cup {k} \in SUBSET Call
  BY DEF PastRecord
<1> DEFINE r == past.removes + 1
           f == past.fails + 1
<1> HIDE DEF r, f
<1>2. ASSUME past' = [past EXCEPT !.removes = r]
      PROVE  /\ past' \in PastRecord /\ past'.failed = past.failed /\ past'.torn = past.torn
             /\ past'.lapse = past.lapse /\ past'.panicked = past.panicked
  BY <1>1, <1>2 DEF PastRecord, r
<1>3. ASSUME NEW X \in SUBSET Call, past' = [past EXCEPT !.fails = f, !.failed = X]
      PROVE  /\ past' \in PastRecord /\ past'.failed = X /\ past'.torn = past.torn
             /\ past'.lapse = past.lapse /\ past'.panicked = past.panicked
  BY <1>1, <1>3, Zenon DEF PastRecord, f
<1>4. ASSUME past' = [past EXCEPT !.fails = f, !.lapse = TRUE]
      PROVE  /\ past' \in PastRecord /\ past'.failed = past.failed /\ past'.torn = past.torn
             /\ past'.lapse /\ past'.panicked = past.panicked
  BY <1>1, <1>4, Zenon DEF PastRecord, f
<1> QED
  BY <1>1, <1>2, <1>3, <1>4, Zenon DEF r, f

\* The mutex that nobody holds is held by no call.
LEMMA CallNotZero == ASSUME NEW k \in Call PROVE k # 0
BY DEF Call

\* The inductive invariant of the io_uring broadcaster: the ring holds only writes of
\* the call that holds its lock, as many as completions are still to come; what a call
\* owes is in its task or in the ring, and no such writer has the message; and until a
\* call of io_uring_enter fails, an error is in the call or in a completion to drain.
THEOREM RingInvariance == FanoutSpec => []RingInv
\* A batch, and what remains of the task after it.
<1>SplitSeq.
      ASSUME NEW T, NEW s \in Seq(T), IsInjective(s), NEW n \in 0 .. Len(s)
      PROVE  LET b == SubSeq(s, 1, n)
                 r == SubSeq(s, n + 1, Len(s)) IN
             /\ b \in Seq(T) /\ Len(b) = n /\ IsInjective(b) /\ r \in Seq(T) /\ IsInjective(r)
             /\ Range(b) \cup Range(r) = Range(s) /\ Range(b) \cap Range(r) = {}
  <2> USE <1>SplitSeq
  <2> DEFINE b == SubSeq(s, 1, n)
             r == SubSeq(s, n + 1, Len(s))
             L == Len(s)
  <2>1. L \in Nat /\ n \in Nat /\ n <= L /\ \A j \in 1 .. L : s[j] \in T
    OBVIOUS
  <2>2. /\ b \in Seq(T) /\ Len(b) = n /\ \A j \in 1 .. n : b[j] = s[j]
        /\ r \in Seq(T) /\ Len(r) = L - n /\ \A j \in 1 .. L - n : r[j] = s[n + j]
    <3>1. b \in Seq(T) /\ Len(b) = n /\ \A j \in 1 .. n : b[j] = s[j]
      BY <2>1
    <3>2. r = [j \in 1 .. L - n |-> s[n + j]]
      BY <2>1
    <3>3. \A j \in 1 .. L - n : s[n + j] \in T
      BY <2>1
    <3> HIDE DEF r, L
    <3>4. r \in Seq(T) /\ Len(r) = L - n /\ \A j \in 1 .. L - n : r[j] = s[n + j]
      BY <2>1, <3>2, <3>3
    <3> QED
      BY <3>1, <3>4
  <2>3. /\ Range(b) = {b[j] : j \in 1 .. n} /\ DOMAIN b = 1 .. n
        /\ Range(r) = {r[j] : j \in 1 .. L - n} /\ DOMAIN r = 1 .. L - n
        /\ Range(s) = {s[j] : j \in 1 .. L} /\ DOMAIN s = 1 .. L
    <3>1. Range(s) = {s[j] : j \in 1 .. L} /\ DOMAIN s = 1 .. L
      BY RangeIs
    <3> HIDE DEF b, r, L
    <3>2. Range(b) = {b[j] : j \in 1 .. n} /\ DOMAIN b = 1 .. n
      BY <2>2, RangeIs, Zenon
    <3>3. Range(r) = {r[j] : j \in 1 .. L - n} /\ DOMAIN r = 1 .. L - n
      BY <2>2, RangeIs
    <3> QED
      BY <3>1, <3>2, <3>3
  <2>4. \A i, j \in 1 .. L : s[i] = s[j] => i = j
    BY <2>3 DEF IsInjective
  <2>5. /\ \A j \in 1 .. n : j \in 1 .. L
        /\ \A j \in 1 .. L - n : n + j \in 1 .. L /\ \A i \in 1 .. n : i # n + j
        /\ \A j \in 1 .. L : j \in 1 .. n \/ (j - n \in 1 .. L - n /\ n + (j - n) = j)
        /\ \A i, j \in 1 .. L - n : n + i = n + j => i = j
    BY <2>1
  <2> HIDE DEF b, r, L
  <2>6. IsInjective(b)
    BY <2>2, <2>3, <2>4, <2>5 DEF IsInjective
  <2>7. IsInjective(r)
    <3> SUFFICES ASSUME NEW i \in 1 .. L - n, NEW j \in 1 .. L - n, r[i] = r[j] PROVE i = j
      BY <2>3 DEF IsInjective
    <3>1. n + i = n + j
      BY <2>2, <2>4, <2>5
    <3> QED
      BY <2>5, <3>1
  <2>8. Range(b) \cap Range(r) = {}
    <3> SUFFICES ASSUME NEW i \in 1 .. n, NEW j \in 1 .. L - n, b[i] = r[j] PROVE FALSE
      BY <2>3
    <3>1. s[i] = s[n + j] /\ i \in 1 .. L /\ n + j \in 1 .. L /\ i # n + j
      BY <2>2, <2>5
    <3> QED
      BY <2>4, <3>1
  <2>9. Range(b) \cup Range(r) = Range(s)
    <3>1. Range(b) \subseteq Range(s)
      BY <2>2, <2>3, <2>5
    <3>2. Range(r) \subseteq Range(s)
      BY <2>2, <2>3, <2>5
    <3>3. ASSUME NEW j \in 1 .. L PROVE s[j] \in Range(b) \cup Range(r)
      <4>1. CASE j \in 1 .. n
        BY <2>2, <2>3, <4>1
      <4>2. CASE j - n \in 1 .. L - n /\ n + (j - n) = j
        <5>1. r[j - n] = s[j]
          BY <2>2, <4>2
        <5> QED
          BY <2>3, <4>2, <5>1
      <4> QED
        BY <2>5, <4>1, <4>2
    <3> QED
      BY <2>3, <3>1, <3>2, <3>3, Zenon
  <2> QED
    BY <2>2, <2>6, <2>7, <2>8, <2>9 DEF b, r, L
\* The writes of a batch, one for each writer.
<1>BatchOps.
      ASSUME NEW k \in Call, NEW b \in Seq(Writer)
      PROVE  LET ops == [p \in DOMAIN b |-> <<k, b[p]>>] IN
             /\ ops \in Seq(Op) /\ Len(ops) = Len(b) /\ DOMAIN ops = 1 .. Len(b)
             /\ IsInjective(b) => IsInjective(ops)
             /\ \A op \in Range(ops) : op[1] = k /\ op[2] \in Range(b)
             /\ \A w : <<k, w>> \in Range(ops) <=> w \in Range(b)
  <2> USE <1>BatchOps
  <2> DEFINE ops == [p \in DOMAIN b |-> <<k, b[p]>>]
  <2>1. DOMAIN b = 1 .. Len(b) /\ Len(b) \in Nat /\ \A p \in DOMAIN b : b[p] \in Writer
    OBVIOUS
  <2>2. \A p \in DOMAIN b : <<k, b[p]>> \in Op
    BY <2>1 DEF Op
  <2>3. DOMAIN ops = DOMAIN b /\ \A p \in DOMAIN b : ops[p] = <<k, b[p]>>
    OBVIOUS
  <2>4. ops \in Seq(Op) /\ Len(ops) = Len(b)
    <3>1. ops = [p \in 1 .. Len(b) |-> ops[p]]
      BY <2>1
    <3>2. \A p \in 1 .. Len(b) : ops[p] \in Op
      BY <2>1, <2>2
    <3> HIDE DEF ops
    <3> QED
      BY <2>1, <3>1, <3>2
  <2> HIDE DEF ops
  <2>5. Range(ops) = {ops[p] : p \in DOMAIN b} /\ Range(b) = {b[p] : p \in DOMAIN b}
    BY <2>3, Zenon DEF Range
  <2>6. \A op \in Range(ops) : op[1] = k /\ op[2] \in Range(b)
    BY <2>3, <2>5
  <2>7. ASSUME NEW w PROVE <<k, w>> \in Range(ops) <=> w \in Range(b)
    BY <2>3, <2>5
  <2>8. IsInjective(b) => IsInjective(ops)
    BY <2>3 DEF IsInjective
  <2> QED
    BY <2>1, <2>3, <2>4, <2>6, <2>7, <2>8 DEF ops
\* A write that completes leaves one fewer.
<1>OneFewer.
      ASSUME NEW F, NEW n \in Nat, Numbers(F, n), NEW op \in F
      PROVE  n - 1 \in Nat /\ Numbers(F \ {op}, n - 1)
  <2> USE <1>OneFewer
  <2>1. PICK q \in Seq(Op) : IsInjective(q) /\ Range(q) = F /\ Len(q) = n
    BY DEF Numbers
  <2>2. DOMAIN q = 1 .. n /\ F = {q[j] : j \in 1 .. n} /\ \A j \in 1 .. n : q[j] \in Op
    BY <2>1, RangeIs
  <2>3. \A i, j \in 1 .. n : q[i] = q[j] => i = j
    BY <2>1, <2>2 DEF IsInjective
  <2>4. PICK p \in 1 .. n : q[p] = op
    BY <2>2
  <2>5. n - 1 \in Nat /\ n \in 1 .. n
    BY <2>4
  <2> DEFINE r == [j \in 1 .. n - 1 |-> IF j = p THEN q[n] ELSE q[j]]
  <2>6. r \in Seq(Op) /\ Len(r) = n - 1 /\ DOMAIN r = 1 .. n - 1
    BY <2>2, <2>5
  <2>7. \A j \in 1 .. n - 1 : r[j] = (IF j = p THEN q[n] ELSE q[j]) /\ j \in 1 .. n /\ j # n
    BY <2>5
  <2> HIDE DEF r
  <2>8. IsInjective(r)
    <3>1. \A i, j \in 1 .. n - 1 : r[i] = r[j] => i = j
      BY <2>3, <2>5, <2>7
    <3> QED
      BY <2>6, <3>1 DEF IsInjective
  <2>9. Range(r) = {r[j] : j \in 1 .. n - 1}
    BY <2>6, RangeIs
  <2>10. Range(r) \subseteq F \ {op}
    BY <2>2, <2>3, <2>4, <2>5, <2>7, <2>9
  <2>11. ASSUME NEW e \in F \ {op} PROVE e \in Range(r)
    <3>1. PICK j \in 1 .. n : q[j] = e
      BY <2>2
    <3>2. j # p
      BY <2>4, <3>1
    <3>3. CASE j = n
      <4>1. p \in 1 .. n - 1
        BY <2>4, <3>2, <3>3
      <4> QED
        BY <2>7, <2>9, <3>1, <3>3, <4>1
    <3>4. CASE j # n
      <4>1. j \in 1 .. n - 1
        BY <3>4
      <4> QED
        BY <2>7, <2>9, <3>1, <3>2, <4>1
    <3> QED
      BY <3>3, <3>4
  <2>12. Range(r) = F \ {op}
    BY <2>10, <2>11
  <2> QED
    BY <2>5, <2>6, <2>8, <2>12 DEF Numbers
\* A position, moved on by whole rounds of the ring, is still one of the queue; with
\* no more entries than the ring has places, it does not move.
<1>LapBound.
      ASSUME NEW n \in Nat, NEW p \in 1 .. n
      PROVE  LET q == p + iouRingSize * ((n - p) \div iouRingSize) IN
             q \in 1 .. n /\ (n <= iouRingSize => q = p)
  <2> USE <1>LapBound
  <2> DEFINE d == (n - p) \div iouRingSize
  <2>1. iouRingSize \in Nat \ {0} /\ n - p \in Nat
    BY FanoutAssumption
  <2>2. d \in Nat
    BY <2>1
  <2>3. iouRingSize * d <= n - p /\ iouRingSize * d \in Nat
    BY <2>1, <2>2
  <2>4. n <= iouRingSize => d = 0
    BY <2>1
  <2> HIDE DEF d
  <2>5. n <= iouRingSize => iouRingSize * d = 0
    BY <2>1, <2>4
  <2> QED
    BY <2>1, <2>3, <2>5 DEF d
\* The entries are those of the batch, if the kernel has consumed the earlier ones.
<1>PublishedIs.
      ASSUME ring.sq \in Seq(Op), NEW batch \in Seq(Op)
      PROVE  /\ Published(batch) \in Seq(Op) /\ Len(Published(batch)) = Len(ring.sq) + Len(batch)
             /\ ring.sq = <<>> /\ Len(batch) <= iouRingSize => Published(batch) = batch
  <2> USE <1>PublishedIs
  <2> DEFINE all == ring.sq \o batch
             n == Len(all)
             lap(p) == p + iouRingSize * ((n - p) \div iouRingSize)
  <2>1. all \in Seq(Op) /\ n \in Nat /\ DOMAIN all = 1 .. n /\ n = Len(ring.sq) + Len(batch)
    OBVIOUS
  <2>2. Published(batch) = [p \in 1 .. n |-> all[lap(p)]]
    BY <2>1 DEF Published
  <2>3. \A p \in 1 .. n : lap(p) \in 1 .. n /\ (n <= iouRingSize => lap(p) = p)
    BY <2>1, <1>LapBound, Zenon
  <2>4. ring.sq = <<>> => all = batch
    OBVIOUS
  <2> HIDE DEF lap, all, n
  <2>5. \A p \in 1 .. n : all[lap(p)] \in Op
    BY <2>1, <2>3 DEF n
  <2>6. Published(batch) \in Seq(Op) /\ Len(Published(batch)) = n
    BY <2>1, <2>2, <2>5
  <2>7. ASSUME ring.sq = <<>>, Len(batch) <= iouRingSize PROVE Published(batch) = batch
    <3>1. all = batch /\ n <= iouRingSize
      BY <2>4, <2>7 DEF n
    <3>2. \A p \in 1 .. n : all[lap(p)] = all[p]
      BY <2>3, <3>1
    <3>3. Published(batch) = [p \in 1 .. n |-> all[p]]
      BY <2>2, <3>2
    <3> QED
      BY <2>1, <3>1, <3>3 DEF n
  <2> QED
    BY <2>1, <2>6, <2>7
\* A write has its call and its writer.
<1>OpIs.
      ASSUME NEW op \in Op
      PROVE  op = <<op[1], op[2]>> /\ op[1] \in Call /\ op[1] # 0 /\ op[2] \in Writer
  BY <1>OpIs DEF Op, Call
\* The types, while the slices stay.
<1>RingTypesStay.
      ASSUME RingTypes, kind' = kind, slice' = slice, call' \in [Call -> CallRecord],
             owes' \in [Call -> SUBSET Writer], may' \in [Call -> SUBSET Writer], got' \in [Writer -> Seq(Call)],
             past' \in PastRecord, past'.panicked = past.panicked,
             job' \in Tasked, ring' \in RingRecord, held' \in Call \cup {0}, WantOK'
      PROVE  RingTypes' /\ Registered' = Registered
  <2> USE <1>RingTypesStay
  <2>1. SlicesOK'
    BY RingFacts, Zenon DEF SlicesOK, Home
  <2>2. BaseOK'
    BY <2>1 DEF BaseOK
  <2> QED
    BY <2>2, SameRegistered DEF RingTypes
\* A call that the step does not touch.
<1>OtherRingCall.
      ASSUME NEW k \in Call, RingCall(k), call'[k] = call[k], job'[k] = job[k], owes'[k] \subseteq owes[k],
             \A w \in Writer : <<k, w>> \in InRing' <=> <<k, w>> \in InRing,
             \A w \in Writer : k \in Range(got'[w]) <=> k \in Range(got[w]),
             k \in past'.failed <=> k \in past.failed,
             (held' = k /\ FALSE \in Range(ring'.cq)) <=> (held = k /\ FALSE \in Range(ring.cq)),
             Range(job[k][0]) \subseteq Writer
      PROVE  RingCall(k)' /\ Waiting(k)' = Waiting(k)
  <2> USE <1>OtherRingCall
  <2>1. Waiting(k)' = Waiting(k)
    BY DEF Waiting
  <2>2. Waiting(k) \subseteq Writer
    BY DEF Waiting
  <2>3. \A w \in Writer : k \in Range(got'[w]) <=> k \in Range(got[w])
    BY Zenon
  <2>4. IsInjective(job'[k][0])
    BY Zenon DEF RingCall
  <2>5. call'[k].pc = "new" =>
           owes'[k] = {} /\ job'[k][0] = <<>> /\ \A w \in Writer : k \notin Range(got'[w])
    BY <2>3, Zenon DEF RingCall
  <2>6. call'[k].pc = "open" => owes'[k] \subseteq Waiting(k)'
    BY <2>1, Zenon DEF RingCall
  <2>7. call'[k].pc = "returned" => owes'[k] = {} /\ job'[k][0] = <<>>
    BY Zenon DEF RingCall
  <2>8. \A w \in Waiting(k)' : k \notin Range(got'[w])
    BY <2>1, <2>2, <2>3, Zenon DEF RingCall
  <2>9. call'[k].err \/ (held' = k /\ FALSE \in Range(ring'.cq)) <=> k \in past'.failed
    BY Zenon DEF RingCall
  <2> QED
    BY <2>1, <2>4, <2>5, <2>6, <2>7, <2>8, <2>9, Zenon DEF RingCall
\* A sequence without elements is empty.
<1>NoRange.
      ASSUME NEW T, NEW s \in Seq(T), Range(s) = {}
      PROVE  s = <<>>
  <2>0. s \in Seq(T) /\ Range(s) = {}
    BY <1>NoRange
  <2>1. Len(s) \in Nat /\ DOMAIN s = 1 .. Len(s)
    BY <2>0
  <2>2. \A j \in DOMAIN s : FALSE
    BY <2>0, Zenon DEF Range
  <2>3. ~(1 \in DOMAIN s)
    BY <2>2, Zenon
  <2>4. Len(s) = 0
    BY <2>1, <2>3
  <2> QED
    BY <2>4
\* While nobody holds the ring, there is nothing in it.
<1>FreeRing.
      ASSUME RingTypes, RingOK, held = 0
      PROVE  InRing = {} /\ ring.sq = <<>> /\ ring.flight = {} /\ ring.cq = <<>>
  <2> USE <1>FreeRing
  <2>1. InRing = {}
    BY RingFacts, <1>OpIs DEF RingOK
  <2>2. Range(ring.sq) = {} /\ ring.flight = {} /\ ring.sq \in Seq(Op)
    BY <2>1, RingFacts DEF InRing
  <2>3. ring.sq = <<>>
    BY <2>2, <1>NoRange
  <2> QED
    BY <2>1, <2>2, <2>3 DEF RingOK
\* No call but the one that holds the ring has anything in it.
<1>OthersNotInRing.
      ASSUME RingTypes, RingOK, NEW k \in Call, held # k
      PROVE  \A w : <<k, w>> \notin InRing
  BY <1>OthersNotInRing DEF RingOK
\* Nothing in the ring, or in its calls, is about who is registered.
<1>RingAddStep.
      ASSUME Rings, kind = "iouring", kind' = kind, NEW w \in Writer, Join(w, 0),
             UNCHANGED <<call, job, held, ring, got, past>>
      PROVE  Rings'
  <2> USE <1>RingAddStep
  <2>1. RingTypes /\ Home(w) = 0
    BY DEF Rings, Home
  <2>2. w \notin Registered /\ slice' = [slice EXCEPT ![Home(w)] = Appended(@, w)]
        /\ owes' = owes /\ may' = [k \in Call |-> IF k \in Open /\ kind \in Synchronous THEN may[k] \cup {w} ELSE may[k]]
    BY <2>1 DEF Join
  <2>3. SlicesOK' /\ may' \in [Call -> SUBSET Writer]
    BY <2>1, <2>2, RingFacts, SlicesJoin, Zenon
  <2>4. RingTypes'
    BY <2>1, <2>2, <2>3, RingFacts DEF RingTypes, BaseOK, WantOK
  <2>5. InRing' = InRing
    BY DEF InRing
  <2>6. ASSUME ~past'.lapse PROVE RingOK' /\ (\A k \in Call : RingCall(k)') /\ (\A v \in Writer : IsInjective(got'[v]))
    <3>1. RingOK /\ (\A k \in Call : RingCall(k)) /\ (\A v \in Writer : IsInjective(got[v]))
      BY <2>6 DEF Rings
    <3>2. RingOK'
      BY <3>1, <2>5 DEF RingOK
    <3>3. ASSUME NEW k \in Call PROVE RingCall(k)'
      BY <3>1, <2>1, <2>2, <2>5, RingFacts, RangeIs, <1>OtherRingCall
    <3> QED
      BY <3>1, <3>2, <3>3
  <2> QED
    BY <2>4, <2>6 DEF Rings
\* Remove takes a descriptor out of the list, not out of a task.
<1>RingRemoveStep.
      ASSUME Rings, kind = "iouring", kind' = kind, NEW w \in Writer, Leave(w, 0),
             past' = [past EXCEPT !.removes = @ + 1], UNCHANGED <<call, job, held, ring, got>>
      PROVE  Rings'
  <2> USE <1>RingRemoveStep
  <2>1. RingTypes /\ Home(w) = 0
    BY DEF Rings, Home
  <2>2. slice' = [slice EXCEPT ![Home(w)] = SwapDeleted(@, w)] /\ may' = may
        /\ owes' = [k \in Call |-> owes[k] \ {w}]
    BY <2>1 DEF Leave
  <2>3. SlicesOK' /\ owes' \in [Call -> SUBSET Writer]
    BY <2>1, <2>2, RingFacts, SlicesLeave, Zenon
  <2>p. /\ past' \in PastRecord /\ past'.panicked = past.panicked /\ past'.lapse = past.lapse
        /\ past'.failed = past.failed
    BY <2>1, RingFacts, PastStep, Zenon
  <2>4. RingTypes'
    BY <2>1, <2>2, <2>3, <2>p, RingFacts DEF RingTypes, BaseOK, WantOK
  <2>5. InRing' = InRing
    BY DEF InRing
  <2>6. ASSUME ~past'.lapse PROVE RingOK' /\ (\A k \in Call : RingCall(k)') /\ (\A v \in Writer : IsInjective(got'[v]))
    <3>1. RingOK /\ (\A k \in Call : RingCall(k)) /\ (\A v \in Writer : IsInjective(got[v]))
      BY <2>6, <2>p DEF Rings
    <3>2. RingOK'
      BY <3>1, <2>5 DEF RingOK
    <3>3. ASSUME NEW k \in Call PROVE RingCall(k)'
      <4>1. owes'[k] \subseteq owes[k]
        BY <2>2
      <4> QED
        BY <3>1, <4>1, <2>1, <2>p, <2>5, RingFacts, RangeIs, <1>OtherRingCall, Zenon
    <3> QED
      BY <3>1, <3>2, <3>3
  <2> QED
    BY <2>4, <2>6 DEF Rings
\* A call takes the list of the descriptors.
<1>RingBeginStep.
      ASSUME Rings, kind = "iouring", kind' = kind, NEW k \in Call, Begin(k),
             call' = [call EXCEPT ![k].pc = "open"], job' = [job EXCEPT ![k][0] = Elements(slice[0])],
             UNCHANGED <<slice, held, ring, got, past>>
      PROVE  Rings'
  <2> USE <1>RingBeginStep
  <2> DEFINE s == Elements(slice[0])
  <2>1. RingTypes
    BY DEF Rings
  <2>2. call[k].pc = "new" /\ owes' = [owes EXCEPT ![k] = Registered] /\ may' = [may EXCEPT ![k] = {}]
    BY DEF Begin, Synchronous
  <2>3. /\ call' \in [Call -> CallRecord]
        /\ call'[k].pc = "open" /\ call'[k].at = call[k].at /\ call'[k].err = call[k].err
        /\ \A j \in Call : j # k => call'[j] = call[j]
    BY <2>1, RingFacts, CallOpens, Zenon
  <2>4. s \in Seq(Writer) /\ IsInjective(s) /\ Range(s) = Registered
    <3>1. SlicesOK /\ slice[0] \in Slice /\ Uniq(slice[0])
      BY <2>1, RingFacts, ShardZero DEF SlicesOK
    <3>2. Registered = Held(slice[0])
      BY <3>1, OneList
    <3> QED
      BY <3>1, <3>2, ElementsOf
  <2> HIDE DEF s
  <2>5. job' \in Tasked /\ job'[k][0] = s /\ \A j \in Call : j # k => job'[j] = job[j]
    <3>1. job \in [Call -> [Shard -> Seq(Writer)]] /\ job' = [job EXCEPT ![k][0] = s]
      BY <2>1, RingFacts DEF Tasked, s
    <3> QED
      BY <2>4, <3>1, ShardZero DEF Tasked
  <2>6. owes' \in [Call -> SUBSET Writer] /\ may' \in [Call -> SUBSET Writer]
        /\ owes'[k] = Registered /\ \A j \in Call : j # k => owes'[j] = owes[j]
    BY <2>1, <2>2, RingFacts
  <2>w. WantOK'
    BY <2>1, <2>3, RingFacts DEF WantOK
  <2>7. RingTypes'
    BY <2>1, <2>3, <2>5, <2>6, <2>w, RingFacts, <1>RingTypesStay
  <2>8. InRing' = InRing
    BY DEF InRing
  <2>9. ASSUME ~past'.lapse PROVE RingOK' /\ (\A j \in Call : RingCall(j)') /\ (\A v \in Writer : IsInjective(got'[v]))
    <3>1. RingOK /\ (\A j \in Call : RingCall(j)) /\ (\A v \in Writer : IsInjective(got[v]))
      BY <2>9 DEF Rings
    <3>2. held # k
      BY <2>2, <3>1, RingFacts, <2>1 DEF RingOK, Call
    <3>3. held # 0 => held \in Call /\ call'[held] = call[held] /\ job'[held] = job[held]
      BY <2>1, <2>3, <2>5, <3>2, RingFacts
    <3>4. RingOK'
      <4>1. \A op \in InRing : op[1] = held /\ held # 0 /\ op[2] \notin Range(job[held][0])
        BY <2>1, <3>1, RingFacts, <1>OpIs DEF RingOK
      <4> QED
        BY <2>8, <3>1, <3>3, <4>1 DEF RingOK
    <3>5. ASSUME NEW j \in Call, j # k PROVE RingCall(j)'
      BY <3>1, <3>5, <2>1, <2>3, <2>5, <2>6, <2>8, RingFacts, RangeIs, <1>OtherRingCall, Zenon
    <3>6. RingCall(k)'
      <4>1. RingCall(k)
        BY <3>1
      <4>2. Waiting(k)' = Range(s)
        BY <2>1, <2>5, <2>8, <3>1, <3>2, <1>OthersNotInRing DEF Waiting
      <4>3. \A w \in Writer : k \notin Range(got[w])
        BY <2>2, <4>1 DEF RingCall
      <4>4. call[k].err <=> k \in past.failed
        BY <3>2, <4>1, <2>1, RingFacts, Zenon DEF RingCall, CallRecord
      <4>5. call'[k].err <=> k \in past'.failed
        BY <2>3, <4>4
      <4>6. Range(s) \subseteq Writer
        BY <2>4, RangeIs
      <4>7. \A w \in Waiting(k)' : k \notin Range(got'[w])
        BY <4>2, <4>3, <4>6
      <4>8. owes'[k] \subseteq Waiting(k)' /\ IsInjective(job'[k][0])
        BY <2>4, <2>5, <2>6, <4>2
      <4>9. call'[k].pc # "new" /\ call'[k].pc # "returned" /\ held' # k
        BY <2>3, <3>2
      <4> QED
        BY <4>5, <4>7, <4>8, <4>9, Zenon DEF RingCall
    <3> QED
      BY <3>1, <3>4, <3>5, <3>6
  <2> QED
    BY <2>7, <2>9 DEF Rings
\* A call returns, with nothing of it in the ring.
<1>RingReturnStep.
      ASSUME Rings, kind = "iouring", kind' = kind, NEW k \in Call,
             call[k].pc = "open", job[k][0] = <<>>, held # k,
             call' = Returned(k, call[k].err),
             UNCHANGED <<slice, job, held, ring, got, owes, may, past>>
      PROVE  Rings'
  <2> USE <1>RingReturnStep
  <2>1. RingTypes
    BY DEF Rings
  <2>2. call[k].err \in BOOLEAN
    BY <2>1, RingFacts DEF CallRecord
  <2>3. /\ call' \in [Call -> CallRecord]
        /\ call'[k].pc = "returned" /\ call'[k].err = call[k].err
        /\ \A j \in Call : j # k => call'[j] = call[j]
    BY <2>1, <2>2, RingFacts, CallReturns
  <2>w. WantOK'
    BY <2>1, <2>3, RingFacts DEF WantOK
  <2>7. RingTypes'
    BY <2>1, <2>3, <2>w, RingFacts, <1>RingTypesStay
  <2>8. InRing' = InRing
    BY DEF InRing
  <2>9. ASSUME ~past'.lapse PROVE RingOK' /\ (\A j \in Call : RingCall(j)') /\ (\A v \in Writer : IsInjective(got'[v]))
    <3>1. RingOK /\ (\A j \in Call : RingCall(j)) /\ (\A v \in Writer : IsInjective(got[v]))
      BY <2>9 DEF Rings
    <3>3. held # 0 => held \in Call /\ call'[held] = call[held]
      BY <2>1, <2>3, RingFacts
    <3>4. RingOK'
      BY <2>8, <3>1, <3>3 DEF RingOK
    <3>5. ASSUME NEW j \in Call, j # k PROVE RingCall(j)'
      BY <3>1, <3>5, <2>1, <2>3, <2>8, RingFacts, RangeIs, <1>OtherRingCall, Zenon
    <3>6. RingCall(k)'
      <4>1. RingCall(k)
        BY <3>1
      <4>2. Waiting(k) = {}
        BY <2>1, <3>1, EmptyRange, <1>OthersNotInRing DEF Waiting
      <4>3. Waiting(k)' = {}
        BY <4>2, <2>8 DEF Waiting
      <4>4. owes[k] = {} /\ IsInjective(job[k][0])
        BY <4>1, <4>2 DEF RingCall
      <4>5. call'[k].err <=> k \in past'.failed
        BY <2>2, <2>3, <4>1, Zenon DEF RingCall
      <4> QED
        BY <2>3, <4>3, <4>4, <4>5, Zenon DEF RingCall
    <3> QED
      BY <3>1, <3>4, <3>5, <3>6
  <2> QED
    BY <2>7, <2>9 DEF Rings
\* A batch is published in an empty ring: what the call waits for is then in the
\* rest of its task or in the ring.
<1>RingFillStep.
      ASSUME Rings, kind = "iouring", kind' = kind, NEW k \in Call, Fill(k), UNCHANGED past
      PROVE  Rings'
  <2> USE <1>RingFillStep
  <2> DEFINE s == job[k][0]
             b == Batch(k)
             ops == [p \in DOMAIN b |-> <<k, b[p]>>]
             q == Published(ops)
             n == IF Len(s) < iouRingSize THEN Len(s) ELSE iouRingSize
             rest == SubSeq(s, n + 1, Len(s))
  <2>1. RingTypes /\ ring \in RingRecord /\ s \in Seq(Writer)
    BY RingFacts DEF Rings
  <2>2. /\ call[k].pc = "open" /\ s # <<>> /\ held = 0 /\ held' = k
        /\ ring' = [ring EXCEPT !.sq = q, !.want = Len(b)]
        /\ job' = [job EXCEPT ![k][0] = SubSeq(s, Len(b) + 1, Len(s))]
        /\ call' = [call EXCEPT ![k].at = 1]
        /\ UNCHANGED <<slice, got, owes, may>>
    BY DEF Fill, log
  <2>3. n \in 0 .. Len(s) /\ n <= iouRingSize /\ n \in Nat
    BY <2>1, FanoutAssumption
  <2>4. b \in Seq(Writer) /\ Len(b) = n /\ rest \in Seq(Writer)
    <3> HIDE DEF n, s
    <3>1. SubSeq(s, 1, n) \in Seq(Writer) /\ Len(SubSeq(s, 1, n)) = n /\ SubSeq(s, n + 1, Len(s)) \in Seq(Writer)
      BY <2>1, <2>3
    <3> QED
      BY <3>1 DEF Batch, n, s
  <2>5. ops \in Seq(Op) /\ Len(ops) = n
    BY <2>4, <1>BatchOps
  <2> HIDE DEF n, s, b, ops
  <2>6. q \in Seq(Op)
    BY <2>1, <2>5, RingFacts, <1>PublishedIs
  <2> HIDE DEF q, rest
  <2>7. ring' \in RingRecord /\ ring'.sq = q /\ ring'.want = n /\ ring'.flight = ring.flight /\ ring'.cq = ring.cq
    BY <2>1, <2>2, <2>3, <2>4, <2>6, Zenon DEF RingRecord
  <2>8. job' \in Tasked /\ job'[k][0] = rest /\ \A j \in Call : j # k => job'[j] = job[j]
    <3>1. job \in [Call -> [Shard -> Seq(Writer)]] /\ job' = [job EXCEPT ![k][0] = rest]
      BY <2>1, <2>2, <2>4, RingFacts DEF Tasked, rest
    <3> QED
      BY <2>4, <3>1, ShardZero DEF Tasked
  <2>9. /\ call' \in [Call -> CallRecord] /\ \A j \in Call : j # k => call'[j] = call[j]
        /\ call'[k].at = 1 /\ call'[k].pc = "open" /\ call'[k].err = call[k].err
    BY <2>1, <2>2, RingFacts, Zenon DEF CallRecord
  <2>w. WantOK'
    <3>1. Len(q) = Len(ring.sq) + n /\ Len(ring.sq) \in Nat
      <4>1. ring.sq \in Seq(Op)
        BY <2>1, RingFacts
      <4>2. Len(q) = Len(ring.sq) + Len(ops)
        BY <2>5, <4>1, <1>PublishedIs, Zenon DEF q
      <4> QED
        BY <2>5, <4>1, <4>2
    <3>2. n <= Len(q)
      BY <2>3, <3>1
    <3> QED
      BY <2>7, <3>2, Zenon DEF WantOK
  <2>10. RingTypes'
    BY <2>1, <2>2, <2>7, <2>8, <2>9, <2>w, RingFacts, <1>RingTypesStay
  <2>11. ASSUME ~past'.lapse PROVE RingOK' /\ (\A j \in Call : RingCall(j)') /\ (\A v \in Writer : IsInjective(got'[v]))
    <3>1. RingOK /\ (\A j \in Call : RingCall(j)) /\ (\A v \in Writer : IsInjective(got[v]))
      BY <2>11 DEF Rings
    <3>2. InRing = {} /\ ring.sq = <<>> /\ ring.flight = {} /\ ring.cq = <<>>
      BY <2>1, <2>2, <3>1, <1>FreeRing
    <3>3. q = ops
      BY <2>3, <2>5, <3>2, <1>PublishedIs DEF q
    <3>4. InRing' = Range(ops)
      BY <2>7, <3>2, <3>3 DEF InRing
    <3>5. IsInjective(s) /\ (\A w \in Waiting(k) : k \notin Range(got[w])) /\ owes[k] \subseteq Waiting(k)
          /\ (call[k].err <=> k \in past.failed)
      <4>1. RingCall(k) /\ held # k /\ call[k].err \in BOOLEAN
        BY <2>1, <2>2, <3>1, CallNotZero, RingFacts DEF CallRecord
      <4> QED
        BY <2>2, <4>1, Zenon DEF RingCall, s
    <3>6. /\ IsInjective(b) /\ IsInjective(rest) /\ Range(b) \cup Range(rest) = Range(s)
          /\ Range(b) \cap Range(rest) = {} /\ Range(b) \subseteq Writer
      <4>1. b = SubSeq(s, 1, n)
        BY DEF b, Batch, n, s
      <4> QED
        BY <2>1, <2>3, <2>4, <3>5, <4>1, <1>SplitSeq, RangeIs DEF rest
    <3>7. /\ IsInjective(ops) /\ \A op \in Range(ops) : op[1] = k /\ op[2] \in Range(b)
          /\ \A w : <<k, w>> \in Range(ops) <=> w \in Range(b)
      BY <2>4, <3>6, <1>BatchOps, Zenon DEF ops
    <3>8. RingOK'
      <4>1. \A op \in InRing' : op[1] = held' /\ op[2] \notin Range(job'[held'][0])
        BY <2>2, <2>8, <3>4, <3>6, <3>7, Zenon
      <4>2. IsInjective(ring'.sq) /\ ring'.want = Len(ring'.sq) /\ ring'.flight = {} /\ ring'.cq = <<>>
        BY <2>5, <2>7, <3>2, <3>3, <3>7
      <4>3. held' # 0 /\ call'[held'].pc = "open" /\ call'[held'].at = 1
        BY <2>2, <2>9 DEF Call
      <4> QED
        BY <4>1, <4>2, <4>3 DEF RingOK
    <3>9. ASSUME NEW j \in Call, j # k PROVE RingCall(j)'
      <4>1. \A w \in Writer : <<j, w>> \in InRing' <=> <<j, w>> \in InRing
        BY <3>2, <3>4, <3>7, <3>9
      <4>2. ~(held' = j /\ FALSE \in Range(ring'.cq)) /\ ~(held = j /\ FALSE \in Range(ring.cq))
        BY <2>2, <3>9, CallNotZero, Zenon
      <4> QED
        BY <3>1, <3>9, <4>1, <4>2, <2>1, <2>2, <2>8, <2>9, RingFacts, RangeIs, <1>OtherRingCall, Zenon
    <3>10. RingCall(k)'
      <4>1. Waiting(k)' = Waiting(k)
        <5>1. Waiting(k) = Range(s)
          BY <3>2 DEF Waiting, s
        <5>2. Waiting(k)' = Range(rest) \cup Range(b)
          BY <2>8, <3>4, <3>6, <3>7 DEF Waiting
        <5> QED
          BY <5>1, <5>2, <3>6
      <4>2. ~(held' = k /\ FALSE \in Range(ring'.cq))
        BY <2>7, <3>2, EmptyRange, Zenon
      <4>3. call'[k].pc # "new" /\ call'[k].pc # "returned" /\ IsInjective(job'[k][0])
        BY <2>8, <2>9, <3>6
      <4> QED
        BY <2>2, <2>9, <3>5, <4>1, <4>2, <4>3, Zenon DEF RingCall
    <3> QED
      BY <2>2, <3>1, <3>8, <3>9, <3>10
  <2> QED
    BY <2>10, <2>11 DEF Rings
\* What io_uring_enter takes of the submission queue, and what it leaves there.
<1>EnteredSeqs.
      ASSUME NEW T, NEW s \in Seq(T), NEW n \in Nat, n <= Len(s)
      PROVE  SubSeq(s, n + 1, Len(s)) \in Seq(T) /\ SubSeq(s, 1, n) \in Seq(T)
  <2> USE <1>EnteredSeqs
  <2> DEFINE L == Len(s)
  <2>1. L \in Nat /\ \A j \in 1 .. L : s[j] \in T
    OBVIOUS
  <2>2. SubSeq(s, 1, n) \in Seq(T)
    BY <2>1
  <2>3. SubSeq(s, n + 1, L) = [j \in 1 .. L - n |-> s[n + j]]
    BY <2>1
  <2>4. \A j \in 1 .. L - n : s[n + j] \in T
    BY <2>1
  <2> HIDE DEF L
  <2>5. SubSeq(s, n + 1, L) \in Seq(T)
    BY <2>1, <2>3, <2>4
  <2> QED
    BY <2>2, <2>5 DEF L
\* If as many entries are taken as there are, all are.
<1>WholeSeq.
      ASSUME NEW T, NEW s \in Seq(T)
      PROVE  SubSeq(s, 1, Len(s)) = s /\ SubSeq(s, Len(s) + 1, Len(s)) = <<>>
  BY <1>WholeSeq
\* io_uring_enter takes the entries: they are now in the kernel.
<1>RingEnterStep.
      ASSUME Rings, kind = "iouring", kind' = kind, NEW k \in Call, Enter(k)
      PROVE  Rings'
  <2> USE <1>RingEnterStep
  <2>1. RingTypes /\ ring \in RingRecord /\ ring.sq \in Seq(Op) /\ ring.want \in Nat /\ ring.flight \in SUBSET Op
        /\ call \in [Call -> CallRecord] /\ past \in PastRecord
    BY RingFacts DEF Rings
  <2>2. held = k /\ call[k].at = 1 /\ UNCHANGED <<slice, job, got, owes, may>>
    BY DEF Enter
  <2>3. CASE /\ ring' = [ring EXCEPT !.flight = @ \cup Range(SubSeq(ring.sq, 1, ring.want)),
                                     !.sq = SubSeq(@, ring.want + 1, Len(@))]
             /\ call' = [call EXCEPT ![k].at = 2]
             /\ UNCHANGED <<held, past>>
    <3> DEFINE a == SubSeq(ring.sq, 1, ring.want)
               f == ring.flight \cup Range(a)
               q == SubSeq(ring.sq, ring.want + 1, Len(ring.sq))
    <3>1. a \in Seq(Op) /\ q \in Seq(Op)
      <4>1. ring.want <= Len(ring.sq)
        BY <2>1, <2>2, CallNotZero, RingFacts DEF WantOK
      <4> QED
        BY <2>1, <4>1, <1>EnteredSeqs, Zenon
    <3>2. f \in SUBSET Op
      BY <2>1, <3>1, RangeIs, Zenon
    <3>3. ring' = [ring EXCEPT !.flight = f, !.sq = q]
      BY <2>3
    <3> HIDE DEF a, f, q
    <3>4. ring' \in RingRecord /\ ring'.sq = q /\ ring'.want = ring.want /\ ring'.flight = f /\ ring'.cq = ring.cq
      BY <2>1, <3>1, <3>2, <3>3, Zenon DEF RingRecord
    <3>5. /\ call' \in [Call -> CallRecord] /\ \A j \in Call : j # k => call'[j] = call[j]
          /\ call'[k].at = 2 /\ call'[k].pc = call[k].pc /\ call'[k].err = call[k].err
      BY <2>1, <2>3 DEF CallRecord
    <3>w. WantOK'
      BY <2>2, <2>3, <3>5 DEF WantOK
    <3>6. RingTypes'
      BY <2>1, <2>2, <2>3, <3>4, <3>5, <3>w, RingFacts, <1>RingTypesStay
    <3>7. ASSUME ~past'.lapse PROVE RingOK' /\ (\A j \in Call : RingCall(j)') /\ (\A v \in Writer : IsInjective(got'[v]))
      <4>1. RingOK /\ (\A j \in Call : RingCall(j)) /\ (\A v \in Writer : IsInjective(got[v]))
        BY <2>3, <3>7 DEF Rings
      <4>2. /\ IsInjective(ring.sq) /\ call[k].pc = "open" /\ ring.flight = {} /\ ring.cq = <<>> /\ ring.want = Len(ring.sq)
            /\ \A op \in InRing : op[1] = held /\ op[2] \notin Range(job[held][0])
        BY <2>2, <4>1, CallNotZero DEF RingOK
      <4>3. a = ring.sq /\ q = <<>>
        BY <2>1, <4>2, <1>WholeSeq DEF a, q
      <4>4. f = Range(ring.sq) /\ InRing' = InRing
        BY <3>4, <4>2, <4>3, EmptyRange DEF InRing, f
      <4>5. Numbers(f, Len(ring.sq)) /\ Len(ring.sq) \in Nat
        BY <2>1, <4>2, <4>4 DEF Numbers
      <4>6. Len(ring.sq) + Len(ring'.cq) = ring'.want
        <5>1. Len(ring'.cq) = 0
          BY <3>4, <4>2
        <5> QED
          BY <3>4, <4>2, <4>5, <5>1
      <4>7. RingOK'
        <5>1. held' = held /\ job' = job /\ held' # 0 /\ call'[held'].pc = "open" /\ call'[held'].at = 2
          BY <2>2, <2>3, <3>5, <4>2, CallNotZero
        <5>2. IsInjective(ring'.sq) /\ ring'.sq = <<>>
              /\ \E n \in Nat : Numbers(ring'.flight, n) /\ n + Len(ring'.cq) = ring'.want
          BY <3>4, <4>3, <4>5, <4>6, EmptyRange, Zenon
        <5> QED
          BY <4>2, <4>4, <5>1, <5>2 DEF RingOK
      <4>8. ASSUME NEW j \in Call PROVE RingCall(j)'
        <5>1. RingCall(j) /\ Waiting(j)' = Waiting(j) /\ call'[j].pc = call[j].pc /\ call'[j].err = call[j].err
          BY <2>2, <3>5, <4>1, <4>4, Zenon DEF Waiting
        <5> QED
          BY <2>2, <2>3, <3>4, <5>1, Zenon DEF RingCall
      <4> QED
        BY <2>2, <4>1, <4>7, <4>8
    <3> QED
      BY <3>6, <3>7 DEF Rings
  <2>4. CASE /\ past' = [past EXCEPT !.fails = @ + 1, !.lapse = TRUE]
             /\ call' = [call EXCEPT ![k].at = 0, ![k].err = TRUE]
             /\ held' = 0
             /\ UNCHANGED ring
    <3>1. past' \in PastRecord /\ past'.lapse /\ past'.panicked = past.panicked
      BY <2>1, <2>4, PastStep, Zenon
    <3>2. call' \in [Call -> CallRecord]
      BY <2>1, <2>4, ZenonT(30) DEF CallRecord
    <3>w. WantOK'
      BY <2>4 DEF WantOK
    <3>3. RingTypes'
      BY <2>1, <2>2, <2>4, <3>1, <3>2, <3>w, RingFacts, <1>RingTypesStay
    <3> QED
      BY <3>1, <3>3 DEF Rings
  <2> QED
    BY <2>3, <2>4 DEF Enter
\* The kernel completes a write of the call that holds the ring: the writer, which
\* the call waits for no more, got the message now or has refused it.
<1>RingCompleteStep.
      ASSUME Rings, kind = "iouring", kind' = kind, Complete
      PROVE  Rings'
  <2> USE <1>RingCompleteStep
  <2>1. RingTypes /\ ring \in RingRecord /\ ring.flight \in SUBSET Op /\ ring.cq \in Seq(BOOLEAN) /\ ring.sq \in Seq(Op)
        /\ call \in [Call -> CallRecord] /\ past \in PastRecord /\ got \in [Writer -> Seq(Call)]
        /\ owes \in [Call -> SUBSET Writer]
    BY RingFacts DEF Rings
  <2>2. PICK op \in ring.flight, ok \in BOOLEAN :
          /\ IF ok THEN Succeeds(op[1], op[2]) ELSE Fails(op[1], op[2])
          /\ ring' = [ring EXCEPT !.flight = @ \ {op}, !.cq = Append(@, ok)]
          /\ UNCHANGED <<slice, call, job, held, may>>
    BY Zenon DEF Complete
  <2>3. PICK k \in Call, w \in Writer : op = <<k, w>> /\ k = op[1] /\ w = op[2]
    BY <2>1, <2>2, <1>OpIs
  <2> DEFINE f == ring.flight \ {op}
             c == Append(ring.cq, ok)
  <2>4. f \in SUBSET Op /\ c \in Seq(BOOLEAN) /\ Range(c) = Range(ring.cq) \cup {ok} /\ Len(c) = Len(ring.cq) + 1
        /\ Len(ring.cq) \in Nat
    BY <2>1, <2>2, RangeAppend
  <2>5. ring' = [ring EXCEPT !.flight = f, !.cq = c]
    BY <2>2
  <2> HIDE DEF f, c
  <2>6. ring' \in RingRecord /\ ring'.sq = ring.sq /\ ring'.want = ring.want /\ ring'.flight = f /\ ring'.cq = c
    BY <2>1, <2>4, <2>5, Zenon DEF RingRecord
  <2>7. /\ owes' \in [Call -> SUBSET Writer] /\ owes'[k] = owes[k] \ {w} /\ \A j \in Call : j # k => owes'[j] = owes[j]
    <3>1. owes' = [owes EXCEPT ![k] = @ \ {w}]
      BY <2>2, <2>3 DEF Succeeds, Fails
    <3> QED
      BY <2>1, <3>1
  <2>8. /\ got' \in [Writer -> Seq(Call)] /\ \A v \in Writer : v # w => got'[v] = got[v]
        /\ got'[w] = IF ok THEN Append(got[w], k) ELSE got[w]
    <3>1. got' = [got EXCEPT ![w] = IF ok THEN Append(@, k) ELSE @]
      BY <2>1, <2>2, <2>3 DEF Succeeds, Fails
    <3>2. (IF ok THEN Append(got[w], k) ELSE got[w]) \in Seq(Call)
      BY <2>1, AppendTyped
    <3> QED
      BY <2>1, <3>1, <3>2
  <2>9. /\ past' \in PastRecord /\ past'.failed = (IF ok THEN past.failed ELSE past.failed \cup {k})
        /\ past'.lapse = past.lapse /\ past'.panicked = past.panicked
    BY <2>1, <2>2, <2>3, PastStep, Zenon DEF Succeeds, Fails
  <2>w. WantOK'
    BY <2>1, <2>2, <2>6, RingFacts, Zenon DEF WantOK
  <2>10. RingTypes'
    BY <2>1, <2>2, <2>6, <2>7, <2>8, <2>9, <2>w, RingFacts, <1>RingTypesStay, Zenon
  <2>11. ASSUME ~past'.lapse PROVE RingOK' /\ (\A j \in Call : RingCall(j)') /\ (\A v \in Writer : IsInjective(got'[v]))
    <3>1. RingOK /\ (\A j \in Call : RingCall(j)) /\ (\A v \in Writer : IsInjective(got[v]))
      BY <2>9, <2>11 DEF Rings
    <3>2. op \in InRing /\ held = k /\ k # 0
      BY <2>2, <2>3, <3>1, CallNotZero DEF InRing, RingOK
    <3>3. call[k].pc = "open" /\ call[k].at = 2 /\ ring.sq = <<>>
          /\ \E n \in Nat : Numbers(ring.flight, n) /\ n + Len(ring.cq) = ring.want
      BY <2>2, <3>1, <3>2 DEF RingOK
    <3>4. InRing = ring.flight /\ InRing' = f
      BY <2>6, <3>3, EmptyRange DEF InRing
    <3>5. /\ w \in Waiting(k) /\ w \notin Range(job[k][0]) /\ Waiting(k)' = Waiting(k) \ {w}
          /\ Range(job[k][0]) \subseteq Writer
      <4>1. w \in Waiting(k)
        BY <2>3, <3>2 DEF Waiting
      <4>2. w \notin Range(job[k][0])
        BY <2>3, <3>1, <3>2 DEF RingOK
      <4>3. \A v : <<k, v>> \in InRing' <=> <<k, v>> \in InRing /\ v # w
        BY <2>3, <3>4, Zenon DEF f
      <4>4. Range(job[k][0]) \subseteq Writer
        BY <2>1, RingFacts, RangeIs
      <4> QED
        BY <2>2, <4>1, <4>2, <4>3, <4>4 DEF Waiting
    <3>6. k \notin Range(got[w])
      BY <3>1, <3>5, Zenon DEF RingCall
    <3>7. /\ \A v \in Writer : IsInjective(got'[v])
          /\ \A v \in Writer : Range(got'[v]) = Range(got[v]) \cup (IF v = w /\ ok THEN {k} ELSE {})
      <4>1. got[w] \in Seq(Call) /\ IsInjective(got[w])
        BY <2>1, <3>1
      <4>2. IsInjective(Append(got[w], k)) /\ Range(Append(got[w], k)) = Range(got[w]) \cup {k}
        BY <4>1, <3>6, RangeAppend, Zenon
      <4> QED
        BY <2>8, <3>1, <4>1, <4>2, Zenon
    <3>8. RingOK'
      <4>0. PICK n \in Nat : Numbers(ring.flight, n) /\ n + Len(ring.cq) = ring.want
        BY <3>3
      <4>1. f \subseteq ring.flight /\ n - 1 \in Nat /\ Numbers(f, n - 1)
        BY <2>2, <4>0, <1>OneFewer DEF f
      <4>2. \E m \in Nat : Numbers(f, m) /\ m + Len(c) = ring'.want
        <5>1. n - 1 + Len(c) = ring'.want
          BY <2>4, <2>6, <4>0
        <5> QED
          BY <4>1, <5>1, Zenon
      <4>3. \A o \in InRing' : o[1] = held' /\ o[2] \notin Range(job'[held'][0])
        BY <2>2, <3>1, <3>4, <4>1 DEF RingOK
      <4>4. held' # 0 /\ call'[held'].pc = "open" /\ call'[held'].at = 2
        BY <2>2, <3>2, <3>3
      <4>5. IsInjective(ring'.sq) /\ ring'.sq = <<>>
        BY <2>6, <3>3, EmptyRange
      <4> QED
        BY <2>6, <4>1, <4>2, <4>3, <4>4, <4>5 DEF RingOK
    <3>9. ASSUME NEW j \in Call, j # k PROVE RingCall(j)'
      <4>1. \A v \in Writer : <<j, v>> \in InRing' <=> <<j, v>> \in InRing
        BY <2>3, <3>4, <3>9 DEF f
      <4>2. \A v \in Writer : j \in Range(got'[v]) <=> j \in Range(got[v])
        BY <3>7, <3>9
      <4>3. j \in past'.failed <=> j \in past.failed
        BY <2>9, <3>9
      <4>4. held' # j /\ held # j
        BY <2>2, <3>2, <3>9, Zenon
      <4>5. Range(job[j][0]) \subseteq Writer
        BY <2>1, RingFacts, RangeIs
      <4> QED
        BY <2>2, <2>7, <3>1, <3>9, <4>1, <4>2, <4>3, <4>4, <4>5, <1>OtherRingCall, Zenon
    <3>10. RingCall(k)'
      <4>1. RingCall(k)
        BY <3>1
      <4>2. IsInjective(job'[k][0]) /\ call'[k].pc # "new" /\ call'[k].pc # "returned"
        BY <2>2, <3>3, <4>1, Zenon DEF RingCall
      <4>3. owes'[k] \subseteq Waiting(k)'
        BY <2>7, <3>3, <3>5, <4>1 DEF RingCall
      <4>4. \A v \in Waiting(k)' : k \notin Range(got'[v])
        <5>1. Waiting(k) \subseteq Writer
          BY <3>5 DEF Waiting
        <5> QED
          BY <3>5, <3>7, <4>1, <5>1, Zenon DEF RingCall
      <4>5. call[k].err \/ FALSE \in Range(ring.cq) <=> k \in past.failed
        BY <3>2, <4>1, Zenon DEF RingCall
      <4>6. call'[k].err \/ (held' = k /\ FALSE \in Range(ring'.cq)) <=> k \in past'.failed
        <5>1. CASE ok
          <6>1. FALSE \in Range(c) <=> FALSE \in Range(ring.cq)
            BY <2>4, <5>1
          <6> QED
            BY <2>2, <2>6, <2>9, <3>2, <4>5, <5>1, <6>1, Zenon
        <5>2. CASE ~ok
          <6>1. FALSE \in Range(c) /\ k \in past'.failed
            BY <2>4, <2>9, <5>2, Zenon
          <6> QED
            BY <2>2, <2>6, <3>2, <6>1, Zenon
        <5> QED
          BY <5>1, <5>2, Zenon
      <4> QED
        BY <4>2, <4>3, <4>4, <4>6, Zenon DEF RingCall
    <3> QED
      BY <3>7, <3>8, <3>9, <3>10
  <2> QED
    BY <2>10, <2>11 DEF Rings
\* The call has its completions, an error among them included, and lets the ring go.
<1>RingDrainStep.
      ASSUME Rings, kind = "iouring", kind' = kind, NEW k \in Call, Drain(k)
      PROVE  Rings'
  <2> USE <1>RingDrainStep
  <2>1. RingTypes /\ ring \in RingRecord /\ ring.flight \in SUBSET Op /\ ring.cq \in Seq(BOOLEAN) /\ ring.sq \in Seq(Op)
        /\ call \in [Call -> CallRecord] /\ past \in PastRecord /\ ring.want \in Nat
    BY RingFacts DEF Rings
  <2>2. /\ held = k /\ call[k].at = 2 /\ held' = 0 /\ UNCHANGED <<slice, job, got, owes, may>>
        /\ ring' = [ring EXCEPT !.cq = <<>>, !.want = 0]
    BY DEF Drain
  <2>3. ring' \in RingRecord /\ ring'.sq = ring.sq /\ ring'.flight = ring.flight /\ ring'.cq = <<>>
    <3>1. PICK c \in Seq(BOOLEAN) : c = <<>>
      BY EmptyRange, Zenon
    <3>2. ring' = [ring EXCEPT !.cq = c, !.want = 0]
      BY <2>2, <3>1
    <3>3. ring' \in RingRecord /\ ring'.sq = ring.sq /\ ring'.flight = ring.flight /\ ring'.cq = c
      BY <2>1, <3>2, Zenon DEF RingRecord
    <3> QED
      BY <3>1, <3>3
  <2>4. /\ call' \in [Call -> CallRecord] /\ \A j \in Call : j # k => call'[j] = call[j]
        /\ call'[k].pc = call[k].pc /\ (call'[k].err <=> call[k].err \/ FALSE \in Range(ring.cq))
    <3> DEFINE e == call[k].err \/ FALSE \in Range(ring.cq)
    <3>1. call' = [call EXCEPT ![k] = [call[k] EXCEPT !.at = 0, !.err = e]] /\ e \in BOOLEAN
      BY <2>1, Zenon DEF Drain
    <3> HIDE DEF e
    <3>2. /\ [call[k] EXCEPT !.at = 0, !.err = e] \in CallRecord /\ [call[k] EXCEPT !.at = 0, !.err = e].err = e
          /\ [call[k] EXCEPT !.at = 0, !.err = e].pc = call[k].pc
      BY <2>1, <3>1, Zenon DEF CallRecord
    <3>3. call'[k].err = e /\ call'[k].pc = call[k].pc /\ call' \in [Call -> CallRecord]
          /\ \A j \in Call : j # k => call'[j] = call[j]
      BY <2>1, <3>1, <3>2, Zenon
    <3> QED
      BY <3>3, Zenon DEF e
  <2>w. WantOK'
    BY <2>2 DEF WantOK
  <2>5. CASE Arrived /\ UNCHANGED past
    <3>1. RingTypes'
      BY <2>1, <2>2, <2>3, <2>4, <2>5, <2>w, RingFacts, <1>RingTypesStay
    <3>2. ASSUME ~past'.lapse PROVE RingOK' /\ (\A j \in Call : RingCall(j)') /\ (\A v \in Writer : IsInjective(got'[v]))
      <4>1. RingOK /\ (\A j \in Call : RingCall(j)) /\ (\A v \in Writer : IsInjective(got[v]))
        BY <2>5, <3>2 DEF Rings
      <4>2. ring.sq = <<>> /\ \E n \in Nat : Numbers(ring.flight, n) /\ n + Len(ring.cq) = ring.want
        BY <2>2, <4>1, CallNotZero DEF RingOK
      <4>3. ring.flight = {}
        <5>1. PICK n \in Nat : Numbers(ring.flight, n) /\ n + Len(ring.cq) = ring.want
          BY <4>2
        <5>2. n = 0
          BY <2>1, <2>5, <5>1 DEF Arrived
        <5>3. PICK q \in Seq(Op) : Range(q) = ring.flight /\ Len(q) = n
          BY <5>1 DEF Numbers
        <5>4. Range(q) = {q[j] : j \in 1 .. Len(q)}
          BY RangeIs, Zenon
        <5>5. 1 .. Len(q) = {}
          BY <5>2, <5>3
        <5> QED
          BY <5>3, <5>4, <5>5, Zenon
      <4>4. InRing = {} /\ InRing' = {}
        BY <2>3, <4>2, <4>3, EmptyRange DEF InRing
      <4>5. RingOK'
        BY <2>2, <2>3, <4>2, <4>4, EmptyRange DEF RingOK
      <4>6. ASSUME NEW j \in Call PROVE RingCall(j)'
        <5>0. RingCall(j)
          BY <4>1
        <5>1. Waiting(j)' = Waiting(j) /\ call'[j].pc = call[j].pc
          BY <2>2, <2>4, <4>4 DEF Waiting
        <5>2. call[j].err \/ (held = j /\ FALSE \in Range(ring.cq)) <=> j \in past.failed
          BY <5>0, Zenon DEF RingCall
        <5>3. call'[j].err \/ (held' = j /\ FALSE \in Range(ring'.cq)) <=> j \in past'.failed
          <6>1. held' # j
            BY <2>2, CallNotZero
          <6>2. CASE j = k
            BY <2>2, <2>4, <2>5, <5>2, <6>1, <6>2, Zenon
          <6>3. CASE j # k
            BY <2>2, <2>4, <2>5, <5>2, <6>1, <6>3, Zenon
          <6> QED
            BY <6>2, <6>3, Zenon
        <5> QED
          BY <2>2, <5>0, <5>1, <5>3, Zenon DEF RingCall
      <4> QED
        BY <2>2, <4>1, <4>5, <4>6
    <3> QED
      BY <3>1, <3>2 DEF Rings
  <2>6. CASE past' = [past EXCEPT !.fails = @ + 1, !.lapse = TRUE]
    <3>1. past' \in PastRecord /\ past'.lapse /\ past'.panicked = past.panicked
      BY <2>1, <2>6, PastStep, Zenon
    <3>2. held' \in Call \cup {0} /\ job' \in Tasked /\ owes' \in [Call -> SUBSET Writer] /\ may' \in [Call -> SUBSET Writer]
          /\ got' \in [Writer -> Seq(Call)]
      BY <2>1, <2>2, RingFacts
    <3>3. RingTypes'
      BY <2>1, <2>2, <2>3, <2>4, <3>1, <3>2, <2>w, <1>RingTypesStay
    <3> QED
      BY <3>1, <3>3 DEF Rings
  <2> QED
    BY <2>5, <2>6, Zenon DEF Drain
\* Steps that leave alone what the invariant is about.
<1>RingStutter.
      ASSUME Rings, UNCHANGED fanout
      PROVE  Rings'
  <2> USE <1>RingStutter
  <2>0. UNCHANGED <<kind, slice, call, job, held, ring, got, owes, may, past>>
    BY DEF fanout, state, log
  <2>1. RingTypes
    BY Zenon DEF Rings
  <2>w. WantOK'
    BY <2>0, <2>1, RingFacts, Zenon DEF WantOK
  <2>2. RingTypes'
    BY <2>0, <2>1, <2>w, RingFacts, <1>RingTypesStay
  <2>3. InRing' = InRing
    BY <2>0 DEF InRing
  <2>4. \A k \in Call : Waiting(k)' = Waiting(k)
    BY <2>0, <2>3, Zenon DEF Waiting
  <2>5. RingOK => RingOK'
    BY <2>0, <2>3 DEF RingOK
  <2>6. \A k \in Call : RingCall(k) => RingCall(k)'
    BY <2>0, <2>4, Zenon DEF RingCall
  <2> QED
    BY <2>0, <2>2, <2>5, <2>6 DEF Rings
\* The invariant holds at first.
<1>RingInit. ASSUME FanoutInit PROVE Rings
  <2> USE <1>RingInit
  <2>1. BaseOK
    BY BaseInit
  <2>2. /\ \A k \in Call : call[k] = NewCall /\ owes[k] = {} /\ job[k] = [i \in Shard |-> <<>>]
        /\ \A w \in Writer : got[w] = <<>> /\ Range(got[w]) = {} /\ IsInjective(got[w])
        /\ held = 0 /\ ring = [sq |-> <<>>, flight |-> {}, cq |-> <<>>, want |-> 0]
        /\ ~past.panicked /\ past.failed = {}
    BY EmptyRange, Zenon DEF FanoutInit
  <2>3. job \in Tasked /\ \A k \in Call : job[k][0] = <<>>
    <3>1. <<>> \in Seq(Writer)
      BY EmptyRange
    <3> QED
      BY <2>2, <3>1, ShardZero, Zenon DEF FanoutInit, Tasked
  <2>4. ring \in RingRecord /\ ring.sq = <<>> /\ ring.flight = {} /\ ring.cq = <<>>
    BY <2>2 DEF RingRecord
  <2>5. InRing = {}
    BY <2>4, EmptyRange, Zenon DEF InRing
  <2>6. RingTypes
    BY <2>1, <2>2, <2>3, <2>4, Zenon DEF RingTypes, WantOK
  <2>7. RingOK
    BY <2>2, <2>4, <2>5, EmptyRange DEF RingOK
  <2>8. ASSUME NEW k \in Call PROVE RingCall(k)
    <3>1. call[k].pc = "new" /\ ~call[k].err
      BY <2>2 DEF NewCall
    <3>2. held # k
      BY <2>2, CallNotZero, Zenon
    <3>3. Waiting(k) = {}
      BY <2>3, <2>5, EmptyRange DEF Waiting
    <3> QED
      BY <2>2, <2>3, <3>1, <3>2, <3>3, EmptyRange, Zenon DEF RingCall
  <2> QED
    BY <2>2, <2>6, <2>7, <2>8 DEF Rings
\* Every step of the io_uring broadcaster preserves the invariant.
<1>RingStep.
      ASSUME Rings, kind = "iouring", kind' = kind, RingNext
      PROVE  Rings'
  <2> USE <1>RingStep
  <2>1. ASSUME NEW w \in Writer, RingAdd(w) PROVE Rings'
    BY <2>1, <1>RingAddStep DEF RingAdd
  <2>2. ASSUME NEW w \in Writer, RingRemove(w) PROVE Rings'
    BY <2>2, <1>RingRemoveStep DEF RingRemove
  <2>3. ASSUME NEW k \in Call, RingBroadcast(k) PROVE Rings'
    <3>1. CASE /\ Begin(k)
               /\ call' = [call EXCEPT ![k].pc = "open"]
               /\ job' = [job EXCEPT ![k][0] = Elements(slice[0])]
               /\ UNCHANGED <<slice, held, ring, got, past>>
      BY <3>1, <1>RingBeginStep, Zenon
    <3>2. CASE Fill(k) /\ UNCHANGED past
      BY <3>2, <1>RingFillStep
    <3>3. CASE Enter(k)
      BY <3>3, <1>RingEnterStep
    <3>4. CASE Drain(k)
      BY <3>4, <1>RingDrainStep
    <3>5. CASE /\ call[k].pc = "open" /\ job[k][0] = <<>> /\ held # k
               /\ call' = Returned(k, call[k].err)
               /\ UNCHANGED <<slice, job, held, ring, got, owes, may, past>>
      BY <3>5, <1>RingReturnStep
    <3>6. Fill(k) => UNCHANGED past
      BY DEF Fill, log
    <3> QED
      BY <2>3, <3>1, <3>2, <3>3, <3>4, <3>5, <3>6, Zenon DEF RingBroadcast, log
  <2>4. ASSUME Kernel PROVE Rings'
    BY <2>4, <1>RingCompleteStep DEF Kernel
  <2> QED
    BY <2>1, <2>2, <2>3, <2>4 DEF RingNext
<1>1. FanoutInit => RingInv
  BY <1>RingInit DEF RingInv
<1>2. RingInv /\ [FanoutNext]_fanout => RingInv'
  <2> SUFFICES ASSUME RingInv, [FanoutNext]_fanout, kind' = "iouring" PROVE Rings'
    BY DEF RingInv
  <2>1. kind' = kind /\ Rings /\ (UNCHANGED fanout \/ RingNext)
    BY StrategySteps DEF RingInv
  <2> QED
    BY <2>1, <1>RingStutter, <1>RingStep
<1> QED
  BY <1>1, <1>2, PTL DEF FanoutSpec

\* An error is returned exactly by the calls one of whose writes failed, in the naive
\* broadcaster, in the worker pool, whose tasks report to the call, and in io_uring,
\* where a completion carries it: ErrorsAreOwn, for every number of calls and writers.
THEOREM ErrorsAreTheCalls == FanoutSpec => []ErrorsAreOwn
<1>1. SyncInv /\ RingInv => ErrorsAreOwn
  <2> SUFFICES ASSUME SyncInv, RingInv, kind \in {"naive", "workerpool", "iouring"}, ~past.lapse,
                      NEW k \in Call, call[k].pc = "returned"
               PROVE  call[k].err <=> k \in past.failed
    BY DEF ErrorsAreOwn
  <2>1. CASE kind \in Synchronous
    BY <2>1 DEF SyncInv, Syncs, SyncCall
  <2>2. CASE kind = "iouring"
    <3>1. RingTypes /\ RingOK /\ RingCall(k)
      BY <2>2 DEF RingInv, Rings
    <3>2. held # k
      BY <3>1, CallNotZero, Zenon DEF RingOK
    <3>3. call[k].err \in BOOLEAN
      BY <3>1, RingFacts DEF CallRecord
    <3> QED
      BY <3>1, <3>2, <3>3, Zenon DEF RingCall
  <2> QED
    BY <2>1, <2>2 DEF Synchronous
<1> QED
  BY <1>1, SyncInvariance, RingInvariance, PTL

-----------------------------------------------------------------------------
(* The messages of the epoll broadcaster                                    *)

\* Worker x has message k to write to writer w.
Flushing(x, k, w) == wkr[x].w = w /\ k \in Range(wkr[x].queue)

\* Message k is in the queue of writer w, or a worker has it.
Queued(k, w) == k \in Range(conn[w].pending) \/ \E x \in Worker : Flushing(x, k, w)

\* Range has come to writer w in call k.
Visited(k, w) == call[k].pc = "returned" \/ (call[k].pc = "open" /\ w \in call[k].seen)

\* A message comes to a writer that its call has visited: it is in the queue, then
\* with one worker, and then with the writer.
Placed(k, w) ==
    /\ Queued(k, w) \/ k \in Range(got[w]) => Visited(k, w)
    /\ k \in Range(got[w]) => ~Queued(k, w)
    /\ \A x \in Worker : Flushing(x, k, w) =>
          k \notin Range(conn[w].pending) /\ \A y \in Worker : Flushing(y, k, w) => y = x

EpollCall(k) ==
    /\ owes[k] \subseteq Registered
    /\ call[k].pc = "new" => call[k].seen = {}
    /\ \A w \in owes[k] : Visited(k, w) => Queued(k, w)

Distinct ==
    /\ \A w \in Writer : IsInjective(got[w]) /\ IsInjective(conn[w].pending)
    /\ \A x \in Worker : IsInjective(wkr[x].queue)

Epolls ==
    /\ BaseOK /\ ~past.panicked
    /\ Distinct
    /\ \A k \in Call, w \in Writer : Placed(k, w)
    /\ \A k \in Call : EpollCall(k)

EpollInv == kind = "epoll" => Epolls

-----------------------------------------------------------------------------
(* The steps of the epoll broadcaster                                       *)

\* The inductive invariant of the messages of the epoll broadcaster: a message comes
\* only to connections that its call has visited, is in the queue of a connection, with
\* one worker or with the writer, and never in two of these; what a call has visited
\* and owes is in the queue or with a worker.
THEOREM EpollInvariance == FanoutSpec => []EpollInv
\* What the two invariants say, one by one.
<1>EpollFacts.
      ASSUME Wakes, Epolls
      PROVE  /\ SlicesOK /\ slice \in [Shard -> Slice] /\ call \in [Call -> CallRecord]
             /\ owes \in [Call -> SUBSET Writer] /\ may \in [Call -> SUBSET Writer]
             /\ got \in [Writer -> Seq(Call)] /\ past \in PastRecord
             /\ conn \in Queues /\ \A w \in Writer : conn[w].pending \in Seq(Call)
             /\ wkr \in [Worker -> WorkerRecord]
             /\ \A x \in Worker : wkr[x].queue \in Seq(Call) /\ (wkr[x].queue # <<>> => wkr[x].w \in Writer)
             /\ Registered \subseteq Writer
             /\ Distinct
             /\ \A k \in Call, w \in Writer : Placed(k, w)
             /\ \A k \in Call : EpollCall(k)
  <2> USE <1>EpollFacts
  <2>1. conn \in Queues /\ wkr \in [Worker -> WorkerRecord]
    BY WakesFacts
  <2>2. BaseOK /\ Distinct /\ (\A k \in Call, w \in Writer : Placed(k, w)) /\ \A k \in Call : EpollCall(k)
    BY DEF Epolls
  <2>3. /\ SlicesOK /\ slice \in [Shard -> Slice] /\ call \in [Call -> CallRecord]
        /\ owes \in [Call -> SUBSET Writer] /\ may \in [Call -> SUBSET Writer]
        /\ got \in [Writer -> Seq(Call)] /\ past \in PastRecord
    BY <2>2 DEF BaseOK, SlicesOK
  <2>4. \A w \in Writer : conn[w].pending \in Seq(Call)
    BY <2>1 DEF Queues
  <2>5. \A x \in Worker : wkr[x].queue \in Seq(Call) /\ (wkr[x].queue # <<>> => wkr[x].w \in Writer)
    BY <2>1 DEF WorkerRecord
  <2>6. Registered \subseteq Writer
    BY <2>3, RegisteredHeld
  <2> QED
    BY <2>1, <2>2, <2>3, <2>4, <2>5, <2>6, Zenon
\* A writer to whom nothing new comes.
<1>PlacedFrame.
      ASSUME NEW k \in Call, NEW w \in Writer, Placed(k, w),
             k \in Range(got'[w]) => k \in Range(got[w]),
             k \in Range(conn'[w].pending) => k \in Range(conn[w].pending),
             \A x \in Worker : Flushing(x, k, w)' => Flushing(x, k, w),
             Visited(k, w) => Visited(k, w)'
      PROVE  Placed(k, w)'
  <2> USE <1>PlacedFrame
  <2>1. Queued(k, w)' => Queued(k, w)
    BY DEF Queued
  <2> QED
    BY <2>1, Zenon DEF Placed
\* What a call owes stays in the queues.
<1>EpollCallFrame.
      ASSUME NEW k \in Call, EpollCall(k), owes'[k] \subseteq owes[k], owes'[k] \subseteq Registered',
             call'[k].pc = "new" => call[k].pc = "new" /\ call'[k].seen = call[k].seen,
             \A w \in owes'[k] : (Visited(k, w)' => Visited(k, w)) /\ (Queued(k, w) => Queued(k, w)')
      PROVE  EpollCall(k)'
  BY <1>EpollCallFrame, Zenon DEF EpollCall
\* The types, while the slices stay.
<1>EpollBase.
      ASSUME Wakes, Epolls, Wakes', kind' = kind, slice' = slice,
             owes' \in [Call -> SUBSET Writer], may' \in [Call -> SUBSET Writer], got' \in [Writer -> Seq(Call)],
             past' \in PastRecord
      PROVE  BaseOK' /\ Registered' = Registered
  <2> USE <1>EpollBase
  <2>1. SlicesOK'
    BY <1>EpollFacts, Zenon DEF SlicesOK, Home
  <2>2. call' \in [Call -> CallRecord]
    BY DEF Wakes, EpollTypeOK
  <2> QED
    BY <2>1, <2>2, SameRegistered DEF BaseOK
\* A connection that joins has an empty queue.
<1>EpollAddStep.
      ASSUME Wakes, Epolls, Wakes', kind = "epoll", kind' = kind, NEW w \in Writer, Join(w, 0),
             conn' = [conn EXCEPT ![w] = [pending |-> <<>>, armed |-> TRUE]],
             UNCHANGED <<call, wkr, got, past>>
      PROVE  Epolls'
  <2> USE <1>EpollAddStep
  <2>1. w \notin Registered /\ slice' = [slice EXCEPT ![Home(w)] = Appended(@, w)]
        /\ owes' = owes /\ may' = [k \in Call |-> IF k \in Open /\ kind \in Synchronous THEN may[k] \cup {w} ELSE may[k]]
    BY DEF Join, Home
  <2>2. SlicesOK' /\ Registered' = Registered \cup {w} /\ may' \in [Call -> SUBSET Writer]
    BY <2>1, <1>EpollFacts, SlicesJoin, Zenon
  <2>3. BaseOK' /\ ~past'.panicked
    BY <2>1, <2>2, <1>EpollFacts, Zenon DEF BaseOK, Epolls
  <2>4. conn'[w].pending = <<>> /\ \A v \in Writer : v # w => conn'[v] = conn[v]
    BY <1>EpollFacts DEF Queues
  <2>5. Distinct'
    BY <2>4, <1>EpollFacts, EmptyRange, Zenon DEF Distinct
  <2>6. ASSUME NEW k \in Call, NEW v \in Writer PROVE Placed(k, v)'
    <3>1. k \in Range(conn'[v].pending) => k \in Range(conn[v].pending)
      BY <2>4, EmptyRange, Zenon
    <3>2. (\A x \in Worker : Flushing(x, k, v)' => Flushing(x, k, v)) /\ (Visited(k, v) => Visited(k, v)')
      BY DEF Flushing, Visited
    <3> QED
      BY <3>1, <3>2, <1>EpollFacts, <1>PlacedFrame, Zenon
  <2>7. ASSUME NEW k \in Call PROVE EpollCall(k)'
    <3>1. EpollCall(k) /\ owes'[k] = owes[k] /\ owes[k] \subseteq Registered
      BY <2>1, <1>EpollFacts, Zenon DEF EpollCall
    <3>2. ASSUME NEW v \in owes[k] PROVE (Visited(k, v)' => Visited(k, v)) /\ (Queued(k, v) => Queued(k, v)')
      <4>1. v # w /\ v \in Writer
        BY <2>1, <3>1, <1>EpollFacts, Zenon
      <4> QED
        BY <2>4, <4>1, Zenon DEF Visited, Queued, Flushing
    <3> QED
      BY <2>2, <3>1, <3>2, <1>EpollCallFrame, Zenon
  <2> QED
    BY <2>3, <2>5, <2>6, <2>7 DEF Epolls
\* A connection that leaves is owed nothing any more.
<1>EpollLeaveStep.
      ASSUME Wakes, Epolls, Wakes', kind = "epoll", kind' = kind, NEW w \in Writer,
             slice' = [slice EXCEPT ![0] = SwapDeleted(@, w)], owes' = [k \in Call |-> owes[k] \ {w}],
             conn' = [conn EXCEPT ![w] = [pending |-> <<>>, armed |-> FALSE]],
             past' \in PastRecord, past'.panicked = past.panicked, UNCHANGED <<call, got, may>>,
             \A x \in Worker : IsInjective(wkr'[x].queue),
             \A x \in Worker, k \in Call, v \in Writer : Flushing(x, k, v)' => Flushing(x, k, v),
             \A x \in Worker, k \in Call, v \in Writer : v # w /\ Flushing(x, k, v) => Flushing(x, k, v)'
      PROVE  Epolls'
  <2> USE <1>EpollLeaveStep
  <2>1. Home(w) = 0
    BY DEF Home
  <2>2. SlicesOK' /\ Registered' = Registered \ {w}
    BY <2>1, <1>EpollFacts, SlicesLeave, Zenon
  <2>3. owes' \in [Call -> SUBSET Writer] /\ \A k \in Call : owes'[k] = owes[k] \ {w}
    BY <1>EpollFacts, Zenon
  <2>b. BaseOK' /\ ~past'.panicked
    BY <2>2, <2>3, <1>EpollFacts, Zenon DEF BaseOK, Epolls
  <2>4. conn'[w].pending = <<>> /\ \A v \in Writer : v # w => conn'[v] = conn[v]
    BY <1>EpollFacts, Zenon DEF Queues
  <2>5. Distinct'
    BY <2>4, <1>EpollFacts, EmptyRange, Zenon DEF Distinct
  <2>6. ASSUME NEW k \in Call, NEW v \in Writer PROVE Placed(k, v)'
    <3>1. k \in Range(conn'[v].pending) => k \in Range(conn[v].pending)
      BY <2>4, EmptyRange, Zenon
    <3>2. Visited(k, v) => Visited(k, v)'
      BY DEF Visited
    <3> QED
      BY <3>1, <3>2, <1>EpollFacts, <1>PlacedFrame, Zenon
  <2>7. ASSUME NEW k \in Call PROVE EpollCall(k)'
    <3>1. EpollCall(k) /\ owes'[k] = owes[k] \ {w} /\ owes[k] \subseteq Registered
      BY <2>3, <1>EpollFacts, Zenon DEF EpollCall
    <3>2. ASSUME NEW v \in owes'[k] PROVE (Visited(k, v)' => Visited(k, v)) /\ (Queued(k, v) => Queued(k, v)')
      <4>1. v # w /\ v \in Writer
        BY <3>1, <1>EpollFacts, Zenon
      <4> QED
        BY <2>4, <4>1, Zenon DEF Visited, Queued
    <3> QED
      BY <2>2, <3>1, <3>2, <1>EpollCallFrame, Zenon
  <2> QED
    BY <2>b, <2>5, <2>6, <2>7, Zenon DEF Epolls
\* Steps that move no message: an event is armed or taken, a worker ends.
<1>EpollQuietStep.
      ASSUME Wakes, Epolls, Wakes', kind' = kind, UNCHANGED <<slice, owes, may, got, past>>,
             \A w \in Writer : conn'[w].pending = conn[w].pending,
             \A x \in Worker : wkr'[x].queue = wkr[x].queue /\ wkr'[x].w = wkr[x].w,
             \A k \in Call : call'[k].pc = call[k].pc /\ call'[k].seen = call[k].seen
      PROVE  Epolls'
  <2> USE <1>EpollQuietStep
  <2>1. BaseOK' /\ Registered' = Registered
    BY <1>EpollFacts, <1>EpollBase
  <2>2. Distinct'
    BY <1>EpollFacts, Zenon DEF Distinct
  <2>3. ASSUME NEW k \in Call, NEW w \in Writer
        PROVE  /\ \A x \in Worker : Flushing(x, k, w)' <=> Flushing(x, k, w)
               /\ Visited(k, w)' <=> Visited(k, w)
               /\ Queued(k, w)' <=> Queued(k, w)
    <3>1. \A x \in Worker : Flushing(x, k, w)' <=> Flushing(x, k, w)
      BY Zenon DEF Flushing
    <3>2. Visited(k, w)' <=> Visited(k, w)
      BY Zenon DEF Visited
    <3> QED
      BY <3>1, <3>2, Zenon DEF Queued
  <2>4. ASSUME NEW k \in Call, NEW w \in Writer PROVE Placed(k, w)'
    BY <2>3, <1>EpollFacts, <1>PlacedFrame, Zenon
  <2>5. ASSUME NEW k \in Call PROVE EpollCall(k)'
    <3>1. EpollCall(k) /\ owes'[k] = owes[k] /\ owes[k] \subseteq Registered /\ owes[k] \subseteq Writer
      BY <1>EpollFacts, Zenon DEF EpollCall
    <3> QED
      BY <2>1, <2>3, <3>1, <1>EpollCallFrame, Zenon
  <2> QED
    BY <2>1, <2>2, <2>4, <2>5, Zenon DEF Epolls
\* A call begins: it has visited nobody.
<1>EpollBeginStep.
      ASSUME Wakes, Epolls, Wakes', kind = "epoll", kind' = kind, NEW k \in Call, Begin(k),
             call' = [call EXCEPT ![k].pc = "open"], UNCHANGED <<slice, conn, wkr, got, past>>
      PROVE  Epolls'
  <2> USE <1>EpollBeginStep
  <2>1. call[k].pc = "new" /\ owes' = [owes EXCEPT ![k] = Registered] /\ may' = [may EXCEPT ![k] = {}]
    BY DEF Begin, Synchronous
  <2>2. /\ owes' \in [Call -> SUBSET Writer] /\ may' \in [Call -> SUBSET Writer]
        /\ owes'[k] = Registered /\ \A j \in Call : j # k => owes'[j] = owes[j]
    BY <2>1, <1>EpollFacts
  <2>3. BaseOK' /\ Registered' = Registered
    BY <2>2, <1>EpollFacts, <1>EpollBase
  <2>4. /\ call'[k].pc = "open" /\ call'[k].seen = {} /\ \A j \in Call : j # k => call'[j] = call[j]
    <3>1. call[k].seen = {} /\ call \in [Call -> CallRecord]
      BY <2>1, <1>EpollFacts DEF EpollCall
    <3> QED
      BY <3>1 DEF CallRecord
  <2>5. Distinct'
    BY <1>EpollFacts, Zenon DEF Distinct
  <2>6. ASSUME NEW j \in Call, NEW w \in Writer
        PROVE  /\ \A x \in Worker : Flushing(x, j, w)' <=> Flushing(x, j, w)
               /\ Visited(j, w)' <=> Visited(j, w)
               /\ Queued(j, w)' <=> Queued(j, w)
    <3>1. \A x \in Worker : Flushing(x, j, w)' <=> Flushing(x, j, w)
      BY Zenon DEF Flushing
    <3>2. Visited(j, w)' <=> Visited(j, w)
      BY <2>1, <2>4 DEF Visited
    <3> QED
      BY <3>1, <3>2, Zenon DEF Queued
  <2>7. ASSUME NEW j \in Call, NEW w \in Writer PROVE Placed(j, w)'
    BY <2>6, <1>EpollFacts, <1>PlacedFrame
  <2>8. ASSUME NEW j \in Call PROVE EpollCall(j)'
    <3>1. EpollCall(j) /\ owes[j] \subseteq Registered /\ owes[j] \subseteq Writer
      BY <1>EpollFacts DEF EpollCall
    <3>2. CASE j = k
      <4>1. \A w : ~Visited(k, w)'
        BY <2>4 DEF Visited
      <4> QED
        BY <2>2, <2>3, <2>4, <3>2, <4>1 DEF EpollCall
    <3>3. CASE j # k
      BY <2>2, <2>3, <2>4, <2>6, <3>1, <3>3, <1>EpollCallFrame
    <3> QED
      BY <3>2, <3>3
  <2> QED
    BY <2>3, <2>5, <2>7, <2>8 DEF Epolls
\* Range comes to a connection for the first time: the message is appended to a queue
\* where it is not, and no worker has it.
<1>EpollVisitStep.
      ASSUME Wakes, Epolls, Wakes', kind = "epoll", kind' = kind, NEW k \in Call, NEW w \in Writer,
             call[k].pc = "open", w \notin call[k].seen,
             conn' = [conn EXCEPT ![w].pending = Append(@, k)],
             call' = [call EXCEPT ![k].visit = w, ![k].seen = @ \cup {w}],
             UNCHANGED <<slice, wkr, owes, may, got, past>>
      PROVE  Epolls'
  <2> USE <1>EpollVisitStep
  <2>3. BaseOK' /\ Registered' = Registered
    BY <1>EpollFacts, <1>EpollBase
  <2>4. /\ call'[k].pc = "open" /\ call'[k].seen = call[k].seen \cup {w} /\ \A j \in Call : j # k => call'[j] = call[j]
    BY <1>EpollFacts DEF CallRecord
  <2>5. conn'[w].pending = Append(conn[w].pending, k) /\ \A v \in Writer : v # w => conn'[v] = conn[v]
    BY <1>EpollFacts DEF Queues
  <2>6. ~Visited(k, w) /\ Visited(k, w)'
    BY <2>4, Zenon DEF Visited
  <2>7. ~Queued(k, w) /\ k \notin Range(got[w]) /\ k \notin Range(conn[w].pending)
    <3>1. Placed(k, w)
      BY <1>EpollFacts
    <3> QED
      BY <2>6, <3>1 DEF Placed, Queued
  <2>8. /\ Range(conn'[w].pending) = Range(conn[w].pending) \cup {k}
        /\ IsInjective(conn'[w].pending)
    <3>1. conn[w].pending \in Seq(Call) /\ IsInjective(conn[w].pending)
      BY <1>EpollFacts DEF Distinct
    <3> QED
      BY <2>5, <2>7, <3>1, RangeAppend
  <2>9. Distinct'
    BY <2>5, <2>8, <1>EpollFacts DEF Distinct
  <2>10. ASSUME NEW j \in Call, NEW v \in Writer
         PROVE  /\ \A x \in Worker : Flushing(x, j, v)' <=> Flushing(x, j, v)
                /\ Visited(j, v) => Visited(j, v)'
                /\ (j # k \/ v # w) /\ Visited(j, v)' => Visited(j, v)
                /\ (j # k \/ v # w) => (j \in Range(conn'[v].pending) <=> j \in Range(conn[v].pending))
                /\ Queued(j, v) => Queued(j, v)'
    <3>1. \A x \in Worker : Flushing(x, j, v)' <=> Flushing(x, j, v)
      BY Zenon DEF Flushing
    <3>2. (Visited(j, v) => Visited(j, v)') /\ ((j # k \/ v # w) /\ Visited(j, v)' => Visited(j, v))
      BY <2>4, Zenon DEF Visited
    <3>3. /\ (j # k \/ v # w) => (j \in Range(conn'[v].pending) <=> j \in Range(conn[v].pending))
          /\ j \in Range(conn[v].pending) => j \in Range(conn'[v].pending)
      BY <2>5, <2>8
    <3> QED
      BY <3>1, <3>2, <3>3, Zenon DEF Queued
  <2>11. ASSUME NEW j \in Call, NEW v \in Writer PROVE Placed(j, v)'
    <3>1. CASE j # k \/ v # w
      BY <2>10, <3>1, <1>EpollFacts, <1>PlacedFrame
    <3>2. CASE j = k /\ v = w
      <4>1. \A x \in Worker : ~Flushing(x, k, w)'
        BY <2>7, <2>10 DEF Queued
      <4> QED
        BY <2>6, <2>7, <3>2, <4>1 DEF Placed
    <3> QED
      BY <3>1, <3>2
  <2>12. ASSUME NEW j \in Call PROVE EpollCall(j)'
    <3>1. EpollCall(j) /\ owes[j] \subseteq Registered /\ owes[j] \subseteq Writer
      BY <1>EpollFacts DEF EpollCall
    <3>2. Queued(k, w)'
      BY <2>8 DEF Queued
    <3>3. ASSUME NEW v \in owes'[j], Visited(j, v)' PROVE Queued(j, v)'
      <4>1. CASE j # k \/ v # w
        BY <2>10, <3>1, <3>3, <4>1 DEF EpollCall
      <4>2. CASE j = k /\ v = w
        BY <3>2, <4>2
      <4> QED
        BY <4>1, <4>2
    <3>4. call'[j].pc = "new" => call'[j].seen = {}
      BY <2>4, <3>1, Zenon DEF EpollCall
    <3> QED
      BY <2>3, <3>1, <3>3, <3>4, Zenon DEF EpollCall
  <2> QED
    BY <2>3, <2>9, <2>11, <2>12 DEF Epolls
\* A call returns when Range has come to everybody it owes.
<1>EpollReturnStep.
      ASSUME Wakes, Epolls, Wakes', kind = "epoll", kind' = kind, NEW k \in Call,
             call[k].pc = "open", owes[k] \subseteq call[k].seen, call' = Returned(k, call[k].err),
             UNCHANGED <<slice, conn, wkr, owes, may, got, past>>
      PROVE  Epolls'
  <2> USE <1>EpollReturnStep
  <2>1. BaseOK' /\ Registered' = Registered
    BY <1>EpollFacts, <1>EpollBase, Zenon
  <2>2. call'[k].pc = "returned" /\ \A j \in Call : j # k => call'[j] = call[j]
    <3>1. call \in [Call -> CallRecord] /\ call[k].err \in BOOLEAN
      BY <1>EpollFacts DEF CallRecord
    <3> QED
      BY <3>1, CallReturns, Zenon
  <2>3. Distinct'
    BY <1>EpollFacts, Zenon DEF Distinct
  <2>4. ASSUME NEW j \in Call, NEW w \in Writer
        PROVE  /\ \A x \in Worker : Flushing(x, j, w)' <=> Flushing(x, j, w)
               /\ Visited(j, w) => Visited(j, w)'
               /\ w \in owes[j] /\ Visited(j, w)' => Visited(j, w)
               /\ Queued(j, w)' <=> Queued(j, w)
    <3>1. \A x \in Worker : Flushing(x, j, w)' <=> Flushing(x, j, w)
      BY Zenon DEF Flushing
    <3>2. (Visited(j, w) => Visited(j, w)') /\ (w \in owes[j] /\ Visited(j, w)' => Visited(j, w))
      BY <2>2 DEF Visited
    <3> QED
      BY <3>1, <3>2, Zenon DEF Queued
  <2>5. ASSUME NEW j \in Call, NEW w \in Writer PROVE Placed(j, w)'
    BY <2>4, <1>EpollFacts, <1>PlacedFrame, Zenon
  <2>6. ASSUME NEW j \in Call PROVE EpollCall(j)'
    <3>1. EpollCall(j) /\ owes[j] \subseteq Registered /\ owes[j] \subseteq Writer
      BY <1>EpollFacts, Zenon DEF EpollCall
    <3>2. call'[j].pc = "new" => call[j].pc = "new" /\ call'[j].seen = call[j].seen
      BY <2>2
    <3> QED
      BY <2>1, <2>4, <3>1, <3>2, <1>EpollCallFrame, Zenon
  <2> QED
    BY <2>1, <2>3, <2>5, <2>6, Zenon DEF Epolls
\* A worker that has nothing to write takes the queue of a connection.
<1>EpollTakeStep.
      ASSUME Wakes, Epolls, Wakes', kind = "epoll", kind' = kind, NEW x \in Worker, TakeQueue(x)
      PROVE  Epolls'
  <2> USE <1>EpollTakeStep
  <2>1. PICK w \in wkr[x].evs :
          /\ wkr' = [wkr EXCEPT ![x].evs = @ \ {w}, ![x].w = IF conn[w].pending = <<>> THEN NoWriter ELSE w,
                                ![x].queue = conn[w].pending]
          /\ conn' = [conn EXCEPT ![w].pending = <<>>]
          /\ wkr[x].queue = <<>> /\ UNCHANGED <<slice, call, owes, may, got, past>>
    BY Zenon DEF TakeQueue, log
  <2>2. w \in Writer /\ conn[w].pending \in Seq(Call) /\ IsInjective(conn[w].pending) /\ w # NoWriter
    <3>1. w \in Writer
      BY <1>EpollFacts DEF WorkerRecord
    <3> QED
      BY <3>1, <1>EpollFacts, FanoutAssumption DEF Distinct
  <2>3. BaseOK' /\ Registered' = Registered
    BY <2>1, <1>EpollFacts, <1>EpollBase
  <2>4. /\ conn'[w].pending = <<>> /\ \A v \in Writer : v # w => conn'[v] = conn[v]
    BY <2>1, <2>2, <1>EpollFacts DEF Queues
  <2>5. /\ wkr'[x].queue = conn[w].pending /\ (wkr'[x].queue # <<>> => wkr'[x].w = w)
        /\ \A y \in Worker : y # x => wkr'[y] = wkr[y]
    <3>1. wkr \in [Worker -> WorkerRecord]
      BY <1>EpollFacts
    <3> QED
      BY <2>1, <3>1 DEF WorkerRecord
  <2>6. Distinct'
    <3>1. \A v \in Writer : IsInjective(got'[v]) /\ IsInjective(conn'[v].pending)
      BY <2>1, <2>4, <1>EpollFacts, EmptyRange, Zenon DEF Distinct
    <3>2. \A y \in Worker : IsInjective(wkr'[y].queue)
      BY <2>2, <2>5, <1>EpollFacts DEF Distinct
    <3> QED
      BY <3>1, <3>2 DEF Distinct
  <2>7. ASSUME NEW j \in Call, NEW v \in Writer
        PROVE  /\ \A y \in Worker : Flushing(y, j, v)' <=> Flushing(y, j, v) \/ (y = x /\ v = w /\ j \in Range(conn[w].pending))
               /\ ~Flushing(x, j, v)
               /\ Visited(j, v)' <=> Visited(j, v)
               /\ j \in Range(conn'[v].pending) <=> v # w /\ j \in Range(conn[v].pending)
               /\ Queued(j, v)' <=> Queued(j, v)
    <3>1. ~Flushing(x, j, v)
      BY <2>1, EmptyRange DEF Flushing
    <3>2. \A y \in Worker : y # x => (Flushing(y, j, v)' <=> Flushing(y, j, v))
      BY <2>5 DEF Flushing
    <3>3. Flushing(x, j, v)' <=> v = w /\ j \in Range(conn[w].pending)
      <4>1. CASE conn[w].pending = <<>>
        BY <2>5, <4>1, EmptyRange DEF Flushing
      <4>2. CASE conn[w].pending # <<>>
        BY <2>5, <4>2 DEF Flushing
      <4> QED
        BY <4>1, <4>2
    <3>4. Visited(j, v)' <=> Visited(j, v)
      BY <2>1 DEF Visited
    <3>5. j \in Range(conn'[v].pending) <=> v # w /\ j \in Range(conn[v].pending)
      BY <2>4, EmptyRange
    <3>6. \A y \in Worker : Flushing(y, j, v)' <=> Flushing(y, j, v) \/ (y = x /\ v = w /\ j \in Range(conn[w].pending))
      BY <3>1, <3>2, <3>3, Zenon
    <3>7. Queued(j, v)' <=> Queued(j, v)
      BY <3>5, <3>6, Zenon DEF Queued
    <3> QED
      BY <3>1, <3>4, <3>5, <3>6, <3>7, Zenon
  <2>8. ASSUME NEW j \in Call, NEW v \in Writer PROVE Placed(j, v)'
    <3>0. Placed(j, v) /\ got' = got
      BY <2>1, <1>EpollFacts
    <3>1. /\ Queued(j, v)' \/ j \in Range(got'[v]) => Visited(j, v)'
          /\ j \in Range(got'[v]) => ~Queued(j, v)'
      BY <2>7, <3>0, Zenon DEF Placed
    <3>2. ASSUME NEW y \in Worker, Flushing(y, j, v)'
          PROVE  j \notin Range(conn'[v].pending) /\ \A z \in Worker : Flushing(z, j, v)' => z = y
      BY <2>7, <3>0, <3>2, Zenon DEF Placed
    <3> QED
      BY <3>1, <3>2 DEF Placed
  <2>9. ASSUME NEW j \in Call PROVE EpollCall(j)'
    <3>1. EpollCall(j) /\ owes[j] \subseteq Registered /\ owes[j] \subseteq Writer /\ owes' = owes /\ call' = call
      BY <2>1, <1>EpollFacts DEF EpollCall
    <3> QED
      BY <2>3, <2>7, <3>1, <1>EpollCallFrame, Zenon
  <2> QED
    BY <2>1, <2>3, <2>6, <2>8, <2>9 DEF Epolls
\* A worker writes the first message of the queue it has taken.
<1>EpollWriteStep.
      ASSUME Wakes, Epolls, Wakes', kind = "epoll", kind' = kind, NEW x \in Worker, NEW w, NEW k, NEW rest,
             w = wkr[x].w, k = Head(wkr[x].queue), rest = Tail(wkr[x].queue), wkr[x].queue # <<>>,
             Succeeds(k, w),
             wkr' = [wkr EXCEPT ![x].queue = rest, ![x].w = IF rest = <<>> THEN NoWriter ELSE w],
             UNCHANGED <<slice, conn, call, may>>
      PROVE  Epolls'
  <2> USE <1>EpollWriteStep
  <2>1. w \in Writer /\ k \in Call /\ rest \in Seq(Call) /\ IsInjective(rest)
        /\ k \in Range(wkr[x].queue) /\ Range(rest) = Range(wkr[x].queue) \ {k}
    <3>1. wkr[x].queue \in Seq(Call) /\ w \in Writer /\ IsInjective(wkr[x].queue)
      BY <1>EpollFacts DEF Distinct
    <3>2. rest \in Seq(Call) /\ IsInjective(rest) /\ k \in Range(wkr[x].queue) /\ Range(rest) = Range(wkr[x].queue) \ {k}
      BY <3>1, RangeTail
    <3>3. Range(wkr[x].queue) \subseteq Call
      BY <3>1, RangeIs
    <3> QED
      BY <3>1, <3>2, <3>3
  <2>2. Flushing(x, k, w) /\ Queued(k, w) /\ Placed(k, w) /\ k \notin Range(got[w]) /\ Visited(k, w)
    <3>1. Flushing(x, k, w) /\ Placed(k, w)
      BY <2>1, <1>EpollFacts DEF Flushing
    <3>2. Queued(k, w)
      BY <3>1 DEF Queued
    <3> QED
      BY <3>1, <3>2 DEF Placed
  <2>3. /\ got' = [got EXCEPT ![w] = Append(@, k)] /\ owes' = [owes EXCEPT ![k] = @ \ {w}] /\ past' = past
    BY Zenon DEF Succeeds
  <2>4. /\ got' \in [Writer -> Seq(Call)] /\ IsInjective(got'[w]) /\ Range(got'[w]) = Range(got[w]) \cup {k}
        /\ \A v \in Writer : v # w => got'[v] = got[v]
    <3>1. got \in [Writer -> Seq(Call)] /\ got[w] \in Seq(Call) /\ IsInjective(got[w])
      BY <2>1, <1>EpollFacts DEF Distinct
    <3>2. /\ Append(got[w], k) \in Seq(Call) /\ Range(Append(got[w], k)) = Range(got[w]) \cup {k}
          /\ IsInjective(Append(got[w], k))
      BY <2>1, <2>2, <3>1, RangeAppend
    <3> QED
      BY <2>1, <2>3, <3>1, <3>2
  <2>5. /\ owes' \in [Call -> SUBSET Writer] /\ owes'[k] = owes[k] \ {w} /\ \A j \in Call : j # k => owes'[j] = owes[j]
    BY <2>1, <2>3, <1>EpollFacts, Zenon
  <2>6. BaseOK' /\ Registered' = Registered
    BY <2>3, <2>4, <2>5, <1>EpollFacts, <1>EpollBase
  <2>7. /\ wkr'[x].queue = rest /\ (rest # <<>> => wkr'[x].w = w)
        /\ \A y \in Worker : y # x => wkr'[y] = wkr[y]
    <3>1. wkr \in [Worker -> WorkerRecord]
      BY <1>EpollFacts
    <3> QED
      BY <3>1 DEF WorkerRecord
  <2>8. Distinct'
    <3>1. \A v \in Writer : IsInjective(got'[v]) /\ IsInjective(conn'[v].pending)
      BY <2>4, <1>EpollFacts, Zenon DEF Distinct
    <3>2. \A y \in Worker : IsInjective(wkr'[y].queue)
      BY <2>1, <2>7, <1>EpollFacts DEF Distinct
    <3> QED
      BY <3>1, <3>2, Zenon DEF Distinct
  <2>9. ASSUME NEW j \in Call, NEW v \in Writer
        PROVE  /\ \A y \in Worker : Flushing(y, j, v)' <=> Flushing(y, j, v) /\ ~(y = x /\ v = w /\ j = k)
               /\ Visited(j, v)' <=> Visited(j, v)
    <3>1. \A y \in Worker : y # x => (Flushing(y, j, v)' <=> Flushing(y, j, v))
      BY <2>7, Zenon DEF Flushing
    <3>2. Flushing(x, j, v)' <=> Flushing(x, j, v) /\ ~(v = w /\ j = k)
      <4>1. Flushing(x, j, v) <=> v = w /\ j \in Range(wkr[x].queue)
        BY DEF Flushing
      <4>2. CASE rest = <<>>
        BY <2>1, <2>7, <4>1, <4>2, EmptyRange, Zenon DEF Flushing
      <4>3. CASE rest # <<>>
        BY <2>1, <2>7, <4>1, <4>3, Zenon DEF Flushing
      <4> QED
        BY <4>2, <4>3
    <3>3. Visited(j, v)' <=> Visited(j, v)
      BY DEF Visited
    <3> QED
      BY <3>1, <3>2, <3>3
  <2>10. ASSUME NEW j \in Call, NEW v \in Writer PROVE Placed(j, v)'
    <3>1. CASE j # k \/ v # w
      <4>1. j \in Range(got'[v]) => j \in Range(got[v])
        BY <2>4, <3>1
      <4> QED
        BY <2>9, <4>1, <1>EpollFacts, <1>PlacedFrame, Zenon
    <3>2. CASE j = k /\ v = w
      <4>1. ~Queued(k, w)'
        BY <2>1, <2>2, <2>9 DEF Placed, Queued
      <4>2. Visited(k, w)'
        BY <2>1, <2>2, <2>9
      <4>3. \A y \in Worker : ~Flushing(y, k, w)'
        BY <4>1 DEF Queued
      <4> QED
        BY <3>2, <4>1, <4>2, <4>3, Zenon DEF Placed
    <3> QED
      BY <3>1, <3>2
  <2>11. ASSUME NEW j \in Call PROVE EpollCall(j)'
    <3>1. EpollCall(j) /\ owes[j] \subseteq Registered /\ owes[j] \subseteq Writer /\ owes'[j] \subseteq owes[j]
      BY <2>5, <1>EpollFacts, Zenon DEF EpollCall
    <3>2. ASSUME NEW v \in owes'[j] PROVE Queued(j, v) => Queued(j, v)'
      <4>1. j # k \/ v # w
        BY <2>5
      <4> QED
        BY <2>9, <3>1, <4>1 DEF Queued
    <3> QED
      BY <2>6, <2>9, <3>1, <3>2, <1>EpollCallFrame
  <2> QED
    BY <2>3, <2>6, <2>8, <2>10, <2>11 DEF Epolls
<1>EpollBroadcastStep.
      ASSUME Wakes, Epolls, Wakes', kind = "epoll", kind' = kind, NEW k \in Call, EpollBroadcast(k)
      PROVE  Epolls'
  <2> USE <1>EpollBroadcastStep
  <2>0. UNCHANGED <<slice, wkr, got>>
    BY DEF EpollBroadcast
  <2>1. CASE Begin(k) /\ call' = [call EXCEPT ![k].pc = "open"] /\ UNCHANGED <<conn, past>>
    BY <2>0, <2>1, <1>EpollBeginStep, Zenon
  <2>2. CASE /\ call[k].pc = "open"
             /\ \E w \in fds \ call[k].seen :
                   /\ conn' = [conn EXCEPT ![w].pending = Append(@, k)]
                   /\ call' = [call EXCEPT ![k].visit = w, ![k].seen = @ \cup {w}]
             /\ UNCHANGED <<owes, may, past>>
    <3>1. fds \subseteq Writer
      BY <1>EpollFacts, Zenon DEF fds
    <3> QED
      BY <2>0, <2>2, <3>1, <1>EpollVisitStep, Zenon
  <2>3. CASE /\ IF call[k].visit \in fds /\ down # "done"
                THEN conn' = Arm(call[k].visit) /\ call' = [call EXCEPT ![k].visit = NoWriter]
                ELSE UNCHANGED conn /\ call' = [call EXCEPT ![k].visit = NoWriter, ![k].err = TRUE]
             /\ UNCHANGED <<owes, may, past>>
    <3>1. \A j \in Call : call'[j].pc = call[j].pc /\ call'[j].seen = call[j].seen
      <4>1. call \in [Call -> CallRecord]
        BY <1>EpollFacts, Zenon
      <4> QED
        BY <2>3, <4>1 DEF CallRecord
    <3>2. \A w \in Writer : conn'[w].pending = conn[w].pending
      <4>1. conn \in Queues
        BY <1>EpollFacts, Zenon
      <4> QED
        BY <2>3, <4>1 DEF Queues, Arm
    <3> QED
      BY <2>0, <2>3, <3>1, <3>2, <1>EpollQuietStep
  <2>4. CASE /\ call[k].pc = "open" /\ owes[k] \subseteq call[k].seen
             /\ call' = Returned(k, call[k].err) /\ UNCHANGED <<conn, owes, may, past>>
    BY <2>0, <2>4, <1>EpollReturnStep
  <2> QED
    BY <2>1, <2>2, <2>3, <2>4, Zenon DEF EpollBroadcast, log
\* The steps of a worker: a failed write drops the rest of the queue with the writer.
<1>EpollWorkerStep.
      ASSUME Wakes, Epolls, Wakes', kind = "epoll", kind' = kind, NEW x \in Worker, runWorker(x)
      PROVE  Epolls'
  <2> USE <1>EpollWorkerStep
  <2>1. CASE EpollWait(x)
    <3>1. PICK E : /\ wkr' = [wkr EXCEPT ![x].evs = E]
                   /\ conn' = [w \in Writer |-> [conn[w] EXCEPT !.armed = @ /\ w \notin E]]
      BY <2>1, Zenon DEF EpollWait
    <3>2. \A y \in Worker : wkr'[y].queue = wkr[y].queue /\ wkr'[y].w = wkr[y].w
      <4>1. wkr \in [Worker -> WorkerRecord]
        BY <1>EpollFacts
      <4> QED
        BY <3>1, <4>1, Zenon DEF WorkerRecord
    <3>3. \A w \in Writer : conn'[w].pending = conn[w].pending
      <4>1. conn \in Queues
        BY <1>EpollFacts
      <4> QED
        BY <3>1, <4>1, Zenon DEF Queues
    <3>4. UNCHANGED <<slice, call, got, owes, may, past>>
      BY <2>1 DEF EpollWait, log
    <3> QED
      BY <3>2, <3>3, <3>4, <1>EpollQuietStep
  <2>2. CASE TakeQueue(x)
    BY <2>2, <1>EpollTakeStep
  <2>3. CASE WriteQueue(x)
    <3>1. PICK w, k, rest : w = wkr[x].w /\ k = Head(wkr[x].queue) /\ rest = Tail(wkr[x].queue)
      BY Zenon
    <3>2. wkr[x].queue # <<>> /\ UNCHANGED <<call, may>>
      BY <2>3 DEF WriteQueue
    <3>3. CASE /\ Succeeds(k, w)
               /\ wkr' = [wkr EXCEPT ![x].queue = rest, ![x].w = IF rest = <<>> THEN NoWriter ELSE w]
               /\ UNCHANGED <<slice, conn>>
      BY <3>1, <3>2, <3>3, <1>EpollWriteStep, Zenon
    <3>4. CASE /\ past' = [past EXCEPT !.fails = @ + 1, !.failed = @ \cup {k}]
               /\ wkr' = [wkr EXCEPT ![x].queue = <<>>, ![x].w = NoWriter]
               /\ slice' = [slice EXCEPT ![0] = SwapDeleted(@, w)]
               /\ owes' = [j \in Call |-> owes[j] \ {w}]
               /\ conn' = [conn EXCEPT ![w] = [pending |-> <<>>, armed |-> FALSE]]
               /\ UNCHANGED got
      <4>1. w \in Writer /\ k \in Call
        <5>1. wkr[x].queue \in Seq(Call) /\ wkr[x].w \in Writer
          BY <3>2, <1>EpollFacts
        <5>2. \A q \in Seq(Call) : q # <<>> => Head(q) \in Call
          BY ONLY TRUE
        <5> QED
          BY <3>1, <3>2, <5>1, <5>2, Zenon
      <4>2. past' \in PastRecord /\ past'.panicked = past.panicked
        BY <3>4, <4>1, <1>EpollFacts, PastStep, Zenon
      <4>3. wkr'[x].queue = <<>> /\ \A y \in Worker : y # x => wkr'[y] = wkr[y]
        <5>1. wkr \in [Worker -> WorkerRecord]
          BY <1>EpollFacts
        <5> QED
          BY <3>4, <5>1, Zenon DEF WorkerRecord
      <4>4. \A y \in Worker : IsInjective(wkr'[y].queue)
        BY <4>3, <1>EpollFacts, EmptyRange, Zenon DEF Distinct
      <4>5. \A y \in Worker, j \in Call, v \in Writer : Flushing(y, j, v)' <=> y # x /\ Flushing(y, j, v)
        BY <4>3, EmptyRange DEF Flushing
      <4>6. \A j \in Call, v \in Writer : Flushing(x, j, v) => v = w
        BY <3>1 DEF Flushing
      <4>7. /\ \A y \in Worker, j \in Call, v \in Writer : Flushing(y, j, v)' => Flushing(y, j, v)
            /\ \A y \in Worker, j \in Call, v \in Writer : v # w /\ Flushing(y, j, v) => Flushing(y, j, v)'
        BY <4>5, <4>6
      <4> QED
        BY <3>2, <3>4, <4>1, <4>2, <4>4, <4>7, <1>EpollLeaveStep, Zenon
    <3> QED
      BY <2>3, <3>1, <3>3, <3>4, Zenon DEF WriteQueue
  <2>4. CASE /\ wkr' = [wkr EXCEPT ![x].pc = "ended"]
             /\ UNCHANGED <<slice, call, conn, got, owes, may, past>>
    <3>1. \A y \in Worker : wkr'[y].queue = wkr[y].queue /\ wkr'[y].w = wkr[y].w
      <4>1. wkr \in [Worker -> WorkerRecord]
        BY <1>EpollFacts
      <4> QED
        BY <2>4, <4>1 DEF WorkerRecord
    <3> QED
      BY <2>4, <3>1, <1>EpollQuietStep
  <2> QED
    BY <2>1, <2>2, <2>3, <2>4, Zenon DEF runWorker, log
\* Every step of the epoll broadcaster preserves the invariant.
<1>EpollMessageStep.
      ASSUME Wakes, Epolls, Wakes', kind = "epoll", kind' = kind, EpollNext
      PROVE  Epolls'
  <2> USE <1>EpollMessageStep
  <2>1. ASSUME NEW w \in Writer, EpollAdd(w) PROVE Epolls'
    BY <2>1, <1>EpollAddStep, Zenon DEF EpollAdd
  <2>2. ASSUME NEW w \in Writer, EpollRemove(w) PROVE Epolls'
    <3>1. /\ slice' = [slice EXCEPT ![0] = SwapDeleted(@, w)] /\ owes' = [k \in Call |-> owes[k] \ {w}]
          /\ conn' = [conn EXCEPT ![w] = [pending |-> <<>>, armed |-> FALSE]]
          /\ past' = [past EXCEPT !.removes = @ + 1] /\ UNCHANGED <<call, got, may, wkr>>
      BY <2>2 DEF EpollRemove, Leave
    <3>2. past' \in PastRecord /\ past'.panicked = past.panicked
      BY <3>1, <1>EpollFacts, PastStep, Zenon
    <3>3. \A y \in Worker, j \in Call, v \in Writer : Flushing(y, j, v)' <=> Flushing(y, j, v)
      BY <3>1 DEF Flushing
    <3>4. \A y \in Worker : IsInjective(wkr'[y].queue)
      BY <3>1, <1>EpollFacts DEF Distinct
    <3> QED
      BY <3>1, <3>2, <3>3, <3>4, <1>EpollLeaveStep, Zenon
  <2>3. ASSUME NEW k \in Call, EpollBroadcast(k) PROVE Epolls'
    BY <2>3, <1>EpollBroadcastStep
  <2>4. ASSUME NEW x \in Worker, runWorker(x) PROVE Epolls'
    BY <2>4, <1>EpollWorkerStep
  <2>5. ASSUME EpollClose PROVE Epolls'
    BY <2>5, <1>EpollQuietStep, Zenon DEF EpollClose, log
  <2> QED
    BY <2>1, <2>2, <2>3, <2>4, <2>5 DEF EpollNext
\* The invariant holds at first.
<1>EpollInit. ASSUME FanoutInit PROVE Epolls
  <2> USE <1>EpollInit
  <2>1. BaseOK /\ Registered = {}
    BY BaseInit
  <2>2. /\ \A k \in Call : call[k] = NewCall /\ owes[k] = {}
        /\ \A w \in Writer : got[w] = <<>> /\ conn[w] = [pending |-> <<>>, armed |-> FALSE]
        /\ \A x \in Worker : wkr[x] = [pc |-> "running", evs |-> {}, w |-> NoWriter, queue |-> <<>>]
        /\ ~past.panicked
    BY Zenon DEF FanoutInit
  <2>3. /\ \A k \in Call : call[k].pc = "new" /\ call[k].seen = {}
        /\ \A w \in Writer : conn[w].pending = <<>>
        /\ \A x \in Worker : wkr[x].queue = <<>>
    <3>1. NewCall.pc = "new" /\ NewCall.seen = {}
      BY DEF NewCall
    <3>2. [pending |-> <<>>, armed |-> FALSE].pending = <<>>
      OBVIOUS
    <3>3. [pc |-> "running", evs |-> {}, w |-> NoWriter, queue |-> <<>>].queue = <<>>
      OBVIOUS
    <3> QED
      BY <2>2, <3>1, <3>2, <3>3, Zenon
  <2>4. Distinct
    BY <2>2, <2>3, EmptyRange, Zenon DEF Distinct
  <2>5. \A k \in Call, w \in Writer : ~Queued(k, w) /\ k \notin Range(got[w]) /\ ~Visited(k, w)
                                      /\ \A x \in Worker : ~Flushing(x, k, w)
    BY <2>2, <2>3, EmptyRange, Zenon DEF Queued, Visited, Flushing
  <2>6. \A k \in Call, w \in Writer : Placed(k, w)
    BY <2>5, Zenon DEF Placed
  <2>7. \A k \in Call : EpollCall(k)
    BY <2>1, <2>2, <2>3 DEF EpollCall
  <2> QED
    BY <2>1, <2>2, <2>4, <2>6, <2>7 DEF Epolls
<1>1. FanoutInit => EpollInv
  BY <1>EpollInit DEF EpollInv
<1>2. WakeInv /\ WakeInv' /\ EpollInv /\ [FanoutNext]_fanout => EpollInv'
  <2> SUFFICES ASSUME WakeInv, WakeInv', EpollInv, [FanoutNext]_fanout, kind' = "epoll" PROVE Epolls'
    BY DEF EpollInv
  <2>1. kind' = kind /\ Wakes /\ Wakes' /\ Epolls /\ (UNCHANGED fanout \/ EpollNext)
    BY StrategySteps DEF EpollInv, WakeInv
  <2>2. CASE UNCHANGED fanout
    <3>1. UNCHANGED <<slice, call, conn, wkr, got, owes, may, past>>
      BY <2>2 DEF fanout, state, log
    <3> QED
      BY <2>1, <3>1, <1>EpollQuietStep
  <2> QED
    BY <2>1, <2>2, <1>EpollMessageStep
<1> QED
  BY <1>1, <1>2, WakeInvariance, PTL DEF FanoutSpec

-----------------------------------------------------------------------------
(* What the strategies have in common                                       *)

Strategies == {"naive", "workerpool", "registry", "sharded", "epoll", "iouring"}

\* A behaviour of nothing else has no steps.
NoneElse ==
    kind \notin Strategies =>
        /\ \A w \in Writer : got[w] = <<>>
        /\ \A k \in Call : call[k].pc = "new"
        /\ ~past.panicked

\* Nothing happens in a behaviour of no strategy.
LEMMA NoOtherSteps == FanoutSpec => []NoneElse
<1>1. FanoutInit => NoneElse
  <2> SUFFICES ASSUME FanoutInit PROVE NoneElse
    OBVIOUS
  <2>1. /\ \A w \in Writer : got[w] = <<>>
        /\ \A k \in Call : call[k] = NewCall
        /\ ~past.panicked
    BY DEF FanoutInit
  <2>2. NewCall.pc = "new"
    BY Zenon DEF NewCall
  <2> QED
    BY <2>1, <2>2, Zenon DEF NoneElse
<1>2. NoneElse /\ [FanoutNext]_fanout => NoneElse'
  <2> SUFFICES ASSUME NoneElse, [FanoutNext]_fanout, kind' \notin Strategies
               PROVE  /\ \A w \in Writer : got'[w] = <<>>
                      /\ \A k \in Call : call'[k].pc = "new"
                      /\ ~past'.panicked
    BY Zenon DEF NoneElse
  <2>1. kind' = kind /\ UNCHANGED fanout
    BY StrategySteps DEF Strategies
  <2>2. UNCHANGED <<got, call, past>>
    BY <2>1 DEF fanout, state, log
  <2> QED
    BY <2>1, <2>2 DEF NoneElse
<1> QED
  BY <1>1, <1>2, PTL DEF FanoutSpec

\* No writer gets a message twice, in any of the strategies, unless a Remove of the
\* sharded broadcaster met the iteration or a call of io_uring_enter failed: AtMostOnce,
\* for every number of writers, shards, workers and calls.
THEOREM DeliveredAtMostOnce == FanoutSpec => []AtMostOnce
<1>1. SyncInv /\ ShardInv /\ RingInv /\ EpollInv /\ NoneElse => AtMostOnce
  <2> SUFFICES ASSUME SyncInv, ShardInv, RingInv, EpollInv, NoneElse PROVE AtMostOnce
    OBVIOUS
  <2>1. ASSUME \A w \in Writer : IsInjective(got[w]), ~past.panicked PROVE AtMostOnce
    BY <2>1 DEF AtMostOnce, IsInjective
  <2>2. CASE kind \in Synchronous
    BY <2>1, <2>2, Zenon DEF SyncInv, Syncs, NoAccident
  <2>3. CASE kind = "sharded"
    BY <2>3 DEF ShardInv, Shards, OnceOK, AtMostOnce
  <2>4. CASE kind = "epoll"
    BY <2>1, <2>4 DEF EpollInv, Epolls, Distinct
  <2>5. CASE kind = "iouring"
    <3>1. Rings /\ ~past.panicked
      BY <2>5 DEF RingInv, Rings, RingTypes
    <3>2. CASE past.lapse
      BY <3>1, <3>2 DEF AtMostOnce
    <3>3. CASE ~past.lapse
      BY <2>1, <3>1, <3>3 DEF Rings
    <3> QED
      BY <3>2, <3>3
  <2>6. CASE kind \notin Strategies
    BY <2>1, <2>6, EmptyRange DEF NoneElse
  <2> QED
    BY <2>2, <2>3, <2>4, <2>5, <2>6 DEF Strategies, Synchronous
<1> QED
  BY <1>1, SyncInvariance, ShardInvariance, RingInvariance, EpollInvariance, NoOtherSteps, PTL

\* What lies between two positions is in the part of the sequence between them.
LEMMA SubSeqHas ==
    ASSUME NEW T, NEW s \in Seq(T), NEW m \in 1 .. Len(s), NEW n \in 1 .. Len(s), NEW p \in m .. n
    PROVE  s[p] \in Range(SubSeq(s, m, n))
<1> DEFINE L == Len(s)
<1>1. L \in Nat /\ p - m + 1 \in 1 .. n - m + 1 /\ \A j \in 1 .. L : s[j] \in T
  OBVIOUS
<1>2. SubSeq(s, m, n) = [j \in 1 .. n - m + 1 |-> s[m + j - 1]]
  BY <1>1
<1>3. SubSeq(s, m, n)[p - m + 1] = s[p] /\ DOMAIN SubSeq(s, m, n) = 1 .. n - m + 1
  <2>1. m + (p - m + 1) - 1 = p
    BY <1>1
  <2> QED
    BY <1>1, <1>2, <2>1
<1> QED
  BY <1>1, <1>3, Zenon DEF Range

\* What a goroutine of a shard has yet to range over.
LEMMA ComingIsOnTheWay ==
    ASSUME ShardTypes, kind = "sharded", NEW k \in Call, NEW w \in Writer, Coming(k, w)
    PROVE  OnTheWay(k, w)
<1> DEFINE i == shardIndex[w]
           g == gor[i]
           a == slice[i].arrays[g.array]
<1>1. i \in Shard /\ slice[i] \in Slice /\ GoroutineOK(i) /\ gor[i] \in GorRecord
  BY ShardOf, ShardFacts, Zenon
<1>2. CASE g.msg = k /\ \E p \in g.i .. g.len : a[p] = w
  <2>1. PICK p \in g.i .. g.len : a[p] = w
    BY <1>2
  <2>2. g.i \in Nat /\ g.len \in Nat
    BY <1>1, Zenon DEF GorRecord
  <2>3. CASE g.len = 0
    BY <1>2, <2>3, Zenon DEF OnTheWay
  <2>4. CASE g.len > 0
    <3>1. g.array \in 1 .. Len(slice[i].arrays) /\ g.i \in 1 .. g.len /\ g.len <= Len(a)
      BY <1>1, <2>4, Zenon DEF GoroutineOK, Ranged
    <3>2. a \in Seq(Nil)
      <4>1. \A A \in Seq(Seq(Nil)) : \A j \in 1 .. Len(A) : A[j] \in Seq(Nil)
        OBVIOUS
      <4>2. slice[i].arrays \in Seq(Seq(Nil))
        BY <1>1, Zenon DEF Slice
      <4> QED
        BY <3>1, <4>1, <4>2, Zenon
    <3>3. w \in Range(SubSeq(a, g.i, g.len))
      <4> HIDE DEF a, g
      <4>1. Len(a) \in Nat /\ g.i \in 1 .. Len(a) /\ g.len \in 1 .. Len(a)
        BY <2>2, <3>1, <3>2
      <4> QED
        BY <2>1, <3>2, <4>1, SubSeqHas
    <3> QED
      BY <1>2, <3>3 DEF OnTheWay
  <2>5. \A n \in Nat : n = 0 \/ n > 0
    BY ONLY TRUE
  <2> QED
    BY <2>2, <2>3, <2>4, <2>5, Zenon
<1>3. CASE k \in Range(chan[i]) \/ (g.msg = k /\ g.len = 0) \/ <<k, i>> \in past.torn
  BY <1>3 DEF OnTheWay
<1> QED
  BY <1>2, <1>3, Zenon DEF Coming, Ranged

\* A message that a call accepted is, when the call has returned, with every writer that
\* was registered all the time, or refused by it, or on the way there: NothingForgotten,
\* for every number of writers, shards, workers and calls.
THEOREM NoMessageForgotten == FanoutSpec => []NothingForgotten
<1>1. SyncInv /\ ShardInv /\ RingInv /\ EpollInv /\ NoneElse => NothingForgotten
  <2> SUFFICES ASSUME SyncInv, ShardInv, RingInv, EpollInv, NoneElse,
                      NEW k \in Call, call[k].pc = "returned", NEW w \in owes[k]
               PROVE  OnTheWay(k, w)
    BY Zenon DEF NothingForgotten
  <2>1. CASE kind \in Synchronous
    BY <2>1, Zenon DEF SyncInv, Syncs, SyncCall, Done
  <2>2. CASE kind = "sharded"
    <3>1. ShardTypes /\ OwedOK(k)
      BY <2>2 DEF ShardInv, Shards
    <3>2. w \in Writer
      BY <3>1, ShardFacts DEF OwedOK
    <3> QED
      BY <2>2, <3>1, <3>2, ComingIsOnTheWay, Zenon DEF OwedOK
  <2>3. CASE kind = "epoll"
    <3>1. EpollCall(k)
      BY <2>3 DEF EpollInv, Epolls
    <3>2. Queued(k, w)
      BY <3>1 DEF EpollCall, Visited
    <3> QED
      BY <2>3, <3>2, Zenon DEF OnTheWay, Queued, Flushing
  <2>4. CASE kind = "iouring"
    <3>1. CASE past.lapse
      BY <2>4, <3>1 DEF OnTheWay
    <3>2. CASE ~past.lapse
      BY <2>4, <3>2, Zenon DEF RingInv, Rings, RingCall
    <3> QED
      BY <3>1, <3>2
  <2>5. CASE kind \notin Strategies
    BY <2>5 DEF NoneElse
  <2> QED
    BY <2>1, <2>2, <2>3, <2>4, <2>5 DEF Strategies, Synchronous
<1> QED
  BY <1>1, SyncInvariance, ShardInvariance, RingInvariance, EpollInvariance, NoOtherSteps, PTL

=============================================================================
