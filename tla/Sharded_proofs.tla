--------------------------- MODULE Sharded_proofs ---------------------------
(***************************************************************************)
(* Proofs about the sharded broadcaster: where a message is, in which order*)
(* the writers of a shard get it, and what Stop leaves.                    *)
(***************************************************************************)
EXTENDS Fanout_proofs

-----------------------------------------------------------------------------
(* The sharded broadcaster                                                  *)

GorRecord ==
    [pc : {"none", "select", "drain", "ended"}, msg : Call \cup {0}, array : Nat, len : Nat, i : Nat]

\* The writers of shard i.
OfShard(i) == {w \in Writer : shardIndex[w] = i}

\* The array that the goroutine of shard i ranges over.
Ranged(i) == slice[i].arrays[gor[i].array]

\* All the arrays that a slice has had hold writers of its shard.
HomeArrays(s, i) ==
    \A a \in 1 .. Len(s.arrays) : \A p \in 1 .. Len(s.arrays[a]) :
        s.arrays[a][p] # NoWriter => shardIndex[s.arrays[a][p]] = i

ArraysOK == \A i \in Shard : HomeArrays(slice[i], i)

GoroutineOK(i) ==
    LET g == gor[i] IN
    /\ g.pc = "none" <=> gor[0].pc = "none"
    /\ g.pc \in {"none", "ended"} => g.msg = 0
    /\ g.msg = 0 => g.len = 0
    /\ g.len > 0 => g.array \in 1 .. Len(slice[i].arrays) /\ g.i \in 1 .. g.len /\ g.len <= Len(Ranged(i))

ShardTypes ==
    /\ BaseOK /\ ArraysOK
    /\ chan \in [Shard -> Seq(Call)] /\ gor \in [Shard -> GorRecord]
    /\ \A i \in Shard : GoroutineOK(i)
    /\ \A k \in Call : call[k].pc = "new" => call[k].at = 0

\* A goroutine whose iteration no Remove has met has the writers of the slice that
\* it copied before it, each once, and none of those ahead has the message.
Untorn(i) ==
    LET g == gor[i] IN
    /\ g.array = Len(slice[i].arrays) => g.len <= slice[i].len
    /\ \A p, q \in 1 .. g.len : Ranged(i)[p] = Ranged(i)[q] => p = q
    /\ \A p \in 1 .. g.len : Ranged(i)[p] \in Writer
    /\ \A p \in g.i .. g.len : g.msg \notin Range(got[Ranged(i)[p]])

\* No writer of shard i has message k.
Unseen(k, i) == \A w \in OfShard(i) : k \notin Range(got[w])

\* Call k has not come to shard i.
NotYet(k, i) == call[k].pc = "new" \/ (call[k].pc = "open" /\ call[k].at <= i)

\* A message is in the channel of a shard once, then with its goroutine, then with
\* the writers.
QueueOK(i) ==
    LET g == gor[i] IN
    /\ IsInjective(chan[i]) /\ g.msg \notin Range(chan[i])
    /\ \A k \in Range(chan[i]) : Unseen(k, i)
    /\ g.msg # 0 /\ g.len = 0 => Unseen(g.msg, i)
    /\ g.len > 0 /\ <<g.msg, i>> \notin past.torn => Untorn(i)
    /\ \A k \in Call : NotYet(k, i) => k \notin Range(chan[i]) /\ k # g.msg /\ Unseen(k, i)

\* Nothing follows the message that the goroutine of the shard is at.
OrderOK(i) ==
    /\ \A w \in OfShard(i), n \in Call : n # gor[i].msg => ~Before(w, gor[i].msg, n)
    /\ \A v, w \in OfShard(i) : \A m, n \in Call : m # n => ~(Before(v, m, n) /\ Before(w, n, m))

OnceOK ==
    /\ \A w \in Writer : \A a, b \in DOMAIN got[w] :
          a # b /\ got[w][a] = got[w][b] => <<got[w][a], shardIndex[w]>> \in past.torn
    /\ past.panicked => past.torn # {}

Coming(k, w) ==
    LET i == shardIndex[w]
        g == gor[i] IN
    \/ k \in Range(chan[i])
    \/ g.msg = k /\ (g.len = 0 \/ \E p \in g.i .. g.len : Ranged(i)[p] = w)
    \/ <<k, i>> \in past.torn

OwedOK(k) ==
    /\ owes[k] \subseteq Registered
    /\ \A w \in owes[k] :
          call[k].pc = "returned" \/ (call[k].pc = "open" /\ call[k].at > shardIndex[w]) => Coming(k, w)

StopOK ==
    /\ down # "no" => Open \subseteq past.late
    /\ \A i \in Shard : gor[i].pc = "drain" => down # "no"
    /\ \A i \in Shard : gor[i].pc = "ended" => down # "no" /\ Range(chan[i]) \subseteq past.late
    /\ down = "done" => \A i \in Shard : gor[i].pc = "ended"

Shards ==
    /\ ShardTypes
    /\ \A i \in Shard : QueueOK(i) /\ OrderOK(i)
    /\ OnceOK
    /\ \A k \in Call : OwedOK(k)
    /\ StopOK

ShardInv == kind = "sharded" => Shards

-----------------------------------------------------------------------------
(* What a step of one shard leaves alone in the others                      *)

\* What the types say, one by one.
LEMMA ShardFacts ==
    ASSUME ShardTypes
    PROVE  /\ SlicesOK /\ slice \in [Shard -> Slice] /\ call \in [Call -> CallRecord]
           /\ owes \in [Call -> SUBSET Writer] /\ may \in [Call -> SUBSET Writer]
           /\ got \in [Writer -> Seq(Call)] /\ past \in PastRecord
           /\ chan \in [Shard -> Seq(Call)] /\ gor \in [Shard -> GorRecord]
           /\ Registered \subseteq Writer
           /\ \A i \in Shard : HomeArrays(slice[i], i) /\ GoroutineOK(i)
           /\ \A k \in Call : call[k].pc = "new" => call[k].at = 0
           /\ \A k \in Call : k \in Nat /\ k # 0
<1>1. SlicesOK /\ slice \in [Shard -> Slice]
  BY DEF ShardTypes, BaseOK, SlicesOK
<1>2. Registered \subseteq Writer
  BY <1>1, RegisteredHeld
<1>3. \A k \in Call : k \in Nat /\ k # 0
  BY FanoutAssumption DEF Call
<1> QED
  BY <1>1, <1>2, <1>3 DEF ShardTypes, BaseOK, ArraysOK

\* The goroutine of shard i, as far as messages go, is where it was.
SameGoroutine(i) ==
    /\ gor'[i].msg = gor[i].msg /\ gor'[i].array = gor[i].array
    /\ gor'[i].len = gor[i].len /\ gor'[i].i = gor[i].i

-----------------------------------------------------------------------------
(* The steps of the sharded broadcaster                                     *)

\* The hash of an ID names a shard.
LEMMA ShardOf == ASSUME NEW w \in Writer PROVE shardIndex[w] \in Shard
  BY FanoutAssumption

\* What writer w has got before and after message k.
OneMore(k, w) ==
    /\ got' \in [Writer -> Seq(Call)]
    /\ \A v \in Writer : v # w => got'[v] = got[v]
    /\ Range(got'[w]) = Range(got[w]) \cup {k}
    /\ \A v \in Writer : \A m, n : Before(v, m, n)' => n = k \/ Before(v, m, n)
    /\ \A a, b \in DOMAIN got'[w] : a # b /\ got'[w][a] = got'[w][b] =>
          \/ got'[w][a] = k /\ k \in Range(got[w])
          \/ a \in DOMAIN got[w] /\ b \in DOMAIN got[w] /\ got'[w][a] = got[w][a] /\ got[w][a] = got[w][b]

\* The inductive invariant of the sharded broadcaster: in each shard a message is in
\* the channel, then with the goroutine, then with the writers, and an iteration that
\* no Remove meets serves exactly the writers of the slice it copied; what is owed to
\* a writer is on its way there; and an ended goroutine leaves only late messages.
THEOREM ShardInvariance == FanoutSpec => []ShardInv
\* What Add does to the arrays: those before the newest stay, and so do the elements
\* of the slice.
<1>AppendArrays.
      ASSUME NEW s \in Slice, NEW w \in Writer, w \notin Held(s), NEW i, HomeArrays(s, i), shardIndex[w] = i
      PROVE  LET t == Appended(s, w) IN
             /\ HomeArrays(t, i) /\ t.len = s.len + 1 /\ Len(t.arrays) >= Len(s.arrays)
             /\ \A a \in 1 .. Len(s.arrays) :
                   /\ Len(t.arrays[a]) = Len(s.arrays[a])
                   /\ \A p \in 1 .. Len(s.arrays[a]) :
                         a # Len(s.arrays) \/ p <= s.len => t.arrays[a][p] = s.arrays[a][p]
  <2> USE <1>AppendArrays
  <2> DEFINE t == Appended(s, w)
             n == s.len
             L == Len(s.arrays)
             A == s.arrays[L]
             cap == Len(A)
             grown == [j \in 1 .. (IF cap = 0 THEN 1 ELSE 2 * cap) |->
                    IF j <= cap THEN A[j] ELSE IF j = cap + 1 THEN w ELSE NoWriter]
  <2>1. /\ n \in Nat /\ A \in Seq(Nil) /\ n <= cap /\ cap \in Nat /\ s.arrays \in Seq(Seq(Nil)) /\ L > 0 /\ L \in Nat
        /\ \A a \in 1 .. L : s.arrays[a] \in Seq(Nil) /\ Len(s.arrays[a]) \in Nat
    BY DEF Slice
  <2>2. w \notin Range(Elements(s)) /\ w \in Nil /\ NoWriter \in Nil
    BY HeldIsRange DEF Nil
  <2>3. CASE n < cap
    <3> DEFINE B == [A EXCEPT ![n + 1] = w]
    <3>1. t = [arrays |-> [s.arrays EXCEPT ![L] = B], len |-> n + 1]
      BY <2>2, <2>3 DEF Appended, Array
    <3>2. /\ Len(B) = cap /\ B \in Seq(Nil) /\ \A p \in 1 .. cap : B[p] = IF p = n + 1 THEN w ELSE A[p]
      BY <2>1, <2>2, <2>3
    <3> HIDE DEF B, t
    <3>3. t.len = n + 1 /\ t.arrays = [s.arrays EXCEPT ![L] = B]
      BY <3>1, Zenon
    <3>4. Len(t.arrays) = L /\ t.arrays[L] = B /\ \A a \in 1 .. L : a # L => t.arrays[a] = s.arrays[a]
      BY <2>1, <3>2, <3>3
    <3> HIDE DEF A, cap, L, n
    <3>5. \A p \in 1 .. cap : p <= n => B[p] = A[p]
      BY <2>1, <3>2
    <3>6. \A a \in 1 .. L : Len(t.arrays[a]) = Len(s.arrays[a])
      BY <3>2, <3>4 DEF A, cap
    <3>7. \A a \in 1 .. L : \A p \in 1 .. Len(s.arrays[a]) : a # L \/ p <= n => t.arrays[a][p] = s.arrays[a][p]
      BY <3>4, <3>5 DEF A, cap
    <3>8. \A a \in 1 .. L : \A p \in 1 .. Len(s.arrays[a]) : s.arrays[a][p] # NoWriter => shardIndex[s.arrays[a][p]] = i
      BY DEF HomeArrays, L
    <3>9. \A a \in 1 .. L : \A p \in 1 .. Len(s.arrays[a]) : t.arrays[a][p] # NoWriter => shardIndex[t.arrays[a][p]] = i
      <4> SUFFICES ASSUME NEW a \in 1 .. L, NEW p \in 1 .. Len(s.arrays[a]), t.arrays[a][p] # NoWriter
                   PROVE  shardIndex[t.arrays[a][p]] = i
        OBVIOUS
      <4>1. CASE a # L
        BY <3>4, <3>8, <4>1
      <4>2. CASE a = L
        BY <3>2, <3>4, <3>8, <4>2 DEF A, cap
      <4> QED
        BY <4>1, <4>2
    <3>10. HomeArrays(t, i)
      BY <3>4, <3>6, <3>9 DEF HomeArrays
    <3>11. Len(t.arrays) >= L
      BY <2>1, <3>4
    <3> QED
      BY <3>3, <3>6, <3>7, <3>10, <3>11 DEF t, n, L
  <2>4. CASE ~(n < cap)
    <3>0. n = cap
      BY <2>1, <2>4
    <3>1. t = [arrays |-> Append(s.arrays, grown), len |-> n + 1]
      BY <2>2, <2>4 DEF Appended, Array
    <3>2. \E m \in Nat : DOMAIN grown = 1 .. m /\ cap + 1 <= m
      <4>1. CASE cap = 0
        BY <4>1
      <4>2. CASE cap # 0
        <5>1. DOMAIN grown = 1 .. 2 * cap /\ 2 * cap \in Nat /\ cap + 1 <= 2 * cap
          BY <2>1, <4>2
        <5> QED
          BY <5>1
      <4> QED
        BY <4>1, <4>2
    <3>3. \A j \in DOMAIN grown : grown[j] = IF j <= cap THEN A[j] ELSE IF j = cap + 1 THEN w ELSE NoWriter
      OBVIOUS
    <3> HIDE DEF grown, t
    <3>4. PICK m \in Nat : DOMAIN grown = 1 .. m /\ cap + 1 <= m
      BY <3>2
    <3>5. grown \in Seq(Nil) /\ Len(grown) = m
      <4>1. \A j \in 1 .. m : grown[j] \in Nil
        BY <2>1, <2>2, <3>3, <3>4
      <4>2. grown = [j \in 1 .. m |-> grown[j]]
        BY <3>1, <3>4, Zenon DEF grown
      <4> QED
        BY <4>1, <4>2
    <3>6. t.len = n + 1 /\ t.arrays = Append(s.arrays, grown)
      BY <3>1
    <3>7. Len(t.arrays) = L + 1 /\ t.arrays[L + 1] = grown /\ \A a \in 1 .. L : t.arrays[a] = s.arrays[a]
      BY <2>1, <3>5, <3>6
    <3> HIDE DEF A, cap, L, n
    <3>8. \A a \in 1 .. L : \A p \in 1 .. Len(s.arrays[a]) : s.arrays[a][p] # NoWriter => shardIndex[s.arrays[a][p]] = i
      BY DEF HomeArrays, L
    <3>9. ASSUME NEW p \in 1 .. m, grown[p] # NoWriter PROVE shardIndex[grown[p]] = i
      <4>1. CASE p <= cap
        <5>1. grown[p] = A[p] /\ p \in 1 .. cap /\ L \in 1 .. L
          BY <2>1, <3>3, <3>4, <3>9, <4>1
        <5> QED
          BY <3>8, <3>9, <5>1 DEF A, cap
      <4>2. CASE ~(p <= cap)
        BY <3>3, <3>4, <3>9, <4>2
      <4> QED
        BY <4>1, <4>2
    <3>10. \A a \in 1 .. L + 1 : a = L + 1 \/ a \in 1 .. L
      BY <2>1
    <3>11. HomeArrays(t, i)
      BY <3>5, <3>7, <3>8, <3>9, <3>10 DEF HomeArrays
    <3>12. Len(t.arrays) >= L
      BY <2>1, <3>7
    <3> QED
      BY <3>6, <3>7, <3>11, <3>12 DEF t, n, L
  <2> QED
    BY <2>3, <2>4
\* What Remove does to them.
<1>SwapArrays.
      ASSUME NEW s \in Slice, NEW w \in Writer, NEW i, HomeArrays(s, i)
      PROVE  LET t == SwapDeleted(s, w) IN
             /\ HomeArrays(t, i) /\ Len(t.arrays) = Len(s.arrays)
             /\ \A a \in 1 .. Len(s.arrays) : Len(t.arrays[a]) = Len(s.arrays[a])
  <2> USE <1>SwapArrays
  <2> DEFINE t == SwapDeleted(s, w)
             n == s.len
             L == Len(s.arrays)
             A == s.arrays[L]
             j == CHOOSE x \in 1 .. n : A[x] = w
  <2>1. /\ n \in Nat /\ A \in Seq(Nil) /\ n <= Len(A) /\ Len(A) \in Nat /\ s.arrays \in Seq(Seq(Nil)) /\ L > 0 /\ L \in Nat
        /\ NoWriter \in Nil
    BY DEF Slice, Nil
  <2>2. CASE w \notin Held(s)
    <3>1. t = s
      BY <2>2, HeldIsRange DEF SwapDeleted
    <3> QED
      BY <3>1
  <2>3. CASE w \in Held(s)
    <3>1. j \in 1 .. n /\ A[j] = w
      BY <2>3 DEF Held
    <3> DEFINE B == [A EXCEPT ![j] = A[n], ![n] = NoWriter]
    <3>2. t = [arrays |-> [s.arrays EXCEPT ![L] = B], len |-> n - 1]
      <4>1. w \in Range(Elements(s))
        BY <2>3, HeldIsRange
      <4> QED
        BY <4>1 DEF SwapDeleted, Array
    <3> HIDE DEF j
    <3>3. B \in Seq(Nil) /\ Len(B) = Len(A) /\ \A p \in 1 .. Len(A) : B[p] \in {NoWriter, A[n], A[p]} /\ n \in 1 .. Len(A)
      <4>1. n \in 1 .. Len(A) /\ j \in 1 .. Len(A) /\ A[n] \in Nil
        BY <2>1, <3>1
      <4> QED
        BY <2>1, <4>1
    <3> HIDE DEF B, t
    <3>4. t.arrays = [s.arrays EXCEPT ![L] = B]
      BY <3>2
    <3>5. Len(t.arrays) = L /\ L \in 1 .. L /\ t.arrays[L] = B /\ \A a \in 1 .. L : a # L => t.arrays[a] = s.arrays[a]
      BY <2>1, <3>3, <3>4
    <3> HIDE DEF A, L, n
    <3>6. \A a \in 1 .. L : Len(t.arrays[a]) = Len(s.arrays[a])
      BY <3>3, <3>5 DEF A
    <3>7. \A a \in 1 .. L : \A p \in 1 .. Len(s.arrays[a]) : s.arrays[a][p] # NoWriter => shardIndex[s.arrays[a][p]] = i
      BY DEF HomeArrays, L
    <3>8. ASSUME NEW a \in 1 .. L, NEW p \in 1 .. Len(s.arrays[a]), t.arrays[a][p] # NoWriter
          PROVE  shardIndex[t.arrays[a][p]] = i
      <4>1. CASE a # L
        BY <3>5, <3>7, <3>8, <4>1
      <4>2. CASE a = L
        <5>1. p \in 1 .. Len(A) /\ t.arrays[a][p] = B[p] /\ L \in 1 .. L
          BY <3>5, <3>8, <4>2 DEF A
        <5>2. t.arrays[a][p] \in {A[n], A[p]} /\ n \in 1 .. Len(A)
          BY <3>3, <3>8, <5>1
        <5>3. \A q \in 1 .. Len(A) : A[q] # NoWriter => shardIndex[A[q]] = i
          BY <3>7, <5>1 DEF A
        <5> QED
          BY <3>8, <5>1, <5>2, <5>3
      <4> QED
        BY <4>1, <4>2
    <3>9. HomeArrays(t, i)
      BY <3>5, <3>6, <3>8 DEF HomeArrays
    <3> QED
      BY <3>5, <3>6, <3>9 DEF t, L
  <2> QED
    BY <2>2, <2>3
\* The elements that a goroutine ranges over are writers of its shard, or nil.
<1>RangedHome.
      ASSUME ShardTypes, NEW i \in Shard, gor[i].len > 0, NEW p \in 1 .. gor[i].len
      PROVE  /\ p \in 1 .. Len(Ranged(i)) /\ Ranged(i)[p] \in Nil
             /\ Ranged(i)[p] # NoWriter => Ranged(i)[p] \in OfShard(i)
  <2> USE <1>RangedHome
  <2> DEFINE a == gor[i].array
             A == slice[i].arrays[a]
  <2>1. /\ a \in 1 .. Len(slice[i].arrays) /\ gor[i].len <= Len(A) /\ gor[i].len \in Nat
        /\ slice[i].arrays \in Seq(Seq(Nil))
    BY ShardFacts, Zenon DEF GoroutineOK, Ranged, Slice, GorRecord
  <2>2. A \in Seq(Nil)
    BY <2>1
  <2> HIDE DEF A
  <2>3. p \in 1 .. Len(A) /\ A[p] \in Nil
    BY <2>1, <2>2
  <2>4. A[p] # NoWriter => shardIndex[A[p]] = i
    BY <2>1, <2>3, ShardFacts, Zenon DEF HomeArrays, A
  <2>5. Ranged(i) = A
    BY DEF Ranged, A
  <2> QED
    BY <2>3, <2>4, <2>5 DEF OfShard, Nil
\* An iteration goes on as before while its array and the messages of its writers do.
<1>UntornFrame.
      ASSUME ShardTypes, NEW i \in Shard, Untorn(i), gor[i].len > 0, SameGoroutine(i),
             \A p \in 1 .. gor[i].len : Ranged(i)'[p] = Ranged(i)[p],
             gor[i].array = Len(slice'[i].arrays) => gor[i].len <= slice'[i].len,
             \A w \in OfShard(i) : got'[w] = got[w]
      PROVE  Untorn(i)'
  <2> USE <1>UntornFrame
  <2> DEFINE g == gor[i]
             A == Ranged(i)
  <2>1. /\ g.len \in Nat /\ g.i \in 1 .. g.len
    BY ShardFacts, Zenon DEF GoroutineOK, GorRecord
  <2>2. /\ \A p, q \in 1 .. g.len : A[p] = A[q] => p = q
        /\ \A p \in 1 .. g.len : A[p] \in Writer
        /\ \A p \in g.i .. g.len : g.msg \notin Range(got[A[p]])
    BY Zenon DEF Untorn
  <2>3. \A p \in g.i .. g.len : p \in 1 .. g.len
    BY <2>1
  <2>4. \A p \in 1 .. g.len : A[p] \in OfShard(i) /\ Ranged(i)'[p] = A[p]
    BY <2>2, <1>RangedHome, FanoutAssumption
  <2>5. gor'[i].len = g.len /\ gor'[i].i = g.i /\ gor'[i].msg = g.msg /\ gor'[i].array = g.array
    BY Zenon DEF SameGoroutine
  <2> HIDE DEF g, A
  <2>6. \A p \in g.i .. g.len : g.msg \notin Range(got'[Ranged(i)'[p]])
    BY <2>2, <2>3, <2>4, Zenon
  <2>7. g.array = Len(slice'[i].arrays) => g.len <= slice'[i].len
    BY Zenon DEF g
  <2>8. \A p, q \in 1 .. g.len : Ranged(i)'[p] = Ranged(i)'[q] => p = q
    BY <2>2, <2>4, Zenon
  <2>9. \A p \in 1 .. g.len : Ranged(i)'[p] \in Writer
    BY <2>2, <2>4, Zenon
  <2> QED
    BY <2>5, <2>6, <2>7, <2>8, <2>9, Zenon DEF Untorn
\* So do the channel and the goroutine of a shard.
<1>QueueFrame.
      ASSUME ShardTypes, NEW i \in Shard, QueueOK(i), chan'[i] = chan[i], SameGoroutine(i),
             gor[i].len > 0 /\ <<gor[i].msg, i>> \notin past'.torn =>
                /\ <<gor[i].msg, i>> \notin past.torn
                /\ \A p \in 1 .. gor[i].len : Ranged(i)'[p] = Ranged(i)[p]
                /\ gor[i].array = Len(slice'[i].arrays) => gor[i].len <= slice'[i].len,
             \A w \in OfShard(i) : got'[w] = got[w],
             \A k \in Call : NotYet(k, i)' => NotYet(k, i)
      PROVE  QueueOK(i)'
  <2> USE <1>QueueFrame
  <2>1. \A k : Unseen(k, i)' <=> Unseen(k, i)
    BY Zenon DEF Unseen, OfShard
  <2>2. gor'[i].len > 0 /\ <<gor'[i].msg, i>> \notin past'.torn => Untorn(i)'
    BY <1>UntornFrame, Zenon DEF QueueOK, SameGoroutine
  <2>3. \A k \in Call : NotYet(k, i)' => k \notin Range(chan'[i]) /\ k # gor'[i].msg /\ Unseen(k, i)'
    BY <2>1, Zenon DEF QueueOK, SameGoroutine
  <2>4. /\ IsInjective(chan'[i]) /\ gor'[i].msg \notin Range(chan'[i])
        /\ \A k \in Range(chan'[i]) : Unseen(k, i)'
        /\ gor'[i].msg # 0 /\ gor'[i].len = 0 => (Unseen(gor[i].msg, i))'
    BY <2>1, Zenon DEF QueueOK, SameGoroutine
  <2> QED
    BY <2>2, <2>3, <2>4, Zenon DEF QueueOK
\* Nobody has a message that was never sent.
<1>ZeroUnseen. ASSUME ShardTypes, NEW i \in Shard PROVE Unseen(0, i)
  <2> USE <1>ZeroUnseen
  <2>1. \A w \in Writer : Range(got[w]) \subseteq Call
    BY ShardFacts, RangeIs, Zenon
  <2> QED
    BY <2>1, ShardFacts, Zenon DEF Unseen, OfShard
\* The order in a shard depends on what its writers got and on the message in hand.
<1>OrderFrame.
      ASSUME NEW i \in Shard, OrderOK(i), \A w \in OfShard(i) : got'[w] = got[w],
             gor'[i].msg = gor[i].msg \/ Unseen(gor'[i].msg, i)
      PROVE  OrderOK(i)'
  <2> USE <1>OrderFrame
  <2>1. \A w \in OfShard(i) : \A m, n : Before(w, m, n)' <=> Before(w, m, n)
    BY Zenon DEF Before
  <2>2. ASSUME NEW w \in OfShard(i), NEW n \in Call, n # gor'[i].msg PROVE ~Before(w, gor'[i].msg, n)
    <3>1. CASE gor'[i].msg = gor[i].msg
      BY <2>2, <3>1, Zenon DEF OrderOK
    <3>2. CASE Unseen(gor'[i].msg, i)
      BY <2>2, <3>2, Zenon DEF Unseen, Before, Range
    <3> QED
      BY <3>1, <3>2, Zenon
  <2>3. \A v, w \in OfShard(i) : \A m, n \in Call : m # n => ~(Before(v, m, n)' /\ Before(w, n, m)')
    BY <2>1, Zenon DEF OrderOK
  <2>4. \A w \in OfShard(i), n \in Call : n # gor'[i].msg => ~(Before(w, gor[i].msg, n))'
    BY <2>1, <2>2
  <2> QED
    BY <2>3, <2>4, Zenon DEF OrderOK, OfShard
\* A message that is coming still does, if its shard loses nothing.
<1>ComingFrame.
      ASSUME NEW k \in Call, NEW w \in Writer, NEW i, i = shardIndex[w], Coming(k, w), SameGoroutine(i),
             k \in Range(chan[i]) => k \in Range(chan'[i]),
             <<k, i>> \in past.torn => <<k, i>> \in past'.torn,
             gor[i].len = 0 \/ <<gor[i].msg, i>> \in past'.torn
                \/ \A p \in gor[i].i .. gor[i].len : Ranged(i)'[p] = Ranged(i)[p]
      PROVE  Coming(k, w)'
    BY <1>ComingFrame, Zenon DEF Coming, SameGoroutine
\* What a call owes is still on its way if it was.
<1>OwedFrame.
      ASSUME NEW k \in Call, OwedOK(k), owes'[k] \subseteq owes[k], owes'[k] \subseteq Registered',
             call'[k] = call[k], \A w \in owes'[k] : Coming(k, w) => Coming(k, w)'
      PROVE  OwedOK(k)'
    BY <1>OwedFrame, Zenon DEF OwedOK
\* A writer is in the shard that its ID is hashed to.
<1>HomeSharded. ASSUME kind = "sharded" PROVE \A w : Home(w) = shardIndex[w]
    BY <1>HomeSharded DEF Home
\* Add: the goroutine that ranges over the array sees nothing of it.
<1>ShardAddStep.
      ASSUME Shards, kind = "sharded", NEW w \in Writer, ShardedAdd(w)
      PROVE  Shards'
  <2> USE <1>ShardAddStep
  <2> DEFINE i == shardIndex[w]
  <2>1. /\ w \notin Registered /\ slice' = [slice EXCEPT ![i] = Appended(@, w)]
        /\ UNCHANGED <<kind, call, chan, gor, down, got, past, owes>>
    BY DEF ShardedAdd, Join, Of
  <2>2. ShardTypes /\ i \in Shard /\ Home(w) = i
    BY <1>HomeSharded, ShardOf DEF Shards
  <2>3. SlicesOK' /\ Registered' = Registered \cup {w}
    <3>1. slice' = [slice EXCEPT ![Home(w)] = Appended(@, w)]
      BY <2>1, <2>2
    <3> QED
      BY <2>1, <2>2, <3>1, ShardFacts, SlicesJoin, Zenon
  <2>4. may' \in [Call -> SUBSET Writer]
    <3>1. may' = [k \in Call |-> IF k \in Open /\ kind \in Synchronous THEN may[k] \cup {w} ELSE may[k]]
      BY DEF ShardedAdd, Join
    <3> QED
      BY <2>2, <3>1, ShardFacts
  <2>5. BaseOK'
    BY <2>1, <2>2, <2>3, <2>4 DEF BaseOK, ShardTypes
  <2> DEFINE s == slice[i]
             t == Appended(s, w)
  <2>6. s \in Slice /\ w \notin Held(s) /\ HomeArrays(s, i)
    BY <2>1, <2>2, ShardFacts, RegisteredHeld
  <2>7. /\ HomeArrays(t, i) /\ t.len = s.len + 1 /\ Len(t.arrays) >= Len(s.arrays)
        /\ \A a \in 1 .. Len(s.arrays) :
              /\ Len(t.arrays[a]) = Len(s.arrays[a])
              /\ \A p \in 1 .. Len(s.arrays[a]) :
                    a # Len(s.arrays) \/ p <= s.len => t.arrays[a][p] = s.arrays[a][p]
    BY <2>2, <2>6, <1>AppendArrays, Zenon
  <2>8. slice'[i] = t /\ \A j \in Shard : j # i => slice'[j] = slice[j]
    BY <2>1, <2>2, ShardFacts, Zenon
  <2>9. /\ gor \in [Shard -> GorRecord] /\ gor[i].len \in Nat /\ gor[i].array \in Nat /\ gor[i].i \in Nat
        /\ s.len \in Nat /\ Len(s.arrays) \in Nat /\ Len(t.arrays) \in Nat
    <3>1. t \in Slice
      BY <2>6, AppendHolds
    <3>2. gor \in [Shard -> GorRecord] /\ gor[i] \in GorRecord
      BY <2>2, ShardFacts, Zenon
    <3>3. gor[i].len \in Nat /\ gor[i].array \in Nat /\ gor[i].i \in Nat
      BY <3>2 DEF GorRecord
    <3> HIDE DEF t, s
    <3>4. s.len \in Nat /\ Len(s.arrays) \in Nat /\ Len(t.arrays) \in Nat
      BY <2>6, <3>1 DEF Slice
    <3> QED
      BY <3>2, <3>3, <3>4
  <2> HIDE DEF t
  <2>10. ArraysOK' /\ \A j \in Shard : GoroutineOK(j)'
    <3>1. ArraysOK'
      BY <2>2, <2>7, <2>8, ShardFacts, Zenon DEF ArraysOK
    <3>2. ASSUME NEW j \in Shard, j # i PROVE GoroutineOK(j)'
      <4>1. GoroutineOK(j)
        BY <2>2, ShardFacts, Zenon
      <4> QED
        BY <2>1, <2>8, <3>2, <4>1, Zenon DEF GoroutineOK, Ranged
    <3>3. GoroutineOK(i)'
      <4>1. GoroutineOK(i)
        BY <2>2, ShardFacts, Zenon
      <4>2. gor[i].len > 0 => gor[i].array \in 1 .. Len(s.arrays) /\ gor[i].i \in 1 .. gor[i].len
                              /\ gor[i].len <= Len(s.arrays[gor[i].array])
        BY <4>1, Zenon DEF GoroutineOK, Ranged
      <4>3. ASSUME gor[i].len > 0 PROVE gor[i].array \in 1 .. Len(t.arrays) /\ gor[i].len <= Len(t.arrays[gor[i].array])
        <5>1. gor[i].array \in 1 .. Len(s.arrays) /\ gor[i].len <= Len(s.arrays[gor[i].array])
          BY <4>2, <4>3
        <5>2. Len(t.arrays[gor[i].array]) = Len(s.arrays[gor[i].array]) /\ Len(t.arrays) >= Len(s.arrays)
          BY <2>7, <5>1, Zenon
        <5> HIDE DEF s
        <5> QED
          BY <2>9, <5>1, <5>2
      <4> QED
        BY <2>1, <2>8, <4>1, <4>2, <4>3, Zenon DEF GoroutineOK, Ranged
    <3> QED
      BY <3>1, <3>2, <3>3
  <2>11. ShardTypes'
    BY <2>1, <2>2, <2>5, <2>10, Zenon DEF ShardTypes
  <2>12. ASSUME gor[i].len > 0, <<gor[i].msg, i>> \notin past.torn
         PROVE  /\ \A p \in 1 .. gor[i].len : Ranged(i)'[p] = Ranged(i)[p]
                /\ gor[i].array = Len(slice'[i].arrays) => gor[i].len <= slice'[i].len
    <3>1. gor[i].array = Len(s.arrays) => gor[i].len <= s.len
      BY <2>2, <2>12, Zenon DEF Shards, QueueOK, Untorn
    <3>2. gor[i].array \in 1 .. Len(s.arrays) /\ gor[i].len <= Len(s.arrays[gor[i].array])
      BY <2>2, <2>12, ShardFacts, Zenon DEF GoroutineOK, Ranged
    <3>3. Ranged(i)' = t.arrays[gor[i].array] /\ Ranged(i) = s.arrays[gor[i].array]
      BY <2>1, <2>8 DEF Ranged
    <3>4. Len(s.arrays[gor[i].array]) \in Nat
      <4> HIDE DEF s
      <4>1. s.arrays \in Seq(Seq(Nil))
        BY <2>6 DEF Slice
      <4>2. s.arrays[gor[i].array] \in Seq(Nil)
        BY <3>2, <4>1
      <4> QED
        BY <4>2
    <3>5. \A p \in 1 .. gor[i].len : p \in 1 .. Len(s.arrays[gor[i].array]) /\ (gor[i].array # Len(s.arrays) \/ p <= s.len)
      <4> HIDE DEF s
      <4> QED
        BY <2>9, <3>1, <3>2, <3>4
    <3>6. \A p \in 1 .. gor[i].len : t.arrays[gor[i].array][p] = s.arrays[gor[i].array][p]
      BY <2>7, <3>2, <3>5, Zenon
    <3>7. gor[i].array = Len(t.arrays) => gor[i].len <= t.len
      BY <2>7, <2>9, <3>1, <3>2
    <3> QED
      BY <2>8, <3>3, <3>6, <3>7, Zenon
  <2>13. ASSUME NEW j \in Shard PROVE QueueOK(j)' /\ OrderOK(j)'
    <3>0. QueueOK(j) /\ OrderOK(j)
      BY DEF Shards
    <3>1. SameGoroutine(j) /\ chan'[j] = chan[j] /\ \A k \in Call : NotYet(k, j)' => NotYet(k, j)
      BY <2>1 DEF SameGoroutine, NotYet
    <3>2. gor[j].len > 0 /\ <<gor[j].msg, j>> \notin past'.torn =>
                /\ <<gor[j].msg, j>> \notin past.torn
                /\ \A p \in 1 .. gor[j].len : Ranged(j)'[p] = Ranged(j)[p]
                /\ gor[j].array = Len(slice'[j].arrays) => gor[j].len <= slice'[j].len
      <4>1. CASE j = i
        BY <2>1, <2>12, <4>1, Zenon
      <4>2. CASE j # i
        BY <2>1, <2>8, <3>0, <4>2, Zenon DEF QueueOK, Untorn, Ranged
      <4> QED
        BY <4>1, <4>2, Zenon
    <3>3. QueueOK(j)'
      BY <2>1, <2>2, <3>0, <3>1, <3>2, <1>QueueFrame, Zenon
    <3>4. OrderOK(j)'
      BY <2>1, <3>0, <1>OrderFrame
    <3> QED
      BY <3>3, <3>4
  <2>14. OnceOK'
    BY <2>1, Zenon DEF Shards, OnceOK
  <2>15. ASSUME NEW k \in Call PROVE OwedOK(k)'
    <3>1. OwedOK(k) /\ owes'[k] = owes[k] /\ owes[k] \subseteq Writer
      BY <2>1, <2>2, ShardFacts DEF Shards
    <3>2. owes'[k] \subseteq Registered'
      BY <2>3, <3>1 DEF OwedOK
    <3>3. ASSUME NEW v \in owes'[k], Coming(k, v) PROVE Coming(k, v)'
      <4> DEFINE j == shardIndex[v]
      <4>1. v \in Writer /\ j \in Shard /\ SameGoroutine(j)
        BY <2>1, <3>1, <3>3, ShardOf, Zenon DEF SameGoroutine
      <4>2. gor[j].len = 0 \/ <<gor[j].msg, j>> \in past'.torn
                \/ \A p \in gor[j].i .. gor[j].len : Ranged(j)'[p] = Ranged(j)[p]
        <5>1. CASE j # i
          BY <2>1, <2>8, <4>1, <5>1, Zenon DEF Ranged
        <5>2. CASE j = i /\ gor[i].len > 0 /\ <<gor[i].msg, i>> \notin past.torn
          <6>1. gor[i].i \in 1 .. gor[i].len
            BY <2>2, <5>2, ShardFacts, Zenon DEF GoroutineOK
          <6>2. \A p \in gor[i].i .. gor[i].len : p \in 1 .. gor[i].len
            BY <2>9, <6>1
          <6> QED
            BY <2>12, <5>2, <6>2, Zenon
        <5> QED
          BY <2>1, <2>9, <5>1, <5>2
      <4>3. j = shardIndex[v] /\ chan'[j] = chan[j] /\ past' = past
        BY <2>1, Zenon
      <4> HIDE DEF j
      <4> QED
        BY <3>3, <4>1, <4>2, <4>3, <1>ComingFrame, Zenon
    <3> QED
      BY <2>1, <3>1, <3>2, <3>3, <1>OwedFrame, Zenon
  <2>16. StopOK'
    BY <2>1, Zenon DEF Shards, StopOK, Open
  <2> QED
    BY <2>11, <2>13, <2>14, <2>15, <2>16 DEF Shards
\* Remove: if it meets an iteration, the iteration is torn.
<1>ShardRemoveStep.
      ASSUME Shards, kind = "sharded", NEW w \in Writer, ShardedRemove(w)
      PROVE  Shards'
  <2> USE <1>ShardRemoveStep
  <2> DEFINE i == shardIndex[w]
             X == IF gor[i].len > 0 THEN {<<gor[i].msg, i>>} ELSE {}
  <2>1. /\ slice' = [slice EXCEPT ![i] = SwapDeleted(@, w)]
        /\ owes' = [k \in Call |-> owes[k] \ {w}]
        /\ past' = [past EXCEPT !.removes = past.removes + 1, !.torn = past.torn \cup X]
        /\ UNCHANGED <<kind, call, chan, gor, down, got, may>>
    BY DEF ShardedRemove, Leave, Of
  <2>2. ShardTypes /\ i \in Shard /\ Home(w) = i
    BY <1>HomeSharded, ShardOf DEF Shards
  <2>3. SlicesOK' /\ Registered' = Registered \ {w}
    <3>1. slice' = [slice EXCEPT ![Home(w)] = SwapDeleted(@, w)]
      BY <2>1, <2>2
    <3> QED
      BY <2>1, <2>2, <3>1, ShardFacts, SlicesLeave, Zenon
  <2>4. owes' \in [Call -> SUBSET Writer] /\ \A k \in Call : owes'[k] = owes[k] \ {w}
    BY <2>1, <2>2, ShardFacts
  <2>5. /\ past' \in PastRecord /\ past'.torn = past.torn \cup X /\ past'.late = past.late
        /\ past'.panicked = past.panicked
    <3>1. past \in PastRecord /\ past.removes + 1 \in Nat
      BY <2>2, ShardFacts DEF PastRecord
    <3>2. gor[i].len > 0 => gor[i].msg \in Call
      BY <2>2, ShardFacts DEF GoroutineOK, GorRecord
    <3>3. X \subseteq Call \X Shard
      BY <2>2, <3>2
    <3> HIDE DEF X
    <3>4. past.torn \cup X \in SUBSET (Call \X Shard)
      BY <3>1, <3>3 DEF PastRecord
    <3> QED
      BY <2>1, <3>1, <3>4, Zenon DEF PastRecord
  <2>6. BaseOK'
    BY <2>1, <2>2, <2>3, <2>4, <2>5 DEF BaseOK, ShardTypes
  <2> DEFINE s == slice[i]
             t == SwapDeleted(s, w)
  <2>7. s \in Slice /\ HomeArrays(s, i)
    BY <2>2, ShardFacts, Zenon
  <2>8. /\ HomeArrays(t, i) /\ Len(t.arrays) = Len(s.arrays)
        /\ \A a \in 1 .. Len(s.arrays) : Len(t.arrays[a]) = Len(s.arrays[a])
    BY <2>7, <1>SwapArrays, Zenon
  <2>9. slice'[i] = t /\ \A j \in Shard : j # i => slice'[j] = slice[j]
    BY <2>1, <2>2, ShardFacts
  <2> HIDE DEF t
  <2>10. ArraysOK' /\ \A j \in Shard : GoroutineOK(j)'
    <3>1. ArraysOK'
      BY <2>2, <2>8, <2>9, ShardFacts, Zenon DEF ArraysOK
    <3>2. ASSUME NEW j \in Shard, j # i PROVE GoroutineOK(j)'
      <4>1. GoroutineOK(j)
        BY <2>2, ShardFacts, Zenon
      <4> QED
        BY <2>1, <2>9, <3>2, <4>1, Zenon DEF GoroutineOK, Ranged
    <3>3. GoroutineOK(i)'
      <4>1. GoroutineOK(i)
        BY <2>2, ShardFacts, Zenon
      <4> QED
        BY <2>1, <2>8, <2>9, <4>1 DEF GoroutineOK, Ranged
    <3> QED
      BY <3>1, <3>2, <3>3
  <2>11. ShardTypes'
    BY <2>1, <2>2, <2>6, <2>10 DEF ShardTypes
  <2>12. gor[i].len \in Nat /\ (gor[i].len > 0 => <<gor[i].msg, i>> \in past'.torn) /\ past.torn \subseteq past'.torn
    BY <2>2, <2>5, ShardFacts, Zenon DEF GorRecord
  <2> HIDE DEF X
  <2>13. ASSUME NEW j \in Shard PROVE QueueOK(j)' /\ OrderOK(j)'
    <3>0. QueueOK(j) /\ OrderOK(j)
      BY DEF Shards
    <3>1. SameGoroutine(j) /\ chan'[j] = chan[j] /\ \A k \in Call : NotYet(k, j)' => NotYet(k, j)
      BY <2>1 DEF SameGoroutine, NotYet
    <3>2. gor[j].len > 0 /\ <<gor[j].msg, j>> \notin past'.torn =>
                /\ <<gor[j].msg, j>> \notin past.torn
                /\ \A p \in 1 .. gor[j].len : Ranged(j)'[p] = Ranged(j)[p]
                /\ gor[j].array = Len(slice'[j].arrays) => gor[j].len <= slice'[j].len
      <4>1. CASE j = i
        BY <2>12, <4>1
      <4>2. CASE j # i
        BY <2>1, <2>9, <2>12, <3>0, <4>2, Zenon DEF QueueOK, Untorn, Ranged
      <4> QED
        BY <4>1, <4>2, Zenon
    <3>3. QueueOK(j)'
      BY <2>1, <2>2, <3>0, <3>1, <3>2, <1>QueueFrame
    <3>4. OrderOK(j)'
      BY <2>1, <3>0, <1>OrderFrame
    <3> QED
      BY <3>3, <3>4
  <2>14. OnceOK'
    BY <2>1, <2>5, <2>12 DEF Shards, OnceOK
  <2>15. ASSUME NEW k \in Call PROVE OwedOK(k)'
    <3>1. OwedOK(k) /\ owes'[k] = owes[k] \ {w} /\ owes[k] \subseteq Writer
      BY <2>2, <2>4, ShardFacts DEF Shards
    <3>2. owes'[k] \subseteq Registered' /\ owes'[k] \subseteq owes[k]
      BY <2>3, <3>1, Zenon DEF OwedOK
    <3>3. ASSUME NEW v \in owes'[k], Coming(k, v) PROVE Coming(k, v)'
      <4> DEFINE j == shardIndex[v]
      <4>1. v \in Writer /\ j \in Shard /\ SameGoroutine(j)
        BY <2>1, <3>1, <3>3, ShardOf DEF SameGoroutine
      <4>2. gor[j].len = 0 \/ <<gor[j].msg, j>> \in past'.torn
                \/ \A p \in gor[j].i .. gor[j].len : Ranged(j)'[p] = Ranged(j)[p]
        <5>1. CASE j # i
          BY <2>1, <2>9, <4>1, <5>1 DEF Ranged
        <5>2. CASE j = i
          BY <2>12, <5>2
        <5> QED
          BY <5>1, <5>2, Zenon
      <4>3. j = shardIndex[v] /\ chan'[j] = chan[j] /\ past.torn \subseteq past'.torn
        BY <2>1, <2>12
      <4> HIDE DEF j
      <4> QED
        BY <3>3, <4>1, <4>2, <4>3, <1>ComingFrame, Zenon
    <3> QED
      BY <2>1, <3>1, <3>2, <3>3, <1>OwedFrame
  <2>16. StopOK'
    BY <2>1, <2>5 DEF Shards, StopOK, Open
  <2> QED
    BY <2>11, <2>13, <2>14, <2>15, <2>16 DEF Shards
\* What does not change while the slices do not.
<1>SlicesStay.
      ASSUME ShardTypes, kind' = kind, slice' = slice
      PROVE  SlicesOK' /\ ArraysOK' /\ Registered' = Registered
  <2> USE <1>SlicesStay
  <2>1. SlicesOK
    BY ShardFacts
  <2>2. SlicesOK'
    BY <2>1, Zenon DEF SlicesOK, Home
  <2>3. ArraysOK
    BY Zenon DEF ShardTypes
  <2>4. ArraysOK'
    BY <2>3, Zenon DEF ArraysOK
  <2> QED
    BY <2>2, <2>4, SameRegistered
\* The calls: one begins, goes on or returns; the goroutines do not notice.
<1>CallTypes.
      ASSUME ShardTypes, kind' = kind, UNCHANGED <<slice, gor, got>>, chan' \in [Shard -> Seq(Call)],
             call' \in [Call -> CallRecord], \A k \in Call : call'[k].pc = "new" => call'[k].at = 0,
             owes' \in [Call -> SUBSET Writer], may' \in [Call -> SUBSET Writer], past' \in PastRecord
      PROVE  ShardTypes' /\ Registered' = Registered
  <2> USE <1>CallTypes
  <2>1. SlicesOK' /\ ArraysOK' /\ Registered' = Registered
    BY <1>SlicesStay
  <2>2. BaseOK'
    BY <2>1, ShardFacts, Zenon DEF BaseOK
  <2>3. \A i \in Shard : GoroutineOK(i)'
    BY ShardFacts, Zenon DEF GoroutineOK, Ranged
  <2> QED
    BY <2>1, <2>2, <2>3, ShardFacts DEF ShardTypes
\* A call begins.
<1>ShardBeginStep.
      ASSUME Shards, kind = "sharded", kind' = kind, NEW k \in Call, Begin(k),
             call' = [call EXCEPT ![k].pc = "open"],
             past' = [past EXCEPT !.late = @ \cup IF down = "no" THEN {} ELSE {k}],
             UNCHANGED <<slice, chan, gor, down, got>>
      PROVE  Shards'
  <2> USE <1>ShardBeginStep
  <2> DEFINE X == IF down = "no" THEN {} ELSE {k}
  <2>0. ShardTypes
    BY DEF Shards
  <2>1. call[k].pc = "new" /\ owes' = [owes EXCEPT ![k] = Registered] /\ may' = [may EXCEPT ![k] = {}]
    BY DEF Begin, Synchronous
  <2>2. /\ call' \in [Call -> CallRecord]
        /\ call'[k].pc = "open" /\ call'[k].at = call[k].at /\ call'[k].err = call[k].err
        /\ \A j \in Call : j # k => call'[j] = call[j]
    BY <2>0, ShardFacts, CallOpens, Zenon
  <2>3. /\ owes' \in [Call -> SUBSET Writer] /\ may' \in [Call -> SUBSET Writer]
        /\ owes'[k] = Registered /\ \A j \in Call : j # k => owes'[j] = owes[j]
    BY <2>0, <2>1, ShardFacts
  <2>4. /\ past' \in PastRecord /\ past'.torn = past.torn /\ past'.late = past.late \cup X
        /\ past'.panicked = past.panicked
    <3>1. past \in PastRecord /\ past.late \cup X \in SUBSET Call
      BY <2>0, ShardFacts DEF PastRecord
    <3>2. past' = [past EXCEPT !.late = past.late \cup X]
      OBVIOUS
    <3> HIDE DEF X
    <3> QED
      BY <3>1, <3>2 DEF PastRecord
  <2>5. ShardTypes' /\ Registered' = Registered
    <3>1. \A j \in Call : call'[j].pc = "new" => call'[j].at = 0
      BY <2>0, <2>2, ShardFacts
    <3>2. chan' \in [Shard -> Seq(Call)]
      BY <2>0, ShardFacts
    <3> QED
      BY <2>0, <2>2, <2>3, <2>4, <3>1, <3>2, <1>CallTypes
  <2>6. ASSUME NEW i \in Shard PROVE QueueOK(i)' /\ OrderOK(i)'
    <3>0. QueueOK(i) /\ OrderOK(i)
      BY DEF Shards
    <3>1. SameGoroutine(i) /\ \A j \in Call : NotYet(j, i)' => NotYet(j, i)
      BY <2>1, <2>2 DEF SameGoroutine, NotYet
    <3>2. Ranged(i)' = Ranged(i)
      BY DEF Ranged
    <3>3. QueueOK(i)'
      BY <2>0, <2>4, <3>0, <3>1, <3>2, <1>QueueFrame DEF QueueOK, Untorn
    <3> QED
      BY <3>0, <3>3, <1>OrderFrame
  <2>7. OnceOK'
    BY <2>4 DEF Shards, OnceOK
  <2>8. ASSUME NEW j \in Call PROVE OwedOK(j)'
    <3>1. CASE j = k
      <4>1. call'[k].at = 0 /\ call'[k].pc = "open"
        BY <2>0, <2>1, <2>2, ShardFacts
      <4>2. \A w \in owes'[k] : shardIndex[w] \in Nat
        BY <2>0, <2>3, ShardFacts, ShardOf, FanoutAssumption DEF Shard
      <4>3. \A w \in owes'[k] : ~(call'[k].pc = "returned" \/ (call'[k].pc = "open" /\ call'[k].at > shardIndex[w]))
        BY <4>1, <4>2
      <4> QED
        BY <2>3, <2>5, <3>1, <4>3 DEF OwedOK
    <3>2. CASE j # k
      <4>1. OwedOK(j) /\ owes'[j] = owes[j] /\ call'[j] = call[j]
        BY <2>2, <2>3, <3>2 DEF Shards
      <4>2. owes'[j] \subseteq Registered'
        BY <2>5, <4>1 DEF OwedOK
      <4>3. \A w \in owes'[j] : Coming(j, w) => Coming(j, w)'
        BY <2>4, Zenon DEF Coming, Ranged
      <4> QED
        BY <4>1, <4>2, <4>3, <1>OwedFrame
    <3> QED
      BY <3>1, <3>2
  <2>9. StopOK'
    <3>1. Open' \subseteq Open \cup {k}
      BY <2>2 DEF Open
    <3>2. past.late \subseteq past'.late /\ (down # "no" => k \in past'.late)
      BY <2>4
    <3> QED
      BY <3>1, <3>2 DEF Shards, StopOK
  <2> QED
    BY <2>5, <2>6, <2>7, <2>8, <2>9 DEF Shards
\* A call comes to a shard, whose channel takes the message or drops it.
<1>ShardQueueStep.
      ASSUME Shards, kind = "sharded", kind' = kind, NEW k \in Call, call[k].pc = "open",
             NEW i, i = call[k].at, i < numShards, Queue(k, i),
             owes' = [owes EXCEPT ![k] = @ \ Dropped(i)],
             call' = [call EXCEPT ![k].at = @ + 1, ![k].own = @ \/ Len(chan[i]) < shardChanCap],
             UNCHANGED <<slice, gor, down, got, may, past>>
      PROVE  Shards'
  <2> USE <1>ShardQueueStep
  <2> DEFINE o == call[k].own \/ Len(chan[i]) < shardChanCap
             c == [call[k] EXCEPT !.at = i + 1, !.own = o]
             q == IF Len(chan[i]) < shardChanCap THEN Append(chan[i], k) ELSE chan[i]
  <2>0. ShardTypes
    BY DEF Shards
  <2>1. i \in Nat /\ i \in Shard /\ call[k] \in CallRecord
    BY <2>0, ShardFacts, FanoutAssumption DEF CallRecord, Shard
  <2>2. /\ call' = [call EXCEPT ![k] = c] /\ chan' = [chan EXCEPT ![i] = q]
        /\ owes' = [owes EXCEPT ![k] = owes[k] \ Dropped(i)]
        /\ i = call[k].at
    BY Zenon DEF Queue
  <2>3. c \in CallRecord /\ c.pc = "open" /\ c.at = i + 1
    <3>1. o \in BOOLEAN /\ i + 1 \in Nat
      BY <2>1 DEF CallRecord
    <3> HIDE DEF o
    <3> QED
      BY <2>1, <3>1, Zenon DEF CallRecord
  <2> DEFINE room == Len(chan[i]) < shardChanCap
  <2>4. chan[i] \in Seq(Call) /\ q \in Seq(Call) /\ Range(q) = Range(chan[i]) \cup (IF room THEN {k} ELSE {})
        /\ (IsInjective(chan[i]) /\ k \notin Range(chan[i]) => IsInjective(q))
    <3>1. chan[i] \in Seq(Call)
      BY <2>0, <2>1, ShardFacts
    <3>2. /\ Append(chan[i], k) \in Seq(Call) /\ Range(Append(chan[i], k)) = Range(chan[i]) \cup {k}
          /\ IsInjective(chan[i]) /\ k \notin Range(chan[i]) => IsInjective(Append(chan[i], k))
      BY <3>1, RangeAppend
    <3> QED
      BY <3>1, <3>2
  <2>5. room \/ Dropped(i) = OfShard(i)
    BY DEF Dropped, OfShard
  <2> HIDE DEF c, q, o, room
  <2>6. /\ call' \in [Call -> CallRecord] /\ call'[k] = c
        /\ \A j \in Call : j # k => call'[j] = call[j]
    BY <2>0, <2>2, <2>3, ShardFacts, ZenonT(30)
  <2>7. /\ chan' \in [Shard -> Seq(Call)] /\ chan'[i] = q
        /\ \A m \in Shard : m # i => chan'[m] = chan[m]
    BY <2>0, <2>1, <2>2, <2>4, ShardFacts
  <2>8. /\ owes' \in [Call -> SUBSET Writer] /\ owes'[k] = owes[k] \ Dropped(i)
        /\ \A j \in Call : j # k => owes'[j] = owes[j]
    BY <2>0, <2>2, ShardFacts
  <2>9. ShardTypes' /\ Registered' = Registered
    <3>1. \A j \in Call : call'[j].pc = "new" => call'[j].at = 0
      BY <2>0, <2>3, <2>6, ShardFacts
    <3>2. may' \in [Call -> SUBSET Writer] /\ past' \in PastRecord
      BY <2>0, ShardFacts
    <3> QED
      BY <2>0, <2>6, <2>7, <2>8, <3>1, <3>2, <1>CallTypes
  <2>10. NotYet(k, i) /\ ~NotYet(k, i)'
    BY <2>1, <2>2, <2>3, <2>6 DEF NotYet
  <2>11. ASSUME NEW m \in Shard PROVE OrderOK(m)'
    <3>1. OrderOK(m)
      BY DEF Shards
    <3> QED
      BY <3>1, <1>OrderFrame
  <2>12. ASSUME NEW m \in Shard, m # i PROVE QueueOK(m)'
    <3>0. QueueOK(m)
      BY DEF Shards
    <3>1. SameGoroutine(m) /\ Ranged(m)' = Ranged(m) /\ chan'[m] = chan[m]
      BY <2>7, <2>12 DEF SameGoroutine, Ranged
    <3>2. m \in Nat
      BY FanoutAssumption DEF Shard
    <3>3. \A j \in Call : NotYet(j, m)' => NotYet(j, m)
      BY <2>1, <2>2, <2>3, <2>6, <3>2 DEF NotYet
    <3> QED
      BY <2>0, <3>0, <3>1, <3>3, <1>QueueFrame DEF QueueOK, Untorn
  <2>13. QueueOK(i)'
    <3>0. QueueOK(i)
      BY <2>1 DEF Shards
    <3>1. k \notin Range(chan[i]) /\ k # gor[i].msg /\ Unseen(k, i) /\ IsInjective(chan[i])
      BY <2>10, <3>0 DEF QueueOK
    <3>2. \A j : Unseen(j, i)' <=> Unseen(j, i)
      BY Zenon DEF Unseen, OfShard
    <3>3. IsInjective(chan'[i]) /\ gor'[i].msg \notin Range(chan'[i]) /\ \A j \in Range(chan'[i]) : Unseen(j, i)'
      BY <2>4, <2>7, <3>0, <3>1, <3>2 DEF QueueOK
    <3>4. gor'[i].msg # 0 /\ gor'[i].len = 0 => (Unseen(gor[i].msg, i))'
      BY <3>0, <3>2 DEF QueueOK
    <3>5. gor'[i].len > 0 /\ <<gor'[i].msg, i>> \notin past'.torn => Untorn(i)'
      BY <3>0, Zenon DEF QueueOK, Untorn, Ranged
    <3>6. ASSUME NEW j \in Call, NotYet(j, i)' PROVE j \notin Range(chan'[i]) /\ j # gor'[i].msg /\ Unseen(j, i)'
      <4>1. j # k /\ NotYet(j, i)
        BY <2>6, <2>10, <3>6 DEF NotYet
      <4> QED
        BY <2>4, <2>7, <3>0, <3>2, <4>1 DEF QueueOK
    <3> QED
      BY <3>3, <3>4, <3>5, <3>6 DEF QueueOK
  <2>14. OnceOK'
    BY DEF Shards, OnceOK
  <2>15. ASSUME NEW j \in Call, NEW w \in Writer, Coming(j, w) PROVE Coming(j, w)'
    <3> DEFINE m == shardIndex[w]
    <3>1. m \in Shard /\ (j \in Range(chan[m]) => j \in Range(chan'[m]))
      BY <2>4, <2>7, ShardOf
    <3>2. SameGoroutine(m) /\ Ranged(m)' = Ranged(m) /\ m = shardIndex[w]
      BY DEF SameGoroutine, Ranged
    <3> HIDE DEF m
    <3> QED
      BY <2>15, <3>1, <3>2, <1>ComingFrame, Zenon
  <2>16. ASSUME NEW j \in Call PROVE OwedOK(j)'
    <3>0. OwedOK(j) /\ owes[j] \subseteq Writer
      BY <2>0, ShardFacts DEF Shards
    <3>1. CASE j # k
      <4>1. owes'[j] = owes[j] /\ call'[j] = call[j]
        BY <2>6, <2>8, <3>1
      <4>2. owes'[j] \subseteq Registered'
        BY <2>9, <3>0, <4>1 DEF OwedOK
      <4> QED
        BY <2>15, <3>0, <4>1, <4>2, <1>OwedFrame, Zenon
    <3>2. CASE j = k
      <4>1. owes'[k] \subseteq owes[k] /\ owes'[k] \subseteq Registered'
        BY <2>8, <2>9, <3>0, <3>2 DEF OwedOK
      <4>2. ASSUME NEW w \in owes'[k], call'[k].at > shardIndex[w] PROVE Coming(k, w)'
        <5>1. w \in owes[k] /\ w \in Writer /\ shardIndex[w] \in Nat /\ shardIndex[w] \in Shard
          BY <3>0, <3>2, <4>1, <4>2, ShardOf, FanoutAssumption DEF Shard
        <5>2. CASE shardIndex[w] < i
          <6>1. Coming(k, w)
            BY <2>1, <2>2, <3>0, <3>2, <5>1, <5>2 DEF OwedOK
          <6> QED
            BY <2>15, <5>1, <6>1
        <5>3. CASE shardIndex[w] = i
          <6>1. w \notin Dropped(i)
            BY <2>8, <4>2
          <6>2. room
            BY <2>5, <5>1, <5>3, <6>1 DEF OfShard
          <6>3. k \in Range(chan'[i])
            BY <2>4, <2>7, <6>2
          <6> QED
            BY <5>3, <6>3 DEF Coming
        <5> QED
          BY <2>1, <2>3, <2>6, <4>2, <5>1, <5>2, <5>3
      <4>3. call'[k].pc = "open"
        BY <2>3, <2>6
      <4> QED
        BY <3>2, <4>1, <4>2, <4>3, Zenon DEF OwedOK
    <3> QED
      BY <3>1, <3>2
  <2>17. StopOK'
    <3>1. Open' = Open /\ k \in Open
      BY <2>3, <2>6 DEF Open
    <3>2. \A m \in Shard : Range(chan'[m]) \subseteq Range(chan[m]) \cup {k}
      BY <2>4, <2>7, Zenon
    <3> QED
      BY <3>1, <3>2 DEF Shards, StopOK
  <2> QED
    BY <2>9, <2>11, <2>12, <2>13, <2>14, <2>16, <2>17 DEF Shards
\* A call returns.
<1>ShardReturnStep.
      ASSUME Shards, kind = "sharded", kind' = kind, NEW k \in Call, call[k].pc = "open", call[k].at = numShards,
             call' = Returned(k, ~call[k].own),
             UNCHANGED <<slice, chan, gor, down, got, owes, may, past>>
      PROVE  Shards'
  <2> USE <1>ShardReturnStep
  <2>0. ShardTypes /\ call[k] \in CallRecord
    BY ShardFacts DEF Shards
  <2>1. /\ call' \in [Call -> CallRecord] /\ call'[k].pc = "returned"
        /\ \A j \in Call : j # k => call'[j] = call[j]
    <3>1. (~call[k].own) \in BOOLEAN /\ call \in [Call -> CallRecord]
      BY <2>0, ShardFacts DEF CallRecord
    <3> QED
      BY <3>1, CallReturns, Zenon
  <2>2. ShardTypes' /\ Registered' = Registered
    <3>1. \A j \in Call : call'[j].pc = "new" => call'[j].at = 0
      BY <2>0, <2>1, ShardFacts, Zenon
    <3>2. owes' \in [Call -> SUBSET Writer] /\ may' \in [Call -> SUBSET Writer] /\ past' \in PastRecord /\ chan' \in [Shard -> Seq(Call)]
      BY <2>0, ShardFacts
    <3> QED
      BY <2>0, <2>1, <3>1, <3>2, <1>CallTypes
  <2>3. ASSUME NEW i \in Shard PROVE QueueOK(i)' /\ OrderOK(i)'
    <3>0. QueueOK(i) /\ OrderOK(i)
      BY DEF Shards
    <3>1. SameGoroutine(i) /\ Ranged(i)' = Ranged(i) /\ \A j \in Call : NotYet(j, i)' => NotYet(j, i)
      BY <2>1 DEF SameGoroutine, NotYet, Ranged
    <3>2. QueueOK(i)'
      BY <2>0, <3>0, <3>1, <1>QueueFrame, Zenon DEF QueueOK, Untorn
    <3> QED
      BY <3>0, <3>2, <1>OrderFrame
  <2>4. OnceOK'
    BY DEF Shards, OnceOK
  <2>5. ASSUME NEW j \in Call PROVE OwedOK(j)'
    <3>0. OwedOK(j) /\ owes[j] \subseteq Writer
      BY <2>0, ShardFacts DEF Shards
    <3>1. \A w \in owes[j] : Coming(j, w) => Coming(j, w)'
      BY Zenon DEF Coming, Ranged
    <3>2. CASE j # k
      BY <2>1, <2>2, <3>0, <3>1, <3>2, Zenon DEF OwedOK
    <3>3. CASE j = k
      <4>1. \A w \in owes[k] : call[k].at > shardIndex[w]
        BY <3>0, <3>3, ShardOf, FanoutAssumption DEF Shard
      <4> QED
        BY <2>2, <3>0, <3>1, <3>3, <4>1 DEF OwedOK
    <3> QED
      BY <3>2, <3>3
  <2>6. StopOK'
    <3>1. Open' \subseteq Open
      BY <2>1 DEF Open
    <3> QED
      BY <3>1 DEF Shards, StopOK
  <2> QED
    BY <2>2, <2>3, <2>4, <2>5, <2>6, Zenon DEF Shards
\* The goroutines: a step of one does not concern the other shards.
<1>GorTypes.
      ASSUME ShardTypes, kind' = kind, UNCHANGED <<slice, call, may>>, chan' \in [Shard -> Seq(Call)],
             gor' \in [Shard -> GorRecord], \A i \in Shard : GoroutineOK(i)',
             got' \in [Writer -> Seq(Call)], owes' \in [Call -> SUBSET Writer], past' \in PastRecord
      PROVE  ShardTypes' /\ Registered' = Registered
  <2> USE <1>GorTypes
  <2>1. SlicesOK' /\ ArraysOK' /\ Registered' = Registered
    BY <1>SlicesStay
  <2>2. BaseOK'
    BY <2>1, ShardFacts DEF BaseOK
  <2> QED
    BY <2>1, <2>2, ShardFacts DEF ShardTypes
\* The other shards do not notice a step of the goroutine of one of them.
<1>OtherGoroutines.
      ASSUME Shards, NEW i \in Shard, UNCHANGED <<slice, call>>,
             \A j \in Shard : j # i => chan'[j] = chan[j] /\ gor'[j] = gor[j],
             \A w \in Writer : shardIndex[w] # i => got'[w] = got[w],
             past'.torn = past.torn
      PROVE  \A j \in Shard : j # i => QueueOK(j)' /\ OrderOK(j)'
  <2> USE <1>OtherGoroutines
  <2> SUFFICES ASSUME NEW j \in Shard, j # i PROVE QueueOK(j)' /\ OrderOK(j)'
    OBVIOUS
  <2>1. QueueOK(j) /\ OrderOK(j) /\ ShardTypes
    BY DEF Shards
  <2>2. SameGoroutine(j) /\ Ranged(j)' = Ranged(j) /\ chan'[j] = chan[j] /\ \A k \in Call : NotYet(k, j)' => NotYet(k, j)
    BY DEF SameGoroutine, Ranged, NotYet
  <2>3. \A w \in OfShard(j) : got'[w] = got[w]
    BY DEF OfShard
  <2>4. QueueOK(j)'
    BY <2>1, <2>2, <2>3, <1>QueueFrame, Zenon DEF QueueOK, Untorn
  <2>5. gor'[j].msg = gor[j].msg
    OBVIOUS
  <2> QED
    BY <2>1, <2>3, <2>4, <2>5, <1>OrderFrame
\* The other goroutines keep what they have to do.
<1>OtherGoroutinesOK.
      ASSUME ShardTypes, NEW i \in Shard, slice' = slice, \A j \in Shard : j # i => gor'[j] = gor[j],
             gor'[i].pc = "none" <=> gor[i].pc = "none"
      PROVE  \A j \in Shard : j # i => GoroutineOK(j)'
  <2> USE <1>OtherGoroutinesOK
  <2> SUFFICES ASSUME NEW j \in Shard, j # i PROVE GoroutineOK(j)'
    OBVIOUS
  <2>1. GoroutineOK(j) /\ gor'[j] = gor[j] /\ (gor'[0].pc = "none" <=> gor[0].pc = "none")
    BY ShardFacts, ShardZero, Zenon
  <2> QED
    BY <2>1 DEF GoroutineOK, Ranged
\* One goroutine steps, the writers get nothing.
<1>QuietGoroutine.
      ASSUME Shards, kind' = kind, NEW i \in Shard, NEW g \in GorRecord, gor' = [gor EXCEPT ![i] = g],
             UNCHANGED <<slice, call, got, owes, may, past>>, chan' \in [Shard -> Seq(Call)],
             \A j \in Shard : j # i => chan'[j] = chan[j],
             g.pc = "none" <=> gor[i].pc = "none",
             GoroutineOK(i)', QueueOK(i)', OrderOK(i)', StopOK',
             \A k \in Call : \A w \in owes[k] : shardIndex[w] = i /\ Coming(k, w) => Coming(k, w)'
      PROVE  Shards'
  <2> USE <1>QuietGoroutine
  <2>0. ShardTypes /\ gor \in [Shard -> GorRecord]
    BY ShardFacts, Zenon DEF Shards
  <2>1. gor' \in [Shard -> GorRecord] /\ gor'[i] = g /\ \A j \in Shard : j # i => gor'[j] = gor[j]
    BY <2>0
  <2>2. \A j \in Shard : j # i => GoroutineOK(j)'
    BY <2>0, <2>1, <1>OtherGoroutinesOK
  <2>3. ShardTypes' /\ Registered' = Registered
    BY <2>0, <2>1, <2>2, ShardFacts, <1>GorTypes, Zenon
  <2>4. \A j \in Shard : j # i => QueueOK(j)' /\ OrderOK(j)'
    BY <2>1, <1>OtherGoroutines, Zenon
  <2>5. ASSUME NEW k \in Call PROVE OwedOK(k)'
    <3>0. OwedOK(k) /\ owes[k] \subseteq Writer
      BY <2>0, ShardFacts DEF Shards
    <3>1. ASSUME NEW w \in owes[k], Coming(k, w) PROVE Coming(k, w)'
      <4>1. CASE shardIndex[w] # i
        <5>1. shardIndex[w] \in Shard
          BY <3>0, <3>1, ShardOf
        <5>2. gor'[shardIndex[w]] = gor[shardIndex[w]] /\ chan'[shardIndex[w]] = chan[shardIndex[w]]
          BY <2>1, <4>1, <5>1
        <5> QED
          BY <3>1, <5>2, Zenon DEF Coming, Ranged
      <4> QED
        BY <3>1, <4>1, Zenon
    <3> QED
      BY <2>3, <3>0, <3>1, <1>OwedFrame, Zenon DEF OwedOK
  <2>6. OnceOK'
    BY Zenon DEF Shards, OnceOK
  <2> QED
    BY <2>3, <2>4, <2>5, <2>6 DEF Shards
\* A goroutine that has not started has no message.
<1>NewGoroutineIs.
      ASSUME NEW p \in {"none", "select", "drain", "ended"}
      PROVE  LET g == [NewGoroutine EXCEPT !.pc = p] IN
             g \in GorRecord /\ g.pc = p /\ g.msg = 0 /\ g.array = 0 /\ g.len = 0 /\ g.i = 0
    BY <1>NewGoroutineIs, Zenon DEF NewGoroutine, GorRecord
\* A goroutine that has no message, the messages for its shard being where they were.
<1>NoMessage.
      ASSUME ShardTypes, NEW i \in Shard, QueueOK(i), OrderOK(i), UNCHANGED <<call, got>>, chan'[i] = chan[i],
             gor'[i].msg = 0, gor'[i].len = 0
      PROVE  QueueOK(i)' /\ OrderOK(i)'
  <2> USE <1>NoMessage
  <2>1. \A k : Unseen(k, i)' <=> Unseen(k, i)
    BY DEF Unseen, OfShard
  <2>2. \A k \in Call : NotYet(k, i)' <=> NotYet(k, i)
    BY DEF NotYet
  <2>3. Range(chan[i]) \subseteq Call /\ 0 \notin Call
    BY ShardFacts, RangeIs, Zenon
  <2>4. ~(gor'[i].len > 0)
    OBVIOUS
  <2>5. QueueOK(i)'
    BY <2>1, <2>2, <2>3, <2>4, Zenon DEF QueueOK
  <2>6. Unseen(gor'[i].msg, i)
    BY <1>ZeroUnseen
  <2> QED
    BY <2>5, <2>6, <1>OrderFrame
\* Start
<1>ShardStartStep.
      ASSUME Shards, kind = "sharded", ShardedStart
      PROVE  Shards'
  <2> USE <1>ShardStartStep
  <2>1. /\ gor[0].pc = "none" /\ gor' = [i \in Shard |-> [NewGoroutine EXCEPT !.pc = "select"]]
        /\ UNCHANGED <<kind, slice, call, chan, down, got, owes, may, past>>
    BY DEF ShardedStart, Of, log
  <2>2. ShardTypes /\ 0 \in Shard
    BY ShardZero DEF Shards
  <2>3. \A i \in Shard : gor[i].msg = 0
    BY <2>1, <2>2, ShardFacts, Zenon DEF GoroutineOK
  <2>4. gor' \in [Shard -> GorRecord] /\ \A i \in Shard : gor'[i].pc = "select" /\ gor'[i].msg = 0 /\ gor'[i].len = 0
    BY <2>1, <1>NewGoroutineIs, Zenon
  <2>5. \A i \in Shard : GoroutineOK(i)'
    BY <2>2, <2>4 DEF GoroutineOK
  <2>6. ShardTypes' /\ Registered' = Registered
    BY <2>1, <2>2, <2>4, <2>5, ShardFacts, <1>GorTypes, Zenon
  <2>7. \A i \in Shard : QueueOK(i)' /\ OrderOK(i)'
    BY <2>1, <2>2, <2>4, <1>NoMessage DEF Shards
  <2>8. OnceOK'
    BY <2>1 DEF Shards, OnceOK
  <2>9. ASSUME NEW k \in Call PROVE OwedOK(k)'
    <3>1. OwedOK(k) /\ owes[k] \subseteq Writer /\ k # 0
      BY <2>2, ShardFacts DEF Shards
    <3>2. \A w \in owes[k] : Coming(k, w) => Coming(k, w)'
      BY <2>1, <2>3, <3>1, ShardOf DEF Coming
    <3> QED
      BY <2>1, <2>6, <3>1, <3>2, <1>OwedFrame DEF OwedOK
  <2>10. StopOK'
    BY <2>1, <2>2, <2>4 DEF Shards, StopOK, Open
  <2> QED
    BY <2>6, <2>7, <2>8, <2>9, <2>10 DEF Shards
\* The goroutine takes a message.
<1>ShardTakeStep.
      ASSUME Shards, kind = "sharded", kind' = kind, NEW i \in Shard, gor[i].pc \in {"select", "drain"}, Take(i),
             NEW m, m = Head(chan[i])
      PROVE  Shards'
  <2> USE <1>ShardTakeStep
  <2> DEFINE g == [gor[i] EXCEPT !.msg = m]
  <2>0. ShardTypes /\ QueueOK(i) /\ OrderOK(i)
    BY DEF Shards
  <2>1. /\ gor[i].msg = 0 /\ chan[i] # <<>> /\ chan' = [chan EXCEPT ![i] = Tail(chan[i])]
        /\ gor' = [gor EXCEPT ![i] = g]
        /\ UNCHANGED <<slice, call, down, got, owes, may, past>>
    BY Zenon DEF Take, HasNone, log
  <2>2. /\ chan[i] \in Seq(Call) /\ Tail(chan[i]) \in Seq(Call) /\ IsInjective(Tail(chan[i]))
        /\ m \in Range(chan[i]) /\ Range(Tail(chan[i])) = Range(chan[i]) \ {m} /\ m \in Call /\ m # 0
    <3>1. chan[i] \in Seq(Call) /\ IsInjective(chan[i])
      BY <2>0, ShardFacts DEF QueueOK
    <3>2. /\ Tail(chan[i]) \in Seq(Call) /\ IsInjective(Tail(chan[i]))
          /\ m \in Range(chan[i]) /\ Range(Tail(chan[i])) = Range(chan[i]) \ {m}
      BY <2>1, <3>1, RangeTail
    <3>3. Range(chan[i]) \subseteq Call
      BY <3>1, RangeIs, Zenon
    <3> QED
      BY <2>0, <3>1, <3>2, <3>3, ShardFacts, Zenon
  <2>3. gor[i] \in GorRecord /\ gor[i].len = 0
    BY <2>0, <2>1, ShardFacts DEF GoroutineOK
  <2>4. g \in GorRecord /\ g.pc = gor[i].pc /\ g.msg = m /\ g.len = 0
    BY <2>2, <2>3, Zenon DEF GorRecord
  <2> HIDE DEF g
  <2>5. gor'[i] = g /\ gor'[0].pc = gor[0].pc
    BY <2>0, <2>1, <2>4, ShardFacts, ShardZero
  <2>6. chan' \in [Shard -> Seq(Call)] /\ chan'[i] = Tail(chan[i]) /\ \A j \in Shard : j # i => chan'[j] = chan[j]
    BY <2>0, <2>1, <2>2, ShardFacts
  <2>7. GoroutineOK(i)'
    <3>1. GoroutineOK(i)
      BY <2>0, ShardFacts, Zenon
    <3>2. ~(gor'[i].len > 0)
      BY <2>4, <2>5
    <3> QED
      BY <2>2, <2>4, <2>5, <3>1, <3>2, Zenon DEF GoroutineOK
  <2>8. \A k : Unseen(k, i)' <=> Unseen(k, i)
    BY <2>1, Zenon DEF Unseen, OfShard
  <2>9. \A k \in Call : NotYet(k, i)' <=> NotYet(k, i)
    BY <2>1 DEF NotYet
  <2>10. QueueOK(i)'
    <3>1. IsInjective(chan'[i]) /\ gor'[i].msg \notin Range(chan'[i]) /\ \A k \in Range(chan'[i]) : Unseen(k, i)'
      BY <2>0, <2>2, <2>4, <2>5, <2>6, <2>8, Zenon DEF QueueOK
    <3>2. Unseen(m, i)' /\ gor'[i].msg = m /\ ~(gor'[i].len > 0)
      BY <2>0, <2>2, <2>4, <2>5, <2>8 DEF QueueOK
    <3>3. \A k \in Call : NotYet(k, i)' => k \notin Range(chan'[i]) /\ k # gor'[i].msg /\ Unseen(k, i)'
      BY <2>0, <2>2, <2>4, <2>5, <2>6, <2>8, <2>9, Zenon DEF QueueOK
    <3> QED
      BY <2>8, <3>1, <3>2, <3>3, Zenon DEF QueueOK
  <2>11. OrderOK(i)'
    <3>1. Unseen(gor'[i].msg, i)
      BY <2>0, <2>2, <2>4, <2>5 DEF QueueOK
    <3> QED
      BY <2>0, <2>1, <3>1, <1>OrderFrame, Zenon
  <2>12. StopOK'
    <3>1. \A j \in Shard : gor'[j].pc = gor[j].pc /\ Range(chan'[j]) \subseteq Range(chan[j])
      BY <2>0, <2>1, <2>2, <2>4, <2>6, ShardFacts, Zenon
    <3> QED
      BY <2>1, <3>1, Zenon DEF Shards, StopOK, Open
  <2>13. ASSUME NEW k \in Call, NEW w \in owes[k], shardIndex[w] = i, Coming(k, w) PROVE Coming(k, w)'
    <3>1. k # 0
      BY <2>0, ShardFacts
    <3> QED
      BY <2>1, <2>2, <2>4, <2>5, <2>6, <2>13, <3>1 DEF Coming
  <2> QED
    BY <2>1, <2>4, <2>6, <2>7, <2>10, <2>11, <2>12, <2>13, <1>QuietGoroutine, Zenon
\* A writer that a call owes its message is in the slice of its shard.
<1>OwedHeld.
      ASSUME Shards, kind = "sharded", NEW k \in Call, NEW w \in owes[k]
      PROVE  w \in Writer /\ w \in Held(slice[shardIndex[w]])
  <2> USE <1>OwedHeld
  <2>1. ShardTypes /\ w \in Registered
    BY DEF Shards, OwedOK
  <2>2. w \in Writer /\ SlicesOK /\ slice \in [Shard -> Slice]
    BY <2>1, ShardFacts, Zenon
  <2>3. PICK j \in Shard : w \in Held(slice[j])
    BY <2>1, <2>2, RegisteredHeld
  <2>4. Home(w) = j
    BY <2>2, <2>3 DEF SlicesOK
  <2> QED
    BY <2>2, <2>3, <2>4, <1>HomeSharded
\* The goroutine copies the slice.
<1>ShardCopyStep.
      ASSUME Shards, kind = "sharded", kind' = kind, NEW i \in Shard, Copy(i)
      PROVE  Shards'
  <2> USE <1>ShardCopyStep
  <2> DEFINE s == slice[i]
             L == Len(s.arrays)
             g == IF s.len = 0 THEN [NewGoroutine EXCEPT !.pc = gor[i].pc]
                  ELSE [gor[i] EXCEPT !.array = L, !.len = s.len, !.i = 1]
  <2>0. ShardTypes /\ QueueOK(i) /\ OrderOK(i) /\ GoroutineOK(i)
    BY ShardFacts DEF Shards
  <2>1. /\ gor[i].msg # 0 /\ gor[i].len = 0 /\ gor' = [gor EXCEPT ![i] = g]
        /\ UNCHANGED <<slice, call, chan, down, got, owes, may, past>>
    BY DEF Copy, HasNone, log
  <2>2. gor[i] \in GorRecord /\ gor[i].pc \in {"none", "select", "drain", "ended"} /\ gor[i].msg \in Call
    BY <2>0, <2>1, ShardFacts, Zenon DEF GorRecord
  <2>3. /\ s \in Slice /\ s.len \in Nat /\ L \in Nat /\ L \in 1 .. L /\ s.len <= Len(s.arrays[L]) /\ Uniq(s)
        /\ \A p \in 1 .. s.len : s.arrays[L][p] \in Writer /\ s.arrays[L][p] \in OfShard(i)
    <3>1. s \in Slice /\ Uniq(s) /\ \A w \in Held(s) : Home(w) = i
      BY <2>0, ShardFacts, Zenon DEF SlicesOK
    <3>2. \A p \in 1 .. s.len : s.arrays[L][p] \in Writer /\ s.arrays[L][p] \in Held(s)
      BY <3>1 DEF Slice, Held
    <3> QED
      BY <3>1, <3>2, <1>HomeSharded DEF Slice, OfShard
  <2>4. /\ g \in GorRecord /\ g.pc = gor[i].pc
        /\ s.len = 0 => g.msg = 0 /\ g.len = 0
        /\ s.len # 0 => g.msg = gor[i].msg /\ g.len = s.len /\ g.array = L /\ g.i = 1
    <3>1. CASE s.len = 0
      BY <2>2, <3>1, <1>NewGoroutineIs
    <3>2. CASE s.len # 0
      <4>1. g = [gor[i] EXCEPT !.array = L, !.len = s.len, !.i = 1]
        BY <3>2
      <4> QED
        BY <2>2, <2>3, <3>2, <4>1, Zenon DEF GorRecord
    <3> QED
      BY <3>1, <3>2
  <2> HIDE DEF g, L
  <2>5. gor'[i] = g /\ gor'[0].pc = gor[0].pc /\ Ranged(i)' = s.arrays[g.array]
    <3>1. gor'[i] = g /\ gor'[0].pc = gor[0].pc
      BY <2>0, <2>1, <2>4, ShardFacts, ShardZero
    <3> QED
      BY <2>1, <3>1, Zenon DEF Ranged
  <2>6. chan' \in [Shard -> Seq(Call)]
    BY <2>0, <2>1, ShardFacts, Zenon
  <2>7. StopOK'
    <3>1. \A j \in Shard : gor'[j].pc = gor[j].pc
      BY <2>0, <2>1, <2>4, ShardFacts
    <3> QED
      BY <2>1, <3>1, Zenon DEF Shards, StopOK, Open
  <2>8. CASE s.len = 0
    <3>1. GoroutineOK(i)'
      BY <2>0, <2>1, <2>4, <2>5, <2>8 DEF GoroutineOK
    <3>2. QueueOK(i)' /\ OrderOK(i)'
      BY <2>0, <2>1, <2>4, <2>5, <2>8, <1>NoMessage, Zenon
    <3>3. ASSUME NEW k \in Call, NEW w \in owes[k], shardIndex[w] = i PROVE FALSE
      <4>1. w \in Held(s)
        BY <3>3, <1>OwedHeld
      <4> QED
        BY <2>8, <4>1 DEF Held
    <3> QED
      BY <2>1, <2>4, <2>6, <2>7, <3>1, <3>2, <3>3, <1>QuietGoroutine, Zenon
  <2>9. CASE s.len # 0
    <3>0. g.len > 0 /\ 1 \in 1 .. g.len /\ Ranged(i)' = s.arrays[L]
      BY <2>3, <2>4, <2>5, <2>9
    <3>1. GoroutineOK(i)'
      BY <2>0, <2>1, <2>3, <2>4, <2>5, <2>9, <3>0, Zenon DEF GoroutineOK, L
    <3>2. Unseen(gor[i].msg, i)
      BY <2>0, <2>1, Zenon DEF QueueOK
    <3>3. Untorn(i)'
      <4>1. \A p, q \in 1 .. g.len : Ranged(i)'[p] = Ranged(i)'[q] => p = q
        BY <2>3, <2>4, <2>9, <3>0, Zenon DEF Uniq, Array, L
      <4>2. \A p \in 1 .. g.len : Ranged(i)'[p] \in Writer /\ g.msg \notin Range(got'[Ranged(i)'[p]])
        BY <2>1, <2>3, <2>4, <2>9, <3>0, <3>2 DEF Unseen
      <4>3. \A p \in g.i .. g.len : p \in 1 .. g.len
        BY <2>4, <2>9, Zenon
      <4>4. g.len <= slice'[i].len
        BY <2>1, <2>3, <2>4, <2>9
      <4> QED
        BY <2>5, <4>1, <4>2, <4>3, <4>4, Zenon DEF Untorn
    <3>4. \A k : Unseen(k, i)' <=> Unseen(k, i)
      BY <2>1, Zenon DEF Unseen, OfShard
    <3>5. \A k \in Call : NotYet(k, i)' <=> NotYet(k, i)
      BY <2>1 DEF NotYet
    <3>6. gor'[i].msg = gor[i].msg /\ ~(gor'[i].len = 0)
      BY <2>4, <2>5, <2>9, <3>0
    <3>7. QueueOK(i)'
      BY <2>0, <2>1, <3>3, <3>4, <3>5, <3>6, Zenon DEF QueueOK
    <3>8. OrderOK(i)'
      BY <2>0, <2>1, <3>6, <1>OrderFrame
    <3>9. ASSUME NEW k \in Call, NEW w \in owes[k], shardIndex[w] = i, Coming(k, w) PROVE Coming(k, w)'
      <4>1. w \in Held(s)
        BY <3>9, <1>OwedHeld
      <4>2. PICK p \in 1 .. s.len : s.arrays[L][p] = w
        BY <4>1 DEF Held, L
      <4>3. p \in g.i .. g.len /\ Ranged(i)'[p] = w
        BY <2>4, <2>9, <3>0, <4>2, Zenon
      <4>4. \E q \in gor'[i].i .. gor'[i].len : Ranged(i)'[q] = w
        BY <2>5, <4>3, Zenon
      <4>5. k \in Range(chan'[i]) \/ gor'[i].msg = k \/ <<k, i>> \in past'.torn
        BY <2>1, <3>6, <3>9 DEF Coming
      <4> QED
        BY <3>9, <4>4, <4>5, Zenon DEF Coming
    <3> QED
      BY <2>1, <2>4, <2>6, <2>7, <3>1, <3>7, <3>8, <3>9, <1>QuietGoroutine, Zenon
  <2> QED
    BY <2>8, <2>9
\* The goroutine goes from its loop to draining the channel, and then ends.
<1>ShardPcStep.
      ASSUME Shards, kind = "sharded", kind' = kind, NEW i \in Shard, NEW p \in {"drain", "ended"},
             gor[i].pc \in {"select", "drain"}, gor[i].msg = 0, down # "no", p = "ended" => chan[i] = <<>>,
             gor' = [gor EXCEPT ![i].pc = p], UNCHANGED <<slice, call, chan, down, got, owes, may, past>>
      PROVE  Shards'
  <2> USE <1>ShardPcStep
  <2> DEFINE g == [gor[i] EXCEPT !.pc = p]
  <2>0. ShardTypes /\ QueueOK(i) /\ OrderOK(i) /\ GoroutineOK(i)
    BY ShardFacts DEF Shards
  <2>1. gor' = [gor EXCEPT ![i] = g] /\ gor \in [Shard -> GorRecord]
    BY <2>0, ShardFacts
  <2>2. g \in GorRecord /\ g.pc = p /\ g.msg = 0 /\ g.len = gor[i].len /\ g.array = gor[i].array /\ g.i = gor[i].i
    BY <2>1, Zenon DEF GorRecord
  <2>3. gor[i].len = 0
    BY <2>0 DEF GoroutineOK
  <2> HIDE DEF g
  <2>4. gor'[i] = g /\ (gor'[0].pc = "none" <=> gor[0].pc = "none")
    BY <2>1, <2>2, ShardZero
  <2>5. GoroutineOK(i)'
    BY <2>0, <2>2, <2>3, <2>4 DEF GoroutineOK
  <2>6. QueueOK(i)' /\ OrderOK(i)'
    BY <2>0, <2>2, <2>3, <2>4, <1>NoMessage
  <2>7. StopOK'
    <3>1. \A j \in Shard : j # i => gor'[j] = gor[j]
      BY <2>1
    <3>2. p = "ended" => Range(chan[i]) = {}
      BY EmptyRange
    <3> QED
      BY <2>2, <2>4, <3>1, <3>2 DEF Shards, StopOK, Open
  <2>8. ASSUME NEW k \in Call, NEW w \in owes[k], shardIndex[w] = i, Coming(k, w) PROVE Coming(k, w)'
    <3>1. k # 0
      BY <2>0, ShardFacts
    <3> QED
      BY <2>8, <3>1 DEF Coming
  <2>9. chan' \in [Shard -> Seq(Call)]
    BY <2>0, ShardFacts, Zenon
  <2> QED
    BY <2>1, <2>2, <2>5, <2>6, <2>7, <2>8, <2>9, <1>QuietGoroutine, Zenon
\* Stop closes the channel, and waits for the goroutines.
<1>ShardStopStep.
      ASSUME Shards, kind = "sharded", ShardedStop
      PROVE  Shards'
  <2> USE <1>ShardStopStep
  <2>0. ShardTypes
    BY DEF Shards
  <2>1. UNCHANGED <<kind, slice, call, chan, gor, got, owes, may>>
    BY DEF ShardedStop, Of
  <2>2. /\ past' \in PastRecord /\ past'.torn = past.torn /\ past'.panicked = past.panicked
        /\ StopOK'
    <3>0. StopOK /\ past \in PastRecord /\ Open \subseteq Call /\ Open' = Open
      BY <2>0, <2>1, ShardFacts DEF Shards, Open
    <3>1. CASE down = "no" /\ down' = "stopping" /\ past' = [past EXCEPT !.late = Open]
      <4>1. past' \in PastRecord /\ past'.torn = past.torn /\ past'.panicked = past.panicked /\ past'.late = Open
        BY <3>0, <3>1 DEF PastRecord
      <4> QED
        BY <2>1, <3>0, <3>1, <4>1 DEF StopOK
    <3>2. CASE down = "stopping" /\ (\A i \in Shard : gor[i].pc = "ended") /\ down' = "done" /\ UNCHANGED past
      BY <2>1, <3>0, <3>2 DEF StopOK
    <3> QED
      BY <3>1, <3>2 DEF ShardedStop
  <2>3. ShardTypes' /\ Registered' = Registered
    <3>1. call' \in [Call -> CallRecord] /\ (\A k \in Call : call'[k].pc = "new" => call'[k].at = 0)
          /\ owes' \in [Call -> SUBSET Writer] /\ may' \in [Call -> SUBSET Writer] /\ chan' \in [Shard -> Seq(Call)]
      BY <2>0, <2>1, ShardFacts
    <3> QED
      BY <2>0, <2>1, <2>2, <3>1, <1>CallTypes, Zenon
  <2>4. ASSUME NEW i \in Shard PROVE QueueOK(i)' /\ OrderOK(i)'
    <3>0. QueueOK(i) /\ OrderOK(i)
      BY Zenon DEF Shards
    <3>1. SameGoroutine(i) /\ Ranged(i)' = Ranged(i) /\ \A j \in Call : NotYet(j, i)' => NotYet(j, i)
      BY <2>1 DEF SameGoroutine, NotYet, Ranged
    <3>2. QueueOK(i)'
      BY <2>0, <2>1, <2>2, <3>0, <3>1, <1>QueueFrame, Zenon DEF QueueOK, Untorn
    <3> QED
      BY <2>1, <3>0, <3>2, <1>OrderFrame
  <2>5. OnceOK'
    BY <2>1, <2>2, Zenon DEF Shards, OnceOK
  <2>6. ASSUME NEW j \in Call PROVE OwedOK(j)'
    <3>0. OwedOK(j)
      BY DEF Shards
    <3>1. \A w \in owes[j] : Coming(j, w) => Coming(j, w)'
      BY <2>1, <2>2, Zenon DEF Coming, Ranged
    <3> QED
      BY <2>1, <2>3, <3>0, <3>1, <1>OwedFrame, Zenon DEF OwedOK
  <2> QED
    BY <2>2, <2>3, <2>4, <2>5, <2>6 DEF Shards
\* A message that a writer gets comes after those it has.
<1>BeforeAppend.
      ASSUME got \in [Writer -> Seq(Call)], NEW k \in Call, NEW w \in Writer,
             got' = [got EXCEPT ![w] = Append(got[w], k)]
      PROVE  OneMore(k, w)
  <2> USE <1>BeforeAppend
  <2> DEFINE s == got[w]
             t == Append(s, k)
  <2>1. s \in Seq(Call) /\ t \in Seq(Call) /\ Range(t) = Range(s) \cup {k}
    BY RangeAppend
  <2>2. got' \in [Writer -> Seq(Call)] /\ got'[w] = t /\ \A v \in Writer : v # w => got'[v] = got[v]
    BY <2>1
  <2>3. /\ Len(s) \in Nat /\ Len(t) = Len(s) + 1 /\ DOMAIN t = 1 .. Len(s) + 1 /\ DOMAIN s = 1 .. Len(s)
        /\ (\A a \in 1 .. Len(s) : t[a] = s[a]) /\ t[Len(s) + 1] = k
    BY <2>1
  <2>4. \A a \in DOMAIN t : a \in DOMAIN s \/ a = Len(s) + 1
    BY <2>3
  <2>5. Range(s) = {s[a] : a \in DOMAIN s}
    BY Zenon DEF Range
  <2> HIDE DEF s, t
  <2>6. ASSUME NEW m, NEW n, Before(w, m, n)' PROVE n = k \/ Before(w, m, n)
    <3>1. PICK a \in DOMAIN t, b \in DOMAIN t : a < b /\ t[a] = m /\ t[b] = n
      BY <2>2, <2>6 DEF Before
    <3>2. CASE b = Len(s) + 1
      BY <2>3, <3>1, <3>2
    <3>3. CASE b \in DOMAIN s
      <4>1. a \in DOMAIN s
        BY <2>3, <3>1, <3>3
      <4>2. a \in DOMAIN s /\ b \in DOMAIN s /\ a < b /\ s[a] = m /\ s[b] = n
        BY <2>3, <3>1, <3>3, <4>1
      <4> QED
        BY <4>2 DEF Before, s
    <3> QED
      BY <2>4, <3>1, <3>2, <3>3
  <2>7. \A v \in Writer : \A m, n : Before(v, m, n)' => n = k \/ Before(v, m, n)
    <3> SUFFICES ASSUME NEW v \in Writer, NEW m, NEW n, Before(v, m, n)' PROVE n = k \/ Before(v, m, n)
      BY Zenon
    <3>1. CASE v = w
      BY <2>6, <3>1
    <3>2. CASE v # w
      BY <2>2, <3>2, Zenon DEF Before
    <3> QED
      BY <3>1, <3>2
  <2>8. ASSUME NEW a \in DOMAIN t, NEW b \in DOMAIN t, a # b, t[a] = t[b]
        PROVE  \/ t[a] = k /\ k \in Range(s)
               \/ a \in DOMAIN s /\ b \in DOMAIN s /\ t[a] = s[a] /\ s[a] = s[b]
    <3>1. CASE a \in DOMAIN s /\ b \in DOMAIN s
      BY <2>3, <2>8, <3>1
    <3>2. CASE a = Len(s) + 1
      <4>1. b \in DOMAIN s /\ s[b] = k /\ t[a] = k
        BY <2>3, <2>4, <2>8, <3>2
      <4> QED
        BY <2>5, <4>1
    <3>3. CASE b = Len(s) + 1
      <4>1. a \in DOMAIN s /\ s[a] = k /\ t[a] = k
        BY <2>3, <2>4, <2>8, <3>3
      <4> QED
        BY <2>5, <4>1
    <3> QED
      BY <2>4, <2>8, <3>1, <3>2, <3>3, Zenon
  <2> QED
    BY <2>1, <2>2, <2>7, <2>8, Zenon DEF s, OneMore
\* The range comes to a place that Remove has cleared.
<1>ShardPanicStep.
      ASSUME Shards, kind = "sharded", kind' = kind, NEW i \in Shard, gor[i].len > 0, Ranged(i)[gor[i].i] = NoWriter,
             gor' = [gor EXCEPT ![i] = [NewGoroutine EXCEPT !.pc = gor[i].pc]],
             past' = [past EXCEPT !.panicked = TRUE],
             UNCHANGED <<slice, call, chan, down, got, owes, may>>
      PROVE  Shards'
  <2> USE <1>ShardPanicStep
  <2> DEFINE g == [NewGoroutine EXCEPT !.pc = gor[i].pc]
  <2>0. ShardTypes /\ QueueOK(i) /\ OrderOK(i) /\ GoroutineOK(i)
    BY ShardFacts DEF Shards
  <2>1. gor \in [Shard -> GorRecord] /\ gor[i].pc \in {"none", "select", "drain", "ended"}
    BY <2>0, ShardFacts DEF GorRecord
  <2>2. g \in GorRecord /\ g.pc = gor[i].pc /\ g.msg = 0 /\ g.len = 0
    BY <2>1, <1>NewGoroutineIs
  <2> HIDE DEF g
  <2>3. gor' = [gor EXCEPT ![i] = g]
    BY DEF g
  <2>4. /\ gor' \in [Shard -> GorRecord] /\ gor'[i] = g /\ (\A j \in Shard : j # i => gor'[j] = gor[j])
        /\ \A j \in Shard : gor'[j].pc = gor[j].pc
    BY <2>1, <2>2, <2>3
  <2>5. past' \in PastRecord /\ past'.torn = past.torn /\ past'.late = past.late
    BY <2>0, ShardFacts, Zenon DEF PastRecord
  <2>6. <<gor[i].msg, i>> \in past.torn
    <3>1. gor[i].i \in 1 .. gor[i].len
      BY <2>0 DEF GoroutineOK
    <3> QED
      BY <2>0, <3>1, FanoutAssumption DEF QueueOK, Untorn
  <2>7. \A j \in Shard : GoroutineOK(j)'
    <3>1. \A j \in Shard : j # i => GoroutineOK(j)'
      BY <2>0, <2>4, <1>OtherGoroutinesOK
    <3>2. GoroutineOK(i)'
      <4>1. gor'[i].pc = "none" <=> gor'[0].pc = "none"
        BY <2>0, <2>4, ShardZero DEF GoroutineOK
      <4>2. gor'[i].msg = 0 /\ gor'[i].len = 0
        BY <2>2, <2>4, Zenon
      <4> QED
        BY <4>1, <4>2 DEF GoroutineOK
    <3> QED
      BY <3>1, <3>2
  <2>8. ShardTypes' /\ Registered' = Registered
    BY <2>0, <2>4, <2>5, <2>7, ShardFacts, <1>GorTypes
  <2>9. \A j \in Shard : QueueOK(j)' /\ OrderOK(j)'
    <3>1. \A j \in Shard : j # i => QueueOK(j)' /\ OrderOK(j)'
      BY <2>4, <2>5, <1>OtherGoroutines
    <3>2. QueueOK(i)' /\ OrderOK(i)'
      BY <2>0, <2>2, <2>4, <1>NoMessage, Zenon
    <3> QED
      BY <3>1, <3>2
  <2>10. OnceOK'
    BY <2>5, <2>6 DEF Shards, OnceOK
  <2>11. ASSUME NEW k \in Call PROVE OwedOK(k)'
    <3>0. OwedOK(k) /\ owes[k] \subseteq Writer
      BY <2>0, ShardFacts DEF Shards
    <3>1. ASSUME NEW w \in owes[k], Coming(k, w) PROVE Coming(k, w)'
      <4>1. CASE shardIndex[w] = i
        BY <2>5, <2>6, <3>1, <4>1 DEF Coming
      <4>2. CASE shardIndex[w] # i
        <5>1. gor'[shardIndex[w]] = gor[shardIndex[w]]
          BY <2>4, <3>0, <3>1, <4>2, ShardOf
        <5> QED
          BY <2>5, <3>1, <5>1, Zenon DEF Coming, Ranged
      <4> QED
        BY <4>1, <4>2
    <3> QED
      BY <2>8, <3>0, <3>1, <1>OwedFrame DEF OwedOK
  <2>12. StopOK'
    BY <2>4, <2>5 DEF Shards, StopOK, Open
  <2> QED
    BY <2>8, <2>9, <2>10, <2>11, <2>12 DEF Shards
\* The goroutine writes to the next writer.
<1>ShardWriteStep.
      ASSUME Shards, kind = "sharded", kind' = kind, NEW i \in Shard, gor[i].len > 0, NEW w, w = Ranged(i)[gor[i].i],
             w # NoWriter, NEW m, m = gor[i].msg,
             gor' = [gor EXCEPT ![i] = IF gor[i].i = gor[i].len THEN [NewGoroutine EXCEPT !.pc = gor[i].pc]
                                       ELSE [gor[i] EXCEPT !.i = gor[i].i + 1]],
             Succeeds(m, w), UNCHANGED <<slice, call, chan, down, may>>
      PROVE  Shards'
  <2> USE <1>ShardWriteStep
  <2> DEFINE h == gor[i]
             last == h.i = h.len
             g == IF last THEN [NewGoroutine EXCEPT !.pc = h.pc] ELSE [h EXCEPT !.i = h.i + 1]
  <2>0. ShardTypes /\ QueueOK(i) /\ OrderOK(i) /\ GoroutineOK(i)
    BY ShardFacts DEF Shards
  <2>1. gor \in [Shard -> GorRecord] /\ h \in GorRecord /\ h.pc \in {"none", "select", "drain", "ended"} /\ h.i \in Nat /\ h.len \in Nat
    BY <2>0, ShardFacts DEF GorRecord
  <2>2. m \in Call /\ h.i \in 1 .. h.len /\ m # 0 /\ h.pc \notin {"none", "ended"}
    BY <2>0, <2>1 DEF GoroutineOK, GorRecord
  <2>3. w \in Writer /\ shardIndex[w] = i
    BY <2>0, <2>2, <1>RangedHome DEF OfShard
  <2>4. /\ g \in GorRecord /\ g.pc = h.pc
        /\ last => g.msg = 0 /\ g.len = 0
        /\ ~last => g.msg = m /\ g.len = h.len /\ g.array = h.array /\ g.i = h.i + 1 /\ g.i \in 1 .. g.len
    <3>1. CASE last
      BY <2>1, <3>1, <1>NewGoroutineIs
    <3>2. CASE ~last
      <4>1. h.i + 1 \in Nat /\ h.i + 1 \in 1 .. h.len
        BY <2>1, <2>2, <3>2
      <4>2. g = [h EXCEPT !.i = h.i + 1]
        BY <3>2
      <4>3. m = h.msg
        OBVIOUS
      <4> HIDE DEF h, g
      <4> QED
        BY <2>1, <3>2, <4>1, <4>2, <4>3 DEF GorRecord
    <3> QED
      BY <3>1, <3>2
  <2>5. gor' = [gor EXCEPT ![i] = g]
    BY Zenon
  <2> HIDE DEF g
  <2>6. /\ gor' \in [Shard -> GorRecord] /\ gor'[i] = g /\ (\A j \in Shard : j # i => gor'[j] = gor[j])
        /\ \A j \in Shard : gor'[j].pc = gor[j].pc
    BY <2>1, <2>4, <2>5
  <2>7. got' = [got EXCEPT ![w] = Append(got[w], m)] /\ owes' = [owes EXCEPT ![m] = owes[m] \ {w}] /\ past' = past
    BY DEF Succeeds
  <2>8. /\ got' \in [Writer -> Seq(Call)]
        /\ \A v \in Writer : v # w => got'[v] = got[v]
        /\ Range(got'[w]) = Range(got[w]) \cup {m}
        /\ \A v \in Writer : \A k, n : Before(v, k, n)' => n = m \/ Before(v, k, n)
        /\ \A a, b \in DOMAIN got'[w] : a # b /\ got'[w][a] = got'[w][b] =>
              \/ got'[w][a] = m /\ m \in Range(got[w])
              \/ a \in DOMAIN got[w] /\ b \in DOMAIN got[w] /\ got'[w][a] = got[w][a] /\ got[w][a] = got[w][b]
    <3>1. got \in [Writer -> Seq(Call)] /\ m \in Call /\ w \in Writer
      BY <2>0, <2>2, <2>3, ShardFacts, Zenon
    <3>2. got' = [got EXCEPT ![w] = Append(got[w], m)]
      BY <2>7, Zenon
    <3>3. OneMore(m, w)
      BY <3>1, <3>2, <1>BeforeAppend, Zenon
    <3> QED
      BY <3>3, Zenon DEF OneMore
  <2>9. /\ owes' \in [Call -> SUBSET Writer] /\ owes'[m] = owes[m] \ {w}
        /\ \A k \in Call : k # m => owes'[k] = owes[k]
    BY <2>0, <2>2, <2>7, ShardFacts
  <2>10. Ranged(i)' = slice[i].arrays[g.array] /\ (~last => Ranged(i)' = Ranged(i))
    BY <2>4, <2>6, Zenon DEF Ranged
  <2> HIDE DEF last
  <2>l. /\ last => gor'[i].msg = 0 /\ gor'[i].len = 0
        /\ ~last => gor'[i].msg = m /\ gor'[i].len = h.len
    BY <2>4, <2>6, Zenon
  <2>11. \A j \in Shard : GoroutineOK(j)'
    <3>1. \A j \in Shard : j # i => GoroutineOK(j)'
      BY <2>0, <2>6, <1>OtherGoroutinesOK
    <3>2. GoroutineOK(i)'
      <4>1. gor'[i].pc = "none" <=> gor'[0].pc = "none"
        <5>1. gor'[i].pc = gor[i].pc /\ gor'[0].pc = gor[0].pc
          BY <2>6, ShardZero, Zenon
        <5> QED
          BY <2>0, <5>1 DEF GoroutineOK
      <4>2. CASE last
        <5>1. gor'[i].msg = 0 /\ gor'[i].len = 0
          BY <2>l, <4>2, Zenon
        <5> QED
          BY <4>1, <5>1 DEF GoroutineOK
      <4>3. CASE ~last
        BY <2>0, <2>2, <2>4, <2>6, <2>10, <4>1, <4>3, Zenon DEF GoroutineOK
      <4> QED
        BY <4>2, <4>3
    <3> QED
      BY <3>1, <3>2
  <2>12. ShardTypes' /\ Registered' = Registered
    BY <2>0, <2>6, <2>7, <2>8, <2>9, <2>11, ShardFacts, <1>GorTypes, Zenon
  <2>13. ASSUME <<m, i>> \notin past.torn PROVE m \notin Range(got[w]) /\ Untorn(i)
    <3>1. Untorn(i)
      BY <2>0, <2>13 DEF QueueOK
    <3>2. h.i \in h.i .. h.len
      BY <2>1, <2>2
    <3> QED
      BY <3>1, <3>2 DEF Untorn
  <2>14. \A k : k # m => (Unseen(k, i)' <=> Unseen(k, i))
    BY <2>3, <2>8, Zenon DEF Unseen, OfShard
  <2>15. QueueOK(i)'
    <3>1. /\ IsInjective(chan'[i]) /\ m \notin Range(chan[i]) /\ 0 \notin Range(chan[i])
          /\ \A k \in Range(chan'[i]) : Unseen(k, i)'
      <4>1. m \notin Range(chan[i]) /\ 0 \notin Range(chan[i])
        <5>1. Range(chan[i]) \subseteq Call /\ 0 \notin Call
          BY <2>0, ShardFacts, RangeIs
        <5>2. gor[i].msg \notin Range(chan[i])
          BY <2>0, Zenon DEF QueueOK
        <5> QED
          BY <5>1, <5>2
      <4>2. \A k \in Range(chan[i]) : k # m /\ Unseen(k, i)
        BY <2>0, <4>1, Zenon DEF QueueOK
      <4>3. IsInjective(chan[i]) /\ chan' = chan
        BY <2>0, Zenon DEF QueueOK
      <4> QED
        BY <2>14, <4>1, <4>2, <4>3, Zenon
    <3>2. gor'[i].msg \notin Range(chan'[i]) /\ ~(gor'[i].msg # 0 /\ gor'[i].len = 0)
      <4>1. chan' = chan /\ gor'[i].msg \in {0, m} /\ (gor'[i].msg # 0 => gor'[i].len = h.len)
        BY <2>l, Zenon
      <4>2. h.len # 0
        BY <2>1
      <4> QED
        BY <3>1, <4>1, <4>2, Zenon
    <3>3. ASSUME gor'[i].len > 0, <<gor'[i].msg, i>> \notin past'.torn PROVE Untorn(i)'
      <4>1. ~last
        <5>1. gor'[i].len # 0
          BY <3>3
        <5> QED
          BY <2>l, <5>1, Zenon
      <4>2. Untorn(i) /\ gor'[i].msg = m /\ gor'[i].len = h.len /\ gor'[i].array = h.array /\ gor'[i].i = h.i + 1 /\ Ranged(i)' = Ranged(i)
        BY <2>4, <2>6, <2>7, <2>10, <2>13, <3>3, <4>1, Zenon
      <4>3. ASSUME NEW p \in h.i + 1 .. h.len PROVE m \notin Range(got'[Ranged(i)[p]])
        <5>1. p \in h.i .. h.len /\ p \in 1 .. h.len /\ p # h.i
          BY <2>1, <2>2
        <5>2. Ranged(i)[p] \in Writer /\ Ranged(i)[p] # w /\ m \notin Range(got[Ranged(i)[p]])
          BY <2>2, <4>2, <5>1 DEF Untorn
        <5> QED
          BY <2>8, <5>2, Zenon
      <4> QED
        BY <4>2, <4>3 DEF Untorn
    <3>4. ASSUME NEW k \in Call, NotYet(k, i)' PROVE k \notin Range(chan'[i]) /\ k # gor'[i].msg /\ Unseen(k, i)'
      <4>1. k \notin Range(chan[i]) /\ k # m /\ Unseen(k, i) /\ k # 0
        BY <2>0, <3>4, ShardFacts DEF QueueOK, NotYet
      <4> QED
        BY <2>4, <2>6, <2>14, <4>1, Zenon
    <3> QED
      BY <3>1, <3>2, <3>3, <3>4 DEF QueueOK
  <2>16. OrderOK(i)'
    <3>1. ASSUME NEW v \in OfShard(i), NEW n \in Call, n # m PROVE ~Before(v, m, n)'
      <4>1. v \in Writer /\ ~Before(v, m, n)
        BY <2>0, <3>1 DEF OrderOK, OfShard
      <4> QED
        BY <2>8, <3>1, <4>1
    <3>2. ASSUME NEW v \in OfShard(i), NEW n \in Call PROVE ~(Before(v, 0, n))'
      <4>1. v \in Writer /\ got'[v] \in Seq(Call)
        BY <2>8, Zenon DEF OfShard
      <4>2. \A a \in DOMAIN got'[v] : got'[v][a] # 0
        BY <2>0, <4>1, ShardFacts
      <4> QED
        BY <4>2 DEF Before
    <3>3. \A v \in OfShard(i), n \in Call : n # gor'[i].msg => ~(Before(v, gor[i].msg, n))'
      <4>1. CASE last
        <5>1. gor'[i].msg = 0
          BY <2>4, <2>6, <4>1, Zenon
        <5> QED
          BY <3>2, <5>1
      <4>2. CASE ~last
        <5>1. gor'[i].msg = m
          BY <2>4, <2>6, <4>2, Zenon
        <5> QED
          BY <3>1, <5>1
      <4> QED
        BY <4>1, <4>2
    <3>4. ASSUME NEW u \in OfShard(i), NEW v \in OfShard(i), NEW k \in Call, NEW n \in Call, k # n,
                 Before(u, k, n)', Before(v, n, k)'
          PROVE  FALSE
      <4>1. n # m /\ k # m
        BY <3>1, <3>4, Zenon
      <4>2. Before(u, k, n) /\ Before(v, n, k)
        BY <2>8, <3>4, <4>1 DEF OfShard
      <4> QED
        BY <2>0, <3>4, <4>2 DEF OrderOK
    <3> QED
      BY <3>3, <3>4, Zenon DEF OrderOK, OfShard
  <2>17. \A j \in Shard : QueueOK(j)' /\ OrderOK(j)'
    <3>1. \A v \in Writer : shardIndex[v] # i => got'[v] = got[v]
      BY <2>3, <2>8, Zenon
    <3>2. \A j \in Shard : j # i => QueueOK(j)' /\ OrderOK(j)'
      BY <2>6, <2>7, <3>1, <1>OtherGoroutines
    <3> QED
      BY <2>15, <2>16, <3>2, Zenon
  <2>18. OnceOK'
    <3>0. OnceOK
      BY DEF Shards
    <3>1. ASSUME NEW v \in Writer, NEW a \in DOMAIN got'[v], NEW b \in DOMAIN got'[v], a # b, got'[v][a] = got'[v][b]
          PROVE  <<got'[v][a], shardIndex[v]>> \in past'.torn
      <4>1. CASE v # w
        BY <2>7, <2>8, <3>0, <3>1, <4>1, Zenon DEF OnceOK
      <4>2. CASE v = w
        <5>1. CASE got'[w][a] = m /\ m \in Range(got[w])
          BY <2>3, <2>7, <2>13, <4>2, <5>1, Zenon
        <5>2. CASE a \in DOMAIN got[w] /\ b \in DOMAIN got[w] /\ got'[w][a] = got[w][a] /\ got[w][a] = got[w][b]
          BY <2>3, <2>7, <3>0, <3>1, <4>2, <5>2, Zenon DEF OnceOK
        <5> QED
          BY <2>8, <3>1, <4>2, <5>1, <5>2, Zenon
      <4> QED
        BY <4>1, <4>2
    <3> QED
      BY <2>7, <3>0, <3>1, Zenon DEF OnceOK
  <2>19. ASSUME NEW k \in Call PROVE OwedOK(k)'
    <3>0. OwedOK(k) /\ owes[k] \subseteq Writer
      BY <2>0, ShardFacts, Zenon DEF Shards
    <3>1. ASSUME NEW v \in owes'[k], Coming(k, v) PROVE Coming(k, v)'
      <4>0. v \in owes[k] /\ v \in Writer /\ (k = m => v # w)
        BY <2>9, <3>0, <3>1
      <4>1. CASE shardIndex[v] # i
        <5>1. gor'[shardIndex[v]] = gor[shardIndex[v]]
          BY <2>6, <4>0, <4>1, ShardOf, Zenon
        <5> QED
          BY <2>7, <3>1, <5>1, Zenon DEF Coming, Ranged
      <4>2. CASE shardIndex[v] = i /\ (k \in Range(chan[i]) \/ <<k, i>> \in past.torn)
        BY <2>7, <4>2 DEF Coming
      <4>3. CASE shardIndex[v] = i /\ m = k /\ \E p \in h.i .. h.len : Ranged(i)[p] = v
        <5>1. PICK p \in h.i .. h.len : Ranged(i)[p] = v
          BY <4>3
        <5>2. p # h.i
          BY <4>0, <4>3, <5>1
        <5>3. p \in h.i + 1 .. h.len /\ ~last
          BY <2>1, <5>1, <5>2 DEF last
        <5>4. gor'[i].msg = k /\ p \in gor'[i].i .. gor'[i].len /\ Ranged(i)'[p] = v
          BY <2>4, <2>6, <2>10, <4>3, <5>1, <5>3, Zenon
        <5> QED
          BY <4>3, <5>4 DEF Coming
      <4> QED
        BY <2>1, <3>1, <4>1, <4>2, <4>3 DEF Coming
    <3>2. owes'[k] \subseteq owes[k]
      BY <2>9
    <3> QED
      BY <2>12, <3>0, <3>1, <3>2, <1>OwedFrame DEF OwedOK
  <2>20. StopOK'
    BY <2>6, <2>7 DEF Shards, StopOK, Open
  <2> QED
    BY <2>12, <2>17, <2>18, <2>19, <2>20 DEF Shards
\* The goroutine writes to the next writer, ends its iteration, or meets a nil writer.
<1>ShardDeliverStep.
      ASSUME Shards, kind = "sharded", kind' = kind, NEW i \in Shard, Deliver(i)
      PROVE  Shards'
  <2> USE <1>ShardDeliverStep
  <2>1. /\ gor[i].len > 0 /\ slice[i].arrays[gor[i].array] = Ranged(i)
        /\ UNCHANGED <<slice, call, chan, down, may>>
    BY DEF Deliver, Ranged
  <2>2. CASE Ranged(i)[gor[i].i] = NoWriter
    <3>1. /\ gor' = [gor EXCEPT ![i] = [NewGoroutine EXCEPT !.pc = gor[i].pc]]
          /\ past' = [past EXCEPT !.panicked = TRUE] /\ UNCHANGED <<got, owes>>
      BY <2>1, <2>2 DEF Deliver
    <3> QED
      BY <2>1, <2>2, <3>1, <1>ShardPanicStep, Zenon
  <2>3. CASE Ranged(i)[gor[i].i] # NoWriter
    <3>1. PICK w : w = Ranged(i)[gor[i].i]
      OBVIOUS
    <3>2. PICK m : m = gor[i].msg
      OBVIOUS
    <3>3. /\ gor' = [gor EXCEPT ![i] = IF gor[i].i = gor[i].len THEN [NewGoroutine EXCEPT !.pc = gor[i].pc]
                                       ELSE [gor[i] EXCEPT !.i = gor[i].i + 1]]
          /\ Succeeds(m, w)
      <4>1. gor' = [gor EXCEPT ![i] = IF gor[i].i = gor[i].len \/ slice[i].arrays[gor[i].array][gor[i].i] = NoWriter
                                      THEN [NewGoroutine EXCEPT !.pc = gor[i].pc]
                                      ELSE [gor[i] EXCEPT !.i = gor[i].i + 1]]
        BY DEF Deliver
      <4>2. slice[i].arrays[gor[i].array][gor[i].i] # NoWriter
        BY <2>1, <2>3
      <4>3. Succeeds(gor[i].msg, slice[i].arrays[gor[i].array][gor[i].i])
        BY <4>2, Zenon DEF Deliver
      <4>4. Succeeds(m, w)
        BY <2>1, <3>1, <3>2, <4>3
      <4> QED
        BY <4>1, <4>2, <4>4, Zenon
    <3> QED
      BY <2>1, <2>3, <3>1, <3>2, <3>3, <1>ShardWriteStep, Zenon
  <2> QED
    BY <2>2, <2>3, Zenon
\* The steps of Broadcast.
<1>ShardBroadcastStep.
      ASSUME Shards, kind = "sharded", NEW k \in Call, ShardedBroadcast(k)
      PROVE  Shards'
  <2> USE <1>ShardBroadcastStep
  <2>1. kind' = kind
    BY DEF ShardedBroadcast, Of
  <2>2. CASE /\ Begin(k) /\ call' = [call EXCEPT ![k].pc = "open"]
             /\ past' = [past EXCEPT !.late = @ \cup IF down = "no" THEN {} ELSE {k}]
             /\ UNCHANGED <<slice, chan, gor, down, got>>
    BY <2>1, <2>2, <1>ShardBeginStep, Zenon
  <2>3. CASE /\ call[k].pc = "open" /\ call[k].at < numShards /\ Queue(k, call[k].at)
             /\ owes' = [owes EXCEPT ![k] = @ \ Dropped(call[k].at)]
             /\ call' = [call EXCEPT ![k].at = @ + 1, ![k].own = @ \/ Len(chan[call[k].at]) < shardChanCap]
             /\ UNCHANGED <<slice, gor, down, got, may, past>>
    <3>1. PICK i : i = call[k].at
      OBVIOUS
    <3> QED
      BY <2>1, <2>3, <3>1, <1>ShardQueueStep, Zenon
  <2>4. CASE /\ call[k].pc = "open" /\ call[k].at = numShards /\ call' = Returned(k, ~call[k].own)
             /\ UNCHANGED <<slice, chan, gor, down, got, owes, may, past>>
    BY <2>1, <2>4, <1>ShardReturnStep
  <2> QED
    BY <2>2, <2>3, <2>4, Zenon DEF ShardedBroadcast, log
\* The steps of the goroutine of a shard.
<1>ShardGoroutineStep.
      ASSUME Shards, kind = "sharded", NEW i \in Shard, runShard(i)
      PROVE  Shards'
  <2> USE <1>ShardGoroutineStep
  <2>1. kind' = kind
    BY DEF runShard, Of
  <2>2. CASE gor[i].pc \in {"select", "drain"} /\ Take(i)
    <3>1. PICK m : m = Head(chan[i])
      OBVIOUS
    <3> QED
      BY <2>1, <2>2, <3>1, <1>ShardTakeStep
  <2>3. CASE Copy(i)
    BY <2>1, <2>3, <1>ShardCopyStep
  <2>4. CASE Deliver(i)
    BY <2>1, <2>4, <1>ShardDeliverStep
  <2>5. CASE /\ gor[i].pc = "select" /\ HasNone(i) /\ down # "no" /\ gor' = [gor EXCEPT ![i].pc = "drain"]
             /\ UNCHANGED <<slice, call, chan, down, got, owes, may, past>>
    BY <2>1, <2>5, <1>ShardPcStep, Zenon DEF HasNone
  <2>6. CASE /\ End(i) /\ HasNone(i) /\ gor' = [gor EXCEPT ![i].pc = "ended"]
             /\ UNCHANGED <<slice, call, chan, down, got, owes, may, past>>
    <3>1. gor[i].pc = "drain" /\ chan[i] = <<>> /\ gor[i].msg = 0
      BY <2>6 DEF End, HasNone
    <3>2. down # "no"
      BY <3>1 DEF Shards, StopOK
    <3> QED
      BY <2>1, <2>6, <3>1, <3>2, <1>ShardPcStep, Zenon
  <2> QED
    BY <2>2, <2>3, <2>4, <2>5, <2>6, Zenon DEF runShard, log
\* Steps that leave alone what the invariant is about.
<1>ShardStutter.
      ASSUME Shards, UNCHANGED <<kind, slice, call, chan, gor, down, got, owes, may, past>>
      PROVE  Shards'
  <2> USE <1>ShardStutter
  <2>0. ShardTypes
    BY DEF Shards
  <2>1. ShardTypes' /\ Registered' = Registered
    <3>1. call' \in [Call -> CallRecord] /\ (\A k \in Call : call'[k].pc = "new" => call'[k].at = 0)
          /\ owes' \in [Call -> SUBSET Writer] /\ may' \in [Call -> SUBSET Writer] /\ chan' \in [Shard -> Seq(Call)]
          /\ past' \in PastRecord
      BY <2>0, ShardFacts
    <3> QED
      BY <2>0, <3>1, <1>CallTypes, Zenon
  <2>2. ASSUME NEW i \in Shard PROVE QueueOK(i)' /\ OrderOK(i)'
    <3>0. QueueOK(i) /\ OrderOK(i)
      BY DEF Shards
    <3>1. SameGoroutine(i) /\ Ranged(i)' = Ranged(i) /\ \A j \in Call : NotYet(j, i)' => NotYet(j, i)
      BY DEF SameGoroutine, NotYet, Ranged
    <3>2. QueueOK(i)'
      BY <2>0, <3>0, <3>1, <1>QueueFrame, Zenon DEF QueueOK, Untorn
    <3> QED
      BY <3>0, <3>2, <1>OrderFrame
  <2>3. OnceOK' /\ StopOK'
    BY Zenon DEF Shards, OnceOK, StopOK, Open
  <2>4. ASSUME NEW j \in Call PROVE OwedOK(j)'
    <3>0. OwedOK(j)
      BY DEF Shards
    <3>1. \A w \in owes[j] : Coming(j, w) => Coming(j, w)'
      BY Zenon DEF Coming, Ranged
    <3> QED
      BY <2>1, <3>0, <3>1, <1>OwedFrame DEF OwedOK
  <2> QED
    BY <2>1, <2>2, <2>3, <2>4 DEF Shards
\* The invariant holds at first.
<1>ShardInit. ASSUME FanoutInit PROVE Shards
  <2> USE <1>ShardInit
  <2>1. BaseOK /\ Registered = {}
    BY BaseInit, Zenon
  <2>2. /\ \A i \in Shard : slice[i] = NewSlice /\ chan[i] = <<>> /\ gor[i] = NewGoroutine
        /\ \A k \in Call : call[k] = NewCall /\ owes[k] = {}
        /\ \A w \in Writer : got[w] = <<>> /\ Range(got[w]) = {} /\ DOMAIN got[w] = {}
        /\ down = "no" /\ ~past.panicked
    BY EmptyRange DEF FanoutInit
  <2>3. ArraysOK
    <3>1. \A i \in Shard : Len(slice[i].arrays) = 1 /\ slice[i].arrays[1] = <<>>
      BY <2>2 DEF NewSlice
    <3> QED
      BY <3>1 DEF ArraysOK, HomeArrays
  <2>4. /\ NewGoroutine \in GorRecord /\ NewGoroutine.pc = "none" /\ NewGoroutine.msg = 0 /\ NewGoroutine.len = 0
        /\ NewCall.pc = "new" /\ NewCall.at = 0
    BY Zenon DEF NewGoroutine, GorRecord, NewCall
  <2>5. chan \in [Shard -> Seq(Call)] /\ gor \in [Shard -> GorRecord]
    <3>1. chan = [i \in Shard |-> <<>>] /\ gor = [i \in Shard |-> NewGoroutine] /\ NewGoroutine \in GorRecord
      BY <2>4, Zenon DEF FanoutInit
    <3> QED
      BY ONLY <3>1
  <2>6. \A i \in Shard : GoroutineOK(i)
    BY <2>2, <2>4, ShardZero DEF GoroutineOK
  <2>7. ShardTypes
    BY <2>1, <2>2, <2>3, <2>4, <2>5, <2>6 DEF ShardTypes
  <2>8. ASSUME NEW i \in Shard PROVE QueueOK(i) /\ OrderOK(i)
    <3>1. IsInjective(chan[i]) /\ Range(chan[i]) = {} /\ gor[i].msg = 0 /\ gor[i].len = 0 /\ 0 \notin Call
      BY <2>2, <2>4, <2>7, EmptyRange, ShardFacts
    <3>2. \A k : Unseen(k, i)
      BY <2>2 DEF Unseen, OfShard
    <3>3. QueueOK(i)
      <4>1. ~(gor[i].len > 0)
        BY <3>1
      <4> QED
        BY <3>1, <3>2, <4>1, Zenon DEF QueueOK
    <3>4. \A w \in Writer : \A m, n : ~Before(w, m, n)
      BY <2>2, Zenon DEF Before
    <3>5. OrderOK(i)
      BY <3>4, Zenon DEF OrderOK, OfShard
    <3> QED
      BY <3>3, <3>5, Zenon
  <2>9. OnceOK /\ StopOK
    BY <2>2, <2>4, Zenon DEF OnceOK, StopOK
  <2>10. \A k \in Call : OwedOK(k)
    BY <2>2 DEF OwedOK
  <2> QED
    BY <2>7, <2>8, <2>9, <2>10 DEF Shards
<1>1. FanoutInit => ShardInv
  BY <1>ShardInit DEF ShardInv
<1>2. ShardInv /\ [FanoutNext]_fanout => ShardInv'
  <2> SUFFICES ASSUME ShardInv, [FanoutNext]_fanout, kind' = "sharded" PROVE Shards'
    BY DEF ShardInv
  <2>1. kind = "sharded" /\ kind' = kind /\ (UNCHANGED fanout \/ ShardedNext)
    BY StrategySteps
  <2>2. Shards
    BY <2>1 DEF ShardInv
  <2>3. CASE UNCHANGED fanout
    BY <2>2, <2>3, <1>ShardStutter, Zenon DEF fanout, state, log
  <2>4. CASE ShardedNext
    BY <2>1, <2>2, <2>4, <1>ShardAddStep, <1>ShardRemoveStep, <1>ShardBroadcastStep, <1>ShardStartStep, <1>ShardGoroutineStep,
       <1>ShardStopStep, Zenon DEF ShardedNext
  <2> QED
    BY <2>1, <2>3, <2>4
<1> QED
  BY <1>1, <1>2, PTL DEF FanoutSpec

\* When Stop returns, only messages of calls that it overtook are in the channels.
THEOREM StopDrainsChannels == FanoutSpec => []StopDrains
<1>1. ShardInv => StopDrains
  BY DEF ShardInv, Shards, StopOK, StopDrains
<1> QED
  BY <1>1, ShardInvariance, PTL

\* Two writers of the naive broadcaster, and two of one shard of the sharded one, get
\* the messages that both get in one order.
THEOREM OneOrderForAll == FanoutSpec => []OneOrder
<1>1. ASSUME SyncInv, ShardInv PROVE OneOrder
  <2>1. CASE kind = "naive"
    <3>1. /\ \A w \in Writer : \A a, b \in DOMAIN got[w] : a < b => got[w][a] < got[w][b]
          /\ got \in [Writer -> Seq(Call)]
      BY <1>1, <2>1 DEF SyncInv, Syncs, OneByOne, BaseOK, Synchronous
    <3>2. \A w \in Writer, m, n \in Call : Before(w, m, n) => m < n
      BY <3>1 DEF Before
    <3>3. \A m, n \in Call : m < n => ~(n < m)
      BY FanoutAssumption DEF Call
    <3> QED
      BY <2>1, <3>2, <3>3 DEF OneOrder
  <2>2. CASE kind = "sharded"
    <3> SUFFICES ASSUME NEW v \in Writer, NEW w \in Writer, shardIndex[v] = shardIndex[w], NEW m \in Call,
                        NEW n \in Call, m # n
                 PROVE  ~(Before(v, m, n) /\ Before(w, n, m))
      BY <2>2 DEF OneOrder
    <3>1. shardIndex[v] \in Shard /\ v \in OfShard(shardIndex[v]) /\ w \in OfShard(shardIndex[v])
      BY ShardOf DEF OfShard
    <3>2. OrderOK(shardIndex[v])
      BY <1>1, <2>2, <3>1 DEF ShardInv, Shards
    <3> QED
      BY <3>1, <3>2 DEF OrderOK
  <2> QED
    BY <2>1, <2>2 DEF OneOrder
<1> QED
  BY <1>1, SyncInvariance, ShardInvariance, PTL

=============================================================================
