--------------------------- MODULE Fanout_proofs ----------------------------
(***************************************************************************)
(* Proofs about the strategies of Broadcasters.tla, for any number of      *)
(* writers, shards, workers, calls, removals and failures.  This module has*)
(* what they share, and                                                    *)
(*                                                                         *)
(*   Wakes   the epoll broadcaster loses no wakeup;                        *)
(*   Syncs   the naive broadcaster, the worker pool and the registry       *)
(*           implement SyncBroadcast.                                      *)
(***************************************************************************)
EXTENDS Broadcasters, Integers, TLAPS

Nil == Writer \cup {NoWriter}

Slice ==
    {s \in [arrays : Seq(Seq(Nil)), len : Nat] :
        /\ Len(s.arrays) > 0 /\ s.len <= Len(s.arrays[Len(s.arrays)])
        /\ \A j \in 1 .. s.len : s.arrays[Len(s.arrays)][j] \in Writer}

\* The writers of a slice.
Held(s) == {s.arrays[Len(s.arrays)][j] : j \in 1 .. s.len}

CallRecord ==
    [pc : {"new", "open", "returned"}, at : Nat, own : BOOLEAN, err : BOOLEAN, visit : Nil, seen : SUBSET Writer]

WorkerRecord ==
    {r \in [pc : {"running", "ended"}, evs : SUBSET Writer, w : Nil, queue : Seq(Call)] :
        r.queue # <<>> => r.w \in Writer}

EpollTypeOK ==
    /\ slice \in [Shard -> Slice]
    /\ conn \in [Writer -> [pending : Seq(Call), armed : BOOLEAN]]
    /\ wkr \in [Worker -> WorkerRecord]
    /\ call \in [Call -> CallRecord]

Woken(w) ==
    \/ conn[w].armed
    \/ \E x \in Worker : w \in wkr[x].evs
    \/ \E k \in Call : call[k].visit = w

\* What a step of the epoll broadcaster preserves.
Wakes ==
    /\ EpollTypeOK
    /\ \A w \in Writer : w \notin Registered => conn[w].pending = <<>>
    /\ down = "no" => \A w \in Writer : conn[w].pending # <<>> => Woken(w)

WakeInv == kind = "epoll" => Wakes

-----------------------------------------------------------------------------
(* Queues                                                                   *)

\* Broadcast appends to a queue of messages a message.
LEMMA AppendTyped ==
    ASSUME NEW T, NEW q \in Seq(T), NEW e \in T
    PROVE  Append(q, e) \in Seq(T)
OBVIOUS

-----------------------------------------------------------------------------
(* Slices                                                                   *)

\* The elements of a slice are those of its newest array, up to its length.
LEMMA HeldIsRange ==
    ASSUME NEW s \in Slice
    PROVE  Range(Elements(s)) = Held(s)
<1> DEFINE A == s.arrays[Len(s.arrays)]
<1>1. A \in Seq(Nil) /\ s.len \in Nat /\ s.len <= Len(A)
    BY DEF Slice
<1>2. Elements(s) = SubSeq(A, 1, s.len)
    BY Zenon DEF Elements, Array
<1> HIDE DEF A
<1>3. SubSeq(A, 1, s.len) = [j \in 1 .. s.len |-> A[j]]
    BY <1>1
<1>4. Range(Elements(s)) = {A[j] : j \in 1 .. s.len}
    BY <1>2, <1>3, Zenon DEF Range
<1> QED
    BY <1>4 DEF Held, A

\* append keeps what is there.
LEMMA AppendHolds ==
    ASSUME NEW s \in Slice, NEW w \in Writer
    PROVE  Appended(s, w) \in Slice /\ Held(s) \subseteq Held(Appended(s, w))
<1> DEFINE A == s.arrays[Len(s.arrays)]
           n == Len(A)
           G == [j \in 1 .. (IF n = 0 THEN 1 ELSE 2 * n) |->
                    IF j <= n THEN A[j] ELSE IF j = n + 1 THEN w ELSE NoWriter]
           M == [arrays |-> [s.arrays EXCEPT ![Len(s.arrays)][s.len + 1] = w], len |-> s.len + 1]
           L == [arrays |-> Append(s.arrays, G), len |-> s.len + 1]
<1>1. /\ A \in Seq(Nil) /\ s.len \in Nat /\ s.len <= n /\ n \in Nat
      /\ s.arrays \in Seq(Seq(Nil)) /\ Len(s.arrays) \in Nat /\ Len(s.arrays) > 0
      /\ w \in Nil /\ NoWriter \in Nil
    BY DEF Slice, Nil
<1>2. Appended(s, w) = (CASE w \in Range(Elements(s)) -> s [] s.len < n -> M [] OTHER -> L)
    BY Zenon DEF Appended, Array
<1>4. CASE s.len < n
  <2> DEFINE B == [A EXCEPT ![s.len + 1] = w]
  <2>1. B \in Seq(Nil) /\ Len(B) = n /\ \A j \in 1 .. s.len : B[j] = A[j]
      BY <1>1, <1>4
  <2>2. M.arrays = [s.arrays EXCEPT ![Len(s.arrays)] = B] /\ M.len = s.len + 1
      BY <1>1
  <2>3. M.arrays \in Seq(Seq(Nil)) /\ Len(M.arrays) = Len(s.arrays) /\ M.arrays[Len(s.arrays)] = B
      BY <1>1, <2>1, <2>2
  <2>4. M \in Slice
      BY <1>1, <1>4, <2>1, <2>2, <2>3 DEF Slice
  <2>5. Held(s) \subseteq Held(M)
      BY <1>1, <1>4, <2>1, <2>2, <2>3 DEF Held
  <2>6. Appended(s, w) \in {s, M}
      BY <1>2, <1>4
  <2> QED
      BY <2>4, <2>5, <2>6
<1>5. CASE ~(s.len < n)
  <2>1. G \in Seq(Nil) /\ Len(G) >= n + 1 /\ (\A j \in 1 .. n : G[j] = A[j]) /\ s.len = n
      BY <1>1, <1>5
  <2>2. L.arrays = Append(s.arrays, G) /\ L.len = s.len + 1
      OBVIOUS
  <2>7. \A j \in 1 .. s.len + 1 : G[j] \in Writer
    <3>1. (\A j \in 1 .. s.len : A[j] \in Writer) /\ G[n + 1] = w
        BY <1>1, <2>1 DEF Slice
    <3> QED
        BY <1>1, <2>1, <3>1
  <2> HIDE DEF G
  <2>3. L.arrays \in Seq(Seq(Nil)) /\ Len(L.arrays) = Len(s.arrays) + 1 /\ L.arrays[Len(L.arrays)] = G
      BY <1>1, <2>1, <2>2
  <2>4. L \in Slice
      BY <1>1, <2>1, <2>2, <2>3, <2>7 DEF Slice
  <2>5. Held(s) \subseteq Held(L)
    <3>1. Held(s) = {A[j] : j \in 1 .. n} /\ Held(L) = {G[j] : j \in 1 .. n + 1}
        BY <1>1, <2>1, <2>2, <2>3 DEF Held
    <3>2. \A j \in 1 .. n : j \in 1 .. n + 1 /\ G[j] = A[j]
        BY <1>1, <2>1
    <3> HIDE DEF A, n
    <3> QED
        BY <3>1, <3>2, Zenon
  <2>6. Appended(s, w) \in {s, L}
      BY <1>2, <1>5
  <2> QED
      BY <2>4, <2>5, <2>6, Zenon
<1> QED
    BY <1>4, <1>5

\* The swap keeps everybody but the writer that leaves.
LEMMA SwapHolds ==
    ASSUME NEW s \in Slice, NEW w \in Writer
    PROVE  SwapDeleted(s, w) \in Slice /\ Held(s) \ {w} \subseteq Held(SwapDeleted(s, w))
<1> DEFINE A == s.arrays[Len(s.arrays)]
           i == CHOOSE j \in 1 .. s.len : A[j] = w
           B == [A EXCEPT ![i] = A[s.len], ![s.len] = NoWriter]
           D == [arrays |-> [s.arrays EXCEPT ![Len(s.arrays)] = B], len |-> s.len - 1]
<1>1. /\ A \in Seq(Nil) /\ s.len \in Nat /\ s.len <= Len(A) /\ Len(A) \in Nat
      /\ s.arrays \in Seq(Seq(Nil)) /\ Len(s.arrays) \in Nat /\ Len(s.arrays) > 0
      /\ NoWriter \in Nil
    BY DEF Slice, Nil
<1>2. SwapDeleted(s, w) =
        IF w \notin Range(Elements(s)) THEN s
        ELSE [arrays |-> [s.arrays EXCEPT ![Len(s.arrays)] = [@ EXCEPT ![i] = A[s.len], ![s.len] = NoWriter]],
              len |-> s.len - 1]
    BY Zenon DEF SwapDeleted, Array
<1>3. CASE w \notin Held(s)
    BY <1>2, <1>3, HeldIsRange
<1>4. CASE w \in Held(s)
  <2>1. i \in 1 .. s.len /\ A[i] = w
      BY <1>4 DEF Held
  <2> HIDE DEF i
  <2>2. B \in Seq(Nil) /\ Len(B) = Len(A)
      BY <1>1, <2>1
  <2>3. \A j \in 1 .. s.len : A[j] # w => \E m \in 1 .. s.len - 1 : B[m] = A[j]
    <3> SUFFICES ASSUME NEW j \in 1 .. s.len, A[j] # w
                 PROVE  \E m \in 1 .. s.len - 1 : B[m] = A[j]
        OBVIOUS
    <3>1. CASE j = s.len
      <4>1. i \in 1 .. s.len - 1 /\ B[i] = A[j]
          BY <1>1, <2>1, <3>1
      <4> QED
          BY <4>1
    <3>2. CASE j # s.len
      <4>1. j \in 1 .. s.len - 1 /\ B[j] = A[j]
          BY <1>1, <2>1, <3>2
      <4> QED
          BY <4>1
    <3> QED
        BY <3>1, <3>2
  <2>4. SwapDeleted(s, w) = D
      BY <1>1, <1>2, <1>4, HeldIsRange
  <2>8. \A j \in 1 .. s.len - 1 : B[j] \in Writer
    <3>1. \A j \in 1 .. s.len : A[j] \in Writer
        BY DEF Slice
    <3>2. \A j \in 1 .. s.len - 1 : B[j] \in {A[j], A[s.len]}
        BY <1>1, <2>1
    <3>3. \A j \in 1 .. s.len - 1 : j \in 1 .. s.len /\ s.len \in 1 .. s.len
        BY <1>1
    <3> QED
        BY <3>1, <3>2, <3>3
  <2> HIDE DEF B
  <2>5. D.arrays \in Seq(Seq(Nil)) /\ Len(D.arrays) = Len(s.arrays) /\ D.arrays[Len(s.arrays)] = B /\ D.len = s.len - 1
      BY <1>1, <2>2
  <2>6. D \in Slice
      BY <1>1, <2>1, <2>2, <2>5, <2>8 DEF Slice
  <2>7. Held(s) \ {w} \subseteq Held(D)
      BY <1>1, <2>3, <2>5 DEF Held
  <2> QED
      BY <2>4, <2>6, <2>7, Zenon
<1> QED
    BY <1>3, <1>4

-----------------------------------------------------------------------------
(* The steps                                                                *)

\* The registered writers are those of the slices.
LEMMA RegisteredIsHeld ==
    ASSUME NEW f \in [Shard -> Slice]
    PROVE  UNION {Range(Elements(f[i])) : i \in Shard} = UNION {Held(f[i]) : i \in Shard}
<1>1. \A i \in Shard : Range(Elements(f[i])) = Held(f[i])
    BY HeldIsRange
<1> QED
    BY <1>1

\* Shard 0 is the one that the epoll broadcaster keeps its connections in.
LEMMA ShardZero == 0 \in Shard
    BY FanoutAssumption DEF Shard

\* While the slices stay, so do the registered writers.
LEMMA SameRegistered ==
    ASSUME slice' = slice
    PROVE  Registered' = Registered
    BY DEF Registered, Range, Elements, Array, Shard

\* No nil writer is below the length of a slice.
LEMMA RegisteredAreWriters ==
    ASSUME slice \in [Shard -> Slice]
    PROVE  Registered \subseteq Writer
<1>1. Registered = UNION {Held(slice[i]) : i \in Shard}
    BY RegisteredIsHeld, Zenon DEF Registered, Shard
<1>2. \A i \in Shard : Held(slice[i]) \subseteq Writer
    BY DEF Slice, Held
<1> QED
    BY <1>1, <1>2

Queues == [Writer -> [pending : Seq(Call), armed : BOOLEAN]]

\* The facts that the proofs about workers start from.
LEMMA WakesFacts ==
    ASSUME Wakes
    PROVE  /\ slice \in [Shard -> Slice] /\ conn \in Queues
           /\ wkr \in [Worker -> WorkerRecord] /\ call \in [Call -> CallRecord]
           /\ \A w \in Writer : w \notin Registered => conn[w].pending = <<>>
           /\ down = "no" => \A w \in Writer : conn[w].pending # <<>> => Woken(w)
    BY Zenon DEF Wakes, EpollTypeOK, Queues

-----------------------------------------------------------------------------
\* Wakes is an invariant of every behaviour of the epoll broadcaster; the steps of
\* the other strategies are not steps of such a behaviour.
THEOREM WakeInvariance == FanoutSpec => []WakeInv
\* A connection whose queue is replaced by another one is a connection.
<1>PendingTyped.
      ASSUME NEW T, NEW r \in [pending : T, armed : BOOLEAN], NEW p \in T
      PROVE  [r EXCEPT !.pending = p] \in [pending : T, armed : BOOLEAN]
  BY <1>PendingTyped
\* When one slice changes, those who are registered stay so, but for some.
<1>RegisteredStay.
      ASSUME slice \in [Shard -> Slice], NEW s \in Slice, NEW W,
             Held(slice[0]) \ W \subseteq Held(s), slice' = [slice EXCEPT ![0] = s]
      PROVE  slice' \in [Shard -> Slice] /\ Registered \ W \subseteq Registered'
  <2> USE <1>RegisteredStay
  <2>1. slice' \in [Shard -> Slice]
      BY Zenon
  <2>2. Registered = UNION {Held(slice[i]) : i \in Shard}
      BY RegisteredIsHeld, Zenon DEF Registered, Shard
  <2>3. Registered' = UNION {Held(slice'[i]) : i \in Shard}
      BY <2>1, RegisteredIsHeld, Zenon DEF Registered, Shard
  <2>4. \A i \in Shard : Held(slice[i]) \ W \subseteq Held(slice'[i])
      BY DEF Slice
  <2> QED
      BY <2>1, <2>2, <2>3, <2>4
\* A connection that joins has its event ready.
<1>AddWakes.
      ASSUME Wakes, NEW w \in Writer, EpollAdd(w)
      PROVE  Wakes'
  <2> USE <1>AddWakes
  <2>1. /\ slice' = [slice EXCEPT ![0] = Appended(@, w)]
        /\ conn' = [conn EXCEPT ![w] = [pending |-> <<>>, armed |-> TRUE]]
        /\ UNCHANGED <<call, wkr, down>>
      BY Zenon DEF EpollAdd, Join
  <2>2. slice[0] \in Slice
      BY ShardZero DEF Wakes, EpollTypeOK
  <2>3. slice' \in [Shard -> Slice] /\ Registered \subseteq Registered'
    <3>1. Appended(slice[0], w) \in Slice /\ Held(slice[0]) \ {} \subseteq Held(Appended(slice[0], w))
        BY <2>2, AppendHolds
    <3>2. slice \in [Shard -> Slice] /\ slice' = [slice EXCEPT ![0] = Appended(slice[0], w)]
        BY <2>1 DEF Wakes, EpollTypeOK
    <3>3. slice' \in [Shard -> Slice] /\ Registered \ {} \subseteq Registered'
        BY <3>1, <3>2, <1>RegisteredStay, Zenon
    <3> QED
        BY <3>3
  <2>4. conn' \in [Writer -> [pending : Seq(Call), armed : BOOLEAN]]
      BY <2>1 DEF Wakes, EpollTypeOK
  <2>5. EpollTypeOK'
      BY <2>1, <2>3, <2>4 DEF Wakes, EpollTypeOK
  <2>6. \A v \in Writer : conn'[v].pending # <<>> => v # w /\ conn'[v] = conn[v]
      BY <2>1 DEF Wakes, EpollTypeOK
  <2>7. (\A v \in Writer : v \notin Registered => conn[v].pending = <<>>)'
      BY <2>3, <2>6 DEF Wakes
  <2>8. (down = "no" => \A v \in Writer : conn[v].pending # <<>> => Woken(v))'
      BY <2>1, <2>6 DEF Wakes, Woken
  <2> QED
      BY <2>5, <2>7, <2>8 DEF Wakes
\* A connection that leaves, by Remove or by a failed write, leaves no queue.
<1>LeaveWakes.
      ASSUME Wakes, NEW w \in Writer, slice' = [slice EXCEPT ![0] = SwapDeleted(@, w)],
             conn' = [conn EXCEPT ![w] = [pending |-> <<>>, armed |-> FALSE]],
             UNCHANGED <<call, down>>, 
             wkr' \in [Worker -> WorkerRecord],
             \A x \in Worker : wkr'[x].evs = wkr[x].evs
      PROVE  Wakes'
  <2> USE <1>LeaveWakes
  <2>2. slice[0] \in Slice
      BY ShardZero DEF Wakes, EpollTypeOK
  <2>3. slice' \in [Shard -> Slice] /\ Registered \ {w} \subseteq Registered'
    <3>1. SwapDeleted(slice[0], w) \in Slice
          /\ Held(slice[0]) \ {w} \subseteq Held(SwapDeleted(slice[0], w))
        BY <2>2, SwapHolds
    <3>2. slice \in [Shard -> Slice] /\ slice' = [slice EXCEPT ![0] = SwapDeleted(slice[0], w)]
        BY DEF Wakes, EpollTypeOK
    <3> QED
        BY <3>1, <3>2, <1>RegisteredStay, Zenon
  <2>4. conn' \in [Writer -> [pending : Seq(Call), armed : BOOLEAN]]
      BY DEF Wakes, EpollTypeOK
  <2>5. EpollTypeOK'
      BY <2>3, <2>4 DEF Wakes, EpollTypeOK
  <2>6. \A v \in Writer : conn'[v].pending # <<>> => v # w /\ conn'[v] = conn[v]
      BY DEF Wakes, EpollTypeOK
  <2>7. (\A v \in Writer : v \notin Registered => conn[v].pending = <<>>)'
      BY <2>3, <2>6 DEF Wakes
  <2>8. (down = "no" => \A v \in Writer : conn[v].pending # <<>> => Woken(v))'
      BY <2>6 DEF Wakes, Woken
  <2> QED
      BY <2>5, <2>7, <2>8 DEF Wakes
\* What Broadcast does to the record of its call.
<1>CallRecords.
      ASSUME NEW c \in CallRecord, NEW w \in Nil
      PROVE  /\ [c EXCEPT !.pc = "open"] \in CallRecord /\ [c EXCEPT !.pc = "open"].visit = c.visit
             /\ [c EXCEPT !.visit = w] \in CallRecord
             /\ [c EXCEPT !.visit = w, !.err = TRUE] \in CallRecord
             /\ [NewCall EXCEPT !.pc = "returned", !.err = c.err] \in CallRecord
             /\ [NewCall EXCEPT !.pc = "returned", !.err = c.err].visit = NoWriter
      BY <1>CallRecords, Zenon DEF CallRecord, Nil, NewCall
\* A step of Broadcast: the connection it appends to is the one it visits, and the
\* event of the one it has visited is armed, unless there is nothing to flush.
<1>BroadcastWakes.
      ASSUME Wakes, NEW k \in Call, EpollBroadcast(k)
      PROVE  Wakes'
  <2> USE <1>BroadcastWakes
  <2>1. /\ slice \in [Shard -> Slice] /\ conn \in Queues
        /\ wkr \in [Worker -> WorkerRecord] /\ call \in [Call -> CallRecord]
        /\ \A w \in Writer : w \notin Registered => conn[w].pending = <<>>
        /\ down = "no" => \A w \in Writer : conn[w].pending # <<>> => Woken(w)
      BY Zenon DEF Wakes, EpollTypeOK, Queues
  <2>2. UNCHANGED <<slice, wkr, down>> /\ Registered' = Registered
      BY SameRegistered, Zenon DEF EpollBroadcast
  <2>3. NoWriter \notin Writer /\ call[k] \in CallRecord /\ NoWriter \in Nil /\ {} \in SUBSET Writer
      BY <2>1, FanoutAssumption DEF Nil
  <2>4. SUFFICES /\ conn' \in Queues /\ call' \in [Call -> CallRecord]
                 /\ (\A v \in Writer : v \notin Registered => conn[v].pending = <<>>)'
                 /\ (down = "no" => \A v \in Writer : conn[v].pending # <<>> => Woken(v))'
      BY <2>1, <2>2 DEF Wakes, EpollTypeOK, Queues
  <2>5. ASSUME conn' = conn, call' \in [Call -> CallRecord], \A j \in Call : call'[j].visit = call[j].visit
        PROVE  /\ conn' \in Queues
               /\ (\A v \in Writer : v \notin Registered => conn[v].pending = <<>>)'
               /\ (down = "no" => \A v \in Writer : conn[v].pending # <<>> => Woken(v))'
      BY <2>1, <2>2, <2>5 DEF Woken
  <2>6. CASE conn' = conn /\ call' = [call EXCEPT ![k].pc = "open"]
    <3>1. call' = [call EXCEPT ![k] = [call[k] EXCEPT !.pc = "open"]]
        BY <2>6
    <3>2. call' \in [Call -> CallRecord] /\ \A j \in Call : call'[j].visit = call[j].visit
        BY <2>1, <2>3, <3>1, <1>CallRecords, Zenon
    <3> QED
        BY <2>5, <2>6, <3>2
  <2>7. CASE call[k].visit = NoWriter /\ conn' = conn /\ call' = Returned(k, call[k].err)
    <3>1. call' = [call EXCEPT ![k] = [NewCall EXCEPT !.pc = "returned", !.err = call[k].err]]
        BY <2>7, Zenon DEF Returned
    <3>2. call' \in [Call -> CallRecord] /\ \A j \in Call : call'[j].visit = call[j].visit
      <4> DEFINE r == [NewCall EXCEPT !.pc = "returned", !.err = call[k].err]
      <4>1. r \in CallRecord /\ r.visit = NoWriter
          BY <2>1, <2>3, <1>CallRecords, Zenon
      <4>2. call' = [call EXCEPT ![k] = r]
          BY <3>1
      <4> HIDE DEF r
      <4> QED
          BY <2>1, <2>7, <4>1, <4>2
    <3> QED
        BY <2>5, <2>7, <3>2
  <2>8. CASE /\ call[k].visit = NoWriter
             /\ \E w \in fds \ call[k].seen :
                  /\ conn' = [conn EXCEPT ![w].pending = Append(@, k)]
                  /\ call' = [call EXCEPT ![k].visit = w, ![k].seen = @ \cup {w}]
    <3>0. PICK w \in fds \ call[k].seen :
                  /\ conn' = [conn EXCEPT ![w].pending = Append(@, k)]
                  /\ call' = [call EXCEPT ![k].visit = w, ![k].seen = @ \cup {w}]
        BY <2>8, Zenon
    <3>1. w \in Registered /\ w \in Writer
        BY <2>1, RegisteredAreWriters DEF fds
    <3>2. call' = [call EXCEPT ![k] = [call[k] EXCEPT !.visit = w, !.seen = call[k].seen \cup {w}]]
        BY <3>0, Zenon
    <3>3. call[k].seen \cup {w} \in SUBSET Writer /\ w \in Nil
        BY <2>3, <3>1 DEF CallRecord, Nil
    <3>4. /\ [call[k] EXCEPT !.visit = w, !.seen = call[k].seen \cup {w}] \in CallRecord
          /\ [call[k] EXCEPT !.visit = w, !.seen = call[k].seen \cup {w}].visit = w
      <4> DEFINE c == call[k]
                 served == call[k].seen \cup {w}
      <4>1. c \in CallRecord /\ served \in SUBSET Writer /\ w \in Nil
          BY <2>3, <3>3
      <4> HIDE DEF c, served
      <4>2. [c EXCEPT !.visit = w, !.seen = served] \in CallRecord /\ [c EXCEPT !.visit = w, !.seen = served].visit = w
          BY <4>1, Zenon DEF CallRecord
      <4> QED
          BY <4>2, Zenon DEF c, served
    <3>5. /\ call' \in [Call -> CallRecord] /\ call'[k].visit = w
          /\ \A j \in Call : j # k => call'[j] = call[j]
        BY <2>1, <3>2, <3>4
    <3>8. conn' \in Queues /\ \A v \in Writer : v # w => conn'[v] = conn[v]
      <4> DEFINE q == conn
                 r == conn'
      <4>1. q \in Queues /\ w \in Writer /\ r = [q EXCEPT ![w].pending = Append(@, k)]
          BY <2>1, <3>0, <3>1
      <4> HIDE DEF q, r
      <4>2. q[w] \in [pending : Seq(Call), armed : BOOLEAN]
          BY <4>1 DEF Queues
      <4>3. [q[w] EXCEPT !.pending = Append(@, k)] \in [pending : Seq(Call), armed : BOOLEAN]
        <5>1. q[w].pending \in Seq(Call)
            BY <4>2
        <5>2. Append(q[w].pending, k) \in Seq(Call)
            BY <5>1, AppendTyped
        <5> QED
            BY <4>2, <5>2, <1>PendingTyped
      <4>4. r = [q EXCEPT ![w] = [q[w] EXCEPT !.pending = Append(@, k)]]
          BY <4>1 DEF Queues
      <4>5. r \in Queues /\ \A v \in Writer : v # w => r[v] = q[v]
          BY <4>1, <4>3, <4>4 DEF Queues
      <4> QED
          BY <4>5 DEF q, r
    <3>9. (\A v \in Writer : v \notin Registered => conn[v].pending = <<>>)'
        BY <2>1, <2>2, <3>1, <3>8
    <3>10. (down = "no" => \A v \in Writer : conn[v].pending # <<>> => Woken(v))'
      <4> SUFFICES ASSUME down = "no", NEW v \in Writer, conn'[v].pending # <<>>
                   PROVE  Woken(v)'
          BY <2>2
      <4>1. CASE v = w
          BY <3>5, <4>1 DEF Woken
      <4>2. CASE v # w
        <5>1. conn'[v] = conn[v] /\ Woken(v)
            BY <2>1, <3>8, <4>2
        <5>2. \A j \in Call : call[j].visit = v => call'[j].visit = v
            BY <2>3, <2>8, <3>5
        <5> QED
            BY <2>2, <5>1, <5>2 DEF Woken
      <4> QED
          BY <4>1, <4>2
    <3> QED
        BY <3>5, <3>8, <3>9, <3>10
  <2>9. CASE /\ call[k].visit # NoWriter
             /\ IF call[k].visit \in fds /\ down # "done"
                THEN conn' = Arm(call[k].visit) /\ call' = [call EXCEPT ![k].visit = NoWriter]
                ELSE conn' = conn /\ call' = [call EXCEPT ![k].visit = NoWriter, ![k].err = TRUE]
    <3> DEFINE w == call[k].visit
    <3>1. w \in Writer
        BY <2>3, <2>9 DEF Nil, CallRecord
    <3>2. \/ conn' = [conn EXCEPT ![w] = [conn[w] EXCEPT !.armed = TRUE]]
          \/ conn' = conn /\ (w \notin Registered \/ down = "done")
        BY <2>9 DEF Arm, fds
    <3>3. \/ call' = [call EXCEPT ![k] = [call[k] EXCEPT !.visit = NoWriter]]
          \/ call' = [call EXCEPT ![k] = [call[k] EXCEPT !.visit = NoWriter, !.err = TRUE]]
        BY <2>9
    <3>4. call' \in [Call -> CallRecord] /\ \A j \in Call : j # k => call'[j] = call[j]
        BY <2>1, <2>3, <3>3, <1>CallRecords, Zenon
    <3> HIDE DEF w
    <3>5. conn[w] \in [pending : Seq(Call), armed : BOOLEAN]
        BY <2>1, <3>1 DEF Queues
    <3>6. /\ [conn[w] EXCEPT !.armed = TRUE] \in [pending : Seq(Call), armed : BOOLEAN]
          /\ [conn[w] EXCEPT !.armed = TRUE].armed
          /\ [conn[w] EXCEPT !.armed = TRUE].pending = conn[w].pending
        BY <3>5, Zenon
    <3>7. /\ conn' \in Queues
          /\ \A v \in Writer : conn'[v].pending = conn[v].pending /\ (v # w => conn'[v] = conn[v])
          /\ conn'[w].armed \/ w \notin Registered \/ down = "done"
        BY <2>1, <3>1, <3>2, <3>6, Zenon DEF Queues
    <3>8. (\A v \in Writer : v \notin Registered => conn[v].pending = <<>>)'
        BY <2>1, <2>2, <3>7
    <3>9. (down = "no" => \A v \in Writer : conn[v].pending # <<>> => Woken(v))'
      <4> SUFFICES ASSUME down = "no", NEW v \in Writer, conn'[v].pending # <<>>
                   PROVE  Woken(v)'
          BY <2>2
      <4>1. Woken(v) /\ v \in Registered
          BY <2>1, <3>7
      <4>2. CASE v = w
          BY <3>7, <4>1, <4>2 DEF Woken
      <4>3. CASE v # w
        <5>1. conn'[v] = conn[v] /\ \A j \in Call : call[j].visit = v => call'[j].visit = v
            BY <3>4, <3>7, <4>3 DEF w
        <5> QED
            BY <2>2, <4>1, <5>1 DEF Woken
      <4> QED
          BY <4>2, <4>3
    <3> QED
        BY <3>4, <3>7, <3>8, <3>9
  <2>10. \/ conn' = conn /\ call' = [call EXCEPT ![k].pc = "open"]
         \/ call[k].visit = NoWriter /\ conn' = conn /\ call' = Returned(k, call[k].err)
         \/ /\ call[k].visit = NoWriter
            /\ \E w \in fds \ call[k].seen :
                  /\ conn' = [conn EXCEPT ![w].pending = Append(@, k)]
                  /\ call' = [call EXCEPT ![k].visit = w, ![k].seen = @ \cup {w}]
         \/ /\ call[k].visit # NoWriter
            /\ IF call[k].visit \in fds /\ down # "done"
               THEN conn' = Arm(call[k].visit) /\ call' = [call EXCEPT ![k].visit = NoWriter]
               ELSE conn' = conn /\ call' = [call EXCEPT ![k].visit = NoWriter, ![k].err = TRUE]
      BY Zenon DEF EpollBroadcast, Begin
  <2> QED
      BY <2>6, <2>7, <2>8, <2>9, <2>10, Zenon
\* An event that EpollWait takes is in the hands of the worker.
<1>EpollWaitWakes.
      ASSUME Wakes, NEW x \in Worker, EpollWait(x)
      PROVE  Wakes'
  <2> USE <1>EpollWaitWakes
  <2>1. /\ wkr[x].evs = {} /\ UNCHANGED <<slice, call, down>>
        /\ \E ready \in SUBSET {w \in fds : conn[w].armed} \ {{}} :
              /\ wkr' = [wkr EXCEPT ![x].evs = ready]
              /\ conn' = [w \in Writer |-> [conn[w] EXCEPT !.armed = @ /\ w \notin ready]]
      BY Zenon DEF EpollWait
  <2>2. PICK ready \in SUBSET fds :
              /\ wkr' = [wkr EXCEPT ![x].evs = ready]
              /\ conn' = [w \in Writer |-> [conn[w] EXCEPT !.armed = @ /\ w \notin ready]]
      BY <2>1, Zenon
  <2>3. ready \subseteq Writer
      BY WakesFacts, RegisteredAreWriters DEF fds
  <2>4. Registered' = Registered
      BY <2>1, SameRegistered
  <2>5. /\ wkr' \in [Worker -> WorkerRecord] /\ wkr'[x].evs = ready
        /\ \A y \in Worker : y # x => wkr'[y] = wkr[y]
    <3>1. wkr[x] \in WorkerRecord /\ wkr' = [wkr EXCEPT ![x] = [wkr[x] EXCEPT !.evs = ready]]
        BY <2>2, WakesFacts
    <3>2. [wkr[x] EXCEPT !.evs = ready] \in WorkerRecord /\ [wkr[x] EXCEPT !.evs = ready].evs = ready
        BY <2>3, <3>1 DEF WorkerRecord
    <3> QED
        BY <3>1, <3>2, WakesFacts
  <2>6. conn' \in Queues /\ \A w \in Writer : /\ conn'[w].pending = conn[w].pending
                                              /\ conn[w].armed => conn'[w].armed \/ w \in ready
    <3>1. \A w \in Writer : /\ [conn[w] EXCEPT !.armed = @ /\ w \notin ready] \in [pending : Seq(Call), armed : BOOLEAN]
                            /\ [conn[w] EXCEPT !.armed = @ /\ w \notin ready].pending = conn[w].pending
                            /\ conn[w].armed => [conn[w] EXCEPT !.armed = @ /\ w \notin ready].armed \/ w \in ready
        BY WakesFacts, Zenon DEF Queues
    <3> QED
        BY <2>2, <3>1 DEF Queues
  <2>7. (\A v \in Writer : v \notin Registered => conn[v].pending = <<>>)'
      BY <2>4, <2>6, WakesFacts
  <2>8. (down = "no" => \A v \in Writer : conn[v].pending # <<>> => Woken(v))'
    <3> SUFFICES ASSUME down = "no", NEW v \in Writer, conn'[v].pending # <<>>
                 PROVE  Woken(v)'
        BY <2>1
    <3>1. Woken(v)
        BY <2>6, WakesFacts
    <3>2. CASE v \in ready
        BY <2>5, <3>2 DEF Woken
    <3>3. CASE v \notin ready
      <4>1. conn[v].armed => conn'[v].armed
          BY <2>6, <3>3
      <4>2. \A y \in Worker : v \in wkr[y].evs => v \in wkr'[y].evs
          BY <2>1, <2>5
      <4> QED
          BY <2>1, <3>1, <4>1, <4>2 DEF Woken
    <3> QED
        BY <3>2, <3>3
  <2> QED
      BY <2>1, <2>5, <2>6, <2>7, <2>8, WakesFacts DEF Wakes, EpollTypeOK, Queues
\* A worker that gives an event up has taken the queue.
<1>TakeQueueWakes.
      ASSUME Wakes, NEW x \in Worker, TakeQueue(x)
      PROVE  Wakes'
  <2> USE <1>TakeQueueWakes
  <2>1. /\ UNCHANGED <<slice, call, down>>
        /\ \E w \in wkr[x].evs :
              /\ wkr' = [wkr EXCEPT ![x].evs = @ \ {w}, ![x].w = IF conn[w].pending = <<>> THEN NoWriter ELSE w,
                                    ![x].queue = conn[w].pending]
              /\ conn' = [conn EXCEPT ![w].pending = <<>>]
      BY Zenon DEF TakeQueue
  <2>2. PICK w \in wkr[x].evs :
              /\ wkr' = [wkr EXCEPT ![x].evs = @ \ {w}, ![x].w = IF conn[w].pending = <<>> THEN NoWriter ELSE w,
                                    ![x].queue = conn[w].pending]
              /\ conn' = [conn EXCEPT ![w].pending = <<>>]
      BY <2>1, Zenon
  <2>3. wkr[x] \in WorkerRecord /\ w \in Writer
      BY WakesFacts DEF WorkerRecord
  <2>4. Registered' = Registered
      BY <2>1, SameRegistered
  <2> DEFINE to == IF conn[w].pending = <<>> THEN NoWriter ELSE w
             q == conn[w].pending
  <2>5. to \in Nil /\ q \in Seq(Call) /\ (q # <<>> => to \in Writer)
      BY <2>3, WakesFacts DEF Nil, Queues
  <2>6. wkr' = [wkr EXCEPT ![x] = [wkr[x] EXCEPT !.evs = @ \ {w}, !.w = to, !.queue = q]]
      BY <2>2, Zenon
  <2> HIDE DEF to, q
  <2>7. /\ [wkr[x] EXCEPT !.evs = @ \ {w}, !.w = to, !.queue = q] \in WorkerRecord
        /\ [wkr[x] EXCEPT !.evs = @ \ {w}, !.w = to, !.queue = q].evs = wkr[x].evs \ {w}
      BY <2>3, <2>5, Zenon DEF WorkerRecord
  <2>8. /\ wkr' \in [Worker -> WorkerRecord]
        /\ \A y \in Worker, v \in Writer : v # w /\ v \in wkr[y].evs => v \in wkr'[y].evs
      BY <2>6, <2>7, WakesFacts
  <2>9. conn' \in Queues /\ \A v \in Writer : conn'[v].pending # <<>> => v # w /\ conn'[v] = conn[v]
    <3>1. conn' = [conn EXCEPT ![w] = [conn[w] EXCEPT !.pending = <<>>]]
        BY <2>2
    <3>2. conn[w] \in [pending : Seq(Call), armed : BOOLEAN] /\ <<>> \in Seq(Call)
        BY <2>3, WakesFacts DEF Queues
    <3>3. /\ [conn[w] EXCEPT !.pending = <<>>] \in [pending : Seq(Call), armed : BOOLEAN]
          /\ [conn[w] EXCEPT !.pending = <<>>].pending = <<>>
        BY <3>2, Zenon
    <3> QED
        BY <2>3, <3>1, <3>3, WakesFacts DEF Queues
  <2>10. (\A v \in Writer : v \notin Registered => conn[v].pending = <<>>)'
      BY <2>4, <2>9, WakesFacts
  <2>11. (down = "no" => \A v \in Writer : conn[v].pending # <<>> => Woken(v))'
    <3> SUFFICES ASSUME down = "no", NEW v \in Writer, conn'[v].pending # <<>>
                 PROVE  Woken(v)'
        BY <2>1
    <3>1. Woken(v) /\ v # w /\ conn'[v] = conn[v]
        BY <2>9, WakesFacts
    <3>2. \A y \in Worker : v \in wkr[y].evs => v \in wkr'[y].evs
        BY <2>8, <3>1
    <3> QED
        BY <2>1, <3>1, <3>2, Zenon DEF Woken
  <2> QED
      BY <2>1, <2>8, <2>9, <2>10, <2>11, WakesFacts DEF Wakes, EpollTypeOK, Queues
\* A write goes on with the queue that the worker has taken, or makes the connection
\* leave.
<1>FlushWakes.
      ASSUME Wakes, NEW x \in Worker, WriteQueue(x)
      PROVE  Wakes'
  <2> USE <1>FlushWakes
  <2> DEFINE w == wkr[x].w
             rest == Tail(wkr[x].queue)
             to == IF rest = <<>> THEN NoWriter ELSE w
  <2>1. wkr[x] \in WorkerRecord /\ wkr[x].queue # <<>>
      BY WakesFacts DEF WriteQueue
  <2>2. /\ w \in Writer /\ rest \in Seq(Call) /\ <<>> \in Seq(Call) /\ NoWriter \in Nil
        /\ to \in Nil /\ (rest # <<>> => to \in Writer)
      BY <2>1 DEF WorkerRecord, Nil
  <2>3. \/ /\ wkr' = [wkr EXCEPT ![x].queue = rest, ![x].w = to]
           /\ UNCHANGED <<slice, conn, call, down>>
        \/ /\ wkr' = [wkr EXCEPT ![x].queue = <<>>, ![x].w = NoWriter]
           /\ slice' = [slice EXCEPT ![0] = SwapDeleted(@, w)]
           /\ conn' = [conn EXCEPT ![w] = [pending |-> <<>>, armed |-> FALSE]]
           /\ UNCHANGED <<call, down>>
      BY Zenon DEF WriteQueue
  <2> HIDE DEF w, rest, to
  <2>4. ASSUME NEW q \in Seq(Call), NEW v \in Nil, q # <<>> => v \in Writer,
               wkr' = [wkr EXCEPT ![x].queue = q, ![x].w = v]
        PROVE  wkr' \in [Worker -> WorkerRecord] /\ \A y \in Worker : wkr'[y].evs = wkr[y].evs
    <3>1. wkr' = [wkr EXCEPT ![x] = [wkr[x] EXCEPT !.queue = q, !.w = v]]
        BY <2>4, Zenon
    <3>2. /\ [wkr[x] EXCEPT !.queue = q, !.w = v] \in WorkerRecord
          /\ [wkr[x] EXCEPT !.queue = q, !.w = v].evs = wkr[x].evs
        BY <2>1, <2>4, Zenon DEF WorkerRecord
    <3> QED
        BY <3>1, <3>2, WakesFacts
  <2>5. CASE /\ wkr' = [wkr EXCEPT ![x].queue = rest, ![x].w = to]
             /\ UNCHANGED <<slice, conn, call, down>>
    <3>1. wkr' \in [Worker -> WorkerRecord] /\ \A y \in Worker : wkr'[y].evs = wkr[y].evs
        BY <2>2, <2>4, <2>5, Zenon
    <3>2. Registered' = Registered
        BY <2>5, SameRegistered
    <3>3. \A v \in Writer : Woken(v) => Woken(v)'
        BY <2>5, <3>1 DEF Woken
    <3> QED
        BY <2>5, <3>1, <3>2, <3>3, WakesFacts DEF Wakes, EpollTypeOK, Queues
  <2>6. CASE /\ wkr' = [wkr EXCEPT ![x].queue = <<>>, ![x].w = NoWriter]
             /\ slice' = [slice EXCEPT ![0] = SwapDeleted(@, w)]
             /\ conn' = [conn EXCEPT ![w] = [pending |-> <<>>, armed |-> FALSE]]
             /\ UNCHANGED <<call, down>>
    <3>1. wkr' \in [Worker -> WorkerRecord] /\ \A y \in Worker : wkr'[y].evs = wkr[y].evs
        BY <2>2, <2>4, <2>6, Zenon
    <3> QED
        BY <2>2, <2>6, <3>1, <1>LeaveWakes, Zenon
  <2> QED
      BY <2>3, <2>5, <2>6
\* Steps that touch nothing but the state of a worker that ends, or of Close.
<1>RestWakes.
      ASSUME Wakes, UNCHANGED <<slice, conn, call>>, down' = down \/ down' # "no",
             wkr' \in [Worker -> WorkerRecord], \A y \in Worker : wkr'[y].evs = wkr[y].evs
      PROVE  Wakes'
  <2> USE <1>RestWakes
  <2>1. Registered' = Registered
      BY SameRegistered
  <2>2. \A v \in Writer : Woken(v) => Woken(v)'
      BY DEF Woken
  <2> QED
      BY <2>1, <2>2, WakesFacts DEF Wakes, EpollTypeOK, Queues
\* Every step of the epoll broadcaster preserves Wakes.
<1>EpollStep.
      ASSUME Wakes,
             \/ \E w \in Writer : EpollAdd(w)
             \/ \E w \in Writer : EpollRemove(w)
             \/ \E k \in Call : EpollBroadcast(k)
             \/ \E x \in Worker : runWorker(x)
             \/ EpollClose
      PROVE  Wakes'
  <2> USE <1>EpollStep
  <2>1. ASSUME NEW w \in Writer, EpollRemove(w) PROVE Wakes'
    <3>1. /\ slice' = [slice EXCEPT ![0] = SwapDeleted(@, w)]
          /\ conn' = [conn EXCEPT ![w] = [pending |-> <<>>, armed |-> FALSE]]
          /\ UNCHANGED <<call, down, wkr>>
        BY <2>1, Zenon DEF EpollRemove, Leave
    <3> QED
        BY <3>1, <1>LeaveWakes, WakesFacts, Zenon
  <2>2. ASSUME NEW x \in Worker, runWorker(x) PROVE Wakes'
    <3>1. \/ EpollWait(x) \/ TakeQueue(x) \/ WriteQueue(x)
          \/ wkr' = [wkr EXCEPT ![x].pc = "ended"] /\ UNCHANGED <<slice, call, conn, down>>
        BY <2>2, Zenon DEF runWorker
    <3>2. CASE wkr' = [wkr EXCEPT ![x].pc = "ended"] /\ UNCHANGED <<slice, call, conn, down>>
      <4>1. wkr' \in [Worker -> WorkerRecord] /\ \A y \in Worker : wkr'[y].evs = wkr[y].evs
        <5>1. wkr[x] \in WorkerRecord /\ wkr' = [wkr EXCEPT ![x] = [wkr[x] EXCEPT !.pc = "ended"]]
            BY <3>2, WakesFacts
        <5>2. /\ [wkr[x] EXCEPT !.pc = "ended"] \in WorkerRecord
              /\ [wkr[x] EXCEPT !.pc = "ended"].evs = wkr[x].evs
            BY <5>1 DEF WorkerRecord
        <5> QED
            BY <5>1, <5>2, WakesFacts
      <4> QED
          BY <3>2, <4>1, <1>RestWakes
    <3> QED
        BY <3>1, <3>2, <1>EpollWaitWakes, <1>TakeQueueWakes, <1>FlushWakes
  <2>3. ASSUME EpollClose PROVE Wakes'
    <3>1. UNCHANGED <<slice, conn, call, wkr>> /\ down' # "no"
        BY <2>3 DEF EpollClose
    <3> QED
        BY <3>1, <1>RestWakes, WakesFacts
  <2> QED
      BY <2>1, <2>2, <2>3, <1>AddWakes, <1>BroadcastWakes
<1>1. FanoutInit => WakeInv
  <2> SUFFICES ASSUME FanoutInit PROVE Wakes
      BY DEF WakeInv
  <2>1. NewSlice \in Slice
    <3>1. NewSlice.arrays \in Seq(Seq(Nil)) /\ Len(NewSlice.arrays) = 1 /\ NewSlice.len = 0
          /\ NewSlice.arrays[1] = <<>> /\ NewSlice \in [arrays : Seq(Seq(Nil)), len : Nat]
        BY DEF NewSlice
    <3> QED
        BY <3>1 DEF Slice
  <2>2. EpollTypeOK
      BY <2>1 DEF FanoutInit, EpollTypeOK, CallRecord, WorkerRecord, NewCall, Nil
  <2>3. \A w \in Writer : conn[w].pending = <<>>
      BY DEF FanoutInit
  <2> QED
      BY <2>2, <2>3 DEF Wakes
<1>2. WakeInv /\ [FanoutNext]_fanout => WakeInv'
  <2> SUFFICES ASSUME WakeInv, [FanoutNext]_fanout, kind' = "epoll"
               PROVE  Wakes'
      BY DEF WakeInv
  <2>1. CASE UNCHANGED fanout
    <3>1. UNCHANGED <<kind, slice, conn, call, down, wkr>>
        BY <2>1, Zenon DEF fanout, state
    <3>2. Wakes
        BY <3>1 DEF WakeInv
    <3> QED
        BY <3>1, <3>2, <1>RestWakes, WakesFacts
  <2>2. CASE \/ \E w \in Writer : EpollAdd(w)
             \/ \E w \in Writer : EpollRemove(w)
             \/ \E k \in Call : EpollBroadcast(k)
             \/ \E x \in Worker : runWorker(x)
             \/ EpollClose
    <3>1. kind = "epoll"
        BY <2>2, Zenon DEF EpollAdd, EpollRemove, EpollBroadcast, runWorker, EpollClose, Of
    <3> QED
        BY <2>2, <3>1, <1>EpollStep DEF WakeInv
  <2>3. CASE \/ \E w \in Writer : NaiveAdd(w) \/ NaiveRemove(w)
             \/ \E k \in Call : NaiveBroadcast(k)
      BY <2>3 DEF NaiveAdd, NaiveRemove, NaiveBroadcast, Of
  <2>4. CASE \/ \E w \in Writer : PoolAdd(w) \/ PoolRemove(w)
             \/ \E k \in Call : PoolBroadcast(k)
             \/ PoolRelease
      BY <2>4 DEF PoolAdd, PoolRemove, PoolBroadcast, PoolRelease, Of
  <2>5. CASE \/ \E w \in Writer : ShardedAdd(w) \/ ShardedRemove(w)
             \/ \E k \in Call : ShardedBroadcast(k)
             \/ ShardedStart
             \/ \E i \in Shard : runShard(i)
             \/ ShardedStop
      BY <2>5, Zenon DEF ShardedAdd, ShardedRemove, ShardedBroadcast, ShardedStart, runShard, ShardedStop, Of
  <2>6. CASE \/ \E w \in Writer : RingAdd(w) \/ RingRemove(w)
             \/ \E k \in Call : RingBroadcast(k)
             \/ Kernel
      BY <2>6 DEF RingAdd, RingRemove, RingBroadcast, Kernel, Of
  <2>7. CASE \/ \E w \in Writer : RegistryAdd(w) \/ RegistryRemove(w)
             \/ \E k \in Call : RegistrySnapshot(k)
      BY <2>7 DEF RegistryAdd, RegistryRemove, RegistrySnapshot, Of
  <2> QED
      BY <2>1, <2>2, <2>3, <2>4, <2>5, <2>6, <2>7, Zenon DEF FanoutNext, AtRest
<1> QED
    BY <1>1, <1>2, PTL DEF FanoutSpec

\* No message waits in the queue of an epoll connection for a wakeup that nobody will
\* give: NoLostWakeup, for every number of connections, workers and calls.
THEOREM NoWakeupIsLost == FanoutSpec => []NoLostWakeup
<1>1. WakeInv => NoLostWakeup
  <2> SUFFICES ASSUME Wakes, down = "no", NEW w \in Registered, conn[w].pending # <<>>
               PROVE  Woken(w)
      BY DEF WakeInv, NoLostWakeup, Woken
  <2>2. w \in Writer
      BY RegisteredAreWriters, WakesFacts
  <2> QED
      BY <2>2, WakesFacts
<1> QED
    BY <1>1, WakeInvariance, PTL

-----------------------------------------------------------------------------
(* What every strategy keeps                                                *)

\* The shard of a writer: some strategies have only one list.
Home(w) == IF kind \in {"naive", "epoll", "iouring"} THEN 0 ELSE shardIndex[w]

Uniq(s) == \A a, b \in 1 .. s.len : Array(s)[a] = Array(s)[b] => a = b

SlicesOK ==
    /\ slice \in [Shard -> Slice]
    /\ \A i \in Shard : Uniq(slice[i]) /\ \A w \in Held(slice[i]) : Home(w) = i

PastRecord ==
    [fails : Nat, removes : Nat, failed : SUBSET Call, torn : SUBSET (Call \X Shard), late : SUBSET Call,
     lapse : BOOLEAN, panicked : BOOLEAN]

BaseOK ==
    /\ SlicesOK
    /\ call \in [Call -> CallRecord]
    /\ owes \in [Call -> SUBSET Writer] /\ may \in [Call -> SUBSET Writer]
    /\ got \in [Writer -> Seq(Call)]
    /\ past \in PastRecord

-----------------------------------------------------------------------------
(* The synchronous strategies                                               *)

Tasked == [Call -> [Shard -> Seq(Writer)]]

\* The shards that call k has still to copy: the naive broadcaster copies at once.
Ahead(k) == IF kind = "naive" THEN {} ELSE {i \in Shard : i >= call[k].at}

\* The writers in the tasks of call k.
Todo(k) == UNION {Range(job[k][i]) : i \in Shard}

Fresh(k) == owes[k] = {} /\ may[k] = {} /\ call[k].at = 0 /\ Todo(k) = {} /\ \A w \in Writer : k \notin Range(got[w])

Serving(k) ==
    /\ Registered \subseteq may[k] /\ owes[k] \subseteq Registered
    /\ \A w \in owes[k] : w \in Todo(k) \/ Home(w) \in Ahead(k)
    /\ \A w \in Todo(k) : w \in may[k] /\ k \notin Range(got[w])
    /\ \A i \in Ahead(k) : job[k][i] = <<>>
    /\ \A w \in Writer : k \in Range(got[w]) => Home(w) \notin Ahead(k)

Done(k) == owes[k] = {} /\ Todo(k) = {}

SyncCall(k) ==
    /\ call[k].pc = "new" => Fresh(k)
    /\ call[k].pc = "open" => Serving(k)
    /\ call[k].pc = "returned" => Done(k)
    /\ call[k].err <=> k \in past.failed

\* The tasks are lists of different writers, of their shard; the registry has none.
TasksOK ==
    /\ job \in Tasked
    /\ \A k \in Call, i \in Shard : IsInjective(job[k][i]) /\ \A w \in Range(job[k][i]) : Home(w) = i
    /\ kind = "registry" => \A k \in Call, i \in Shard : job[k][i] = <<>>

NoAccident == ~past.lapse /\ ~past.panicked /\ past.torn = {}

\* The calls of the naive broadcaster follow one another, and so do their messages.
OneByOne ==
    /\ \A k \in Call : call[k].pc = "open" <=> held = k
    /\ \A j, k \in Call : call[j].pc \in {"new", "open"} /\ j < k => call[k].pc = "new"
    /\ \A w \in Writer : \A a, b \in DOMAIN got[w] : a < b => got[w][a] < got[w][b]

Syncs ==
    /\ BaseOK
    /\ TasksOK
    /\ \A k \in Call : SyncCall(k)
    /\ \A w \in Writer : IsInjective(got[w])
    /\ NoAccident
    /\ kind = "naive" => OneByOne

SyncInv == kind \in Synchronous => Syncs

-----------------------------------------------------------------------------
(* Sequences                                                                *)

\* A sequence has its elements at the positions up to its length.
LEMMA RangeIs ==
    ASSUME NEW T, NEW s \in Seq(T)
    PROVE  Range(s) = {s[j] : j \in 1 .. Len(s)} /\ DOMAIN s = 1 .. Len(s) /\ Len(s) \in Nat /\ Range(s) \subseteq T
<1>1. DOMAIN s = 1 .. Len(s) /\ Len(s) \in Nat
  OBVIOUS
<1>2. \A j \in 1 .. Len(s) : s[j] \in T
  OBVIOUS
<1>3. Range(s) = {s[j] : j \in 1 .. Len(s)}
  BY <1>1, Zenon DEF Range
<1> QED
  BY <1>1, <1>2, <1>3

\* The empty sequence has no elements.
LEMMA EmptyRange == ASSUME NEW T PROVE <<>> \in Seq(T) /\ Range(<<>>) = {} /\ IsInjective(<<>>)
  BY DEF Range, IsInjective

\* A writer gets a message.
LEMMA RangeAppend ==
    ASSUME NEW T, NEW s \in Seq(T), NEW e \in T
    PROVE  /\ Append(s, e) \in Seq(T)
           /\ Range(Append(s, e)) = Range(s) \cup {e}
           /\ IsInjective(s) /\ e \notin Range(s) => IsInjective(Append(s, e))
<1> DEFINE a == Append(s, e)
<1>1. /\ a \in Seq(T) /\ Len(a) = Len(s) + 1 /\ Len(s) \in Nat
      /\ \A j \in 1 .. Len(s) : a[j] = s[j]
      /\ a[Len(s) + 1] = e
  OBVIOUS
<1>2. /\ Range(a) = {a[j] : j \in 1 .. Len(a)} /\ DOMAIN a = 1 .. Len(a)
      /\ Range(s) = {s[j] : j \in 1 .. Len(s)} /\ DOMAIN s = 1 .. Len(s)
  BY <1>1, RangeIs, Zenon
<1>3. \A j \in 1 .. Len(a) : j \in 1 .. Len(s) \/ j = Len(s) + 1
  BY <1>1
<1>4. Len(s) + 1 \in 1 .. Len(a) /\ 1 .. Len(s) \subseteq 1 .. Len(a)
  BY <1>1
<1> HIDE DEF a
<1>5. Range(a) = Range(s) \cup {e}
  <2>1. Range(a) \subseteq Range(s) \cup {e}
    BY <1>1, <1>2, <1>3
  <2>2. Range(s) \cup {e} \subseteq Range(a)
    BY <1>1, <1>2, <1>4
  <2> QED
    BY <2>1, <2>2
<1>6. ASSUME IsInjective(s), e \notin Range(s) PROVE IsInjective(a)
  <2>1. \A j \in 1 .. Len(s) : s[j] # e
    BY <1>2, <1>6
  <2>2. \A i, j \in 1 .. Len(s) : s[i] = s[j] => i = j
    BY <1>2, <1>6 DEF IsInjective
  <2>3. \A i, j \in 1 .. Len(a) : a[i] = a[j] => i = j
    BY <1>1, <1>3, <2>1, <2>2
  <2> QED
    BY <1>2, <2>3 DEF IsInjective
<1> QED
  BY <1>1, <1>5, <1>6 DEF a

\* A task goes on to its next writer.
LEMMA RangeTail ==
    ASSUME NEW T, NEW s \in Seq(T), s # <<>>, IsInjective(s)
    PROVE  /\ Tail(s) \in Seq(T) /\ IsInjective(Tail(s)) /\ Head(s) \in Range(s)
           /\ Range(Tail(s)) = Range(s) \ {Head(s)}
<1> DEFINE t == Tail(s)
<1>1. /\ t \in Seq(T) /\ Len(t) = Len(s) - 1 /\ Len(s) \in Nat /\ Len(s) > 0 /\ Head(s) = s[1]
      /\ \A j \in 1 .. Len(t) : t[j] = s[j + 1]
  OBVIOUS
<1>2. /\ Range(t) = {t[j] : j \in 1 .. Len(t)} /\ DOMAIN t = 1 .. Len(t)
      /\ Range(s) = {s[j] : j \in 1 .. Len(s)} /\ DOMAIN s = 1 .. Len(s)
  BY <1>1, RangeIs, Zenon
<1>3. \A i, j \in 1 .. Len(s) : s[i] = s[j] => i = j
  BY <1>2 DEF IsInjective
<1>4. /\ \A j \in 1 .. Len(t) : j + 1 \in 1 .. Len(s) /\ j + 1 # 1 /\ j \in Int
      /\ \A j \in 1 .. Len(s) : j = 1 \/ (j - 1 \in 1 .. Len(t) /\ (j - 1) + 1 = j)
      /\ 1 \in 1 .. Len(s)
  BY <1>1
<1> HIDE DEF t
<1>5. \A i, j \in 1 .. Len(t) : t[i] = t[j] => i = j
  <2> SUFFICES ASSUME NEW i \in 1 .. Len(t), NEW j \in 1 .. Len(t), t[i] = t[j] PROVE i = j
    OBVIOUS
  <2>1. i + 1 = j + 1
    BY <1>1, <1>3, <1>4
  <2> QED
    BY <1>4, <2>1
<1>6. Range(t) = Range(s) \ {Head(s)}
  <2>1. Range(t) \subseteq Range(s) \ {Head(s)}
    BY <1>1, <1>2, <1>3, <1>4
  <2>2. ASSUME NEW j \in 1 .. Len(s), s[j] # Head(s) PROVE s[j] \in Range(t)
    <3>1. j - 1 \in 1 .. Len(t) /\ t[j - 1] = s[(j - 1) + 1] /\ (j - 1) + 1 = j
      BY <1>1, <1>4, <2>2
    <3> QED
      BY <1>2, <3>1
  <2> QED
    BY <1>2, <2>1, <2>2, Zenon
<1>7. Head(s) \in Range(s)
  BY <1>1, <1>2, <1>4
<1>8. IsInjective(t)
  BY <1>2, <1>5 DEF IsInjective
<1> QED
  BY <1>1, <1>6, <1>7, <1>8 DEF t

-----------------------------------------------------------------------------
(* A slice without duplicates                                               *)

\* Add appends a writer that is not there.
LEMMA AppendOne ==
    ASSUME NEW s \in Slice, NEW w \in Writer, Uniq(s), w \notin Held(s)
    PROVE  LET t == Appended(s, w) IN t \in Slice /\ Uniq(t) /\ Held(t) = Held(s) \cup {w}
<1> DEFINE t == Appended(s, w)
           A == Array(s)
           B == Array(t)
           n == s.len
<1>1. t \in Slice
  BY AppendHolds
<1>2. n \in Nat /\ A \in Seq(Nil) /\ n <= Len(A) /\ Len(A) \in Nat /\ s.arrays \in Seq(Seq(Nil)) /\ Len(s.arrays) > 0 /\ Len(s.arrays) \in Nat
  BY DEF Slice, Array
<1>3. t.len = n + 1 /\ (\A j \in 1 .. n : B[j] = A[j]) /\ B[n + 1] = w
  <2> DEFINE cap == Len(A)
             grown == [j \in 1 .. (IF cap = 0 THEN 1 ELSE 2 * cap) |->
                    IF j <= cap THEN A[j] ELSE IF j = cap + 1 THEN w ELSE NoWriter]
  <2>0. w \notin Range(Elements(s))
    BY HeldIsRange
  <2>1. CASE n < cap
    <3>1. t = [arrays |-> [s.arrays EXCEPT ![Len(s.arrays)][n + 1] = w], len |-> n + 1]
      BY <2>0, <2>1 DEF Appended
    <3>2. t.arrays = [s.arrays EXCEPT ![Len(s.arrays)] = [A EXCEPT ![n + 1] = w]] /\ t.len = n + 1
      BY <3>1 DEF Array
    <3>3. Len(t.arrays) = Len(s.arrays) /\ t.arrays[Len(s.arrays)] = [A EXCEPT ![n + 1] = w]
      BY <1>2, <3>2
    <3>4. B = [A EXCEPT ![n + 1] = w]
      BY <3>3 DEF Array
    <3> HIDE DEF t, A, B
    <3> QED
      BY <1>2, <2>1, <3>2, <3>4
  <2>2. CASE ~(n < cap)
    <3>0. n = cap
      BY <1>2, <2>2
    <3>1. t = [arrays |-> Append(s.arrays, grown), len |-> n + 1]
      BY <2>0, <2>2 DEF Appended
    <3>2. t.arrays = Append(s.arrays, grown) /\ t.len = n + 1
      BY <3>1
    <3>3. B = grown
      BY <1>2, <3>2 DEF Array
    <3> HIDE DEF t, A, B
    <3> QED
      BY <1>2, <3>0, <3>2, <3>3
  <2> QED
    BY <2>1, <2>2
<1>4. Held(s) = {A[j] : j \in 1 .. n} /\ Held(t) = {B[j] : j \in 1 .. n + 1}
  BY <1>3 DEF Held, Array
<1>5. (\A j \in 1 .. n + 1 : j \in 1 .. n \/ j = n + 1) /\ 1 .. n \subseteq 1 .. n + 1 /\ n + 1 \in 1 .. n + 1
  BY <1>2
<1>6. \A a, b \in 1 .. n : A[a] = A[b] => a = b
  BY DEF Uniq
<1>7. \A j \in 1 .. n : A[j] # w
  BY <1>4
<1> HIDE DEF t, A, B, n
<1>8. \A a, b \in 1 .. n + 1 : B[a] = B[b] => a = b
  BY <1>3, <1>5, <1>6, <1>7
<1>9. Held(t) = Held(s) \cup {w}
  <2>1. Held(t) \subseteq Held(s) \cup {w}
    BY <1>3, <1>4, <1>5
  <2>2. Held(s) \cup {w} \subseteq Held(t)
    BY <1>3, <1>4, <1>5
  <2> QED
    BY <2>1, <2>2
<1>10. Uniq(t)
  BY <1>3, <1>8 DEF Uniq, B
<1> QED
  BY <1>1, <1>9, <1>10 DEF t

\* Remove moves the last writer to the place of the one that leaves.
LEMMA SwapOne ==
    ASSUME NEW s \in Slice, NEW w \in Writer, Uniq(s)
    PROVE  LET t == SwapDeleted(s, w) IN t \in Slice /\ Uniq(t) /\ Held(t) = Held(s) \ {w}
<1> DEFINE t == SwapDeleted(s, w)
           A == Array(s)
           B == Array(t)
           n == s.len
           i == CHOOSE j \in 1 .. n : A[j] = w
<1>1. t \in Slice
  BY SwapHolds
<1>2. n \in Nat /\ A \in Seq(Nil) /\ n <= Len(A) /\ Len(A) \in Nat /\ s.arrays \in Seq(Seq(Nil)) /\ Len(s.arrays) > 0 /\ Len(s.arrays) \in Nat
  BY DEF Slice, Array
<1>3. CASE w \notin Held(s)
  <2>1. t = s
    BY <1>3, HeldIsRange DEF SwapDeleted
  <2> QED
    BY <1>3, <2>1
<1>4. CASE w \in Held(s)
  <2>1. i \in 1 .. n /\ A[i] = w
    BY <1>4 DEF Held, Array
  <2>2. t = [arrays |-> [s.arrays EXCEPT ![Len(s.arrays)] = [A EXCEPT ![i] = A[n], ![n] = NoWriter]], len |-> n - 1]
    <3>1. w \in Range(Elements(s))
      BY <1>4, HeldIsRange
    <3>2. t = [arrays |-> [s.arrays EXCEPT ![Len(s.arrays)] = [@ EXCEPT ![i] = A[n], ![n] = NoWriter]], len |-> n - 1]
      BY <3>1, Zenon DEF SwapDeleted
    <3>3. s.arrays[Len(s.arrays)] = A
      BY DEF Array
    <3> HIDE DEF A, i, t, n
    <3> QED
      BY <3>2, <3>3
  <2> DEFINE C == [A EXCEPT ![i] = A[n], ![n] = NoWriter]
  <2>3. t.len = n - 1 /\ B = C
    <3>1. t.arrays = [s.arrays EXCEPT ![Len(s.arrays)] = C] /\ t.len = n - 1
      BY <2>2
    <3>2. Len(t.arrays) = Len(s.arrays) /\ t.arrays[Len(s.arrays)] = C
      BY <1>2, <3>1
    <3> QED
      BY <3>1, <3>2 DEF Array
  <2> HIDE DEF i
  <2>4. /\ \A j \in 1 .. n - 1 : j \in 1 .. n /\ j # n /\ C[j] = IF j = i THEN A[n] ELSE A[j]
        /\ \A j \in 1 .. n : j # n => j \in 1 .. n - 1
        /\ n \in 1 .. n
    BY <1>2, <2>1
  <2>5. Held(s) = {A[j] : j \in 1 .. n} /\ Held(t) = {C[j] : j \in 1 .. n - 1}
    BY <2>3 DEF Held, Array
  <2>6. \A a, b \in 1 .. n : A[a] = A[b] => a = b
    BY DEF Uniq
  <2> HIDE DEF t, A, B, C, n
  <2>7. \A a, b \in 1 .. n - 1 : C[a] = C[b] => a = b
    <3> SUFFICES ASSUME NEW a \in 1 .. n - 1, NEW b \in 1 .. n - 1, C[a] = C[b] PROVE a = b
      OBVIOUS
    <3>1. CASE a = i
      BY <2>4, <2>6, <3>1
    <3>2. CASE b = i
      BY <2>4, <2>6, <3>2
    <3>3. CASE a # i /\ b # i
      BY <2>4, <2>6, <3>3
    <3> QED
      BY <3>1, <3>2, <3>3
  <2>8. Held(t) = Held(s) \ {w}
    <3>1. ASSUME NEW j \in 1 .. n - 1 PROVE C[j] \in Held(s) /\ C[j] # w
      BY <2>1, <2>4, <2>5, <2>6
    <3>2. ASSUME NEW j \in 1 .. n, A[j] # w PROVE A[j] \in Held(t)
      <4>1. CASE j = n
        <5>1. i # n /\ i \in 1 .. n - 1
          BY <2>1, <2>4, <3>2, <4>1
        <5>2. C[i] = A[n]
          BY <2>4, <5>1
        <5> QED
          BY <2>5, <4>1, <5>1, <5>2
      <4>2. CASE j # n
        <5>1. j # i /\ j \in 1 .. n - 1
          BY <2>1, <2>4, <3>2, <4>2
        <5>2. C[j] = A[j]
          BY <2>4, <5>1
        <5> QED
          BY <2>5, <5>1, <5>2
      <4> QED
        BY <4>1, <4>2
    <3> QED
      BY <2>5, <3>1, <3>2
  <2>9. Uniq(t)
    BY <2>3, <2>7 DEF Uniq, B
  <2> QED
    BY <1>1, <2>8, <2>9 DEF t
<1> QED
  BY <1>3, <1>4

\* Elements of a slice, as the calls copy them.
LEMMA ElementsOf ==
    ASSUME NEW s \in Slice, Uniq(s)
    PROVE  /\ Elements(s) \in Seq(Writer) /\ IsInjective(Elements(s)) /\ Range(Elements(s)) = Held(s)
           /\ Held(s) \subseteq Writer
<1> DEFINE A == Array(s)
           e == Elements(s)
<1>1. s.len \in Nat /\ A \in Seq(Nil) /\ s.len <= Len(A) /\ \A j \in 1 .. s.len : A[j] \in Writer
  BY DEF Slice, Array
<1>2. e = [j \in 1 .. s.len |-> A[j]]
  <2>1. e = SubSeq(A, 1, s.len)
    BY DEF Elements
  <2> HIDE DEF A
  <2> QED
    BY <1>1, <2>1
<1> HIDE DEF e
<1>3. e \in Seq(Writer) /\ DOMAIN e = 1 .. s.len /\ \A j \in 1 .. s.len : e[j] = A[j]
  BY <1>1, <1>2
<1>4. IsInjective(e)
  BY <1>3 DEF IsInjective, Uniq
<1>5. Range(e) = Held(s)
  BY HeldIsRange DEF e
<1>6. Held(s) \subseteq Writer
  BY <1>1 DEF Held, Array
<1> QED
  BY <1>3, <1>4, <1>5, <1>6 DEF e

-----------------------------------------------------------------------------
(* Add and Remove                                                           *)

\* The registered writers are those that the slices hold.
LEMMA RegisteredHeld ==
    ASSUME slice \in [Shard -> Slice]
    PROVE  Registered = UNION {Held(slice[i]) : i \in Shard} /\ Registered \subseteq Writer
<1>1. Registered = UNION {Held(slice[i]) : i \in Shard}
  BY RegisteredIsHeld, Zenon DEF Registered
<1> QED
  BY <1>1, RegisteredAreWriters

\* The list that a writer is in is one of the lists.
LEMMA HomeIsShard == ASSUME NEW w \in Writer PROVE Home(w) \in Shard
  BY FanoutAssumption, ShardZero DEF Home

\* Add to the list of a writer keeps every list free of duplicates and of strangers.
LEMMA SlicesJoin ==
    ASSUME SlicesOK, kind' = kind, NEW w \in Writer, w \notin Registered,
           slice' = [slice EXCEPT ![Home(w)] = Appended(@, w)]
    PROVE  SlicesOK' /\ Registered' = Registered \cup {w}
<1> DEFINE h == Home(w)
           t == Appended(slice[h], w)
<1>1. h \in Shard
  BY HomeIsShard
<1>2. slice \in [Shard -> Slice] /\ slice[h] \in Slice /\ Uniq(slice[h]) /\ w \notin Held(slice[h])
  BY <1>1, RegisteredHeld DEF SlicesOK
<1>3. t \in Slice /\ Uniq(t) /\ Held(t) = Held(slice[h]) \cup {w}
  BY <1>2, AppendOne
<1>4. slice' = [slice EXCEPT ![h] = t]
  OBVIOUS
<1>5. \A v : Home(v)' = Home(v)
  BY DEF Home
<1>6. h = Home(w)
  OBVIOUS
<1> HIDE DEF h, t
<1>7. slice' \in [Shard -> Slice] /\ slice'[h] = t /\ \A i \in Shard : i # h => slice'[i] = slice[i]
  BY <1>1, <1>2, <1>3, <1>4
<1>8. SlicesOK'
  <2>1. ASSUME NEW i \in Shard PROVE Uniq(slice'[i]) /\ \A v \in Held(slice'[i]) : Home(v) = i
    <3>1. CASE i = h
      BY <1>1, <1>3, <1>6, <1>7, <3>1 DEF SlicesOK
    <3>2. CASE i # h
      BY <1>7, <3>2 DEF SlicesOK
    <3> QED
      BY <3>1, <3>2
  <2> QED
    BY <1>5, <1>7, <2>1, Zenon DEF SlicesOK, Uniq, Held, Array
<1>9. Registered' = UNION {Held(slice'[i]) : i \in Shard} /\ Registered = UNION {Held(slice[i]) : i \in Shard}
  BY <1>2, <1>7, RegisteredIsHeld, Zenon DEF Registered
<1>10. Registered' = Registered \cup {w}
  <2>1. \A i \in Shard : Held(slice'[i]) = Held(slice[i]) \cup (IF i = h THEN {w} ELSE {})
    BY <1>3, <1>7
  <2> QED
    BY <1>1, <1>9, <2>1
<1> QED
  BY <1>8, <1>10

\* So does Remove.
LEMMA SlicesLeave ==
    ASSUME SlicesOK, kind' = kind, NEW w \in Writer,
           slice' = [slice EXCEPT ![Home(w)] = SwapDeleted(@, w)]
    PROVE  SlicesOK' /\ Registered' = Registered \ {w}
<1> DEFINE h == Home(w)
           t == SwapDeleted(slice[h], w)
<1>1. h \in Shard
  BY HomeIsShard
<1>2. slice \in [Shard -> Slice] /\ slice[h] \in Slice /\ Uniq(slice[h])
  BY <1>1 DEF SlicesOK
<1>3. t \in Slice /\ Uniq(t) /\ Held(t) = Held(slice[h]) \ {w}
  BY <1>2, SwapOne
<1>4. slice' = [slice EXCEPT ![h] = t]
  OBVIOUS
<1>5. \A v : Home(v)' = Home(v)
  BY DEF Home
<1>6. \A i \in Shard : i # h => w \notin Held(slice[i])
  BY <1>1 DEF SlicesOK
<1> HIDE DEF h, t
<1>7. slice' \in [Shard -> Slice] /\ slice'[h] = t /\ \A i \in Shard : i # h => slice'[i] = slice[i]
  BY <1>1, <1>2, <1>3, <1>4, Zenon
<1>8. SlicesOK'
  <2>1. ASSUME NEW i \in Shard PROVE Uniq(slice'[i]) /\ \A v \in Held(slice'[i]) : Home(v) = i
    <3>1. CASE i = h
      BY <1>1, <1>3, <1>7, <3>1 DEF SlicesOK
    <3>2. CASE i # h
      BY <1>7, <3>2 DEF SlicesOK
    <3> QED
      BY <3>1, <3>2
  <2> QED
    BY <1>5, <1>7, <2>1, Zenon DEF SlicesOK, Uniq, Held, Array
<1>9. Registered' = UNION {Held(slice'[i]) : i \in Shard} /\ Registered = UNION {Held(slice[i]) : i \in Shard}
  BY <1>2, <1>7, RegisteredIsHeld, Zenon DEF Registered
<1>10. Registered' = Registered \ {w}
  <2>1. \A i \in Shard : Held(slice'[i]) = Held(slice[i]) \ {w}
    BY <1>3, <1>6, <1>7
  <2> QED
    BY <1>9, <2>1
<1> QED
  BY <1>8, <1>10

-----------------------------------------------------------------------------
(* The steps of the synchronous strategies                                  *)

\* The call whose record is c opens.
LEMMA CallOpens ==
    ASSUME call \in [Call -> CallRecord], NEW k \in Call,
           call' = [call EXCEPT ![k].pc = "open"]
    PROVE  /\ call' \in [Call -> CallRecord]
           /\ call'[k].pc = "open" /\ call'[k].at = call[k].at /\ call'[k].err = call[k].err
           /\ \A j \in Call : j # k => call'[j] = call[j]
<1>1. call[k] \in CallRecord /\ [call[k] EXCEPT !.pc = "open"] \in CallRecord
  BY DEF CallRecord
<1>2. call' = [call EXCEPT ![k] = [call[k] EXCEPT !.pc = "open"]]
  OBVIOUS
<1> QED
  BY <1>1, <1>2 DEF CallRecord

\* The record of a call that returns; the others stay.
LEMMA CallReturns ==
    ASSUME call \in [Call -> CallRecord], NEW k \in Call, NEW err \in BOOLEAN,
           call' = Returned(k, err)
    PROVE  /\ call' \in [Call -> CallRecord]
           /\ call'[k].pc = "returned" /\ call'[k].err = err
           /\ \A j \in Call : j # k => call'[j] = call[j]
<1>1. [NewCall EXCEPT !.pc = "returned", !.err = err] \in CallRecord
  BY Zenon DEF CallRecord, NewCall, Nil
<1>2. [NewCall EXCEPT !.pc = "returned", !.err = err].pc = "returned" /\ [NewCall EXCEPT !.pc = "returned", !.err = err].err = err
  BY DEF NewCall
<1>3. call' = [call EXCEPT ![k] = [NewCall EXCEPT !.pc = "returned", !.err = err]]
  BY DEF Returned
<1> QED
  BY <1>1, <1>2, <1>3

\* The strategies with one list have every registered writer in it.
LEMMA OneList ==
    ASSUME SlicesOK, kind \in {"naive", "epoll", "iouring"}
    PROVE  Registered = Held(slice[0])
<1>1. 0 \in Shard /\ \A w : Home(w) = 0
  BY ShardZero DEF Home
<1>2. Registered = UNION {Held(slice[i]) : i \in Shard}
  BY RegisteredHeld DEF SlicesOK
<1>3. \A i \in Shard : \A w \in Held(slice[i]) : i = 0
  BY <1>1 DEF SlicesOK
<1> QED
  BY <1>1, <1>2, <1>3

\* Call k serves the writers in W, of which those in E refuse the message.
Served(k, W, E) ==
    /\ call[k].pc = "open" /\ W \subseteq Writer /\ W \subseteq may[k] /\ \A w \in W : k \notin Range(got[w])
    /\ got' = [w \in Writer |-> IF w \in W \ E THEN Append(got[w], k) ELSE got[w]]
    /\ owes' = [owes EXCEPT ![k] = @ \ W]
    /\ UNCHANGED may /\ Registered' = Registered
    /\ \A j \in Call : call'[j].pc = call[j].pc

-----------------------------------------------------------------------------
(* The strategies, one by one                                               *)

NaiveNext ==
    \/ \E w \in Writer : NaiveAdd(w) \/ NaiveRemove(w)
    \/ \E k \in Call : NaiveBroadcast(k)

PoolNext ==
    \/ \E w \in Writer : PoolAdd(w) \/ PoolRemove(w)
    \/ \E k \in Call : PoolBroadcast(k)
    \/ PoolRelease

ShardedNext ==
    \/ \E w \in Writer : ShardedAdd(w) \/ ShardedRemove(w)
    \/ \E k \in Call : ShardedBroadcast(k)
    \/ ShardedStart
    \/ \E i \in Shard : runShard(i)
    \/ ShardedStop

EpollNext ==
    \/ \E w \in Writer : EpollAdd(w)
    \/ \E w \in Writer : EpollRemove(w)
    \/ \E k \in Call : EpollBroadcast(k)
    \/ \E x \in Worker : runWorker(x)
    \/ EpollClose

RingNext ==
    \/ \E w \in Writer : RingAdd(w) \/ RingRemove(w)
    \/ \E k \in Call : RingBroadcast(k)
    \/ Kernel

RegistryNext ==
    \/ \E w \in Writer : RegistryAdd(w) \/ RegistryRemove(w)
    \/ \E k \in Call : RegistrySnapshot(k)

\* A step is one of the strategy that the behaviour is of.
LEMMA StrategySteps ==
    ASSUME [FanoutNext]_fanout
    PROVE  /\ kind' = kind
           /\ \/ UNCHANGED fanout
              \/ kind = "naive" /\ NaiveNext
              \/ kind = "workerpool" /\ PoolNext
              \/ kind = "sharded" /\ ShardedNext
              \/ kind = "epoll" /\ EpollNext
              \/ kind = "iouring" /\ RingNext
              \/ kind = "registry" /\ RegistryNext
<1>1. UNCHANGED fanout \/ NaiveNext \/ PoolNext \/ ShardedNext \/ EpollNext \/ RingNext \/ RegistryNext
  BY Zenon DEF FanoutNext, AtRest, NaiveNext, PoolNext, ShardedNext, EpollNext, RingNext, RegistryNext
<1>2. UNCHANGED fanout => kind' = kind
  BY Zenon DEF fanout
<1>3. NaiveNext => kind = "naive" /\ kind' = kind
  BY Zenon DEF NaiveNext, NaiveAdd, NaiveRemove, NaiveBroadcast, Of
<1>4. PoolNext => kind = "workerpool" /\ kind' = kind
  BY Zenon DEF PoolNext, PoolAdd, PoolRemove, PoolBroadcast, PoolRelease, Of
<1>5. ShardedNext => kind = "sharded" /\ kind' = kind
  BY Zenon DEF ShardedNext, ShardedAdd, ShardedRemove, ShardedBroadcast, ShardedStart, runShard, ShardedStop, Of
<1>6. EpollNext => kind = "epoll" /\ kind' = kind
  BY Zenon DEF EpollNext, EpollAdd, EpollRemove, EpollBroadcast, runWorker, EpollClose, Of
<1>7. RingNext => kind = "iouring" /\ kind' = kind
  BY Zenon DEF RingNext, RingAdd, RingRemove, RingBroadcast, Kernel, Of
<1>8. RegistryNext => kind = "registry" /\ kind' = kind
  BY Zenon DEF RegistryNext, RegistryAdd, RegistryRemove, RegistrySnapshot, Of
<1> QED
  BY <1>1, <1>2, <1>3, <1>4, <1>5, <1>6, <1>7, <1>8, Zenon

SamePcs == \A j \in Call : call'[j].pc = call[j].pc

\* What the steps of a synchronous strategy do to the registered writers, to the
\* state of the calls, and to what they owe and have done.
Joined(w) ==
    /\ Registered' = Registered \cup {w}
    /\ may' = [k \in Call |-> IF call[k].pc = "open" THEN may[k] \cup {w} ELSE may[k]]
    /\ SamePcs /\ UNCHANGED <<owes, got>>

Left(w) ==
    /\ Registered' = Registered \ {w}
    /\ owes' = [k \in Call |-> owes[k] \ {w}]
    /\ SamePcs /\ UNCHANGED <<may, got>>

Began(k) ==
    /\ call[k].pc = "new" /\ call'[k].pc = "open" /\ \A j \in Call : j # k => call'[j].pc = call[j].pc
    /\ owes' = [owes EXCEPT ![k] = Registered] /\ may' = [may EXCEPT ![k] = Registered]
    /\ Registered' = Registered /\ UNCHANGED got

Finished(k) ==
    /\ call[k].pc = "open" /\ owes[k] = {}
    /\ call'[k].pc = "returned" /\ \A j \in Call : j # k => call'[j].pc = call[j].pc
    /\ Registered' = Registered /\ UNCHANGED <<owes, may, got>>

Effect ==
    \/ \E w \in Writer : Joined(w) \/ Left(w)
    \/ \E k \in Call : Began(k) \/ Finished(k)
    \/ \E k \in Call, W, E \in SUBSET Writer : Served(k, W, E)
    \/ Registered' = Registered /\ SamePcs /\ UNCHANGED <<owes, may, got>>

\* A new slice holds nobody.
LEMMA EmptySlice == NewSlice \in Slice /\ Uniq(NewSlice) /\ Held(NewSlice) = {}
<1>1. NewSlice.arrays \in Seq(Seq(Nil)) /\ Len(NewSlice.arrays) = 1 /\ NewSlice.len = 0
      /\ NewSlice.arrays[1] = <<>> /\ NewSlice \in [arrays : Seq(Seq(Nil)), len : Nat]
  BY DEF NewSlice
<1> QED
  BY <1>1 DEF Slice, Uniq, Held

\* At first nobody is registered.
LEMMA BaseInit == ASSUME FanoutInit PROVE BaseOK /\ Registered = {}
<1>1. SlicesOK
  BY EmptySlice DEF SlicesOK, FanoutInit
<1>2. Registered = {}
  BY <1>1, RegisteredHeld, EmptySlice DEF FanoutInit, SlicesOK
<1>3. call \in [Call -> CallRecord]
  BY Zenon DEF FanoutInit, CallRecord, NewCall, Nil
<1>4. owes \in [Call -> SUBSET Writer] /\ may \in [Call -> SUBSET Writer] /\ got \in [Writer -> Seq(Call)]
  <2>1. <<>> \in Seq(Call)
    OBVIOUS
  <2> QED
    BY <2>1, Zenon DEF FanoutInit
<1>5. past \in PastRecord
  BY Zenon DEF FanoutInit, PastRecord
<1> QED
  BY <1>1, <1>2, <1>3, <1>4, <1>5 DEF BaseOK

\* The invariant holds at first.
LEMMA SyncInit == ASSUME FanoutInit PROVE Syncs
<1>1. BaseOK
  BY BaseInit
<1>2. \A k \in Call, i \in Shard : job[k][i] = <<>>
  BY Zenon DEF FanoutInit
<1>3. TasksOK /\ \A k \in Call : Todo(k) = {}
  <2>1. job \in Tasked
    BY DEF FanoutInit, Tasked
  <2>2. \A k \in Call, i \in Shard : IsInjective(job[k][i]) /\ Range(job[k][i]) = {}
    BY <1>2, EmptyRange
  <2> QED
    BY <1>2, <2>1, <2>2, Zenon DEF TasksOK, Todo
<1>4. \A w \in Writer : got[w] = <<>> /\ Range(got[w]) = {} /\ IsInjective(got[w]) /\ DOMAIN got[w] = {}
  BY EmptyRange DEF FanoutInit
<1>5. \A k \in Call : call[k].pc = "new" /\ call[k].at = 0 /\ call[k].err = FALSE /\ owes[k] = {} /\ may[k] = {}
  BY DEF FanoutInit, NewCall
<1>6. NoAccident /\ past.failed = {}
  BY DEF FanoutInit, NoAccident
<1>7. \A k \in Call : SyncCall(k)
  BY <1>3, <1>4, <1>5, <1>6 DEF SyncCall, Fresh
<1>8. OneByOne
  <2>1. \A k \in Call : held # k
    BY FanoutAssumption DEF FanoutInit, Call
  <2> QED
    BY <1>4, <1>5, <2>1 DEF OneByOne
<1> QED
  BY <1>1, <1>3, <1>4, <1>6, <1>7, <1>8 DEF Syncs

\* What a call of the naive broadcaster, of the worker pool or of the registry has
\* still to do, and what it has done, is in its tasks, in the shards ahead of it and
\* in what the writers got, whatever joins and leaves meanwhile.
LEMMA SyncStep ==
    Syncs /\ kind \in Synchronous /\ [FanoutNext]_fanout => kind' = kind /\ Syncs' /\ Effect
\* What the invariant says, without the records.
<1>SyncFacts.
      ASSUME Syncs
      PROVE  /\ BaseOK /\ SlicesOK /\ slice \in [Shard -> Slice]
             /\ call \in [Call -> CallRecord]
             /\ owes \in [Call -> SUBSET Writer] /\ may \in [Call -> SUBSET Writer]
             /\ got \in [Writer -> Seq(Call)] /\ past \in PastRecord
             /\ TasksOK /\ job \in Tasked
             /\ \A k \in Call : SyncCall(k)
             /\ \A w \in Writer : IsInjective(got[w])
             /\ NoAccident
             /\ kind = "naive" => OneByOne
             /\ Registered \subseteq Writer
  <2> USE <1>SyncFacts
  <2>1. BaseOK /\ SlicesOK /\ slice \in [Shard -> Slice]
    BY DEF Syncs, BaseOK, SlicesOK
  <2>2. Registered \subseteq Writer
    BY <2>1, RegisteredHeld
  <2> QED
    BY <2>1, <2>2 DEF Syncs, BaseOK, TasksOK
\* What a call has to do is nothing exactly if all its tasks are empty.
<1>TodoAreWriters.
      ASSUME TasksOK, NEW k \in Call
      PROVE  /\ Todo(k) \subseteq Writer
             /\ \A i \in Shard : job[k][i] \in Seq(Writer) /\ Range(job[k][i]) \subseteq Todo(k)
             /\ Todo(k) = {} <=> \A i \in Shard : job[k][i] = <<>>
  <2> USE <1>TodoAreWriters
  <2>1. \A i \in Shard : job[k][i] \in Seq(Writer)
    BY DEF TasksOK, Tasked
  <2>2. \A i \in Shard : Range(job[k][i]) \subseteq Writer
    BY <2>1, RangeIs
  <2>3. ASSUME NEW i \in Shard PROVE Range(job[k][i]) = {} <=> job[k][i] = <<>>
    <3>1. Range(job[k][i]) = {job[k][i][j] : j \in 1 .. Len(job[k][i])} /\ Len(job[k][i]) \in Nat
      BY <2>1, RangeIs
    <3>2. Len(job[k][i]) = 0 <=> job[k][i] = <<>>
      BY <2>1
    <3>3. Len(job[k][i]) # 0 => 1 \in 1 .. Len(job[k][i])
      BY <3>1
    <3>4. Len(job[k][i]) = 0 => 1 .. Len(job[k][i]) = {}
      BY <3>1
    <3> QED
      BY <3>1, <3>2, <3>3, <3>4, Zenon
  <2> QED
    BY <2>1, <2>2, <2>3, Zenon DEF Todo
\* A call that a step does not touch, while others may be told of other writers.
<1>OtherCall.
      ASSUME NEW k \in Call, SyncCall(k), kind' = kind, call'[k] = call[k], job'[k] = job[k], owes'[k] = owes[k],
             may'[k] = may[k], Registered' = Registered, TasksOK,
             \A w \in Writer : k \in Range(got'[w]) <=> k \in Range(got[w]),
             k \in past'.failed <=> k \in past.failed
      PROVE  SyncCall(k)'
  <2> USE <1>OtherCall
  <2>1. Todo(k)' = Todo(k) /\ Ahead(k)' = Ahead(k) /\ \A w : Home(w)' = Home(w)
    BY Zenon DEF Todo, Ahead, Home
  <2>2. Fresh(k) => Fresh(k)'
    BY <2>1 DEF Fresh
  <2>3. Serving(k) => Serving(k)'
    <3>1. job'[k] = job[k]
      OBVIOUS
    <3>2. SUFFICES ASSUME Serving(k) PROVE Serving(k)'
      OBVIOUS
    <3>3. Registered' \subseteq may'[k] /\ owes'[k] \subseteq Registered'
      BY <3>2, Zenon DEF Serving
    <3>4. \A w \in owes'[k] : w \in Todo(k)' \/ (Home(w) \in Ahead(k))'
      BY <2>1, <3>2, Zenon DEF Serving
    <3>5. \A i \in Ahead(k)' : job'[k][i] = <<>>
      BY <2>1, <3>2, Zenon DEF Serving
    <3>6. \A w \in Writer : k \in Range(got'[w]) => (Home(w) \notin Ahead(k))'
      BY <2>1, <3>2, Zenon DEF Serving
    <3>7. \A w \in Todo(k)' : w \in may'[k] /\ k \notin Range(got'[w])
      <4>1. Todo(k)' = Todo(k) /\ Todo(k) \subseteq Writer
        BY <2>1, <1>TodoAreWriters, Zenon
      <4>2. \A w \in Todo(k) : w \in may[k] /\ k \notin Range(got[w])
        BY <3>2, Zenon DEF Serving
      <4> QED
        BY <4>1, <4>2, Zenon
    <3> QED
      BY <3>3, <3>4, <3>5, <3>6, <3>7, Zenon DEF Serving
  <2>4. Done(k) => Done(k)'
    BY <2>1 DEF Done
  <2> QED
    BY <2>2, <2>3, <2>4, Zenon DEF SyncCall
\* The tasks, when none is added.
<1>SameTasks.
      ASSUME TasksOK, kind' = kind, job' = job
      PROVE  TasksOK' /\ \A k \in Call : Todo(k)' = Todo(k)
  <2> USE <1>SameTasks
  <2>1. \A w : Home(w)' = Home(w)
    BY DEF Home
  <2>2. \A k \in Call : Todo(k)' = Todo(k)
    BY Zenon DEF Todo
  <2> QED
    BY <2>1, <2>2 DEF TasksOK
\* A writer that joins may get the messages of the calls under way, and is owed none.
<1>JoinSyncs.
      ASSUME Syncs, kind \in Synchronous, kind' = kind, NEW w \in Writer, Join(w, Home(w)),
             UNCHANGED <<call, job, held, got, past>>
      PROVE  /\ Syncs' /\ Registered' = Registered \cup {w}
             /\ may' = [k \in Call |-> IF call[k].pc = "open" THEN may[k] \cup {w} ELSE may[k]]
  <2> USE <1>JoinSyncs
  <2>1. /\ w \notin Registered /\ slice' = [slice EXCEPT ![Home(w)] = Appended(@, w)] /\ owes' = owes
        /\ may' = [k \in Call |-> IF k \in Open /\ kind \in Synchronous THEN may[k] \cup {w} ELSE may[k]]
    BY Zenon DEF Join
  <2>2. SlicesOK' /\ Registered' = Registered \cup {w}
    BY <2>1, <1>SyncFacts, SlicesJoin, Zenon
  <2>3. /\ may' = [k \in Call |-> IF call[k].pc = "open" THEN may[k] \cup {w} ELSE may[k]]
        /\ may' \in [Call -> SUBSET Writer]
        /\ \A k \in Call : may'[k] = IF call[k].pc = "open" THEN may[k] \cup {w} ELSE may[k]
    <3>1. \A k \in Call : k \in Open <=> call[k].pc = "open"
      BY DEF Open
    <3>2. may' = [k \in Call |-> IF call[k].pc = "open" THEN may[k] \cup {w} ELSE may[k]]
      BY <2>1, <3>1, Zenon
    <3> QED
      BY <3>2, <1>SyncFacts, Zenon
  <2>4. BaseOK'
    BY <2>1, <2>2, <2>3, <1>SyncFacts DEF BaseOK
  <2>5. TasksOK' /\ \A k \in Call : Todo(k)' = Todo(k)
    BY <1>SyncFacts, <1>SameTasks
  <2>6. \A k \in Call : Ahead(k)' = Ahead(k)
    BY DEF Ahead
  <2>7. \A v : Home(v)' = Home(v)
    BY Zenon DEF Home
  <2>8. ASSUME NEW k \in Call PROVE SyncCall(k)'
    <3>0. SyncCall(k)
      BY <1>SyncFacts
    <3>1. call[k].pc = "new" => Fresh(k)'
      BY <2>1, <2>3, <2>5, <3>0, Zenon DEF SyncCall, Fresh
    <3>2. call[k].pc = "open" => Serving(k)'
      <4> SUFFICES ASSUME call[k].pc = "open" PROVE Serving(k)'
        OBVIOUS
      <4>1. Serving(k)
        BY <3>0 DEF SyncCall
      <4>2. may'[k] = may[k] \cup {w}
        BY <2>3, Zenon
      <4>3. Registered' \subseteq may'[k] /\ owes'[k] \subseteq Registered'
        BY <2>1, <2>2, <4>1, <4>2 DEF Serving
      <4>4. \A v \in owes'[k] : v \in Todo(k)' \/ (Home(v) \in Ahead(k))'
        BY <2>1, <2>5, <2>6, <2>7, <4>1, Zenon DEF Serving
      <4>5. \A v \in Todo(k)' : v \in may'[k] /\ k \notin Range(got'[v])
        BY <2>5, <4>1, <4>2, Zenon DEF Serving
      <4>6. \A i \in Ahead(k)' : job'[k][i] = <<>>
        BY <2>6, <4>1 DEF Serving
      <4>7. \A v \in Writer : k \in Range(got'[v]) => (Home(v) \notin Ahead(k))'
        BY <2>6, <2>7, <4>1, Zenon DEF Serving
      <4> QED
        BY <4>3, <4>4, <4>5, <4>6, <4>7, Zenon DEF Serving
    <3>3. call[k].pc = "returned" => Done(k)'
      BY <2>1, <2>5, <3>0, Zenon DEF SyncCall, Done
    <3> QED
      BY <3>0, <3>1, <3>2, <3>3 DEF SyncCall
  <2>9. NoAccident' /\ (\A v \in Writer : IsInjective(got'[v])) /\ (kind = "naive" => OneByOne')
    BY <1>SyncFacts, Zenon DEF NoAccident, OneByOne
  <2> QED
    BY <2>2, <2>3, <2>4, <2>5, <2>8, <2>9 DEF Syncs
\* A writer that leaves is owed nothing.
<1>LeaveSyncs.
      ASSUME Syncs, kind \in Synchronous, kind' = kind, NEW w \in Writer, Leave(w, Home(w)),
             UNCHANGED <<call, job, held, got>>, past' = [past EXCEPT !.removes = @ + 1]
      PROVE  Syncs' /\ Registered' = Registered \ {w}
  <2> USE <1>LeaveSyncs
  <2>1. /\ slice' = [slice EXCEPT ![Home(w)] = SwapDeleted(@, w)] /\ may' = may
        /\ owes' = [k \in Call |-> owes[k] \ {w}]
    BY DEF Leave
  <2>2. SlicesOK' /\ Registered' = Registered \ {w}
    BY <2>1, <1>SyncFacts, SlicesLeave, Zenon
  <2>3. owes' \in [Call -> SUBSET Writer] /\ \A k \in Call : owes'[k] = owes[k] \ {w}
    BY <2>1, <1>SyncFacts
  <2>4. past' \in PastRecord /\ past'.failed = past.failed /\ past'.lapse = past.lapse
        /\ past'.panicked = past.panicked /\ past'.torn = past.torn
    <3>1. past \in PastRecord /\ past.removes + 1 \in Nat
      BY <1>SyncFacts DEF PastRecord
    <3>2. past' = [past EXCEPT !.removes = past.removes + 1]
      OBVIOUS
    <3> QED
      BY <3>1, <3>2 DEF PastRecord
  <2>5. BaseOK'
    BY <2>1, <2>2, <2>3, <2>4, <1>SyncFacts DEF BaseOK
  <2>6. TasksOK' /\ \A k \in Call : Todo(k)' = Todo(k)
    BY <1>SyncFacts, <1>SameTasks
  <2>7. (\A k \in Call : Ahead(k)' = Ahead(k)) /\ \A v : Home(v)' = Home(v)
    BY DEF Ahead, Home
  <2>8. ASSUME NEW k \in Call PROVE SyncCall(k)'
    <3>0. SyncCall(k)
      BY <1>SyncFacts
    <3>1. call[k].pc = "new" => Fresh(k)'
      BY <2>1, <2>3, <2>6, <3>0 DEF SyncCall, Fresh
    <3>2. call[k].pc = "open" => Serving(k)'
      <4> SUFFICES ASSUME call[k].pc = "open" PROVE Serving(k)'
        OBVIOUS
      <4>1. Serving(k)
        BY <3>0 DEF SyncCall
      <4>3. Registered' \subseteq may'[k] /\ owes'[k] \subseteq Registered'
        BY <2>1, <2>2, <2>3, <4>1 DEF Serving
      <4>4. \A v \in owes'[k] : v \in Todo(k)' \/ (Home(v) \in Ahead(k))'
        BY <2>3, <2>6, <2>7, <4>1 DEF Serving
      <4>5. \A v \in Todo(k)' : v \in may'[k] /\ k \notin Range(got'[v])
        BY <2>1, <2>6, <4>1 DEF Serving
      <4>6. \A i \in Ahead(k)' : job'[k][i] = <<>>
        BY <2>7, <4>1 DEF Serving
      <4>7. \A v \in Writer : k \in Range(got'[v]) => (Home(v) \notin Ahead(k))'
        BY <2>7, <4>1 DEF Serving
      <4> QED
        BY <4>3, <4>4, <4>5, <4>6, <4>7, Zenon DEF Serving
    <3>3. call[k].pc = "returned" => Done(k)'
      BY <2>3, <2>6, <3>0 DEF SyncCall, Done
    <3> QED
      BY <2>4, <3>0, <3>1, <3>2, <3>3 DEF SyncCall
  <2>9. NoAccident' /\ (\A v \in Writer : IsInjective(got'[v])) /\ (kind = "naive" => OneByOne')
    BY <2>4, <1>SyncFacts DEF NoAccident, OneByOne
  <2> QED
    BY <2>2, <2>5, <2>6, <2>8, <2>9 DEF Syncs
\* A call begins, and has yet to copy the shards.
<1>BeginSyncs.
      ASSUME Syncs, kind \in Synchronous, kind # "naive", kind' = kind, NEW k \in Call, Begin(k),
             call' = [call EXCEPT ![k].pc = "open"], UNCHANGED <<slice, job, got, past>>
      PROVE  /\ Syncs' /\ Registered' = Registered /\ call[k].pc = "new"
             /\ owes' = [owes EXCEPT ![k] = Registered] /\ may' = [may EXCEPT ![k] = Registered]
  <2> USE <1>BeginSyncs
  <2>1. /\ call[k].pc = "new"
        /\ owes' = [owes EXCEPT ![k] = Registered] /\ may' = [may EXCEPT ![k] = Registered]
    BY DEF Begin
  <2>2. Registered' = Registered /\ SlicesOK'
    <3>1. SlicesOK
      BY <1>SyncFacts
    <3> QED
      BY <3>1, SameRegistered DEF SlicesOK, Home, Uniq, Held, Array
  <2>3. /\ call' \in [Call -> CallRecord]
        /\ call'[k].pc = "open" /\ call'[k].at = call[k].at /\ call'[k].err = call[k].err
        /\ \A j \in Call : j # k => call'[j] = call[j]
    BY <1>SyncFacts, CallOpens, Zenon
  <2>4. /\ owes' \in [Call -> SUBSET Writer] /\ may' \in [Call -> SUBSET Writer]
        /\ owes'[k] = Registered /\ may'[k] = Registered
        /\ \A j \in Call : j # k => owes'[j] = owes[j] /\ may'[j] = may[j]
    BY <2>1, <1>SyncFacts
  <2>5. BaseOK'
    BY <2>2, <2>3, <2>4, <1>SyncFacts DEF BaseOK
  <2>6. TasksOK' /\ \A j \in Call : Todo(j)' = Todo(j)
    BY <1>SyncFacts, <1>SameTasks
  <2>7. ASSUME NEW j \in Call, j # k PROVE SyncCall(j)'
    BY <2>2, <2>3, <2>4, <2>7, <1>SyncFacts, <1>OtherCall
  <2>8. SyncCall(k)'
    <3>0. SyncCall(k) /\ Fresh(k)
      BY <2>1, <1>SyncFacts DEF SyncCall
    <3>1. Todo(k)' = {} /\ Todo(k) = {} /\ call'[k].at = 0 /\ \A w \in Writer : k \notin Range(got'[w])
      BY <2>3, <2>6, <3>0 DEF Fresh
    <3>2. \A i \in Shard : job'[k][i] = <<>>
      BY <3>1, <1>SyncFacts, <1>TodoAreWriters, Zenon
    <3>3. Ahead(k)' = Shard
      BY <2>3, <3>1, FanoutAssumption DEF Ahead, Shard
    <3>4. \A w \in Writer : Home(w)' \in Shard
      BY HomeIsShard DEF Home
    <3>5. Serving(k)'
      BY <2>2, <2>4, <3>1, <3>2, <3>3, <3>4, <1>SyncFacts DEF Serving
    <3> QED
      BY <2>3, <3>0, <3>5 DEF SyncCall
  <2>9. NoAccident' /\ (\A v \in Writer : IsInjective(got'[v]))
    BY <1>SyncFacts DEF NoAccident
  <2> QED
    BY <2>1, <2>2, <2>5, <2>6, <2>7, <2>8, <2>9 DEF Syncs
\* One task of a call changes.
<1>TaskChanges.
      ASSUME TasksOK, kind # "registry", kind' = kind, NEW k \in Call, NEW i \in Shard, NEW s \in Seq(Writer), IsInjective(s),
             \A w \in Range(s) : Home(w) = i, job' = [job EXCEPT ![k][i] = s]
      PROVE  /\ TasksOK' /\ job'[k][i] = s
             /\ \A m \in Shard : m # i => job'[k][m] = job[k][m]
             /\ \A j \in Call : j # k => job'[j] = job[j]
  <2> USE <1>TaskChanges
  <2>1. job \in Tasked /\ job[k] \in [Shard -> Seq(Writer)]
    BY DEF TasksOK, Tasked
  <2>2. job' = [job EXCEPT ![k] = [job[k] EXCEPT ![i] = s]]
    OBVIOUS
  <2>3. [job[k] EXCEPT ![i] = s] \in [Shard -> Seq(Writer)]
    BY <2>1
  <2>4. /\ job'[k] = [job[k] EXCEPT ![i] = s]
        /\ job' \in Tasked /\ \A j \in Call : j # k => job'[j] = job[j]
    BY <2>1, <2>2, <2>3 DEF Tasked
  <2>5. job'[k][i] = s /\ \A m \in Shard : m # i => job'[k][m] = job[k][m]
    BY <2>1, <2>4
  <2>6. \A w : Home(w)' = Home(w)
    BY DEF Home
  <2>7. ASSUME NEW j \in Call, NEW m \in Shard
        PROVE  IsInjective(job'[j][m]) /\ \A w \in Range(job'[j][m]) : Home(w) = m
    <3>1. CASE j = k /\ m = i
      BY <2>5, <3>1
    <3>2. CASE ~(j = k /\ m = i)
      <4>1. job'[j][m] = job[j][m]
        BY <2>4, <2>5, <3>2
      <4> QED
        BY <4>1 DEF TasksOK
    <3> QED
      BY <3>1, <3>2
  <2> QED
    BY <2>4, <2>5, <2>6, <2>7 DEF TasksOK
\* A call of the naive broadcaster takes the mutex and the list.
<1>NaiveBeginSyncs.
      ASSUME Syncs, kind = "naive", kind' = kind, NEW k \in Call, Begin(k), held = 0, held' = k,
             call' = [call EXCEPT ![k].pc = "open"],
             job' = [job EXCEPT ![k][0] = Elements(slice[0])], UNCHANGED <<slice, got, past>>
      PROVE  /\ Syncs' /\ Registered' = Registered /\ call[k].pc = "new"
             /\ owes' = [owes EXCEPT ![k] = Registered] /\ may' = [may EXCEPT ![k] = Registered]
  <2> USE <1>NaiveBeginSyncs
  <2>0. kind \in Synchronous
    BY DEF Synchronous
  <2>1. /\ call[k].pc = "new" /\ \A j \in Call : j < k => call[j].pc # "new"
        /\ owes' = [owes EXCEPT ![k] = Registered] /\ may' = [may EXCEPT ![k] = Registered]
    BY <2>0 DEF Begin
  <2>2. Registered' = Registered /\ SlicesOK'
    <3>1. SlicesOK
      BY <1>SyncFacts
    <3> QED
      BY <3>1, SameRegistered DEF SlicesOK, Home, Uniq, Held, Array
  <2>3. /\ call' \in [Call -> CallRecord]
        /\ call'[k].pc = "open" /\ call'[k].at = call[k].at /\ call'[k].err = call[k].err
        /\ \A j \in Call : j # k => call'[j] = call[j]
    BY <1>SyncFacts, CallOpens, Zenon
  <2>4. /\ owes' \in [Call -> SUBSET Writer] /\ may' \in [Call -> SUBSET Writer]
        /\ owes'[k] = Registered /\ may'[k] = Registered
        /\ \A j \in Call : j # k => owes'[j] = owes[j] /\ may'[j] = may[j]
    BY <2>1, <1>SyncFacts
  <2>5. BaseOK'
    BY <2>2, <2>3, <2>4, <1>SyncFacts DEF BaseOK
  <2> DEFINE s == Elements(slice[0])
  <2>6. /\ s \in Seq(Writer) /\ IsInjective(s) /\ Range(s) = Registered /\ 0 \in Shard
        /\ \A w \in Range(s) : Home(w) = 0
    <3>1. 0 \in Shard /\ slice[0] \in Slice /\ Uniq(slice[0]) /\ Registered = Held(slice[0])
      BY ShardZero, <1>SyncFacts, OneList DEF SlicesOK
    <3>2. s \in Seq(Writer) /\ IsInjective(s) /\ Range(s) = Held(slice[0])
      BY <3>1, ElementsOf
    <3> QED
      BY <3>1, <3>2 DEF Home
  <2>7. job' = [job EXCEPT ![k][0] = s] /\ TasksOK
    BY <1>SyncFacts
  <2> HIDE DEF s
  <2>8. /\ TasksOK' /\ job'[k][0] = s
        /\ \A m \in Shard : m # 0 => job'[k][m] = job[k][m]
        /\ \A j \in Call : j # k => job'[j] = job[j]
    BY <2>6, <2>7, <1>TaskChanges, Zenon
  <2>9. ASSUME NEW j \in Call, j # k PROVE SyncCall(j)'
    BY <2>2, <2>3, <2>4, <2>8, <2>9, <1>SyncFacts, <1>OtherCall
  <2>10. SyncCall(k)'
    <3>0. SyncCall(k) /\ Fresh(k)
      BY <2>1, <1>SyncFacts DEF SyncCall
    <3>1. Todo(k)' = Registered
      <4>1. Range(job'[k][0]) = Registered /\ \A m \in Shard : m # 0 => Range(job'[k][m]) = {}
        BY <2>6, <2>8, <3>0, Zenon DEF Fresh, Todo
      <4> QED
        BY <2>6, <4>1, Zenon DEF Todo
    <3>2. Ahead(k)' = {}
      BY DEF Ahead
    <3>3. \A w \in Registered : w \in may'[k] /\ k \notin Range(got'[w])
      BY <2>4, <3>0, <1>SyncFacts DEF Fresh
    <3>4. Serving(k)'
      BY <2>2, <2>4, <3>1, <3>2, <3>3 DEF Serving
    <3> QED
      BY <2>3, <3>0, <3>4 DEF SyncCall
  <2>11. NoAccident' /\ (\A v \in Writer : IsInjective(got'[v]))
    BY <1>SyncFacts DEF NoAccident
  <2>12. OneByOne'
    <3>1. OneByOne
      BY <1>SyncFacts
    <3>2. \A j \in Call : j \in Nat /\ j # 0
      BY FanoutAssumption DEF Call
    <3>3. \A j \in Call : call[j].pc # "open"
      BY <3>1, <3>2 DEF OneByOne
    <3>4. \A j \in Call : call'[j].pc = "open" <=> held' = j
      BY <2>3, <3>3
    <3>5. ASSUME NEW j \in Call, NEW m \in Call, call'[j].pc \in {"new", "open"}, j < m PROVE call'[m].pc = "new"
      <4>1. CASE j = k
        BY <2>1, <2>3, <3>1, <3>2, <3>5, <4>1 DEF OneByOne
      <4>2. CASE j # k
        <5>1. call[j].pc = "new"
          BY <2>3, <3>3, <3>5, <4>2
        <5>2. m # k
          BY <2>1, <3>5, <5>1
        <5> QED
          BY <2>3, <3>1, <3>5, <5>1, <5>2 DEF OneByOne
      <4> QED
        BY <4>1, <4>2
    <3> QED
      BY <3>1, <3>4, <3>5 DEF OneByOne
  <2> QED
    BY <2>1, <2>2, <2>5, <2>8, <2>9, <2>10, <2>11, <2>12 DEF Syncs
\* A call of the worker pool copies the writers of its next shard, and hands them
\* to a goroutine.
<1>SubmitSyncs.
      ASSUME Syncs, kind = "workerpool", kind' = kind, NEW k \in Call, Submit(k)
      PROVE  Syncs' /\ Registered' = Registered /\ UNCHANGED <<owes, may, got>> /\ \A j \in Call : call'[j].pc = call[j].pc
  <2> USE <1>SubmitSyncs
  <2> DEFINE i == call[k].at
             s == Elements(slice[i])
             o == s # <<>> /\ down = "done"
             c == [call[k] EXCEPT !.at = call[k].at + 1, !.own = o]
  <2>1. /\ call[k].pc = "open" /\ i < numShards /\ job' = [job EXCEPT ![k][i] = s]
        /\ call' = [call EXCEPT ![k] = c]
        /\ UNCHANGED <<slice, got, owes, may, past>>
    BY Zenon DEF Submit, log
  <2>2. call[k] \in CallRecord /\ i \in Nat /\ i \in Shard
    BY <2>1, <1>SyncFacts, FanoutAssumption DEF CallRecord, Shard
  <2>3. c \in CallRecord /\ c.at = i + 1 /\ c.pc = call[k].pc /\ c.err = call[k].err
    <3>1. o \in BOOLEAN /\ call[k].at + 1 \in Nat
      BY <2>2
    <3> HIDE DEF o
    <3> QED
      BY <2>2, <3>1, Zenon DEF CallRecord
  <2>4. /\ s \in Seq(Writer) /\ IsInjective(s) /\ Range(s) = Held(slice[i])
        /\ \A w \in Range(s) : Home(w) = i
    <3>1. slice[i] \in Slice /\ Uniq(slice[i]) /\ \A w \in Held(slice[i]) : Home(w) = i
      BY <2>2, <1>SyncFacts DEF SlicesOK
    <3>2. s \in Seq(Writer) /\ IsInjective(s) /\ Range(s) = Held(slice[i])
      BY <3>1, ElementsOf, Zenon
    <3> QED
      BY <3>1, <3>2, Zenon
  <2>5. i = call[k].at
    OBVIOUS
  <2> HIDE DEF i, s, c
  <2>6. /\ call' \in [Call -> CallRecord] /\ call'[k] = c
        /\ \A j \in Call : j # k => call'[j] = call[j]
    BY <2>1, <2>3, <1>SyncFacts
  <2>7. Registered' = Registered /\ SlicesOK'
    <3>1. SlicesOK
      BY <1>SyncFacts
    <3> QED
      BY <2>1, <3>1, SameRegistered DEF SlicesOK, Home, Uniq, Held, Array
  <2>8. BaseOK'
    BY <2>1, <2>6, <2>7, <1>SyncFacts DEF BaseOK
  <2>9. /\ TasksOK' /\ job'[k][i] = s
        /\ \A m \in Shard : m # i => job'[k][m] = job[k][m]
        /\ \A j \in Call : j # k => job'[j] = job[j]
    BY <2>1, <2>2, <2>4, <1>SyncFacts, <1>TaskChanges, Zenon
  <2>10. ASSUME NEW j \in Call, j # k PROVE SyncCall(j)'
    BY <2>1, <2>6, <2>7, <2>9, <2>10, <1>SyncFacts, <1>OtherCall
  <2>11. SyncCall(k)'
    <3>0. SyncCall(k) /\ Serving(k)
      BY <2>1, <1>SyncFacts DEF SyncCall
    <3>1. Ahead(k) = {m \in Shard : m >= i} /\ Ahead(k)' = {m \in Shard : m >= i + 1}
      BY <2>3, <2>5, <2>6 DEF Ahead
    <3>2. Ahead(k)' = Ahead(k) \ {i} /\ i \in Ahead(k)
      <4>1. Shard \subseteq Nat /\ i \in Shard
        BY <2>2, FanoutAssumption DEF Shard
      <4> QED
        <5>1. \A m \in Nat, n \in Nat : m >= n + 1 <=> m >= n /\ m # n
          BY ONLY TRUE
        <5>2. i >= i
          BY <4>1
        <5> QED
          BY <3>1, <4>1, <5>1, <5>2, Zenon
    <3>3. job[k][i] = <<>> /\ Range(job[k][i]) = {}
      BY <3>0, <3>2, EmptyRange DEF Serving
    <3>4. Todo(k)' = Todo(k) \cup Held(slice[i])
      <4>1. \A m \in Shard : Range(job'[k][m]) = Range(job[k][m]) \cup (IF m = i THEN Held(slice[i]) ELSE {})
        BY <2>4, <2>9, <3>3, Zenon
      <4> QED
        BY <2>2, <4>1 DEF Todo
    <3>5. Held(slice[i]) \subseteq Registered /\ Held(slice[i]) \subseteq Writer
          /\ \A w \in Held(slice[i]) : Home(w) = i
      BY <2>2, <2>4, <1>SyncFacts, RegisteredHeld
    <3>6. \A w : Home(w)' = Home(w)
      BY DEF Home
    <3>7. \A w \in owes'[k] : w \in Todo(k)' \/ (Home(w) \in Ahead(k))'
      <4> SUFFICES ASSUME NEW w \in owes[k] PROVE w \in Todo(k)' \/ Home(w) \in Ahead(k)'
        BY <2>1, <3>6, Zenon
      <4>1. CASE Home(w) # i
        BY <3>0, <3>2, <3>4, <4>1, Zenon DEF Serving
      <4>2. CASE Home(w) = i
        <5>1. w \in Registered
          BY <3>0, Zenon DEF Serving
        <5>2. PICK m \in Shard : w \in Held(slice[m])
          BY <5>1, RegisteredHeld, <1>SyncFacts
        <5>3. m = i
          BY <4>2, <5>2, <1>SyncFacts DEF SlicesOK
        <5> QED
          BY <3>4, <5>2, <5>3, Zenon
      <4> QED
        BY <4>1, <4>2
    <3>8. ASSUME NEW w \in Todo(k)' PROVE w \in may'[k] /\ k \notin Range(got'[w])
      <4>1. CASE w \in Todo(k)
        BY <2>1, <3>0, <4>1 DEF Serving
      <4>2. CASE w \in Held(slice[i])
        BY <2>1, <3>0, <3>2, <3>5, <4>2, Zenon DEF Serving
      <4> QED
        BY <3>4, <3>8, <4>1, <4>2
    <3>9. \A m \in Ahead(k)' : job'[k][m] = <<>>
      BY <2>9, <3>0, <3>1, <3>2 DEF Serving
    <3>10. \A w \in Writer : k \in Range(got'[w]) => (Home(w) \notin Ahead(k))'
      BY <2>1, <3>0, <3>2, <3>6 DEF Serving
    <3>11. Registered' \subseteq may'[k] /\ owes'[k] \subseteq Registered'
      BY <2>1, <2>7, <3>0 DEF Serving
    <3>12. Serving(k)'
      BY <3>7, <3>8, <3>9, <3>10, <3>11, Zenon DEF Serving
    <3> QED
      BY <2>1, <2>3, <2>6, <3>0, <3>12 DEF SyncCall
  <2>12. NoAccident' /\ (\A v \in Writer : IsInjective(got'[v]))
    BY <2>1, <1>SyncFacts DEF NoAccident
  <2>13. \A j \in Call : call'[j].pc = call[j].pc
    BY <2>3, <2>6
  <2> QED
    BY <2>1, <2>7, <2>8, <2>9, <2>10, <2>11, <2>12, <2>13 DEF Syncs
\* What a message does to the queues of those who get it.
<1>ServedGot.
      ASSUME got \in [Writer -> Seq(Call)], \A w \in Writer : IsInjective(got[w]),
             NEW k \in Call, NEW W, NEW E, Served(k, W, E)
      PROVE  /\ got' \in [Writer -> Seq(Call)]
             /\ \A w \in Writer : IsInjective(got'[w])
             /\ \A w \in Writer : Range(got'[w]) = Range(got[w]) \cup (IF w \in W \ E THEN {k} ELSE {})
  <2> USE <1>ServedGot
  <2>1. got' = [w \in Writer |-> IF w \in W \ E THEN Append(got[w], k) ELSE got[w]] /\ \A w \in W : k \notin Range(got[w])
    BY DEF Served
  <2>2. \A w \in Writer : got[w] \in Seq(Call)
    OBVIOUS
  <2>3. ASSUME NEW w \in Writer
        PROVE  /\ got'[w] \in Seq(Call) /\ IsInjective(got'[w])
               /\ Range(got'[w]) = Range(got[w]) \cup (IF w \in W \ E THEN {k} ELSE {})
    <3>1. CASE w \in W \ E
      <4>1. got'[w] = Append(got[w], k) /\ k \notin Range(got[w]) /\ got[w] \in Seq(Call) /\ IsInjective(got[w])
        BY <2>1, <2>2, <3>1
      <4>2. Append(got[w], k) \in Seq(Call) /\ Range(Append(got[w], k)) = Range(got[w]) \cup {k} /\ IsInjective(Append(got[w], k))
        BY <4>1, RangeAppend
      <4> QED
        BY <3>1, <4>1, <4>2, Zenon
    <3>2. CASE w \notin W \ E
      BY <2>1, <2>2, <3>2
    <3> QED
      BY <3>1, <3>2
  <2>4. got' \in [Writer -> Seq(Call)]
    BY <2>1, <2>3
  <2> QED
    BY <2>3, <2>4, Zenon
\* The indices and elements of a record of calls that grew by one.
<1>AppendedCall.
      ASSUME NEW g \in Seq(Call), NEW k \in Call, NEW h, h = Append(g, k)
      PROVE  /\ DOMAIN g = 1 .. Len(g) /\ Len(g) \in Nat /\ DOMAIN h = 1 .. Len(g) + 1
             /\ h[Len(g) + 1] = k /\ \A c \in 1 .. Len(g) : h[c] = g[c]
  BY <1>AppendedCall
\* A call serves writers: the other calls do not notice, and it owes them nothing
\* any more.
<1>ServeCalls.
      ASSUME Syncs, kind' = kind, NEW k \in Call, NEW W, NEW E, Served(k, W, E),
             Todo(k)' = Todo(k) \ W, Ahead(k)' \subseteq Ahead(k),
             \A w \in owes[k] \ W : w \in Todo(k) \/ Home(w) \in Ahead(k)',
             \A w \in W : Home(w) \notin Ahead(k)',
             \A i \in Ahead(k)' : job'[k][i] = <<>>,
             \A j \in Call : j # k => /\ call'[j] = call[j] /\ job'[j] = job[j]
                                      /\ j \in past'.failed <=> j \in past.failed,
             call'[k].err <=> k \in past'.failed
      PROVE  /\ \A j \in Call : SyncCall(j)'
             /\ owes' \in [Call -> SUBSET Writer] /\ got' \in [Writer -> Seq(Call)]
             /\ \A w \in Writer : IsInjective(got'[w])
  <2> USE <1>ServeCalls
  <2>1. /\ call[k].pc = "open" /\ W \subseteq Writer
        /\ owes' = [owes EXCEPT ![k] = owes[k] \ W] /\ may' = may /\ Registered' = Registered
        /\ \A j \in Call : call'[j].pc = call[j].pc
    BY Zenon DEF Served
  <2>2. /\ got' \in [Writer -> Seq(Call)] /\ \A w \in Writer : IsInjective(got'[w])
        /\ \A w \in Writer : Range(got'[w]) = Range(got[w]) \cup (IF w \in W \ E THEN {k} ELSE {})
    BY <1>SyncFacts, <1>ServedGot, Zenon
  <2>3. owes' \in [Call -> SUBSET Writer] /\ owes'[k] = owes[k] \ W /\ \A j \in Call : j # k => owes'[j] = owes[j]
    BY <2>1, <1>SyncFacts, Zenon
  <2>4. ASSUME NEW j \in Call, j # k PROVE SyncCall(j)'
    <3>1. \A w \in Writer : j \in Range(got'[w]) <=> j \in Range(got[w])
      BY <2>2, <2>4, Zenon
    <3>2. /\ SyncCall(j) /\ TasksOK /\ call'[j] = call[j] /\ job'[j] = job[j] /\ owes'[j] = owes[j] /\ may'[j] = may[j]
          /\ Registered' = Registered /\ (j \in past'.failed <=> j \in past.failed)
      BY <2>1, <2>3, <2>4, <1>SyncFacts, Zenon
    <3> QED
      BY <3>1, <3>2, <1>OtherCall, Zenon
  <2>5. SyncCall(k)'
    <3>0. Serving(k) /\ TasksOK
      BY <2>1, <1>SyncFacts, Zenon DEF SyncCall
    <3>1. \A w : Home(w)' = Home(w)
      BY Zenon DEF Home
    <3>2. Registered' \subseteq may'[k] /\ owes'[k] \subseteq Registered'
      BY <2>1, <2>3, <3>0, Zenon DEF Serving
    <3>3. \A w \in owes'[k] : w \in Todo(k)' \/ (Home(w) \in Ahead(k))'
      BY <2>3, <3>1
    <3>4. \A w \in Todo(k)' : w \in may'[k] /\ k \notin Range(got'[w])
      <4>1. Todo(k) \subseteq Writer
        BY <3>0, <1>TodoAreWriters, Zenon
      <4> QED
        BY <2>1, <2>2, <3>0, <4>1, Zenon DEF Serving
    <3>5. \A w \in Writer : k \in Range(got'[w]) => (Home(w) \notin Ahead(k))'
      BY <2>2, <3>0, <3>1, Zenon DEF Serving
    <3>6. Serving(k)'
      BY <3>2, <3>3, <3>4, <3>5, Zenon DEF Serving
    <3> QED
      BY <2>1, <3>6, Zenon DEF SyncCall
  <2> QED
    BY <2>2, <2>3, <2>4, <2>5, Zenon
\* The messages of the naive broadcaster ascend: those of calls to come are nowhere.
<1>AscendingGot.
      ASSUME Syncs, kind = "naive", NEW k \in Call, call[k].pc = "open", NEW w \in Writer,
             k \notin Range(got[w])
      PROVE  \A a \in DOMAIN got[w] : got[w][a] < k
  <2> USE <1>AscendingGot
  <2> SUFFICES ASSUME NEW a \in DOMAIN got[w] PROVE got[w][a] < k
    OBVIOUS
  <2> DEFINE m == got[w][a]
  <2>1. m \in Range(got[w])
    BY DEF Range
  <2>2. got[w] \in Seq(Call)
    BY <1>SyncFacts
  <2>3. m \in Call /\ m # k
    BY <2>1, <2>2, RangeIs
  <2>4. call[m].pc # "new"
    BY <2>1, <2>3, <1>SyncFacts, Zenon DEF SyncCall, Fresh
  <2>5. ~(k < m)
    BY <2>3, <2>4, <1>SyncFacts DEF OneByOne
  <2> HIDE DEF m
  <2>6. m \in Nat /\ k \in Nat
    BY <2>3, FanoutAssumption DEF Call
  <2> QED
    BY <2>3, <2>5, <2>6 DEF m
\* A call writes to the next writer of a task, or is refused by it.
<1>WriteSyncs.
      ASSUME Syncs, kind \in {"naive", "workerpool"}, kind' = kind, NEW k \in Call, NEW i \in Shard, WriteNext(k, i)
      PROVE  Syncs' /\ \E W, E \in SUBSET Writer : Served(k, W, E)
  <2> USE <1>WriteSyncs
  <2> DEFINE s == job[k][i]
             w == Head(s)
  <2>1. /\ s # <<>> /\ job' = [job EXCEPT ![k][i] = Tail(s)]
        /\ \/ Succeeds(k, w) /\ UNCHANGED call
           \/ Fails(k, w) /\ call' = [call EXCEPT ![k].err = TRUE]
        /\ UNCHANGED <<slice, held, may>>
    BY DEF WriteNext
  <2>2. TasksOK /\ s \in Seq(Writer) /\ IsInjective(s) /\ \A v \in Range(s) : Home(v) = i
    BY <1>SyncFacts, <1>TodoAreWriters, Zenon DEF TasksOK
  <2>3. /\ Tail(s) \in Seq(Writer) /\ IsInjective(Tail(s)) /\ w \in Range(s) /\ Range(Tail(s)) = Range(s) \ {w}
    BY <2>1, <2>2, RangeTail
  <2>4. w \in Todo(k) /\ w \in Writer /\ Home(w) = i
    BY <2>2, <2>3, <1>TodoAreWriters, Zenon
  <2>5. call[k] \in CallRecord /\ call[k].pc = "open"
    BY <2>4, <1>SyncFacts, Zenon DEF SyncCall, Fresh, Done, CallRecord
  <2>6. Serving(k)
    BY <2>5, <1>SyncFacts, Zenon DEF SyncCall
  <2>7. w \in may[k] /\ k \notin Range(got[w])
    BY <2>4, <2>6, Zenon DEF Serving
  <2> DEFINE t == Tail(s)
  <2>8. t \in Seq(Writer) /\ IsInjective(t) /\ (\A v \in Range(t) : Home(v) = i) /\ job' = [job EXCEPT ![k][i] = t]
        /\ Range(t) = Range(s) \ {w}
    BY <2>1, <2>2, <2>3
  <2> HIDE DEF t
  <2>9. /\ TasksOK' /\ job'[k][i] = t
        /\ \A m \in Shard : m # i => job'[k][m] = job[k][m]
        /\ \A j \in Call : j # k => job'[j] = job[j]
    BY <2>2, <2>8, <1>TaskChanges, Zenon
  <2>10. Todo(k)' = Todo(k) \ {w}
    <3>1. ASSUME NEW m \in Shard, m # i PROVE w \notin Range(job[k][m])
      BY <2>2, <2>4, <3>1, Zenon DEF TasksOK
    <3>2. \A m \in Shard : Range(job'[k][m]) = Range(job[k][m]) \ {w}
      BY <2>8, <2>9, <3>1
    <3> QED
      BY <3>2 DEF Todo
  <2>11. Registered' = Registered /\ SlicesOK'
    <3>1. SlicesOK
      BY <1>SyncFacts
    <3> QED
      BY <2>1, <3>1, SameRegistered DEF SlicesOK, Home, Uniq, Held, Array
  <2> HIDE DEF s, w
  <2>12. PICK E \in SUBSET Writer :
           /\ got' = [v \in Writer |-> IF v \in {w} \ E THEN Append(got[v], k) ELSE got[v]]
           /\ owes' = [owes EXCEPT ![k] = @ \ {w}]
           /\ call' \in [Call -> CallRecord] /\ past' \in PastRecord
           /\ \A j \in Call : call'[j].pc = call[j].pc /\ call'[j].at = call[j].at
           /\ \A j \in Call : j # k => call'[j] = call[j] /\ (j \in past'.failed <=> j \in past.failed)
           /\ call'[k].err <=> k \in past'.failed
           /\ past'.lapse = past.lapse /\ past'.panicked = past.panicked /\ past'.torn = past.torn
    <3>0. got \in [Writer -> Seq(Call)] /\ call \in [Call -> CallRecord] /\ past \in PastRecord
          /\ (call[k].err <=> k \in past.failed)
      BY <1>SyncFacts, Zenon DEF SyncCall
    <3>1. CASE Succeeds(k, w) /\ UNCHANGED call
      <4>1. /\ got' = [got EXCEPT ![w] = Append(got[w], k)] /\ past' = past
            /\ owes' = [owes EXCEPT ![k] = @ \ {w}] /\ call' = call
        BY <3>1 DEF Succeeds
      <4>2. got' = [v \in Writer |-> IF v \in {w} \ {} THEN Append(got[v], k) ELSE got[v]]
        BY <3>0, <4>1, Zenon
      <4>3. {} \in SUBSET Writer
        OBVIOUS
      <4> QED
        BY <3>0, <4>1, <4>2, <4>3, Zenon
    <3>2. CASE Fails(k, w) /\ call' = [call EXCEPT ![k].err = TRUE]
      <4>1. /\ got' = got /\ past' = [past EXCEPT !.fails = past.fails + 1, !.failed = past.failed \cup {k}]
            /\ owes' = [owes EXCEPT ![k] = @ \ {w}] /\ call' = [call EXCEPT ![k].err = TRUE]
        BY <3>2 DEF Fails
      <4>2. got' = [v \in Writer |-> IF v \in {w} \ {w} THEN Append(got[v], k) ELSE got[v]]
        BY <3>0, <4>1
      <4>3. {w} \in SUBSET Writer
        BY <2>4
      <4>4. past' \in PastRecord /\ past'.failed = past.failed \cup {k} /\ past'.lapse = past.lapse
            /\ past'.panicked = past.panicked /\ past'.torn = past.torn
        <5>1. past.fails + 1 \in Nat /\ past.failed \cup {k} \in SUBSET Call
          BY <3>0 DEF PastRecord
        <5> QED
          BY <3>0, <4>1, <5>1, Zenon DEF PastRecord
      <4>5. /\ call' \in [Call -> CallRecord] /\ call'[k].pc = call[k].pc /\ call'[k].at = call[k].at /\ call'[k].err = TRUE
            /\ \A j \in Call : j # k => call'[j] = call[j]
        <5>1. [call[k] EXCEPT !.err = TRUE] \in CallRecord
          BY <2>5, Zenon DEF CallRecord
        <5>2. call' = [call EXCEPT ![k] = [call[k] EXCEPT !.err = TRUE]]
          BY <4>1
        <5> QED
          BY <2>5, <3>0, <5>1, <5>2 DEF CallRecord
      <4>6. \A j \in Call : call'[j].pc = call[j].pc /\ call'[j].at = call[j].at
        BY <4>5
      <4> QED
        BY <4>1, <4>2, <4>3, <4>4, <4>5, <4>6, Zenon
    <3> QED
      BY <2>1, <3>1, <3>2, Zenon
  <2> DEFINE W == {w}
  <2>13. Served(k, W, E)
    BY <2>1, <2>4, <2>5, <2>7, <2>11, <2>12 DEF Served
  <2>14. Ahead(k)' = Ahead(k)
    BY <2>12, Zenon DEF Ahead
  <2>15. \A m \in Ahead(k) : m # i /\ m \in Shard /\ job'[k][m] = <<>>
    <3>1. \A m \in Ahead(k) : m \in Shard /\ job[k][m] = <<>>
      BY <2>6 DEF Ahead, Serving
    <3>2. i \notin Ahead(k)
      BY <2>1, <3>1 DEF s
    <3> QED
      BY <2>9, <3>1, <3>2, Zenon
  <2>16. W \in SUBSET Writer /\ (\A v \in W : Home(v) \notin Ahead(k)')
         /\ \A v \in owes[k] \ W : v \in Todo(k) \/ Home(v) \in Ahead(k)'
    BY <2>4, <2>6, <2>14, <2>15, Zenon DEF Serving
  <2>17. Todo(k)' = Todo(k) \ W
    BY <2>10
  <2> HIDE DEF W
  <2>18. /\ \A j \in Call : SyncCall(j)'
         /\ owes' \in [Call -> SUBSET Writer] /\ got' \in [Writer -> Seq(Call)]
         /\ \A v \in Writer : IsInjective(got'[v])
    <3>1. /\ Ahead(k)' \subseteq Ahead(k)
          /\ \A m \in Ahead(k)' : job'[k][m] = <<>>
      BY <2>14, <2>15, Zenon
    <3>2. \A j \in Call : j # k => /\ call'[j] = call[j] /\ job'[j] = job[j]
                                   /\ j \in past'.failed <=> j \in past.failed
      BY <2>9, <2>12, Zenon
    <3>3. call'[k].err <=> k \in past'.failed
      BY <2>9, <2>12, Zenon
    <3> QED
      BY <2>13, <2>16, <2>17, <3>1, <3>2, <3>3, <1>ServeCalls, Zenon
  <2>19. BaseOK'
    BY <2>1, <2>11, <2>12, <2>18, <1>SyncFacts DEF BaseOK
  <2>20. NoAccident'
    BY <2>12, <1>SyncFacts, Zenon DEF NoAccident
  <2>21. ASSUME kind = "naive" PROVE OneByOne'
    <3>1. OneByOne
      BY <2>21, <1>SyncFacts
    <3>2. ASSUME NEW v \in Writer, NEW a \in DOMAIN got'[v], NEW b \in DOMAIN got'[v], a < b
          PROVE  got'[v][a] < got'[v][b]
      <4>1. CASE got'[v] = got[v]
        BY <3>1, <3>2, <4>1 DEF OneByOne
      <4>2. CASE got'[v] # got[v]
        <5>1. v = w /\ got'[w] = Append(got[w], k) /\ got[w] \in Seq(Call)
          BY <2>12, <4>2, <1>SyncFacts, Zenon
        <5>2. \A c \in DOMAIN got[w] : got[w][c] < k
          BY <2>4, <2>5, <2>7, <2>21, <1>AscendingGot, Zenon
        <5> DEFINE g == got[w]
        <5>3. \A c, d \in DOMAIN g : c < d => g[c] < g[d]
          BY <2>4, <3>1, Zenon DEF OneByOne
        <5> HIDE DEF g
        <5>4. /\ DOMAIN g = 1 .. Len(g) /\ Len(g) \in Nat /\ DOMAIN got'[w] = 1 .. Len(g) + 1
              /\ got'[w][Len(g) + 1] = k /\ \A c \in 1 .. Len(g) : got'[w][c] = g[c]
          BY <2>4, <5>1, <1>AppendedCall DEF g
        <5>5. a \in 1 .. Len(g) /\ (b \in 1 .. Len(g) \/ b = Len(g) + 1)
          BY <3>2, <5>1, <5>4
        <5> QED
          BY <3>2, <5>1, <5>2, <5>3, <5>4, <5>5 DEF g
      <4> QED
        BY <4>1, <4>2, Zenon
    <3> QED
      BY <2>1, <2>12, <3>1, <3>2 DEF OneByOne
  <2> QED
    BY <2>9, <2>13, <2>16, <2>18, <2>19, <2>20, <2>21, Zenon DEF Syncs
\* A snapshot of the registry takes the connections of its next shard.
<1>SnapshotSyncs.
      ASSUME Syncs, kind = "registry", kind' = kind, NEW k \in Call,
             call[k].pc = "open", call[k].at < numShards,
             call' = [call EXCEPT ![k].at = @ + 1],
             got' = [w \in Writer |-> IF w \in Range(Elements(slice[call[k].at])) THEN Append(got[w], k) ELSE got[w]],
             owes' = [owes EXCEPT ![k] = @ \ Range(Elements(slice[call[k].at]))],
             UNCHANGED <<may, past, slice, job>>
      PROVE  Syncs' /\ \E W, E \in SUBSET Writer : Served(k, W, E)
  <2> USE <1>SnapshotSyncs
  <2> DEFINE i == call[k].at
             W == Range(Elements(slice[i]))
             c == [call[k] EXCEPT !.at = call[k].at + 1]
  <2>1. /\ call' = [call EXCEPT ![k] = c]
        /\ got' = [w \in Writer |-> IF w \in W \ {} THEN Append(got[w], k) ELSE got[w]]
        /\ owes' = [owes EXCEPT ![k] = @ \ W]
        /\ i < numShards
    OBVIOUS
  <2>2. call[k] \in CallRecord /\ i \in Nat /\ i \in Shard
    BY <1>SyncFacts, FanoutAssumption DEF CallRecord, Shard
  <2>3. c \in CallRecord /\ c.at = i + 1 /\ c.pc = call[k].pc /\ c.err = call[k].err
    BY <2>2 DEF CallRecord
  <2>4. W = Held(slice[i]) /\ W \subseteq Writer /\ W \subseteq Registered /\ \A w \in W : Home(w) = i
    <3>1. slice[i] \in Slice /\ Uniq(slice[i]) /\ \A w \in Held(slice[i]) : Home(w) = i
      BY <2>2, <1>SyncFacts DEF SlicesOK
    <3>2. W = Held(slice[i]) /\ Held(slice[i]) \subseteq Writer
      BY <3>1, ElementsOf
    <3>3. Held(slice[i]) \subseteq Registered
      BY <2>2, <1>SyncFacts, RegisteredHeld
    <3> QED
      BY <3>1, <3>2, <3>3
  <2>5. i = call[k].at
    OBVIOUS
  <2> HIDE DEF i, W, c
  <2>6. /\ call' \in [Call -> CallRecord] /\ call'[k] = c
        /\ \A j \in Call : j # k => call'[j] = call[j]
    BY <2>1, <2>3, <1>SyncFacts, ZenonT(30)
  <2>7. Registered' = Registered /\ SlicesOK'
    <3>1. SlicesOK
      BY <1>SyncFacts
    <3> QED
      BY <3>1, SameRegistered DEF SlicesOK, Home, Uniq, Held, Array
  <2>8. Serving(k) /\ SyncCall(k)
    BY <1>SyncFacts DEF SyncCall
  <2>9. Ahead(k)' = Ahead(k) \ {i} /\ i \in Ahead(k)
    <3>1. Ahead(k) = {m \in Shard : m >= i} /\ Ahead(k)' = {m \in Shard : m >= i + 1}
      BY <2>3, <2>5, <2>6 DEF Ahead
    <3> QED
      BY <2>2, <3>1, FanoutAssumption DEF Shard
  <2>10. Served(k, W, {})
    <3>1. W \subseteq may[k] /\ \A w \in W : k \notin Range(got[w])
      BY <2>4, <2>8, <2>9 DEF Serving
    <3>2. \A j \in Call : call'[j].pc = call[j].pc
      BY <2>3, <2>6
    <3> QED
      BY <2>1, <2>4, <2>7, <3>1, <3>2, Zenon DEF Served
  <2>11. TasksOK' /\ Todo(k)' = Todo(k)
    BY <1>SyncFacts, <1>SameTasks
  <2>12. ASSUME NEW w \in owes[k] \ W PROVE w \in Todo(k) \/ Home(w) \in Ahead(k)'
    <3>1. Home(w) = i => w \in W
      <4>1. w \in Registered
        BY <2>8, <2>12 DEF Serving
      <4>2. PICK m \in Shard : w \in Held(slice[m])
        BY <4>1, RegisteredHeld, <1>SyncFacts
      <4>3. m = Home(w)
        BY <4>2, <1>SyncFacts DEF SlicesOK
      <4> QED
        BY <2>4, <4>2, <4>3
    <3> QED
      BY <2>8, <2>9, <2>12, <3>1 DEF Serving
  <2>13. Todo(k)' = Todo(k) \ W
    <3>1. \A m \in Shard : \A w \in Range(job[k][m]) : Home(w) = m
      BY <1>SyncFacts DEF TasksOK
    <3>2. Range(job[k][i]) = {}
      BY <2>8, <2>9, EmptyRange DEF Serving
    <3>3. \A w \in Todo(k) : w \notin W
      BY <2>4, <3>1, <3>2 DEF Todo
    <3> QED
      BY <2>11, <3>3
  <2>14. (\A w \in W : Home(w) \notin Ahead(k)') /\ \A m \in Ahead(k)' : job'[k][m] = <<>>
    BY <2>4, <2>8, <2>9 DEF Serving
  <2>15. /\ \A j \in Call : SyncCall(j)'
         /\ owes' \in [Call -> SUBSET Writer] /\ got' \in [Writer -> Seq(Call)]
         /\ \A v \in Writer : IsInjective(got'[v])
    <3>1. /\ Ahead(k)' \subseteq Ahead(k)
          /\ \A j \in Call : j # k => /\ call'[j] = call[j] /\ job'[j] = job[j]
                                      /\ j \in past'.failed <=> j \in past.failed
          /\ call'[k].err <=> k \in past'.failed
      BY <2>3, <2>6, <2>8, <2>9 DEF SyncCall
    <3> QED
      BY <2>10, <2>12, <2>13, <2>14, <3>1, <1>ServeCalls
  <2>16. BaseOK' /\ NoAccident'
    BY <2>6, <2>7, <2>15, <1>SyncFacts DEF BaseOK, NoAccident
  <2>17. Syncs'
    BY <2>11, <2>15, <2>16 DEF Syncs
  <2>18. {} \in SUBSET Writer /\ W \in SUBSET Writer
    BY <2>4
  <2> QED
    BY <2>10, <2>17, <2>18
\* A call returns when it owes nothing.
<1>ReturnSyncs.
      ASSUME Syncs, kind \in Synchronous, kind' = kind, NEW k \in Call, call[k].pc = "open",
             Todo(k) = {}, Ahead(k) = {}, call' = Returned(k, call[k].err),
             UNCHANGED <<slice, job, got, owes, may, past>>, kind = "naive" => held' = 0
      PROVE  /\ Syncs' /\ Registered' = Registered /\ owes[k] = {}
             /\ call'[k].pc = "returned" /\ \A j \in Call : j # k => call'[j] = call[j]
  <2> USE <1>ReturnSyncs
  <2>1. Serving(k) /\ SyncCall(k) /\ call[k].err \in BOOLEAN
    BY <1>SyncFacts, Zenon DEF SyncCall, CallRecord
  <2>2. /\ call' \in [Call -> CallRecord]
        /\ call'[k].pc = "returned" /\ call'[k].err = call[k].err
        /\ \A j \in Call : j # k => call'[j] = call[j]
    BY <2>1, <1>SyncFacts, CallReturns
  <2>3. owes[k] = {}
    BY <2>1, Zenon DEF Serving
  <2>4. Registered' = Registered /\ SlicesOK'
    <3>1. SlicesOK
      BY <1>SyncFacts
    <3>2. Registered' = Registered
      BY SameRegistered, Zenon
    <3>3. SlicesOK'
      BY <3>1 DEF SlicesOK, Home, Uniq, Held, Array
    <3> QED
      BY <3>2, <3>3, Zenon
  <2>5. TasksOK' /\ \A j \in Call : Todo(j)' = Todo(j)
    BY <1>SyncFacts, <1>SameTasks
  <2>6. ASSUME NEW j \in Call, j # k PROVE SyncCall(j)'
    BY <2>2, <2>4, <2>6, <1>SyncFacts, <1>OtherCall, Zenon
  <2>7. SyncCall(k)'
    BY <2>1, <2>2, <2>3, <2>5, Zenon DEF SyncCall, Done
  <2>8. BaseOK' /\ NoAccident' /\ \A w \in Writer : IsInjective(got'[w])
    BY <2>2, <2>4, <1>SyncFacts, Zenon DEF BaseOK, NoAccident
  <2>9. ASSUME kind = "naive" PROVE OneByOne'
    <3>1. OneByOne /\ held = k /\ held' = 0
      BY <2>9, <1>SyncFacts DEF OneByOne
    <3>2. \A j \in Call : j # 0
      BY FanoutAssumption DEF Call
    <3>3. \A j \in Call : call'[j].pc # "open"
      BY <2>2, <3>1, Zenon DEF OneByOne
    <3>4. \A j, m \in Call : call'[j].pc \in {"new", "open"} /\ j < m => call'[m].pc = "new"
      <4> SUFFICES ASSUME NEW j \in Call, NEW m \in Call, call'[j].pc \in {"new", "open"}, j < m
                   PROVE  call'[m].pc = "new"
        BY Zenon
      <4>1. j # k /\ call[m].pc = "new"
        BY <2>2, <3>1, Zenon DEF OneByOne
      <4> QED
        BY <2>2, <4>1, Zenon
    <3> QED
      BY <3>1, <3>2, <3>3, <3>4, Zenon DEF OneByOne
  <2> QED
    BY <2>2, <2>3, <2>4, <2>5, <2>6, <2>7, <2>8, <2>9, Zenon DEF Syncs
\* Steps that leave alone what the invariant is about.
<1>RestSyncs.
      ASSUME Syncs, kind' = kind, UNCHANGED <<slice, call, job, held, got, owes, may, past>>
      PROVE  Syncs' /\ Registered' = Registered
  <2> USE <1>RestSyncs
  <2>1. Registered' = Registered /\ SlicesOK'
    <3>1. SlicesOK
      BY <1>SyncFacts
    <3>2. Registered' = Registered
      BY SameRegistered, Zenon
    <3>3. \A w : Home(w)' = Home(w)
      BY DEF Home
    <3> QED
      BY <3>1, <3>2, <3>3, Zenon DEF SlicesOK
  <2>2. TasksOK'
    BY <1>SyncFacts, <1>SameTasks
  <2>3. ASSUME NEW j \in Call PROVE SyncCall(j)'
    BY <2>1, <1>SyncFacts, <1>OtherCall, Zenon
  <2>4. BaseOK' /\ NoAccident' /\ (\A w \in Writer : IsInjective(got'[w])) /\ (kind = "naive" => OneByOne')
    BY <2>1, <1>SyncFacts, Zenon DEF BaseOK, NoAccident, OneByOne
  <2> QED
    BY <2>1, <2>2, <2>3, <2>4, Zenon DEF Syncs
\* Add is a step of the abstract broadcaster.
<1>AddSteps.
      ASSUME Syncs, kind \in Synchronous, kind' = kind, NEW w \in Writer, Join(w, Home(w)),
             UNCHANGED <<call, job, held, got, past>>
      PROVE  Syncs' /\ Effect
  <2> USE <1>AddSteps
  <2>1. /\ Syncs' /\ Registered' = Registered \cup {w}
        /\ may' = [k \in Call |-> IF call[k].pc = "open" THEN may[k] \cup {w} ELSE may[k]]
    BY <1>JoinSyncs
  <2>2. owes' = owes
    BY Zenon DEF Join
  <2>3. Joined(w)
    BY <2>1, <2>2 DEF Joined, SamePcs
  <2> QED
    BY <2>1, <2>3, Zenon DEF Effect
\* Remove is a step of the abstract broadcaster.
<1>RemoveSteps.
      ASSUME Syncs, kind \in Synchronous, kind' = kind, NEW w \in Writer, Leave(w, Home(w)),
             UNCHANGED <<call, job, held, got>>, past' = [past EXCEPT !.removes = @ + 1]
      PROVE  Syncs' /\ Effect
  <2> USE <1>RemoveSteps
  <2>1. Syncs' /\ Registered' = Registered \ {w}
    BY <1>LeaveSyncs
  <2>2. may' = may /\ owes' = [k \in Call |-> owes[k] \ {w}]
    BY DEF Leave
  <2>3. Left(w)
    BY <2>1, <2>2 DEF Left, SamePcs
  <2> QED
    BY <2>1, <2>3 DEF Effect
\* The return of a call is a step of the abstract broadcaster.
<1>ReturnSteps.
      ASSUME Syncs, kind \in Synchronous, kind' = kind, NEW k \in Call, call[k].pc = "open",
             Todo(k) = {}, Ahead(k) = {}, call' = Returned(k, call[k].err),
             UNCHANGED <<slice, job, got, owes, may, past>>, kind = "naive" => held' = 0
      PROVE  Syncs' /\ Effect
  <2> USE <1>ReturnSteps
  <2>1. /\ Syncs' /\ Registered' = Registered /\ owes[k] = {}
        /\ call'[k].pc = "returned" /\ \A j \in Call : j # k => call'[j] = call[j]
    BY <1>ReturnSyncs, Zenon
  <2>2. Finished(k)
    BY <2>1 DEF Finished
  <2> QED
    BY <2>1, <2>2, Zenon DEF Effect
\* The steps of the naive broadcaster.
<1>NaiveSteps.
      ASSUME Syncs, kind = "naive", kind' = kind, NaiveNext
      PROVE  Syncs' /\ Effect
  <2> USE <1>NaiveSteps
  <2>0. kind \in Synchronous /\ \A w : Home(w) = 0
    BY DEF Synchronous, Home
  <2>1. ASSUME NEW w \in Writer, NaiveAdd(w) PROVE Syncs' /\ Effect
    <3>1. Join(w, Home(w)) /\ UNCHANGED <<call, job, held, got, past>>
      BY <2>0, <2>1 DEF NaiveAdd
    <3> QED
      BY <2>0, <3>1, <1>AddSteps
  <2>2. ASSUME NEW w \in Writer, NaiveRemove(w) PROVE Syncs' /\ Effect
    <3>1. Leave(w, Home(w)) /\ UNCHANGED <<call, job, held, got>> /\ past' = [past EXCEPT !.removes = @ + 1]
      BY <2>0, <2>2 DEF NaiveRemove
    <3> QED
      BY <2>0, <3>1, <1>RemoveSteps
  <2>3. ASSUME NEW k \in Call, NaiveBroadcast(k) PROVE Syncs' /\ Effect
    <3>1. CASE /\ NaiveLock /\ Begin(k)
               /\ held' = k
               /\ call' = [call EXCEPT ![k].pc = "open"]
               /\ job' = [job EXCEPT ![k][0] = Elements(slice[0])]
               /\ UNCHANGED <<slice, chan, gor, conn, wkr, ring, down, got, past>>
      <4>1. /\ Syncs' /\ Registered' = Registered /\ call[k].pc = "new"
            /\ owes' = [owes EXCEPT ![k] = Registered] /\ may' = [may EXCEPT ![k] = Registered]
        BY <3>1, <1>NaiveBeginSyncs, Zenon DEF NaiveLock
      <4>2. call'[k].pc = "open" /\ \A j \in Call : j # k => call'[j] = call[j]
        BY <3>1, <1>SyncFacts, CallOpens
      <4>3. Began(k)
        BY <3>1, <4>1, <4>2, Zenon DEF Began
      <4> QED
        BY <4>1, <4>3 DEF Effect
    <3>2. CASE WriteNext(k, 0)
      BY <3>2, ShardZero, <1>WriteSyncs, Zenon DEF Effect
    <3>3. CASE /\ call[k].pc = "open" /\ job[k][0] = <<>>
               /\ held' = 0
               /\ call' = Returned(k, call[k].err)
               /\ UNCHANGED <<slice, job, chan, gor, conn, wkr, ring, down, got, log>>
      <4>1. UNCHANGED <<slice, job, got, owes, may, past>>
        BY <3>3 DEF log
      <4>2. \A i \in Shard : \A w \in Range(job[k][i]) : i = 0
        BY <2>0, <1>SyncFacts, Zenon DEF TasksOK
      <4>3. Range(job[k][0]) = {}
        BY <3>3, EmptyRange
      <4>4. Todo(k) = {}
        BY <4>2, <4>3, Zenon DEF Todo
      <4>5. Ahead(k) = {}
        BY DEF Ahead
      <4> QED
        BY <2>0, <3>3, <4>1, <4>4, <4>5, <1>ReturnSteps
    <3> QED
      BY <2>3, <3>1, <3>2, <3>3, Zenon DEF NaiveBroadcast
  <2> QED
    BY <2>1, <2>2, <2>3, Zenon DEF NaiveNext
\* The steps of the worker pool.
<1>PoolSteps.
      ASSUME Syncs, kind = "workerpool", kind' = kind, PoolNext
      PROVE  Syncs' /\ Effect
  <2> USE <1>PoolSteps
  <2>0. kind \in Synchronous /\ kind # "naive" /\ \A w : Home(w) = shardIndex[w]
    BY DEF Synchronous, Home
  <2>1. ASSUME NEW w \in Writer, PoolAdd(w) PROVE Syncs' /\ Effect
    <3>1. Join(w, Home(w)) /\ UNCHANGED <<call, job, held, got, past>>
      BY <2>0, <2>1 DEF PoolAdd
    <3> QED
      BY <2>0, <3>1, <1>AddSteps
  <2>2. ASSUME NEW w \in Writer, PoolRemove(w) PROVE Syncs' /\ Effect
    <3>1. Leave(w, Home(w)) /\ UNCHANGED <<call, job, held, got>> /\ past' = [past EXCEPT !.removes = @ + 1]
      BY <2>0, <2>2 DEF PoolRemove
    <3> QED
      BY <2>0, <3>1, <1>RemoveSteps
  <2>3. ASSUME NEW k \in Call, PoolBroadcast(k) PROVE Syncs' /\ Effect
    <3>1. CASE /\ Begin(k)
               /\ call' = [call EXCEPT ![k].pc = "open"]
               /\ UNCHANGED <<slice, job, held, chan, gor, conn, wkr, ring, down, got, past>>
      <4>1. /\ Syncs' /\ Registered' = Registered /\ call[k].pc = "new"
            /\ owes' = [owes EXCEPT ![k] = Registered] /\ may' = [may EXCEPT ![k] = Registered]
        BY <2>0, <3>1, <1>BeginSyncs, Zenon
      <4>2. call'[k].pc = "open" /\ \A j \in Call : j # k => call'[j] = call[j]
        BY <3>1, <1>SyncFacts, CallOpens
      <4>3. Began(k)
        BY <3>1, <4>1, <4>2 DEF Began
      <4> QED
        BY <4>1, <4>3, Zenon DEF Effect
    <3>2. CASE Submit(k)
      BY <3>2, <1>SubmitSyncs, Zenon DEF Effect, SamePcs
    <3>3. CASE \E i \in Shard : WriteNext(k, i)
      BY <3>3, <1>WriteSyncs DEF Effect
    <3>4. CASE /\ Wait(k)
               /\ call' = Returned(k, call[k].err)
               /\ UNCHANGED <<slice, job, held, chan, gor, conn, wkr, ring, down, got, log>>
      <4>1. UNCHANGED <<slice, job, got, owes, may, past>>
        BY <3>4 DEF log
      <4>2. call[k].pc = "open" /\ call[k].at = numShards /\ \A i \in Shard : job[k][i] = <<>>
        BY <3>4, Zenon DEF Wait
      <4>3. Todo(k) = {}
        BY <4>2, <1>SyncFacts, <1>TodoAreWriters, Zenon
      <4>4. Ahead(k) = {}
        BY <4>2, FanoutAssumption DEF Ahead, Shard
      <4> QED
        BY <2>0, <3>4, <4>1, <4>2, <4>3, <4>4, <1>ReturnSteps, Zenon
    <3> QED
      BY <2>3, <3>1, <3>2, <3>3, <3>4, Zenon DEF PoolBroadcast
  <2>4. ASSUME PoolRelease PROVE Syncs' /\ Effect
    <3>1. UNCHANGED <<slice, call, job, held, got, owes, may, past>>
      BY <2>4, Zenon DEF PoolRelease, log
    <3> QED
      BY <3>1, <1>RestSyncs DEF Effect, SamePcs
  <2> QED
    BY <2>1, <2>2, <2>3, <2>4, Zenon DEF PoolNext
\* The steps of the registry.
<1>RegistrySteps.
      ASSUME Syncs, kind = "registry", kind' = kind, RegistryNext
      PROVE  Syncs' /\ Effect
  <2> USE <1>RegistrySteps
  <2>0. kind \in Synchronous /\ kind # "naive" /\ \A w : Home(w) = shardIndex[w]
    BY DEF Synchronous, Home
  <2>1. ASSUME NEW w \in Writer, RegistryAdd(w) PROVE Syncs' /\ Effect
    <3>1. Join(w, Home(w)) /\ UNCHANGED <<call, job, held, got, past>>
      BY <2>0, <2>1 DEF RegistryAdd
    <3> QED
      BY <2>0, <3>1, <1>AddSteps
  <2>2. ASSUME NEW w \in Writer, RegistryRemove(w) PROVE Syncs' /\ Effect
    <3>1. Leave(w, Home(w)) /\ UNCHANGED <<call, job, held, got>> /\ past' = [past EXCEPT !.removes = @ + 1]
      BY <2>0, <2>2 DEF RegistryRemove
    <3> QED
      BY <2>0, <3>1, <1>RemoveSteps
  <2>3. ASSUME NEW k \in Call, RegistrySnapshot(k) PROVE Syncs' /\ Effect
    <3> DEFINE i == call[k].at
               W == Range(Elements(slice[i]))
    <3>0. UNCHANGED <<slice, job>>
      BY <2>3, Zenon DEF RegistrySnapshot
    <3>1. CASE Begin(k) /\ call' = [call EXCEPT ![k].pc = "open"] /\ UNCHANGED <<got, past>>
      <4>1. /\ Syncs' /\ Registered' = Registered /\ call[k].pc = "new"
            /\ owes' = [owes EXCEPT ![k] = Registered] /\ may' = [may EXCEPT ![k] = Registered]
        BY <2>0, <3>0, <3>1, <1>BeginSyncs, Zenon
      <4>2. call'[k].pc = "open" /\ \A j \in Call : j # k => call'[j] = call[j]
        BY <3>1, <1>SyncFacts, CallOpens
      <4>3. Began(k)
        BY <3>1, <4>1, <4>2 DEF Began
      <4> QED
        BY <4>1, <4>3, Zenon DEF Effect
    <3>2. CASE /\ call[k].pc = "open" /\ i < numShards
               /\ call' = [call EXCEPT ![k].at = @ + 1]
               /\ got' = [w \in Writer |-> IF w \in W THEN Append(got[w], k) ELSE got[w]]
               /\ owes' = [owes EXCEPT ![k] = @ \ W]
               /\ UNCHANGED <<may, past>>
      BY <3>0, <3>2, <1>SnapshotSyncs, Zenon DEF Effect
    <3>3. CASE call[k].pc = "open" /\ i = numShards /\ call' = Returned(k, call[k].err) /\ UNCHANGED <<got, log>>
      <4>1. UNCHANGED <<slice, job, got, owes, may, past>>
        BY <3>0, <3>3, Zenon DEF log
      <4>2. \A m \in Shard : job[k][m] = <<>>
        BY <1>SyncFacts, Zenon DEF TasksOK
      <4>3. Todo(k) = {}
        BY <4>2, <1>SyncFacts, <1>TodoAreWriters
      <4>4. Ahead(k) = {}
        BY <3>3, FanoutAssumption DEF Ahead, Shard
      <4> QED
        BY <2>0, <3>3, <4>1, <4>3, <4>4, <1>ReturnSteps
    <3> QED
      BY <2>3, <3>1, <3>2, <3>3, Zenon DEF RegistrySnapshot
  <2> QED
    BY <2>1, <2>2, <2>3, Zenon DEF RegistryNext
<1> SUFFICES ASSUME Syncs, kind \in Synchronous, [FanoutNext]_fanout
             PROVE  kind' = kind /\ Syncs' /\ Effect
  OBVIOUS
<1>1. kind' = kind
  BY StrategySteps
<1>2. ASSUME UNCHANGED fanout PROVE Syncs' /\ Effect
  <2>1. UNCHANGED <<slice, call, job, held, got, owes, may, past>>
    BY <1>2, Zenon DEF fanout, state, log
  <2> QED
    BY <1>1, <2>1, <1>RestSyncs DEF Effect, SamePcs
<1>3. \/ UNCHANGED fanout
      \/ kind = "naive" /\ NaiveNext
      \/ kind = "workerpool" /\ PoolNext
      \/ kind = "registry" /\ RegistryNext
  BY StrategySteps DEF Synchronous
<1> QED
  BY <1>1, <1>2, <1>3, <1>NaiveSteps, <1>PoolSteps, <1>RegistrySteps, Zenon

\* The inductive invariant of the three synchronous strategies: a call that is open
\* has everybody it owes in a task or in a shard ahead, whatever joins and leaves;
\* nobody in a task has got the message; and a call that returns owes nobody.
THEOREM SyncInvariance == FanoutSpec => []SyncInv
<1>1. FanoutInit => SyncInv
  BY SyncInit DEF SyncInv
<1>2. SyncInv /\ [FanoutNext]_fanout => SyncInv'
  <2> SUFFICES ASSUME SyncInv, [FanoutNext]_fanout, kind' \in Synchronous PROVE Syncs'
    BY DEF SyncInv, Synchronous
  <2>1. kind \in Synchronous
    BY StrategySteps
  <2> QED
    BY <2>1, SyncStep DEF SyncInv
<1> QED
  BY <1>1, <1>2, PTL DEF FanoutSpec

-----------------------------------------------------------------------------
(* The synchronous strategies implement SyncBroadcast                       *)

aReg == IF kind \in Synchronous THEN Registered ELSE {}
aPc == [k \in Call |-> IF kind \in Synchronous THEN call[k].pc ELSE "new"]
aOwes == IF kind \in Synchronous THEN owes ELSE [k \in Call |-> {}]
aMay == IF kind \in Synchronous THEN may ELSE [k \in Call |-> {}]
aGot == IF kind \in Synchronous THEN got ELSE [w \in Writer |-> <<>>]

\* Every step of a synchronous strategy is one of the abstract broadcaster, on what
\* the refinement mapping shows of it, or changes nothing there.
LEMMA AbstractStep ==
    ASSUME Syncs, kind \in Synchronous, kind' = kind, Effect
    PROVE  Sync!Next \/ UNCHANGED <<aReg, aPc, aOwes, aMay, aGot>>
<1> USE DEF aReg, aPc, aOwes, aMay, aGot
<1>1. ASSUME NEW w \in Writer, Joined(w) PROVE Sync!Add(w)
  BY <1>1, Zenon DEF Joined, SamePcs, Sync!Add
<1>2. ASSUME NEW w \in Writer, Left(w) PROVE Sync!Remove(w)
  BY <1>2, Zenon DEF Left, SamePcs, Sync!Remove
<1>3. ASSUME NEW k \in Call, Began(k) PROVE Sync!Begin(k)
  BY <1>3, Zenon DEF Began, Sync!Begin
<1>4. ASSUME NEW k \in Call, Finished(k) PROVE Sync!Return(k)
  BY <1>4, Zenon DEF Finished, Sync!Return
<1>5. ASSUME NEW k \in Call, NEW W \in SUBSET Writer, NEW E \in SUBSET Writer, Served(k, W, E)
      PROVE  Sync!Serve(k, W, E)
  <2>1. \A f : Sync!Range(f) = Range(f)
    BY Zenon DEF Sync!Range, Range
  <2> QED
    BY <1>5, <2>1, Zenon DEF Served, Sync!Serve
<1>6. ASSUME Registered' = Registered, SamePcs, UNCHANGED <<owes, may, got>>
      PROVE  UNCHANGED <<aReg, aPc, aOwes, aMay, aGot>>
  BY <1>6 DEF SamePcs
<1> HIDE DEF aReg, aPc, aOwes, aMay, aGot
<1> QED
  BY <1>1, <1>2, <1>3, <1>4, <1>5, <1>6, Zenon DEF Effect, Sync!Next

\* Each of the naive broadcaster, the worker pool and the registry implements the
\* synchronous broadcaster: a call writes its message at most once to those that are
\* registered during it and, when it returns, has served all that were throughout.
THEOREM SynchronousCalls == FanoutSpec => ImplementsSync
<1>1. FanoutInit => Sync!Init
  <2> SUFFICES ASSUME FanoutInit PROVE Sync!Init
    OBVIOUS
  <2>1. Registered = {}
    BY BaseInit
  <2>2. \A k \in Call : call[k].pc = "new"
    BY Zenon DEF FanoutInit, NewCall
  <2> QED
    BY <2>1, <2>2, Zenon DEF FanoutInit, Sync!Init
<1>2. SyncInv /\ [FanoutNext]_fanout => [Sync!Next]_<<aReg, aPc, aOwes, aMay, aGot>>
  <2> SUFFICES ASSUME SyncInv, [FanoutNext]_fanout
               PROVE  Sync!Next \/ UNCHANGED <<aReg, aPc, aOwes, aMay, aGot>>
    BY Zenon
  <2>1. CASE kind \in Synchronous
    BY <2>1, SyncStep, AbstractStep DEF SyncInv
  <2>2. CASE kind \notin Synchronous
    <3>1. kind' = kind
      BY StrategySteps
    <3> QED
      BY <2>2, <3>1 DEF aReg, aPc, aOwes, aMay, aGot
  <2> QED
    BY <2>1, <2>2
<1>3. FanoutSpec => [][Sync!Next]_<<aReg, aPc, aOwes, aMay, aGot>>
  BY <1>2, SyncInvariance, PTL DEF FanoutSpec
<1>4. FanoutSpec => Sync!Init
  BY <1>1, PTL DEF FanoutSpec
<1> QED
  BY <1>3, <1>4, PTL DEF ImplementsSync, Sync!Spec, aReg, aPc, aOwes, aMay, aGot

=============================================================================
