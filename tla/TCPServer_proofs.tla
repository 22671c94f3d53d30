--------------------------- MODULE TCPServer_proofs ---------------------------
(***************************************************************************)
(* For any number of connections, callers, listeners, frames and any       *)
(* capacity of the queues and the sockets: a client of the TCP server reads *)
(* a prefix of what was queued for it, in order, and an open connection    *)
(* loses nothing.                                                          *)
(***************************************************************************)
EXTENDS TCPServer, TLAPS

-----------------------------------------------------------------------------
(* One connection, as five values: g read by the client, s in the socket, w *)
(* in conn.Write, q in the queue, and Q, all that was ever queued.          *)

Frame == Nat \ {0}

InHand(w) == IF w = 0 THEN 0 ELSE 1

\* What was read, followed by what is in the socket, begins Q.
Streamed(g, s, Q) ==
    /\ Len(g) + Len(s) <= Len(Q)
    /\ \A i \in 1 .. Len(g) : g[i] = Q[i]
    /\ \A i \in 1 .. Len(s) : s[i] = Q[Len(g) + i]

\* And what follows that is the frame in hand and then the queue: all of Q.
Complete(g, s, w, q, Q) ==
    /\ Len(Q) = Len(g) + Len(s) + InHand(w) + Len(q)
    /\ w # 0 => Q[Len(g) + Len(s) + 1] = w
    /\ \A i \in 1 .. Len(q) : q[i] = Q[Len(g) + Len(s) + InHand(w) + i]

(* The client reads a frame.                                                *)
LEMMA ReadKeeps ==
    ASSUME NEW g \in Seq(Frame), NEW s \in Seq(Frame), NEW q \in Seq(Frame),
           NEW Q \in Seq(Frame), NEW w \in Nat, s # <<>>
    PROVE  /\ Append(g, Head(s)) \in Seq(Frame) /\ Tail(s) \in Seq(Frame)
           /\ Streamed(g, s, Q) => Streamed(Append(g, Head(s)), Tail(s), Q)
           /\ Complete(g, s, w, q, Q) => Complete(Append(g, Head(s)), Tail(s), w, q, Q)
<1> DEFINE h == Append(g, Head(s))
           t == Tail(s)
<1>1. /\ h \in Seq(Frame) /\ t \in Seq(Frame) /\ Len(s) >= 1
      /\ Len(h) = Len(g) + 1 /\ Len(t) = Len(s) - 1
      /\ \A i \in 1 .. Len(g) : h[i] = g[i]
      /\ h[Len(g) + 1] = s[1]
      /\ \A i \in 1 .. Len(t) : t[i] = s[i + 1]
  OBVIOUS
<1> HIDE DEF h, t
<1>2. ASSUME Streamed(g, s, Q) PROVE Streamed(h, t, Q)
  <2>0. /\ Len(g) \in Nat /\ Len(s) \in Nat /\ Len(Q) \in Nat
        /\ Len(g) + Len(s) <= Len(Q)
    BY <1>2 DEF Streamed
  <2>1. Len(h) + Len(t) <= Len(Q)
    BY <1>1, <2>0
  <2>2. ASSUME NEW i \in 1 .. Len(h) PROVE h[i] = Q[i]
    <3>1. CASE i \in 1 .. Len(g)
      BY <1>1, <1>2, <3>1 DEF Streamed
    <3>2. CASE i = Len(g) + 1
      <4>1. s[1] = Q[Len(g) + 1]
        BY <1>1, <1>2, 1 \in 1 .. Len(s) DEF Streamed
      <4> QED
        BY <1>1, <3>2, <4>1
    <3> QED
      BY <1>1, <2>0, <3>1, <3>2
  <2>3. ASSUME NEW i \in 1 .. Len(t) PROVE t[i] = Q[Len(h) + i]
    <3>1. i + 1 \in 1 .. Len(s) /\ Len(h) + i = Len(g) + (i + 1)
      BY <1>1
    <3>2. s[i + 1] = Q[Len(g) + (i + 1)]
      BY <1>2, <3>1 DEF Streamed
    <3> QED
      BY <1>1, <3>1, <3>2
  <2> QED
    BY <2>1, <2>2, <2>3 DEF Streamed
<1>3. ASSUME Complete(g, s, w, q, Q) PROVE Complete(h, t, w, q, Q)
  <2>1. Len(h) + Len(t) = Len(g) + Len(s)
    BY <1>1
  <2> QED
    BY <1>3, <2>1 DEF Complete
<1> QED
  BY <1>1, <1>2, <1>3 DEF h, t

(* The write pump takes a frame from the queue.                             *)
LEMMA TakeKeeps ==
    ASSUME NEW g \in Seq(Frame), NEW s \in Seq(Frame), NEW q \in Seq(Frame),
           NEW Q \in Seq(Frame), q # <<>>
    PROVE  /\ Head(q) \in Frame /\ Tail(q) \in Seq(Frame)
           /\ Complete(g, s, 0, q, Q) => Complete(g, s, Head(q), Tail(q), Q)
<1> DEFINE t == Tail(q)
           n == Len(g) + Len(s)
<1>1. /\ Head(q) = q[1] /\ q[1] \in Frame /\ t \in Seq(Frame) /\ n \in Nat
      /\ Len(q) \in Nat /\ Len(q) >= 1 /\ Len(t) = Len(q) - 1
      /\ \A i \in 1 .. Len(t) : t[i] = q[i + 1]
  OBVIOUS
<1> HIDE DEF t
<1>2. ASSUME Complete(g, s, 0, q, Q) PROVE Complete(g, s, q[1], t, Q)
  <2>1. /\ Len(Q) = n + 0 + Len(q) /\ \A i \in 1 .. Len(q) : q[i] = Q[n + 0 + i]
    BY <1>2 DEF Complete, InHand
  <2>2. InHand(q[1]) = 1
    BY <1>1 DEF InHand, Frame
  <2>3. Len(Q) = n + 1 + Len(t)
    BY <1>1, <2>1
  <2>4. Q[n + 1] = q[1]
    <3>1. 1 \in 1 .. Len(q) /\ n + 0 + 1 = n + 1
      BY <1>1
    <3> QED
      BY <2>1, <3>1
  <2>5. ASSUME NEW i \in 1 .. Len(t) PROVE t[i] = Q[n + 1 + i]
    <3>1. i + 1 \in 1 .. Len(q) /\ n + 0 + (i + 1) = n + 1 + i
      BY <1>1
    <3> QED
      BY <1>1, <2>1, <3>1
  <2> QED
    BY <2>2, <2>3, <2>4, <2>5 DEF Complete
<1> QED
  BY <1>1, <1>2 DEF t

(* conn.Write puts the frame in hand into the socket.                       *)
LEMMA WroteKeeps ==
    ASSUME NEW g \in Seq(Frame), NEW s \in Seq(Frame), NEW q \in Seq(Frame),
           NEW Q \in Seq(Frame), NEW w \in Frame,
           Streamed(g, s, Q), Complete(g, s, w, q, Q)
    PROVE  /\ Append(s, w) \in Seq(Frame)
           /\ Streamed(g, Append(s, w), Q) /\ Complete(g, Append(s, w), 0, q, Q)
<1> DEFINE a == Append(s, w)
<1>1. /\ a \in Seq(Frame) /\ Len(a) = Len(s) + 1 /\ a[Len(s) + 1] = w
      /\ \A i \in 1 .. Len(s) : a[i] = s[i]
      /\ Len(g) \in Nat /\ Len(s) \in Nat /\ Len(q) \in Nat /\ Len(Q) \in Nat
  OBVIOUS
<1> HIDE DEF a
<1>2. /\ Len(Q) = Len(g) + Len(s) + 1 + Len(q) /\ Q[Len(g) + Len(s) + 1] = w
      /\ \A i \in 1 .. Len(q) : q[i] = Q[Len(g) + Len(s) + 1 + i]
  BY DEF Complete, InHand, Frame
<1>3. Streamed(g, a, Q)
  <2>1. ASSUME NEW i \in 1 .. Len(a) PROVE a[i] = Q[Len(g) + i]
    <3>1. CASE i = Len(s) + 1
      BY <1>1, <1>2, <3>1
    <3>2. CASE i \in 1 .. Len(s)
      BY <1>1, <3>2 DEF Streamed
    <3> QED
      BY <1>1, <3>1, <3>2
  <2> QED
    BY <1>1, <1>2, <2>1 DEF Streamed
<1>4. Complete(g, a, 0, q, Q)
  <2>1. /\ Len(Q) = Len(g) + Len(a) + 0 + Len(q)
        /\ \A i \in 1 .. Len(q) : q[i] = Q[Len(g) + Len(a) + 0 + i]
    BY <1>1, <1>2
  <2> QED
    BY <2>1 DEF Complete, InHand
<1> QED
  BY <1>1, <1>3, <1>4 DEF a

(* A reset discards what is in the socket.                                  *)
LEMMA DiscardKeeps ==
    ASSUME NEW g \in Seq(Frame), NEW s \in Seq(Frame), NEW Q \in Seq(Frame), Streamed(g, s, Q)
    PROVE  Streamed(g, <<>>, Q)
<1> DEFINE e == <<>>
<1>1. Len(e) = 0 /\ Len(g) \in Nat /\ Len(s) \in Nat /\ Len(Q) \in Nat
  OBVIOUS
<1> HIDE DEF e
<1>2. Streamed(g, e, Q)
  BY <1>1 DEF Streamed
<1> QED
  BY <1>2 DEF e

(* What was read is a prefix of what was queued.                            *)
LEMMA StreamedIsPrefix ==
    ASSUME NEW g \in Seq(Frame), NEW s \in Seq(Frame), NEW Q \in Seq(Frame), Streamed(g, s, Q)
    PROVE  IsPrefix(g, Q)
<1>1. Len(g) \in Nat /\ Len(s) \in Nat /\ Len(Q) \in Nat
  OBVIOUS
<1>2. Len(g) + Len(s) <= Len(Q) /\ \A i \in 1 .. Len(g) : g[i] = Q[i]
  BY DEF Streamed
<1>3. Len(g) <= Len(Q)
  BY <1>1, <1>2
<1>4. SubSeq(g, 1, Len(g)) = SubSeq(Q, 1, Len(g))
  BY <1>1, <1>2, <1>3
<1> QED
  BY <1>3, <1>4 DEF IsPrefix

(* Broadcast or Send queues a frame.                                        *)
LEMMA OfferKeeps ==
    ASSUME NEW g \in Seq(Frame), NEW s \in Seq(Frame), NEW q \in Seq(Frame),
           NEW Q \in Seq(Frame), NEW w \in Nat, NEW b \in Frame
    PROVE  /\ Append(q, b) \in Seq(Frame) /\ Append(Q, b) \in Seq(Frame)
           /\ Streamed(g, s, Q) => Streamed(g, s, Append(Q, b))
           /\ Complete(g, s, w, q, Q) => Complete(g, s, w, Append(q, b), Append(Q, b))
<1> DEFINE A == Append(Q, b)
           a == Append(q, b)
           n == Len(g) + Len(s)
<1>1. /\ A \in Seq(Frame) /\ Len(A) = Len(Q) + 1 /\ A[Len(Q) + 1] = b
      /\ \A i \in 1 .. Len(Q) : A[i] = Q[i]
      /\ a \in Seq(Frame) /\ Len(a) = Len(q) + 1 /\ a[Len(q) + 1] = b
      /\ \A i \in 1 .. Len(q) : a[i] = q[i]
      /\ Len(g) \in Nat /\ Len(s) \in Nat /\ Len(q) \in Nat /\ Len(Q) \in Nat
      /\ InHand(w) \in Nat
  BY DEF InHand
<1> HIDE DEF A, a
<1>2. ASSUME Streamed(g, s, Q) PROVE Streamed(g, s, A)
  <2>1. ASSUME NEW i \in 1 .. Len(g) PROVE g[i] = A[i]
    BY <1>1, <1>2 DEF Streamed
  <2>2. ASSUME NEW i \in 1 .. Len(s) PROVE s[i] = A[Len(g) + i]
    <3>1. Len(g) + i \in 1 .. Len(Q)
      BY <1>1, <1>2 DEF Streamed
    <3>2. s[i] = Q[Len(g) + i]
      BY <1>2 DEF Streamed
    <3> QED
      BY <1>1, <3>1, <3>2
  <2> QED
    BY <1>1, <1>2, <2>1, <2>2 DEF Streamed
<1>3. ASSUME Complete(g, s, w, q, Q) PROVE Complete(g, s, w, a, A)
  <2>1. Len(Q) = n + InHand(w) + Len(q)
    BY <1>3 DEF Complete
  <2>2. Len(A) = n + InHand(w) + Len(a)
    BY <1>1, <2>1
  <2>3. w # 0 => A[n + 1] = w
    <3>1. w # 0 => InHand(w) = 1 /\ n + 1 \in 1 .. Len(Q)
      BY <1>1, <2>1 DEF InHand
    <3> QED
      BY <1>1, <1>3, <3>1 DEF Complete
  <2>4. ASSUME NEW i \in 1 .. Len(a) PROVE a[i] = A[n + InHand(w) + i]
    <3>1. CASE i = Len(q) + 1
      BY <1>1, <2>1, <3>1
    <3>2. CASE i \in 1 .. Len(q)
      <4>1. n + InHand(w) + i \in 1 .. Len(Q)
        <5>1. n \in Nat /\ InHand(w) \in Nat /\ Len(q) \in Nat /\ i \in Nat \ {0} /\ i <= Len(q)
          BY <1>1, <3>2
        <5> HIDE DEF n
        <5> QED
          BY <2>1, <5>1
      <4>2. q[i] = Q[n + InHand(w) + i]
        BY <1>3, <3>2 DEF Complete
      <4> QED
        BY <1>1, <3>2, <4>1, <4>2
    <3> QED
      BY <1>1, <3>1, <3>2
  <2> QED
    BY <2>2, <2>3, <2>4 DEF Complete
<1> QED
  BY <1>1, <1>2, <1>3 DEF A, a

-----------------------------------------------------------------------------
(* The inductive invariant: what flows through each connection, that nothing *)
(* flows before the connection is registered, and that the number being sent *)
(* is new to the peers it has still to be queued for.                       *)

Early(c) == handle[c] \in {"none", "accepted"}

DataOK ==
    /\ got \in [Conns -> Seq(Frame)] /\ sock \in [Conns -> Seq(Frame)]
    /\ writeCh \in [Conns -> Seq(Frame)] /\ queued \in [Conns -> Seq(Frame)]
    /\ writing \in [Conns -> Nat]
    /\ DOMAIN handle = Conns /\ DOMAIN conn = Conns /\ DOMAIN peer = Conns
    /\ registry \subseteq Conns /\ peers \subseteq Conns
    /\ seqCounter \in Nat /\ bseq \in Nat

Empty(c) ==
    /\ got[c] = <<>> /\ sock[c] = <<>> /\ writeCh[c] = <<>> /\ queued[c] = <<>>
    /\ writing[c] = 0

NothingEarly ==
    \A c \in Conns :
        /\ Early(c) => Empty(c) /\ c \notin registry /\ c \notin peers
        /\ peer[c] = "none" => handle[c] = "none"

Flows(c) ==
    /\ Streamed(got[c], sock[c], queued[c])
    /\ conn[c] /\ peer[c] = "open" =>
           Complete(got[c], sock[c], writing[c], writeCh[c], queued[c])

Increasing(Q) == \A i \in 1 .. Len(Q) - 1 : Q[i] < Q[i + 1]

Bounded(Q, n) == \A i \in 1 .. Len(Q) : Q[i] <= n

InSequence ==
    /\ bseq = 0 <=> peers = {}
    /\ bseq # 0 => bseq = seqCounter
    /\ \A c \in Conns :
        /\ Increasing(queued[c]) /\ Bounded(queued[c], seqCounter)
        /\ c \in peers => Bounded(queued[c], bseq - 1)

StreamInv == DataOK /\ NothingEarly /\ (\A c \in Conns : Flows(c)) /\ InSequence

(* An empty connection flows.                                               *)
LEMMA EmptyFlows ==
    Streamed(<<>>, <<>>, <<>>) /\ Complete(<<>>, <<>>, 0, <<>>, <<>>)
BY DEF Streamed, Complete, InHand

(* A step that only opens, closes, registers or forgets connections.        *)
LEMMA ConnStep ==
    ASSUME StreamInv, UNCHANGED <<sending, data>>,
           DOMAIN handle' = Conns, DOMAIN conn' = Conns, DOMAIN peer' = Conns,
           registry' \subseteq Conns,
           \A c \in Conns :
               /\ Early(c)' => Early(c) /\ c \notin registry'
               /\ peer'[c] = "none" => handle'[c] = "none"
               /\ conn'[c] /\ peer'[c] = "open" => (conn[c] /\ peer[c] = "open") \/ Early(c)
    PROVE  StreamInv'
<1>1. UNCHANGED <<seqCounter, bseq, peers, writeCh, writing, sock, got, queued>>
  BY DEF sending, data
<1>2. DataOK'
  BY <1>1 DEF StreamInv, DataOK
<1>3. NothingEarly'
  BY <1>1 DEF StreamInv, NothingEarly, Empty
<1>4. ASSUME NEW c \in Conns PROVE Flows(c)'
  <2>1. Streamed(got[c], sock[c], queued[c])'
    BY <1>1 DEF StreamInv, Flows
  <2>2. ASSUME conn'[c], peer'[c] = "open"
        PROVE  Complete(got[c], sock[c], writing[c], writeCh[c], queued[c])
    <3>1. CASE conn[c] /\ peer[c] = "open"
      BY <3>1 DEF StreamInv, Flows
    <3>2. CASE Early(c)
      BY <3>2, EmptyFlows DEF StreamInv, NothingEarly, Empty
    <3> QED
      BY <2>2, <3>1, <3>2
  <2> QED
    BY <1>1, <2>1, <2>2 DEF Flows
<1>5. InSequence'
  BY <1>1 DEF StreamInv, InSequence
<1> QED
  BY <1>2, <1>3, <1>4, <1>5 DEF StreamInv

(* A step of Start or Stop, of an accept loop that ends or of the sampler.  *)
LEMMA ControlStep ==
    ASSUME StreamInv, UNCHANGED <<sending, conns, data>>
    PROVE  StreamInv'
<1>1. UNCHANGED <<sending, data, handle, conn, peer, registry>>
  BY Zenon DEF conns
<1>2. /\ DOMAIN handle' = Conns /\ DOMAIN conn' = Conns /\ DOMAIN peer' = Conns
      /\ registry' \subseteq Conns
  BY <1>1 DEF StreamInv, DataOK
<1>3. \A c \in Conns :
          /\ Early(c)' => Early(c) /\ c \notin registry'
          /\ peer'[c] = "none" => handle'[c] = "none"
          /\ conn'[c] /\ peer'[c] = "open" => (conn[c] /\ peer[c] = "open") \/ Early(c)
  BY <1>1 DEF StreamInv, NothingEarly, Early
<1> QED
  BY <1>1, <1>2, <1>3, ConnStep

-----------------------------------------------------------------------------
(* Steps that move data.                                                    *)

(* A step that moves frames within one connection, and queues none.         *)
LEMMA MoveStep ==
    ASSUME StreamInv, NEW c \in Conns, ~Early(c),
           UNCHANGED <<sending, registry, handle, conn, peer, queued>>,
           DataOK',
           \A d \in Conns \ {c} :
               /\ got'[d] = got[d] /\ sock'[d] = sock[d]
               /\ writeCh'[d] = writeCh[d] /\ writing'[d] = writing[d],
           Flows(c)'
    PROVE  StreamInv'
<1>1. UNCHANGED <<seqCounter, bseq, peers>>
  BY DEF sending
<1>2. NothingEarly'
  BY <1>1 DEF StreamInv, NothingEarly, Empty, Early
<1>3. ASSUME NEW d \in Conns PROVE Flows(d)'
  <2>1. CASE d = c
    BY <2>1, Zenon
  <2>2. CASE d # c
    BY <2>2, Zenon DEF StreamInv, Flows
  <2> QED
    BY <2>1, <2>2
<1>4. InSequence'
  BY <1>1 DEF StreamInv, InSequence
<1> QED
  BY <1>2, <1>3, <1>4 DEF StreamInv

LEMMA TakeStep ==
    ASSUME StreamInv, NEW c \in Conns, WritePumpTake(c)
    PROVE  StreamInv'
<1>1. /\ writing[c] = 0 /\ writeCh[c] # <<>>
      /\ writing' = [writing EXCEPT ![c] = Head(writeCh[c])]
      /\ writeCh' = [writeCh EXCEPT ![c] = Tail(writeCh[c])]
      /\ UNCHANGED <<sending, registry, handle, conn, peer, queued, got, sock>>
  BY Zenon DEF WritePumpTake, conns
<1>2. /\ got[c] \in Seq(Frame) /\ sock[c] \in Seq(Frame) /\ writeCh[c] \in Seq(Frame)
      /\ queued[c] \in Seq(Frame) /\ UNCHANGED <<seqCounter, bseq, peers>>
  BY <1>1 DEF StreamInv, DataOK, sending
<1>3. /\ Head(writeCh[c]) \in Nat /\ Tail(writeCh[c]) \in Seq(Frame)
      /\ Complete(got[c], sock[c], 0, writeCh[c], queued[c]) =>
           Complete(got[c], sock[c], Head(writeCh[c]), Tail(writeCh[c]), queued[c])
  BY <1>1, <1>2, TakeKeeps DEF Frame
<1>4. writing'[c] = Head(writeCh[c]) /\ writeCh'[c] = Tail(writeCh[c])
  BY <1>1, Zenon DEF StreamInv, DataOK
<1>5. DataOK'
  BY <1>1, <1>2, <1>3, Zenon DEF StreamInv, DataOK
<1>6. Flows(c)'
  BY <1>1, <1>3, <1>4 DEF StreamInv, Flows
<1>7. ~Early(c)
  BY <1>1 DEF StreamInv, NothingEarly, Empty
<1>8. \A d \in Conns \ {c} : writing'[d] = writing[d] /\ writeCh'[d] = writeCh[d]
  BY <1>1 DEF StreamInv, DataOK
<1> QED
  BY <1>1, <1>5, <1>6, <1>7, <1>8, MoveStep

LEMMA WroteStep ==
    ASSUME StreamInv, NEW c \in Conns, WritePumpWrote(c)
    PROVE  StreamInv'
<1>1. /\ writing[c] # 0 /\ conn[c]
      /\ writing' = [writing EXCEPT ![c] = 0]
      /\ UNCHANGED <<sending, registry, handle, conn, peer, queued, got, writeCh>>
  BY DEF WritePumpWrote, conns
<1>2. /\ got[c] \in Seq(Frame) /\ sock[c] \in Seq(Frame) /\ writeCh[c] \in Seq(Frame)
      /\ queued[c] \in Seq(Frame) /\ writing[c] \in Frame /\ writing'[c] = 0
      /\ UNCHANGED <<seqCounter, bseq, peers>>
  BY <1>1 DEF StreamInv, DataOK, sending, Frame
<1>3. ~Early(c)
  BY <1>1, Zenon DEF StreamInv, NothingEarly, Empty
<1>4. CASE peer[c] = "open" /\ sock' = [sock EXCEPT ![c] = Append(sock[c], writing[c])]
  <2>1. /\ Streamed(got[c], sock[c], queued[c])
        /\ Complete(got[c], sock[c], writing[c], writeCh[c], queued[c])
    BY <1>1, <1>4, Zenon DEF StreamInv, Flows
  <2>2. /\ Append(sock[c], writing[c]) \in Seq(Frame)
        /\ Streamed(got[c], Append(sock[c], writing[c]), queued[c])
        /\ Complete(got[c], Append(sock[c], writing[c]), 0, writeCh[c], queued[c])
    BY <1>2, <2>1, WroteKeeps
  <2>3. sock'[c] = Append(sock[c], writing[c])
    BY <1>4, Zenon DEF StreamInv, DataOK
  <2>4. DataOK'
    BY <1>1, <1>2, <1>4, <2>2, Zenon DEF StreamInv, DataOK
  <2>5. Flows(c)'
    BY <1>1, <1>2, <2>2, <2>3, Zenon DEF Flows
  <2>6. \A d \in Conns \ {c} : writing'[d] = writing[d] /\ sock'[d] = sock[d]
    BY <1>1, <1>4, Zenon DEF StreamInv, DataOK
  <2> QED
    BY <1>1, <1>3, <2>4, <2>5, <2>6, MoveStep
<1>5. CASE peer[c] = "closed" /\ sock' = sock
  <2>1. DataOK'
    BY <1>1, <1>2, <1>5, Zenon DEF StreamInv, DataOK
  <2>2. Flows(c)'
    BY <1>1, <1>5, Zenon DEF StreamInv, Flows
  <2>3. \A d \in Conns \ {c} : writing'[d] = writing[d]
    BY <1>1, Zenon DEF StreamInv, DataOK
  <2> QED
    BY <1>1, <1>3, <1>5, <2>1, <2>2, <2>3, MoveStep
<1> QED
  BY <1>4, <1>5 DEF WritePumpWrote

LEMMA WriteFailsStep ==
    ASSUME StreamInv, NEW c \in Conns, WritePumpFails(c)
    PROVE  StreamInv'
<1>1. /\ writing[c] # 0 /\ writing' = [writing EXCEPT ![c] = 0]
      /\ ~(conn[c] /\ peer[c] = "open")
      /\ UNCHANGED <<sending, registry, handle, conn, peer, queued, got, sock, writeCh>>
  BY Zenon DEF WritePumpFails
<1>2. DataOK'
  BY <1>1, Zenon DEF StreamInv, DataOK, sending
<1>3. Flows(c)'
  BY <1>1 DEF StreamInv, Flows
<1>4. \A d \in Conns \ {c} : writing'[d] = writing[d]
  BY <1>1 DEF StreamInv, DataOK
<1>5. ~Early(c)
  BY <1>1 DEF StreamInv, NothingEarly, Empty
<1> QED
  BY <1>1, <1>2, <1>3, <1>4, <1>5, MoveStep

LEMMA ReadStep ==
    ASSUME StreamInv, NEW c \in Conns, ClientRead(c)
    PROVE  StreamInv'
<1>1. /\ sock[c] # <<>>
      /\ got' = [got EXCEPT ![c] = Append(got[c], Head(sock[c]))]
      /\ sock' = [sock EXCEPT ![c] = Tail(sock[c])]
      /\ UNCHANGED <<sending, registry, handle, conn, peer, queued, writeCh, writing>>
  BY DEF ClientRead, conns
<1>2. /\ got[c] \in Seq(Frame) /\ sock[c] \in Seq(Frame) /\ writeCh[c] \in Seq(Frame)
      /\ queued[c] \in Seq(Frame) /\ writing[c] \in Nat /\ UNCHANGED <<seqCounter, bseq, peers>>
  BY <1>1 DEF StreamInv, DataOK, sending
<1> DEFINE h == Append(got[c], Head(sock[c]))
           t == Tail(sock[c])
<1>3. /\ h \in Seq(Frame) /\ t \in Seq(Frame)
      /\ Streamed(got[c], sock[c], queued[c]) => Streamed(h, t, queued[c])
      /\ Complete(got[c], sock[c], writing[c], writeCh[c], queued[c]) =>
           Complete(h, t, writing[c], writeCh[c], queued[c])
  BY <1>1, <1>2, ReadKeeps, Zenon
<1>4. got'[c] = h /\ sock'[c] = t
  BY <1>1, Zenon DEF StreamInv, DataOK
<1>5. DataOK'
  BY <1>1, <1>2, <1>3 DEF StreamInv, DataOK
<1> HIDE DEF h, t
<1>6. Flows(c)'
  BY <1>1, <1>3, <1>4, Zenon DEF StreamInv, Flows
<1>7. ~Early(c)
  BY <1>1 DEF StreamInv, NothingEarly, Empty
<1>8. \A d \in Conns \ {c} : got'[d] = got[d] /\ sock'[d] = sock[d]
  BY <1>1 DEF StreamInv, DataOK
<1> QED
  BY <1>1, <1>5, <1>6, <1>7, <1>8, MoveStep

LEMMA ResetStep ==
    ASSUME StreamInv, NEW c \in Conns, SocketReset(c)
    PROVE  StreamInv'
<1>1. /\ ~conn[c] /\ sock[c] # <<>> /\ sock' = [sock EXCEPT ![c] = <<>>]
      /\ UNCHANGED <<sending, registry, handle, conn, peer, queued, got, writeCh, writing>>
  BY DEF SocketReset, conns
<1>2. DataOK'
  BY <1>1 DEF StreamInv, DataOK, sending
<1>3. Flows(c)'
  <2>1. sock'[c] = <<>> /\ got[c] \in Seq(Frame) /\ sock[c] \in Seq(Frame) /\ queued[c] \in Seq(Frame)
    BY <1>1 DEF StreamInv, DataOK
  <2>2. Streamed(got[c], sock[c], queued[c])
    BY DEF StreamInv, Flows
  <2>3. Streamed(got[c], <<>>, queued[c])
    BY <2>1, <2>2, DiscardKeeps
  <2> QED
    BY <1>1, <2>1, <2>3 DEF Flows
<1>4. \A d \in Conns \ {c} : sock'[d] = sock[d]
  BY <1>1 DEF StreamInv, DataOK
<1>5. ~Early(c)
  BY <1>1 DEF StreamInv, NothingEarly, Empty
<1> QED
  BY <1>1, <1>2, <1>3, <1>4, <1>5, MoveStep

(* Broadcast or Send takes the next number, for some of the registry.       *)
LEMMA PublishStep ==
    ASSUME StreamInv, Broadcast \/ \E c \in Conns : Send(c)
    PROVE  StreamInv'
<1>1. /\ bseq = 0 /\ seqCounter' = seqCounter + 1 /\ peers' \subseteq registry
      /\ bseq' = IF peers' = {} THEN 0 ELSE seqCounter + 1
      /\ UNCHANGED <<registry, handle, conn, peer, data>>
  BY DEF Broadcast, Send, conns
<1>2. /\ seqCounter \in Nat /\ registry \subseteq Conns
      /\ UNCHANGED <<writeCh, writing, sock, got, queued>>
  BY <1>1 DEF StreamInv, DataOK, data
<1>3. DataOK'
  BY <1>1, <1>2 DEF StreamInv, DataOK
<1>4. NothingEarly'
  BY <1>1, <1>2 DEF StreamInv, NothingEarly, Early, Empty
<1>5. \A c \in Conns : Flows(c)'
  BY <1>1, <1>2 DEF StreamInv, Flows
<1>6. InSequence'
  <2>1. bseq' = 0 <=> peers' = {}
    BY <1>1, <1>2
  <2>2. bseq' # 0 => bseq' = seqCounter'
    BY <1>1
  <2>3. ASSUME NEW c \in Conns
        PROVE  /\ Increasing(queued[c]) /\ Bounded(queued[c], seqCounter + 1)
               /\ c \in peers' => Bounded(queued[c], bseq' - 1)
    <3>1. Increasing(queued[c]) /\ Bounded(queued[c], seqCounter) /\ queued[c] \in Seq(Frame)
      BY DEF StreamInv, InSequence, DataOK
    <3>2. Bounded(queued[c], seqCounter + 1)
      BY <1>2, <3>1 DEF Bounded, Frame
    <3>3. c \in peers' => bseq' - 1 = seqCounter
      BY <1>1, <1>2
    <3> QED
      BY <3>1, <3>2, <3>3
  <2> QED
    BY <1>1, <1>2, <2>1, <2>2, <2>3 DEF InSequence
<1> QED
  BY <1>3, <1>4, <1>5, <1>6 DEF StreamInv

(* A frame newer than all that is queued keeps the queue in sequence.       *)
LEMMA AppendInSequence ==
    ASSUME NEW Q \in Seq(Frame), NEW b \in Frame, Increasing(Q), Bounded(Q, b - 1)
    PROVE  Increasing(Append(Q, b)) /\ Bounded(Append(Q, b), b)
<1> DEFINE A == Append(Q, b)
<1>1. /\ A \in Seq(Frame) /\ Len(A) = Len(Q) + 1 /\ A[Len(Q) + 1] = b /\ Len(Q) \in Nat
      /\ \A i \in 1 .. Len(Q) : A[i] = Q[i] /\ Q[i] \in Nat
      /\ b \in Nat
  BY DEF Frame
<1> HIDE DEF A
<1>2. ASSUME NEW i \in 1 .. Len(A) - 1 PROVE A[i] < A[i + 1]
  <2>1. CASE i = Len(Q)
    <3>1. A[i] = Q[i] /\ Q[i] <= b - 1 /\ Q[i] \in Nat
      BY <1>1, <1>2, <2>1 DEF Bounded
    <3> QED
      BY <1>1, <2>1, <3>1
  <2>2. CASE i < Len(Q)
    <3>1. i \in 1 .. Len(Q) /\ i + 1 \in 1 .. Len(Q) /\ i \in 1 .. Len(Q) - 1
      BY <1>1, <2>2
    <3> QED
      BY <1>1, <3>1 DEF Increasing
  <2> QED
    BY <1>1, <2>1, <2>2
<1>3. ASSUME NEW i \in 1 .. Len(A) PROVE A[i] <= b
  <2>1. CASE i = Len(Q) + 1
    BY <1>1, <2>1
  <2>2. CASE i \in 1 .. Len(Q)
    <3>1. A[i] = Q[i] /\ Q[i] <= b - 1 /\ Q[i] \in Nat
      BY <1>1, <2>2 DEF Bounded
    <3> QED
      BY <1>1, <3>1
  <2> QED
    BY <1>1, <2>1, <2>2
<1> QED
  BY <1>2, <1>3 DEF Increasing, Bounded, A

(* The select of Broadcast and Send, for one peer.                          *)
LEMMA OfferStep ==
    ASSUME StreamInv, NEW c \in Conns, Offer(c)
    PROVE  StreamInv'
<1>1. /\ c \in peers /\ peers' = peers \ {c} /\ bseq' = IF peers = {c} THEN 0 ELSE bseq
      /\ UNCHANGED <<seqCounter, registry, handle, conn, peer, writing, sock, got>>
  BY DEF Offer, conns
<1>2. bseq \in Frame /\ bseq = seqCounter /\ seqCounter \in Nat /\ peers \subseteq Conns
  BY <1>1 DEF StreamInv, InSequence, DataOK, Frame
<1>3. /\ bseq' \in Nat
      /\ bseq' = 0 <=> peers' = {}
      /\ bseq' # 0 => bseq' = seqCounter'
      /\ \A d \in peers' : bseq' = bseq
  BY <1>1, <1>2 DEF Frame
<1>4. ~Early(c)
  BY <1>1 DEF StreamInv, NothingEarly
<1>5. CASE /\ writeCh' = [writeCh EXCEPT ![c] = Append(writeCh[c], bseq)]
           /\ queued' = [queued EXCEPT ![c] = Append(queued[c], bseq)]
  <2> DEFINE q == Append(writeCh[c], bseq)
             Q == Append(queued[c], bseq)
  <2>1. /\ got[c] \in Seq(Frame) /\ sock[c] \in Seq(Frame) /\ writeCh[c] \in Seq(Frame)
        /\ queued[c] \in Seq(Frame) /\ writing[c] \in Nat
    BY DEF StreamInv, DataOK
  <2>2. /\ q \in Seq(Frame) /\ Q \in Seq(Frame)
        /\ Streamed(got[c], sock[c], queued[c]) => Streamed(got[c], sock[c], Q)
        /\ Complete(got[c], sock[c], writing[c], writeCh[c], queued[c]) =>
             Complete(got[c], sock[c], writing[c], q, Q)
    BY <1>2, <2>1, OfferKeeps, Zenon
  <2>3. writeCh'[c] = q /\ queued'[c] = Q
    BY <1>5 DEF StreamInv, DataOK
  <2>4. \A d \in Conns \ {c} : writeCh'[d] = writeCh[d] /\ queued'[d] = queued[d]
    BY <1>5 DEF StreamInv, DataOK
  <2>5. DataOK'
    BY <1>1, <1>2, <1>3, <1>5, <2>2, Zenon DEF StreamInv, DataOK
  <2>6. NothingEarly'
    <3>1. ASSUME NEW d \in Conns, d # c
          PROVE  /\ Early(d)' => Empty(d)' /\ d \notin registry' /\ d \notin peers'
                 /\ peer'[d] = "none" => handle'[d] = "none"
      BY <1>1, <2>4, <3>1, Zenon DEF StreamInv, NothingEarly, Early, Empty
    <3>2. ~Early(c)' /\ (peer'[c] = "none" => handle'[c] = "none")
      BY <1>1, <1>4, Zenon DEF StreamInv, NothingEarly, Early
    <3> QED
      BY <3>1, <3>2 DEF NothingEarly
  <2>7. Increasing(Q) /\ Bounded(Q, seqCounter)
    BY <1>1, <1>2, <2>1, AppendInSequence DEF StreamInv, InSequence
  <2> HIDE DEF q, Q
  <2>8. ASSUME NEW d \in Conns PROVE Flows(d)'
    <3>1. CASE d = c
      BY <1>1, <2>2, <2>3, <3>1, Zenon DEF StreamInv, Flows
    <3>2. CASE d # c
      BY <1>1, <2>4, <3>2 DEF StreamInv, Flows
    <3> QED
      BY <3>1, <3>2, Zenon
  <2>9. InSequence'
    <3>1. ASSUME NEW d \in Conns
          PROVE  /\ Increasing(queued'[d]) /\ Bounded(queued'[d], seqCounter')
                 /\ d \in peers' => Bounded(queued'[d], bseq' - 1)
      <4>1. CASE d = c
        BY <1>1, <2>3, <2>7, <4>1, Zenon
      <4>2. CASE d # c
        BY <1>1, <1>3, <2>4, <4>2 DEF StreamInv, InSequence
      <4> QED
        BY <4>1, <4>2, Zenon
    <3> QED
      BY <1>3, <3>1 DEF InSequence
  <2> QED
    BY <2>5, <2>6, <2>8, <2>9 DEF StreamInv
<1>6. CASE UNCHANGED <<writeCh, queued>>
  <2>1. DataOK'
    BY <1>1, <1>2, <1>3, <1>6, Zenon DEF StreamInv, DataOK
  <2>2. NothingEarly'
    BY <1>1, <1>6, Zenon DEF StreamInv, NothingEarly, Early, Empty
  <2>3. \A d \in Conns : Flows(d)'
    BY <1>1, <1>6 DEF StreamInv, Flows
  <2>4. InSequence'
    BY <1>1, <1>3, <1>6 DEF StreamInv, InSequence
  <2> QED
    BY <2>1, <2>2, <2>3, <2>4 DEF StreamInv
<1> QED
  BY <1>5, <1>6 DEF Offer

-----------------------------------------------------------------------------
(* The steps that open, close, register or forget a connection.             *)
LEMMA ConnectionSteps ==
    ASSUME StreamInv, NEW c \in Conns,
           \/ Dial(c) \/ Accept(c) \/ HandleRegister(c) \/ HandlePumps(c)
           \/ ReadPumpFails(c) \/ ReadPumpBadLength(c) \/ WritePumpDone(c)
           \/ ClientClose(c) \/ (\E k \in Ctl : RangeVisit(k, c) \/ StopCheck(k))
    PROVE  StreamInv'
<1>0. /\ DOMAIN handle = Conns /\ DOMAIN conn = Conns /\ DOMAIN peer = Conns
      /\ registry \subseteq Conns
      /\ \A d \in Conns : /\ Early(d) => d \notin registry
                          /\ peer[d] = "none" => handle[d] = "none"
  BY Zenon DEF StreamInv, DataOK, NothingEarly
<1>1. CASE Dial(c)
  <2>1. /\ UNCHANGED <<sending, data, registry, handle, conn>> /\ peer[c] = "none"
        /\ peer' = [peer EXCEPT ![c] = "open"]
    BY <1>1 DEF Dial
  <2> QED
    BY <1>0, <2>1, ConnStep, Zenon DEF Early
<1>2. CASE Accept(c)
  <2>1. /\ UNCHANGED <<sending, data, registry, peer>> /\ peer[c] # "none" /\ handle[c] = "none"
        /\ handle' = [handle EXCEPT ![c] = "accepted"] /\ conn' = [conn EXCEPT ![c] = TRUE]
    BY <1>2, Zenon DEF Accept
  <2> QED
    BY <1>0, <2>1, ConnStep, Zenon DEF Early
<1>3. CASE HandleRegister(c)
  <2>1. /\ UNCHANGED <<sending, data, conn, peer>> /\ handle[c] = "accepted"
        /\ handle' = [handle EXCEPT ![c] = "registered"] /\ registry' = registry \cup {c}
    BY <1>3, Zenon DEF HandleRegister
  <2> QED
    BY <1>0, <2>1, ConnStep DEF Early
<1>4. CASE HandlePumps(c)
  <2>1. /\ UNCHANGED <<sending, data, conn, peer, registry>> /\ handle[c] = "registered"
        /\ handle' = [handle EXCEPT ![c] = "running"]
    BY <1>4, Zenon DEF HandlePumps
  <2> QED
    BY <1>0, <2>1, ConnStep DEF Early
<1>5. CASE ReadPumpFails(c) \/ ReadPumpBadLength(c)
  <2>1. /\ UNCHANGED <<sending, data, handle, peer>>
        /\ conn' = [conn EXCEPT ![c] = FALSE] /\ registry' = registry \ {c}
    BY <1>5 DEF ReadPumpFails, ReadPumpBadLength, ReadPumpReturn
  <2> QED
    BY <1>0, <2>1, ConnStep, Zenon DEF Early
<1>6. CASE WritePumpDone(c)
  <2>1. UNCHANGED <<sending, data, handle, peer, conn, registry>>
    BY <1>6, Zenon DEF WritePumpDone
  <2> QED
    BY <1>0, <2>1, ConnStep, Zenon DEF Early
<1>7. CASE ClientClose(c)
  <2>1. /\ UNCHANGED <<sending, data, registry, handle, conn>> /\ peer[c] = "open"
        /\ peer' = [peer EXCEPT ![c] = "closed"]
    BY <1>7 DEF ClientClose
  <2> QED
    BY <1>0, <2>1, ConnStep, Zenon DEF Early
<1>8. CASE \E k \in Ctl : RangeVisit(k, c)
  <2>1. /\ UNCHANGED <<sending, data, registry, handle, peer>>
        /\ conn' = [conn EXCEPT ![c] = conn[c] /\ c \notin registry]
    BY <1>8 DEF RangeVisit
  <2>2. DOMAIN conn' = Conns /\ \A d \in Conns : conn'[d] => conn[d]
    BY <1>0, <2>1, Zenon
  <2>3. UNCHANGED <<sending, data, registry, handle, peer>>
    BY <2>1
  <2> QED
    BY <1>0, <2>2, <2>3, ConnStep, Zenon DEF Early
<1>9. CASE \E k \in Ctl : StopCheck(k)
  <2>1. /\ UNCHANGED <<sending, data, registry, handle, conn>>
        /\ peer' = [d \in Conns |-> "closed"] \/ peer' = peer
    BY <1>9, Zenon DEF StopCheck
  <2> QED
    BY <1>0, <2>1, ConnStep, Zenon DEF Early
<1> QED
  BY <1>1, <1>2, <1>3, <1>4, <1>5, <1>6, <1>7, <1>8, <1>9

(* Every step keeps the invariant.                                          *)
LEMMA StreamInduction == StreamInv /\ [Next]_vars => StreamInv'
<1> SUFFICES ASSUME StreamInv, [Next]_vars
             PROVE  StreamInv'
  OBVIOUS
<1>1. CASE \E k \in Ctl : StartCheck(k) \/ StartSteps(k)
  <2>1. UNCHANGED <<sending, conns, data>>
    BY <1>1, Zenon DEF StartCheck, StartSteps, Listen, MarkStarted, MetricsStart, MakeDone, SpawnLoops
  <2> QED
    BY <2>1, ControlStep
<1>2. CASE \E k \in Ctl : \/ CloseDone(k) \/ CloseListeners(k) \/ WgWait(k)
                          \/ MetricsStop(k) \/ MarkStopped(k)
  <2>1. UNCHANGED <<sending, conns, data>>
    BY <1>2 DEF CloseDone, CloseListeners, WgWait, MetricsStop, MarkStopped
  <2> QED
    BY <2>1, ControlStep
<1>3. CASE SamplerExit \/ \E i \in DOMAIN open : AcceptFails(i)
  <2>1. UNCHANGED <<sending, conns, data>>
    BY <1>3 DEF SamplerExit, AcceptFails
  <2> QED
    BY <2>1, ControlStep
<1>4. CASE \E c \in Conns :
               \/ Dial(c) \/ Accept(c) \/ HandleRegister(c) \/ HandlePumps(c)
               \/ ReadPumpFails(c) \/ ReadPumpBadLength(c) \/ WritePumpDone(c)
               \/ ClientClose(c) \/ (\E k \in Ctl : RangeVisit(k, c))
  BY <1>4, ConnectionSteps
<1>5. CASE \E k \in Ctl : StopCheck(k)
  <2>1. CASE Conns # {}
    BY <1>5, <2>1, ConnectionSteps
  <2>2. CASE Conns = {}
    <3>1. UNCHANGED <<sending, data, registry, handle, conn>> /\ DOMAIN peer' = Conns
      BY <1>5, Zenon DEF StopCheck, StreamInv, DataOK
    <3>2. /\ DOMAIN handle' = Conns /\ DOMAIN conn' = Conns /\ registry' \subseteq Conns
      BY <3>1 DEF StreamInv, DataOK
    <3> QED
      BY <2>2, <3>1, <3>2, ConnStep, Zenon
  <2> QED
    BY <2>1, <2>2
<1>6. CASE \E c \in Conns :
               \/ WritePumpTake(c) \/ WritePumpWrote(c) \/ WritePumpFails(c)
               \/ ClientRead(c) \/ SocketReset(c) \/ Offer(c)
  BY <1>6, TakeStep, WroteStep, WriteFailsStep, ReadStep, ResetStep, OfferStep
<1>7. CASE Broadcast \/ \E c \in Conns : Send(c)
  BY <1>7, PublishStep
<1>8. CASE UNCHANGED vars
  <2>1. UNCHANGED <<sending, conns, data>>
    BY <1>8 DEF vars
  <2> QED
    BY <2>1, ControlStep
<1> QED
  BY <1>1, <1>2, <1>3, <1>4, <1>5, <1>6, <1>7, <1>8 DEF Next, StopSteps, WritePump

-----------------------------------------------------------------------------
(* The invariant of the connections of the TCP server, whatever Start, Stop *)
(* and the clients do.                                                      *)
THEOREM StreamInvariance == SafetySpec => []StreamInv
<1>1. Init => StreamInv
  <2> SUFFICES ASSUME Init PROVE StreamInv
    OBVIOUS
  <2>1. DataOK
    BY DEF Init, DataOK, Frame
  <2>2. NothingEarly
    BY Zenon DEF Init, NothingEarly, Empty
  <2>3. \A c \in Conns : Flows(c)
    BY EmptyFlows DEF Init, Flows
  <2>4. InSequence
    BY DEF Init, InSequence, Increasing, Bounded
  <2> QED
    BY <2>1, <2>2, <2>3, <2>4 DEF StreamInv
<1> QED
  BY <1>1, StreamInduction, PTL DEF SafetySpec

(* internal/tcp/server.go: the queue, the write pump, the socket and the    *)
(* client deliver in order and without a gap; a client reads the beginning  *)
(* of what was queued for it, and that is in the order of the counter.      *)
THEOREM ClientsReadAPrefix == SafetySpec => []StreamIsPrefix
<1>1. StreamInv => StreamIsPrefix
  <2> SUFFICES ASSUME StreamInv, NEW c \in Conns
               PROVE  /\ IsPrefix(got[c], queued[c])
                      /\ \A i \in 1 .. Len(queued[c]) - 1 : queued[c][i] < queued[c][i + 1]
    BY DEF StreamIsPrefix
  <2>1. got[c] \in Seq(Frame) /\ sock[c] \in Seq(Frame) /\ queued[c] \in Seq(Frame)
    BY Zenon DEF StreamInv, DataOK
  <2>2. Streamed(got[c], sock[c], queued[c]) /\ Increasing(queued[c])
    BY Zenon DEF StreamInv, Flows, InSequence
  <2> QED
    BY <2>1, <2>2, StreamedIsPrefix DEF Increasing
<1> QED
  BY <1>1, StreamInvariance, PTL

(* internal/tcp/server.go: as long as both ends of a connection are open,   *)
(* every frame that RecordSend counted for it has been read or is on its    *)
(* way.                                                                     *)
THEOREM OpenConnectionsKeepAll == SafetySpec => []NothingVanishes
<1>1. StreamInv => NothingVanishes
  BY DEF StreamInv, Flows, Complete, NothingVanishes, InHand, DataOK
<1> QED
  BY <1>1, StreamInvariance, PTL
=============================================================================
