------------------------------ MODULE TCPServer ------------------------------
(***************************************************************************)
(* internal/tcp/server.go, with the clients of internal/tcp/client.go and  *)
(* the Start and Stop of internal/tcp/register.go as its environment.      *)
(*                                                                         *)
(* Actors: the callers of Start and Stop, one broadcasting goroutine, an   *)
(* accept loop per listener, the resource sampler, and for every           *)
(* connection the handleConn goroutine, a read pump and a write pump.      *)
(***************************************************************************)
EXTENDS Naturals, Sequences, SequencesExt

CONSTANTS
    Conns,         \* client connections; each is dialled at most once
    Ctl,           \* goroutines that call Start and Stop
    NumListeners,  \* listeners opened by one Start: min(NumCPU, 4) on Linux
    ChanCap,       \* tcpWriteChanCap
    SockCap,       \* frames that fit in the socket buffers of one connection
    Embedded,      \* the clients are those of tcpBenchTransport: its Start waits
                   \* for them to be registered, its Stop closes them first
    MaxSeq,        \* bound: calls of Broadcast and Send
    MaxStarts      \* bound: calls of Start that get past its guard

ASSUME TCPAssumption ==
    /\ NumListeners \in Nat \ {0} /\ ChanCap \in Nat \ {0}
    /\ SockCap \in Nat \ {0} /\ Embedded \in BOOLEAN
    /\ MaxSeq \in Nat /\ MaxStarts \in Nat

VARIABLES
    \* Start and Stop
    started,     \* BaseTransport.started
    doneClosed,  \* the channel s.done is closed
    open,        \* open[i]: the i-th listener ever opened is not closed
    listeners,   \* s.listeners, as a set of indices into open
    loops,       \* loops[i]: live accept loops of the i-th listener
    pc,          \* pc[k]: where caller k is in Start or Stop
    ranged,      \* ranged[k]: connections that the Range of k's Stop has visited
    starts,      \* Starts that got past the guard
    samplerDone, samplerStopped, \* the ResourceSampler's channels are closed
    samplers,    \* live sampler loops
    panicked,    \* a closed channel was closed again: the process is gone, and
                 \* the steps the model still takes stand for nothing
    \* Broadcast and Send
    seqCounter, lostCounter, msgSent,
    bseq,        \* the number being sent, 0 between calls
    peers,       \* the peers it has still to be queued for
    \* Connections
    registry,    \* connections in the registry
    handle,      \* handleConn: "none", "accepted", "registered", "running"
    conn,        \* conn[c]: the server's side of the socket is open
    peer,        \* the client's side: "none", "open", "closed"
    canceled,    \* canceled[c]: the context of c's pumps is cancelled
    rpump, wpump,\* the pumps: "none", "run", "dead"
    writeCh,     \* writeCh[c]: the queue, of sequence numbers
    writing,     \* writing[c]: the frame in conn.Write, 0 if none
    sock,        \* sock[c]: frames in the socket buffers
    got,         \* got[c]: frames the client has read
    queued       \* history: every frame ever put in writeCh[c]

sampler == <<samplerDone, samplerStopped, samplers>>
server == <<started, doneClosed, open, listeners, loops, starts>>
sending == <<seqCounter, lostCounter, msgSent, bseq, peers>>
conns == <<registry, handle, conn, peer, canceled, rpump, wpump>>
data == <<writeCh, writing, sock, got, queued>>
control == <<server, pc, ranged, sampler, panicked>>
vars == <<control, sending, conns, data>>

Init ==
    /\ started = FALSE /\ doneClosed = FALSE
    /\ open = <<>> /\ listeners = {} /\ loops = <<>> /\ starts = 0
    /\ pc = [k \in Ctl |-> "idle"] /\ ranged = [k \in Ctl |-> {}] /\ panicked = FALSE
    /\ samplerDone = FALSE /\ samplerStopped = FALSE /\ samplers = 0
    /\ seqCounter = 0 /\ lostCounter = 0 /\ msgSent = 0
    /\ bseq = 0 /\ peers = {}
    /\ registry = {} /\ handle = [c \in Conns |-> "none"]
    /\ conn = [c \in Conns |-> FALSE] /\ peer = [c \in Conns |-> "none"]
    /\ canceled = [c \in Conns |-> FALSE]
    /\ rpump = [c \in Conns |-> "none"] /\ wpump = [c \in Conns |-> "none"]
    /\ writeCh = [c \in Conns |-> <<>>] /\ writing = [c \in Conns |-> 0]
    /\ sock = [c \in Conns |-> <<>>] /\ got = [c \in Conns |-> <<>>]
    /\ queued = [c \in Conns |-> <<>>]

-----------------------------------------------------------------------------
(* Start, by caller k.                                                      *)

Go(k, from, to) == pc[k] = from /\ pc' = [pc EXCEPT ![k] = to]

StartCheck(k) ==
    /\ starts < MaxStarts /\ ~started
    /\ Go(k, "idle", "listen")
    /\ starts' = starts + 1
    /\ UNCHANGED <<started, doneClosed, open, listeners, loops, ranged, sampler,
                   panicked, sending, conns, data>>

\* The listeners of this Start join those of earlier ones; or one fails to
\* bind, and then all of them are closed and forgotten.
Listen(k) ==
    /\ \/ /\ Go(k, "listen", "mark")
          /\ open' = open \o [i \in 1 .. NumListeners |-> TRUE]
          /\ loops' = loops \o [i \in 1 .. NumListeners |-> 0]
          /\ listeners' = listeners \cup (Len(open) + 1 .. Len(open) + NumListeners)
       \/ /\ Go(k, "listen", "idle")
          /\ open' = [i \in DOMAIN open |-> open[i] /\ i \notin listeners]
          /\ listeners' = {}
          /\ UNCHANGED loops
    /\ UNCHANGED <<started, doneClosed, starts, ranged, sampler, panicked,
                   sending, conns, data>>

MarkStarted(k) ==
    /\ Go(k, "mark", "metrics")
    /\ started' = TRUE
    /\ UNCHANGED <<doneClosed, open, listeners, loops, starts, ranged, sampler,
                   panicked, sending, conns, data>>

MetricsStart(k) ==
    /\ Go(k, "metrics", "makeDone")
    /\ samplers' = samplers + 1
    /\ UNCHANGED <<server, ranged, samplerDone, samplerStopped, panicked,
                   sending, conns, data>>

MakeDone(k) ==
    /\ Go(k, "makeDone", "spawn")
    /\ doneClosed' = FALSE
    /\ UNCHANGED <<started, open, listeners, loops, starts, ranged, sampler,
                   panicked, sending, conns, data>>

\* An accept loop for every listener in s.listeners.
SpawnLoops(k) ==
    /\ Go(k, "spawn", "idle")
    /\ loops' = [i \in DOMAIN loops |-> IF i \in listeners THEN loops[i] + 1 ELSE loops[i]]
    /\ UNCHANGED <<started, doneClosed, open, listeners, starts, ranged, sampler,
                   panicked, sending, conns, data>>

StartSteps(k) ==
    \/ Listen(k) \/ MarkStarted(k) \/ MetricsStart(k) \/ MakeDone(k) \/ SpawnLoops(k)

-----------------------------------------------------------------------------
(* Stop, by caller k.  tcpBenchTransport closes its clients first; its      *)
(* Start succeeded, so all of them are in the registry by then.             *)

StopCheck(k) ==
    /\ started
    /\ Embedded => \A c \in Conns : handle[c] \in {"registered", "running"}
    /\ Go(k, "idle", "closeDone")
    /\ peer' = IF Embedded THEN [c \in Conns |-> "closed"] ELSE peer
    /\ UNCHANGED <<server, ranged, sampler, panicked, sending, registry, handle,
                   conn, canceled, rpump, wpump, data>>

CloseDone(k) ==
    /\ Go(k, "closeDone", "closeListeners")
    /\ doneClosed' = TRUE
    /\ panicked' = (panicked \/ doneClosed)
    /\ UNCHANGED <<started, open, listeners, loops, starts, ranged, sampler,
                   sending, conns, data>>

\* Mutant: the listeners stay open.
CloseListeners_Forgotten(k) ==
    /\ Go(k, "closeListeners", "range")
    /\ ranged' = [ranged EXCEPT ![k] = {}]
    /\ UNCHANGED <<server, sampler, panicked, sending, conns, data>>

CloseListeners(k) ==
    /\ Go(k, "closeListeners", "range")
    /\ open' = [i \in DOMAIN open |-> open[i] /\ i \notin listeners]
    /\ ranged' = [ranged EXCEPT ![k] = {}]
    /\ UNCHANGED <<started, doneClosed, listeners, loops, starts, sampler,
                   panicked, sending, conns, data>>

\* Range looks at one part of the registry after the other: what is added to a
\* part it has left behind is not visited.
RangeVisit(k, c) ==
    /\ pc[k] = "range" /\ c \notin ranged[k]
    /\ ranged' = [ranged EXCEPT ![k] = @ \cup {c}]
    /\ canceled' = [canceled EXCEPT ![c] = @ \/ c \in registry]
    /\ conn' = [conn EXCEPT ![c] = @ /\ c \notin registry]
    /\ UNCHANGED <<server, pc, sampler, panicked, sending, registry, handle, peer,
                   rpump, wpump, data>>

\* s.wg counts the accept loops and the pumps.
WgIsZero ==
    /\ \A i \in DOMAIN loops : loops[i] = 0
    /\ \A c \in Conns : rpump[c] # "run" /\ wpump[c] # "run"

WgWait(k) ==
    /\ ranged[k] = Conns /\ WgIsZero
    /\ Go(k, "range", "metricsStop")
    /\ UNCHANGED <<server, ranged, sampler, panicked, sending, conns, data>>

MetricsStop(k) ==
    /\ Go(k, "metricsStop", "metricsWait")
    /\ samplerDone' = TRUE
    /\ panicked' = (panicked \/ samplerDone)
    /\ UNCHANGED <<server, ranged, samplerStopped, samplers, sending, conns, data>>

MarkStopped(k) ==
    /\ samplerStopped
    /\ Go(k, "metricsWait", "idle")
    /\ started' = FALSE
    /\ UNCHANGED <<doneClosed, open, listeners, loops, starts, ranged, sampler,
                   panicked, sending, conns, data>>

\* The sampler's loop ends when its done channel is closed, and closes stopped.
SamplerExit ==
    /\ samplers > 0 /\ samplerDone
    /\ samplers' = samplers - 1
    /\ samplerStopped' = TRUE
    /\ panicked' = (panicked \/ samplerStopped)
    /\ UNCHANGED <<server, pc, ranged, samplerDone, sending, conns, data>>

StopSteps(k) ==
    \/ CloseDone(k) \/ CloseListeners(k) \/ (\E c \in Conns : RangeVisit(k, c))
    \/ WgWait(k) \/ MetricsStop(k) \/ MarkStopped(k)

-----------------------------------------------------------------------------
(* Accept loops and connections.                                            *)

Dial(c) ==
    /\ peer[c] = "none"
    /\ \E i \in DOMAIN open : open[i]
    /\ peer' = [peer EXCEPT ![c] = "open"]
    /\ UNCHANGED <<control, sending, registry, handle, conn, canceled, rpump, wpump, data>>

\* Which of the listeners of one port the kernel hands a connection to is open.
Accept(c) ==
    /\ peer[c] # "none" /\ handle[c] = "none"
    /\ \E i \in DOMAIN open : open[i] /\ loops[i] > 0
    /\ handle' = [handle EXCEPT ![c] = "accepted"]
    /\ conn' = [conn EXCEPT ![c] = TRUE]
    /\ UNCHANGED <<control, sending, registry, peer, canceled, rpump, wpump, data>>

\* Accept fails: the loop returns if s.done is closed, else sleeps and retries.
AcceptFails(i) ==
    /\ loops[i] > 0 /\ ~open[i] /\ doneClosed
    /\ loops' = [loops EXCEPT ![i] = @ - 1]
    /\ UNCHANGED <<started, doneClosed, open, listeners, starts, pc, ranged, sampler,
                   panicked, sending, conns, data>>

HandleRegister(c) ==
    /\ handle[c] = "accepted"
    /\ handle' = [handle EXCEPT ![c] = "registered"]
    /\ registry' = registry \cup {c}
    /\ UNCHANGED <<control, sending, conn, peer, canceled, rpump, wpump, data>>

\* Mutant: the write pump is not started.
HandlePumps_ReadOnly(c) ==
    /\ handle[c] = "registered"
    /\ handle' = [handle EXCEPT ![c] = "running"]
    /\ rpump' = [rpump EXCEPT ![c] = "run"]
    /\ UNCHANGED <<control, sending, registry, conn, peer, canceled, wpump, data>>

HandlePumps(c) ==
    /\ handle[c] = "registered"
    /\ handle' = [handle EXCEPT ![c] = "running"]
    /\ rpump' = [rpump EXCEPT ![c] = "run"]
    /\ wpump' = [wpump EXCEPT ![c] = "run"]
    /\ UNCHANGED <<control, sending, registry, conn, peer, canceled, data>>

\* Mutant: the connection is not removed from the registry.
ReadPumpReturn_KeepEntry(c) ==
    /\ rpump' = [rpump EXCEPT ![c] = "dead"]
    /\ canceled' = [canceled EXCEPT ![c] = TRUE]
    /\ conn' = [conn EXCEPT ![c] = FALSE]
    /\ UNCHANGED <<control, sending, registry, handle, peer, wpump, data>>

\* Mutant: the socket is not closed.
ReadPumpReturn_KeepOpen(c) ==
    /\ rpump' = [rpump EXCEPT ![c] = "dead"]
    /\ canceled' = [canceled EXCEPT ![c] = TRUE]
    /\ registry' = registry \ {c}
    /\ UNCHANGED <<control, sending, handle, conn, peer, wpump, data>>

\* The deferred calls of readPump.
ReadPumpReturn(c) ==
    /\ rpump' = [rpump EXCEPT ![c] = "dead"]
    /\ canceled' = [canceled EXCEPT ![c] = TRUE]
    /\ conn' = [conn EXCEPT ![c] = FALSE]
    /\ registry' = registry \ {c}
    /\ UNCHANGED <<control, sending, handle, peer, wpump, data>>

\* The context is cancelled, or the read fails: either side closed the socket.
ReadPumpFails(c) ==
    /\ rpump[c] = "run"
    /\ canceled[c] \/ ~conn[c] \/ peer[c] = "closed"
    /\ ReadPumpReturn(c)

\* A length prefix that is zero or above tcpMaxFrameSize.
ReadPumpBadLength(c) ==
    /\ rpump[c] = "run" /\ conn[c] /\ peer[c] = "open"
    /\ ReadPumpReturn(c)

\* writePump: ctx.Done() is ready.  Go's select may still prefer the queue.
WritePumpDone(c) ==
    /\ wpump[c] = "run" /\ writing[c] = 0 /\ canceled[c]
    /\ wpump' = [wpump EXCEPT ![c] = "dead"]
    /\ UNCHANGED <<control, sending, registry, handle, conn, peer, canceled, rpump, data>>

WritePumpTake(c) ==
    /\ wpump[c] = "run" /\ writing[c] = 0 /\ writeCh[c] # <<>>
    /\ writing' = [writing EXCEPT ![c] = Head(writeCh[c])]
    /\ writeCh' = [writeCh EXCEPT ![c] = Tail(@)]
    /\ UNCHANGED <<control, sending, conns, sock, got, queued>>

\* Mutant: a write that would block gives the frame up, and the pump goes on.
WritePumpWrote_GiveUp(c) ==
    /\ writing[c] # 0 /\ conn[c]
    /\ sock' = [sock EXCEPT ![c] =
                    IF Len(@) < SockCap THEN Append(@, writing[c]) ELSE @]
    /\ writing' = [writing EXCEPT ![c] = 0]
    /\ UNCHANGED <<control, sending, conns, writeCh, got, queued>>

\* conn.Write returns nil: the socket buffers took the frame, or the client is
\* gone and its reset has not arrived.  It blocks while the buffers are full.
WritePumpWrote(c) ==
    /\ writing[c] # 0 /\ conn[c]
    /\ \/ /\ peer[c] = "open" /\ Len(sock[c]) < SockCap
          /\ sock' = [sock EXCEPT ![c] = Append(@, writing[c])]
       \/ peer[c] = "closed" /\ UNCHANGED sock
    /\ writing' = [writing EXCEPT ![c] = 0]
    /\ UNCHANGED <<control, sending, conns, writeCh, got, queued>>

\* conn.Write fails: the pump returns; the read pump is left to clean up.
WritePumpFails(c) ==
    /\ writing[c] # 0
    /\ ~conn[c] \/ peer[c] = "closed"
    /\ writing' = [writing EXCEPT ![c] = 0]
    /\ wpump' = [wpump EXCEPT ![c] = "dead"]
    /\ UNCHANGED <<control, sending, registry, handle, conn, peer, canceled, rpump,
                   writeCh, sock, got, queued>>

WritePump(c) ==
    WritePumpDone(c) \/ WritePumpTake(c) \/ WritePumpWrote(c) \/ WritePumpFails(c)

\* TCPClient.readPump hands a frame to the client's handler.
ClientRead(c) ==
    /\ peer[c] = "open" /\ sock[c] # <<>>
    /\ got' = [got EXCEPT ![c] = Append(@, Head(sock[c]))]
    /\ sock' = [sock EXCEPT ![c] = Tail(@)]
    /\ UNCHANGED <<control, sending, conns, writeCh, writing, queued>>

\* The server's side was closed with data unread, and the reset discards what
\* the client has not read either.
SocketReset(c) ==
    /\ handle[c] # "none" /\ ~conn[c] /\ sock[c] # <<>>
    /\ sock' = [sock EXCEPT ![c] = <<>>]
    /\ UNCHANGED <<control, sending, conns, writeCh, writing, got, queued>>

ClientClose(c) ==
    /\ peer[c] = "open"
    /\ peer' = [peer EXCEPT ![c] = "closed"]
    /\ UNCHANGED <<control, sending, registry, handle, conn, canceled, rpump, wpump, data>>

-----------------------------------------------------------------------------
(* Broadcast and Send.  Neither looks at started.                           *)

Broadcast ==
    /\ bseq = 0 /\ seqCounter < MaxSeq
    /\ seqCounter' = seqCounter + 1
    /\ peers' = registry
    /\ bseq' = IF registry = {} THEN 0 ELSE seqCounter + 1
    /\ UNCHANGED <<control, lostCounter, msgSent, conns, data>>

Send(c) ==
    /\ bseq = 0 /\ seqCounter < MaxSeq /\ c \in registry
    /\ seqCounter' = seqCounter + 1
    /\ peers' = {c}
    /\ bseq' = seqCounter + 1
    /\ UNCHANGED <<control, lostCounter, msgSent, conns, data>>

\* Mutant: a full queue loses its oldest frame.
Offer_DropOldest(c) ==
    /\ c \in peers
    /\ writeCh' = [writeCh EXCEPT ![c] =
                      Append(IF Len(@) < ChanCap THEN @ ELSE Tail(@), bseq)]
    /\ queued' = [queued EXCEPT ![c] = Append(@, bseq)]
    /\ msgSent' = msgSent + 1
    /\ peers' = peers \ {c}
    /\ bseq' = IF peers = {c} THEN 0 ELSE bseq
    /\ UNCHANGED <<control, seqCounter, lostCounter, conns, writing, sock, got>>

\* Mutant: no default branch, so that a full queue blocks the caller.
Offer_Blocking(c) ==
    /\ c \in peers
    /\ Len(writeCh[c]) < ChanCap
    /\ writeCh' = [writeCh EXCEPT ![c] = Append(@, bseq)]
    /\ queued' = [queued EXCEPT ![c] = Append(@, bseq)]
    /\ msgSent' = msgSent + 1
    /\ peers' = peers \ {c}
    /\ bseq' = IF peers = {c} THEN 0 ELSE bseq
    /\ UNCHANGED <<control, seqCounter, lostCounter, conns, writing, sock, got>>

\* The select of Broadcast and Send: queue the frame if there is room, else drop
\* it.  After the last peer the call returns.
Offer(c) ==
    /\ c \in peers
    /\ \/ /\ Len(writeCh[c]) < ChanCap
          /\ writeCh' = [writeCh EXCEPT ![c] = Append(@, bseq)]
          /\ queued' = [queued EXCEPT ![c] = Append(@, bseq)]
          /\ msgSent' = msgSent + 1
          /\ UNCHANGED lostCounter
       \/ /\ Len(writeCh[c]) = ChanCap
          /\ lostCounter' = lostCounter + 1
          /\ UNCHANGED <<writeCh, queued, msgSent>>
    /\ peers' = peers \ {c}
    /\ bseq' = IF peers = {c} THEN 0 ELSE bseq
    /\ UNCHANGED <<control, seqCounter, conns, writing, sock, got>>

-----------------------------------------------------------------------------
Next ==
    \/ \E k \in Ctl : StartCheck(k) \/ StartSteps(k) \/ StopCheck(k) \/ StopSteps(k)
    \/ SamplerExit
    \/ \E i \in DOMAIN open : AcceptFails(i)
    \/ \E c \in Conns :
        \/ Dial(c) \/ Accept(c) \/ HandleRegister(c) \/ HandlePumps(c)
        \/ ReadPumpFails(c) \/ ReadPumpBadLength(c) \/ WritePump(c)
        \/ ClientRead(c) \/ SocketReset(c) \/ ClientClose(c) \/ Send(c) \/ Offer(c)
    \/ Broadcast

SafetySpec == Init /\ [][Next]_vars

\* Every goroutine of the server that can run does run, a call that was made goes
\* on, and clients read what arrives.  Nobody has to call Start, Stop, Broadcast
\* or Send, and no client has to dial, to close or to misbehave.
Fairness ==
    /\ WF_vars(\E k \in Ctl : StartSteps(k) \/ StopSteps(k))
    /\ WF_vars(SamplerExit)
    /\ WF_vars(\E i \in DOMAIN open : AcceptFails(i))
    /\ WF_vars(\E c \in Conns : Offer(c))
    /\ \A c \in Conns :
        /\ WF_vars(Accept(c) \/ HandleRegister(c) \/ HandlePumps(c))
        /\ WF_vars(ReadPumpFails(c))
        /\ WF_vars(WritePump(c))
        /\ WF_vars(ClientRead(c))

Spec == SafetySpec /\ Fairness

-----------------------------------------------------------------------------
(* Properties.                                                              *)

\* What a client has read is, in order and without a gap, the beginning of what
\* Broadcast and Send queued for it, and that is in sequence order: the pumps,
\* a full queue, a failed write and Stop cost a client only the end of its
\* stream, and what is dropped is dropped before it is queued.
StreamIsPrefix ==
    \A c \in Conns :
        /\ IsPrefix(got[c], queued[c])
        /\ \A i \in 1 .. Len(queued[c]) - 1 : queued[c][i] < queued[c][i + 1]

\* Frames counted as sent and not yet read by their client are in the queue, in
\* conn.Write or in the socket buffers as long as both ends are open: a running
\* connection loses nothing that RecordSend counted.
NothingVanishes ==
    \A c \in Conns :
        conn[c] /\ peer[c] = "open" =>
            Len(queued[c]) = Len(got[c]) + Len(sock[c]) + Len(writeCh[c])
                             + (IF writing[c] = 0 THEN 0 ELSE 1)

\* A frame that was queued reaches its client, unless the connection ends: the
\* write pump never stops on an open connection.
QueuedIsDelivered ==
    \A c \in Conns : \A n \in 1 .. MaxSeq :
        Len(queued[c]) >= n ~> Len(got[c]) >= n \/ peer[c] # "open" \/ ~conn[c]

\* Broadcast and Send return, whatever the clients do: a client that does not
\* read, or whose write pump is dead, never blocks them.
BroadcastReturns == bseq # 0 ~> bseq = 0

\* A connection whose client is gone leaves the registry, so that Broadcast
\* stops queueing for it.
DeadPeersLeave ==
    \A c \in Conns : c \in registry /\ peer[c] = "closed" ~> c \notin registry

Stopping == \E k \in Ctl : pc[k] \in {"closeDone", "closeListeners", "range",
                                      "metricsStop", "metricsWait"}

\* Stop returns: s.wg reaches zero and the sampler ends.
StopReturns == Stopping ~> ~Stopping

\* interface.go: "Stop gracefully shuts down the transport, closing all
\* connections."  Once Stop is called every connection ends up closed.
StopClosesAll == Stopping ~> \A c \in Conns : ~conn[c]

\* interface.go: "All methods are safe to call concurrently from multiple
\* goroutines"; server.go: "Recreate done channel in case Start is called after
\* Stop."  No sequence of Start and Stop panics.
NoPanic == ~panicked
=============================================================================
