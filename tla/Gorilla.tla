------------------------------ MODULE Gorilla ------------------------------
(***************************************************************************)
(* The WebSocket server and client on gorilla/websocket                    *)
(* (internal/websocket/gorilla).  A session has two goroutines at the server:*)
(* writePump, which drains the queue and pings every 30 s, and readPump, whose*)
(* read deadline of 60 s only the pongs renew.  The client pings as well, and*)
(* reconnects when its read fails.                                         *)
(***************************************************************************)
EXTENDS Session

Here == Of("gorilla")

-----------------------------------------------------------------------------
(* The server.                                                              *)

Start ==
    /\ ~srv.started /\ srv.stop = "no"
    /\ srv' = [srv EXCEPT !.started = TRUE]

ListenAndServe ==
    /\ Here
    /\ srv.started /\ ~srv.listening /\ srv.stop = "no"
    /\ srv' = [srv EXCEPT !.listening = TRUE]
    /\ UNCHANGED <<entries, ses, cli, got, pub, bench>>

\* Shutdown closes the listener.  It neither closes the upgraded connections
\* nor waits for them.
Stop ==
    /\ Here
    /\ srv.started /\ srv.stop = "begun"
    /\ srv' = [srv EXCEPT !.started = FALSE, !.listening = FALSE, !.stop = "returned"]
    /\ UNCHANGED <<entries, ses, cli, got, pub, bench>>

\* Mutant: no read deadline.
readPumpWithoutDeadline(s) == PeerGone(s) \/ ses[s].pump = "ended"

\* readPump returns when a read fails: the peer closed, or the deadline passed
\* because no pong came, from a peer that is silent or for want of a ping.  It
\* looks at the context only between two messages, which no client sends.
readPump(s) ==
    \/ PeerGone(s)
    \/ ses[s].peer = "silent"
    \/ ses[s].pump = "ended"

\* The upgraded connection enters the registry under a new ID; it leaves the
\* registry, and is closed, when readPump returns.
serveWS(s) ==
    /\ Here
    /\ \/ /\ At(s, "begun")
          /\ Store(s, s)
          /\ ses' = [ses EXCEPT ![s].at = "serving", ![s].pump = "running",
                                ![s].since = pub.calls]
       \/ /\ At(s, "serving") /\ readPump(s)
          /\ Delete(s) /\ Left(s)
    /\ UNCHANGED <<srv, cli, got, pub, bench>>

\* writePump ends with the context, or when the write of a message or of a ping
\* fails, which also cancels the context.
writePump(s) ==
    /\ Here
    /\ ses[s].pump = "running"
    /\ \/ Take(s)
       \/ Written(s)
       \/ (WriteError(s) \/ WriteTimeout(s)) /\ PumpEnds(s)
       \/ ses[s].hand = <<>> /\ (ses[s].ctx \/ PeerGone(s)) /\ PumpEnds(s)
    /\ UNCHANGED <<srv, entries, cli, got, pub, bench>>

\* A snapshot of the registry is offered the frame, without blocking.
Broadcast ==
    /\ Here
    /\ srv.started /\ Publishing
    /\ pub' = [pub EXCEPT !.seq = @ + 1, !.calls = @ + 1]
    /\ Offer(Registered, Frame(pub.seq + 1))
    /\ UNCHANGED <<srv, entries, cli, got, bench>>

Send(k) ==
    /\ Here
    /\ k \in DOMAIN entries /\ Sending
    /\ pub' = [pub EXCEPT !.sends = @ + 1]
    /\ Offer({entries[k]}, Bytes(0))
    /\ UNCHANGED <<srv, entries, cli, got, bench>>

Connections == Cardinality(DOMAIN entries)

-----------------------------------------------------------------------------
(* The client.                                                              *)

\* One attempt that finds the listener; the upgrade is answered before the
\* server enters the connection into its registry.
dial(c) == MayDial(c) /\ ses' = Open(c, cli[c].n + 1)

Connect(c) ==
    /\ cli[c].pc = "idle" /\ dial(c)
    /\ cli' = [cli EXCEPT ![c].pc = "reading", ![c].n = 1, ![c].conn = 1]

\* Reconnecting: a dial, and its connection becomes c.conn in a later step.  It
\* is given up when the context is cancelled or all attempts fail.
dialWithRetry(c) ==
    \/ /\ cli[c].pc = "dialing" /\ dial(c)
       /\ cli' = [cli EXCEPT ![c].pc = "dialed", ![c].n = @ + 1]
    \/ /\ cli[c].pc = "dialing" /\ (cli[c].ctx \/ ~srv.listening)
       /\ cli' = [cli EXCEPT ![c].pc = "ended"]
       /\ UNCHANGED ses
    \/ /\ cli[c].pc = "dialed"
       /\ cli' = [cli EXCEPT ![c].pc = "reading", ![c].conn = cli[c].n]
       /\ UNCHANGED ses

\* A read fails when the server closed or Close did, and when the deadline
\* passes: that is when the cancelled writePump of the client pings no more.
\* Nobody closes the connection then, and nobody answers on it.
readFails(c) ==
    /\ cli[c].pc = "reading"
    /\ AtEOF(c) \/ PeerGone(Mine(c)) \/ cli[c].ctx
    /\ cli' = [cli EXCEPT ![c].pc = IF cli[c].ctx THEN "ended" ELSE "dialing"]
    /\ ses' = [ses EXCEPT ![Mine(c)].peer = IF @ = "open" THEN "silent" ELSE @]

ClientReadPump(c) ==
    /\ Here
    /\ \/ ReadOne(c) /\ UNCHANGED cli
       \/ readFails(c) /\ UNCHANGED got
       \/ dialWithRetry(c) /\ UNCHANGED got
    /\ UNCHANGED <<srv, entries, pub, bench>>

\* Close cancels the context and closes the connection that is c.conn by then.
Close(C) ==
    /\ cli' = [c \in Client |-> [cli[c] EXCEPT !.ctx = @ \/ c \in C]]
    /\ ses' = [s \in Session |-> IF s[1] \in C /\ s = Mine(s[1]) THEN Hangup(s)[s]
                                 ELSE ses[s]]

-----------------------------------------------------------------------------
(* The callers: the bench transport, and the programs of cmd/.              *)

\* Ready once every client is counted; the wait may also end, after ten
\* seconds, before that.
waitForConns ==
    /\ bench = "connecting" /\ \A c \in Client : cli[c].pc # "idle"
    /\ bench' = IF Connections >= Cardinality(Client) THEN "ready" ELSE "failed"

BenchStart ==
    /\ Here
    /\ \/ /\ bench = "new" /\ Start /\ bench' = "connecting"
          /\ UNCHANGED <<ses, cli>>
       \/ /\ bench = "connecting" /\ \E c \in Client : Connect(c)
          /\ UNCHANGED <<srv, bench>>
       \/ waitForConns /\ UNCHANGED <<srv, ses, cli>>
    /\ UNCHANGED <<entries, got, pub>>

\* Mutant: the clients are left to the server.
BenchStopServer ==
    /\ Here
    /\ bench = "ready" /\ bench' = "stopped"
    /\ srv' = [srv EXCEPT !.stop = "begun"]
    /\ UNCHANGED <<entries, ses, cli, got, pub>>

BenchStop ==
    /\ Here
    /\ bench = "ready" /\ bench' = "stopped"
    /\ Close(Client)
    /\ srv' = [srv EXCEPT !.stop = "begun"]
    /\ UNCHANGED <<entries, got, pub>>

\* The server program starts, and stops on a signal.
ServerMain ==
    /\ Here
    /\ bench = "main" /\ srv.stop = "no"
    /\ \/ Start
       \/ srv.started /\ srv' = [srv EXCEPT !.stop = "begun"]
    /\ UNCHANGED <<entries, ses, cli, got, pub, bench>>

\* The client program connects, and closes on a signal.
ClientMain(c) ==
    /\ Here
    /\ bench = "main"
    /\ Connect(c) \/ (cli[c].pc # "idle" /\ ~cli[c].ctx /\ Close({c}))
    /\ UNCHANGED <<srv, entries, got, pub, bench>>

=============================================================================
