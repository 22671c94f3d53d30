------------------------------ MODULE Coder ------------------------------
(***************************************************************************)
(* The WebSocket server and client on coder/websocket                      *)
(* (internal/websocket/coder).  Reads and writes take a context: a read fails,*)
(* and closes the connection, when it is cancelled or when no data message *)
(* arrives within 60 s.  Pings and pongs are no data messages.             *)
(***************************************************************************)
EXTENDS Session

Here == Of("coder")

-----------------------------------------------------------------------------
(* The server.                                                              *)

Start ==
    /\ ~srv.started /\ srv.stop = "no"
    /\ srv' = [srv EXCEPT !.started = TRUE]

ListenAndServe ==
    /\ Here
    /\ srv.started /\ ~srv.listening /\ srv.stop = "no"
    /\ srv' = [srv EXCEPT !.listening = TRUE]
    /\ UNCHANGED <<entries, ses, cli, got, pub, bench>>

\* Shutdown closes the listener.  It neither closes the upgraded connections
\* nor waits for them.
Stop ==
    /\ Here
    /\ srv.started /\ srv.stop = "begun"
    /\ srv' = [srv EXCEPT !.started = FALSE, !.listening = FALSE, !.stop = "returned"]
    /\ UNCHANGED <<entries, ses, cli, got, pub, bench>>

\* readPump returns when a read fails: the peer closed, the context is cancelled,
\* or 60 s passed without a data message.  No client of the lab sends one, so
\* this comes to every session, however responsive its client is; MaxCuts bounds
\* how often it comes to one that is.
readPump(s) ==
    \/ (PeerGone(s) \/ ses[s].peer = "silent" \/ ses[s].ctx) /\ Left(s)
    \/ /\ CutsLeft
       /\ ses' = [ses EXCEPT ![s].at = "gone", ![s].ctx = TRUE, ![s].up = FALSE,
                             ![s].read = 0, ![s].dropped = 0, ![s].cut = TRUE]

\* The upgraded connection enters the registry under a new ID; it leaves the
\* registry, and is closed, when readPump returns.
serveWS(s) ==
    /\ Here
    /\ \/ /\ At(s, "begun")
          /\ Store(s, s)
          /\ ses' = [ses EXCEPT ![s].at = "serving", ![s].pump = "running",
                                ![s].since = pub.calls]
       \/ /\ At(s, "serving") /\ readPump(s)
          /\ Delete(s)
    /\ UNCHANGED <<srv, cli, got, pub, bench>>

\* writePump ends with the context, or when the write of a message fails or a
\* ping is not answered, which also cancels the context.
writePump(s) ==
    /\ Here
    /\ ses[s].pump = "running"
    /\ \/ Take(s)
       \/ Written(s)
       \/ (WriteError(s) \/ WriteTimeout(s)) /\ PumpEnds(s)
       \/ ses[s].ctx /\ PumpEnds(s)
       \/ ses[s].hand = <<>> /\ ses[s].peer # "open" /\ PumpEnds(s)
    /\ UNCHANGED <<srv, entries, cli, got, pub, bench>>

\* A snapshot of the registry is offered the frame, without blocking.
Broadcast ==
    /\ Here
    /\ srv.started /\ Publishing
    /\ pub' = [pub EXCEPT !.seq = @ + 1, !.calls = @ + 1]
    /\ Offer(Registered, Frame(pub.seq + 1))
    /\ UNCHANGED <<srv, entries, cli, got, bench>>

Send(k) ==
    /\ Here
    /\ k \in DOMAIN entries /\ Sending
    /\ pub' = [pub EXCEPT !.sends = @ + 1]
    /\ Offer({entries[k]}, Bytes(0))
    /\ UNCHANGED <<srv, entries, cli, got, bench>>

Connections == Cardinality(DOMAIN entries)

-----------------------------------------------------------------------------
(* The client.                                                              *)

\* One attempt that finds the listener; the upgrade is answered before the
\* server enters the connection into its registry.
dial(c) == MayDial(c) /\ ses' = Open(c, cli[c].n + 1)

Connect(c) ==
    /\ cli[c].pc = "idle" /\ dial(c)
    /\ cli' = [cli EXCEPT ![c].pc = "reading", ![c].n = 1, ![c].conn = 1]

\* Reconnecting: a dial, and its connection becomes c.conn in a later step.  It
\* is given up when the context is cancelled or all attempts fail.
dialWithRetry(c) ==
    \/ /\ cli[c].pc = "dialing" /\ dial(c)
       /\ cli' = [cli EXCEPT ![c].pc = "dialed", ![c].n = @ + 1]
    \/ /\ cli[c].pc = "dialing" /\ (cli[c].ctx \/ ~srv.listening)
       /\ cli' = [cli EXCEPT ![c].pc = "ended"]
       /\ UNCHANGED ses
    \/ /\ cli[c].pc = "dialed"
       /\ cli' = [cli EXCEPT ![c].pc = "reading", ![c].conn = cli[c].n]
       /\ UNCHANGED ses

\* A read fails when the server closed or Close did, when the context is
\* cancelled, and when 60 s pass without a message; the last two close the
\* connection.
readFails(c) ==
    /\ cli[c].pc = "reading"
    /\ \/ (AtEOF(c) \/ PeerGone(Mine(c)) \/ cli[c].ctx) /\ ses' = Hangup(Mine(c))
       \/ ses[Mine(c)].wire = <<>> /\ CutsLeft
          /\ ses' = [Hangup(Mine(c)) EXCEPT ![Mine(c)].cut = TRUE]
    /\ cli' = [cli EXCEPT ![c].pc = IF cli[c].ctx THEN "ended" ELSE "dialing"]

ClientReadPump(c) ==
    /\ Here
    /\ \/ ReadOne(c) /\ UNCHANGED cli
       \/ readFails(c) /\ UNCHANGED got
       \/ dialWithRetry(c) /\ UNCHANGED got
    /\ UNCHANGED <<srv, entries, pub, bench>>

\* Close cancels the context and closes the connection that is c.conn by then.
Close(C) ==
    /\ cli' = [c \in Client |-> [cli[c] EXCEPT !.ctx = @ \/ c \in C]]
    /\ ses' = [s \in Session |-> IF s[1] \in C /\ s = Mine(s[1]) THEN Hangup(s)[s]
                                 ELSE ses[s]]

-----------------------------------------------------------------------------
(* The caller: the bench transport.                                        *)

\* Ready once every client is counted; the wait may also end, after ten
\* seconds, before that.
waitForConns ==
    /\ bench = "connecting" /\ \A c \in Client : cli[c].pc # "idle"
    /\ bench' = IF Connections >= Cardinality(Client) THEN "ready" ELSE "failed"

BenchStart ==
    /\ Here
    /\ \/ /\ bench = "new" /\ Start /\ bench' = "connecting"
          /\ UNCHANGED <<ses, cli>>
       \/ /\ bench = "connecting" /\ \E c \in Client : Connect(c)
          /\ UNCHANGED <<srv, bench>>
       \/ waitForConns /\ UNCHANGED <<srv, ses, cli>>
    /\ UNCHANGED <<entries, got, pub>>

BenchStop ==
    /\ Here
    /\ bench = "ready" /\ bench' = "stopped"
    /\ Close(Client)
    /\ srv' = [srv EXCEPT !.stop = "begun"]
    /\ UNCHANGED <<entries, got, pub>>

=============================================================================
