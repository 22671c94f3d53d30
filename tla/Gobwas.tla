------------------------------ MODULE Gobwas ------------------------------
(***************************************************************************)
(* The WebSocket server and client on gobwas/ws (internal/websocket/gobwas).*)
(* writePump and readPump of a session share the connection under a mutex. *)
(* Every frame that is read, data, ping or pong, renews the read deadline of*)
(* 60 s, at the server and at the client; each side pings every 30 s and   *)
(* answers the pings of the other from its read loop.                      *)
(***************************************************************************)
EXTENDS Session

Here == Of("gobwas")

-----------------------------------------------------------------------------
(* The server.                                                              *)

Start ==
    /\ ~srv.started /\ srv.stop = "no"
    /\ srv' = [srv EXCEPT !.started = TRUE]

ListenAndServe ==
    /\ Here
    /\ srv.started /\ ~srv.listening /\ srv.stop = "no"
    /\ srv' = [srv EXCEPT !.listening = TRUE]
    /\ UNCHANGED <<entries, ses, cli, got, pub, bench>>

\* Shutdown closes the listener.  It neither closes the upgraded connections
\* nor waits for them.
Stop ==
    /\ Here
    /\ srv.started /\ srv.stop = "begun"
    /\ srv' = [srv EXCEPT !.started = FALSE, !.listening = FALSE, !.stop = "returned"]
    /\ UNCHANGED <<entries, ses, cli, got, pub, bench>>

\* readPump returns when a read fails, because the peer closed or sends nothing
\* any more, and when it finds the context cancelled after a frame, which comes
\* at the latest with the next ping of the client or not before the deadline.
readPump(s) ==
    \/ PeerGone(s)
    \/ ses[s].peer = "silent"
    \/ ses[s].ctx

\* The upgraded connection enters the registry under a new ID; it leaves the
\* registry, and is closed, when readPump returns.
serveWS(s) ==
    /\ Here
    /\ \/ /\ At(s, "begun")
          /\ Store(s, s)
          /\ ses' = [ses EXCEPT ![s].at = "serving", ![s].pump = "running",
                                ![s].since = pub.calls]
       \/ /\ At(s, "serving") /\ readPump(s)
          /\ Delete(s) /\ Left(s)
    /\ UNCHANGED <<srv, cli, got, pub, bench>>

\* writePump ends with the context, or when the write of a message or of a ping
\* fails, which also cancels the context.
writePump(s) ==
    /\ Here
    /\ ses[s].pump = "running"
    /\ \/ Take(s)
       \/ Written(s)
       \/ (WriteError(s) \/ WriteTimeout(s)) /\ PumpEnds(s)
       \/ ses[s].hand = <<>> /\ (ses[s].ctx \/ PeerGone(s)) /\ PumpEnds(s)
    /\ UNCHANGED <<srv, entries, cli, got, pub, bench>>

\* A snapshot of the registry is offered the frame, without blocking.
Broadcast ==
    /\ Here
    /\ srv.started /\ Publishing
    /\ pub' = [pub EXCEPT !.seq = @ + 1, !.calls = @ + 1]
    /\ Offer(Registered, Frame(pub.seq + 1))
    /\ UNCHANGED <<srv, entries, cli, got, bench>>

Send(k) ==
    /\ Here
    /\ k \in DOMAIN entries /\ Sending
    /\ pub' = [pub EXCEPT !.sends = @ + 1]
    /\ Offer({entries[k]}, Bytes(0))
    /\ UNCHANGED <<srv, entries, cli, got, bench>>

Connections == Cardinality(DOMAIN entries)

-----------------------------------------------------------------------------
(* The client.                                                              *)

\* One attempt that finds the listener.
dial(c) ==
    /\ MayDial(c)
    /\ ses' = Open(c, cli[c].n + 1)
    /\ cli' = [cli EXCEPT ![c].pc = "upgrading", ![c].n = @ + 1]

Connect(c) == cli[c].pc = "idle" /\ dial(c)

\* ws.Dial hands over a reader only if bytes of the server came along with its
\* answer to the upgrade, and nil otherwise.
Dial(s) == IF ses[s].wire # <<>> THEN {"reading", "blind"} ELSE {"blind"}

\* An attempt succeeds, and its connection and reader become c.conn and c.br; or
\* it fails, and the next one begins.  It is given up when the context is
\* cancelled or all attempts fail.
dialWithRetry(c) ==
    LET s == <<c, cli[c].n>> IN
    \/ cli[c].pc = "dialing" /\ dial(c)
    \/ /\ cli[c].pc = "dialing" /\ (cli[c].ctx \/ ~srv.listening)
       /\ cli' = [cli EXCEPT ![c].pc = "ended"]
       /\ UNCHANGED ses
    \/ /\ cli[c].pc = "upgrading" /\ ses[s].peer = "open"
       /\ \E r \in Dial(s) : cli' = [cli EXCEPT ![c].pc = r, ![c].conn = cli[c].n]
       /\ UNCHANGED ses
    \/ /\ cli[c].pc = "upgrading" /\ (cli[c].ctx \/ ses[s].peer # "open" \/ ~ses[s].up)
       /\ cli' = [cli EXCEPT ![c].pc = "dialing"]
       /\ ses' = Hangup(s)

\* A read fails when the server closed or Close did.  The pings of the server
\* renew the deadline, whether the context of the client is cancelled or not.
readFails(c) ==
    /\ cli[c].pc = "reading"
    /\ AtEOF(c) \/ PeerGone(Mine(c))
    /\ cli' = [cli EXCEPT ![c].pc = IF cli[c].ctx THEN "ended" ELSE "dialing"]
    /\ UNCHANGED ses

\* ReadFrame on a nil reader panics.  That ends the process: of the bench run, or
\* of the one client of a program.
readNil(c) ==
    /\ cli[c].pc = "blind"
    /\ IF bench = "main"
       THEN /\ cli' = [cli EXCEPT ![c].pc = "crashed"]
            /\ ses' = Hangup(Mine(c))
            /\ UNCHANGED bench
       ELSE bench' = "crashed" /\ UNCHANGED <<cli, ses>>

\* The goroutine of the client.  A close frame, which makes it return without
\* another look at the context, comes only in answer to the one of Close.
ClientReadPump(c) ==
    /\ Here
    /\ \/ ReadOne(c) /\ UNCHANGED <<cli, bench>>
       \/ readFails(c) /\ UNCHANGED <<got, bench>>
       \/ readNil(c) /\ UNCHANGED got
       \/ dialWithRetry(c) /\ UNCHANGED <<got, bench>>
    /\ UNCHANGED <<srv, entries, pub>>

\* Close cancels the context and closes the connection that is c.conn by then.
Close(C) ==
    /\ cli' = [c \in Client |-> [cli[c] EXCEPT !.ctx = @ \/ c \in C]]
    /\ ses' = [s \in Session |-> IF s[1] \in C /\ s = Mine(s[1]) THEN Hangup(s)[s]
                                 ELSE ses[s]]

-----------------------------------------------------------------------------
(* The callers: the bench transport, and a program that embeds it.         *)

\* Ready once every client is connected and counted; the wait may also end,
\* after ten seconds, before that.
waitForConns ==
    /\ bench = "connecting" /\ \A c \in Client : cli[c].conn > 0
    /\ bench' = IF Connections >= Cardinality(Client) THEN "ready" ELSE "failed"

\* The clients connect one after the other, and Start fails with the first that
\* does not.
BenchStart ==
    /\ Here
    /\ \/ /\ bench = "new" /\ Start /\ bench' = "connecting"
          /\ UNCHANGED <<ses, cli>>
       \/ /\ bench = "connecting" /\ \E c \in Client : Connect(c)
          /\ \A c \in Client : cli[c].pc # "idle" => cli[c].conn > 0
          /\ UNCHANGED <<srv, bench>>
       \/ /\ bench = "connecting" /\ \E c \in Client : cli[c].pc = "ended" /\ cli[c].conn = 0
          /\ bench' = "failed"
          /\ UNCHANGED <<srv, ses, cli>>
       \/ waitForConns /\ UNCHANGED <<srv, ses, cli>>
    /\ UNCHANGED <<entries, got, pub>>

BenchStop ==
    /\ Here
    /\ bench = "ready" /\ bench' = "stopped"
    /\ Close(Client)
    /\ srv' = [srv EXCEPT !.stop = "begun"]
    /\ UNCHANGED <<entries, got, pub>>

\* The repository has no program of its own for this server: these two are the
\* calls of one that would embed it as cmd/websocket-server does its server.
ServerMain ==
    /\ Here
    /\ bench = "main" /\ srv.stop = "no"
    /\ \/ Start
       \/ srv.started /\ srv' = [srv EXCEPT !.stop = "begun"]
    /\ UNCHANGED <<entries, ses, cli, got, pub, bench>>

ClientMain(c) ==
    /\ Here
    /\ bench = "main"
    /\ Connect(c) \/ (cli[c].pc # "idle" /\ ~cli[c].ctx /\ Close({c}))
    /\ UNCHANGED <<srv, entries, got, pub, bench>>

=============================================================================
