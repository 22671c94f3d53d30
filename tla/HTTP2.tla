-------------------------------- MODULE HTTP2 --------------------------------
(***************************************************************************)
(* The HTTP/2 (h2c) streaming server and client (internal/http2).  Every   *)
(* client has a connection of its own, so a stream is a connection here    *)
(* too, and the handlers are those of HTTP/1.1 but for the transport below *)
(* them: net/http sends GOAWAY at Shutdown, and cancels the context of a   *)
(* request when the client resets its stream.                              *)
(***************************************************************************)
EXTENDS Session

Here == Of("http2")

-----------------------------------------------------------------------------
(* The server.                                                              *)

Start ==
    /\ ~srv.started /\ srv.stop = "no"
    /\ srv' = [srv EXCEPT !.started = TRUE]

\* The goroutine of ListenAndServe; after Shutdown it returns ErrServerClosed.
ListenAndServe ==
    /\ Here
    /\ srv.started /\ ~srv.listening /\ srv.stop \in {"no", "begun"}
    /\ srv' = [srv EXCEPT !.listening = TRUE]
    /\ UNCHANGED <<entries, ses, cli, got, pub, bench>>

\* Stop cancels every stream of the table, then Shutdown closes the listener
\* and waits for the handlers, for five seconds at most.  A stream stored after
\* the range over the table is not cancelled, whenever its request came in.
Stop ==
    /\ Here
    /\ \/ /\ srv.started /\ srv.stop = "begun"
          /\ srv' = [srv EXCEPT !.stop = "draining", !.listening = FALSE]
          /\ ses' = Cancelled(Registered)
       \/ /\ srv.stop = "draining"
          /\ srv' = [srv EXCEPT !.started = FALSE, !.stop =
                         IF Running = {} THEN "returned" ELSE "timeout"]
          /\ UNCHANGED ses
    /\ UNCHANGED <<entries, cli, got, pub, bench>>

\* The handler: it stores the stream and then counts it, serves it until the
\* context is cancelled or a write fails, and takes it out of the table and then
\* out of the count.
\* The context is cancelled by Stop, and by net/http when the client is gone.
\* select prefers neither the context nor the queue when both are ready.
handleStream(s) ==
    /\ Here
    /\ \/ /\ At(s, "begun")
          /\ Store(s[1], s)
          /\ ses' = [ses EXCEPT ![s].at = "stored", ![s].since = pub.calls]
          /\ UNCHANGED srv
       \/ /\ At(s, "stored")
          /\ srv' = [srv EXCEPT !.conns = @ + 1]
          /\ ses' = [ses EXCEPT ![s].at = "serving"]
          /\ UNCHANGED entries
       \/ /\ At(s, "serving") /\ (Take(s) \/ Written(s))
          /\ UNCHANGED <<entries, srv>>
       \/ /\ At(s, "serving")
          /\ \/ ses[s].hand = <<>> /\ (ses[s].ctx \/ PeerGone(s))
             \/ WriteError(s)
          /\ Delete(s[1])
          /\ ses' = [ses EXCEPT ![s].at = "leaving", ![s].ctx = TRUE]
          /\ UNCHANGED srv
       \/ /\ At(s, "leaving")
          /\ srv' = [srv EXCEPT !.conns = @ - 1] /\ Gone(s)
          /\ UNCHANGED entries
    /\ UNCHANGED <<cli, got, pub, bench>>

\* Only the fan-out of a started server takes a sequence number.  Every queue
\* is offered the frame in one step: no goroutine looks at two queues.
Broadcast ==
    /\ Here
    /\ srv.started /\ Publishing
    /\ pub' = [pub EXCEPT !.seq = @ + 1, !.calls = @ + 1]
    /\ Offer(Registered, Frame(pub.seq + 1))
    /\ UNCHANGED <<srv, entries, cli, got, bench>>

\* Send queues the caller's bytes as they are, whether started or not.
Send(k) ==
    /\ Here
    /\ k \in DOMAIN entries /\ Sending
    /\ pub' = [pub EXCEPT !.sends = @ + 1]
    /\ Offer({entries[k]}, Bytes(0))
    /\ UNCHANGED <<srv, entries, cli, got, bench>>

Connections == srv.conns

-----------------------------------------------------------------------------
(* The client.                                                              *)

\* Registration is answered by handleRegister, with an ID nobody else has.
handleRegister == srv.listening

Connect(c) ==
    /\ cli[c].pc = "idle" /\ handleRegister
    /\ cli' = [cli EXCEPT ![c].pc = "opening"]

readStream(c) ==
    /\ Here
    /\ \/ /\ cli[c].pc = "opening" /\ srv.listening /\ ~cli[c].ctx
          /\ cli' = [cli EXCEPT ![c].pc = "reading", ![c].n = 1, ![c].conn = 1]
          /\ ses' = Open(c, 1)
          /\ UNCHANGED got
       \/ /\ cli[c].pc = "opening" /\ (cli[c].ctx \/ ~srv.listening)
          /\ cli' = [cli EXCEPT ![c].pc = "ended"]
          /\ UNCHANGED <<ses, got>>
       \/ ReadOne(c) /\ UNCHANGED cli
       \/ /\ cli[c].pc = "reading" /\ (cli[c].ctx \/ AtEOF(c))
          /\ cli' = [cli EXCEPT ![c].pc = "ended"]
          /\ ses' = Hangup(Mine(c))
          /\ UNCHANGED got
    /\ UNCHANGED <<srv, entries, pub, bench>>

\* Close also drops the idle connections of the client: there are none while
\* its stream is open.
Close(c) ==
    /\ cli[c].pc \in {"opening", "reading"} /\ ~cli[c].ctx
    /\ cli' = [cli EXCEPT ![c].ctx = TRUE]

-----------------------------------------------------------------------------
(* The callers: the bench transport, and the programs of cmd/.              *)

\* Mutant: one client too few.
waitForFewerConns ==
    /\ bench = "connecting" /\ \A c \in Client : cli[c].pc # "idle"
    /\ bench' = IF Connections + 1 >= Cardinality(Client) THEN "ready" ELSE "failed"

\* Ready once every client is counted; the wait may also end, after ten
\* seconds, before that.
waitForConns ==
    /\ bench = "connecting" /\ \A c \in Client : cli[c].pc # "idle"
    /\ bench' = IF Connections >= Cardinality(Client) THEN "ready" ELSE "failed"

BenchStart ==
    /\ Here
    /\ \/ /\ bench = "new" /\ Start /\ bench' = "connecting"
          /\ UNCHANGED cli
       \/ /\ bench = "connecting" /\ \E c \in Client : Connect(c)
          /\ UNCHANGED <<srv, bench>>
       \/ /\ bench = "connecting" /\ \E c \in Client : cli[c].pc = "idle"
          /\ ~handleRegister /\ bench' = "failed"
          /\ UNCHANGED <<srv, cli>>
       \/ waitForConns /\ UNCHANGED <<srv, cli>>
    /\ UNCHANGED <<entries, ses, got, pub>>

BenchStop ==
    /\ Here
    /\ bench = "ready" /\ bench' = "stopped"
    /\ cli' = [c \in Client |-> [cli[c] EXCEPT !.ctx = TRUE]]
    /\ srv' = [srv EXCEPT !.stop = "begun"]
    /\ UNCHANGED <<entries, ses, got, pub>>

\* The server program starts, and stops on a signal.
ServerMain ==
    /\ Here
    /\ bench = "main" /\ srv.stop = "no"
    /\ \/ Start
       \/ srv.started /\ srv' = [srv EXCEPT !.stop = "begun"]
    /\ UNCHANGED <<entries, ses, cli, got, pub, bench>>

\* The client program connects, and closes on a signal.
ClientMain(c) ==
    /\ Here
    /\ bench = "main" /\ (Connect(c) \/ Close(c))
    /\ UNCHANGED <<srv, entries, ses, got, pub, bench>>

=============================================================================
