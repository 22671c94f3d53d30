-------------------------------- MODULE HTTP3 --------------------------------
(***************************************************************************)
(* The HTTP/3 streaming server and client (internal/http3).  A client      *)
(* opens its stream again, under the same ID, whenever it ends; the server *)
(* keeps one entry per ID, which a later stream overwrites and the end of  *)
(* any stream of that ID deletes.                                          *)
(***************************************************************************)
EXTENDS Session

Here == Of("http3")

\* The modes of the server.  No code enters a connection into quicConns, which
\* the two other modes send to.
Modes == {"stream", "datagram", "unidirstream"}
quicConns == {}

-----------------------------------------------------------------------------
(* The server.                                                              *)

Start ==
    /\ ~srv.started /\ srv.stop = "no"
    /\ srv' = [srv EXCEPT !.started = TRUE]

ListenAndServe ==
    /\ Here
    /\ srv.started /\ ~srv.listening /\ srv.stop \in {"no", "begun"}
    /\ srv' = [srv EXCEPT !.listening = TRUE]
    /\ UNCHANGED <<entries, ses, cli, got, pub, bench>>

\* Stop closes done, shuts down and waits five seconds at most, then cancels
\* what is in the table, and waits for the goroutine of ListenAndServe, which
\* has returned with the listener.
Stop ==
    /\ Here
    /\ \/ /\ srv.started /\ srv.stop = "begun"
          /\ srv' = [srv EXCEPT !.stop = "draining", !.done = TRUE, !.listening = FALSE]
          /\ UNCHANGED ses
       \/ /\ srv.stop = "draining"
          /\ srv' = [srv EXCEPT !.started = FALSE, !.stop =
                         IF Running = {} THEN "returned" ELSE "timeout"]
          /\ ses' = Cancelled(Registered)
    /\ UNCHANGED <<entries, cli, got, pub, bench>>

\* The handler leaves on its context, on done, or when a write fails, and then
\* deletes the entry of its ID whichever stream that is of.
handleStream(s) ==
    /\ Here
    /\ \/ /\ At(s, "begun")
          /\ Store(s[1], s)
          /\ ses' = [ses EXCEPT ![s].at = "serving", ![s].since = pub.calls]
       \/ /\ At(s, "serving") /\ (Take(s) \/ Written(s))
          /\ UNCHANGED entries
       \/ /\ At(s, "serving")
          /\ \/ ses[s].hand = <<>> /\ (ses[s].ctx \/ PeerGone(s) \/ srv.done)
             \/ WriteError(s)
          /\ Delete(s[1]) /\ Gone(s)
    /\ UNCHANGED <<srv, cli, got, pub, bench>>

\* Broadcast takes a sequence number whether the server is started or not.
Broadcast ==
    LET S == IF srv.mode = "stream" THEN Registered ELSE quicConns IN
    /\ Here /\ Publishing
    /\ pub' = [pub EXCEPT !.seq = @ + 1, !.calls = @ + 1,
                          !.lost = @ + Cardinality(Full(S))]
    /\ Offer(S, Frame(pub.seq + 1))
    /\ UNCHANGED <<srv, entries, cli, got, bench>>

\* Send takes a sequence number even when it does not find the client.
Send(k) ==
    LET S == {entries[j] : j \in DOMAIN entries \cap {k}} IN
    /\ Here /\ Sending
    /\ pub' = [pub EXCEPT !.seq = @ + 1, !.sends = @ + 1,
                          !.lost = @ + Cardinality(Full(S))]
    /\ Offer(S, Frame(pub.seq + 1))
    /\ UNCHANGED <<srv, entries, cli, got, bench>>

Connections == Cardinality(DOMAIN entries) + Cardinality(quicConns)

-----------------------------------------------------------------------------
(* The client.                                                              *)

ClientStart(c) ==
    /\ cli[c].pc = "idle"
    /\ cli' = [cli EXCEPT ![c].pc = "dialing"]

\* One attempt after the other, until the context is cancelled; an attempt that
\* finds no listener changes nothing but the backoff.
connectLoop(c) ==
    /\ cli[c].pc = "dialing"
    /\ \/ /\ cli[c].ctx
          /\ cli' = [cli EXCEPT ![c].pc = "ended"]
          /\ UNCHANGED ses
       \/ /\ MayDial(c)
          /\ cli' = [cli EXCEPT ![c].pc = "reading", ![c].n = @ + 1, ![c].conn = @ + 1]
          /\ ses' = Open(c, cli[c].n + 1)
    /\ UNCHANGED got

\* Mutant: the end of a stream is the end of the client.
readLoopOnce(c) ==
    \/ ReadOne(c) /\ UNCHANGED cli
    \/ /\ cli[c].pc = "reading" /\ (cli[c].ctx \/ AtEOF(c))
       /\ cli' = [cli EXCEPT ![c].pc = "ended"]
       /\ ses' = Hangup(Mine(c))
       /\ UNCHANGED got

\* Frames are read until the stream fails or the context is cancelled.
readLoop(c) ==
    \/ ReadOne(c) /\ UNCHANGED cli
    \/ /\ cli[c].pc = "reading" /\ (cli[c].ctx \/ AtEOF(c))
       /\ cli' = [cli EXCEPT ![c].pc = "dialing"]
       /\ ses' = Hangup(Mine(c))
       /\ UNCHANGED got

connect(c) ==
    /\ Here
    /\ connectLoop(c) \/ readLoop(c)
    /\ UNCHANGED <<srv, entries, pub, bench>>

\* Stop cancels the context, and returns when connectLoop has.
ClientStop(c) ==
    /\ cli[c].pc # "idle" /\ ~cli[c].ctx
    /\ cli' = [cli EXCEPT ![c].ctx = TRUE]

-----------------------------------------------------------------------------
(* The callers: the bench transport, and the programs of cmd/.              *)

\* Ready once every client is counted; the wait may also end, after fifteen
\* seconds, before that.
waitForConns ==
    /\ bench = "connecting" /\ \A c \in Client : cli[c].pc # "idle"
    /\ bench' = IF Connections >= Cardinality(Client) THEN "ready" ELSE "failed"

BenchStart ==
    /\ Here
    /\ \/ /\ bench = "new" /\ Start /\ bench' = "connecting"
          /\ UNCHANGED cli
       \/ /\ bench = "connecting" /\ \E c \in Client : ClientStart(c)
          /\ UNCHANGED <<srv, bench>>
       \/ waitForConns /\ UNCHANGED <<srv, cli>>
    /\ UNCHANGED <<entries, ses, got, pub>>

\* The clients are stopped one after the other, then the server.
BenchStop ==
    /\ Here
    /\ bench \in {"ready", "closing"}
    /\ \A c \in Client : cli[c].ctx => cli[c].pc = "ended"
    /\ \/ /\ \E c \in Client : ClientStop(c)
          /\ bench' = "closing" /\ UNCHANGED srv
       \/ /\ \A c \in Client : cli[c].ctx
          /\ bench' = "stopped" /\ srv' = [srv EXCEPT !.stop = "begun"]
          /\ UNCHANGED cli
    /\ UNCHANGED <<entries, ses, got, pub>>

\* The server program starts, and stops on a signal.
ServerMain ==
    /\ Here
    /\ bench = "main" /\ srv.stop = "no"
    /\ \/ Start
       \/ srv.started /\ srv' = [srv EXCEPT !.stop = "begun"]
    /\ UNCHANGED <<entries, ses, cli, got, pub, bench>>

\* The client program starts its client, and stops it on a signal.
ClientMain(c) ==
    /\ Here
    /\ bench = "main" /\ (ClientStart(c) \/ ClientStop(c))
    /\ UNCHANGED <<srv, entries, ses, got, pub, bench>>

=============================================================================
