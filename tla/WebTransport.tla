---------------------------- MODULE WebTransport ----------------------------
(***************************************************************************)
(* The WebTransport server and client (internal/webtransport).  There are  *)
(* no queues: Broadcast itself goes from session to session, and in each   *)
(* opens a stream, which waits while the client has too many unread ones,  *)
(* or sends a datagram.  At the client a goroutine of its own reads every  *)
(* stream, so wire holds streams here and any of them may be read next.    *)
(* Session IDs and frames are numbered by one counter.                     *)
(***************************************************************************)
EXTENDS Session

Here == Of("webtransport")

Modes == {"unidirstream", "bidistream", "datagram"}

\* Mutant: no idle timeout.
SessionClosed(s) == ses[s].peer = "closed" \/ ~ses[s].up

\* QUIC ends a session whose connection is closed, or silent for too long.
SessionOver(s) == ses[s].peer # "open" \/ ~ses[s].up

-----------------------------------------------------------------------------
(* The server.                                                              *)

Start ==
    /\ ~srv.started
    /\ srv' = [srv EXCEPT !.started = TRUE]

ListenAndServe ==
    /\ Here
    /\ srv.started /\ ~srv.listening /\ srv.stop = "no"
    /\ srv' = [srv EXCEPT !.listening = TRUE]
    /\ UNCHANGED <<entries, ses, cli, got, pub, bench>>

\* Stop closes the listener and every connection at once.
Stop ==
    /\ Here
    /\ srv.stop = "begun"
    /\ srv' = [srv EXCEPT !.listening = FALSE, !.stop = "returned"]
    /\ ses' = [s \in Session |-> [ses[s] EXCEPT !.up = FALSE]]
    /\ UNCHANGED <<entries, cli, got, pub, bench>>

\* The session enters the table under a new number, and leaves it when a receive,
\* an accept or the context reports that it is over.  No client sends anything.
handleSession(s) ==
    /\ Here
    /\ \/ /\ At(s, "begun")
          /\ pub' = [pub EXCEPT !.seq = @ + 1]
          /\ Store(s, s)
          /\ ses' = [ses EXCEPT ![s].at = "serving", ![s].since = pub.calls]
       \/ /\ At(s, "serving") /\ SessionOver(s)
          /\ Delete(s) /\ Gone(s)
          /\ UNCHANGED pub
    /\ UNCHANGED <<srv, cli, got, bench>>

Begin ==
    /\ Publishing /\ pub.now = 0
    /\ pub' = [pub EXCEPT !.seq = @ + 1, !.calls = @ + 1, !.now = pub.seq + 1,
                          !.todo = Registered]
    /\ UNCHANGED ses

\* The turn of session s, under its lock.  A stream is opened once the client
\* admits it; a datagram may be lost; an error counts as lost.
Transmit(s) ==
    /\ s \in pub.todo
    /\ \/ /\ ~SessionOver(s) /\ Len(ses[s].wire) < Wire
          /\ ses' = [ses EXCEPT ![s].wire = Append(@, Frame(pub.now))]
          /\ pub' = [pub EXCEPT !.todo = @ \ {s}]
       \/ /\ ~SessionOver(s) /\ srv.mode = "datagram"
          /\ ses' = [ses EXCEPT ![s].dropped = @ + 1]
          /\ pub' = [pub EXCEPT !.todo = @ \ {s}]
       \/ /\ SessionOver(s)
          /\ pub' = [pub EXCEPT !.todo = @ \ {s}, !.lost = @ + 1]
          /\ UNCHANGED ses

Return ==
    /\ pub.now > 0 /\ pub.todo = {}
    /\ pub' = [pub EXCEPT !.now = 0]
    /\ UNCHANGED ses

\* One Broadcast at a time; what it does is numbered before it is known whether
\* anybody gets it, and whether the server is started is not looked at.
Broadcast ==
    /\ Here
    /\ Begin \/ (\E s \in Session : Transmit(s)) \/ Return
    /\ UNCHANGED <<srv, entries, cli, got, bench>>

\* The caller's bytes, on a stream of their own in every mode but datagrams.
Send(k) ==
    /\ Here
    /\ k \in DOMAIN entries /\ Sending /\ ~SessionOver(k)
    /\ Len(ses[k].wire) < Wire
    /\ pub' = [pub EXCEPT !.sends = @ + 1]
    /\ ses' = [ses EXCEPT ![k].wire = Append(@, Bytes(0))]
    /\ UNCHANGED <<srv, entries, cli, got, bench>>

Connections == Cardinality(DOMAIN entries)

-----------------------------------------------------------------------------
(* The client.                                                              *)

Connect(c) ==
    /\ cli[c].pc = "idle" /\ MayDial(c)
    /\ cli' = [cli EXCEPT ![c].pc = "reading", ![c].n = 1, ![c].conn = 1]
    /\ ses' = Open(c, 1)

\* The loop that accepts streams, or receives datagrams, until the session ends.
receiveLoop(c) ==
    /\ Here
    /\ cli[c].pc = "reading" /\ (cli[c].ctx \/ SessionOver(Mine(c)))
    /\ cli' = [cli EXCEPT ![c].pc = "ended"]
    /\ UNCHANGED <<srv, entries, ses, got, pub, bench>>

Without(seq, i) == SubSeq(seq, 1, i - 1) \o SubSeq(seq, i + 1, Len(seq))

\* Stream i of session s is read to its end and processed.  The server closes a
\* stream that it has written, but not one of mode bidistream: that ends with
\* the session, and what was received of it is processed then.  A session that
\* is over may also end a stream before anything of it was received.  Datagrams
\* are processed by receiveLoop itself.
readStream(s) ==
    /\ Here
    /\ \E i \in DOMAIN ses[s].wire :
        LET m == ses[s].wire[i] IN
        \/ /\ srv.mode = "bidistream" => SessionOver(s)
           /\ srv.mode = "datagram" => cli[s[1]].pc = "reading"
           /\ ses[s].peer # "silent"
           /\ got' = IF m.frame THEN [got EXCEPT ![s[1]] = Append(@, m.id)] ELSE got
           /\ ses' = [ses EXCEPT ![s].wire = Without(@, i),
                                 ![s].read = @ + IF m.frame /\ At(s, "serving") THEN 1 ELSE 0]
        \/ /\ SessionOver(s)
           /\ ses' = [ses EXCEPT ![s].wire = Without(@, i)]
           /\ UNCHANGED got
    /\ UNCHANGED <<srv, entries, cli, pub, bench>>

\* Close ends the session and waits for receiveLoop, not for the streams.
Close(C) ==
    /\ cli' = [c \in Client |-> [cli[c] EXCEPT !.ctx = @ \/ c \in C]]
    /\ ses' = [s \in Session |-> [ses[s] EXCEPT !.peer = IF s[1] \in C /\ @ # "none"
                                                         THEN "closed" ELSE @]]

-----------------------------------------------------------------------------
(* The callers: the bench transport, and the programs of cmd/.              *)

\* Ready once every client is counted; the wait may also end, after fifteen
\* seconds, before that.
waitForConns ==
    /\ bench = "connecting" /\ \A c \in Client : cli[c].pc # "idle"
    /\ bench' = IF Connections >= Cardinality(Client) THEN "ready" ELSE "failed"

BenchStart ==
    /\ Here
    /\ \/ /\ bench = "new" /\ Start /\ bench' = "connecting"
          /\ UNCHANGED <<ses, cli>>
       \/ /\ bench = "connecting" /\ \E c \in Client : Connect(c)
          /\ UNCHANGED <<srv, bench>>
       \/ waitForConns /\ UNCHANGED <<srv, ses, cli>>
    /\ UNCHANGED <<entries, got, pub>>

BenchStop ==
    /\ Here
    /\ \/ /\ bench = "ready" /\ bench' = "closing"
          /\ Close(Client) /\ UNCHANGED srv
       \/ /\ bench = "closing" /\ \A c \in Client : cli[c].pc = "ended"
          /\ bench' = "stopped" /\ srv' = [srv EXCEPT !.stop = "begun"]
          /\ UNCHANGED <<ses, cli>>
    /\ UNCHANGED <<entries, got, pub>>

\* The server program starts, and stops on a signal.
ServerMain ==
    /\ Here
    /\ bench = "main" /\ srv.stop = "no"
    /\ \/ Start
       \/ srv.started /\ srv' = [srv EXCEPT !.stop = "begun"]
    /\ UNCHANGED <<entries, ses, cli, got, pub, bench>>

\* The client program connects, and closes on a signal.
ClientMain(c) ==
    /\ Here
    /\ bench = "main"
    /\ Connect(c) \/ (cli[c].pc # "idle" /\ ~cli[c].ctx /\ Close({c}))
    /\ UNCHANGED <<srv, entries, got, pub, bench>>

=============================================================================
