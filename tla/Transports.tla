----------------------------- MODULE Transports -----------------------------
(***************************************************************************)
(* The ten protocols of Session.tla side by side: a behaviour is one of  *)
(* a server and clients of the protocol that proto names.  The properties  *)
(* are what the lab relies on whichever protocol it measures; where the    *)
(* code of one protocol promises less, the property says which and what.   *)
(***************************************************************************)
EXTENDS Session

H1 == INSTANCE HTTP1
H2 == INSTANCE HTTP2
H3 == INSTANCE HTTP3
E == INSTANCE SSE
G == INSTANCE Gorilla
W == INSTANCE Gobwas
N == INSTANCE Coder
T == INSTANCE WebTransport
U == INSTANCE UDP
R == INSTANCE WebRTC

\* The modes that a server can be configured with; three have a choice.
ModesOf(p) ==
    CASE p = "http3" -> H3!Modes
      [] p = "webtransport" -> T!Modes
      [] p = "webrtc" -> R!Modes
      [] OTHER -> {"stream"}

\* The repository has no program for the coder server.
Init ==
    /\ \E p \in DOMAIN Attempts : proto = p /\ SessionInit(ModesOf(p))
    /\ proto = "coder" => bench = "new"

Next ==
    \/ H1!ListenAndServe
    \/ H1!Stop
    \/ \E s \in Session : H1!handleStream(s)
    \/ H1!Broadcast
    \/ \E k \in Client : H1!Send(k)
    \/ \E c \in Client : H1!readStream(c)
    \/ H1!BenchStart
    \/ H1!BenchStop
    \/ H1!ServerMain
    \/ \E c \in Client : H1!ClientMain(c)
    \/ H2!ListenAndServe
    \/ H2!Stop
    \/ \E s \in Session : H2!handleStream(s)
    \/ H2!Broadcast
    \/ \E k \in Client : H2!Send(k)
    \/ \E c \in Client : H2!readStream(c)
    \/ H2!BenchStart
    \/ H2!BenchStop
    \/ H2!ServerMain
    \/ \E c \in Client : H2!ClientMain(c)
    \/ H3!ListenAndServe
    \/ H3!Stop
    \/ \E s \in Session : H3!handleStream(s)
    \/ H3!Broadcast
    \/ \E k \in Client : H3!Send(k)
    \/ \E c \in Client : H3!connect(c)
    \/ H3!BenchStart
    \/ H3!BenchStop
    \/ H3!ServerMain
    \/ \E c \in Client : H3!ClientMain(c)
    \/ E!Stop
    \/ \E s \in Session : E!handleEvents(s)
    \/ E!Broadcast
    \/ \E k \in Client : E!Send(k)
    \/ \E c \in Client : E!ReceiveLoop(c)
    \/ E!BenchStart
    \/ E!BenchStop
    \/ E!ServerMain
    \/ \E c \in Client : E!ClientMain(c)
    \/ G!ListenAndServe
    \/ G!Stop
    \/ \E s \in Session : G!serveWS(s)
    \/ \E s \in Session : G!writePump(s)
    \/ G!Broadcast
    \/ \E s \in Session : G!Send(s)
    \/ \E c \in Client : G!ClientReadPump(c)
    \/ G!BenchStart
    \/ G!BenchStop
    \/ G!ServerMain
    \/ \E c \in Client : G!ClientMain(c)
    \/ W!ListenAndServe
    \/ W!Stop
    \/ \E s \in Session : W!serveWS(s)
    \/ \E s \in Session : W!writePump(s)
    \/ W!Broadcast
    \/ \E s \in Session : W!Send(s)
    \/ \E c \in Client : W!ClientReadPump(c)
    \/ W!BenchStart
    \/ W!BenchStop
    \/ W!ServerMain
    \/ \E c \in Client : W!ClientMain(c)
    \/ N!ListenAndServe
    \/ N!Stop
    \/ \E s \in Session : N!serveWS(s)
    \/ \E s \in Session : N!writePump(s)
    \/ N!Broadcast
    \/ \E s \in Session : N!Send(s)
    \/ \E c \in Client : N!ClientReadPump(c)
    \/ N!BenchStart
    \/ N!BenchStop
    \/ T!ListenAndServe
    \/ T!Stop
    \/ \E s \in Session : T!handleSession(s)
    \/ T!Broadcast
    \/ \E s \in Session : T!Send(s)
    \/ \E c \in Client : T!receiveLoop(c)
    \/ \E s \in Session : T!readStream(s)
    \/ T!BenchStart
    \/ T!BenchStop
    \/ T!ServerMain
    \/ \E c \in Client : T!ClientMain(c)
    \/ U!Stop
    \/ \E s \in Session : U!receiveLoop(s)
    \/ \E s \in Session : U!Silence(s)
    \/ U!cleanupLoop
    \/ U!Broadcast
    \/ \E s \in Session : U!Send(s)
    \/ \E c \in Client : U!clientReceiveLoop(c)
    \/ \E c \in Client : U!heartbeatLoop(c)
    \/ U!BenchStart
    \/ U!BenchStop
    \/ U!ServerMain
    \/ \E c \in Client : U!ClientMain(c)
    \/ R!Stop
    \/ \E s \in Session : R!handleOffer(s)
    \/ \E s \in Session : R!OnConnectionStateChange(s)
    \/ R!Broadcast
    \/ \E s \in Session : R!Send(s)
    \/ \E c \in Client : R!OnDataChannel(c)
    \/ R!BenchStart
    \/ R!BenchStop
    \/ R!ServerMain
    \/ \E c \in Client : R!ClientMain(c)
    \/ \E s \in Session : NetworkCut(s)
    \/ \E s \in Session : PeerVanishes(s)

Spec == Init /\ [][Next]_vars

-----------------------------------------------------------------------------
(* Fairness: goroutines run, timers expire and the bench run ends; nothing   *)
(* makes a program publish, a signal arrive, or the network fail.            *)

\* The goroutines there is one of: the listener, and the caller of Start and Stop.
Control ==
    CASE proto = "http1" -> H1!ListenAndServe \/ H1!BenchStart \/ H1!BenchStop \/ H1!Stop
      [] proto = "http2" -> H2!ListenAndServe \/ H2!BenchStart \/ H2!BenchStop \/ H2!Stop
      [] proto = "http3" -> H3!ListenAndServe \/ H3!BenchStart \/ H3!BenchStop \/ H3!Stop
      [] proto = "gorilla" -> G!ListenAndServe \/ G!BenchStart \/ G!BenchStop \/ G!Stop
      [] proto = "gobwas" -> W!ListenAndServe \/ W!BenchStart \/ W!BenchStop \/ W!Stop
      [] proto = "coder" -> N!ListenAndServe \/ N!BenchStart \/ N!BenchStop \/ N!Stop
      [] proto = "webtransport" -> T!ListenAndServe \/ T!BenchStart \/ T!BenchStop \/ T!Stop
      [] proto = "sse" -> E!BenchStart \/ E!BenchStop \/ E!Stop
      [] proto = "udp" -> U!BenchStart \/ U!BenchStop \/ U!Stop
      [] proto = "webrtc" -> R!BenchStart \/ R!BenchStop \/ R!Stop

\* The handler of a session.
Handling(s) ==
    CASE proto = "http1" -> H1!handleStream(s)
      [] proto = "http2" -> H2!handleStream(s)
      [] proto = "http3" -> H3!handleStream(s)
      [] proto = "sse" -> E!handleEvents(s)
      [] proto = "gorilla" -> G!serveWS(s)
      [] proto = "gobwas" -> W!serveWS(s)
      [] proto = "coder" -> N!serveWS(s)
      [] proto = "webtransport" -> T!handleSession(s)
      [] proto = "udp" -> U!receiveLoop(s)
      [] proto = "webrtc" -> R!handleOffer(s) \/ R!OnConnectionStateChange(s)

\* The other goroutine of a session; for UDP, the clock.
Pumping(s) ==
    CASE proto = "gorilla" -> G!writePump(s)
      [] proto = "gobwas" -> W!writePump(s)
      [] proto = "coder" -> N!writePump(s)
      [] proto = "webtransport" -> T!readStream(s)
      [] proto = "udp" -> ses[s].peer # "open" /\ U!Silence(s)
      [] OTHER -> FALSE

\* The client's goroutine.
Reading(c) ==
    CASE proto = "http1" -> H1!readStream(c)
      [] proto = "http2" -> H2!readStream(c)
      [] proto = "http3" -> H3!connect(c)
      [] proto = "sse" -> E!ReceiveLoop(c)
      [] proto = "gorilla" -> G!ClientReadPump(c)
      [] proto = "gobwas" -> W!ClientReadPump(c)
      [] proto = "coder" -> N!ClientReadPump(c)
      [] proto = "webtransport" -> T!receiveLoop(c)
      [] proto = "udp" -> U!clientReceiveLoop(c)
      [] proto = "webrtc" -> R!OnDataChannel(c)

\* A Broadcast that has begun goes on, and stale UDP peers are looked for.
Finishing ==
    CASE proto = "sse" -> pub.now > 0 /\ E!Broadcast
      [] proto = "webtransport" -> pub.now > 0 /\ T!Broadcast
      [] proto = "udp" -> U!cleanupLoop
      [] OTHER -> FALSE

Fairness ==
    /\ WF_vars(Control) /\ WF_vars(Finishing)
    /\ \A s \in Session : WF_vars(Handling(s)) /\ WF_vars(Pumping(s))
    /\ \A c \in Client : WF_vars(Reading(c)) /\ WF_vars(U!heartbeatLoop(c))

FairSpec == Spec /\ Fairness

-----------------------------------------------------------------------------
(* Safety.                                                                  *)

\* The state has the shape the goroutines of all ten packages assume: queues
\* and connections within their capacity, at most one message being written
\* (the replay of the SSE handler writes several).
TypeOK ==
    /\ proto \in DOMAIN Attempts
    /\ srv.conns \in 0 .. Cardinality(Session)
    /\ Registered \subseteq Session
    /\ \A s \in Session :
        /\ Len(ses[s].q) <= Cap
        /\ Len(ses[s].wire) <= IF proto = "webrtc" THEN MaxCalls[proto] ELSE Wire
        /\ Len(ses[s].hand) <= IF proto = "sse" THEN Replay ELSE 1
        /\ ses[s].peer \in {"none", "open", "closed", "silent"}
        /\ ses[s].at \in {"none", "begun", "pending", "refused", "replaying", "storing",
                         "stored", "serving", "leaving", "gone"}
    /\ \A c \in Client : cli[c].n \in 0 .. Attempts[proto] /\ cli[c].conn <= cli[c].n
    /\ pub.calls + pub.sends <= MaxCalls[proto] /\ Len(pub.replay) <= Replay

\* A client may be handed frame n after frame m.
Less(m, n) ==
    CASE proto = "sse" -> m <= n
      [] proto = "udp" -> TRUE
      [] proto = "webtransport" \/ (proto = "webrtc" /\ srv.mode # "reliable") -> m # n
      [] OTHER -> m < n

\* The handler of a client is called with the frames in the order in which
\* Broadcast numbered them, and never twice with the same one, across all its
\* connections.  The SSE client may see an event twice, when the fan-out of it
\* follows a replay that had it already; the WebTransport client sees the frames
\* of different streams in any order, and so does the WebRTC client in the modes
\* that are not reliable; UDP promises nothing.
InOrder ==
    \A c \in Client : \A i, j \in DOMAIN got[c] :
        i < j => Less(got[c][i], got[c][j])

\* How many of the messages of a sequence are frames.
Frames(seq) == Cardinality({i \in DOMAIN seq : seq[i].frame})

\* Every frame broadcast since a session was registered is accounted for while
\* the session is in the table and its connection stands: read by the client,
\* on the way, queued, or dropped by a full queue.  Nothing else may lose one.
\* The datagram and unidirstream modes of the HTTP/3 server reach no session,
\* Send of the HTTP/3 server makes frames too, a resumed SSE stream begins with a
\* replay (see ResumeMissesOnlyTheWindow), and UDP and the WebRTC modes that are
\* not reliable may lose what they send.
Accounted ==
    \A s \in Registered :
        LET S == ses[s] IN
        (/\ Served(s) /\ S.up /\ S.peer = "open" /\ S.pump # "ended"
         /\ proto = "http3" => srv.mode = "stream" /\ pub.sends = 0
         /\ proto = "webrtc" => srv.mode = "reliable"
         /\ S.from = 0 /\ proto # "udp")
        => pub.calls - Due(s) - S.since
              = S.read + Frames(S.wire) + Frames(S.hand) + Frames(S.q) + S.dropped

\* The client of session s has another session under the same ID, which has taken
\* over the entry of s, or has taken it along when its handler returned.
Displaced(s) ==
    /\ proto \in {"http3", "sse"}
    /\ \E t \in Session : t[1] = s[1] /\ t # s /\ ses[t].at \in {"serving", "gone"}

\* The table holds sessions that are being served and no others, so Broadcast
\* never fills the queue of a handler that has returned; every session being
\* served is in it, and gets what is broadcast, but for the HTTP/3 and SSE sessions
\* that another session of the same client displaced; and connCount of the
\* HTTP/1.1 and HTTP/2 servers is the size of the table but for the handlers that
\* are between the two updates.
TableIsServing ==
    LET Those(x) == {s \in Session : At(s, x)} IN
    /\ \A s \in Registered : Served(s)
    /\ \A s \in Session : Served(s) /\ s \notin Registered => Displaced(s)
    /\ proto \in {"http1", "http2"} =>
          srv.conns + Cardinality(Those("stored"))
             = Cardinality(DOMAIN entries) + Cardinality(Those("leaving"))

\* Session s was entered into the table before the first Broadcast.
Early(s) == ses[s].at \in {"stored", "serving", "leaving", "gone"} /\ ses[s].since = 0

\* waitForConns lets the measurement begin only when the table has as many sessions
\* as there are clients, so that a client which kept its first connection is offered
\* every frame of the measurement.  The WebSocket servers count connections, not
\* clients: one that lost its connection and came back may be counted twice, in the
\* place of one that is not subscribed yet.
ReadyMeansSubscribed ==
    bench \in {"ready", "closing", "stopped"} =>
        \A c \in Client : cli[c].n = 1 =>
            \/ Early(<<c, 1>>)
            \/ /\ proto \in {"gorilla", "gobwas", "coder"}
               /\ \E d \in Client \ {c} : cli[d].n > 1 /\ Early(<<d, 1>>) /\ Early(<<d, 2>>)

\* An SSE client that resumed and has read everything sent to it lacks, of the
\* events that the ring holds after its Last-Event-ID, only those that were
\* broadcast after the replay was taken and before the stream was stored.  (An
\* event that the break of a connection tore after its id line is not after it.)
ResumeMissesOnlyTheWindow ==
    (proto = "sse" /\ pub.now = 0) =>
        \A s \in Registered :
            LET S == ses[s]
                c == s[1] IN
            (/\ S.from > 0 /\ cli[c].pc = "reading" /\ Mine(c) = s /\ S.up /\ S.dropped = 0
             /\ S.wire = <<>> /\ S.hand = <<>> /\ S.q = <<>>)
            => \A i \in DOMAIN pub.replay :
                  LET e == pub.replay[i] IN
                  \/ e <= S.from
                  \/ \E j \in DOMAIN got[c] : got[c][j] = e
                  \/ S.mark < e /\ e <= S.upto

-----------------------------------------------------------------------------
(* Liveness, under FairSpec.                                                *)

\* The WebRTC server has nothing left that would end session s: its offer was
\* refused, or its loss was reported before the callbacks of the peer were set.
Abandoned(s) ==
    proto = "webrtc" /\ (At(s, "refused") \/ (At(s, "serving") /\ ses[s].mark = 1))

\* The server has not finished with session s: its handler or its write pump runs,
\* or it is in the table.
Unfinished(s) ==
    \/ ses[s].at \notin {"none", "gone"} \/ s \in Registered
    \/ proto # "webrtc" /\ ses[s].pump = "running"

Dead(s) == ses[s].peer \in {"closed", "silent"} /\ Unfinished(s) /\ ~Abandoned(s)

\* A session whose client closed, or went silent where the server has a deadline
\* for that, is eventually ended and out of the table.  The WebRTC server may have
\* abandoned it instead, and Stop of the UDP server leaves the table as it is.
DeadPeersLeave ==
    (\E s \in Session : Dead(s))
    ~> Over \/ (\A s \in Session : ~Dead(s)) \/ (proto = "udp" /\ srv.done)

\* After the bench transport's Stop every goroutine of the server's sessions and
\* of the clients ends, so that one measurement does not run into the next; or the
\* process has crashed, which the gobwas client makes it do.  The peers of the UDP
\* server and those that the WebRTC server abandoned are left in their tables.
BenchStopEndsAll ==
    bench = "stopped"
    ~> \/ Over
       \/ /\ \A s \in Session : proto # "udp" /\ Unfinished(s) => Abandoned(s)
          /\ \A c \in Client : cli[c].pc = "ended"

\* A message that was queued for a session is written to its connection, or the
\* session ends: no session keeps a message for ever.
Delivered ==
    \A s \in Session :
        ses[s].q \o ses[s].hand # <<>>
        ~> Over \/ ses[s].q \o ses[s].hand = <<>> \/ ses[s].at = "gone"

\* Broadcast of the SSE server gets the lock of the ring from the handlers that
\* replay, and Broadcast of the WebTransport server gets past every session,
\* whatever its client does.  In mode bidistream it need not: the streams are
\* never closed, and a client admits only so many.
BroadcastReturns ==
    (pub.now > 0 \/ E!replayLocked)
    ~> Over \/ (pub.now = 0 /\ ~E!replayLocked) \/ srv.mode = "bidistream"

\* Client c was closed, its host vanished, or it is to dial once more than the
\* bound Attempts allows.
Departed(c) ==
    \/ cli[c].ctx
    \/ cli[c].pc = "ended" /\ ses[<<c, cli[c].n>>].peer = "silent"
    \/ cli[c].pc = "dialing" /\ cli[c].n = Attempts[proto]

\* A client that lives comes back.  One of a protocol that reconnects is in the table
\* again and again after the network broke its connection, and gets what is broadcast,
\* while the server listens and the client has not departed.  Two do not: an HTTP/3 or SSE
\* client whose new session the old one displaced is connected and gets nothing, and
\* the gobwas client crashes.  One of UDP, which sends heartbeats, is in the registry
\* again and again, although evictStalePeers may remove a peer that was just heard from.
Reconnects ==
    \A c \in Client :
        /\ (ses[<<c, 1>>].cut /\ Attempts[proto] > 1 /\ proto # "webtransport")
           ~> \/ Over \/ ~srv.listening \/ Departed(c)
              \/ proto = "gobwas" /\ cli[c].pc = "crashed"
              \/ \E s \in Session : /\ s[1] = c /\ s[2] > 1 /\ Served(s)
                                    /\ s \in Registered \/ Displaced(s)
        /\ (proto = "udp" /\ srv.listening /\ ses[<<c, 1>>].peer = "open")
           ~> Over \/ srv.stop # "no" \/ <<c, 1>> \in Registered \/ ses[<<c, 1>>].peer # "open"

=============================================================================
