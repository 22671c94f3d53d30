--------------------------------- MODULE UDP ---------------------------------
(***************************************************************************)
(* The UDP server and client (internal/udp).  A client announces itself    *)
(* with HELLO and repeats that with a heartbeat every 5 s; the server      *)
(* enters every address it hears from into the registry, and a second      *)
(* goroutine evicts the peers it has not heard from for peerTTL, 30 s.     *)
(* Here wire holds datagrams, which the network delivers in any order.     *)
(* from is 1 while a HELLO or heartbeat is on its way, and mark is 1 once  *)
(* lastSeen is older than peerTTL.                                         *)
(***************************************************************************)
EXTENDS Session

Here == Of("udp")

-----------------------------------------------------------------------------
(* The server.                                                              *)

Start ==
    /\ ~srv.started
    /\ srv' = [srv EXCEPT !.started = TRUE, !.listening = TRUE]

\* Stop closes done and the socket and waits for the two loops.  receiveLoop
\* ends with its next look at done; cleanupLoop finishes its eviction first.
\* The registry keeps its peers.
Stop ==
    /\ Here
    /\ \/ /\ srv.started /\ srv.stop = "begun"
          /\ srv' = [srv EXCEPT !.stop = "draining", !.done = TRUE, !.listening = FALSE]
       \/ /\ srv.stop = "draining" /\ pub.todo = {}
          /\ srv' = [srv EXCEPT !.started = FALSE, !.stop = "returned"]
    /\ UNCHANGED <<entries, ses, cli, got, pub, bench>>

\* Every datagram registers its sender or renews its lastSeen.  batchRecv gives
\* the buffer its full length back, so HELLO and heartbeats go on to wire.Decode,
\* which finds no frame in them: nothing else happens.
handlePacket(s) ==
    /\ ses[s].from = 1
    /\ IF s \in Registered
       THEN /\ ses' = [ses EXCEPT ![s].from = 0, ![s].mark = 0]
            /\ UNCHANGED entries
       ELSE /\ Store(s, s)
            /\ ses' = [ses EXCEPT ![s].from = 0, ![s].mark = 0, ![s].at = "serving",
                                  ![s].since = IF At(s, "none") THEN pub.calls ELSE @]

\* The goroutine runs from Start until Stop.
receiveLoop(s) ==
    /\ Here
    /\ srv.listening /\ handlePacket(s)
    /\ UNCHANGED <<srv, cli, got, pub, bench>>

\* peerTTL passes without a datagram from peer s: its client is closed or gone,
\* or the network lost six heartbeats in a row.
Silence(s) ==
    /\ Here
    /\ s \in Registered /\ ses[s].from = 0 /\ ses[s].mark = 0
    /\ \/ /\ ses[s].peer # "open"
          /\ ses' = [ses EXCEPT ![s].mark = 1]
       \/ /\ ses[s].peer = "open" /\ CutsLeft
          /\ ses' = [ses EXCEPT ![s].mark = 1, ![s].cut = TRUE]
    /\ UNCHANGED <<srv, entries, cli, got, pub, bench>>

\* The stale peers are collected, and then removed one by one: a peer that is
\* heard from in between is removed all the same.
evictStalePeers ==
    \/ LET stale == {s \in Registered : ses[s].mark = 1} IN
       /\ srv.listening /\ pub.todo = {} /\ stale # {}
       /\ pub' = [pub EXCEPT !.todo = stale]
       /\ UNCHANGED <<entries, ses>>
    \/ \E s \in pub.todo :
       /\ Delete(s)
       /\ ses' = [ses EXCEPT ![s].at = "gone", ![s].mark = 0]
       /\ pub' = [pub EXCEPT !.todo = @ \ {s}]

cleanupLoop ==
    /\ Here
    /\ evictStalePeers
    /\ UNCHANGED <<srv, cli, got, bench>>

\* What n copies of m add to the buffer of the client's socket; the network
\* and a full buffer lose them silently.
Arrived(s, m, n) ==
    LET all == ses[s].wire \o [i \in 1 .. n |-> m] IN
    IF ses[s].peer # "open" THEN ses[s].wire
    ELSE IF Len(all) > Wire THEN SubSeq(all, 1, Wire)
    ELSE all

\* One sendmmsg for all the peers.  When the socket is not ready for the rest of
\* a batch, the batch is sent again from its beginning, to twice the peers that
\* were served before.  A closed socket sends nothing.
batchSend(S, m) ==
    \E n \in [S -> 0 .. 2] :
        LET twice == {s \in S : n[s] = 2} IN
        /\ ~srv.listening => \A s \in S : n[s] = 0
        /\ twice # {} => CutsLeft /\ Cardinality(twice) = 1
        /\ ses' = [s \in Session |->
                     IF s \notin S THEN ses[s]
                     ELSE [ses[s] EXCEPT !.wire = Arrived(s, m, n[s]),
                                         !.cut = @ \/ s \in twice]]

\* Numbered even if there is no peer; whether started or not is not looked at.
Broadcast ==
    /\ Here
    /\ Publishing
    /\ pub' = [pub EXCEPT !.seq = @ + 1, !.calls = @ + 1]
    /\ batchSend(Registered, Frame(pub.seq + 1))
    /\ UNCHANGED <<srv, entries, cli, got, bench>>

\* A frame to one peer, with a number of its own.
Send(k) ==
    /\ Here
    /\ k \in DOMAIN entries /\ Sending
    /\ pub' = [pub EXCEPT !.seq = @ + 1, !.sends = @ + 1]
    /\ \E n \in 0 .. 1 :
        /\ srv.listening \/ n = 0
        /\ ses' = [ses EXCEPT ![k].wire = Arrived(k, Frame(pub.seq + 1), n)]
    /\ UNCHANGED <<srv, entries, cli, got, bench>>

Connections == Cardinality(DOMAIN entries)

-----------------------------------------------------------------------------
(* The client.                                                              *)

\* A socket, and HELLO on its way; the client does not learn whether anybody
\* listens, and what is sent to a port that nobody has bound is lost.
Dial(c) ==
    /\ cli[c].pc = "idle"
    /\ cli' = [cli EXCEPT ![c].pc = "reading", ![c].n = 1, ![c].conn = 1]
    /\ ses' = [ses EXCEPT ![<<c, 1>>].peer = "open",
                          ![<<c, 1>>].from = IF srv.listening THEN 1 ELSE 0]

\* The loop processes whichever datagram arrives next, until the client is closed.
clientReceiveLoop(c) ==
    LET s == <<c, 1>> IN
    /\ Here
    /\ cli[c].pc = "reading"
    /\ \/ /\ ~cli[c].ctx
          /\ \E i \in DOMAIN ses[s].wire :
                /\ got' = [got EXCEPT ![c] = Append(@, ses[s].wire[i].id)]
                /\ ses' = [ses EXCEPT ![s].wire = SubSeq(@, 1, i - 1)
                                                  \o SubSeq(@, i + 1, Len(@))]
          /\ UNCHANGED cli
       \/ /\ cli[c].ctx
          /\ cli' = [cli EXCEPT ![c].pc = "ended"]
          /\ UNCHANGED <<got, ses>>
    /\ UNCHANGED <<srv, entries, pub, bench>>

\* A heartbeat that reaches the socket of the server; the others change nothing.
heartbeatLoop(c) ==
    LET s == <<c, 1>> IN
    /\ Here
    /\ cli[c].pc = "reading" /\ ~cli[c].ctx /\ ses[s].from = 0 /\ srv.listening
    /\ ses' = [ses EXCEPT ![s].from = 1]
    /\ UNCHANGED <<srv, entries, cli, got, pub, bench>>

\* Close closes done and the socket and waits for both loops.
Close(C) ==
    /\ cli' = [c \in Client |-> [cli[c] EXCEPT !.ctx = @ \/ c \in C]]
    /\ ses' = [s \in Session |-> IF s[1] \in C /\ ses[s].peer # "none" THEN Hangup(s)[s]
                                 ELSE ses[s]]

-----------------------------------------------------------------------------
(* The callers: the bench transport, the server program, and a program that *)
(* embeds the client.                                                       *)

\* Ready once every client is counted; the wait may also end, after ten
\* seconds, before that.
waitForConns ==
    /\ bench = "connecting" /\ \A c \in Client : cli[c].pc # "idle"
    /\ bench' = IF Connections >= Cardinality(Client) THEN "ready" ELSE "failed"

BenchStart ==
    /\ Here
    /\ \/ /\ bench = "new" /\ Start /\ bench' = "connecting"
          /\ UNCHANGED <<ses, cli>>
       \/ /\ bench = "connecting" /\ \E c \in Client : Dial(c)
          /\ UNCHANGED <<srv, bench>>
       \/ waitForConns /\ UNCHANGED <<srv, ses, cli>>
    /\ UNCHANGED <<entries, got, pub>>

BenchStop ==
    /\ Here
    /\ \/ /\ bench = "ready" /\ bench' = "closing"
          /\ Close(Client) /\ UNCHANGED srv
       \/ /\ bench = "closing" /\ \A c \in Client : cli[c].pc = "ended"
          /\ bench' = "stopped" /\ srv' = [srv EXCEPT !.stop = "begun"]
          /\ UNCHANGED <<ses, cli>>
    /\ UNCHANGED <<entries, got, pub>>

\* The server program starts, and stops on a signal.
ServerMain ==
    /\ Here
    /\ bench = "main" /\ srv.stop = "no"
    /\ \/ Start
       \/ srv.started /\ srv' = [srv EXCEPT !.stop = "begun"]
    /\ UNCHANGED <<entries, ses, cli, got, pub, bench>>

\* The repository's client program opens no socket: this is one that does.
ClientMain(c) ==
    /\ Here
    /\ bench = "main"
    /\ Dial(c) \/ (cli[c].pc # "idle" /\ ~cli[c].ctx /\ Close({c}))
    /\ UNCHANGED <<srv, entries, got, pub, bench>>

=============================================================================
