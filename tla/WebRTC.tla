------------------------------- MODULE WebRTC -------------------------------
(***************************************************************************)
(* The WebRTC server, its signaling server and the client                  *)
(* (internal/webrtc).  The client posts an offer, the signaling server     *)
(* answers it and keeps the connection as pending; when the connection is  *)
(* established the peer enters the table and a data channel is opened,     *)
(* whose opening at the client ends Connect.  What the library does between*)
(* those calls is external.  wire is the data channel, which buffers       *)
(* whatever is sent; pump says whether it is open at the server; mark is 1 *)
(* once the loss of the connection was reported to the callbacks.          *)
(***************************************************************************)
EXTENDS Session

Here == Of("webrtc")

Modes == {"reliable", "unreliable", "partial-reliable"}

\* The connection is closed at either end, or the library finds that it failed;
\* one whose offer was refused is never established.
Lost(s) == ses[s].peer # "open" \/ ~ses[s].up \/ At(s, "refused")

-----------------------------------------------------------------------------
(* The server.                                                              *)

Start ==
    /\ ~srv.started
    /\ srv' = [srv EXCEPT !.started = TRUE, !.listening = TRUE]

\* Stop closes the connections of the table, not the pending ones, and shuts the
\* signaling server down, which waits for the offers being answered.
Stop ==
    /\ Here
    /\ \/ /\ srv.stop = "begun"
          /\ srv' = [srv EXCEPT !.stop = "draining", !.listening = FALSE]
          /\ ses' = [s \in Session |-> [ses[s] EXCEPT !.up = @ /\ s \notin Registered]]
       \/ /\ srv.stop = "draining"
          /\ srv' = [srv EXCEPT !.stop =
                         IF \E s \in Session : At(s, "begun") THEN "timeout" ELSE "returned"]
          /\ UNCHANGED ses
    /\ UNCHANGED <<entries, cli, got, pub, bench>>

\* The offer is answered, and the connection is pending; or there is no
\* connection to be had; or the description is refused by it, and then it stays
\* in pending without anybody to close it.
handleOffer(s) ==
    /\ Here
    /\ At(s, "begun")
    /\ \/ ses' = [ses EXCEPT ![s].at = "pending"]
       \/ /\ CutsLeft
          /\ \/ ses' = [ses EXCEPT ![s].at = "gone", ![s].up = FALSE, ![s].cut = TRUE]
             \/ ses' = [ses EXCEPT ![s].at = "refused", ![s].cut = TRUE]
    /\ UNCHANGED <<srv, entries, cli, got, pub, bench>>

\* The state of a pending connection changes.  Connected: the peer is stored with
\* a data channel that is not open yet, and only then are its callbacks set; the
\* connection is closed if there is no channel to be had.  Failed or closed: it
\* is pending no more.
onPeerConnected(s) ==
    \/ /\ At(s, "pending") /\ ~Lost(s)
       /\ Store(s, s)
       /\ ses' = [ses EXCEPT ![s].at = "stored", ![s].since = pub.calls]
    \/ /\ At(s, "pending") /\ ~Lost(s) /\ CutsLeft
       /\ ses' = [ses EXCEPT ![s].at = "gone", ![s].up = FALSE, ![s].cut = TRUE]
       /\ UNCHANGED entries
    \/ /\ At(s, "pending") /\ Lost(s)
       /\ ses' = [ses EXCEPT ![s].at = "gone"]
       /\ UNCHANGED entries
    \/ /\ At(s, "stored")
       /\ ses' = [ses EXCEPT ![s].at = "serving"]
       /\ UNCHANGED entries

\* The callbacks of a peer: its channel opens, and its channel or connection
\* closes or fails, which takes it out of the table and closes nothing.  What is
\* reported before they are set goes to the callback of the signaling server,
\* which knows nothing of the table.
peerCallbacks(s) ==
    \/ /\ Served(s) /\ ses[s].pump = "none" /\ ~Lost(s)
       /\ ses' = [ses EXCEPT ![s].pump = "running"]
       /\ UNCHANGED entries
    \/ /\ At(s, "stored") /\ Lost(s) /\ ses[s].mark = 0
       /\ ses' = [ses EXCEPT ![s].mark = 1]
       /\ UNCHANGED entries
    \/ /\ At(s, "serving") /\ Lost(s) /\ ses[s].mark = 0
       /\ Delete(s)
       /\ ses' = [ses EXCEPT ![s].at = "gone", ![s].mark = 1,
                             ![s].read = 0, ![s].dropped = 0]

OnConnectionStateChange(s) ==
    /\ Here
    /\ onPeerConnected(s) \/ peerCallbacks(s)
    /\ UNCHANGED <<srv, cli, got, pub, bench>>

\* What is sent on a channel that is not open, or is closing, is lost.
Sent(s, m) ==
    IF ses[s].pump = "running" /\ ~Lost(s) THEN [ses[s] EXCEPT !.wire = Append(@, m)]
    ELSE [ses[s] EXCEPT !.dropped = @ + IF m.frame THEN 1 ELSE 0]

Broadcast ==
    /\ Here
    /\ Publishing
    /\ pub' = [pub EXCEPT !.seq = @ + 1, !.calls = @ + 1, !.lost = @ +
                 Cardinality({s \in Registered : ses[s].pump # "running" \/ Lost(s)})]
    /\ ses' = [s \in Session |-> IF s \in Registered THEN Sent(s, Frame(pub.seq + 1))
                                 ELSE ses[s]]
    /\ UNCHANGED <<srv, entries, cli, got, bench>>

\* The caller's bytes as they are, on an open channel.
Send(k) ==
    /\ Here
    /\ k \in DOMAIN entries /\ Sending /\ ses[k].pump = "running" /\ ~Lost(k)
    /\ pub' = [pub EXCEPT !.sends = @ + 1]
    /\ ses' = [ses EXCEPT ![k] = Sent(k, Bytes(0))]
    /\ UNCHANGED <<srv, entries, cli, got, bench>>

Connections == Cardinality(DOMAIN entries)

-----------------------------------------------------------------------------
(* The client.                                                              *)

\* The offer is posted; Connect waits for the answer and for the channel.
Connect(c) ==
    /\ cli[c].pc = "idle" /\ MayDial(c)
    /\ cli' = [cli EXCEPT ![c].pc = "opening", ![c].n = 1, ![c].conn = 1]
    /\ ses' = Open(c, 1)

\* The callbacks of the client: its channel opens, a message arrives.  Only the
\* reliable mode keeps the order and loses nothing.  Connect fails when the offer
\* does or the channel does not open in time, and its program exits.
OnDataChannel(c) ==
    LET s == <<c, 1>> IN
    /\ Here
    /\ \/ /\ cli[c].pc = "opening" /\ ses[s].pump = "running"
          /\ cli' = [cli EXCEPT ![c].pc = "reading"]
          /\ UNCHANGED <<ses, got>>
       \/ /\ cli[c].pc = "opening" /\ Lost(s) /\ bench = "main"
          /\ cli' = [cli EXCEPT ![c].pc = "ended"]
          /\ ses' = Hangup(s)
          /\ UNCHANGED got
       \/ ReadOne(c) /\ UNCHANGED cli
       \/ /\ cli[c].pc = "reading" /\ srv.mode # "reliable"
          /\ \E i \in DOMAIN ses[s].wire, lost \in BOOLEAN :
                /\ ses' = [ses EXCEPT ![s].wire = SubSeq(@, 1, i - 1)
                                                  \o SubSeq(@, i + 1, Len(@))]
                /\ got' = IF lost \/ ~ses[s].wire[i].frame THEN got
                          ELSE [got EXCEPT ![c] = Append(@, ses[s].wire[i].id)]
          /\ UNCHANGED cli
    /\ UNCHANGED <<srv, entries, pub, bench>>

Close(C) ==
    /\ cli' = [c \in Client |-> IF c \in C THEN [cli[c] EXCEPT !.pc = "ended", !.ctx = TRUE]
                                ELSE cli[c]]
    /\ ses' = [s \in Session |-> IF s[1] \in C /\ ses[s].peer # "none" THEN Hangup(s)[s]
                                 ELSE ses[s]]

-----------------------------------------------------------------------------
(* The callers: the bench transport, and the programs of cmd/.              *)

\* Ready once every client is counted; the wait may also end, after fifteen
\* seconds, before that.
waitForConns ==
    /\ bench = "connecting" /\ \A c \in Client : cli[c].pc = "reading"
    /\ bench' = IF Connections >= Cardinality(Client) THEN "ready" ELSE "failed"

\* The clients connect one after the other; the first that does not open its
\* channel within thirty seconds makes Start fail.
BenchStart ==
    /\ Here
    /\ \/ /\ bench = "new" /\ Start /\ bench' = "connecting"
          /\ UNCHANGED <<ses, cli>>
       \/ /\ bench = "connecting" /\ \A c \in Client : cli[c].pc # "opening"
          /\ \E c \in Client : Connect(c)
          /\ UNCHANGED <<srv, bench>>
       \/ /\ bench = "connecting" /\ \E c \in Client : cli[c].pc = "opening" /\ Lost(<<c, 1>>)
          /\ bench' = "failed"
          /\ UNCHANGED <<srv, ses, cli>>
       \/ waitForConns /\ UNCHANGED <<srv, ses, cli>>
    /\ UNCHANGED <<entries, got, pub>>

BenchStop ==
    /\ Here
    /\ bench = "ready" /\ bench' = "stopped"
    /\ Close(Client)
    /\ srv' = [srv EXCEPT !.stop = "begun"]
    /\ UNCHANGED <<entries, got, pub>>

\* The server program starts, and stops on a signal.
ServerMain ==
    /\ Here
    /\ bench = "main" /\ srv.stop = "no"
    /\ \/ Start
       \/ srv.started /\ srv' = [srv EXCEPT !.stop = "begun"]
    /\ UNCHANGED <<entries, ses, cli, got, pub, bench>>

\* The client program connects, and closes on a signal.
ClientMain(c) ==
    /\ Here
    /\ bench = "main"
    /\ Connect(c) \/ (cli[c].pc # "idle" /\ ~cli[c].ctx /\ Close({c}))
    /\ UNCHANGED <<srv, entries, got, pub, bench>>

=============================================================================
