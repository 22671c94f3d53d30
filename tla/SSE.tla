--------------------------------- MODULE SSE ---------------------------------
(***************************************************************************)
(* The Server-Sent Events server and client (internal/sse).  Broadcast     *)
(* puts an event into the replay ring and then into the queue of every     *)
(* stream.  A client whose stream ends opens another one under the same ID *)
(* with a Last-Event-ID header: the handler writes what the ring holds     *)
(* after that event, holding the ring's lock, and only then stores the     *)
(* stream.  Registration IDs and events are numbered by one counter.       *)
(***************************************************************************)
EXTENDS Session

Here == Of("sse")

-----------------------------------------------------------------------------
(* The server.                                                              *)

Start ==
    /\ ~srv.started
    /\ srv' = [srv EXCEPT !.started = TRUE, !.listening = TRUE]

\* started stays set, and nothing in the table is cancelled: the handlers see
\* the closed channel.
Stop ==
    /\ Here
    /\ \/ /\ srv.stop = "begun"
          /\ srv' = [srv EXCEPT !.stop = "draining", !.done = TRUE, !.listening = FALSE]
       \/ /\ srv.stop = "draining"
          /\ srv' = [srv EXCEPT !.stop = IF Running = {} THEN "returned" ELSE "timeout"]
    /\ UNCHANGED <<entries, ses, cli, got, pub, bench>>

\* Mutant: begins one event too early.
replayFromBefore(n) ==
    LET After(e) == e + 1 >= n IN
    LET missed == SelectSeq(pub.replay, After) IN
    [i \in DOMAIN missed |-> Frame(missed[i])]

\* Mutant: begins one event too late.
replayFromLater(n) ==
    LET After(e) == e > n + 1 IN
    LET missed == SelectSeq(pub.replay, After) IN
    [i \in DOMAIN missed |-> Frame(missed[i])]

\* The events that the ring holds after event n.
replayFrom(n) ==
    LET After(e) == e > n IN
    LET missed == SelectSeq(pub.replay, After) IN
    [i \in DOMAIN missed |-> Frame(missed[i])]

addToReplay(e) ==
    IF Len(pub.replay) < Replay THEN Append(pub.replay, e)
    ELSE Append(Tail(pub.replay), e)

\* The ring is locked for reading while a handler writes what it replays.
replayLocked == \E s \in Session : At(s, "replaying")

\* A write whose connection is gone is not noticed; the context is.
Written1(s) ==
    \/ Written(s)
    \/ WriteError(s) /\ ses' = [ses EXCEPT ![s].hand = Tail(@)]

\* The handler replays, stores the stream, serves it until its context or
\* shutdownCh ends it, and deletes the entry of its ID whichever stream that
\* is of.
handleEvents(s) ==
    /\ Here
    /\ \/ /\ At(s, "begun") /\ ses[s].from > 0
          /\ ses' = [ses EXCEPT ![s].at = "replaying", ![s].mark = pub.seq,
                                ![s].hand = replayFrom(ses[s].from)]
          /\ UNCHANGED entries
       \/ /\ At(s, "replaying")
          /\ \/ Written1(s)
             \/ ses[s].hand = <<>> /\ ses' = [ses EXCEPT ![s].at = "storing"]
          /\ UNCHANGED entries
       \/ /\ At(s, "storing") \/ (At(s, "begun") /\ ses[s].from = 0)
          /\ Store(s[1], s)
          /\ ses' = IF ses[s].from = 0
                    THEN [ses EXCEPT ![s].at = "serving", ![s].since = pub.calls - Due(s)]
                    ELSE [ses EXCEPT ![s].at = "serving", ![s].upto = pub.seq]
       \/ /\ At(s, "serving") /\ (Take(s) \/ Written1(s))
          /\ UNCHANGED entries
       \/ /\ At(s, "serving") /\ ses[s].hand = <<>>
          /\ ses[s].ctx \/ PeerGone(s) \/ srv.done
          /\ Delete(s[1]) /\ Gone(s)
    /\ UNCHANGED <<srv, cli, got, pub, bench>>

\* Broadcast numbers the event and adds it to the ring, which waits for the
\* lock, and then offers it to the streams of the table.
Broadcast ==
    /\ Here
    /\ \/ /\ Publishing /\ pub.now = 0 /\ ~replayLocked
          /\ pub' = [pub EXCEPT !.seq = @ + 1, !.calls = @ + 1, !.now = pub.seq + 1,
                                !.replay = addToReplay(pub.seq + 1)]
          /\ UNCHANGED ses
       \/ /\ pub.now > 0
          /\ pub' = [pub EXCEPT !.now = 0, !.lost = @ + Cardinality(Full(Registered))]
          /\ Offer(Registered, Frame(pub.now))
    /\ UNCHANGED <<srv, entries, cli, got, bench>>

\* An event of Send has a number and the caller's bytes, and is not replayed.
Send(k) ==
    /\ Here
    /\ k \in DOMAIN entries /\ Sending
    /\ pub' = [pub EXCEPT !.seq = @ + 1, !.sends = @ + 1,
                          !.lost = @ + Cardinality(Full({entries[k]}))]
    /\ Offer({entries[k]}, Bytes(pub.seq + 1))
    /\ UNCHANGED <<srv, entries, cli, got, bench>>

Connections == Cardinality(DOMAIN entries)

-----------------------------------------------------------------------------
(* The client.                                                              *)

\* handleRegister takes a number of the counter that numbers the events.
handleRegister ==
    /\ srv.listening
    /\ pub' = [pub EXCEPT !.seq = @ + 1]

Connect(c) ==
    /\ cli[c].pc = "idle" /\ handleRegister
    /\ cli' = [cli EXCEPT ![c].pc = "dialing"]

\* One stream after the other until the context is cancelled; an attempt that
\* finds no listener changes nothing but the backoff.
receiveLoop(c) ==
    /\ cli[c].pc = "dialing"
    /\ \/ /\ cli[c].ctx
          /\ cli' = [cli EXCEPT ![c].pc = "ended"]
          /\ UNCHANGED ses
       \/ /\ MayDial(c)
          /\ cli' = [cli EXCEPT ![c].pc = "reading", ![c].n = @ + 1, ![c].conn = @ + 1]
          /\ ses' = Open(c, cli[c].n + 1)
    /\ UNCHANGED got

\* Every event sets lastEventID at its id line and is dispatched at its end.
\* When the connection breaks between the two it is not dispatched, and not
\* asked for again.
connectStream(c) ==
    LET s == Mine(c) IN
    \/ /\ ReadOne(c)
       /\ cli' = [cli EXCEPT ![c].lastID = Head(ses[s].wire).id]
    \/ /\ cli[c].pc = "reading" /\ ses[s].wire # <<>> /\ CutsLeft
       /\ cli' = [cli EXCEPT ![c].lastID = Head(ses[s].wire).id, ![c].pc = "dialing"]
       /\ ses' = Broken(s)
       /\ UNCHANGED got
    \/ /\ cli[c].pc = "reading" /\ (cli[c].ctx \/ AtEOF(c))
       /\ cli' = [cli EXCEPT ![c].pc = "dialing"]
       /\ ses' = Hangup(s)
       /\ UNCHANGED got

ReceiveLoop(c) ==
    /\ Here
    /\ receiveLoop(c) \/ connectStream(c)
    /\ UNCHANGED <<srv, entries, pub, bench>>

\* Close cancels the context, and returns when receiveLoop has.
Close(c) ==
    /\ cli[c].pc # "idle" /\ ~cli[c].ctx
    /\ cli' = [cli EXCEPT ![c].ctx = TRUE]

-----------------------------------------------------------------------------
(* The callers: the bench transport, and the programs of cmd/.              *)

\* Ready once every client is counted; the wait may also end, after ten
\* seconds, before that.
waitForConns ==
    /\ bench = "connecting" /\ \A c \in Client : cli[c].pc # "idle"
    /\ bench' = IF Connections >= Cardinality(Client) THEN "ready" ELSE "failed"

BenchStart ==
    /\ Here
    /\ \/ /\ bench = "new" /\ Start /\ bench' = "connecting"
          /\ UNCHANGED <<cli, pub>>
       \/ /\ bench = "connecting" /\ \E c \in Client : Connect(c)
          /\ UNCHANGED <<srv, bench>>
       \/ waitForConns /\ UNCHANGED <<srv, cli, pub>>
    /\ UNCHANGED <<entries, ses, got>>

\* The context of every client is cancelled, every client is waited for, and
\* then the server is stopped.
BenchStop ==
    /\ Here
    /\ \/ /\ bench = "ready" /\ bench' = "closing"
          /\ cli' = [c \in Client |-> [cli[c] EXCEPT !.ctx = TRUE]]
          /\ UNCHANGED srv
       \/ /\ bench = "closing" /\ \A c \in Client : cli[c].pc = "ended"
          /\ bench' = "stopped" /\ srv' = [srv EXCEPT !.stop = "begun"]
          /\ UNCHANGED cli
    /\ UNCHANGED <<entries, ses, got, pub>>

\* The server program starts, and stops on a signal.
ServerMain ==
    /\ Here
    /\ bench = "main" /\ srv.stop = "no"
    /\ \/ Start
       \/ srv.started /\ srv' = [srv EXCEPT !.stop = "begun"]
    /\ UNCHANGED <<entries, ses, cli, got, pub, bench>>

\* The client program connects, and closes on a signal.
ClientMain(c) ==
    /\ Here
    /\ bench = "main"
    /\ Connect(c) \/ (Close(c) /\ UNCHANGED pub)
    /\ UNCHANGED <<srv, entries, ses, got, bench>>

=============================================================================
