------------------------------- MODULE Session -------------------------------
(***************************************************************************)
(* What the servers that push over one connection per client have in       *)
(* common: HTTP/1.1, HTTP/2, HTTP/3, Server-Sent Events, the three         *)
(* WebSocket servers, WebTransport, WebRTC and UDP.  Each has a table of   *)
(* sessions; all but the last three have a handler goroutine and a bounded *)
(* queue per session and a Broadcast that fills the queues without blocking.*)
(* Each has clients that read, and a bench transport or a main function    *)
(* that starts and stops them.  This module declares that state and the    *)
(* operators on it; the module of each protocol says, from its own source, *)
(* what its goroutines do with it.                                         *)
(***************************************************************************)
EXTENDS Naturals, Sequences, FiniteSets, TLC

CONSTANTS
    Client,    \* the subscribers
    Attempts,  \* bound: connections that one subscriber opens, per protocol
    Cap,       \* capacity of the queue of a session: 256 in every server
    Wire,      \* frames that fit between the server's write and the client's read
    MaxCalls,  \* bound: calls of Broadcast and of Send, per protocol
    MaxSend,   \* bound: calls of Send among them
    MaxCuts,   \* bound: failures that come from outside: connections that the network
               \* breaks or a library gives up
    Replay,    \* replayBufSize of the SSE server: 1000
    Callers    \* who starts the server: "new" the bench transport, "main" a program

ASSUME SessionAssumption ==
    /\ \A p \in DOMAIN Attempts : Attempts[p] \in Nat \ {0}
    /\ Cap \in Nat \ {0} /\ Wire \in Nat \ {0}
    /\ \A p \in DOMAIN Attempts : MaxCalls[p] \in Nat
    /\ MaxSend \in Nat /\ MaxCuts \in Nat /\ Replay \in Nat \ {0}
    /\ Callers \subseteq {"new", "main"}

\* A session is one connection of one client.
Session == Client \X UNION {1 .. Attempts[p] : p \in DOMAIN Attempts}

VARIABLES
    proto,    \* which protocol this behaviour is of
    srv,      \* the server: started, listening, done (its shutdown channel is
              \* closed), stop (where Stop is), conns (connCount),
              \* mode (of the HTTP/3 and WebTransport servers)
    entries,  \* the table of sessions: a function from connection IDs
    ses,      \* ses[s]: the session, see NewSession
    cli,      \* cli[c]: the client, see NewClient
    got,      \* got[c]: the frames that the handler of client c was called with
    pub,      \* the publisher: seq (seqCounter), calls of Broadcast and of Send,
              \* lost (the drop counter), replay (the SSE ring), now (the frame
              \* of a Broadcast that has not returned), todo (the sessions that
              \* the Broadcast of WebTransport, or the eviction of UDP, has not
              \* come to)
    bench     \* the caller of the transport: "main" for the server programs of
              \* cmd/, otherwise where the bench transport is

vars == <<proto, srv, entries, ses, cli, got, pub, bench>>

\* A message: a wire frame, or the caller's bytes as they are.  id is its sequence
\* number, 0 when it has none.
Frame(n) == [id |-> n, frame |-> TRUE]
Bytes(n) == [id |-> n, frame |-> FALSE]

NewSession ==
    [at |-> "none",      \* the handler goroutine, or where its callbacks are
     ctx |-> FALSE,      \* its context is cancelled
     q |-> <<>>,         \* the queue
     hand |-> <<>>,      \* the message being written
     pump |-> "none",    \* the write pump of a WebSocket session
     wire |-> <<>>,      \* written and not yet read by the client
     up |-> FALSE,       \* the server's end of the connection is open
     peer |-> "none",    \* the client's end: "open", "closed" or "silent"
     from |-> 0,         \* the Last-Event-ID of the request
     cut |-> FALSE, mark |-> 0, upto |-> 0, since |-> 0, read |-> 0, dropped |-> 0]
       \* history: broken by the network, seqCounter when the replay of an SSE
       \* stream begins and when the stream is stored, calls of Broadcast that
       \* went before the registration, frames that the client read, frames
       \* dropped by a full queue or, as datagrams, on the way

NewClient ==
    [pc |-> "idle", ctx |-> FALSE, n |-> 0, conn |-> 0, lastID |-> 0]
    \* pc, its context is cancelled, its newest session, the session in c.conn,
    \* lastEventID (SSE)

SessionInit(Modes) ==
    /\ \E m \in Modes : srv = [started |-> FALSE, listening |-> FALSE, done |-> FALSE,
                              stop |-> "no", conns |-> 0, mode |-> m]
    /\ entries = <<>>
    /\ ses = [s \in Session |-> NewSession]
    /\ cli = [c \in Client |-> NewClient]
    /\ got = [c \in Client |-> <<>>]
    /\ pub = [seq |-> 0, calls |-> 0, sends |-> 0, lost |-> 0,
              replay |-> <<>>, now |-> 0, todo |-> {}]
    /\ bench \in Callers

-----------------------------------------------------------------------------
(* Sessions, seen from the server.                                          *)

Registered == {entries[k] : k \in DOMAIN entries}

Store(k, s) == entries' = (k :> s) @@ entries

\* Mutant: the entry stays.
Keep(k) == UNCHANGED entries

Delete(k) == entries' = [j \in DOMAIN entries \ {k} |-> entries[j]]

At(s, from) == ses[s].at = from

\* Session s has been entered into the table, and is not finished.
Served(s) == ses[s].at \in {"stored", "serving"}

\* The sessions whose handler has not returned.
Running == {s \in Session : ses[s].at \notin {"none", "gone"}}

Cancelled(S) == [s \in Session |-> [ses[s] EXCEPT !.ctx = @ \/ s \in S]]

\* The handler of s returns: its queue is garbage and the connection closes.
\* The history of a session ends with its handler.
Gone(s) ==
    ses' = [ses EXCEPT ![s].at = "gone", ![s].ctx = TRUE, ![s].q = <<>>,
                       ![s].hand = <<>>, ![s].up = FALSE,
                       ![s].mark = 0, ![s].upto = 0, ![s].read = 0, ![s].dropped = 0]

\* The same for a session with a write pump, which ends by itself.
Left(s) == ses' = [ses EXCEPT ![s].at = "gone", ![s].ctx = TRUE, ![s].up = FALSE,
                              ![s].read = 0, ![s].dropped = 0]

\* The pump of s returns, and cancels the context of the session.
PumpEnds(s) ==
    ses' = [ses EXCEPT ![s].pump = "ended", ![s].ctx = TRUE, ![s].hand = <<>>, ![s].q = <<>>]

PeerGone(s) == ses[s].peer = "closed"

\* The Broadcast that is under way has not come to session s.
Due(s) == IF pub.now > 0 /\ (proto = "sse" \/ s \in pub.todo) THEN 1 ELSE 0

\* Mutant: the queue has no bound.
OfferedUnbounded(s, m) == [ses[s] EXCEPT !.q = Append(@, m)]

\* A send on the queue with a default case: a full queue drops the message.
Offered(s, m) ==
    IF Len(ses[s].q) < Cap THEN [ses[s] EXCEPT !.q = Append(@, m)]
    ELSE [ses[s] EXCEPT !.dropped = @ + IF m.frame THEN 1 ELSE 0]

Offer(S, m) == ses' = [s \in Session |-> IF s \in S THEN Offered(s, m) ELSE ses[s]]

Full(S) == {s \in S : Len(ses[s].q) = Cap}

\* Mutant: waits for a second message to write with the first.
TakeTwo(s) ==
    /\ ses[s].hand = <<>> /\ Len(ses[s].q) > 1
    /\ ses' = [ses EXCEPT ![s].hand = <<Head(ses[s].q)>>, ![s].q = Tail(@)]

\* One message leaves the queue for the hand of the goroutine that writes.
Take(s) ==
    /\ ses[s].hand = <<>> /\ ses[s].q # <<>>
    /\ ses' = [ses EXCEPT ![s].hand = <<Head(ses[s].q)>>, ![s].q = Tail(@)]

\* Mutant: a write that does not fit is taken for done.
WrittenOrDiscarded(s) ==
    /\ ses[s].hand # <<>> /\ ~PeerGone(s) /\ ses[s].up
    /\ ses' = [ses EXCEPT ![s].hand = Tail(@), ![s].wire =
                  IF Len(@) < Wire THEN Append(@, Head(ses[s].hand)) ELSE @]

\* The write of it returns: with success once there is room, ...
Written(s) ==
    /\ ses[s].hand # <<>> /\ ~PeerGone(s) /\ ses[s].up /\ Len(ses[s].wire) < Wire
    /\ ses' = [ses EXCEPT ![s].wire = Append(@, Head(ses[s].hand)), ![s].hand = Tail(@)]

\* ... or with an error when the connection is gone.
WriteError(s) == ses[s].hand # <<>> /\ (PeerGone(s) \/ ~ses[s].up)

\* A write with a deadline also fails when nothing makes room for it in time.
WriteTimeout(s) == ses[s].hand # <<>> /\ Len(ses[s].wire) = Wire

\* A server program exits when Stop returns, a bench run that fails to start is
\* given up, and a panic of one of its goroutines ends it: there this model ends.
Over == bench \in {"failed", "crashed"}
        \/ (bench = "main" /\ srv.stop \in {"returned", "timeout"})

\* The steps of a protocol are steps of a behaviour of it.
Of(p) == proto = p /\ ~Over /\ UNCHANGED proto

\* The callers of Broadcast begin once Start has returned.
Publishing ==
    /\ bench \in {"ready", "closing", "stopped", "main"}
    /\ pub.calls + pub.sends < MaxCalls[proto]

Sending == Publishing /\ pub.sends < MaxSend

\* The client may open another connection.
MayDial(c) == srv.listening /\ ~cli[c].ctx /\ cli[c].n < Attempts[proto]

-----------------------------------------------------------------------------
(* Sessions, seen from the client.                                          *)

\* The session that client c reads from.
Mine(c) == <<c, cli[c].conn>>

\* One message is read and handed to the handler, which ignores what is no frame.
ReadOne(c) ==
    LET s == Mine(c)
        m == Head(ses[s].wire) IN
    /\ cli[c].pc = "reading" /\ ses[s].wire # <<>>
    /\ ses' = [ses EXCEPT ![s].wire = Tail(@),
                          ![s].read = @ + IF m.frame /\ Served(s) THEN 1 ELSE 0]
    /\ got' = IF m.frame THEN [got EXCEPT ![c] = Append(@, m.id)] ELSE got

\* The read fails: the server's end is closed and everything before is read.
AtEOF(c) == ~ses[Mine(c)].up /\ ses[Mine(c)].wire = <<>>

\* The client's end of session s closes; what it has not read is gone.
Hangup(s) == [ses EXCEPT ![s].peer = "closed", ![s].wire = <<>>]

\* Client c opens session <<c, n>>: its request reaches the server.
Open(c, n) ==
    [ses EXCEPT ![<<c, n>>].at = "begun", ![<<c, n>>].up = TRUE,
                ![<<c, n>>].peer = "open", ![<<c, n>>].from = cli[c].lastID]

\* The network breaks a connection: both ends find out when they use it.
CutsLeft == Cardinality({t \in Session : ses[t].cut}) < MaxCuts

Broken(s) == [Hangup(s) EXCEPT ![s].up = FALSE, ![s].cut = TRUE]

NetworkCut(s) ==
    /\ ~Over /\ ses[s].peer = "open" /\ ses[s].up /\ CutsLeft
    /\ ses' = Broken(s)
    /\ UNCHANGED <<proto, srv, entries, cli, got, pub, bench>>

\* The host of a client of another process vanishes without a word.  The HTTP
\* servers leave it to the kernel to find out, which makes it a closed connection;
\* the others have deadlines.
PeerVanishes(s) ==
    /\ ~Over /\ bench = "main" /\ ses[s].peer = "open"
    /\ proto \in {"gorilla", "gobwas", "coder", "webtransport", "udp", "webrtc"}
    /\ ses' = [ses EXCEPT ![s].peer = "silent"]
    /\ cli' = [cli EXCEPT ![s[1]].pc = "ended"]
    /\ UNCHANGED <<proto, srv, entries, got, pub, bench>>

=============================================================================
