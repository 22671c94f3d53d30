------------------------------ MODULE TCPClient ------------------------------
(***************************************************************************)
(* The sending side of internal/tcp/client.go: goroutines that call Send   *)
(* and SendSync, the two pumps, and the goroutine that dials and closes,   *)
(* as often as the comment in Dial allows.  What the client receives is in *)
(* TCPServer.tla; here the peer only takes frames from the connection.     *)
(***************************************************************************)
EXTENDS Naturals, Sequences, FiniteSets, Functions

CONSTANTS
    Sender,           \* goroutines that call Send and SendSync
    tcpWriteChanCap,
    SocketCap,        \* frames that fit in the buffers of the connection
    MaxFrames,        \* bound: calls of Send and SendSync
    MaxDials          \* bound: connections

VARIABLES
    socket,   \* c.conn: number (0 for nil), up (neither side has closed it), unread
              \* (frames the peer has not taken)
    owner,    \* where the goroutine that calls Dial and Close is
    quit,     \* the channel c.done is closed
    writeCh,
    wpump,    \* writePump: pc and the frame it has taken
    rpump,    \* readPump is running
    sender,   \* sender[s]: pc, the frame, and the connection SendSync writes to
    numbers,  \* c.seqCounter
    sampling, \* the recorder's ResourceSampler: live loops, and its channels done and
              \* stopped are closed
    crashed,  \* a closed channel was closed again: the process is gone
    trace     \* history: frames accepted by the channel, written to a connection, and
              \* lost with a failed write

client == <<socket, owner, quit, writeCh, wpump, rpump, sender, numbers, sampling,
            crashed, trace>>

Idle == [pc |-> "idle", frame |-> 0, to |-> 0]

ClientInit ==
    /\ socket = [number |-> 0, up |-> FALSE, unread |-> 0]
    /\ owner = "out" /\ quit = FALSE /\ crashed = FALSE
    /\ writeCh = <<>> /\ wpump = [pc |-> "none", frame |-> 0] /\ rpump = FALSE
    /\ sender = [s \in Sender |-> Idle]
    /\ numbers = 0
    /\ sampling = [loops |-> 0, done |-> FALSE, stopped |-> FALSE]
    /\ trace = [accepted |-> <<>>, written |-> <<>>, lost |-> {}]

-----------------------------------------------------------------------------
(* Dial and Close                                                           *)

\* The client program starts the recorder it gives to the client.
StartRecorder ==
    /\ owner = "out" /\ socket.number = 0 /\ sampling.loops = 0
    /\ sampling' = [sampling EXCEPT !.loops = 1]
    /\ UNCHANGED <<socket, owner, quit, writeCh, wpump, rpump, sender, numbers, crashed, trace>>

\* A Dial that fails changes nothing.  The queue is the one of the last connection.
Dial ==
    /\ owner = "out" /\ socket.number < MaxDials
    /\ owner' = "in" /\ quit' = FALSE
    /\ socket' = [number |-> socket.number + 1, up |-> TRUE, unread |-> 0]
    /\ sampling' = [sampling EXCEPT !.loops = @ + 1]
    /\ wpump' = [pc |-> "select", frame |-> 0] /\ rpump' = TRUE
    /\ UNCHANGED <<writeCh, sender, numbers, crashed, trace>>

WgWait == ~rpump /\ wpump.pc = "none"

\* Without a connection Close is not called: the programs call it only after Dial.
Close ==
    /\ \/ /\ owner = "in" /\ owner' = "closing" /\ quit' = TRUE
          /\ UNCHANGED <<socket, sampling, crashed>>
       \/ /\ owner = "closing" /\ owner' = "waiting"
          /\ socket' = [socket EXCEPT !.up = FALSE]
          /\ UNCHANGED <<quit, sampling, crashed>>
       \/ /\ owner = "waiting" /\ WgWait /\ owner' = "stopping"
          /\ crashed' = sampling.done
          /\ sampling' = [sampling EXCEPT !.done = TRUE]
          /\ UNCHANGED <<socket, quit>>
       \/ /\ owner = "stopping" /\ sampling.stopped /\ owner' = "out"
          /\ UNCHANGED <<socket, quit, sampling, crashed>>
    /\ UNCHANGED <<writeCh, wpump, rpump, sender, numbers, trace>>

SamplerLoop ==
    /\ sampling.loops > 0 /\ sampling.done
    /\ crashed' = sampling.stopped
    /\ sampling' = [sampling EXCEPT !.loops = @ - 1, !.stopped = TRUE]
    /\ UNCHANGED <<socket, owner, quit, writeCh, wpump, rpump, sender, numbers, trace>>

-----------------------------------------------------------------------------
(* Send and SendSync                                                        *)

\* conn.Write to connection n returns without an error, or with one.
Write(n, f) ==
    /\ n = socket.number /\ socket.up /\ socket.unread < SocketCap
    /\ socket' = [socket EXCEPT !.unread = @ + 1]
    /\ trace' = [trace EXCEPT !.written = Append(@, f)]

WriteFails(n) == (n = socket.number => ~socket.up) /\ UNCHANGED socket

\* Both take a number first; from there to the channel or the connection others may
\* overtake.
NextNumber(s) ==
    /\ sender[s].pc = "idle" /\ socket.number > 0 /\ numbers < MaxFrames
    /\ numbers' = numbers + 1
    /\ \E pc \in {"Send", "SendSync"} :
          sender' = [sender EXCEPT ![s] = [pc |-> pc, frame |-> numbers + 1, to |-> 0]]
    /\ UNCHANGED <<socket, owner, quit, writeCh, wpump, rpump, sampling, crashed, trace>>

Send(s) ==
    /\ sender[s].pc = "Send"
    /\ sender' = [sender EXCEPT ![s] = Idle]
    /\ \/ /\ Len(writeCh) < tcpWriteChanCap
          /\ writeCh' = Append(writeCh, sender[s].frame)
          /\ trace' = [trace EXCEPT !.accepted = Append(@, sender[s].frame)]
       \/ /\ Len(writeCh) = tcpWriteChanCap
          /\ UNCHANGED <<writeCh, trace>>
    /\ UNCHANGED <<socket, owner, quit, wpump, rpump, numbers, sampling, crashed>>

SendSync(s) ==
    /\ \/ /\ sender[s].pc = "SendSync"
          /\ sender' = [sender EXCEPT ![s].pc = "Write", ![s].to = socket.number]
          /\ UNCHANGED <<socket, trace>>
       \/ /\ sender[s].pc = "Write"
          /\ sender' = [sender EXCEPT ![s] = Idle]
          /\ \/ Write(sender[s].to, sender[s].frame)
             \/ WriteFails(sender[s].to) /\ UNCHANGED trace
    /\ UNCHANGED <<owner, quit, writeCh, wpump, rpump, numbers, sampling, crashed>>

-----------------------------------------------------------------------------
(* The pumps, and the peer                                                  *)

\* select of c.done and c.writeCh, either of which may be taken when both are ready.
WriterSelects ==
    /\ wpump.pc = "select"
    /\ \/ /\ quit
          /\ wpump' = [pc |-> "none", frame |-> 0]
          /\ UNCHANGED writeCh
       \/ /\ writeCh # <<>>
          /\ wpump' = [pc |-> "write", frame |-> Head(writeCh)]
          /\ writeCh' = Tail(writeCh)
    /\ UNCHANGED <<socket, owner, quit, rpump, sender, numbers, sampling, crashed, trace>>

\* Mutant: after a failed write the pump goes on with the next frame.
WriterWrites_GoesOn ==
    /\ wpump.pc = "write"
    /\ wpump' = [pc |-> "select", frame |-> 0]
    /\ \/ Write(socket.number, wpump.frame)
       \/ /\ WriteFails(socket.number)
          /\ trace' = [trace EXCEPT !.lost = @ \cup {wpump.frame}]
    /\ UNCHANGED <<owner, quit, writeCh, rpump, sender, numbers, sampling, crashed>>

WriterWrites ==
    /\ wpump.pc = "write"
    /\ \/ /\ Write(socket.number, wpump.frame)
          /\ wpump' = [pc |-> "select", frame |-> 0]
       \/ /\ WriteFails(socket.number)
          /\ wpump' = [pc |-> "none", frame |-> 0]
          /\ trace' = [trace EXCEPT !.lost = @ \cup {wpump.frame}]
    /\ UNCHANGED <<owner, quit, writeCh, rpump, sender, numbers, sampling, crashed>>

readPump ==
    /\ rpump /\ (quit \/ ~socket.up)
    /\ rpump' = FALSE
    /\ UNCHANGED <<socket, owner, quit, writeCh, wpump, sender, numbers, sampling, crashed, trace>>

\* The peer takes a frame, or the connection ends.
Peer ==
    /\ socket.up
    /\ \/ socket.unread > 0 /\ socket' = [socket EXCEPT !.unread = @ - 1]
       \/ socket' = [socket EXCEPT !.up = FALSE]
    /\ UNCHANGED <<owner, quit, writeCh, wpump, rpump, sender, numbers, sampling, crashed, trace>>

\* Nobody is obliged to call; a call that has begun must not be stuck.
ClientAtRest ==
    /\ crashed \/ (owner \in {"out", "in"} /\ \A s \in Sender : sender[s].pc = "idle")
    /\ UNCHANGED client

ClientNext ==
    \/ /\ ~crashed
       /\ \/ StartRecorder
          \/ Dial
          \/ Close
          \/ SamplerLoop
          \/ \E s \in Sender : NextNumber(s)
          \/ \E s \in Sender : Send(s)
          \/ \E s \in Sender : SendSync(s)
          \/ WriterSelects
          \/ WriterWrites
          \/ readPump
          \/ Peer
    \/ ClientAtRest

ClientSpec == ClientInit /\ [][ClientNext]_client

-----------------------------------------------------------------------------
InHand == IF wpump.pc = "write" THEN <<wpump.frame>> ELSE <<>>

\* The elements of s that are in X, in their order.
Kept(s, X) ==
    LET K[i \in 0 .. Len(s)] ==
            IF i = 0 THEN <<>> ELSE IF s[i] \in X THEN Append(K[i - 1], s[i]) ELSE K[i - 1]
    IN  K[Len(s)]

\* Frames that Send accepted go out in the order in which it accepted them, across
\* a Close and a Dial too, each to one connection; one that does not was in the hands
\* of the write pump when its connection failed, and that happens at most once for
\* each connection.  What SendSync writes comes between in any order.
SendsKeepOrder ==
    /\ Kept(trace.accepted, Range(trace.accepted) \ trace.lost)
         = Kept(trace.written, Range(trace.accepted)) \o InHand \o writeCh
    /\ IsInjective(trace.written)
    /\ Cardinality(trace.lost) <= socket.number

=============================================================================
