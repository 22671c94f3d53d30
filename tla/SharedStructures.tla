-------------------------- MODULE SharedStructures --------------------------
(***************************************************************************)
(* The data structures that goroutines share, each on its own, side by     *)
(* side: the sequence tracker at the grain of its atomics, the fan-out     *)
(* strategies with the connection registry, the market router, the TCP     *)
(* client that several goroutines send with, and the buffer a batch of     *)
(* frames is encoded into.  A behaviour uses one of the five; the others   *)
(* stay as they are.                                                       *)
(***************************************************************************)
EXTENDS SequenceTrackerAtomics, Broadcasters, Router, TCPClient, Wire, TLC

CONSTANTS w1, w2, w3

VARIABLE part

\* Shard 0 has w1, shard 1 the others.
MCIndex == (w1 :> 0) @@ (w2 :> 1) @@ (w3 :> 1)

\* The tasks of the worker pool differ by shard, the sharded broadcaster is delicate
\* within a shard, io_uring takes one batch per connection, and epoll connections
\* share nothing but the workers.
MCUsers ==
    ("naive" :> {w1, w2, w3}) @@ ("registry" :> {w1, w2, w3}) @@ ("workerpool" :> {w1, w2})
    @@ ("sharded" :> {w2, w3}) @@ ("iouring" :> {w2, w3}) @@ ("epoll" :> {w2})

\* The sharded broadcaster alone.
MCSharded == "sharded" :> {w2, w3}

\* The numbers at the ends of their ranges, and payloads of every length up to one
\* more than MaxPayload.
MCSeqNums == {0, Two63, Two64 - 1}
MCTimes == {-Two63, -1, Two63 - 1}
MCPayloads == {<<>>, <<3>>, <<0, 1>>, <<1, 2, 3>>}

Symmetry == Permutations({w2, w3}) \cup Permutations(Worker) \cup Permutations(Sender)

SharedInit ==
    /\ part \in {"tracker", "fanout", "router", "client", "codec"}
    /\ AInit /\ FanoutInit /\ RouterInit /\ ClientInit /\ WireInit
    /\ part # "fanout" => kind = "naive"

SharedNext ==
    \/ part = "tracker" /\ ANext /\ UNCHANGED <<part, fanout, router, client, wire>>
    \/ part = "fanout" /\ FanoutNext /\ UNCHANGED <<part, avars, router, client, wire>>
    \/ part = "router" /\ RouterNext /\ UNCHANGED <<part, avars, fanout, client, wire>>
    \/ part = "client" /\ ClientNext /\ UNCHANGED <<part, avars, fanout, router, wire>>
    \/ part = "codec" /\ WireNext /\ UNCHANGED <<part, avars, fanout, router, client>>

SharedSpec == SharedInit /\ [][SharedNext]_<<part, avars, fanout, router, client, wire>>

=============================================================================
