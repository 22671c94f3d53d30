---------------------------- MODULE MCTransports ----------------------------
(* Transports for TLC. *)
EXTENDS Transports

\* The clients that reconnect do so once.
MCAttempts ==
    [p \in {"http1", "http2", "webtransport", "udp", "webrtc"} |-> 1]
    @@ [p \in {"gorilla", "gobwas", "coder", "http3", "sse"} |-> 2]

\* Two calls of Broadcast.  With two clients, those of gorilla and coder reconnect
\* too often for a second one; with one client they have it, and so have the
\* protocols whose Broadcast can wait.
MCCalls == [p \in DOMAIN MCAttempts |-> IF p \in {"gorilla", "coder"} THEN 1 ELSE 2]
MCLiveCalls == [p \in DOMAIN MCAttempts |->
                  IF p \in {"gorilla", "coder", "sse", "webtransport"} THEN 2 ELSE 1]

Symmetry == Permutations(Client)

=============================================================================
