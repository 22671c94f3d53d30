------------------------------- MODULE Fanout -------------------------------
(***************************************************************************)
(* What the fan-out strategies of internal/broadcast, and the connection   *)
(* registry of pkg/transport, have in common: writers that are added and   *)
(* removed while calls of Broadcast run.  This module declares the state   *)
(* of all of them and the operators on it; the module of each strategy     *)
(* says, from its own source, what its goroutines do with it.              *)
(*                                                                         *)
(* A call is named by its number, and so is the message it broadcasts.     *)
(***************************************************************************)
EXTENDS Naturals, Sequences, FiniteSets, Functions

CONSTANTS
    Writer,      \* the writers, by ID; the connections of the epoll broadcaster, by
                 \* descriptor; the entries of connFDs of the io_uring one
    NoWriter,    \* a nil Writer
    numShards,   \* 16 in the code
    shardIndex,  \* the shard of each writer: a hash of its ID
    shardChanCap,\* 256 in the code
    iouRingSize, \* 256 in the code
    PoolSize,    \* goroutines of the worker pool, at least numShards in the code
    Worker,      \* the epoll workers
    Users,       \* the strategies to look at, and the writers of each
    MaxCalls,    \* bound: calls of Broadcast
    MaxRemoves,  \* bound: calls of Remove
    MaxFails     \* bound: writes, and calls of io_uring_enter, that fail

Shard == 0 .. numShards - 1
Call == 1 .. MaxCalls

ASSUME FanoutAssumption ==
    /\ NoWriter \notin Writer
    /\ numShards \in Nat \ {0} /\ shardIndex \in [Writer -> Shard]
    /\ shardChanCap \in Nat \ {0} /\ iouRingSize \in Nat \ {0} /\ PoolSize \in Nat \ {0}
    /\ Users \in [DOMAIN Users -> SUBSET Writer]
    /\ MaxCalls \in Nat /\ MaxRemoves \in Nat /\ MaxFails \in Nat

VARIABLES
    kind,   \* the strategy this behaviour is of
    slice,  \* slice[i]: the writers of shard i, see NewSlice
    call,   \* call[k]: pc, at (the next shard), own (the caller executes the task
            \* of shard at - 1 itself), err (firstErr is set), visit (the epoll
            \* connection between append and EPOLL_CTL_MOD), seen (those before it)
    job,    \* job[k][i]: the writers that call k has still to write to in shard i
    held,   \* the call that holds the mutex of the naive broadcaster or of the ring
    chan,   \* chan[i]: the channel of shard i
    gor,    \* gor[i]: the goroutine of shard i, see NewGoroutine
    conn,   \* conn[w]: an epoll connection: pending, armed (its event is ready)
    wkr,    \* wkr[x]: an epoll worker: pc, evs (the events it has to handle),
            \* w and queue (the connection that it flushes)
    ring,   \* sq, flight (in the kernel), cq, want (completions to wait for)
    down,   \* Stop, Release or Close: "no", "stopping", "done"
    got,    \* got[w]: the messages written to w
    owes,   \* history: owes[k], the writers registered since call k began
            \* that have been neither written to nor refused
    may,    \* history: may[k], the writers registered at some time in call k of
            \* a synchronous strategy
    past    \* history: fails, removes; failed (calls with a failed write);
            \* torn (message and shard for which a Remove met an iteration);
            \* late (calls under way in Stop); lapse (a call of io_uring_enter
            \* failed or was interrupted); panicked

state == <<slice, call, job, held, chan, gor, conn, wkr, ring, down>>
log == <<owes, may, past>>
fanout == <<kind, state, got, log>>

\* A slice is a view of the newest of the arrays that it has had: append moves to
\* an array of twice the capacity when the last one is full.
NewSlice == [arrays |-> <<<<>>>>, len |-> 0]

NewGoroutine == [pc |-> "none", msg |-> 0, array |-> 0, len |-> 0, i |-> 0]

NewCall ==
    [pc |-> "new", at |-> 0, own |-> FALSE, err |-> FALSE, visit |-> NoWriter, seen |-> {}]

Array(s) == s.arrays[Len(s.arrays)]

Elements(s) == SubSeq(Array(s), 1, s.len)

\* append(s, w), unless a writer with the ID of w is there.
Appended(s, w) ==
    LET cap == Len(Array(s))
        grown == [j \in 1 .. (IF cap = 0 THEN 1 ELSE 2 * cap) |->
                    IF j <= cap THEN Array(s)[j] ELSE IF j = cap + 1 THEN w ELSE NoWriter] IN
    CASE w \in Range(Elements(s)) -> s
      [] s.len < cap -> [arrays |-> [s.arrays EXCEPT ![Len(s.arrays)][s.len + 1] = w], len |-> s.len + 1]
      [] OTHER -> [arrays |-> Append(s.arrays, grown), len |-> s.len + 1]

\* The last element takes the place of w, and its own place is cleared.
SwapDeleted(s, w) ==
    LET i == CHOOSE j \in 1 .. s.len : Array(s)[j] = w IN
    IF w \notin Range(Elements(s)) THEN s
    ELSE [arrays |-> [s.arrays EXCEPT ![Len(s.arrays)] =
                        [@ EXCEPT ![i] = Array(s)[s.len], ![s.len] = NoWriter]],
          len |-> s.len - 1]

Registered == UNION {Range(Elements(slice[i])) : i \in Shard}

FanoutInit ==
    /\ kind \in DOMAIN Users
    /\ slice = [i \in Shard |-> NewSlice]
    /\ call = [k \in Call |-> NewCall]
    /\ job = [k \in Call |-> [i \in Shard |-> <<>>]]
    /\ held = 0
    /\ chan = [i \in Shard |-> <<>>]
    /\ gor = [i \in Shard |-> NewGoroutine]
    /\ conn = [w \in Writer |-> [pending |-> <<>>, armed |-> FALSE]]
    /\ wkr = [x \in Worker |-> [pc |-> "running", evs |-> {}, w |-> NoWriter, queue |-> <<>>]]
    /\ ring = [sq |-> <<>>, flight |-> {}, cq |-> <<>>, want |-> 0]
    /\ down = "no"
    /\ got = [w \in Writer |-> <<>>]
    /\ owes = [k \in Call |-> {}] /\ may = [k \in Call |-> {}]
    /\ past = [fails |-> 0, removes |-> 0, failed |-> {}, torn |-> {}, late |-> {},
               lapse |-> FALSE, panicked |-> FALSE]

-----------------------------------------------------------------------------
\* The steps of a strategy are steps of a behaviour of it, until a panic.
Of(s) == kind = s /\ ~past.panicked /\ UNCHANGED kind

Open == {k \in Call : call[k].pc = "open"}

\* The strategies whose calls return when everything is written.
Synchronous == {"naive", "workerpool", "registry"}

\* Writer w, or the new entry w, joins shard i.
Join(w, i) ==
    /\ w \in Users[kind] \ Registered
    /\ slice' = [slice EXCEPT ![i] = Appended(@, w)]
    /\ may' = [k \in Call |-> 
                  IF k \in Open /\ kind \in Synchronous THEN may[k] \cup {w} ELSE may[k]]
    /\ UNCHANGED owes

\* Writer w leaves shard i.
Leave(w, i) ==
    /\ w \in Registered
    /\ slice' = [slice EXCEPT ![i] = SwapDeleted(@, w)]
    /\ owes' = [k \in Call |-> owes[k] \ {w}]
    /\ UNCHANGED may

\* Somebody calls Remove.
Asked == past.removes < MaxRemoves

\* Call k begins; calls are numbered in the order in which they do.
Begin(k) ==
    /\ call[k].pc = "new" /\ \A j \in Call : j < k => call[j].pc # "new"
    /\ owes' = [owes EXCEPT ![k] = Registered]
    /\ may' = [may EXCEPT ![k] = IF kind \in Synchronous THEN Registered ELSE {}]

\* Call k returns.
Returned(k, err) == [call EXCEPT ![k] = [NewCall EXCEPT !.pc = "returned", !.err = err]]

\* w.Write(data) of message k, by call k where the strategy has it: it succeeds, ...
Succeeds(k, w) ==
    /\ got' = [got EXCEPT ![w] = Append(@, k)]
    /\ owes' = [owes EXCEPT ![k] = @ \ {w}]
    /\ UNCHANGED past

\* ... or it fails.
Fails(k, w) ==
    /\ past.fails < MaxFails
    /\ past' = [past EXCEPT !.fails = @ + 1, !.failed = @ \cup {k}]
    /\ owes' = [owes EXCEPT ![k] = @ \ {w}]
    /\ UNCHANGED got

\* Call k writes to the next writer of its task for shard i, and goes on after an
\* error, the first of which it keeps.
WriteNext(k, i) ==
    /\ job[k][i] # <<>>
    /\ job' = [job EXCEPT ![k][i] = Tail(@)]
    /\ \/ Succeeds(k, Head(job[k][i])) /\ UNCHANGED call
       \/ Fails(k, Head(job[k][i])) /\ call' = [call EXCEPT ![k].err = TRUE]
    /\ UNCHANGED <<slice, held, chan, gor, conn, wkr, ring, down, may>>

=============================================================================
