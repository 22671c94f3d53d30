----------------------------- MODULE Measurement -----------------------------
(***************************************************************************)
(* One benchmark run: ScenarioRunner.Run and its broadcast loops           *)
(* (internal/scenarios/runner.go) against the Recorder that the receive    *)
(* goroutines of the clients write into (pkg/metrics/recorder.go).         *)
(*                                                                         *)
(* Every client has one receive goroutine.  Its RecvHandler is four steps  *)
(* (atomic counter, map lookup, tracker, connStat) between which the       *)
(* runner's Reset, Snapshot and ConnSnapshots run.  A per-connection       *)
(* SequenceTracker is the set of numbers it has counted: SequenceTracker   *)
(* proves that its counters are those of this set inside the window, which *)
(* here is never left.                                                     *)
(***************************************************************************)
EXTENDS Integers, FiniteSets, FiniteSetsExt, Functions

CONSTANTS
    Conns,    \* the connected clients
    NoConn,   \* no client
    MaxSeq,   \* bound: broadcasts in a run, warmup included, and duplicates
    MaxWarm,  \* bound: broadcasts in its warmup
    MaxDups   \* bound: messages the network delivers once more

ASSUME MeasurementAssumption ==
    IsFiniteSet(Conns) /\ NoConn \notin Conns /\ MaxSeq \in Nat
    /\ MaxWarm \in Nat /\ MaxDups \in Nat

VARIABLES
    phase,    \* where Run is
    seqNo,    \* the transport's sequence counter: number of the last broadcast
    net,      \* net[c]: the numbers on their way to client c
    dups,     \* duplicates delivered so far
    job,      \* job[c]: what c's receive goroutine is doing
    connStats,\* connStats[c]: the connStat of c in the Recorder's map
    gen,      \* 0 for the first map, 1 for the one that Reset puts in its place
    connMu,   \* the Recorder's connMu: "free", or "runner" across its loops
    msgRecv,
    todo,     \* connections that a loop of the runner has still to visit
    loaded,   \* Snapshot: msgRecv as loaded, then divided by nConn
    cur,      \* ConnSnapshots: the connection being read, or NoConn
    view,     \* ConnSnapshots: what was read of each connection
    \* History
    warmTo,   \* number of the last warmup broadcast
    took,     \* took[c]: numbers handed to c's RecvHandler since Reset
    quiet     \* no handler ran during Reset or during the final snapshots

recorder == <<connStats, gen, connMu, msgRecv>>
results == <<todo, loaded, cur, view>>
hist == <<warmTo, took, quiet>>
vars == <<phase, seqNo, net, dups, job, recorder, results, hist>>

Seqs == 1 .. MaxSeq
Idle == [at |-> "idle", seq |-> 0, gen |-> 0]
AllIdle == \A c \in Conns : job[c].at = "idle"

\* A connStat that nobody has created yet, and the one newConnStat makes.
NoStat == [live |-> FALSE, arrived |-> {}, msgRecv |-> 0,
           firstSeq |-> 0, lastSeq |-> 0]
newConnStat == [NoStat EXCEPT !.live = TRUE]

NoView == [Delivered |-> 0, FirstSeq |-> 0, LastSeq |-> 0]

Live == {c \in Conns : connStats[c].live}

Init ==
    /\ phase = "warmup"
    /\ seqNo = 0
    /\ net = [c \in Conns |-> {}]
    /\ dups = 0
    /\ job = [c \in Conns |-> Idle]
    /\ connStats = [c \in Conns |-> NoStat]
    /\ gen = 0 /\ connMu = "free"
    /\ msgRecv = 0
    /\ todo = {} /\ loaded = 0 /\ cur = NoConn
    /\ view = [c \in Conns |-> NoView]
    /\ warmTo = 0 /\ quiet = TRUE
    /\ took = [c \in Conns |-> {}]

-----------------------------------------------------------------------------
(* The receive goroutine of client c.                                       *)

\* A handler that runs while Run is resetting or collecting disturbs it.
Disturbs == phase \notin {"warmup", "measure"}

\* The handler is called: recordSample adds to the shared counters.
RecordSample(c, s, again) ==
    /\ phase # "done"
    /\ job[c].at = "idle"
    /\ s \in net[c]
    /\ again => dups < MaxDups /\ seqNo + dups < MaxSeq
    /\ dups' = IF again THEN dups + 1 ELSE dups
    /\ net' = IF again THEN net ELSE [net EXCEPT ![c] = @ \ {s}]
    /\ msgRecv' = msgRecv + 1
    /\ job' = [job EXCEPT ![c] = [at |-> "sampled", seq |-> s, gen |-> 0]]
    /\ quiet' = (quiet /\ ~Disturbs)
    /\ took' = IF gen = 1 THEN [took EXCEPT ![c] = @ \cup {s}] ELSE took
    /\ UNCHANGED <<phase, seqNo, connStats, gen, connMu, results, warmTo>>

\* Under connMu: find the connStat of c in the current map, or create it.
LookupConn(c) ==
    /\ job[c].at = "sampled"
    /\ connMu = "free"
    /\ connStats' = IF connStats[c].live THEN connStats
                    ELSE [connStats EXCEPT ![c] = newConnStat]
    /\ job' = [job EXCEPT ![c].at = "found", ![c].gen = gen]
    /\ UNCHANGED <<phase, seqNo, net, dups, gen, connMu, msgRecv,
                   results, hist>>

\* What a handler writes into a connStat of the map that Reset has replaced is
\* never read again.
Current(c) == job[c].gen = gen

\* connStat.observe, first call: the connection's SequenceTracker.
TrackerObserve(c) ==
    /\ job[c].at = "found"
    /\ connStats' = IF Current(c)
                    THEN [connStats EXCEPT ![c].arrived = @ \cup {job[c].seq}]
                    ELSE connStats
    /\ job' = [job EXCEPT ![c].at = "observed"]
    /\ UNCHANGED <<phase, seqNo, net, dups, gen, connMu, msgRecv,
                   results, hist>>

\* connStat.observe, the section under cs.mu.
ConnStatUpdate(c) ==
    LET s == job[c].seq
    IN  /\ job[c].at = "observed"
        /\ connStats' =
             IF ~Current(c) THEN connStats
             ELSE [connStats EXCEPT
                     ![c].msgRecv = @ + 1,
                     ![c].firstSeq = IF @ = 0 \/ s < @ THEN s ELSE @,
                     ![c].lastSeq = IF s > @ THEN s ELSE @]
        /\ job' = [job EXCEPT ![c] = Idle]
        /\ UNCHANGED <<phase, seqNo, net, dups, gen, connMu, msgRecv,
                       results, hist>>

\* After Run has returned nobody looks at the Recorder any more.
Handler(c) ==
    /\ phase # "done"
    /\ LookupConn(c) \/ TrackerObserve(c) \/ ConnStatUpdate(c)

-----------------------------------------------------------------------------
(* ScenarioRunner.Run.                                                      *)

\* One turn of broadcastLoop.  The message is on its way to every client, in no
\* particular order; where a full write channel drops it, or the network loses
\* it, it stays on its way for ever.  (RecordSend, called in the measurement
\* when Broadcast returned no error, adds to counters that nothing here reads.)
BroadcastLoop ==
    /\ phase \in {"warmup", "measure"}
    /\ seqNo + dups < MaxSeq /\ (phase = "warmup" => seqNo < MaxWarm)
    /\ seqNo' = seqNo + 1
    /\ net' = [c \in Conns |-> net[c] \cup {seqNo + 1}]
    /\ UNCHANGED <<phase, dups, job, recorder, results, hist>>

\* The context of the phase expires.
WarmupExpires ==
    /\ phase = "warmup"
    /\ phase' = "resetMap"
    /\ UNCHANGED <<seqNo, net, dups, job, recorder, results, hist>>

\* Recorder.Reset begins the history of the measurement.
ForgetWarmup ==
    /\ warmTo' = seqNo
    /\ quiet' = AllIdle
    /\ UNCHANGED took

\* Mutant: the counters are zeroed before the map is replaced.
RecorderReset_CountersFirst ==
    /\ \/ /\ phase = "resetMap" /\ phase' = "resetCounters"
          /\ msgRecv' = 0
          /\ ForgetWarmup
          /\ UNCHANGED <<gen, connStats>>
       \/ /\ phase = "resetCounters" /\ phase' = "measure"
          /\ gen' = 1 /\ connStats' = [c \in Conns |-> NoStat]
          /\ UNCHANGED <<msgRecv, hist>>
    /\ UNCHANGED <<seqNo, net, dups, job, connMu, results>>

\* Recorder.Reset: a fresh map of connStats under connMu, and only then the
\* atomic counters.
RecorderReset ==
    /\ \/ /\ phase = "resetMap" /\ phase' = "resetCounters"
          /\ connMu = "free"
          /\ gen' = 1 /\ connStats' = [c \in Conns |-> NoStat]
          /\ ForgetWarmup
          /\ UNCHANGED msgRecv
       \/ /\ phase = "resetCounters" /\ phase' = "measure"
          /\ msgRecv' = 0
          /\ UNCHANGED <<gen, connStats, hist>>
    /\ UNCHANGED <<seqNo, net, dups, job, connMu, results>>

MeasureExpires ==
    /\ phase = "measure"
    /\ phase' = "snapshot"
    /\ UNCHANGED <<seqNo, net, dups, job, recorder, results, hist>>

\* Recorder.Snapshot loads the counter, then locks connMu for its loop.
SnapshotLoad ==
    /\ phase = "snapshot"
    /\ loaded' = msgRecv
    /\ phase' = "sum"
    /\ quiet' = (quiet /\ AllIdle)
    /\ UNCHANGED <<seqNo, net, dups, job, recorder, todo, cur, view,
                   warmTo, took>>

\* Mutant: Snapshot returns without unlocking connMu.
SumTrackers_NoUnlock ==
    /\ phase = "sum"
    /\ connMu = "free"
    /\ connMu' = "runner"
    /\ loaded' = IF Live # {} THEN loaded \div Cardinality(Live) ELSE loaded
    /\ phase' = "lockConns"
    /\ UNCHANGED <<seqNo, net, dups, job, connStats, gen, msgRecv,
                   todo, cur, view, hist>>

\* Under connMu, Snapshot counts the connections of the map, and then divides the
\* receive count by their number.  The sums over their trackers are left out.
SumTrackers ==
    /\ phase = "sum"
    /\ connMu = "free"
    /\ loaded' = IF Live # {} THEN loaded \div Cardinality(Live) ELSE loaded
    /\ phase' = "lockConns"
    /\ UNCHANGED <<seqNo, net, dups, job, recorder, todo, cur, view, hist>>

\* ConnSnapshots holds connMu for the whole of its loop over the map.
LockConns ==
    /\ phase = "lockConns"
    /\ connMu = "free"
    /\ connMu' = "runner"
    /\ todo' = Live
    /\ phase' = "conns"
    /\ UNCHANGED <<seqNo, net, dups, job, connStats, gen, msgRecv,
                   loaded, cur, view, hist>>

\* ConnSnapshots, one turn of its loop: the counters of c's tracker first, then
\* the section under cs.mu.
ConnSnapshot(c) ==
    /\ \/ /\ phase = "conns" /\ c \in todo /\ phase' = "connStat"
          /\ cur' = c
          /\ view' = [view EXCEPT
                        ![c].Delivered = Cardinality(connStats[c].arrived)]
          /\ UNCHANGED todo
       \/ /\ phase = "connStat" /\ c = cur /\ phase' = "conns"
          /\ cur' = NoConn /\ todo' = todo \ {c}
          /\ view' = [view EXCEPT ![c].FirstSeq = connStats[c].firstSeq,
                                  ![c].LastSeq = connStats[c].lastSeq]
    /\ quiet' = (quiet /\ AllIdle)
    /\ UNCHANGED <<seqNo, net, dups, job, recorder, loaded,
                   warmTo, took>>

ConnSnapshotsEnd ==
    /\ phase = "conns" /\ todo = {}
    /\ connMu' = "free"
    /\ phase' = "done"
    /\ UNCHANGED <<seqNo, net, dups, job, connStats, gen, msgRecv,
                   results, hist>>

-----------------------------------------------------------------------------
(* buildPerClient, over what ConnSnapshots returned.                        *)

globalMax == Max({view[c].LastSeq : c \in Live} \cup {0})

Expected(c) == globalMax - view[c].FirstSeq + 1

\* Mutant: the last sequence number is left out of what is expected.
LostOf_Exclusive(c) ==
    IF view[c].Delivered > 0 /\ view[c].FirstSeq > 0
    THEN Max({0, Expected(c) - 1 - view[c].Delivered}) ELSE 0

\* Mutant: a client is charged only up to the last number it received itself.
LostOf_OwnLast(c) ==
    IF view[c].Delivered > 0 /\ view[c].FirstSeq > 0
    THEN Max({0, view[c].LastSeq - view[c].FirstSeq + 1 - view[c].Delivered})
    ELSE 0

LostOf(c) ==
    IF view[c].Delivered > 0 /\ view[c].FirstSeq > 0
    THEN Max({0, Expected(c) - view[c].Delivered}) ELSE 0

-----------------------------------------------------------------------------
RunnerStep ==
    \/ RecorderReset
    \/ SnapshotLoad
    \/ SumTrackers
    \/ LockConns
    \/ \E c \in Conns : ConnSnapshot(c)
    \/ ConnSnapshotsEnd

Expires == WarmupExpires \/ MeasureExpires

\* Run has returned (its deferred Stop closes the clients).
Finished ==
    /\ phase = "done"
    /\ UNCHANGED vars

Next ==
    \/ BroadcastLoop
    \/ Expires
    \/ RunnerStep
    \/ \E c \in Conns :
         \/ Handler(c)
         \/ \E s \in Seqs, again \in BOOLEAN : RecordSample(c, s, again)
    \/ Finished

\* The runner and the receive goroutines are goroutines that the scheduler
\* runs; the contexts of the two phases are timers.  The network owes nothing.
Fairness ==
    /\ WF_vars(RunnerStep)
    /\ WF_vars(Expires)
    /\ \A c \in Conns : WF_vars(Handler(c))

SafetySpec == Init /\ [][Next]_vars

Spec == SafetySpec /\ Fairness

-----------------------------------------------------------------------------
Counted == [c \in Conns |-> connStats[c].msgRecv]
InHandler == {c \in Conns : job[c].at # "idle"}

(* Reset racing the receive goroutines never inflates the throughput: what  *)
(* the shared counter counts is also counted by a connStat of the current   *)
(* map, or will be when the handlers in progress return.                    *)
ResetNeverInflates ==
    gen = 1 /\ phase # "resetCounters" =>
        msgRecv <= SumFunction(Counted) + Cardinality(InHandler)

(* The numbers in [first, globalMax] that client c did not receive.         *)
MissedBy(c, received) == {s \in view[c].FirstSeq .. globalMax : s \notin received}

(* When no handler runs during Reset and during the final snapshots, the    *)
(* report is exact: the loss that buildPerClient reports for a client is    *)
(* the number of sequence numbers it missed since Reset, whatever was lost, *)
(* reordered or duplicated on the way, and the receive count of Snapshot is *)
(* the average over the clients that received anything, rounded down.       *)
ReportExactWhenQuiet ==
    phase = "done" /\ quiet =>
        /\ \A c \in Live : LostOf(c) = Cardinality(MissedBy(c, took[c]))
        /\ Live # {} => loaded = SumFunction(Counted) \div Cardinality(Live)

(* When handlers do run meanwhile, a reported client's loss is understated  *)
(* by one message at most: the one whose handler was between the tracker    *)
(* and the connStat.  (A client whose tracker had counted nothing yet is    *)
(* reported without any loss.)                                              *)
LossUnderstatedByAtMostOne ==
    phase = "done" =>
        \A c \in Live :
            view[c].Delivered > 0 /\ view[c].FirstSeq > 0 =>
                LostOf(c) + 1 >=
                    Cardinality(MissedBy(c, connStats[c].arrived))

(* Run returns: neither the locks that it shares with the handlers nor the  *)
(* traffic that keeps arriving can hold it up.                              *)
RunTerminates == <>(phase = "done")

(* runner.go:258: "each client's loss counts the sequence numbers from its  *)
(* first received seq up to globalMax that it did not receive".             *)
LossCountsOnlyMissed ==
    phase = "done" =>
        \A c \in Live :
            LostOf(c) <= Cardinality(MissedBy(c, took[c]))

(* BENCHMARKING.md:296: "Warmup is discarded. Only the measurement window   *)
(* counts".                                                                 *)
WarmupIsDiscarded ==
    phase = "done" =>
        \A c \in Live : connStats[c].arrived \cap (1 .. warmTo) = {}
=============================================================================
