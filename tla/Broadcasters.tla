---------------------------- MODULE Broadcasters ----------------------------
(***************************************************************************)
(* The strategies of Fanout.tla side by side: a behaviour is one of the    *)
(* strategy that kind names.                                               *)
(***************************************************************************)
EXTENDS NaiveBroadcaster, WorkerPoolBroadcaster, ShardedBroadcaster, EpollBroadcaster,
        IOUringBroadcaster, Registry

\* Nobody is obliged to call; a call that has begun must not be stuck.
AtRest == (Open = {} \/ past.panicked) /\ UNCHANGED fanout

FanoutNext ==
    \/ \E w \in Writer : NaiveAdd(w)
    \/ \E w \in Writer : NaiveRemove(w)
    \/ \E k \in Call : NaiveBroadcast(k)
    \/ \E w \in Writer : PoolAdd(w)
    \/ \E w \in Writer : PoolRemove(w)
    \/ \E k \in Call : PoolBroadcast(k)
    \/ PoolRelease
    \/ \E w \in Writer : ShardedAdd(w)
    \/ \E w \in Writer : ShardedRemove(w)
    \/ \E k \in Call : ShardedBroadcast(k)
    \/ ShardedStart
    \/ \E i \in Shard : runShard(i)
    \/ ShardedStop
    \/ \E w \in Writer : EpollAdd(w)
    \/ \E w \in Writer : EpollRemove(w)
    \/ \E k \in Call : EpollBroadcast(k)
    \/ \E x \in Worker : runWorker(x)
    \/ EpollClose
    \/ \E w \in Writer : RingAdd(w)
    \/ \E w \in Writer : RingRemove(w)
    \/ \E k \in Call : RingBroadcast(k)
    \/ Kernel
    \/ \E w \in Writer : RegistryAdd(w)
    \/ \E w \in Writer : RegistryRemove(w)
    \/ \E k \in Call : RegistrySnapshot(k)
    \/ AtRest

FanoutSpec == FanoutInit /\ [][FanoutNext]_fanout

-----------------------------------------------------------------------------
Sync == INSTANCE SyncBroadcast WITH
    reg <- IF kind \in Synchronous THEN Registered ELSE {},
    pc <- [k \in Call |-> IF kind \in Synchronous THEN call[k].pc ELSE "new"],
    owes <- IF kind \in Synchronous THEN owes ELSE [k \in Call |-> {}],
    may <- IF kind \in Synchronous THEN may ELSE [k \in Call |-> {}],
    got <- IF kind \in Synchronous THEN got ELSE [w \in Writer |-> <<>>]

\* The naive and the worker-pool broadcasters are synchronous broadcasters, as the
\* comment of the latter has it, and a snapshot of the registry, though taken shard
\* by shard, has every connection that stays and none that was not there.
ImplementsSync == Sync!Spec

\* No writer gets a message twice and no nil writer is called, whatever is added and
\* removed meanwhile; in the sharded broadcaster, unless a Remove met the iteration
\* over the shard, and in the io_uring one, unless a call of io_uring_enter failed
\* or was interrupted.  There it holds for each entry of connFDs: a descriptor that
\* Add was given twice has two, and gets the message twice.
AtMostOnce ==
    /\ \A w \in Writer : \A a, b \in DOMAIN got[w] :
          a # b /\ got[w][a] = got[w][b] =>
              past.lapse \/ <<got[w][a], shardIndex[w]>> \in past.torn
    /\ past.panicked => past.torn # {}

\* naive.go:26 has it of every broadcaster: "Remove deregisters the writer identified
\* by id. Safe to call concurrently."  So no Remove makes a goroutine call a nil
\* writer, or write a message twice to a writer.
RemoveIsSafe ==
    /\ ~past.panicked
    /\ \A w \in Writer : IsInjective(got[w])

\* Where message k is while writer w waits for it after the call has returned.
OnTheWay(k, w) ==
    LET i == shardIndex[w]
        g == gor[i] IN
    CASE kind = "sharded" ->
            \/ k \in Range(chan[i])
            \/ g.msg = k /\ (g.len = 0 \/ w \in Range(SubSeq(slice[i].arrays[g.array], g.i, g.len)))
            \/ <<k, i>> \in past.torn
      [] kind = "epoll" ->
            \/ k \in Range(conn[w].pending)
            \/ \E x \in Worker : wkr[x].w = w /\ k \in Range(wkr[x].queue)
      [] kind = "iouring" -> past.lapse
      [] OTHER -> FALSE

\* A message that a call accepted reaches every writer that was registered all the
\* time: when the call has returned, the message was written to it, was refused, or
\* is still on the way.  A Remove that tears an iteration of a sharded broadcaster
\* loses it, and so does a lapse of io_uring_enter.
NothingForgotten ==
    \A k \in Call : call[k].pc = "returned" => \A w \in owes[k] : OnTheWay(k, w)

Before(w, m, n) == \E a, b \in DOMAIN got[w] : a < b /\ got[w][a] = m /\ got[w][b] = n

\* The naive broadcaster is a total order: no two writers get two messages in
\* different orders.  The sharded one is, in each shard.
OneOrder ==
    kind \in {"naive", "sharded"} =>
        \A v, w \in Writer : kind = "naive" \/ shardIndex[v] = shardIndex[w] =>
            \A m, n \in Call : m # n => ~(Before(v, m, n) /\ Before(w, n, m))

\* When Stop of the sharded broadcaster returns, the channels hold no message of a
\* call that had returned before it.
StopDrains ==
    kind = "sharded" /\ down = "done" =>
        \A i \in Shard : Range(chan[i]) \subseteq past.late

\* An epoll connection with messages in its queue has its event ready, or a worker
\* that has taken the event and not yet the queue, or a call about to arm it: no
\* message waits for the next Broadcast.  After Close nobody flushes.
NoLostWakeup ==
    (kind = "epoll" /\ down = "no") =>
        \A w \in Registered : conn[w].pending # <<>> =>
            \/ conn[w].armed
            \/ \E x \in Worker : w \in wkr[x].evs
            \/ \E k \in Call : call[k].visit = w

\* A call returns an error exactly if one of its own writes failed, whichever
\* goroutine or completion it failed in.
ErrorsAreOwn ==
    kind \in {"naive", "workerpool", "iouring"} /\ ~past.lapse =>
        \A k \in Call : call[k].pc = "returned" => (call[k].err <=> k \in past.failed)

=============================================================================
