------------------------- MODULE ShardedBroadcaster -------------------------
(* internal/broadcast/sharded.go: a call queues its message in the channel of *)
(* each shard, whose goroutine writes it to the writers of the shard.  The    *)
(* goroutine reads the slice under the lock and its array after it.           *)
EXTENDS Fanout

ShardedAdd(w) ==
    /\ Of("sharded") /\ Join(w, shardIndex[w])
    /\ UNCHANGED <<call, job, held, chan, gor, conn, wkr, ring, down, got, past>>

\* A Remove that meets the goroutine at its writes tears the iteration.
ShardedRemove(w) ==
    LET i == shardIndex[w] IN
    /\ Of("sharded") /\ Asked /\ Leave(w, i)
    /\ past' = [past EXCEPT !.removes = @ + 1,
                            !.torn = @ \cup IF gor[i].len > 0 THEN {<<gor[i].msg, i>>} ELSE {}]
    /\ UNCHANGED <<call, job, held, chan, gor, conn, wkr, ring, down, got>>

ShardedStart ==
    /\ Of("sharded") /\ gor[0].pc = "none"
    /\ gor' = [i \in Shard |-> [NewGoroutine EXCEPT !.pc = "select"]]
    /\ UNCHANGED <<slice, call, job, held, chan, conn, wkr, ring, down, got, log>>

\* Mutant: a full channel makes room for the new message.
Queue_Replace(k, i) ==
    chan' = [chan EXCEPT ![i] = IF Len(@) < shardChanCap THEN Append(@, k) ELSE <<k>>]

\* The send to the channel of shard i, which drops the message when it is full.
Queue(k, i) == chan' = [chan EXCEPT ![i] = IF Len(@) < shardChanCap THEN Append(@, k) ELSE @]

\* The writers that a full channel of shard i leaves without the message.
Dropped(i) ==
    IF Len(chan[i]) < shardChanCap THEN {} ELSE {w \in Writer : shardIndex[w] = i}

\* Broadcast: own remembers that some channel took the message.
ShardedBroadcast(k) ==
    LET i == call[k].at IN
    /\ Of("sharded")
    /\ \/ /\ Begin(k) /\ gor[0].pc # "none" /\ down # "done"
          /\ call' = [call EXCEPT ![k].pc = "open"]
          /\ past' = [past EXCEPT !.late = @ \cup IF down = "no" THEN {} ELSE {k}]
          /\ UNCHANGED <<slice, job, held, chan, gor, conn, wkr, ring, down, got>>
       \/ /\ call[k].pc = "open" /\ i < numShards
          /\ Queue(k, i)
          /\ owes' = [owes EXCEPT ![k] = @ \ Dropped(i)]
          /\ call' = [call EXCEPT ![k].at = @ + 1,
                                  ![k].own = @ \/ Len(chan[i]) < shardChanCap]
          /\ UNCHANGED <<slice, job, held, gor, conn, wkr, ring, down, got, may, past>>
       \/ /\ call[k].pc = "open" /\ i = numShards
          /\ call' = Returned(k, ~call[k].own)
          /\ UNCHANGED <<slice, job, held, chan, gor, conn, wkr, ring, down, got, log>>

HasNone(i) == gor[i].msg = 0

\* A message leaves the channel, ...
Take(i) ==
    /\ HasNone(i) /\ chan[i] # <<>>
    /\ chan' = [chan EXCEPT ![i] = Tail(@)]
    /\ gor' = [gor EXCEPT ![i].msg = Head(chan[i])]
    /\ UNCHANGED <<slice, call, job, held, conn, wkr, ring, down, got, log>>

\* ... and the goroutine copies the slice under the lock: not the array behind it.
Copy(i) ==
    /\ ~HasNone(i) /\ gor[i].len = 0
    /\ gor' = [gor EXCEPT ![i] =
                IF slice[i].len = 0 THEN [NewGoroutine EXCEPT !.pc = gor[i].pc]
                ELSE [@ EXCEPT !.array = Len(slice[i].arrays), !.len = slice[i].len, !.i = 1]]
    /\ UNCHANGED <<slice, call, job, held, chan, conn, wkr, ring, down, got, log>>

\* The range over the copy reads each element when it comes to it, and ignores what
\* Write returns.
Deliver(i) ==
    LET g == gor[i]
        w == slice[i].arrays[g.array][g.i] IN
    /\ g.len > 0
    /\ gor' = [gor EXCEPT ![i] = IF g.i = g.len \/ w = NoWriter
                                 THEN [NewGoroutine EXCEPT !.pc = g.pc]
                                 ELSE [g EXCEPT !.i = @ + 1]]
    /\ IF w = NoWriter
       THEN past' = [past EXCEPT !.panicked = TRUE] /\ UNCHANGED <<got, owes>>
       ELSE Succeeds(g.msg, w)
    /\ UNCHANGED <<slice, call, job, held, chan, conn, wkr, ring, down, may>>

\* Mutant: returns without draining the channel.
End_Undrained(i) == gor[i].pc = "drain"

\* The default case of the draining loop.
End(i) == gor[i].pc = "drain" /\ chan[i] = <<>>

\* The loops of the goroutine: select takes a message or notices stop; then the
\* channel is drained.
runShard(i) ==
    /\ Of("sharded")
    /\ \/ gor[i].pc \in {"select", "drain"} /\ Take(i)
       \/ Copy(i)
       \/ Deliver(i)
       \/ /\ gor[i].pc = "select" /\ HasNone(i) /\ down # "no"
          /\ gor' = [gor EXCEPT ![i].pc = "drain"]
          /\ UNCHANGED <<slice, call, job, held, chan, conn, wkr, ring, down, got, log>>
       \/ /\ End(i) /\ HasNone(i)
          /\ gor' = [gor EXCEPT ![i].pc = "ended"]
          /\ UNCHANGED <<slice, call, job, held, chan, conn, wkr, ring, down, got, log>>

\* close(b.stop), and wg.Wait().
ShardedStop ==
    /\ Of("sharded") /\ gor[0].pc # "none"
    /\ \/ /\ down = "no" /\ down' = "stopping"
          /\ past' = [past EXCEPT !.late = Open]
       \/ /\ down = "stopping" /\ \A i \in Shard : gor[i].pc = "ended"
          /\ down' = "done" /\ UNCHANGED past
    /\ UNCHANGED <<slice, call, job, held, chan, gor, conn, wkr, ring, got, owes, may>>

=============================================================================
