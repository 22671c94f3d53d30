------------------------ MODULE WorkerPoolBroadcaster ------------------------
(* internal/broadcast/workerpool.go: a call copies the writers of each shard  *)
(* in turn, hands each copy to a goroutine of the pool, and waits for them.   *)
EXTENDS Fanout

PoolAdd(w) ==
    /\ Of("workerpool") /\ Join(w, shardIndex[w])
    /\ UNCHANGED <<call, job, held, chan, gor, conn, wkr, ring, down, got, past>>

PoolRemove(w) ==
    /\ Of("workerpool") /\ Asked /\ Leave(w, shardIndex[w])
    /\ past' = [past EXCEPT !.removes = @ + 1]
    /\ UNCHANGED <<call, job, held, chan, gor, conn, wkr, ring, down, got>>

\* The tasks that goroutines of the pool execute.
Tasks == {t \in Call \X Shard :
            job[t[1]][t[2]] # <<>> /\ ~(call[t[1]].own /\ t[2] + 1 = call[t[1]].at)}

\* pool.Submit waits for a goroutine to be free, unless there is nothing to do or
\* the pool is released.  Then it fails, and the caller executes the task before it
\* goes on.
Submit(k) ==
    LET i == call[k].at
        writers == Elements(slice[i]) IN
    /\ call[k].pc = "open" /\ i < numShards
    /\ call[k].own => job[k][i - 1] = <<>>
    /\ writers = <<>> \/ down = "done" \/ Cardinality(Tasks) < PoolSize
    /\ job' = [job EXCEPT ![k][i] = writers]
    /\ call' = [call EXCEPT ![k].at = @ + 1, ![k].own = writers # <<>> /\ down = "done"]
    /\ UNCHANGED <<slice, held, chan, gor, conn, wkr, ring, down, got, log>>

\* Mutant: returns without wg.Wait().
Wait_Not(k) == call[k].pc = "open" /\ call[k].at = numShards

\* wg.Wait() returns: every task is done.
Wait(k) ==
    /\ call[k].pc = "open" /\ call[k].at = numShards
    /\ \A i \in Shard : job[k][i] = <<>>

\* The steps of Broadcast, and those of the tasks that it submitted.
PoolBroadcast(k) ==
    /\ Of("workerpool")
    /\ \/ /\ Begin(k)
          /\ call' = [call EXCEPT ![k].pc = "open"]
          /\ UNCHANGED <<slice, job, held, chan, gor, conn, wkr, ring, down, got, past>>
       \/ Submit(k)
       \/ \E i \in Shard : WriteNext(k, i)
       \/ /\ Wait(k)
          /\ call' = Returned(k, call[k].err)
          /\ UNCHANGED <<slice, job, held, chan, gor, conn, wkr, ring, down, got, log>>

PoolRelease ==
    /\ Of("workerpool") /\ down = "no"
    /\ down' = "done"
    /\ UNCHANGED <<slice, call, job, held, chan, gor, conn, wkr, ring, got, log>>

=============================================================================
