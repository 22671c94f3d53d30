-------------------------- MODULE NaiveBroadcaster --------------------------
(* internal/broadcast/naive.go: one list of writers, and every call holds     *)
(* the mutex from its first to its last write.                                *)
EXTENDS Fanout

\* Mutant: does not wait for the call that holds the mutex.
NaiveLock_Unheld == TRUE

\* b.mu.Lock() returns.
NaiveLock == held = 0

NaiveAdd(w) ==
    /\ Of("naive") /\ NaiveLock /\ Join(w, 0)
    /\ UNCHANGED <<call, job, held, chan, gor, conn, wkr, ring, down, got, past>>

NaiveRemove(w) ==
    /\ Of("naive") /\ NaiveLock /\ Asked /\ Leave(w, 0)
    /\ past' = [past EXCEPT !.removes = @ + 1]
    /\ UNCHANGED <<call, job, held, chan, gor, conn, wkr, ring, down, got>>

\* The steps of Broadcast: the lock, one write at a time, the deferred unlock.
NaiveBroadcast(k) ==
    /\ Of("naive")
    /\ \/ /\ NaiveLock /\ Begin(k)
          /\ held' = k
          /\ call' = [call EXCEPT ![k].pc = "open"]
          /\ job' = [job EXCEPT ![k][0] = Elements(slice[0])]
          /\ UNCHANGED <<slice, chan, gor, conn, wkr, ring, down, got, past>>
       \/ call[k].pc = "open" /\ WriteNext(k, 0)
       \/ /\ call[k].pc = "open" /\ job[k][0] = <<>>
          /\ held' = 0
          /\ call' = Returned(k, call[k].err)
          /\ UNCHANGED <<slice, job, chan, gor, conn, wkr, ring, down, got, log>>

=============================================================================
