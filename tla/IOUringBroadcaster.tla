------------------------- MODULE IOUringBroadcaster -------------------------
(* internal/broadcast/iou.go with an active ring: a call copies connFDs and   *)
(* submits one write per descriptor, in batches that fit the ring, each under *)
(* the lock of the ring until its completions are drained.                    *)
EXTENDS Fanout

\* Add appends the descriptor without a look at the list: one that is there already
\* gets a second entry, which is another w, and is written to once for each.
RingAdd(w) ==
    /\ Of("iouring") /\ Join(w, 0)
    /\ UNCHANGED <<call, job, held, chan, gor, conn, wkr, ring, down, got, past>>

\* Remove takes the first entry of its descriptor, and only that one.  Which entry
\* this is depends on the descriptors of the others, and may be any.
RingRemove(w) ==
    /\ Of("iouring") /\ Asked /\ Leave(w, 0)
    /\ past' = [past EXCEPT !.removes = @ + 1]
    /\ UNCHANGED <<call, job, held, chan, gor, conn, wkr, ring, down, got>>

\* The submission queue after a batch: an entry lies at its position modulo the
\* size of the ring, where it replaces one that the kernel has not consumed.
Published(batch) ==
    LET all == ring.sq \o batch
        lap(p) == p + iouRingSize * ((Len(all) - p) \div iouRingSize) IN
    [p \in DOMAIN all |-> all[lap(p)]]

Batch(k) ==
    SubSeq(job[k][0], 1, IF Len(job[k][0]) < iouRingSize THEN Len(job[k][0]) ELSE iouRingSize)

\* submitBatch up to the call of io_uring_enter, under ring.mu.
Fill(k) ==
    LET batch == Batch(k) IN
    /\ call[k].pc = "open" /\ job[k][0] # <<>> /\ held = 0
    /\ held' = k
    /\ ring' = [ring EXCEPT !.sq = Published([p \in DOMAIN batch |-> <<k, batch[p]>>]),
                            !.want = Len(batch)]
    /\ job' = [job EXCEPT ![k][0] = SubSeq(@, Len(batch) + 1, Len(@))]
    /\ call' = [call EXCEPT ![k].at = 1]
    /\ UNCHANGED <<slice, chan, gor, conn, wkr, down, got, log>>

\* io_uring_enter consumes as many entries as the batch has, or fails and consumes
\* none; submitBatch then returns the error and leaves the entries in the queue.
Enter(k) ==
    /\ held = k /\ call[k].at = 1
    /\ \/ /\ ring' = [ring EXCEPT !.flight = @ \cup Range(SubSeq(ring.sq, 1, ring.want)),
                                  !.sq = SubSeq(@, ring.want + 1, Len(@))]
          /\ call' = [call EXCEPT ![k].at = 2]
          /\ UNCHANGED <<held, past>>
       \/ /\ past.fails < MaxFails
          /\ past' = [past EXCEPT !.fails = @ + 1, !.lapse = TRUE]
          /\ call' = [call EXCEPT ![k].at = 0, ![k].err = TRUE]
          /\ held' = 0
          /\ UNCHANGED ring
    /\ UNCHANGED <<slice, job, chan, gor, conn, wkr, down, got, owes, may>>

\* The kernel performs a write and posts its completion.
Complete ==
    \E op \in ring.flight :
        /\ \/ /\ Succeeds(op[1], op[2])
              /\ ring' = [ring EXCEPT !.flight = @ \ {op}, !.cq = Append(@, TRUE)]
           \/ /\ Fails(op[1], op[2])
              /\ ring' = [ring EXCEPT !.flight = @ \ {op}, !.cq = Append(@, FALSE)]
        /\ UNCHANGED <<slice, call, job, held, chan, gor, conn, wkr, down, may>>

\* Mutant: does not wait for the last completion of the batch.
Arrived_Early == Len(ring.cq) + 1 >= ring.want

\* The completions that io_uring_enter waits for are there.
Arrived == Len(ring.cq) >= ring.want

\* io_uring_enter returns, after the completions or because a signal interrupted
\* it; the completion queue is drained, an error among them kept.
Drain(k) ==
    /\ held = k /\ call[k].at = 2
    /\ \/ Arrived /\ UNCHANGED past
       \/ ~Arrived /\ past.fails < MaxFails
          /\ past' = [past EXCEPT !.fails = @ + 1, !.lapse = TRUE]
    /\ ring' = [ring EXCEPT !.cq = <<>>, !.want = 0]
    /\ call' = [call EXCEPT ![k].at = 0, ![k].err = @ \/ FALSE \in Range(ring.cq)]
    /\ held' = 0
    /\ UNCHANGED <<slice, job, chan, gor, conn, wkr, down, got, owes, may>>

RingBroadcast(k) ==
    /\ Of("iouring")
    /\ \/ /\ Begin(k)
          /\ call' = [call EXCEPT ![k].pc = "open"]
          /\ job' = [job EXCEPT ![k][0] = Elements(slice[0])]
          /\ UNCHANGED <<slice, held, chan, gor, conn, wkr, ring, down, got, past>>
       \/ Fill(k)
       \/ Enter(k)
       \/ Drain(k)
       \/ /\ call[k].pc = "open" /\ job[k][0] = <<>> /\ held # k
          /\ call' = Returned(k, call[k].err)
          /\ UNCHANGED <<slice, job, held, chan, gor, conn, wkr, ring, down, got, log>>

Kernel == Of("iouring") /\ Complete

=============================================================================
