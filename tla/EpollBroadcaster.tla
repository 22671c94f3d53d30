-------------------------- MODULE EpollBroadcaster --------------------------
(* internal/broadcast/epoll.go: a call appends its message to the queue of    *)
(* each connection and arms its edge-triggered event; workers wait for events *)
(* and flush.  Writers are connections whose descriptor connFd can extract.   *)
(* A closed epollConn is one that is out of fds, since Remove sets closed.    *)
EXTENDS Fanout

fds == Registered

\* EPOLL_CTL_ADD, which makes the event of a writable socket ready, and the store
\* in fds: a worker that takes the event before the store has nothing to write.
EpollAdd(w) ==
    /\ Of("epoll") /\ down # "done" /\ Join(w, 0)
    /\ conn' = [conn EXCEPT ![w] = [pending |-> <<>>, armed |-> TRUE]]
    /\ UNCHANGED <<call, job, held, chan, gor, wkr, ring, down, got, past>>

\* EPOLL_CTL_DEL drops an event that no worker has taken.
EpollRemove(w) ==
    /\ Of("epoll") /\ Asked /\ Leave(w, 0)
    /\ conn' = [conn EXCEPT ![w] = [pending |-> <<>>, armed |-> FALSE]]
    /\ past' = [past EXCEPT !.removes = @ + 1]
    /\ UNCHANGED <<call, job, held, chan, gor, wkr, ring, down, got>>

\* Mutant: arms the event only when the message is the first in the queue.
Arm_First(w) == [conn EXCEPT ![w].armed = @ \/ Len(conn[w].pending) = 1]

\* EPOLL_CTL_MOD makes the event ready again.
Arm(w) == [conn EXCEPT ![w].armed = TRUE]

\* The steps of Broadcast: Range visits the connections, in any order, each at most
\* once; it need not visit one that is added meanwhile, but sync.Map promises that
\* it misses none that stays throughout (owes).  Each is appended to and then armed, which
\* fails when it has left, or when Close has closed the epoll descriptor.
EpollBroadcast(k) ==
    LET C == call[k] IN
    /\ Of("epoll")
    /\ \/ /\ Begin(k)
          /\ call' = [call EXCEPT ![k].pc = "open"]
          /\ UNCHANGED <<conn, past>>
       \/ /\ C.pc = "open" /\ C.visit = NoWriter
          /\ \E w \in fds \ C.seen :
               /\ conn' = [conn EXCEPT ![w].pending = Append(@, k)]
               /\ call' = [call EXCEPT ![k].visit = w, ![k].seen = @ \cup {w}]
          /\ UNCHANGED log
       \/ /\ C.pc = "open" /\ C.visit # NoWriter
          /\ IF C.visit \in fds /\ down # "done"
             THEN conn' = Arm(C.visit) /\ call' = [call EXCEPT ![k].visit = NoWriter]
             ELSE UNCHANGED conn /\ call' = [call EXCEPT ![k].visit = NoWriter, ![k].err = TRUE]
          /\ UNCHANGED log
       \/ /\ C.pc = "open" /\ C.visit = NoWriter /\ owes[k] \subseteq C.seen
          /\ call' = Returned(k, call[k].err)
          /\ UNCHANGED <<conn, log>>
    /\ UNCHANGED <<slice, job, held, chan, gor, wkr, ring, down, got>>

\* EpollWait returns some of the ready events, and they are ready no more.
EpollWait(x) ==
    /\ wkr[x].pc = "running" /\ wkr[x].evs = {} /\ wkr[x].queue = <<>>
    /\ \E E \in SUBSET {w \in fds : conn[w].armed} \ {{}} :
          /\ wkr' = [wkr EXCEPT ![x].evs = E]
          /\ conn' = [w \in Writer |-> [conn[w] EXCEPT !.armed = @ /\ w \notin E]]
    /\ UNCHANGED <<slice, call, job, held, chan, gor, ring, down, got, log>>

\* Mutant: leaves the messages in the queue.
TakeQueue_Keep(x) ==
    /\ wkr[x].queue = <<>>
    /\ \E w \in wkr[x].evs :
          /\ wkr' = [wkr EXCEPT ![x].evs = @ \ {w}, ![x].w = IF conn[w].pending = <<>> THEN NoWriter ELSE w,
                                ![x].queue = conn[w].pending]
    /\ UNCHANGED <<slice, call, job, held, chan, gor, conn, ring, down, got, log>>

\* flushConn takes the whole queue of a connection for which it has an event, ...
TakeQueue(x) ==
    /\ wkr[x].queue = <<>>
    /\ \E w \in wkr[x].evs :
          /\ wkr' = [wkr EXCEPT ![x].evs = @ \ {w}, ![x].w = IF conn[w].pending = <<>> THEN NoWriter ELSE w,
                                ![x].queue = conn[w].pending]
          /\ conn' = [conn EXCEPT ![w].pending = <<>>]
    /\ UNCHANGED <<slice, call, job, held, chan, gor, ring, down, got, log>>

\* ... and writes it without the lock; an error removes the connection.
WriteQueue(x) ==
    LET w == wkr[x].w
        k == Head(wkr[x].queue)
        rest == Tail(wkr[x].queue) IN
    /\ wkr[x].queue # <<>>
    /\ \/ /\ Succeeds(k, w)
          /\ wkr' = [wkr EXCEPT ![x].queue = rest, ![x].w = IF rest = <<>> THEN NoWriter ELSE w]
          /\ UNCHANGED <<slice, conn>>
       \/ /\ past.fails < MaxFails
          /\ past' = [past EXCEPT !.fails = @ + 1, !.failed = @ \cup {k}]
          /\ wkr' = [wkr EXCEPT ![x].queue = <<>>, ![x].w = NoWriter]
          /\ slice' = [slice EXCEPT ![0] = SwapDeleted(@, w)]
          /\ owes' = [j \in Call |-> owes[j] \ {w}]
          /\ conn' = [conn EXCEPT ![w] = [pending |-> <<>>, armed |-> FALSE]]
          /\ UNCHANGED got
    /\ UNCHANGED <<call, job, held, chan, gor, ring, down, may>>

runWorker(x) ==
    /\ Of("epoll")
    /\ \/ EpollWait(x)
       \/ TakeQueue(x)
       \/ WriteQueue(x)
       \/ /\ wkr[x].pc = "running" /\ wkr[x].evs = {} /\ wkr[x].queue = <<>> /\ down # "no"
          /\ wkr' = [wkr EXCEPT ![x].pc = "ended"]
          /\ UNCHANGED <<slice, call, job, held, chan, gor, conn, ring, down, got, log>>

\* close(b.stop), wg.Wait(), and the epoll descriptor is closed.
EpollClose ==
    /\ Of("epoll")
    /\ \/ down = "no" /\ down' = "stopping"
       \/ down = "stopping" /\ (\A x \in Worker : wkr[x].pc = "ended") /\ down' = "done"
    /\ UNCHANGED <<slice, call, job, held, chan, gor, conn, wkr, ring, got, log>>

=============================================================================
