------------------------------- MODULE Router -------------------------------
(***************************************************************************)
(* pkg/market/router.go: which connections want the ticks of which         *)
(* instrument.  Every instrument is in a shard with a lock; a call that    *)
(* concerns several shards takes their locks one after the other.  Here    *)
(* every instrument has a shard of its own.                                *)
(***************************************************************************)
EXTENDS Naturals, FiniteSets

CONSTANTS
    Conn,        \* the connections
    Instrument,  \* the instrument hashes
    MaxRoutes    \* bound: ticks that are routed

ASSUME RouterAssumption == Instrument # {} /\ MaxRoutes \in Nat

Tick == 1 .. MaxRoutes

VARIABLES
    subs,   \* subs[h]: the connections subscribed to h
    user,   \* user[c]: want and drop (what Subscribe and Unsubscribe have still to
            \* do), closed (UnsubscribeAll was called), left (the shards it has not
            \* come to), raced (history: a Subscribe overlapped it or came later)
    route   \* route[r]: pc, async (RouteAsync), h, todo (the subscribers to serve)

router == <<subs, user, route>>

RouterInit ==
    /\ subs = [h \in Instrument |-> {}]
    /\ user = [c \in Conn |-> [want |-> {}, drop |-> {}, closed |-> FALSE,
                               left |-> Instrument, raced |-> FALSE]]
    /\ route = [r \in Tick |-> [pc |-> "new", async |-> FALSE, todo |-> {},
                                h |-> CHOOSE h \in Instrument : TRUE]]

\* Mutant: a lock for reading is no obstacle.
Lock_Shared(h) == TRUE

\* s.mu.Lock() returns: no call of Route holds the lock of the shard of h.
Lock(h) == \A r \in Tick : route[r].pc = "open" /\ route[r].h = h => route[r].async

Subscribe(c) ==
    \/ /\ user[c].want = {} /\ user[c].drop = {}
       /\ \E H \in SUBSET Instrument \ {{}} :
             user' = [user EXCEPT ![c] = [@ EXCEPT !.want = H, !.raced = user[c].raced \/ user[c].closed]]
       /\ UNCHANGED <<subs, route>>
    \/ \E h \in user[c].want :
          /\ Lock(h)
          /\ subs' = [subs EXCEPT ![h] = @ \cup {c}]
          /\ user' = [user EXCEPT ![c].want = @ \ {h}]
          /\ UNCHANGED route

Unsubscribe(c) ==
    \/ /\ user[c].want = {} /\ user[c].drop = {}
       /\ \E H \in SUBSET Instrument \ {{}} : user' = [user EXCEPT ![c].drop = H]
       /\ UNCHANGED <<subs, route>>
    \/ \E h \in user[c].drop :
          /\ Lock(h)
          /\ subs' = [subs EXCEPT ![h] = @ \ {c}]
          /\ user' = [user EXCEPT ![c].drop = @ \ {h}]
          /\ UNCHANGED route

\* Called when the connection closes, not by the goroutine that subscribes; it looks
\* into one shard after the other.
UnsubscribeAll(c) ==
    \/ /\ ~user[c].closed
       /\ user' = [user EXCEPT ![c].closed = TRUE, ![c].raced = user[c].want # {}]
       /\ UNCHANGED <<subs, route>>
    \/ \E h \in user[c].left :
          /\ user[c].closed /\ Lock(h)
          /\ subs' = [subs EXCEPT ![h] = @ \ {c}]
          /\ user' = [user EXCEPT ![c].left = @ \ {h}]
          /\ UNCHANGED route

\* Route and RouteAsync: the former holds the lock while it serves, the latter only
\* while it copies the subscribers.
Route(r) ==
    /\ \/ /\ route[r].pc = "new"
          /\ \E h \in Instrument, async \in BOOLEAN :
                route' = [route EXCEPT ![r] =
                            [pc |-> "open", async |-> async, h |-> h, todo |-> subs[h]]]
       \/ /\ route[r].pc = "open"
          /\ \E c \in route[r].todo : route' = [route EXCEPT ![r].todo = @ \ {c}]
       \/ /\ route[r].pc = "open" /\ route[r].todo = {}
          /\ route' = [route EXCEPT ![r].pc = "returned"]
    /\ UNCHANGED <<subs, user>>

RouterNext ==
    \/ \E c \in Conn : Subscribe(c)
    \/ \E c \in Conn : Unsubscribe(c)
    \/ \E c \in Conn : UnsubscribeAll(c)
    \/ \E r \in Tick : Route(r)

RouterSpec == RouterInit /\ [][RouterNext]_router

\* Once UnsubscribeAll has returned, the closed connection is subscribed to nothing
\* and no Route will serve it, unless a Subscribe of it was under way or came later.
\* A RouteAsync may serve it still.
ClosedIsForgotten ==
    \A c \in Conn : (user[c].closed /\ user[c].left = {} /\ ~user[c].raced) =>
        /\ \A h \in Instrument : c \notin subs[h]
        /\ \A r \in Tick : c \in route[r].todo => route[r].async

=============================================================================
