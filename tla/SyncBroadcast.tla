---------------------------- MODULE SyncBroadcast ----------------------------
(***************************************************************************)
(* What a synchronous broadcaster promises (the interface Broadcaster of   *)
(* internal/broadcast/naive.go): a call writes its message at most once to *)
(* every writer that is registered at some time during the call, and when  *)
(* it returns it has written to, or been refused by, every writer that was *)
(* registered throughout.                                                  *)
(***************************************************************************)
EXTENDS Sequences, Functions

CONSTANTS Writer, Call

VARIABLES
    reg,   \* the registered writers
    pc,    \* pc[k]: call k is "new", "open" or "returned"
    owes,  \* owes[k]: registered since call k began, and not yet served
    may,   \* may[k]: registered at some time since call k began
    got    \* got[w]: the messages that were written to w

Init ==
    /\ reg = {}
    /\ pc = [k \in Call |-> "new"]
    /\ owes = [k \in Call |-> {}] /\ may = [k \in Call |-> {}]
    /\ got = [w \in Writer |-> <<>>]

Add(w) ==
    /\ reg' = reg \cup {w}
    /\ may' = [k \in Call |-> IF pc[k] = "open" THEN may[k] \cup {w} ELSE may[k]]
    /\ UNCHANGED <<pc, owes, got>>

Remove(w) ==
    /\ reg' = reg \ {w}
    /\ owes' = [k \in Call |-> owes[k] \ {w}]
    /\ UNCHANGED <<pc, may, got>>

Begin(k) ==
    /\ pc[k] = "new"
    /\ pc' = [pc EXCEPT ![k] = "open"]
    /\ owes' = [owes EXCEPT ![k] = reg] /\ may' = [may EXCEPT ![k] = reg]
    /\ UNCHANGED <<reg, got>>

\* Call k serves the writers in W; those in E return an error.
Serve(k, W, E) ==
    /\ pc[k] = "open"
    /\ W \subseteq may[k] /\ \A w \in W : k \notin Range(got[w])
    /\ got' = [w \in Writer |-> IF w \in W \ E THEN Append(got[w], k) ELSE got[w]]
    /\ owes' = [owes EXCEPT ![k] = @ \ W]
    /\ UNCHANGED <<reg, pc, may>>

Return(k) ==
    /\ pc[k] = "open" /\ owes[k] = {}
    /\ pc' = [pc EXCEPT ![k] = "returned"]
    /\ UNCHANGED <<reg, owes, may, got>>

Next ==
    \/ \E w \in Writer : Add(w) \/ Remove(w)
    \/ \E k \in Call : Begin(k) \/ Return(k)
    \/ \E k \in Call, W, E \in SUBSET Writer : Serve(k, W, E)

Spec == Init /\ [][Next]_<<reg, pc, owes, may, got>>

=============================================================================
