----------------------- MODULE SequenceTrackerAtomics -----------------------
(***************************************************************************)
(* pkg/metrics/sequence.go at the grain its lock-free readers see.  The    *)
(* mutators hold the mutex, but the four counters are atomics that         *)
(* Snapshot and LossRate load one by one without it: between two atomic    *)
(* operations of the mutator, and between two loads of a reader, the other *)
(* may run.  This specification implements SequenceTracker, whose calls    *)
(* are single steps.                                                       *)
(***************************************************************************)
EXTENDS SequenceTracker, Sequences

VARIABLES
    holder,   \* where the holder of the mutex is: "free" when nobody holds it
    cursor,   \* Flush: the loop variable s
    flushTo,  \* Flush: lastSentSeq
    reading,  \* a reader has begun
    snap,     \* the values it has loaded so far, four at the end
    began,    \* history: the counters when the reader began, unless overlap
    overlap   \* history: a Reset ran since the reader began

mutex == <<holder, cursor, flushTo>>
reader == <<reading, snap, began, overlap>>
avars == <<vars, mutex, reader>>

\* The counters as the calls in progress will leave them.
AbsDelivered == IF holder = "storeDelivered" THEN 0 ELSE Delivered
AbsLost ==
    IF holder \in {"storeDelivered", "storeLost"} THEN 0
    ELSE IF holder = "flush"
         THEN Lost + Cardinality({s \in cursor .. flushTo : ~isSet(s)})
         ELSE Lost
AbsDuplicated ==
    IF holder \in {"storeDelivered", "storeLost", "storeDuplicated"}
    THEN 0 ELSE Duplicated
AbsReordered ==
    CASE holder \in {"storeDelivered", "storeLost", "storeDuplicated",
                     "storeReordered"} -> 0
      [] holder = "addReordered" -> Reordered + 1
      [] OTHER -> Reordered

Atomic == INSTANCE SequenceTracker
          WITH Delivered <- AbsDelivered, Lost <- AbsLost,
               Duplicated <- AbsDuplicated, Reordered <- AbsReordered

-----------------------------------------------------------------------------
AInit ==
    /\ Init
    /\ holder = "free" /\ cursor = 0 /\ flushTo = 0
    /\ reading = FALSE /\ snap = <<>> /\ began = <<0, 0, 0, 0>> /\ overlap = FALSE

\* Observe: one atomic operation in the first two branches, two in a gap fill.
LockObserve(seq) ==
    /\ holder = "free"
    /\ Delivered + Duplicated < MaxObs
    /\ \/ /\ ObserveAhead(seq) \/ ObserveDuplicate(seq)
          /\ UNCHANGED holder
       \/ /\ seq < nextExpected /\ nextExpected - seq <= WindowSize /\ ~isSet(seq)
          /\ window' = window \cup {Slot(seq)}
          /\ Delivered' = Delivered + 1
          /\ UNCHANGED <<nextExpected, Lost, Duplicated, Reordered>>
          /\ holder' = "addReordered"
    /\ Remember(seq)
    /\ UNCHANGED <<cursor, flushTo, reader>>

AddReordered ==
    /\ holder = "addReordered"
    /\ Reordered' = Reordered + 1
    /\ holder' = "free"
    /\ UNCHANGED <<nextExpected, window, Delivered, Lost, Duplicated, history,
                   cursor, flushTo, reader>>

LockFlush(lastSentSeq) ==
    /\ holder = "free"
    /\ ~flushed
    /\ flushed' = TRUE
    /\ holder' = "flush" /\ cursor' = nextExpected /\ flushTo' = lastSentSeq
    /\ UNCHANGED <<nextExpected, window, counters, arrived, tooOld, late, reader>>

\* Mutant: the loop stops one short of lastSentSeq.
FlushLoop_Exclusive ==
    /\ holder = "flush"
    /\ IF cursor < flushTo
       THEN /\ Lost' = IF isSet(cursor) THEN Lost ELSE Lost + 1
            /\ cursor' = cursor + 1
            /\ UNCHANGED <<holder, flushTo>>
       ELSE holder' = "free" /\ cursor' = 0 /\ flushTo' = 0 /\ UNCHANGED Lost
    /\ UNCHANGED <<nextExpected, window, Delivered, Duplicated, Reordered,
                   history, reader>>

\* One turn of Flush's loop: one Lost.Add(1) at most; then the unlock.
FlushLoop ==
    /\ holder = "flush"
    /\ IF cursor <= flushTo
       THEN /\ Lost' = IF isSet(cursor) THEN Lost ELSE Lost + 1
            /\ cursor' = cursor + 1
            /\ UNCHANGED <<holder, flushTo>>
       ELSE holder' = "free" /\ cursor' = 0 /\ flushTo' = 0 /\ UNCHANGED Lost
    /\ UNCHANGED <<nextExpected, window, Delivered, Duplicated, Reordered,
                   history, reader>>

LockReset ==
    /\ holder = "free"
    /\ window' = {} /\ nextExpected' = 0
    /\ arrived' = {} /\ tooOld' = {} /\ late' = {} /\ flushed' = FALSE
    /\ holder' = "storeDelivered"
    /\ overlap' = reading /\ began' = <<0, 0, 0, 0>>
    /\ UNCHANGED <<counters, cursor, flushTo, reading, snap>>

\* The four stores of Reset, in its order, and the unlock after the last.
StoreZero ==
    /\ \/ /\ holder = "storeDelivered" /\ Delivered' = 0
          /\ UNCHANGED <<Lost, Duplicated, Reordered>>
          /\ holder' = "storeLost"
       \/ /\ holder = "storeLost" /\ Lost' = 0
          /\ UNCHANGED <<Delivered, Duplicated, Reordered>>
          /\ holder' = "storeDuplicated"
       \/ /\ holder = "storeDuplicated" /\ Duplicated' = 0
          /\ UNCHANGED <<Delivered, Lost, Reordered>>
          /\ holder' = "storeReordered"
       \/ /\ holder = "storeReordered" /\ Reordered' = 0
          /\ UNCHANGED <<Delivered, Lost, Duplicated>>
          /\ holder' = "free"
    /\ UNCHANGED <<nextExpected, window, history, cursor, flushTo, reader>>

-----------------------------------------------------------------------------
\* Snapshot: four loads in the order of the fields.  LossRate does the first
\* two of them.
SnapshotBegin ==
    /\ ~reading
    /\ reading' = TRUE /\ snap' = <<>>
    /\ overlap' = (holder \notin {"free", "addReordered", "flush"})
    /\ began' = IF overlap' THEN <<0, 0, 0, 0>> ELSE counters
    /\ UNCHANGED <<vars, mutex>>

\* Mutant: the third load reads the wrong counter.
SnapshotLoad_WrongField ==
    /\ reading /\ Len(snap) < 4
    /\ snap' = Append(snap, <<Delivered, Lost, Reordered, Reordered>>[Len(snap) + 1])
    /\ UNCHANGED <<vars, mutex, reading, began, overlap>>

SnapshotLoad ==
    /\ reading /\ Len(snap) < 4
    /\ snap' = Append(snap, counters[Len(snap) + 1])
    /\ UNCHANGED <<vars, mutex, reading, began, overlap>>

SnapshotReturn ==
    /\ Len(snap) = 4
    /\ reading' = FALSE /\ snap' = <<>> /\ began' = <<0, 0, 0, 0>>
    /\ overlap' = FALSE
    /\ UNCHANGED <<vars, mutex>>

-----------------------------------------------------------------------------
ANext ==
    \/ \E seq \in Seqs : LockObserve(seq)
    \/ AddReordered
    \/ \E last \in Seqs : LockFlush(last)
    \/ FlushLoop
    \/ LockReset
    \/ StoreZero
    \/ SnapshotBegin
    \/ SnapshotLoad
    \/ SnapshotReturn

ASpec == AInit /\ [][ANext]_avars

-----------------------------------------------------------------------------
(* Every call of Observe, Flush and Reset takes effect at once when it      *)
(* locks the mutex, whatever a reader sees meanwhile.                       *)
ImplementsAtomic == Atomic!Spec

(* A Snapshot during which no Reset runs loses nothing that was counted     *)
(* before it began and invents nothing: each field lies between the value   *)
(* of its counter at the beginning and the value now.                       *)
SnapshotWithinBounds ==
    ~overlap =>
        \A i \in DOMAIN snap : began[i] <= snap[i] /\ snap[i] <= counters[i]
=============================================================================
