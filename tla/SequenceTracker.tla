-------------------------- MODULE SequenceTracker --------------------------
(***************************************************************************)
(* The sliding-window loss/duplicate/reorder detector of                   *)
(* pkg/metrics/sequence.go.  Observe, Flush and Reset hold the mutex       *)
(* from first to last line, so one call is one step here; what the         *)
(* lock-free readers of the counters see is the subject of                 *)
(* SequenceTrackerAtomics, which implements this specification.            *)
(***************************************************************************)
EXTENDS Naturals, FiniteSets

CONSTANTS
    WordBits,    \* bits per word of the bitmask: 64 in the code
    WindowSize,  \* the tracking window, a power of two
    MaxSeq,      \* bound: largest sequence number sent (far below 2^64 - 1)
    MaxObs       \* bound: calls of Observe between two Resets

\* NewSequenceTracker panics unless WindowSize is a power of two.  As WordBits
\* is one as well, one of them divides the other; nothing more is needed.
ASSUME TrackerAssumption ==
    /\ WordBits \in Nat \ {0}
    /\ WindowSize \in Nat \ {0}
    /\ WindowSize < WordBits \/ WindowSize % WordBits = 0
    /\ MaxSeq \in Nat
    /\ MaxObs \in Nat

Seqs == 0 .. MaxSeq

VARIABLES
    nextExpected,  \* the frontier
    window,        \* the set bits of the mask, as slots <<word, bit>>
    Delivered, Lost, Duplicated, Reordered,
    \* History of the calls since the last Reset; the code has none of these.
    arrived,       \* sequence numbers observed
    tooOld,        \* those whose first arrival was already below the window
    late,          \* those whose first arrival was in the window, but late
    flushed        \* Flush has been called ("Should only be called once")

counters == <<Delivered, Lost, Duplicated, Reordered>>
history == <<arrived, tooOld, late, flushed>>
vars == <<nextExpected, window, counters, history>>

-----------------------------------------------------------------------------
(* The bit mask: a ring of words * WordBits slots.                          *)

words == IF WindowSize \div WordBits = 0 THEN 1 ELSE WindowSize \div WordBits

\* Mutant: the ring is never wrapped.
wordIndex_NoWrap(seq) == seq \div WordBits

wordIndex(seq) == (seq \div WordBits) % words
bitMask(seq) == seq % WordBits
Slot(seq) == <<wordIndex(seq), bitMask(seq)>>

isSet(seq) == Slot(seq) \in window

\* Mutant: the loop starts one late.
Slots_SkipFirst(from, to) == {Slot(s) : s \in {t \in Seqs : from < t /\ t < to}}

\* The slots that clearRange(from, to) clears.
Slots(from, to) == {Slot(s) : s \in {t \in Seqs : from <= t /\ t < to}}

-----------------------------------------------------------------------------
(* What a call of Observe adds to the history, whatever the tracker does.   *)

BelowWindow(seq) == nextExpected > seq /\ nextExpected - seq > WindowSize

Remember(seq) ==
    /\ arrived' = arrived \cup {seq}
    /\ tooOld' = IF seq \notin arrived /\ BelowWindow(seq)
                 THEN tooOld \cup {seq} ELSE tooOld
    /\ late' = IF /\ seq \notin arrived
                  /\ ~BelowWindow(seq)
                  /\ \E s \in arrived : s > seq
               THEN late \cup {seq} ELSE late
    /\ UNCHANGED flushed

-----------------------------------------------------------------------------
Init ==
    /\ nextExpected = 0
    /\ window = {}
    /\ Delivered = 0 /\ Lost = 0 /\ Duplicated = 0 /\ Reordered = 0
    /\ arrived = {} /\ tooOld = {} /\ late = {} /\ flushed = FALSE

\* Mutant: a jump of a window or more leaves the old mask in place.
ObserveAhead_KeepOnJump(seq) ==
    /\ seq >= nextExpected
    /\ window' = (IF seq - nextExpected >= WindowSize
                  THEN window ELSE window \ Slots(nextExpected, seq + 1))
                 \cup {Slot(seq)}
    /\ Delivered' = Delivered + 1
    /\ nextExpected' = seq + 1
    /\ UNCHANGED <<Lost, Duplicated, Reordered>>

\* Observe, at or ahead of the frontier: the slots that enter the window are
\* cleared (all of them when the jump is a window wide) before seq is marked.
ObserveAhead(seq) ==
    /\ seq >= nextExpected
    /\ window' = (IF seq - nextExpected >= WindowSize
                  THEN {} ELSE window \ Slots(nextExpected, seq + 1))
                 \cup {Slot(seq)}
    /\ Delivered' = Delivered + 1
    /\ nextExpected' = seq + 1
    /\ UNCHANGED <<Lost, Duplicated, Reordered>>

\* Observe, below the window or already marked: counted as a duplicate.
ObserveDuplicate(seq) ==
    /\ seq < nextExpected
    /\ nextExpected - seq > WindowSize \/ isSet(seq)
    /\ Duplicated' = Duplicated + 1
    /\ UNCHANGED <<nextExpected, window, Delivered, Lost, Reordered>>

\* Mutant: sequence numbers below the window are looked up in the mask too.
ObserveGapFill_AnyAge(seq) ==
    /\ seq < nextExpected
    /\ ~isSet(seq)
    /\ window' = window \cup {Slot(seq)}
    /\ Delivered' = Delivered + 1
    /\ Reordered' = Reordered + 1
    /\ UNCHANGED <<nextExpected, Lost, Duplicated>>

\* Observe, in the window and not marked: a gap is filled.
ObserveGapFill(seq) ==
    /\ seq < nextExpected
    /\ nextExpected - seq <= WindowSize
    /\ ~isSet(seq)
    /\ window' = window \cup {Slot(seq)}
    /\ Delivered' = Delivered + 1
    /\ Reordered' = Reordered + 1
    /\ UNCHANGED <<nextExpected, Lost, Duplicated>>

Observe(seq) ==
    /\ Delivered + Duplicated < MaxObs
    /\ ObserveAhead(seq) \/ ObserveDuplicate(seq) \/ ObserveGapFill(seq)
    /\ Remember(seq)

\* Mutant: the loop covers [0, lastSentSeq], as the comment of Flush has it,
\* though the mask says nothing about numbers below the window.
Flush_FromZero(lastSentSeq) ==
    /\ ~flushed
    /\ Lost' = Lost + Cardinality({s \in 0 .. lastSentSeq : ~isSet(s)})
    /\ flushed' = TRUE
    /\ UNCHANGED <<nextExpected, window, Delivered, Duplicated, Reordered,
                   arrived, tooOld, late>>

Flush(lastSentSeq) ==
    /\ ~flushed
    /\ Lost' = Lost + Cardinality({s \in nextExpected .. lastSentSeq : ~isSet(s)})
    /\ flushed' = TRUE
    /\ UNCHANGED <<nextExpected, window, Delivered, Duplicated, Reordered,
                   arrived, tooOld, late>>

Reset ==
    /\ window' = {}
    /\ nextExpected' = 0
    /\ Delivered' = 0 /\ Lost' = 0 /\ Duplicated' = 0 /\ Reordered' = 0
    /\ arrived' = {} /\ tooOld' = {} /\ late' = {} /\ flushed' = FALSE

Next ==
    \/ \E seq \in Seqs : Observe(seq)
    \/ \E last \in Seqs : Flush(last)
    \/ Reset

Spec == Init /\ [][Next]_vars

-----------------------------------------------------------------------------
(* The type invariant: the counters are counts, the mask has only slots of  *)
(* the ring, and the frontier never passes the last sequence number by more *)
(* than one.                                                                *)
TypeOK ==
    /\ nextExpected \in 0 .. MaxSeq + 1
    /\ window \subseteq (0 .. words - 1) \X (0 .. WordBits - 1)
    /\ Delivered \in Nat /\ Lost \in Nat
    /\ Duplicated \in Nat /\ Reordered \in Nat
    /\ arrived \subseteq Seqs /\ tooOld \subseteq Seqs /\ late \subseteq Seqs
    /\ flushed \in BOOLEAN

(* Inside the window the mask is exact: the bit of a sequence number is set *)
(* iff that number (and not one that shares its slot) has arrived.  Stale   *)
(* bits of the previous lap of the ring would show here.                    *)
WindowExact ==
    \A s \in Seqs :
        s < nextExpected /\ nextExpected - s <= WindowSize
            => (isSet(s) <=> s \in arrived)

(* Delivered counts each distinct sequence number exactly once, and misses  *)
(* only the ones that first arrived below the window: no false duplicate    *)
(* and no double delivery, whatever the order, the gaps and the jumps.      *)
DeliveredExact == Delivered = Cardinality(arrived \ tooOld)

(* Reordered counts exactly the sequence numbers that first arrived after a *)
(* higher one and still in the window.                                      *)
ReorderedExact == Reordered = Cardinality(late)

(* Flush never declares more messages lost than are missing in [0, last].   *)
FlushNeverOvercounts ==
    [][\A last \in Seqs : Flush(last) =>
          Lost' - Lost <= Cardinality((0 .. last) \ arrived)]_vars

(* sequence.go:152: "Flush declares all sequence numbers in [0,             *)
(* lastSentSeq] that have not been received as lost."                       *)
FlushDeclaresAllMissing ==
    [][\A last \in Seqs : Flush(last) =>
          Lost' - Lost = Cardinality((0 .. last) \ arrived)]_vars
=============================================================================
