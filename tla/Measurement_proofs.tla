------------------------- MODULE Measurement_proofs -------------------------
(***************************************************************************)
(* For any number of clients and broadcasts: what Run reports when Reset,  *)
(* Snapshot and ConnSnapshots meet receive handlers under way.             *)
(***************************************************************************)
EXTENDS Measurement, FiniteSetTheorems, WellFoundedInduction, TLAPS

-----------------------------------------------------------------------------
(* Induction.  The theorems of the library that take a set of counterexamples *)
(* instead of a predicate serve for it.                                     *)

Less == {p \in Nat \X Nat : p[1] < p[2]}

\* A non-empty set of natural numbers has a least element.
LEMMA LeastNumber ==
    ASSUME NEW T, T \subseteq Nat, T # {}
    PROVE  \E m \in T : \A n \in T : m <= n
<1>1. IsWellFoundedOn(Less, Nat)
  BY NatLessThanWellFounded, Zenon DEF OpToRel, Less
<1>2. PICK m \in T : \A n \in T : ~ (<<n, m>> \in Less)
  BY <1>1, WFMin, Zenon
<1>3. \A n \in T : n < m => <<n, m>> \in Less
  BY DEF Less
<1>4. \A n \in T : ~ (n < m)
  BY <1>2, <1>3, Zenon
<1>5. m \in Nat /\ \A n \in T : n \in Nat
  BY Zenon
<1>6. \A n \in T : m <= n
  BY <1>4, <1>5
<1> QED
  BY <1>6

\* A non-empty set of subsets of a finite set has a minimal element.
LEMMA LeastSubset ==
    ASSUME NEW S, IsFiniteSet(S), NEW T, T \subseteq SUBSET S, T # {}
    PROVE  \E t \in T : \A u \in T : u \subseteq t => u = t
<1>1. T \subseteq FiniteSubsetsOf(S)
  BY FS_FiniteSubsetsOfFinite, Zenon
<1>2. PICK t \in T : \A u \in T : ~ (<<u, t>> \in StrictSubsetOrdering(S))
  BY <1>1, FS_StrictSubsetOrderingWellFounded, WFMin, Zenon
<1>3. \A u \in T : u \subseteq t /\ u # t => <<u, t>> \in StrictSubsetOrdering(S)
  BY DEF StrictSubsetOrdering
<1>4. \A u \in T : u \subseteq t => u = t
  BY <1>2, <1>3, Zenon
<1> QED
  BY <1>4, Zenon

-----------------------------------------------------------------------------
(* Sums                                                                     *)

Pick(s) == CHOOSE x \in s : TRUE

\* it is the sum of F over the subsets of S.
Sums(F, S, it) ==
    it = [s \in SUBSET S |-> IF s = {} THEN 0 ELSE F[Pick(s)] + it[s \ {Pick(s)}]]

\* An element that is chosen from a set is one of it.
LEMMA Picked == ASSUME NEW s, s # {} PROVE Pick(s) \in s
BY DEF Pick

\* A function that is the sum over the subsets of at most k elements.
SumsTo(F, S, it, k) ==
    \A s \in SUBSET S : Cardinality(s) <= k =>
        it[s] = IF s = {} THEN 0 ELSE F[Pick(s)] + it[s \ {Pick(s)}]

\* The sum over every subset of a finite set exists.
LEMMA SumsExist ==
    ASSUME NEW S, IsFiniteSet(S), NEW F \in [S -> Nat]
    PROVE  \E it : Sums(F, S, it)
<1> DEFINE Bad == {k \in Nat : ~ \E it \in [SUBSET S -> Nat] : SumsTo(F, S, it, k)}
<1>1. \A s \in SUBSET S : IsFiniteSet(s) /\ Cardinality(s) \in Nat
  BY FS_Subset, FS_CardinalityType
<1>2. Bad = {}
  <2>1. SUFFICES ASSUME Bad # {} PROVE FALSE
    BY Zenon
  <2>2. PICK k \in Bad : \A n \in Bad : k <= n
    BY <2>1, LeastNumber, Zenon
  <2>3. CASE k = 0
    <3>1. SumsTo(F, S, [s \in SUBSET S |-> 0], 0)
      BY <1>1, FS_EmptySet DEF SumsTo
    <3> QED
      BY <2>2, <2>3, <3>1, Zenon
  <2>4. CASE k # 0
    <3>0. k \in Nat
      OBVIOUS
    <3>1. k - 1 \in Nat /\ k - 1 \notin Bad
      <4>1. k - 1 \in Nat /\ ~ (k <= k - 1)
        BY <3>0, <2>4
      <4> QED
        BY <4>1, <2>2, Zenon
    <3>2. PICK it \in [SUBSET S -> Nat] : SumsTo(F, S, it, k - 1)
      BY <3>1, Zenon
    <3> DEFINE next == [s \in SUBSET S |-> IF Cardinality(s) <= k - 1 THEN it[s]
                                           ELSE IF s = {} THEN 0 ELSE F[Pick(s)] + it[s \ {Pick(s)}]]
    <3>3. \A s \in SUBSET S : s # {} => /\ Pick(s) \in S /\ s \ {Pick(s)} \in SUBSET S
                                        /\ Cardinality(s \ {Pick(s)}) = Cardinality(s) - 1
      BY <1>1, Picked, FS_RemoveElement
    <3>4. next \in [SUBSET S -> Nat]
      <4>1. ASSUME NEW s \in SUBSET S, s # {} PROVE F[Pick(s)] + it[s \ {Pick(s)}] \in Nat
        <5>1. F[Pick(s)] \in Nat /\ it[s \ {Pick(s)}] \in Nat
          BY <3>3, <4>1
        <5> QED
          BY <5>1
      <4>2. \A s \in SUBSET S : it[s] \in Nat
        OBVIOUS
      <4> QED
        BY <4>1, <4>2
    <3>5. SumsTo(F, S, next, k)
      <4>1. SUFFICES ASSUME NEW s \in SUBSET S, Cardinality(s) <= k
                     PROVE  next[s] = IF s = {} THEN 0 ELSE F[Pick(s)] + next[s \ {Pick(s)}]
        BY Zenon DEF SumsTo
      <4>2. CASE s = {}
        BY <3>2, <4>2, <1>1 DEF SumsTo
      <4>3. CASE s # {}
        <5>1. Cardinality(s \ {Pick(s)}) <= k - 1 /\ s \ {Pick(s)} \in SUBSET S
          <6> HIDE DEF Bad, next
          <6>1. Cardinality(s \ {Pick(s)}) = Cardinality(s) - 1 /\ s \ {Pick(s)} \in SUBSET S
            BY <3>3, <4>3, Zenon
          <6>2. Cardinality(s) \in Nat
            BY <1>1
          <6> QED
            BY <6>1, <6>2, <3>0, <4>1
        <5>2. next[s \ {Pick(s)}] = it[s \ {Pick(s)}]
          BY <5>1
        <5>3. Cardinality(s) <= k - 1 => it[s] = F[Pick(s)] + it[s \ {Pick(s)}]
          BY <3>2, <4>3 DEF SumsTo
        <5>4. next[s] = F[Pick(s)] + it[s \ {Pick(s)}]
          BY <5>3, <4>3, Zenon
        <5> QED
          BY <5>2, <5>4, <4>3
      <4> QED
        BY <4>2, <4>3
    <3> QED
      BY <2>2, <3>4, <3>5, Zenon
  <2> QED
    BY <2>3, <2>4
<1>3. Cardinality(S) \in Nat /\ Cardinality(S) \notin Bad
  BY <1>2, FS_CardinalityType, Zenon
<1>4. PICK it \in [SUBSET S -> Nat] : SumsTo(F, S, it, Cardinality(S))
  BY <1>3, Zenon
<1>5. \A s \in SUBSET S : Cardinality(s) <= Cardinality(S)
  BY FS_Subset
<1>6. Sums(F, S, it)
  BY <1>4, <1>5 DEF SumsTo, Sums
<1> QED
  BY <1>6

Sigma(F, S) == CHOOSE it : Sums(F, S, it)

\* Sigma is that sum.
LEMMA SigmaSums ==
    ASSUME NEW S, IsFiniteSet(S), NEW F \in [S -> Nat]
    PROVE  Sums(F, S, Sigma(F, S))
BY SumsExist, Zenon DEF Sigma

\* The community module's SumFunction is Sigma on the whole domain.
LEMMA SumIsSigma ==
    ASSUME NEW F, NEW S, F = [x \in S |-> F[x]]
    PROVE  SumFunction(F) = Sigma(F, S)[S]
<1>1. DOMAIN F = S
  OBVIOUS
<1>2. SumFunctionOnSet(F, S) = Sigma(F, S)[S]
  BY Zenon DEF SumFunctionOnSet, FoldFunctionOnSet, MapThenFoldSet, Sigma, Sums, Pick
<1> QED
  BY <1>1, <1>2, Zenon DEF SumFunction

-----------------------------------------------------------------------------
\* What a sum over subsets is, without the IF.
LEMMA SumsAt ==
    ASSUME NEW S, NEW F, NEW it, Sums(F, S, it)
    PROVE  /\ it[{}] = 0
           /\ \A s \in SUBSET S : s # {} => it[s] = F[Pick(s)] + it[s \ {Pick(s)}]
BY Zenon DEF Sums

\* The sum of natural numbers is one, over every subset.
LEMMA SumsType ==
    ASSUME NEW S, IsFiniteSet(S), NEW F \in [S -> Nat], NEW it, Sums(F, S, it)
    PROVE  \A s \in SUBSET S : it[s] \in Nat
<1> DEFINE Bad == {s \in SUBSET S : it[s] \notin Nat}
<1> SUFFICES ASSUME Bad # {} PROVE FALSE
  OBVIOUS
<1>1. PICK s \in Bad : \A u \in Bad : u \subseteq s => u = s
  <2>1. Bad \subseteq SUBSET S
    OBVIOUS
  <2> HIDE DEF Bad
  <2> QED
    BY <2>1, LeastSubset
<1>2. s \in SUBSET S /\ s # {} /\ it[s] \notin Nat
  <2>1. it[{}] = 0
    BY SumsAt, Zenon
  <2> QED
    BY <2>1
<1>3. Pick(s) \in s
  BY <1>2, Picked
<1>4. it[s \ {Pick(s)}] \in Nat
  BY <1>1, <1>2, <1>3
<1>5. F[Pick(s)] \in Nat
  BY <1>2, <1>3
<1>6. F[Pick(s)] + it[s \ {Pick(s)}] \in Nat
  BY <1>4, <1>5
<1> QED
  BY <1>2, <1>6, SumsAt

\* The sum does not depend on which element is taken first.
LEMMA SumsRemove ==
    ASSUME NEW S, IsFiniteSet(S), NEW F \in [S -> Nat], NEW it, Sums(F, S, it)
    PROVE  \A s \in SUBSET S : \A x \in s : it[s] = F[x] + it[s \ {x}]
<1> DEFINE Bad == {s \in SUBSET S : \E x \in s : it[s] # F[x] + it[s \ {x}]}
<1> SUFFICES ASSUME Bad # {} PROVE FALSE
  BY Zenon
<1>1. PICK s \in Bad : \A u \in Bad : u \subseteq s => u = s
  <2>1. Bad \subseteq SUBSET S
    OBVIOUS
  <2> HIDE DEF Bad
  <2> QED
    BY <2>1, LeastSubset
<1>2. PICK x \in s : it[s] # F[x] + it[s \ {x}]
  OBVIOUS
<1> DEFINE y == Pick(s)
           r == s \ {x, y}
<1>3. s \in SUBSET S /\ s # {} /\ y \in s
  BY Picked
<1>4. it[s] = F[y] + it[s \ {y}]
  BY <1>3, SumsAt
<1>5. x # y
  BY <1>2, <1>4, Zenon
<1>6. \A u \in SUBSET S : u \subseteq s /\ u # s => \A z \in u : it[u] = F[z] + it[u \ {z}]
  BY <1>1, Zenon
<1> HIDE DEF Bad, y
<1>7. it[s \ {y}] = F[x] + it[r]
  <2>1. s \ {y} \in SUBSET S /\ s \ {y} # s /\ x \in s \ {y} /\ (s \ {y}) \ {x} = r
    BY <1>3, <1>5
  <2> HIDE DEF r
  <2> QED
    BY <2>1, <1>6
<1>8. it[s \ {x}] = F[y] + it[r]
  <2>1. s \ {x} \in SUBSET S /\ s \ {x} # s /\ y \in s \ {x} /\ (s \ {x}) \ {y} = r
    BY <1>3, <1>5
  <2> HIDE DEF r
  <2> QED
    BY <2>1, <1>6
<1>9. F[x] \in Nat /\ F[y] \in Nat /\ it[r] \in Nat
  <2>1. x \in S /\ y \in S /\ r \in SUBSET S
    BY <1>3
  <2> HIDE DEF r
  <2> QED
    BY <2>1, SumsType
<1> HIDE DEF r
<1>10. F[y] + (F[x] + it[r]) = F[x] + (F[y] + it[r])
  BY <1>9
<1> QED
  BY <1>2, <1>4, <1>7, <1>8, <1>10

\* Functions that agree on a set have the same sum over it.
LEMMA SumsAgree ==
    ASSUME NEW S, IsFiniteSet(S), NEW F, NEW G, NEW it, NEW jt,
           Sums(F, S, it), Sums(G, S, jt)
    PROVE  \A s \in SUBSET S : (\A x \in s : F[x] = G[x]) => it[s] = jt[s]
<1> DEFINE Bad == {s \in SUBSET S : (\A x \in s : F[x] = G[x]) /\ it[s] # jt[s]}
<1> SUFFICES ASSUME Bad # {} PROVE FALSE
  OBVIOUS
<1>1. PICK s \in Bad : \A u \in Bad : u \subseteq s => u = s
  <2>1. Bad \subseteq SUBSET S
    OBVIOUS
  <2> HIDE DEF Bad
  <2> QED
    BY <2>1, LeastSubset
<1>2. s \in SUBSET S /\ s # {} /\ it[s] # jt[s] /\ \A x \in s : F[x] = G[x]
  BY SumsAt
<1> DEFINE y == Pick(s)
<1>3. y \in s
  BY <1>2, Picked
<1>4. it[s \ {y}] = jt[s \ {y}]
  <2>1. s \ {y} \in SUBSET S /\ s \ {y} \subseteq s /\ s \ {y} # s /\ \A x \in s \ {y} : F[x] = G[x]
    BY <1>2, <1>3
  <2> HIDE DEF y
  <2> QED
    BY <1>1, <2>1
<1> HIDE DEF Bad
<1>5. it[s] = F[y] + it[s \ {y}]
  <2>1. \A u \in SUBSET S : u # {} => it[u] = F[Pick(u)] + it[u \ {Pick(u)}]
    BY Zenon DEF Sums
  <2> QED
    BY <1>2, <2>1, Zenon
<1>6. jt[s] = G[y] + jt[s \ {y}]
  <2>1. \A u \in SUBSET S : u # {} => jt[u] = G[Pick(u)] + jt[u \ {Pick(u)}]
    BY Zenon DEF Sums
  <2> QED
    BY <1>2, <2>1, Zenon
<1> QED
  BY <1>2, <1>3, <1>4, <1>5, <1>6

-----------------------------------------------------------------------------
\* The sum of a function to the natural numbers is one.
LEMMA SumType ==
    ASSUME NEW S, IsFiniteSet(S), NEW F \in [S -> Nat]
    PROVE  SumFunction(F) \in Nat
BY SumIsSigma, SigmaSums, SumsType

\* One more at one place is one more in the sum.
LEMMA SumIncrement ==
    ASSUME NEW S, IsFiniteSet(S), NEW F \in [S -> Nat], NEW G \in [S -> Nat], NEW x \in S,
           G[x] = F[x] + 1, \A y \in S : y # x => G[y] = F[y]
    PROVE  SumFunction(G) = SumFunction(F) + 1
<1> DEFINE it == Sigma(F, S)
           jt == Sigma(G, S)
<1>1. Sums(F, S, it) /\ Sums(G, S, jt)
  BY SigmaSums
<1>2. SumFunction(F) = it[S] /\ SumFunction(G) = jt[S]
  BY SumIsSigma
<1> HIDE DEF it, jt
<1>3. it[S] = F[x] + it[S \ {x}] /\ jt[S] = G[x] + jt[S \ {x}]
  <2>0. S \in SUBSET S
    OBVIOUS
  <2>1. it[S] = F[x] + it[S \ {x}]
    BY <1>1, <2>0, SumsRemove
  <2>2. jt[S] = G[x] + jt[S \ {x}]
    BY <1>1, <2>0, SumsRemove
  <2> QED
    BY <2>1, <2>2
<1>4. it[S \ {x}] = jt[S \ {x}]
  BY <1>1, SumsAgree
<1>5. it[S \ {x}] \in Nat /\ F[x] \in Nat
  BY <1>1, SumsType
<1> QED
  BY <1>2, <1>3, <1>4, <1>5

\* The sum of nothing but zeros.
LEMMA SumZero ==
    ASSUME NEW S, IsFiniteSet(S), NEW F \in [S -> Nat], \A x \in S : F[x] = 0
    PROVE  SumFunction(F) = 0
<1> DEFINE zero == [s \in SUBSET S |-> 0]
           it == Sigma(F, S)
<1>1. Sums(F, S, zero)
  BY Picked DEF Sums
<1>2. Sums(F, S, it)
  BY SigmaSums
<1> HIDE DEF it
<1>3. it[S] = zero[S]
  BY <1>1, <1>2, SumsAgree
<1> QED
  BY <1>3, SumIsSigma DEF it
-----------------------------------------------------------------------------
(* The inductive invariant                                                  *)

Phases == {"warmup", "resetMap", "resetCounters", "measure", "snapshot",
           "sum", "lockConns", "conns", "connStat", "done"}

Measured == {"measure", "snapshot", "sum", "lockConns", "conns", "connStat", "done"}

Collected == {"sum", "lockConns", "conns", "connStat", "done"}

Visiting == {"conns", "connStat", "done"}

Numbers == 0 .. MaxSeq

JobRecord == [at : {"idle", "sampled", "found", "observed"}, seq : Numbers, gen : {0, 1}]

StatRecord == [live : BOOLEAN, arrived : SUBSET Seqs, msgRecv : Nat,
               firstSeq : Numbers, lastSeq : Numbers]

ViewRecord == [Delivered : Nat, FirstSeq : Numbers, LastSeq : Numbers]

MTypeOK ==
    /\ phase \in Phases
    /\ seqNo \in Numbers /\ dups \in Nat
    /\ net \in [Conns -> SUBSET Seqs]
    /\ job \in [Conns -> JobRecord]
    /\ connStats \in [Conns -> StatRecord]
    /\ gen \in {0, 1} /\ connMu \in {"free", "runner"} /\ msgRecv \in Nat
    /\ todo \in SUBSET Conns /\ loaded \in Nat /\ cur \in Conns \cup {NoConn}
    /\ view \in [Conns -> ViewRecord]
    /\ took \in [Conns -> SUBSET Seqs] /\ quiet \in BOOLEAN

\* Where the runner is decides which map is current, who holds connMu and what is
\* still to be visited.
Control ==
    /\ gen = 1 <=> phase \notin {"warmup", "resetMap"}
    /\ gen = 0 => \A c \in Conns : job[c].gen = 0
    /\ connMu = "runner" <=> phase \in {"conns", "connStat"}
    /\ phase = "connStat" <=> cur # NoConn
    /\ phase = "connStat" => cur \in todo
    /\ phase \in {"conns", "connStat"} => todo \subseteq Live
    /\ phase = "done" => todo = {}

\* A handler that writes, or will write, into a connStat of the current map.
Writes(c) == job[c].at \in {"found", "observed"} /\ job[c].gen = gen

\* What a connStat says of the numbers its tracker has counted: they lie between
\* firstSeq and lastSeq, except the one that is counted and not yet noted.
StatOK(c) ==
    /\ job[c].at # "idle" => job[c].seq \in Seqs
    /\ ~connStats[c].live => connStats[c] = NoStat /\ ~Writes(c)
    /\ connStats[c].firstSeq = 0 <=> connStats[c].lastSeq = 0
    /\ connStats[c].firstSeq # 0 =>
         connStats[c].firstSeq \in connStats[c].arrived /\ connStats[c].lastSeq \in connStats[c].arrived
    /\ \A s \in connStats[c].arrived :
         \/ connStats[c].firstSeq # 0 /\ connStats[c].firstSeq <= s /\ s <= connStats[c].lastSeq
         \/ job[c].at = "observed" /\ Writes(c) /\ s = job[c].seq
    /\ connStats[c].live /\ connStats[c].firstSeq = 0 => Writes(c)
    /\ job[c].at = "observed" /\ Writes(c) => job[c].seq \in connStats[c].arrived

AllStatsOK == \A c \in Conns : StatOK(c)

\* What the connStats of the current map have counted, and the handlers that
\* have added to msgRecv and will add to one of them.
Recorded == SumFunction(Counted)
Fresh == {c \in Conns : job[c].at = "sampled" \/ Writes(c)}

NotInflated ==
    phase \in Measured => msgRecv <= Recorded + Cardinality(Fresh)

\* Of what its tracker had counted when ConnSnapshots looked, at most one number
\* lies outside the bounds that ConnSnapshots read.
Covered(c) ==
    view[c].FirstSeq # 0 =>
        view[c].Delivered <=
            Cardinality(connStats[c].arrived \cap (view[c].FirstSeq .. view[c].LastSeq)) + 1

\* What ConnSnapshots has read of the connections it has visited.
ViewOK ==
    /\ phase = "connStat" => view[cur].Delivered <= Cardinality(connStats[cur].arrived)
    /\ phase \in Visiting => \A c \in Live \ todo : Covered(c)

\* The number that c's handler has taken and its tracker has not counted yet.
Pending(c) == IF job[c].at \in {"sampled", "found"} THEN {job[c].seq} ELSE {}

\* When no handler has disturbed Reset or the snapshots: the history begins with
\* an empty Recorder,
QuietStart ==
    /\ gen = 0 => \A c \in Conns : took[c] = {}
    /\ quiet /\ phase = "resetCounters" =>
         \A c \in Conns : job[c].at = "idle" /\ took[c] = {} /\ connStats[c] = NoStat

\* ... the Recorder counts all of it,
Accounted(c) ==
    /\ job[c].at \in {"found", "observed"} => Writes(c)
    /\ took[c] = connStats[c].arrived \cup Pending(c)

QuietCount ==
    quiet /\ phase \in Measured =>
        /\ \A c \in Conns : Accounted(c)
        /\ msgRecv = Recorded + Cardinality(InHandler)

\* ... and nothing changes while the snapshots are taken.
Seen(c) ==
    /\ view[c].Delivered = Cardinality(connStats[c].arrived)
    /\ view[c].FirstSeq = connStats[c].firstSeq
    /\ view[c].LastSeq = connStats[c].lastSeq

QuietReport ==
    /\ quiet /\ phase \in Collected => AllIdle
    /\ quiet /\ phase = "sum" => loaded = msgRecv
    /\ quiet /\ phase \in Collected \ {"sum"} /\ Live # {} =>
         loaded = msgRecv \div Cardinality(Live)
    /\ quiet /\ phase = "connStat" => view[cur].Delivered = Cardinality(connStats[cur].arrived)
    /\ quiet /\ phase \in Visiting => \A c \in Live \ todo : Seen(c)

MInv ==
    /\ MTypeOK /\ Control /\ AllStatsOK /\ NotInflated /\ ViewOK
    /\ QuietStart /\ QuietCount /\ QuietReport

-----------------------------------------------------------------------------
(* Steps of the runner                                                      *)

\* What the trackers recorded is a number.
LEMMA RecordedType == ASSUME MTypeOK PROVE Counted \in [Conns -> Nat] /\ Recorded \in Nat
<1>1. Counted \in [Conns -> Nat]
  BY DEF MTypeOK, StatRecord, Counted
<1> HIDE DEF Counted
<1> QED
  BY <1>1, SumType, MeasurementAssumption DEF Recorded

\* The parts of the invariant that speak of the Recorder's map and the handlers
\* stay true while the runner leaves both alone.
LEMMA RecorderFrame ==
    ASSUME MTypeOK, UNCHANGED <<job, connStats, gen>>
    PROVE  /\ AllStatsOK => AllStatsOK'
           /\ Recorded' = Recorded /\ Fresh' = Fresh /\ InHandler' = InHandler
           /\ Live' = Live /\ AllIdle' = AllIdle
           /\ \A c \in Conns : UNCHANGED <<Writes(c), Pending(c)>>
<1>1. \A c \in Conns : UNCHANGED <<Writes(c), Pending(c)>>
  BY DEF Writes, Pending
<1>2. AllStatsOK => AllStatsOK'
  BY <1>1 DEF AllStatsOK, StatOK
<1>3. Recorded' = Recorded
  <2>1. Counted' = Counted
    BY DEF Counted
  <2> QED
    BY <2>1 DEF Recorded
<1>4. Fresh' = Fresh /\ InHandler' = InHandler
  BY <1>1 DEF Fresh, InHandler
<1>5. Live' = Live /\ AllIdle' = AllIdle
  BY DEF Live, AllIdle
<1> QED
  BY <1>1, <1>2, <1>3, <1>4, <1>5

\* A broadcast: the message is on its way, no counter has moved.
LEMMA BroadcastLoopStep == ASSUME MInv, BroadcastLoop PROVE MInv'
<1> USE DEF BroadcastLoop, recorder, results, hist
<1>0. MTypeOK /\ UNCHANGED <<job, connStats, gen>>
  BY DEF MInv
<1>1. MTypeOK'
  <2>1. seqNo + 1 \in Seqs /\ seqNo + 1 \in Numbers
    BY <1>0, MeasurementAssumption DEF MTypeOK, Numbers, Seqs
  <2> QED
    BY <1>0, <2>1 DEF MTypeOK
<1>2. Control'
  BY <1>0, RecorderFrame DEF MInv, Control
<1>3. AllStatsOK'
  BY <1>0, RecorderFrame DEF MInv
<1>4. NotInflated'
  BY <1>0, RecorderFrame DEF MInv, NotInflated
<1>5. ViewOK'
  BY <1>0, RecorderFrame DEF MInv, ViewOK, Covered
<1>6. QuietStart'
  BY <1>0, RecorderFrame DEF MInv, QuietStart
<1>7. QuietCount'
  BY <1>0, RecorderFrame DEF MInv, QuietCount, Accounted
<1>8. QuietReport'
  BY <1>0, RecorderFrame DEF MInv, QuietReport, Seen
<1> QED
  BY <1>1, <1>2, <1>3, <1>4, <1>5, <1>6, <1>7, <1>8 DEF MInv


\* The end of the warmup or of the measurement.
LEMMA ExpiresStep == ASSUME MInv, Expires PROVE MInv'
<1> USE DEF Expires, WarmupExpires, MeasureExpires, recorder, results, hist
<1>0. MTypeOK /\ UNCHANGED <<job, connStats, gen>>
  BY DEF MInv
<1>1. MTypeOK'
  BY <1>0 DEF MTypeOK, Phases
<1>2. Control'
  BY <1>0, RecorderFrame DEF MInv, Control
<1>3. AllStatsOK'
  BY <1>0, RecorderFrame DEF MInv
<1>4. NotInflated'
  BY <1>0, RecorderFrame DEF MInv, NotInflated, Measured
<1>5. ViewOK'
  BY <1>0, RecorderFrame DEF MInv, ViewOK, Visiting
<1>6. QuietStart'
  BY <1>0, RecorderFrame DEF MInv, QuietStart
<1>7. QuietCount'
  BY <1>0, RecorderFrame, Zenon DEF MInv, QuietCount, Accounted, Measured
<1>8. QuietReport'
  BY <1>0, RecorderFrame DEF MInv, QuietReport, Collected, Visiting
<1> QED
  BY <1>1, <1>2, <1>3, <1>4, <1>5, <1>6, <1>7, <1>8 DEF MInv

\* Reset puts an empty map in place of the old one: no handler writes into it.
LEMMA ResetMapStep == ASSUME MInv, RecorderReset, phase = "resetMap" PROVE MInv'
<1> USE DEF RecorderReset, ForgetWarmup, results
<1>0. MTypeOK /\ Control /\ AllStatsOK /\ QuietStart
  BY DEF MInv
<1>1. /\ phase' = "resetCounters" /\ gen' = 1 /\ connStats' = [c \in Conns |-> NoStat]
      /\ quiet' = AllIdle
      /\ UNCHANGED <<seqNo, net, dups, job, connMu, todo, loaded, cur, view, took, msgRecv>>
  OBVIOUS
<1>2. gen = 0 /\ \A c \in Conns : job[c].gen = 0 /\ took[c] = {}
  BY <1>0 DEF Control, QuietStart, MTypeOK
<1> USE DEF NoStat
<1> HIDE DEF RecorderReset, ForgetWarmup, results
<1>3. MTypeOK'
  <2>1. NoStat \in StatRecord
    BY MeasurementAssumption DEF StatRecord, Numbers
  <2>2. quiet' \in BOOLEAN
    BY <1>1 DEF AllIdle
  <2> HIDE DEF NoStat
  <2> QED
    BY <1>0, <1>1, <2>1, <2>2 DEF MTypeOK, Phases
<1>4. Control'
  BY <1>0, <1>1 DEF Control
<1>5. AllStatsOK'
  BY <1>0, <1>1, <1>2 DEF AllStatsOK, StatOK, Writes
<1>6. NotInflated' /\ ViewOK' /\ QuietCount' /\ QuietReport'
  BY <1>1 DEF NotInflated, ViewOK, QuietCount, QuietReport, Measured, Collected, Visiting
<1>7. QuietStart'
  BY <1>1, <1>2 DEF QuietStart, AllIdle
<1> QED
  BY <1>3, <1>4, <1>5, <1>6, <1>7 DEF MInv

\* Then it zeroes the counters.
LEMMA ResetCountersStep == ASSUME MInv, RecorderReset, phase = "resetCounters" PROVE MInv'
<1> USE DEF RecorderReset, results, hist
<1>0. MTypeOK /\ Control /\ QuietStart /\ UNCHANGED <<job, connStats, gen>>
  BY DEF MInv
<1>1. /\ phase' = "measure" /\ msgRecv' = 0
      /\ UNCHANGED <<seqNo, net, dups, connMu, todo, loaded, cur, view, took, quiet>>
  OBVIOUS
<1> HIDE DEF RecorderReset, results, hist
<1>2. MTypeOK'
  BY <1>0, <1>1 DEF MTypeOK, Phases
<1>3. Control'
  BY <1>0, <1>1 DEF Control
<1>4. AllStatsOK'
  BY <1>0, RecorderFrame DEF MInv
<1>5. NotInflated'
  <2>1. Recorded' \in Nat
    BY <1>0, RecordedType, RecorderFrame
  <2>2. Cardinality(Fresh') \in Nat
    BY FS_Subset, FS_CardinalityType, MeasurementAssumption DEF Fresh
  <2> QED
    BY <1>1, <2>1, <2>2 DEF NotInflated
<1>6. ViewOK' /\ QuietReport'
  BY <1>1 DEF ViewOK, QuietReport, Collected, Visiting
<1>7. QuietStart'
  BY <1>0, <1>1 DEF QuietStart
<1>8. QuietCount'
  <2> SUFFICES ASSUME quiet' PROVE (\A c \in Conns : Accounted(c)') /\ msgRecv' = Recorded' + Cardinality(InHandler')
    BY Zenon DEF QuietCount
  <2>1. \A c \in Conns : job[c].at = "idle" /\ took[c] = {} /\ connStats[c] = NoStat
    BY <1>0, <1>1, phase = "resetCounters" DEF QuietStart
  <2>2. \A c \in Conns : Accounted(c)'
    <3>1. \A c \in Conns : job'[c].at = "idle" /\ took'[c] = {} /\ connStats'[c] = NoStat
      BY <1>0, <1>1, <2>1, Zenon
    <3>2. NoStat.arrived = {}
      BY DEF NoStat
    <3> QED
      BY <3>1, <3>2 DEF Accounted, Pending
  <2>3. Recorded' = 0
    <3>1. Counted \in [Conns -> Nat] /\ \A c \in Conns : Counted[c] = 0
      BY <1>0, <2>1, RecordedType DEF Counted, NoStat
    <3>2. Recorded = 0
      BY <3>1, SumZero, MeasurementAssumption DEF Recorded
    <3> QED
      BY <1>0, <3>2, RecorderFrame
  <2>4. InHandler' = {}
    BY <1>0, <2>1 DEF InHandler
  <2> QED
    BY <1>1, <2>2, <2>3, <2>4, FS_EmptySet
<1> QED
  BY <1>2, <1>3, <1>4, <1>5, <1>6, <1>7, <1>8 DEF MInv


\* The runner loads msgRecv, the first half of its snapshot.
LEMMA SnapshotLoadStep == ASSUME MInv, SnapshotLoad PROVE MInv'
<1> USE DEF SnapshotLoad, recorder
<1>0. /\ MTypeOK /\ UNCHANGED <<job, connStats, gen>>
      /\ UNCHANGED <<seqNo, net, dups, connMu, msgRecv, todo, cur, view, took>>
      /\ phase = "snapshot" /\ phase' = "sum" /\ loaded' = msgRecv
  BY DEF MInv
<1>q. quiet' \in BOOLEAN /\ (quiet' => quiet /\ AllIdle)
  BY Zenon DEF MInv, MTypeOK
<1> HIDE DEF SnapshotLoad, recorder
<1>1. MTypeOK'
  BY <1>0, <1>q DEF MTypeOK, Phases
<1>2. Control'
  BY <1>0, RecorderFrame DEF MInv, Control
<1>3. AllStatsOK'
  BY <1>0, RecorderFrame DEF MInv
<1>4. NotInflated'
  BY <1>0, RecorderFrame DEF MInv, NotInflated, Measured
<1>5. ViewOK'
  BY <1>0, RecorderFrame, Zenon DEF MInv, ViewOK, Visiting
<1>6. QuietStart'
  BY <1>0, <1>q, RecorderFrame DEF MInv, QuietStart
<1>7. QuietCount'
  BY <1>0, <1>q, RecorderFrame DEF MInv, QuietCount, Accounted, Measured
<1>8. QuietReport'
  BY <1>0, <1>q, RecorderFrame DEF MInv, QuietReport, Collected, Visiting
<1> QED
  BY <1>1, <1>2, <1>3, <1>4, <1>5, <1>6, <1>7, <1>8 DEF MInv

\* A map that is not empty has a number of trackers that is not 0.
LEMMA LiveCount == ASSUME Live # {} PROVE Cardinality(Live) \in Nat \ {0}
BY FS_Subset, FS_CardinalityType, FS_EmptySet, MeasurementAssumption DEF Live

\* The runner divides what it loaded by the number of trackers in the map.
LEMMA SumTrackersStep == ASSUME MInv, SumTrackers PROVE MInv'
<1> USE DEF SumTrackers, recorder, hist
<1>0. /\ MTypeOK /\ UNCHANGED <<job, connStats, gen>>
      /\ UNCHANGED <<seqNo, net, dups, connMu, msgRecv, todo, cur, view, took, quiet>>
      /\ phase = "sum" /\ phase' = "lockConns"
      /\ loaded' = IF Live # {} THEN loaded \div Cardinality(Live) ELSE loaded
  BY DEF MInv
<1> HIDE DEF SumTrackers, recorder, hist
<1>1. MTypeOK'
  <2>1. loaded' \in Nat
    <3>1. loaded \in Nat
      BY <1>0, Zenon DEF MTypeOK
    <3>2. ASSUME Live # {}, NEW n \in Nat \ {0}, n = Cardinality(Live) PROVE loaded' \in Nat
      <4>1. loaded' = loaded \div n
        BY <1>0, <3>2, Zenon
      <4> QED
        BY <3>1, <4>1
    <3> QED
      BY <1>0, <3>1, <3>2, LiveCount, Zenon
  <2> QED
    BY <1>0, <2>1 DEF MTypeOK, Phases
<1>2. Control'
  BY <1>0, RecorderFrame DEF MInv, Control
<1>3. AllStatsOK'
  BY <1>0, RecorderFrame DEF MInv
<1>4. NotInflated'
  BY <1>0, RecorderFrame DEF MInv, NotInflated, Measured
<1>5. ViewOK'
  BY <1>0, RecorderFrame, Zenon DEF MInv, ViewOK, Visiting
<1>6. QuietStart'
  BY <1>0, RecorderFrame DEF MInv, QuietStart
<1>7. QuietCount'
  BY <1>0, RecorderFrame DEF MInv, QuietCount, Accounted, Measured
<1>8. QuietReport'
  BY <1>0, RecorderFrame DEF MInv, QuietReport, Collected, Visiting
<1> QED
  BY <1>1, <1>2, <1>3, <1>4, <1>5, <1>6, <1>7, <1>8 DEF MInv

\* The runner takes the mutex of the map.
LEMMA LockConnsStep == ASSUME MInv, LockConns PROVE MInv'
<1> USE DEF LockConns, hist
<1>0. /\ MTypeOK /\ UNCHANGED <<job, connStats, gen>>
      /\ UNCHANGED <<seqNo, net, dups, msgRecv, loaded, cur, view, took, quiet>>
      /\ phase = "lockConns" /\ phase' = "conns" /\ connMu' = "runner" /\ todo' = Live
  BY DEF MInv
<1> HIDE DEF LockConns, hist
<1>1. MTypeOK'
  BY <1>0 DEF MTypeOK, Phases, Live
<1>2. Control'
  BY <1>0, RecorderFrame, Zenon DEF MInv, Control
<1>3. AllStatsOK'
  BY <1>0, RecorderFrame DEF MInv
<1>4. NotInflated'
  BY <1>0, RecorderFrame DEF MInv, NotInflated, Measured
<1>5. ViewOK'
  BY <1>0, RecorderFrame, Zenon DEF MInv, ViewOK, Visiting
<1>6. QuietStart'
  BY <1>0, RecorderFrame, Zenon DEF MInv, QuietStart
<1>7. QuietCount'
  BY <1>0, RecorderFrame DEF MInv, QuietCount, Accounted, Measured
<1>8. QuietReport'
  BY <1>0, RecorderFrame DEF MInv, QuietReport, Collected, Visiting
<1> QED
  BY <1>1, <1>2, <1>3, <1>4, <1>5, <1>6, <1>7, <1>8 DEF MInv

\* The runner has seen every tracker.
LEMMA ConnSnapshotsEndStep == ASSUME MInv, ConnSnapshotsEnd PROVE MInv'
<1> USE DEF ConnSnapshotsEnd, results, hist
<1>0. /\ MTypeOK /\ UNCHANGED <<job, connStats, gen>>
      /\ UNCHANGED <<seqNo, net, dups, msgRecv, todo, loaded, cur, view, took, quiet>>
      /\ phase = "conns" /\ phase' = "done" /\ connMu' = "free" /\ todo = {}
  BY DEF MInv
<1> HIDE DEF ConnSnapshotsEnd, results, hist
<1>1. MTypeOK'
  BY <1>0, Zenon DEF MTypeOK, Phases
<1>2. Control'
  BY <1>0, RecorderFrame DEF MInv, Control
<1>3. AllStatsOK'
  BY <1>0, RecorderFrame DEF MInv
<1>4. NotInflated'
  BY <1>0, RecorderFrame, Zenon DEF MInv, NotInflated, Measured
<1>5. ViewOK'
  BY <1>0, RecorderFrame, Zenon DEF MInv, ViewOK, Visiting, Covered
<1>6. QuietStart'
  BY <1>0, RecorderFrame DEF MInv, QuietStart
<1>7. QuietCount'
  BY <1>0, RecorderFrame, Zenon DEF MInv, QuietCount, Accounted, Measured
<1>8. QuietReport'
  BY <1>0, RecorderFrame DEF MInv, QuietReport, Collected, Visiting, Seen
<1> QED
  BY <1>1, <1>2, <1>3, <1>4, <1>5, <1>6, <1>7, <1>8 DEF MInv


\* Finitely many sequence numbers have arrived.
LEMMA ArrivedFinite ==
    ASSUME MTypeOK, NEW c \in Conns
    PROVE  /\ IsFiniteSet(connStats[c].arrived) /\ Cardinality(connStats[c].arrived) \in Nat
           /\ connStats[c].arrived \in SUBSET Seqs
<1>1. connStats[c].arrived \subseteq Seqs
  BY DEF MTypeOK, StatRecord
<1>2. IsFiniteSet(Seqs)
  BY FS_Interval, MeasurementAssumption DEF Seqs
<1>3. IsFiniteSet(connStats[c].arrived)
  BY <1>1, <1>2, FS_Subset
<1> QED
  BY <1>1, <1>3, FS_CardinalityType

\* A set that exceeds a part of itself by one element at most.
LEMMA OneMore ==
    ASSUME NEW A, IsFiniteSet(A), NEW B, B \subseteq A, NEW x, A \subseteq B \cup {x}
    PROVE  Cardinality(A) <= Cardinality(B) + 1
<1>1. IsFiniteSet(B) /\ Cardinality(B) \in Nat
  BY FS_Subset, FS_CardinalityType
<1>2. IsFiniteSet(B \cup {x}) /\ Cardinality(B \cup {x}) <= Cardinality(B) + 1
  <2>1. IsFiniteSet(B \cup {x}) /\ (Cardinality(B \cup {x}) = Cardinality(B) \/ Cardinality(B \cup {x}) = Cardinality(B) + 1)
    BY <1>1, FS_AddElement, Zenon
  <2> QED
    BY <1>1, <2>1
<1>3. Cardinality(A) \in Nat /\ Cardinality(B \cup {x}) \in Nat
  BY <1>2, FS_CardinalityType
<1>4. Cardinality(A) <= Cardinality(B \cup {x})
  BY <1>2, FS_Subset
<1> QED
  BY <1>1, <1>2, <1>3, <1>4

\* ConnSnapshots reads the tracker of c.
LEMMA ConnTrackerStep ==
    ASSUME MInv, NEW c \in Conns, ConnSnapshot(c), phase = "conns" PROVE MInv'
<1> USE DEF ConnSnapshot, recorder
<1>0. /\ MTypeOK /\ UNCHANGED <<job, connStats, gen>>
      /\ UNCHANGED <<seqNo, net, dups, connMu, msgRecv, todo, loaded, took>>
      /\ c \in todo /\ phase' = "connStat" /\ cur' = c
      /\ view' = [view EXCEPT ![c].Delivered = Cardinality(connStats[c].arrived)]
  BY DEF MInv
<1>q. quiet' \in BOOLEAN /\ (quiet' => quiet)
  BY DEF MInv, MTypeOK
<1> HIDE DEF ConnSnapshot, recorder
<1>v. /\ view'[c].Delivered = Cardinality(connStats[c].arrived)
      /\ \A d \in Conns : d # c => view'[d] = view[d]
  BY <1>0 DEF MTypeOK, ViewRecord
<1>1. MTypeOK'
  <2>1. view' \in [Conns -> ViewRecord]
    BY <1>0, ArrivedFinite DEF MTypeOK, ViewRecord
  <2> QED
    BY <1>0, <1>q, <2>1 DEF MTypeOK, Phases
<1>2. Control'
  BY <1>0, RecorderFrame, MeasurementAssumption DEF MInv, Control
<1>3. AllStatsOK'
  BY <1>0, RecorderFrame DEF MInv
<1>4. NotInflated'
  BY <1>0, RecorderFrame DEF MInv, NotInflated, Measured
<1>a. \A d \in Live' \ todo' : d \in Live \ todo /\ d \in Conns /\ view'[d] = view[d] /\ connStats'[d] = connStats[d]
  BY <1>0, <1>v, RecorderFrame DEF Live
<1>5. ViewOK'
  <2>1. \A d \in Live' \ todo' : Covered(d)'
    BY <1>a DEF MInv, ViewOK, Visiting, Covered
  <2>2. view'[c].Delivered <= Cardinality(connStats'[c].arrived)
    BY <1>0, <1>v, ArrivedFinite
  <2> QED
    BY <1>0, <2>1, <2>2, Zenon DEF ViewOK
<1>6. QuietStart'
  BY <1>0, <1>q, RecorderFrame DEF MInv, QuietStart
<1>7. QuietCount'
  BY <1>0, <1>q, RecorderFrame DEF MInv, QuietCount, Accounted, Measured
<1>8. QuietReport'
  <2>1. quiet' => \A d \in Live' \ todo' : Seen(d)'
    BY <1>a, <1>q DEF MInv, QuietReport, Visiting, Seen
  <2> QED
    BY <1>0, <1>q, <1>v, <2>1, RecorderFrame, Zenon DEF MInv, QuietReport, Collected, Visiting
<1> QED
  BY <1>1, <1>2, <1>3, <1>4, <1>5, <1>6, <1>7, <1>8 DEF MInv

\* ... and then, under cs.mu, its first and last number.
LEMMA ConnStatStep ==
    ASSUME MInv, NEW c \in Conns, ConnSnapshot(c), phase = "connStat" PROVE MInv'
<1> USE DEF ConnSnapshot, recorder
<1>0. /\ MTypeOK /\ UNCHANGED <<job, connStats, gen>>
      /\ UNCHANGED <<seqNo, net, dups, connMu, msgRecv, loaded, took>>
      /\ c = cur /\ phase' = "conns" /\ cur' = NoConn /\ todo' = todo \ {c}
      /\ view' = [view EXCEPT ![c].FirstSeq = connStats[c].firstSeq,
                              ![c].LastSeq = connStats[c].lastSeq]
  BY DEF MInv
<1>q. quiet' \in BOOLEAN /\ (quiet' => quiet)
  BY DEF MInv, MTypeOK
<1> HIDE DEF ConnSnapshot, recorder
<1>v. /\ view'[c].Delivered = view[c].Delivered /\ view'[c].FirstSeq = connStats[c].firstSeq
      /\ view'[c].LastSeq = connStats[c].lastSeq
      /\ \A d \in Conns : d # c => view'[d] = view[d]
  BY <1>0 DEF MTypeOK, ViewRecord
<1>1. MTypeOK'
  <2>1. connStats[c].firstSeq \in Numbers /\ connStats[c].lastSeq \in Numbers
    BY <1>0 DEF MTypeOK, StatRecord
  <2>2. view' \in [Conns -> ViewRecord]
    <3>1. view \in [Conns -> ViewRecord]
      BY <1>0 DEF MTypeOK
    <3>2. [view[c] EXCEPT !.FirstSeq = connStats[c].firstSeq, !.LastSeq = connStats[c].lastSeq] \in ViewRecord
      BY <2>1, <3>1, Zenon DEF ViewRecord
    <3>3. view' = [view EXCEPT ![c] = [view[c] EXCEPT !.FirstSeq = connStats[c].firstSeq,
                                                      !.LastSeq = connStats[c].lastSeq]]
      BY <1>0, <3>1, Zenon DEF ViewRecord
    <3> QED
      BY <3>1, <3>2, <3>3, Zenon
  <2> QED
    BY <1>0, <1>q, <2>2 DEF MTypeOK, Phases
<1>2. Control'
  BY <1>0, RecorderFrame DEF MInv, Control
<1>3. AllStatsOK'
  BY <1>0, RecorderFrame DEF MInv
<1>4. NotInflated'
  BY <1>0, RecorderFrame DEF MInv, NotInflated, Measured
<1>a. \A d \in Live' \ todo' : d # c =>
        d \in Live \ todo /\ d \in Conns /\ view'[d] = view[d] /\ connStats'[d] = connStats[d]
  BY <1>0, <1>v, RecorderFrame, Zenon DEF Live
<1>5. ViewOK'
  <2>1. \A d \in Live' \ todo' : d # c => Covered(d)'
    BY <1>a DEF MInv, ViewOK, Visiting, Covered
  <2>2. Covered(c)'
    <3> DEFINE A == connStats[c].arrived
               B == A \cap (connStats[c].firstSeq .. connStats[c].lastSeq)
    <3> SUFFICES ASSUME connStats[c].firstSeq # 0 PROVE view[c].Delivered <= Cardinality(B) + 1
      BY <1>0, <1>v, Zenon DEF Covered
    <3>1. StatOK(c) /\ A \in SUBSET Seqs
      BY <1>0, ArrivedFinite, Zenon DEF MInv, AllStatsOK
    <3>2. A \subseteq B \cup {job[c].seq}
      <4>1. connStats[c].firstSeq \in Numbers /\ connStats[c].lastSeq \in Numbers
        BY <1>0 DEF MTypeOK, StatRecord
      <4> QED
        BY <3>1, <4>1, MeasurementAssumption DEF StatOK, Seqs, Numbers
    <3>3. IsFiniteSet(A) /\ B \subseteq A
      BY <1>0, ArrivedFinite
    <3>4. view[c].Delivered <= Cardinality(A)
      BY <1>0 DEF MInv, ViewOK
    <3>5. view[c].Delivered \in Nat /\ Cardinality(A) \in Nat /\ Cardinality(B) \in Nat
      BY <1>0, <3>3, FS_Subset, FS_CardinalityType DEF MTypeOK, ViewRecord
    <3> HIDE DEF A, B
    <3>6. Cardinality(A) <= Cardinality(B) + 1
      BY <3>2, <3>3, OneMore, Zenon
    <3> QED
      BY <3>4, <3>5, <3>6
  <2> QED
    BY <1>0, <2>1, <2>2 DEF ViewOK
<1>6. QuietStart'
  BY <1>0, <1>q, RecorderFrame DEF MInv, QuietStart
<1>7. QuietCount'
  BY <1>0, <1>q, RecorderFrame DEF MInv, QuietCount, Accounted, Measured
<1>8. QuietReport'
  <2>1. quiet' => \A d \in Live' \ todo' : d # c => Seen(d)'
    BY <1>a, <1>q DEF MInv, QuietReport, Visiting, Seen
  <2>2. quiet' => Seen(c)'
    BY <1>0, <1>q, <1>v, Zenon DEF MInv, QuietReport, Seen
  <2> QED
    BY <1>0, <1>q, <2>1, <2>2, RecorderFrame, Zenon DEF MInv, QuietReport, Collected, Visiting
<1> QED
  BY <1>1, <1>2, <1>3, <1>4, <1>5, <1>6, <1>7, <1>8 DEF MInv

-----------------------------------------------------------------------------
(* Steps of the receive goroutines                                          *)

\* A step of c's goroutine leaves the other connections alone.
LEMMA OthersFrame ==
    ASSUME NEW c \in Conns, gen' = gen,
           \A d \in Conns : d # c => job'[d] = job[d] /\ connStats'[d] = connStats[d]
    PROVE  \A d \in Conns : d # c => /\ Writes(d)' = Writes(d) /\ Pending(d)' = Pending(d)
                                     /\ StatOK(d) => StatOK(d)'
<1> SUFFICES ASSUME NEW d \in Conns, d # c
             PROVE  /\ Writes(d)' = Writes(d) /\ Pending(d)' = Pending(d)
                    /\ StatOK(d) => StatOK(d)'
  OBVIOUS
<1>1. job'[d] = job[d] /\ connStats'[d] = connStats[d]
  OBVIOUS
<1>2. Writes(d)' = Writes(d) /\ Pending(d)' = Pending(d)
  BY <1>1 DEF Writes, Pending
<1> QED
  BY <1>1, <1>2 DEF StatOK

\* A new tracker has counted nothing.
LEMMA StatShapes ==
    /\ newConnStat \in StatRecord /\ NoStat \in StatRecord
    /\ newConnStat.live /\ ~NoStat.live /\ newConnStat.arrived = {} /\ NoStat.arrived = {}
    /\ newConnStat.msgRecv = 0 /\ NoStat.msgRecv = 0 /\ newConnStat.firstSeq = 0 /\ newConnStat.lastSeq = 0
<1>1. 0 \in Numbers
  BY MeasurementAssumption DEF Numbers
<1> QED
  BY <1>1, Zenon DEF newConnStat, NoStat, StatRecord

\* Finitely many handlers are running.
LEMMA HandlerSets ==
    /\ IsFiniteSet(Fresh) /\ Cardinality(Fresh) \in Nat
    /\ IsFiniteSet(InHandler) /\ Cardinality(InHandler) \in Nat
BY FS_Subset, FS_CardinalityType, MeasurementAssumption DEF Fresh, InHandler

\* The counter is one ahead of the connStats when a handler begins.
LEMMA RecordSampleStep ==
    ASSUME MInv, NEW c \in Conns, NEW s \in Seqs, NEW again \in BOOLEAN, RecordSample(c, s, again)
    PROVE  MInv'
<1> USE DEF RecordSample, results
<1>0. /\ MTypeOK /\ Control /\ AllStatsOK /\ NotInflated /\ ViewOK
      /\ QuietStart /\ QuietCount /\ QuietReport
  BY DEF MInv
<1>1. /\ UNCHANGED <<phase, seqNo, connStats, gen, connMu, todo, loaded, cur, view>>
      /\ phase # "done" /\ job[c].at = "idle" /\ msgRecv' = msgRecv + 1
      /\ took' = IF gen = 1 THEN [took EXCEPT ![c] = @ \cup {s}] ELSE took
      /\ job' = [job EXCEPT ![c] = [at |-> "sampled", seq |-> s, gen |-> 0]]
  OBVIOUS
<1>q. quiet' \in BOOLEAN /\ (quiet' => quiet /\ phase \in {"warmup", "measure"})
  BY <1>0, Zenon DEF MTypeOK, Disturbs
<1>t. dups' \in Nat /\ net' \in [Conns -> SUBSET Seqs]
  BY <1>0 DEF MTypeOK
<1> HIDE DEF RecordSample, results
<1>j. /\ job'[c] = [at |-> "sampled", seq |-> s, gen |-> 0]
      /\ \A d \in Conns : d # c => job'[d] = job[d] /\ connStats'[d] = connStats[d]
  BY <1>0, <1>1 DEF MTypeOK
<1>w. /\ \A d \in Conns : d # c => Writes(d)' = Writes(d) /\ Pending(d)' = Pending(d)
      /\ ~Writes(c) /\ ~Writes(c)' /\ Pending(c) = {} /\ Pending(c)' = {s}
  <2>1. \A d \in Conns : d # c => Writes(d)' = Writes(d) /\ Pending(d)' = Pending(d)
    BY <1>1, <1>j, OthersFrame
  <2> QED
    BY <2>1, <1>1, <1>j DEF Writes, Pending
<1>s. Fresh' = Fresh \cup {c} /\ c \notin Fresh /\ InHandler' = InHandler \cup {c} /\ c \notin InHandler
  BY <1>1, <1>j, <1>w DEF Fresh, InHandler
<1>n. /\ Cardinality(Fresh') = Cardinality(Fresh) + 1
      /\ Cardinality(InHandler') = Cardinality(InHandler) + 1
  BY <1>s, HandlerSets, FS_AddElement, Zenon
<1>r. Recorded' = Recorded /\ Live' = Live
  BY <1>1, Zenon DEF Recorded, Counted, Live
<1>2. MTypeOK'
  <2>1. [at |-> "sampled", seq |-> s, gen |-> 0] \in JobRecord
    BY MeasurementAssumption DEF JobRecord, Seqs, Numbers
  <2>2. took' \in [Conns -> SUBSET Seqs]
    BY <1>0, <1>1 DEF MTypeOK
  <2>3. job' \in [Conns -> JobRecord]
    BY <1>0, <1>1, <2>1 DEF MTypeOK
  <2>4. msgRecv' \in Nat
    BY <1>0, <1>1 DEF MTypeOK
  <2> QED
    BY <1>0, <1>1, <1>q, <1>t, <2>2, <2>3, <2>4 DEF MTypeOK
<1>3. Control'
  BY <1>0, <1>1, <1>j, <1>r DEF Control
<1>4. AllStatsOK'
  <2>1. StatOK(c)'
    <3>1. /\ StatOK(c) /\ connStats'[c] = connStats[c] /\ job[c].at # "observed"
          /\ job'[c].at # "observed" /\ job'[c].seq \in Seqs
      BY <1>0, <1>1, <1>j DEF AllStatsOK
    <3> QED
      BY <1>w, <3>1, Zenon DEF StatOK
  <2>2. \A d \in Conns : d # c => StatOK(d)'
    BY <1>0, <1>1, <1>j, OthersFrame DEF AllStatsOK
  <2> QED
    BY <2>1, <2>2, Zenon DEF AllStatsOK
<1>5. NotInflated'
  BY <1>0, <1>1, <1>n, <1>r, RecordedType, HandlerSets DEF NotInflated, MTypeOK
<1>6. ViewOK'
  BY <1>0, <1>1, <1>r, Zenon DEF ViewOK, Covered
<1>7. QuietStart'
  BY <1>0, <1>1, <1>q DEF QuietStart
<1>8. QuietCount'
  <2> SUFFICES ASSUME quiet', phase' \in Measured
               PROVE  (\A d \in Conns : Accounted(d)') /\ msgRecv' = Recorded' + Cardinality(InHandler')
    BY Zenon DEF QuietCount
  <2>1. phase = "measure" /\ gen = 1 /\ quiet
    BY <1>0, <1>1, <1>q DEF Measured, Control
  <2>2. /\ \A d \in Conns : Accounted(d)
        /\ msgRecv = Recorded + Cardinality(InHandler)
    BY <1>0, <2>1, Zenon DEF QuietCount, Measured
  <2>3. took'[c] = took[c] \cup {s} /\ \A d \in Conns : d # c => took'[d] = took[d]
    BY <1>0, <1>1, <2>1, Zenon DEF MTypeOK
  <2>4. Accounted(c)'
    BY <1>1, <1>j, <1>w, <2>2, <2>3 DEF Accounted
  <2>5. \A d \in Conns : d # c => Accounted(d)'
    BY <1>j, <1>w, <2>2, <2>3, Zenon DEF Accounted
  <2>6. msgRecv' = Recorded' + Cardinality(InHandler')
    BY <1>0, <1>1, <1>n, <1>r, <2>2, RecordedType, HandlerSets
  <2> QED
    BY <2>4, <2>5, <2>6, Zenon
<1>9. QuietReport'
  BY <1>1, <1>q DEF QuietReport, Collected, Visiting
<1> QED
  BY <1>2, <1>3, <1>4, <1>5, <1>6, <1>7, <1>8, <1>9 DEF MInv


\* The handler finds, or creates, a connStat of the current map.
LEMMA LookupConnStep ==
    ASSUME MInv, NEW c \in Conns, phase # "done", LookupConn(c)
    PROVE  MInv'
<1> USE DEF LookupConn, results, hist
<1>0. /\ MTypeOK /\ Control /\ AllStatsOK /\ NotInflated /\ ViewOK
      /\ QuietStart /\ QuietCount /\ QuietReport
  BY DEF MInv
<1>1. /\ UNCHANGED <<phase, seqNo, net, dups, gen, connMu, msgRecv, todo, loaded, cur, view, took, quiet>>
      /\ job[c].at = "sampled" /\ connMu = "free"
      /\ connStats' = IF connStats[c].live THEN connStats
                      ELSE [connStats EXCEPT ![c] = newConnStat]
      /\ job' = [job EXCEPT ![c].at = "found", ![c].gen = gen]
  OBVIOUS
<1> HIDE DEF LookupConn, results, hist
<1>p. phase \notin Visiting
  BY <1>0, <1>1 DEF Control, Visiting
<1>j. /\ job'[c].at = "found" /\ job'[c].seq = job[c].seq /\ job'[c].gen = gen
      /\ connStats[c].live => connStats'[c] = connStats[c]
      /\ ~connStats[c].live => connStats'[c] = newConnStat
      /\ \A d \in Conns : d # c => job'[d] = job[d] /\ connStats'[d] = connStats[d]
  <2>1. job \in [Conns -> JobRecord] /\ connStats \in [Conns -> StatRecord]
    BY <1>0 DEF MTypeOK
  <2>2. job'[c].at = "found" /\ job'[c].seq = job[c].seq /\ job'[c].gen = gen
    BY <1>1, <2>1 DEF JobRecord
  <2>3. \A d \in Conns : d # c => job'[d] = job[d]
    BY <1>1, <2>1
  <2>4. /\ connStats[c].live => connStats'[c] = connStats[c]
        /\ ~connStats[c].live => connStats'[c] = newConnStat
    BY <1>1, <2>1
  <2>5. \A d \in Conns : d # c => connStats'[d] = connStats[d]
    BY <1>1, <2>1, Zenon
  <2> QED
    BY <2>2, <2>3, <2>4, <2>5, Zenon
<1>k. ~connStats[c].live => connStats[c] = NoStat
  BY <1>0 DEF AllStatsOK, StatOK
<1>w. /\ \A d \in Conns : d # c => Writes(d)' = Writes(d) /\ Pending(d)' = Pending(d)
      /\ ~Writes(c) /\ Writes(c)' /\ Pending(c)' = Pending(c)
  <2>1. \A d \in Conns : d # c => Writes(d)' = Writes(d) /\ Pending(d)' = Pending(d)
    BY <1>1, <1>j, OthersFrame, Zenon
  <2> QED
    BY <2>1, <1>1, <1>j, Zenon DEF Writes, Pending
<1>a. connStats'[c].arrived = connStats[c].arrived /\ connStats'[c].msgRecv = connStats[c].msgRecv
  BY <1>j, <1>k, StatShapes
<1>s. Fresh' = Fresh /\ InHandler' = InHandler
  BY <1>1, <1>j, <1>w, Zenon DEF Fresh, InHandler
<1>r. Recorded' = Recorded
  <2>1. Counted' = Counted
    BY <1>j, <1>a DEF Counted
  <2> QED
    BY <2>1 DEF Recorded
<1>2. MTypeOK'
  <2>1. job' \in [Conns -> JobRecord]
    BY <1>0, <1>1, Zenon DEF MTypeOK, JobRecord
  <2>2. newConnStat \in StatRecord
    BY StatShapes
  <2>3. connStats' \in [Conns -> StatRecord]
    BY <1>0, <1>1, <2>2 DEF MTypeOK
  <2> QED
    BY <1>0, <1>1, <2>1, <2>3 DEF MTypeOK
<1>3. Control'
  <2>1. gen = 0 => \A d \in Conns : job'[d].gen = 0
    BY <1>0, <1>j DEF Control
  <2> QED
    BY <1>0, <1>1, <1>p, <2>1, Zenon DEF Control, Visiting
<1>4. AllStatsOK'
  <2>1. StatOK(c)'
    <3>1. StatOK(c)
      BY <1>0 DEF AllStatsOK
    <3>2. CASE connStats[c].live
      BY <3>1, <3>2, <1>1, <1>j, <1>w DEF StatOK
    <3>3. CASE ~connStats[c].live
      BY <3>1, <3>3, <1>1, <1>j, <1>w, StatShapes DEF StatOK
    <3> QED
      BY <3>2, <3>3
  <2>2. \A d \in Conns : d # c => StatOK(d)'
    BY <1>0, <1>1, <1>j, OthersFrame, Zenon DEF AllStatsOK
  <2> QED
    BY <2>1, <2>2, Zenon DEF AllStatsOK
<1>5. NotInflated'
  BY <1>0, <1>1, <1>s, <1>r DEF NotInflated
<1>6. ViewOK'
  BY <1>1, <1>p DEF ViewOK, Visiting
<1>7. QuietStart'
  BY <1>0, <1>1 DEF QuietStart
<1>8. QuietCount'
  <2> SUFFICES ASSUME quiet', phase' \in Measured
               PROVE  (\A d \in Conns : Accounted(d)') /\ msgRecv' = Recorded' + Cardinality(InHandler')
    BY Zenon DEF QuietCount
  <2>2. /\ \A d \in Conns : Accounted(d)
        /\ msgRecv = Recorded + Cardinality(InHandler)
    BY <1>0, <1>1 DEF QuietCount
  <2>4. Accounted(c)'
    BY <1>1, <1>a, <1>w, <2>2 DEF Accounted
  <2>5. \A d \in Conns : d # c => Accounted(d)'
    BY <1>1, <1>j, <1>w, <2>2, Zenon DEF Accounted
  <2> QED
    BY <1>1, <1>r, <1>s, <2>2, <2>4, <2>5, Zenon
<1>9. QuietReport'
  <2>1. ~(quiet /\ phase \in Collected)
    BY <1>0, <1>1 DEF QuietReport, AllIdle
  <2> QED
    BY <1>1, <2>1 DEF QuietReport, Collected, Visiting
<1> QED
  BY <1>2, <1>3, <1>4, <1>5, <1>6, <1>7, <1>8, <1>9 DEF MInv


\* The tracker counts the number.
LEMMA TrackerObserveStep ==
    ASSUME MInv, NEW c \in Conns, phase # "done", TrackerObserve(c)
    PROVE  MInv'
<1> USE DEF TrackerObserve, results, hist
<1>0. /\ MTypeOK /\ Control /\ AllStatsOK /\ NotInflated /\ ViewOK
      /\ QuietStart /\ QuietCount /\ QuietReport
  BY DEF MInv
<1>1. /\ UNCHANGED <<phase, seqNo, net, dups, gen, connMu, msgRecv, todo, loaded, cur, view, took, quiet>>
      /\ job[c].at = "found"
      /\ connStats' = IF Current(c)
                      THEN [connStats EXCEPT ![c].arrived = @ \cup {job[c].seq}]
                      ELSE connStats
      /\ job' = [job EXCEPT ![c].at = "observed"]
  OBVIOUS
<1> HIDE DEF TrackerObserve, results, hist
<1>o. StatOK(c) /\ job[c].seq \in Seqs /\ (Writes(c) <=> Current(c))
  BY <1>0, <1>1, Zenon DEF AllStatsOK, StatOK, Writes, Current
<1>j. /\ job'[c].at = "observed" /\ job'[c].seq = job[c].seq /\ job'[c].gen = job[c].gen
      /\ Writes(c) => connStats'[c].arrived = connStats[c].arrived \cup {job[c].seq}
      /\ ~Writes(c) => connStats'[c].arrived = connStats[c].arrived
      /\ connStats'[c].live = connStats[c].live /\ connStats'[c].msgRecv = connStats[c].msgRecv
      /\ connStats'[c].firstSeq = connStats[c].firstSeq /\ connStats'[c].lastSeq = connStats[c].lastSeq
      /\ ~Writes(c) => connStats' = connStats
      /\ \A d \in Conns : d # c => job'[d] = job[d] /\ connStats'[d] = connStats[d]
  <2>1. job \in [Conns -> JobRecord] /\ connStats \in [Conns -> StatRecord]
    BY <1>0 DEF MTypeOK
  <2>2. job'[c].at = "observed" /\ job'[c].seq = job[c].seq /\ job'[c].gen = job[c].gen
    BY <1>1, <2>1 DEF JobRecord
  <2>3. \A d \in Conns : d # c => job'[d] = job[d]
    BY <1>1, <2>1
  <2>4. ~Writes(c) => connStats' = connStats
    BY <1>1, <1>o
  <2>5. Writes(c) => /\ connStats'[c].arrived = connStats[c].arrived \cup {job[c].seq}
                     /\ connStats'[c].live = connStats[c].live /\ connStats'[c].msgRecv = connStats[c].msgRecv
                     /\ connStats'[c].firstSeq = connStats[c].firstSeq
                     /\ connStats'[c].lastSeq = connStats[c].lastSeq
                     /\ \A d \in Conns : d # c => connStats'[d] = connStats[d]
    BY <1>1, <1>o, <2>1 DEF StatRecord
  <2> QED
    BY <2>2, <2>3, <2>4, <2>5
<1>g. connStats[c].arrived \subseteq connStats'[c].arrived
  BY <1>j
<1>w. /\ \A d \in Conns : d # c => Writes(d)' = Writes(d) /\ Pending(d)' = Pending(d)
      /\ Writes(c)' = Writes(c) /\ Pending(c)' = {} /\ Pending(c) = {job[c].seq}
  <2>1. \A d \in Conns : d # c => Writes(d)' = Writes(d) /\ Pending(d)' = Pending(d)
    BY <1>1, <1>j, OthersFrame
  <2> QED
    BY <2>1, <1>1, <1>j DEF Writes, Pending
<1>s. Fresh' = Fresh /\ InHandler' = InHandler /\ Live' = Live
  BY <1>1, <1>j, <1>w DEF Fresh, InHandler, Live
<1>r. Recorded' = Recorded
  <2>1. Counted' = Counted
    BY <1>j DEF Counted
  <2> QED
    BY <2>1 DEF Recorded
<1>2. MTypeOK'
  <2>1. job' \in [Conns -> JobRecord]
    BY <1>0, <1>1 DEF MTypeOK, JobRecord
  <2>2. connStats' \in [Conns -> StatRecord]
    <3>1. CASE Current(c)
      BY <1>0, <1>1, <1>o, <3>1 DEF MTypeOK, StatRecord
    <3>2. CASE ~Current(c)
      BY <1>0, <1>1, <3>2 DEF MTypeOK
    <3> QED
      BY <3>1, <3>2
  <2> QED
    BY <1>0, <1>1, <2>1, <2>2 DEF MTypeOK
<1>3. Control'
  <2>1. gen = 0 => \A d \in Conns : job'[d].gen = 0
    BY <1>0, <1>j DEF Control
  <2> QED
    BY <1>0, <1>1, <1>s, <2>1 DEF Control
<1>4. AllStatsOK'
  <2>1. StatOK(c)'
    <3>1. CASE Writes(c)
      <4>1. connStats[c].live /\ connStats'[c].live
        BY <1>o, <1>j, <3>1, Zenon DEF StatOK
      <4> QED
        BY <3>1, <4>1, <1>o, <1>1, <1>j, <1>w DEF StatOK
    <3>2. CASE ~Writes(c)
      BY <3>2, <1>o, <1>1, <1>j, <1>w DEF StatOK
    <3> QED
      BY <3>1, <3>2
  <2>2. \A d \in Conns : d # c => StatOK(d)'
    BY <1>0, <1>1, <1>j, OthersFrame DEF AllStatsOK
  <2> QED
    BY <2>1, <2>2, Zenon DEF AllStatsOK
<1>5. NotInflated'
  BY <1>0, <1>1, <1>s, <1>r DEF NotInflated
<1>6. ViewOK'
  <2> DEFINE Within(d) == connStats[d].arrived \cap (view[d].FirstSeq .. view[d].LastSeq)
  <2>1. \A d \in Conns : /\ connStats[d].arrived \subseteq connStats'[d].arrived
                         /\ connStats'[d].arrived \in SUBSET Seqs
    BY <1>2, <1>g, <1>j DEF MTypeOK, StatRecord
  <2>2. \A d \in Conns : /\ IsFiniteSet(connStats'[d].arrived)
    <3>1. IsFiniteSet(Seqs)
      BY FS_Interval, MeasurementAssumption DEF Seqs
    <3> QED
      BY <2>1, <3>1, FS_Subset, Zenon
  <2>3. \A d \in Conns : /\ Cardinality(connStats[d].arrived) <= Cardinality(connStats'[d].arrived)
                         /\ Cardinality(Within(d)) <= Cardinality(Within(d)')
    <3> SUFFICES ASSUME NEW d \in Conns
                 PROVE  /\ Cardinality(connStats[d].arrived) <= Cardinality(connStats'[d].arrived)
                        /\ Cardinality(Within(d)) <= Cardinality(Within(d)')
      OBVIOUS
    <3>1. Within(d) \subseteq Within(d)' /\ IsFiniteSet(Within(d)')
      BY <1>1, <2>1, <2>2, FS_Subset
    <3> QED
      BY <2>1, <2>2, <3>1, FS_Subset
  <2>4. \A d \in Conns : /\ Cardinality(connStats[d].arrived) \in Nat /\ Cardinality(connStats'[d].arrived) \in Nat
                         /\ Cardinality(Within(d)) \in Nat /\ Cardinality(Within(d)') \in Nat
                         /\ view[d].Delivered \in Nat
    <3> SUFFICES ASSUME NEW d \in Conns
                 PROVE  /\ Cardinality(connStats[d].arrived) \in Nat /\ Cardinality(connStats'[d].arrived) \in Nat
                        /\ Cardinality(Within(d)) \in Nat /\ Cardinality(Within(d)') \in Nat
                        /\ view[d].Delivered \in Nat
      OBVIOUS
    <3>1. IsFiniteSet(connStats[d].arrived) /\ IsFiniteSet(Within(d)) /\ IsFiniteSet(Within(d)')
      BY <1>1, <2>1, <2>2, FS_Subset
    <3>2. view[d].Delivered \in Nat
      BY <1>0 DEF MTypeOK, ViewRecord
    <3> QED
      BY <2>2, <3>1, <3>2, FS_CardinalityType
  <2>5. phase' = "connStat" => view'[cur'].Delivered <= Cardinality(connStats'[cur'].arrived)
    <3> SUFFICES ASSUME phase = "connStat" PROVE view[cur].Delivered <= Cardinality(connStats'[cur].arrived)
      BY <1>1
    <3>1. cur \in Conns /\ view[cur].Delivered <= Cardinality(connStats[cur].arrived)
      BY <1>0 DEF Control, ViewOK, MTypeOK
    <3>2. Cardinality(connStats[cur].arrived) <= Cardinality(connStats'[cur].arrived)
      BY <2>3, <3>1, Zenon
    <3>3. /\ Cardinality(connStats[cur].arrived) \in Nat /\ Cardinality(connStats'[cur].arrived) \in Nat
          /\ view[cur].Delivered \in Nat
      BY <2>4, <3>1, Zenon
    <3> QED
      BY <3>1, <3>2, <3>3
  <2>6. phase' \in Visiting => \A d \in Live' \ todo' : Covered(d)'
    <3> SUFFICES ASSUME phase \in Visiting, NEW d \in Live \ todo, view[d].FirstSeq # 0
                 PROVE  view[d].Delivered <= Cardinality(Within(d)') + 1
      BY <1>1, <1>s DEF Covered
    <3>1. d \in Conns
      BY DEF Live
    <3>2. view[d].Delivered <= Cardinality(Within(d)) + 1
      BY <1>0 DEF ViewOK, Covered
    <3> HIDE DEF Within
    <3> QED
      BY <2>3, <2>4, <3>1, <3>2
  <2> QED
    BY <2>5, <2>6, Zenon DEF ViewOK
<1>7. QuietStart'
  BY <1>0, <1>1 DEF QuietStart
<1>8. QuietCount'
  <2> SUFFICES ASSUME quiet', phase' \in Measured
               PROVE  (\A d \in Conns : Accounted(d)') /\ msgRecv' = Recorded' + Cardinality(InHandler')
    BY Zenon DEF QuietCount
  <2>2. /\ \A d \in Conns : Accounted(d)
        /\ msgRecv = Recorded + Cardinality(InHandler)
    BY <1>0, <1>1 DEF QuietCount
  <2>4. Accounted(c)'
    BY <1>1, <1>j, <1>w, <2>2, Zenon DEF Accounted
  <2>5. \A d \in Conns : d # c => Accounted(d)'
    BY <1>1, <1>j, <1>w, <2>2 DEF Accounted
  <2> QED
    BY <1>1, <1>r, <1>s, <2>2, <2>4, <2>5, Zenon
<1>9. QuietReport'
  <2>1. ~(quiet /\ phase \in Collected)
    BY <1>0, <1>1 DEF QuietReport, AllIdle
  <2> QED
    BY <1>1, <2>1 DEF QuietReport, Collected, Visiting
<1> QED
  BY <1>2, <1>3, <1>4, <1>5, <1>6, <1>7, <1>8, <1>9 DEF MInv


\* The connStat notes the number, and the handler returns.
LEMMA ConnStatUpdateStep ==
    ASSUME MInv, NEW c \in Conns, phase # "done", ConnStatUpdate(c)
    PROVE  MInv'
<1> USE DEF ConnStatUpdate, results, hist
<1>0. /\ MTypeOK /\ Control /\ AllStatsOK /\ NotInflated /\ ViewOK
      /\ QuietStart /\ QuietCount /\ QuietReport
  BY DEF MInv
<1> DEFINE s == job[c].seq
           cs == connStats[c]
           first == IF cs.firstSeq = 0 \/ s < cs.firstSeq THEN s ELSE cs.firstSeq
           last == IF s > cs.lastSeq THEN s ELSE cs.lastSeq
<1>1. /\ UNCHANGED <<phase, seqNo, net, dups, gen, connMu, msgRecv, todo, loaded, cur, view, took, quiet>>
      /\ job[c].at = "observed"
      /\ job' = [job EXCEPT ![c] = Idle]
  OBVIOUS
<1>o. StatOK(c) /\ s \in Seqs /\ (Writes(c) <=> Current(c))
  BY <1>0, <1>1 DEF AllStatsOK, StatOK, Writes, Current
<1>c. /\ ~Writes(c) => connStats' = connStats
      /\ Writes(c) => connStats' = [connStats EXCEPT ![c].msgRecv = @ + 1,
                                                     ![c].firstSeq = first, ![c].lastSeq = last]
  BY <1>o
<1> HIDE DEF ConnStatUpdate, results, hist
<1>f. /\ s \in Nat \ {0} /\ s \in Numbers /\ cs.firstSeq \in Numbers /\ cs.lastSeq \in Numbers
      /\ Numbers \subseteq Nat /\ cs.msgRecv \in Nat /\ cs.arrived \in SUBSET Numbers
      /\ first \in Numbers /\ last \in Numbers
  <2>1. s \in Nat \ {0} /\ s \in Numbers /\ Numbers \subseteq Nat /\ Seqs \subseteq Numbers
    BY <1>o, MeasurementAssumption DEF Seqs, Numbers
  <2>2. cs.firstSeq \in Numbers /\ cs.lastSeq \in Numbers /\ cs.msgRecv \in Nat /\ cs.arrived \in SUBSET Seqs
    BY <1>0 DEF MTypeOK, StatRecord
  <2> QED
    BY <2>1, <2>2, Zenon
<1>j. /\ job'[c] = Idle
      /\ Writes(c) => /\ connStats'[c].msgRecv = cs.msgRecv + 1
                      /\ connStats'[c].firstSeq = first /\ connStats'[c].lastSeq = last
      /\ connStats'[c].arrived = cs.arrived /\ connStats'[c].live = cs.live
      /\ \A d \in Conns : d # c => job'[d] = job[d] /\ connStats'[d] = connStats[d]
  <2>1. job \in [Conns -> JobRecord] /\ connStats \in [Conns -> StatRecord]
    BY <1>0 DEF MTypeOK
  <2>2. job'[c] = Idle /\ \A d \in Conns : d # c => job'[d] = job[d]
    BY <1>1, <2>1
  <2> HIDE DEF first, last
  <2>3. Writes(c) => /\ connStats'[c].msgRecv = cs.msgRecv + 1
                     /\ connStats'[c].firstSeq = first /\ connStats'[c].lastSeq = last
                     /\ connStats'[c].arrived = cs.arrived /\ connStats'[c].live = cs.live
                     /\ \A d \in Conns : d # c => connStats'[d] = connStats[d]
    BY <1>c, <2>1, Zenon DEF StatRecord
  <2> QED
    BY <1>c, <2>2, <2>3
<1>w. /\ \A d \in Conns : d # c => Writes(d)' = Writes(d) /\ Pending(d)' = Pending(d)
      /\ ~Writes(c)' /\ Pending(c)' = {} /\ Pending(c) = {}
  <2>1. \A d \in Conns : d # c => Writes(d)' = Writes(d) /\ Pending(d)' = Pending(d)
    BY <1>1, <1>j, OthersFrame, Zenon
  <2> QED
    BY <2>1, <1>1, <1>j DEF Writes, Pending, Idle
<1>s. /\ Fresh' = Fresh \ {c} /\ (c \in Fresh <=> Writes(c))
      /\ InHandler' = InHandler \ {c} /\ c \in InHandler
      /\ Live' = Live
  <2> HIDE DEF first, last, cs, s
  <2>0. job'[c] = Idle /\ \A d \in Conns : d # c => job'[d] = job[d]
    BY <1>j, Zenon
  <2>1. job'[c].at = "idle" /\ job[c].at # "idle"
    BY <1>1, <2>0 DEF Idle
  <2>2. Fresh' = Fresh \ {c} /\ (c \in Fresh <=> Writes(c))
    BY <1>1, <1>w, <2>0, <2>1 DEF Fresh
  <2>3. InHandler' = InHandler \ {c} /\ c \in InHandler
    BY <1>1, <2>0, <2>1 DEF InHandler
  <2>4. Live' = Live
    <3>1. \A d \in Conns : connStats'[d].live = connStats[d].live
      BY <1>j, Zenon DEF cs
    <3> QED
      BY <3>1, Zenon DEF Live
  <2> QED
    BY <2>2, <2>3, <2>4, Zenon
<1>r. /\ Writes(c) => Recorded' = Recorded + 1
      /\ ~Writes(c) => Recorded' = Recorded
  <2>1. ASSUME Writes(c) PROVE Recorded' = Recorded + 1
    <3>1. Counted \in [Conns -> Nat]
      BY <1>0, RecordedType
    <3>2. Counted' = [d \in Conns |-> Counted'[d]] /\ Counted'[c] = Counted[c] + 1
      BY <2>1, <1>j, Zenon DEF Counted
    <3>3. \A d \in Conns : d # c => Counted'[d] = Counted[d]
      BY <1>j, Zenon DEF Counted
    <3> HIDE DEF Counted
    <3>4. \A d \in Conns : Counted'[d] \in Nat
      BY <3>1, <3>2, <3>3
    <3>5. Counted' \in [Conns -> Nat]
      BY <3>2, <3>4
    <3>6. \A F, G \in [Conns -> Nat] :
            G[c] = F[c] + 1 /\ (\A d \in Conns : d # c => G[d] = F[d]) => SumFunction(G) = SumFunction(F) + 1
      BY SumIncrement, MeasurementAssumption
    <3>7. SumFunction(Counted') = SumFunction(Counted) + 1
      BY <3>1, <3>2, <3>3, <3>5, <3>6, Zenon
    <3> QED
      BY <3>7 DEF Recorded
  <2>2. ASSUME ~Writes(c) PROVE Recorded' = Recorded
    BY <2>2, <1>c DEF Recorded, Counted
  <2> QED
    BY <2>1, <2>2
<1>n. /\ Writes(c) => Cardinality(Fresh') = Cardinality(Fresh) - 1
      /\ ~Writes(c) => Cardinality(Fresh') = Cardinality(Fresh)
      /\ Cardinality(InHandler') = Cardinality(InHandler) - 1
  <2>1. ~Writes(c) => Fresh' = Fresh
    BY <1>s
  <2>2. Writes(c) => Cardinality(Fresh') = Cardinality(Fresh) - 1
    BY <1>s, HandlerSets, FS_RemoveElement, Zenon
  <2>3. Cardinality(InHandler') = Cardinality(InHandler) - 1
    BY <1>s, HandlerSets, FS_RemoveElement, Zenon
  <2> QED
    BY <2>1, <2>2, <2>3, Zenon
<1>2. MTypeOK'
  <2>1. job' \in [Conns -> JobRecord]
    BY <1>0, <1>1, MeasurementAssumption DEF MTypeOK, JobRecord, Idle, Numbers
  <2>2. connStats' \in [Conns -> StatRecord]
    <3> HIDE DEF first, last
    <3>1. CASE Writes(c)
      <4>1. connStats \in [Conns -> StatRecord]
        BY <1>0 DEF MTypeOK
      <4>2. [cs EXCEPT !.msgRecv = @ + 1, !.firstSeq = first, !.lastSeq = last] \in StatRecord
        <5>1. cs \in StatRecord /\ cs.msgRecv + 1 \in Nat
          BY <4>1, <1>f
        <5> HIDE DEF cs
        <5> QED
          BY <5>1, <1>f, Zenon DEF StatRecord
      <4>3. connStats' = [connStats EXCEPT ![c] = [cs EXCEPT !.msgRecv = @ + 1, !.firstSeq = first,
                                                             !.lastSeq = last]]
        BY <1>c, <3>1, <4>1, Zenon DEF StatRecord
      <4> QED
        BY <4>1, <4>2, <4>3, Zenon
    <3>2. CASE ~Writes(c)
      BY <1>0, <1>c, <3>2 DEF MTypeOK
    <3> QED
      BY <3>1, <3>2
  <2> QED
    BY <1>0, <1>1, <2>1, <2>2 DEF MTypeOK
<1>3. Control'
  <2>1. gen = 0 => \A d \in Conns : job'[d].gen = 0
    BY <1>0, <1>j DEF Control, Idle
  <2> QED
    BY <1>0, <1>1, <1>s, <2>1, Zenon DEF Control
<1>4. AllStatsOK'
  <2>1. StatOK(c)'
    <3>0. job'[c].at = "idle"
      <4>1. job'[c] = Idle
        BY <1>j, Zenon
      <4> QED
        BY ONLY <4>1 DEF Idle
    <3>1. CASE Writes(c)
      <4>1. cs.live /\ connStats'[c].live /\ s \in cs.arrived
        BY <1>o, <1>j, <1>1, <3>1, Zenon DEF StatOK
      <4>2. /\ cs.firstSeq = 0 <=> cs.lastSeq = 0
            /\ cs.firstSeq # 0 => cs.firstSeq \in cs.arrived /\ cs.lastSeq \in cs.arrived
            /\ \A x \in cs.arrived : (cs.firstSeq # 0 /\ cs.firstSeq <= x /\ x <= cs.lastSeq) \/ x = s
        BY <1>o, Zenon DEF StatOK
      <4>3. first # 0 /\ last # 0 /\ first \in cs.arrived /\ last \in cs.arrived
        <5>1. s # 0 /\ s \in cs.arrived
          BY <1>f, <4>1, Zenon
        <5>2. first \in {s, cs.firstSeq} /\ (cs.firstSeq = 0 => first = s)
          BY Zenon
        <5>3. last \in {s, cs.lastSeq} /\ (cs.lastSeq = 0 => last = s)
          <6>1. cs.lastSeq = 0 => s > cs.lastSeq
            <7>1. s \in Nat \ {0}
              BY <1>f, Zenon
            <7> HIDE DEF s, cs
            <7> QED
              BY <7>1
          <6> QED
            BY <6>1, Zenon
        <5> HIDE DEF first, last, cs, s
        <5> QED
          BY <4>2, <5>1, <5>2, <5>3, Zenon
      <4>4. \A x \in cs.arrived : first <= x /\ x <= last
        <5> SUFFICES ASSUME NEW x \in cs.arrived PROVE first <= x /\ x <= last
          OBVIOUS
        <5>1. x \in Nat /\ s \in Nat \ {0} /\ cs.firstSeq \in Nat /\ cs.lastSeq \in Nat
          BY <1>f, Zenon
        <5>2. (cs.firstSeq # 0 /\ cs.firstSeq <= x /\ x <= cs.lastSeq) \/ x = s
          BY <4>2
        <5> HIDE DEF cs, s
        <5> QED
          BY <4>2, <5>1, <5>2
      <4> HIDE DEF first, last, cs, s
      <4> QED
        BY <3>0, <3>1, <4>1, <4>3, <4>4, <1>j, <1>w, Zenon DEF StatOK
    <3>2. CASE ~Writes(c)
      BY <3>0, <3>2, <1>o, <1>1, <1>c, <1>w DEF StatOK
    <3> QED
      BY <3>1, <3>2
  <2>2. \A d \in Conns : d # c => StatOK(d)'
    BY <1>0, <1>1, <1>j, OthersFrame, Zenon DEF AllStatsOK
  <2> QED
    BY <2>1, <2>2, Zenon DEF AllStatsOK
<1> HIDE DEF first, last, cs, s
<1>5. NotInflated'
  <2>1. Recorded' + Cardinality(Fresh') = Recorded + Cardinality(Fresh)
    <3>1. Recorded \in Nat /\ Cardinality(Fresh) \in Nat
      BY <1>0, RecordedType, HandlerSets, Zenon
    <3> HIDE DEF Recorded
    <3> QED
      BY <3>1, <1>n, <1>r
  <2> QED
    BY <1>0, <1>1, <2>1, Zenon DEF NotInflated
<1>a. \A d \in Conns : connStats'[d].arrived = connStats[d].arrived
  BY <1>j DEF cs
<1>6. ViewOK'
  <2>1. phase = "connStat" => cur \in Conns
    BY <1>0 DEF MTypeOK, Control
  <2>2. Live \subseteq Conns
    BY DEF Live
  <2> QED
    BY <1>0, <1>1, <1>a, <1>s, <2>1, <2>2, Zenon DEF ViewOK, Covered
<1>7. QuietStart'
  BY <1>0, <1>1, Zenon DEF QuietStart
<1>8. QuietCount'
  <2> SUFFICES ASSUME quiet', phase' \in Measured
               PROVE  (\A d \in Conns : Accounted(d)') /\ msgRecv' = Recorded' + Cardinality(InHandler')
    BY Zenon DEF QuietCount
  <2>2. /\ \A d \in Conns : Accounted(d)
        /\ msgRecv = Recorded + Cardinality(InHandler)
    BY <1>0, <1>1 DEF QuietCount
  <2>3. Writes(c)
    BY <1>1, <2>2, Zenon DEF Accounted
  <2>4. Accounted(c)'
    <3>1. job'[c].at = "idle"
      BY <1>j DEF Idle
    <3>2. took[c] = connStats[c].arrived \cup {}
      BY <1>w, <2>2, Zenon DEF Accounted
    <3> QED
      BY <1>1, <1>a, <1>w, <3>1, <3>2, Zenon DEF Accounted
  <2>5. \A d \in Conns : d # c => Accounted(d)'
    BY <1>1, <1>j, <1>w, <2>2, Zenon DEF Accounted
  <2>6. msgRecv' = Recorded' + Cardinality(InHandler')
    BY <1>0, <1>1, <1>n, <1>r, <2>2, <2>3, RecordedType, HandlerSets
  <2> QED
    BY <2>4, <2>5, <2>6, Zenon
<1>9. QuietReport'
  <2>1. ~(quiet /\ phase \in Collected)
    BY <1>0, <1>1 DEF QuietReport, AllIdle
  <2> QED
    BY <1>1, <2>1, Zenon DEF QuietReport, Collected, Visiting
<1> QED
  BY <1>2, <1>3, <1>4, <1>5, <1>6, <1>7, <1>8, <1>9 DEF MInv


-----------------------------------------------------------------------------
(* The invariant                                                            *)

\* The invariant holds at first.
LEMMA MInit == ASSUME Init PROVE MInv
<1> USE DEF Init
<1>0. 0 \in Numbers /\ NoStat \in StatRecord /\ Idle \in JobRecord /\ NoView \in ViewRecord
  <2>1. 0 \in Numbers
    BY MeasurementAssumption DEF Numbers
  <2> QED
    BY <2>1, StatShapes DEF JobRecord, ViewRecord, Idle, NoView
<1>1. MTypeOK
  BY <1>0 DEF MTypeOK, Phases
<1>2. Control
  BY MeasurementAssumption DEF Control, Idle
<1>3. AllStatsOK
  BY Zenon DEF AllStatsOK, StatOK, Writes, Idle, NoStat
<1>4. NotInflated /\ ViewOK
  BY Zenon DEF NotInflated, ViewOK, Measured, Visiting
<1>5. QuietStart /\ QuietCount /\ QuietReport
  BY DEF QuietStart, QuietCount, QuietReport, Measured, Collected, Visiting
<1> QED
  BY <1>1, <1>2, <1>3, <1>4, <1>5, Zenon DEF MInv

\* The steps of the runner.
LEMMA RunnerStepStep == ASSUME MInv, RunnerStep PROVE MInv'
<1>1. CASE RecorderReset
  <2>1. phase = "resetMap" \/ phase = "resetCounters"
    BY <1>1 DEF RecorderReset
  <2> QED
    BY <1>1, <2>1, ResetMapStep, ResetCountersStep
<1>2. CASE SnapshotLoad
  BY <1>2, SnapshotLoadStep
<1>3. CASE SumTrackers
  BY <1>3, SumTrackersStep
<1>4. CASE LockConns
  BY <1>4, LockConnsStep
<1>5. CASE \E c \in Conns : ConnSnapshot(c)
  <2>1. PICK c \in Conns : ConnSnapshot(c)
    BY <1>5
  <2>2. phase = "conns" \/ phase = "connStat"
    BY <2>1 DEF ConnSnapshot
  <2> QED
    BY <2>1, <2>2, ConnTrackerStep, ConnStatStep
<1>6. CASE ConnSnapshotsEnd
  BY <1>6, ConnSnapshotsEndStep
<1> QED
  BY <1>1, <1>2, <1>3, <1>4, <1>5, <1>6 DEF RunnerStep

\* Steps that change nothing.
LEMMA MStutter == ASSUME MInv, UNCHANGED vars PROVE MInv'
<1> USE DEF vars, recorder, results, hist
<1>0. MTypeOK /\ UNCHANGED <<job, connStats, gen>>
  BY DEF MInv
<1>1. MTypeOK'
  BY <1>0 DEF MTypeOK
<1>2. Control'
  BY <1>0, RecorderFrame, Zenon DEF MInv, Control
<1>3. AllStatsOK'
  BY <1>0, RecorderFrame DEF MInv
<1>4. NotInflated'
  BY <1>0, RecorderFrame, Zenon DEF MInv, NotInflated
<1>5. ViewOK'
  BY <1>0, RecorderFrame DEF MInv, ViewOK, Covered
<1>6. QuietStart'
  <2>1. QuietStart /\ UNCHANGED <<gen, took, quiet, phase, job, connStats>>
    BY Zenon DEF MInv
  <2> HIDE DEF vars, recorder, results, hist
  <2> QED
    BY <2>1, Zenon DEF QuietStart
<1>7. QuietCount'
  BY <1>0, RecorderFrame, Zenon DEF MInv, QuietCount, Accounted
<1>8. QuietReport'
  BY <1>0, RecorderFrame DEF MInv, QuietReport, Seen
<1> QED
  BY <1>1, <1>2, <1>3, <1>4, <1>5, <1>6, <1>7, <1>8 DEF MInv

\* MInv holds in every state of a run, however the receive goroutines and the
\* runner's Reset, Snapshot and ConnSnapshots interleave.
THEOREM MInvariance == SafetySpec => []MInv
<1>1. Init => MInv
  BY MInit
<1>2. MInv /\ [Next]_vars => MInv'
  <2> SUFFICES ASSUME MInv, [Next]_vars PROVE MInv'
    OBVIOUS
  <2>1. CASE BroadcastLoop
    BY <2>1, BroadcastLoopStep
  <2>2. CASE Expires
    BY <2>2, ExpiresStep
  <2>3. CASE RunnerStep
    BY <2>3, RunnerStepStep
  <2>4. ASSUME NEW c \in Conns, Handler(c) PROVE MInv'
    BY <2>4, LookupConnStep, TrackerObserveStep, ConnStatUpdateStep DEF Handler
  <2>5. ASSUME NEW c \in Conns, NEW s \in Seqs, NEW again \in BOOLEAN, RecordSample(c, s, again)
        PROVE  MInv'
    BY <2>5, RecordSampleStep
  <2>6. CASE Finished
    BY <2>6, MStutter DEF Finished
  <2>7. CASE UNCHANGED vars
    BY <2>7, MStutter
  <2> QED
    BY <2>1, <2>2, <2>3, <2>4, <2>5, <2>6, <2>7 DEF Next
<1> QED
  BY <1>1, <1>2, PTL DEF SafetySpec


-----------------------------------------------------------------------------
(* What it says of the report                                               *)

\* What Max chooses is the only greatest element.
LEMMA MaxIs ==
    ASSUME NEW S, S \subseteq Int, NEW m \in S, \A x \in S : m >= x
    PROVE  Max(S) = m
<1>1. \A n \in S : (\A x \in S : n >= x) => n = m
  <2> SUFFICES ASSUME NEW n \in S, \A x \in S : n >= x PROVE n = m
    OBVIOUS
  <2>1. n >= m /\ m >= n /\ n \in Int /\ m \in Int
    OBVIOUS
  <2> QED
    BY <2>1
<1> DEFINE Top(n) == \A x \in S : n >= x
<1>2. Top(m) /\ \A n \in S : Top(n) => n = m
  BY <1>1
<1> HIDE DEF Top
<1>3. (CHOOSE n \in S : Top(n)) = m
  BY <1>2, Zenon
<1> QED
  BY <1>3 DEF Max, Top

\* A set of bounded numbers has a greatest element, which Max chooses.
LEMMA MaxExists ==
    ASSUME NEW n \in Nat, NEW S, S \subseteq 0 .. n, S # {}
    PROVE  Max(S) \in S /\ \A x \in S : x <= Max(S)
<1> DEFINE T == {k \in Nat : \A x \in S : x <= k}
<1>1. T \subseteq Nat /\ T # {}
  <2>1. n \in T
    OBVIOUS
  <2> QED
    BY <2>1
<1>2. PICK m \in T : \A k \in T : m <= k
  <2> HIDE DEF T
  <2> QED
    BY <1>1, LeastNumber, Zenon
<1>3. m \in S
  <2> SUFFICES ASSUME m \notin S PROVE FALSE
    OBVIOUS
  <2>1. \A x \in S : x \in Nat /\ x < m
    <3> SUFFICES ASSUME NEW x \in S PROVE x \in Nat /\ x < m
      OBVIOUS
    <3>1. x \in Nat /\ m \in Nat /\ x <= m /\ x # m
      BY <1>2
    <3> QED
      BY <3>1
  <2>2. PICK x \in S : TRUE
    BY Zenon
  <2>3. m - 1 \in Nat /\ m \in Nat
    BY <2>1, <2>2
  <2>4. \A y \in S : y <= m - 1
    BY <2>1, <2>3
  <2>5. m - 1 \in T
    BY <2>3, <2>4
  <2> HIDE DEF T
  <2>6. m <= m - 1
    BY <1>2, <2>5
  <2> QED
    BY <2>3, <2>6
<1>4. \A x \in S : m >= x
  BY <1>2
<1>5. Max(S) = m
  <2> HIDE DEF T
  <2>1. S \subseteq Int
    OBVIOUS
  <2> QED
    BY <1>3, <1>4, <2>1, MaxIs, Zenon
<1> QED
  BY <1>2, <1>3, <1>5

\* max(0, x).
LEMMA MaxOfZero == ASSUME NEW x \in Int PROVE Max({0, x}) = IF x >= 0 THEN x ELSE 0
<1>1. CASE x >= 0
  <2>1. {0, x} \subseteq Int /\ x \in {0, x} /\ \A y \in {0, x} : x >= y
    BY <1>1
  <2>2. Max({0, x}) = x
    BY <2>1, MaxIs, Zenon
  <2> QED
    BY <1>1, <2>2
<1>2. CASE ~(x >= 0)
  <2>1. {0, x} \subseteq Int /\ 0 \in {0, x} /\ \A y \in {0, x} : 0 >= y
    BY <1>2
  <2>2. Max({0, x}) = 0
    BY <2>1, MaxIs, Zenon
  <2> QED
    BY <1>2, <2>2
<1> QED
  BY <1>1, <1>2

\* globalMax is at least the last number of every tracker.
LEMMA GlobalMaxBounds ==
    ASSUME MTypeOK
    PROVE  globalMax \in Nat /\ \A c \in Live : view[c].LastSeq <= globalMax
<1> DEFINE S == {view[c].LastSeq : c \in Live} \cup {0}
<1>1. S \subseteq 0 .. MaxSeq /\ S # {} /\ MaxSeq \in Nat
  BY MeasurementAssumption DEF MTypeOK, ViewRecord, Numbers, Live
<1>2. \A c \in Live : view[c].LastSeq \in S
  OBVIOUS
<1>3. globalMax = Max(S)
  BY Zenon DEF globalMax
<1> HIDE DEF S
<1>4. Max(S) \in S /\ \A x \in S : x <= Max(S)
  BY <1>1, MaxExists, Zenon
<1>5. Max(S) \in 0 .. MaxSeq
  BY <1>1, <1>4, Zenon
<1>6. \A c \in Live : view[c].LastSeq <= Max(S)
  BY <1>2, <1>4, Zenon
<1>7. \A x \in 0 .. MaxSeq : x \in Nat
  BY <1>1
<1> QED
  BY <1>3, <1>5, <1>6, <1>7, Zenon

\* Counting what is missing from an interval.
Missing(f, g, A) == {s \in f .. g : s \notin A}

\* How many numbers of a range are not among those that arrived.
LEMMA MissedCount ==
    ASSUME NEW f \in Nat, NEW g \in Nat, NEW A
    PROVE  /\ Cardinality(Missing(f, g, A)) = Cardinality(f .. g) - Cardinality(A \cap (f .. g))
           /\ Cardinality(Missing(f, g, A)) \in Nat /\ Cardinality(A \cap (f .. g)) \in Nat
           /\ Cardinality(f .. g) = IF f > g THEN 0 ELSE g - f + 1
<1>1. IsFiniteSet(f .. g) /\ Cardinality(f .. g) = IF f > g THEN 0 ELSE g - f + 1
  BY FS_Interval
<1>2. Missing(f, g, A) = (f .. g) \ A /\ A \cap (f .. g) = (f .. g) \cap A
  BY DEF Missing
<1>3. /\ IsFiniteSet((f .. g) \ A)
      /\ Cardinality((f .. g) \ A) = Cardinality(f .. g) - Cardinality((f .. g) \cap A)
  BY <1>1, FS_Difference, Zenon
<1>4. Cardinality((f .. g) \ A) \in Nat
  BY <1>3, FS_CardinalityType, Zenon
<1>5. IsFiniteSet((f .. g) \cap A)
  BY <1>1, FS_Subset
<1>6. Cardinality((f .. g) \cap A) \in Nat
  BY <1>5, FS_CardinalityType, Zenon
<1> QED
  BY <1>1, <1>2, <1>3, <1>4, <1>6, Zenon

\* The loss of a tracker as the report computes it.
LEMMA LostIs ==
    ASSUME NEW c, view[c].Delivered > 0, view[c].FirstSeq > 0,
           globalMax \in Nat, view[c].FirstSeq \in Nat, view[c].Delivered \in Nat
    PROVE  LostOf(c) = IF globalMax - view[c].FirstSeq + 1 - view[c].Delivered >= 0
                       THEN globalMax - view[c].FirstSeq + 1 - view[c].Delivered ELSE 0
<1>1. LostOf(c) = Max({0, Expected(c) - view[c].Delivered})
  BY Zenon DEF LostOf
<1>2. Expected(c) = globalMax - view[c].FirstSeq + 1 /\ Expected(c) \in Int
  BY DEF Expected
<1> DEFINE x == Expected(c) - view[c].Delivered
<1>3. x \in Int /\ x = globalMax - view[c].FirstSeq + 1 - view[c].Delivered
  BY <1>2
<1>4. LostOf(c) = Max({0, x})
  BY <1>1
<1> HIDE DEF x
<1>5. Max({0, x}) = IF x >= 0 THEN x ELSE 0
  BY <1>3, MaxOfZero
<1> QED
  BY <1>3, <1>4, <1>5, Zenon

\* Reset racing the receive goroutines never inflates the throughput, for any
\* number of clients: Recorder.Reset replaces the map before it zeroes the
\* counters, so every message that the counter counts is counted by a connStat of
\* the new map or its handler has yet to write one.
THEOREM NeverInflated == SafetySpec => []ResetNeverInflates
<1>1. MInv => ResetNeverInflates
  <2> SUFFICES ASSUME MInv, gen = 1, phase # "resetCounters"
               PROVE  msgRecv <= SumFunction(Counted) + Cardinality(InHandler)
    BY Zenon DEF ResetNeverInflates
  <2>1. MTypeOK /\ phase \in Measured
    BY DEF MInv, MTypeOK, Control, Phases, Measured
  <2>2. msgRecv <= Recorded + Cardinality(Fresh) /\ msgRecv \in Nat
    BY <2>1 DEF MInv, NotInflated, MTypeOK
  <2>3. Cardinality(Fresh) <= Cardinality(InHandler)
    <3>1. Fresh \subseteq InHandler
      BY Zenon DEF Fresh, InHandler, Writes
    <3> QED
      BY <3>1, HandlerSets, FS_Subset
  <2>4. msgRecv <= Recorded + Cardinality(InHandler)
    BY <2>1, <2>2, <2>3, HandlerSets, RecordedType
  <2> QED
    BY <2>4 DEF Recorded
<1> QED
  BY <1>1, MInvariance, PTL

\* When handlers run during the final snapshots, the loss that buildPerClient
\* reports for a client is too small by one at most, for any number of clients
\* and broadcasts: ConnSnapshots reads the tracker before the connStat's bounds,
\* and only one number can be in the one and not within the other.
THEOREM LossUnderstated == SafetySpec => []LossUnderstatedByAtMostOne
<1>1. MInv => LossUnderstatedByAtMostOne
  <2> SUFFICES ASSUME MInv, phase = "done", NEW c \in Live, view[c].Delivered > 0, view[c].FirstSeq > 0
               PROVE  LostOf(c) + 1 >= Cardinality(MissedBy(c, connStats[c].arrived))
    BY Zenon DEF LossUnderstatedByAtMostOne
  <2> DEFINE f == view[c].FirstSeq
             g == globalMax
             A == connStats[c].arrived
             D == view[c].Delivered
             L == view[c].LastSeq
  <2>1. MTypeOK /\ c \in Conns /\ c \in Live \ todo
    BY Zenon DEF MInv, Control, Live
  <2>2. f \in Nat /\ g \in Nat /\ D \in Nat /\ L \in Nat /\ L <= g /\ f # 0
    <3>1. \A v \in ViewRecord : v.FirstSeq \in Nat /\ v.Delivered \in Nat /\ v.LastSeq \in Nat
      BY MeasurementAssumption DEF ViewRecord, Numbers
    <3>2. view[c] \in ViewRecord
      BY <2>1, Zenon DEF MTypeOK
    <3>3. f # 0
      <4>1. \A n \in Nat : n > 0 => n # 0
        BY ONLY TRUE
      <4> QED
        BY <3>1, <3>2, <4>1, Zenon
    <3> QED
      BY <2>1, <3>1, <3>2, <3>3, GlobalMaxBounds, Zenon
  <2>3. D <= Cardinality(A \cap (f .. L)) + 1
    BY <2>1, <2>2, Zenon DEF MInv, ViewOK, Visiting, Covered
  <2>4. LostOf(c) = IF g - f + 1 - D >= 0 THEN g - f + 1 - D ELSE 0
    BY <2>2, LostIs
  <2>5. MissedBy(c, A) = Missing(f, g, A)
    BY Zenon DEF MissedBy, Missing
  <2> HIDE DEF f, g, A, D, L
  <2>6. Cardinality(A \cap (f .. L)) <= Cardinality(A \cap (f .. g)) /\ Cardinality(A \cap (f .. L)) \in Nat
    <3>1. A \cap (f .. L) \subseteq A \cap (f .. g)
      BY <2>2
    <3>2. IsFiniteSet(A \cap (f .. g)) /\ IsFiniteSet(A \cap (f .. L))
      BY <2>1, ArrivedFinite, FS_Subset DEF A
    <3> QED
      BY <3>1, <3>2, FS_Subset, FS_CardinalityType
  <2>7. /\ Cardinality(MissedBy(c, A)) = Cardinality(f .. g) - Cardinality(A \cap (f .. g))
        /\ Cardinality(A \cap (f .. g)) \in Nat
        /\ Cardinality(f .. g) = IF f > g THEN 0 ELSE g - f + 1
    <3>1. /\ Cardinality(Missing(f, g, A)) = Cardinality(f .. g) - Cardinality(A \cap (f .. g))
          /\ Cardinality(A \cap (f .. g)) \in Nat
          /\ Cardinality(f .. g) = IF f > g THEN 0 ELSE g - f + 1
      BY <2>2, MissedCount
    <3> QED
      BY <2>5, <3>1, Zenon
  <2>8. LostOf(c) + 1 >= Cardinality(MissedBy(c, A))
    BY <2>2, <2>3, <2>4, <2>6, <2>7
  <2> QED
    BY <2>8, Zenon DEF A
<1> QED
  BY <1>1, MInvariance, PTL


\* When no handler runs during Reset and during the final snapshots the report is
\* exact, for any number of clients and broadcasts: buildPerClient's loss is the
\* number of sequence numbers that the client missed since Reset, and Snapshot's
\* receive count is the average over the clients, rounded down.
THEOREM QuietReportIsExact == SafetySpec => []ReportExactWhenQuiet
<1>1. MInv => ReportExactWhenQuiet
  <2> SUFFICES ASSUME MInv, phase = "done", quiet
               PROVE  /\ \A c \in Live : LostOf(c) = Cardinality(MissedBy(c, took[c]))
                      /\ Live # {} => loaded = SumFunction(Counted) \div Cardinality(Live)
    BY DEF ReportExactWhenQuiet
  <2>1. /\ MTypeOK /\ AllIdle /\ todo = {}
        /\ msgRecv = Recorded + Cardinality(InHandler) /\ \A c \in Conns : Accounted(c)
        /\ \A c \in Live : Seen(c)
        /\ Live # {} => loaded = msgRecv \div Cardinality(Live)
    BY DEF MInv, Control, QuietCount, QuietReport, Measured, Collected, Visiting
  <2>2. ASSUME NEW c \in Live PROVE LostOf(c) = Cardinality(MissedBy(c, took[c]))
    <3> DEFINE f == view[c].FirstSeq
               g == globalMax
               A == connStats[c].arrived
               D == view[c].Delivered
               L == view[c].LastSeq
    <3>1. c \in Conns /\ connStats[c].live /\ StatOK(c) /\ job[c].at = "idle"
      BY <2>1 DEF Live, MInv, AllStatsOK, AllIdle
    <3>2. D = Cardinality(A) /\ f = connStats[c].firstSeq /\ L = connStats[c].lastSeq /\ took[c] = A
      BY <2>1, <3>1, Zenon DEF Seen, Accounted, Pending
    <3>3. f # 0 /\ f \in A /\ \A s \in A : f <= s /\ s <= L
      BY <3>1, <3>2, Zenon DEF StatOK, Writes
    <3>4. f \in Nat /\ g \in Nat /\ D \in Nat /\ L \in Nat /\ L <= g
      BY <2>1, <3>1, GlobalMaxBounds, MeasurementAssumption DEF MTypeOK, ViewRecord, Numbers
    <3>5. IsFiniteSet(A) /\ A \subseteq Nat
      <4>1. IsFiniteSet(connStats[c].arrived) /\ connStats[c].arrived \in SUBSET Seqs
        BY <2>1, <3>1, ArrivedFinite, Zenon
      <4>2. Seqs \subseteq Nat
        BY MeasurementAssumption DEF Seqs
      <4> QED
        BY <4>1, <4>2, Zenon
    <3>6. MissedBy(c, took[c]) = Missing(f, g, A)
      BY <3>2 DEF MissedBy, Missing
    <3>7. D > 0 => LostOf(c) = IF g - f + 1 - D >= 0 THEN g - f + 1 - D ELSE 0
      <4>1. f > 0
        BY <3>3, <3>4
      <4> QED
        BY <3>4, <4>1, LostIs
    <3> HIDE DEF f, g, A, D, L
    <3>8. A \cap (f .. g) = A /\ f <= g
      <4>1. ASSUME NEW s \in A PROVE s \in f .. g
        <5>1. s \in Nat /\ f <= s /\ s <= L
          BY <3>3, <3>5
        <5> QED
          BY <3>4, <5>1
      <4>2. A \cap (f .. g) = A
        BY <4>1
      <4>3. f \in f .. g
        BY <3>3, <4>1, Zenon
      <4> QED
        BY <3>4, <4>2, <4>3
    <3>9. D > 0
      <4>1. A # {}
        BY <3>3
      <4>2. Cardinality(A) # 0
        BY <3>5, <4>1, FS_EmptySet
      <4> QED
        BY <3>2, <3>4, <4>2
    <3>10. /\ Cardinality(Missing(f, g, A)) = Cardinality(f .. g) - Cardinality(A \cap (f .. g))
           /\ Cardinality(Missing(f, g, A)) \in Nat
           /\ Cardinality(f .. g) = IF f > g THEN 0 ELSE g - f + 1
      BY <3>4, MissedCount
    <3>11. /\ Cardinality(MissedBy(c, took[c])) = g - f + 1 - D
           /\ Cardinality(MissedBy(c, took[c])) \in Nat
      <4>1. Cardinality(Missing(f, g, A)) = Cardinality(f .. g) - D
        BY <3>2, <3>8, <3>10, Zenon
      <4>2. Cardinality(f .. g) = g - f + 1
        BY <3>4, <3>8, <3>10
      <4>3. Cardinality(Missing(f, g, A)) = g - f + 1 - D
        BY <3>4, <4>1, <4>2
      <4> QED
        BY <3>6, <3>10, <4>3
    <3> QED
      BY <3>4, <3>7, <3>9, <3>11
  <2>3. ASSUME Live # {} PROVE loaded = SumFunction(Counted) \div Cardinality(Live)
    <3>1. InHandler = {}
      BY <2>1 DEF InHandler, AllIdle
    <3>2. msgRecv = Recorded
      BY <2>1, <3>1, FS_EmptySet, RecordedType
    <3> QED
      BY <2>1, <2>3, <3>2 DEF Recorded
  <2> QED
    BY <2>2, <2>3
<1> QED
  BY <1>1, MInvariance, PTL

=============================================================================
