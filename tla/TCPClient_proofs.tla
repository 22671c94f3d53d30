--------------------------- MODULE TCPClient_proofs ---------------------------
(***************************************************************************)
(* For any number of senders, frames and connections: what Send accepts    *)
(* goes out once and in order, whatever SendSync, Close, Dial and failing  *)
(* connections do meanwhile.                                               *)
(***************************************************************************)
EXTENDS TCPClient, Integers, FiniteSetTheorems, WellFoundedInduction, TLAPS

-----------------------------------------------------------------------------
(* Induction.  The theorems of the library that take a set of counterexamples *)
(* instead of a predicate serve for it.                                     *)

Less == {p \in Nat \X Nat : p[1] < p[2]}

\* A non-empty set of natural numbers has a least element.
LEMMA LeastNumber ==
    ASSUME NEW T, T \subseteq Nat, T # {}
    PROVE  \E m \in T : \A n \in T : m <= n
<1>1. IsWellFoundedOn(Less, Nat)
  BY NatLessThanWellFounded, Zenon DEF OpToRel, Less
<1>2. PICK m \in T : \A n \in T : ~ (<<n, m>> \in Less)
  BY <1>1, WFMin, Zenon
<1>3. \A n \in T : n < m => <<n, m>> \in Less
  BY DEF Less
<1>4. \A n \in T : ~ (n < m)
  BY <1>2, <1>3, Zenon
<1>5. m \in Nat /\ \A n \in T : n \in Nat
  BY Zenon
<1>6. \A n \in T : m <= n
  BY <1>4, <1>5
<1> QED
  BY <1>6

\* A set that has the empty sequence, and with a sequence all that are one element
\* longer, has all sequences.
LEMMA AllSequences ==
    ASSUME NEW S, NEW T, <<>> \in T, \A s \in Seq(S) : s \in T => \A e \in S : Append(s, e) \in T
    PROVE  \A s \in Seq(S) : s \in T
<1> DEFINE Bad == {n \in Nat : \E s \in Seq(S) : Len(s) = n /\ s \notin T}
<1>1. Bad = {}
  <2> SUFFICES ASSUME Bad # {} PROVE FALSE
    OBVIOUS
  <2>1. PICK n \in Bad : \A m \in Bad : n <= m
    <3>1. Bad \subseteq Nat
      OBVIOUS
    <3> HIDE DEF Bad
    <3> QED
      BY <3>1, LeastNumber, Zenon
  <2>2. PICK s \in Seq(S) : Len(s) = n /\ s \notin T
    OBVIOUS
  <2>3. n \in Nat /\ n # 0
    <3>1. Len(s) = 0 => s = <<>>
      OBVIOUS
    <3> QED
      BY <2>2, <3>1
  <2> DEFINE r == SubSeq(s, 1, n - 1)
  <2>4. r \in Seq(S) /\ Len(r) = n - 1 /\ s[n] \in S /\ s = Append(r, s[n])
    BY <2>2, <2>3
  <2> HIDE DEF r
  <2>5. r \notin T
    BY <2>2, <2>4, Zenon
  <2>6. n - 1 \in Bad
    BY <2>3, <2>4, <2>5
  <2> HIDE DEF Bad
  <2> QED
    BY <2>1, <2>3, <2>6
<1>2. \A s \in Seq(S) : s \notin T => Len(s) \in Bad
  OBVIOUS
<1> QED
  BY <1>1, <1>2, Zenon

-----------------------------------------------------------------------------
(* What Kept keeps                                                          *)

\* K is the function that Kept defines.
Filters(s, X, K) ==
    K = [i \in 0 .. Len(s) |->
            IF i = 0 THEN <<>> ELSE IF s[i] \in X THEN Append(K[i - 1], s[i]) ELSE K[i - 1]]

Filter(s, X) == CHOOSE K : Filters(s, X, K)

\* Kept is the last value of the function that filters prefixes.
LEMMA KeptIsFilter == ASSUME NEW s, NEW X PROVE Kept(s, X) = Filter(s, X)[Len(s)]
BY Zenon DEF Kept, Filter, Filters

\* The same without the function constructor.
FiltersTo(s, X, K, n) ==
    /\ K[0] = <<>>
    /\ \A i \in 1 .. n : K[i] = IF s[i] \in X THEN Append(K[i - 1], s[i]) ELSE K[i - 1]

\* That function, read at each prefix.
LEMMA FiltersAt ==
    ASSUME NEW S, NEW s \in Seq(S), NEW X, NEW K, Filters(s, X, K)
    PROVE  FiltersTo(s, X, K, Len(s))
<1>1. Len(s) \in Nat
  OBVIOUS
<1>2. K[0] = <<>>
  BY <1>1 DEF Filters
<1>3. ASSUME NEW i \in 1 .. Len(s)
      PROVE  K[i] = IF s[i] \in X THEN Append(K[i - 1], s[i]) ELSE K[i - 1]
  <2>1. i \in 0 .. Len(s) /\ i # 0
    BY <1>1
  <2> QED
    BY <2>1, Zenon DEF Filters
<1> QED
  BY <1>2, <1>3 DEF FiltersTo

\* Two such functions agree on what their sequences have in common.
LEMMA FiltersAgree ==
    ASSUME NEW n \in Nat, NEW s, NEW t, NEW X, NEW K, NEW L,
           FiltersTo(s, X, K, n), FiltersTo(t, X, L, n), \A i \in 1 .. n : s[i] = t[i]
    PROVE  \A i \in 0 .. n : K[i] = L[i]
<1> DEFINE Bad == {i \in 0 .. n : K[i] # L[i]}
<1> SUFFICES ASSUME Bad # {} PROVE FALSE
  OBVIOUS
<1>1. PICK m \in Bad : \A i \in Bad : m <= i
  <2>1. Bad \subseteq Nat
    OBVIOUS
  <2> HIDE DEF Bad
  <2> QED
    BY <2>1, LeastNumber, Zenon
<1>2. m \in 1 .. n /\ m - 1 \in 0 .. n /\ K[m] # L[m]
  <2>1. m \in 0 .. n /\ K[m] # L[m] /\ m # 0
    BY DEF FiltersTo
  <2> QED
    BY <2>1
<1>3. K[m - 1] = L[m - 1]
  <2>1. ~(m <= m - 1)
    BY <1>2
  <2>2. m - 1 \notin Bad
    <3> HIDE DEF Bad
    <3> QED
      BY <1>1, <2>1
  <2> QED
    BY <1>2, <2>2
<1> HIDE DEF Bad
<1>4. K[m] = IF s[m] \in X THEN Append(K[m - 1], s[m]) ELSE K[m - 1]
  BY <1>2, Zenon DEF FiltersTo
<1>5. L[m] = IF t[m] \in X THEN Append(L[m - 1], t[m]) ELSE L[m - 1]
  BY <1>2, Zenon DEF FiltersTo
<1>6. s[m] = t[m]
  BY <1>2, Zenon
<1>7. K[m] = IF t[m] \in X THEN Append(L[m - 1], t[m]) ELSE L[m - 1]
  BY <1>3, <1>4, <1>6
<1> QED
  BY <1>2, <1>5, <1>7

\* It exists for every sequence.
LEMMA FilterExists ==
    ASSUME NEW S, NEW X
    PROVE  \A s \in Seq(S) : \E K : Filters(s, X, K)
<1> DEFINE T == {s \in Seq(S) : \E K : Filters(s, X, K)}
<1>1. <<>> \in T
  <2>1. Filters(<<>>, X, [i \in 0 .. 0 |-> <<>>])
    BY DEF Filters
  <2> QED
    BY <2>1
<1>2. ASSUME NEW s \in Seq(S), s \in T, NEW e \in S PROVE Append(s, e) \in T
  <2>1. PICK K : Filters(s, X, K)
    BY <1>2
  <2> DEFINE n == Len(s)
             t == Append(s, e)
             F(i, A) == IF i = 0 THEN <<>> ELSE IF t[i] \in X THEN Append(A[i - 1], t[i]) ELSE A[i - 1]
             L == [i \in 0 .. n + 1 |-> IF i <= n THEN K[i] ELSE F(i, K)]
  <2>2. n \in Nat /\ t \in Seq(S) /\ Len(t) = n + 1 /\ \A i \in 1 .. n : t[i] = s[i]
    OBVIOUS
  <2>3. FiltersTo(s, X, K, n)
    BY <2>1, FiltersAt
  <2> HIDE DEF t, n
  <2>4. ASSUME NEW i \in 0 .. n + 1 PROVE L[i] = F(i, L)
    <3>1. CASE i = 0
      BY <2>2, <2>3, <3>1 DEF FiltersTo
    <3>2. CASE i \in 1 .. n
      <4>1. L[i] = K[i] /\ L[i - 1] = K[i - 1] /\ i # 0
        BY <2>2, <3>2
      <4>2. K[i] = IF s[i] \in X THEN Append(K[i - 1], s[i]) ELSE K[i - 1]
        BY <2>3, <3>2, Zenon DEF FiltersTo
      <4> HIDE DEF L
      <4> QED
        BY <2>2, <3>2, <4>1, <4>2, Zenon
    <3>3. CASE i = n + 1
      <4>1. L[i] = F(i, K) /\ L[i - 1] = K[i - 1]
        BY <2>2, <3>3
      <4> HIDE DEF L
      <4> QED
        BY <4>1, Zenon
    <3> QED
      BY <2>2, <3>1, <3>2, <3>3
  <2>5. L = [i \in 0 .. n + 1 |-> L[i]]
    OBVIOUS
  <2> HIDE DEF L
  <2>6. L = [i \in 0 .. Len(t) |-> F(i, L)]
    BY <2>2, <2>4, <2>5, Zenon
  <2>7. Filters(t, X, L)
    BY <2>6, Zenon DEF Filters
  <2> QED
    BY <2>2, <2>7, Zenon DEF t
<1> HIDE DEF T
<1>3. \A s \in Seq(S) : s \in T
  BY <1>1, <1>2, AllSequences
<1> QED
  BY <1>3 DEF T

\* Kept goes through a sequence from left to right.
LEMMA KeptAppend ==
    ASSUME NEW S, NEW X, NEW s \in Seq(S), NEW e \in S
    PROVE  Kept(Append(s, e), X) = IF e \in X THEN Append(Kept(s, X), e) ELSE Kept(s, X)
<1> DEFINE t == Append(s, e)
           n == Len(s)
           K == Filter(s, X)
           L == Filter(t, X)
<1>1. n \in Nat /\ t \in Seq(S) /\ Len(t) = n + 1 /\ t[n + 1] = e /\ \A i \in 1 .. n : s[i] = t[i]
  OBVIOUS
<1>2. Filters(s, X, K)
  BY FilterExists, Zenon DEF Filter
<1>3. Filters(t, X, L)
  BY <1>1, FilterExists, Zenon DEF Filter
<1> HIDE DEF K, L
<1>4. FiltersTo(s, X, K, n)
  BY <1>2, FiltersAt
<1> HIDE DEF t
<1>5. FiltersTo(t, X, L, n + 1)
  BY <1>1, <1>3, FiltersAt
<1> HIDE DEF n
<1>6. FiltersTo(t, X, L, n)
  BY <1>1, <1>5 DEF FiltersTo
<1>7. K[n] = L[n]
  <2>1. \A i \in 0 .. n : K[i] = L[i]
    BY <1>1, <1>4, <1>6, FiltersAgree
  <2> QED
    BY <1>1, <2>1
<1>8. L[n + 1] = IF e \in X THEN Append(L[n], e) ELSE L[n]
  <2>1. n + 1 \in 1 .. n + 1 /\ (n + 1) - 1 = n
    BY <1>1
  <2>2. L[n + 1] = IF t[n + 1] \in X THEN Append(L[(n + 1) - 1], t[n + 1]) ELSE L[(n + 1) - 1]
    BY <1>5, <2>1, Zenon DEF FiltersTo
  <2> QED
    BY <1>1, <2>1, <2>2, Zenon
<1>9. Kept(s, X) = K[n] /\ Kept(t, X) = L[n + 1]
  BY <1>1, KeptIsFilter DEF K, L, n
<1> QED
  BY <1>7, <1>8, <1>9, Zenon DEF t

\* Nothing is kept of nothing.
LEMMA KeptEmpty == ASSUME NEW X PROVE Kept(<<>>, X) = <<>>
<1>1. Filters(<<>>, X, Filter(<<>>, X))
  <2>1. <<>> \in Seq(Nat)
    OBVIOUS
  <2> QED
    BY <2>1, FilterExists, Zenon DEF Filter
<1>2. Filter(<<>>, X)[0] = <<>>
  BY <1>1 DEF Filters
<1> QED
  BY <1>2, KeptIsFilter


\* What is kept is a sequence of the same elements.
LEMMA KeptType == ASSUME NEW S, NEW X PROVE \A s \in Seq(S) : Kept(s, X) \in Seq(S)
<1> DEFINE T == {s \in Seq(S) : Kept(s, X) \in Seq(S)}
<1>1. <<>> \in T
  <2>1. <<>> \in Seq(S) /\ Kept(<<>>, X) = <<>>
    BY KeptEmpty
  <2> QED
    BY <2>1, Zenon
<1>2. ASSUME NEW s \in Seq(S), s \in T, NEW e \in S PROVE Append(s, e) \in T
  <2>1. Kept(Append(s, e), X) = IF e \in X THEN Append(Kept(s, X), e) ELSE Kept(s, X)
    BY KeptAppend
  <2>2. Kept(s, X) \in Seq(S)
    BY <1>2
  <2> QED
    BY <2>1, <2>2
<1> HIDE DEF T
<1>3. \A s \in Seq(S) : s \in T
  BY <1>1, <1>2, AllSequences
<1> QED
  BY <1>3 DEF T

Elements(s) == {s[i] : i \in 1 .. Len(s)}

\* The elements after an append.
LEMMA ElementsAppend ==
    ASSUME NEW S, NEW s \in Seq(S), NEW e \in S
    PROVE  Elements(Append(s, e)) = Elements(s) \cup {e}
<1>1. /\ Len(Append(s, e)) = Len(s) + 1 /\ Append(s, e)[Len(s) + 1] = e /\ Len(s) \in Nat
      /\ \A i \in 1 .. Len(s) : Append(s, e)[i] = s[i]
  OBVIOUS
<1>2. 1 .. Len(s) + 1 = (1 .. Len(s)) \cup {Len(s) + 1}
  BY <1>1
<1> DEFINE a == Append(s, e)
<1> HIDE DEF a
<1>3. {a[i] : i \in 1 .. Len(s) + 1} = {a[i] : i \in 1 .. Len(s)} \cup {a[Len(s) + 1]}
  BY <1>2
<1>4. {a[i] : i \in 1 .. Len(s)} = {s[i] : i \in 1 .. Len(s)}
  BY <1>1 DEF a
<1> QED
  BY <1>1, <1>3, <1>4 DEF Elements, a

LEMMA AppendConcat ==
    \A s \in Seq(Nat), t \in Seq(Nat), e \in Nat : Append(s, e) \o t = s \o (<<e>> \o t)
OBVIOUS

\* The same for frames.
LEMMA FramesAppend ==
    /\ \A s \in Seq(Nat), e \in Nat : Elements(Append(s, e)) = Elements(s) \cup {e}
    /\ \A s \in Seq(Nat), t \in Seq(Nat), e \in Nat : s \o Append(t, e) = Append(s \o t, e)
<1>1. ASSUME NEW s \in Seq(Nat), NEW e \in Nat
      PROVE  Elements(Append(s, e)) = Elements(s) \cup {e}
  BY ElementsAppend
<1>2. ASSUME NEW s \in Seq(Nat), NEW t \in Seq(Nat), NEW e \in Nat
      PROVE  s \o Append(t, e) = Append(s \o t, e)
  OBVIOUS
<1> QED
  BY <1>1, <1>2, Zenon

\* What is kept are the elements in the set.
LEMMA ElementsKept ==
    ASSUME NEW S, NEW X
    PROVE  \A s \in Seq(S) : Elements(Kept(s, X)) = Elements(s) \cap X
<1> DEFINE T == {s \in Seq(S) : Elements(Kept(s, X)) = Elements(s) \cap X}
<1>1. <<>> \in T
  BY KeptEmpty DEF Elements
<1>2. ASSUME NEW s \in Seq(S), s \in T, NEW e \in S PROVE Append(s, e) \in T
  <2>0. Kept(s, X) \in Seq(S) /\ Append(s, e) \in Seq(S)
    BY KeptType
  <2>1. Elements(Append(s, e)) = Elements(s) \cup {e}
    BY ElementsAppend
  <2>2. CASE e \in X
    <3>1. Kept(Append(s, e), X) = Append(Kept(s, X), e)
      BY <2>2, KeptAppend, Zenon
    <3>2. Elements(Append(Kept(s, X), e)) = Elements(Kept(s, X)) \cup {e}
      BY <2>0, ElementsAppend
    <3>3. Elements(Kept(Append(s, e), X)) = (Elements(s) \cap X) \cup {e}
      BY <1>2, <3>1, <3>2
    <3> QED
      BY <2>0, <2>1, <2>2, <3>3
  <2>3. CASE e \notin X
    <3>0. Kept(Append(s, e), X) = IF e \in X THEN Append(Kept(s, X), e) ELSE Kept(s, X)
      BY KeptAppend
    <3>1. Kept(Append(s, e), X) = Kept(s, X)
      BY <2>3, <3>0
    <3> QED
      BY <1>2, <2>0, <2>1, <2>3, <3>1
  <2> QED
    BY <2>2, <2>3
<1> HIDE DEF T
<1>3. \A s \in Seq(S) : s \in T
  BY <1>1, <1>2, AllSequences
<1> QED
  BY <1>3 DEF T

\* Only what X says of the elements of s matters.
LEMMA KeptSame ==
    ASSUME NEW S, NEW X, NEW Y
    PROVE  \A s \in Seq(S) : Elements(s) \cap X = Elements(s) \cap Y => Kept(s, X) = Kept(s, Y)
<1> DEFINE T == {s \in Seq(S) : Elements(s) \cap X = Elements(s) \cap Y => Kept(s, X) = Kept(s, Y)}
<1>1. <<>> \in T
  BY KeptEmpty
<1>2. ASSUME NEW s \in Seq(S), s \in T, NEW e \in S PROVE Append(s, e) \in T
  <2>0. Append(s, e) \in Seq(S)
    OBVIOUS
  <2>1. Elements(Append(s, e)) = Elements(s) \cup {e}
    BY ElementsAppend
  <2> SUFFICES ASSUME Elements(Append(s, e)) \cap X = Elements(Append(s, e)) \cap Y
               PROVE  Kept(Append(s, e), X) = Kept(Append(s, e), Y)
    BY <2>0
  <2>2. (e \in X <=> e \in Y) /\ Elements(s) \cap X = Elements(s) \cap Y
    BY <2>1
  <2>3. Kept(s, X) = Kept(s, Y)
    BY <1>2, <2>2
  <2>4. Kept(Append(s, e), X) = IF e \in X THEN Append(Kept(s, X), e) ELSE Kept(s, X)
    BY KeptAppend
  <2>5. Kept(Append(s, e), Y) = IF e \in Y THEN Append(Kept(s, Y), e) ELSE Kept(s, Y)
    BY KeptAppend
  <2> QED
    BY <2>2, <2>3, <2>4, <2>5
<1> HIDE DEF T
<1>3. \A s \in Seq(S) : s \in T
  BY <1>1, <1>2, AllSequences
<1> QED
  BY <1>3 DEF T

\* All of s is kept, if all of it is in X.
LEMMA KeptAll ==
    ASSUME NEW S, NEW X
    PROVE  \A s \in Seq(S) : Elements(s) \subseteq X => Kept(s, X) = s
<1> DEFINE T == {s \in Seq(S) : Elements(s) \subseteq X => Kept(s, X) = s}
<1>1. <<>> \in T
  BY KeptEmpty
<1>2. ASSUME NEW s \in Seq(S), s \in T, NEW e \in S PROVE Append(s, e) \in T
  <2>0. Append(s, e) \in Seq(S)
    OBVIOUS
  <2>1. Elements(Append(s, e)) = Elements(s) \cup {e}
    BY ElementsAppend
  <2> SUFFICES ASSUME Elements(Append(s, e)) \subseteq X PROVE Kept(Append(s, e), X) = Append(s, e)
    BY <2>0
  <2>2. e \in X /\ Elements(s) \subseteq X
    BY <2>1
  <2>3. Kept(s, X) = s
    BY <1>2, <2>2
  <2>4. Kept(Append(s, e), X) = Append(Kept(s, X), e)
    BY <2>2, KeptAppend, Zenon
  <2> QED
    BY <2>3, <2>4
<1> HIDE DEF T
<1>3. \A s \in Seq(S) : s \in T
  BY <1>1, <1>2, AllSequences
<1> QED
  BY <1>3 DEF T


\* Keeping what is in Y of what is in X.
LEMMA KeptTwice ==
    ASSUME NEW S, NEW X, NEW Y
    PROVE  \A s \in Seq(S) : Kept(Kept(s, X), Y) = Kept(s, X \cap Y)
<1> DEFINE T == {s \in Seq(S) : Kept(Kept(s, X), Y) = Kept(s, X \cap Y)}
<1>1. <<>> \in T
  <2>1. <<>> \in Seq(S) /\ Kept(<<>>, X) = <<>> /\ Kept(<<>>, Y) = <<>> /\ Kept(<<>>, X \cap Y) = <<>>
    BY KeptEmpty
  <2> QED
    BY <2>1
<1>2. ASSUME NEW s \in Seq(S), s \in T, NEW e \in S PROVE Append(s, e) \in T
  <2> DEFINE a == Append(s, e)
             k == Kept(s, X)
             m == Kept(s, X \cap Y)
  <2>0. a \in Seq(S) /\ k \in Seq(S) /\ Kept(k, Y) = m
    BY <1>2, KeptType
  <2>1. Kept(a, X) = IF e \in X THEN Append(k, e) ELSE k
    BY KeptAppend
  <2>2. Kept(a, X \cap Y) = IF e \in X \cap Y THEN Append(m, e) ELSE m
    BY KeptAppend
  <2>3. Kept(Append(k, e), Y) = IF e \in Y THEN Append(Kept(k, Y), e) ELSE Kept(k, Y)
    <3>1. \A z \in Seq(S) : Kept(Append(z, e), Y) = IF e \in Y THEN Append(Kept(z, Y), e) ELSE Kept(z, Y)
      BY KeptAppend
    <3> HIDE DEF k
    <3> QED
      BY <2>0, <3>1, Zenon
  <2> HIDE DEF a, k, m
  <2>4. Kept(Kept(a, X), Y) = Kept(a, X \cap Y)
    <3>1. CASE e \in X
      <4>1. Kept(Kept(a, X), Y) = IF e \in Y THEN Append(m, e) ELSE m
        BY <2>0, <2>1, <2>3, <3>1
      <4> QED
        BY <2>2, <3>1, <4>1
    <3>2. CASE e \notin X
      <4>1. Kept(Kept(a, X), Y) = m
        BY <2>0, <2>1, <3>2
      <4> QED
        BY <2>2, <3>2, <4>1
    <3> QED
      BY <3>1, <3>2
  <2> QED
    BY <2>0, <2>4 DEF a
<1> HIDE DEF T
<1>3. \A s \in Seq(S) : s \in T
  BY <1>1, <1>2, AllSequences
<1> QED
  BY <1>3, Zenon DEF T

\* Concatenation and append.
LEMMA ConcatAppend ==
    ASSUME NEW S, NEW s \in Seq(S), NEW t \in Seq(S), NEW e \in S
    PROVE  s \o Append(t, e) = Append(s \o t, e)
OBVIOUS

\* Two sequences with the same elements at the same positions are one.
LEMMA SameSequence ==
    ASSUME NEW T, NEW s \in Seq(T), NEW t \in Seq(T),
           Len(s) = Len(t), \A i \in 1 .. Len(s) : s[i] = t[i]
    PROVE  s = t
OBVIOUS

\* Concatenation associates.
LEMMA Associates == \A u, v, w \in Seq(Nat) : (u \o v) \o w = u \o (v \o w)
<1> SUFFICES ASSUME NEW u \in Seq(Nat), NEW v \in Seq(Nat), NEW w \in Seq(Nat)
             PROVE  (u \o v) \o w = u \o (v \o w)
  BY Zenon
<1>1. /\ u \o v \in Seq(Nat) /\ v \o w \in Seq(Nat)
      /\ (u \o v) \o w \in Seq(Nat) /\ u \o (v \o w) \in Seq(Nat)
  OBVIOUS
<1>2. Len((u \o v) \o w) = Len(u \o (v \o w))
  OBVIOUS
<1>3. \A i \in 1 .. Len((u \o v) \o w) : ((u \o v) \o w)[i] = (u \o (v \o w))[i]
  OBVIOUS
<1> QED
  BY <1>1, <1>2, <1>3, SameSequence, Zenon

\* A filter can be applied to the halves of a sequence.
LEMMA KeptConcat ==
    ASSUME NEW S, NEW X, NEW s \in Seq(S)
    PROVE  \A t \in Seq(S) : Kept(s \o t, X) = Kept(s, X) \o Kept(t, X)
<1> DEFINE T == {t \in Seq(S) : Kept(s \o t, X) = Kept(s, X) \o Kept(t, X)}
<1>0. Kept(s, X) \in Seq(S)
  BY KeptType
<1>1. <<>> \in T
  <2>1. <<>> \in Seq(S) /\ s \o <<>> = s /\ Kept(s, X) \o <<>> = Kept(s, X) /\ Kept(<<>>, X) = <<>>
    BY <1>0, KeptEmpty
  <2> QED
    BY <2>1, Zenon
<1>2. ASSUME NEW t \in Seq(S), t \in T, NEW e \in S PROVE Append(t, e) \in T
  <2> DEFINE a == Append(t, e)
             k == Kept(s, X)
             m == Kept(t, X)
  <2>0. a \in Seq(S) /\ s \o t \in Seq(S) /\ k \in Seq(S) /\ m \in Seq(S) /\ Kept(s \o t, X) = k \o m
    BY <1>2, KeptType
  <2>1. s \o a = Append(s \o t, e) /\ k \o Append(m, e) = Append(k \o m, e)
    <3>1. s \o a = Append(s \o t, e)
      BY ConcatAppend
    <3>2. \A x, y \in Seq(S) : x \o Append(y, e) = Append(x \o y, e)
      BY ConcatAppend
    <3> HIDE DEF k, m
    <3>3. k \o Append(m, e) = Append(k \o m, e)
      BY <2>0, <3>2
    <3> QED
      BY <3>1, <3>3
  <2>2. Kept(Append(s \o t, e), X) = IF e \in X THEN Append(k \o m, e) ELSE k \o m
    <3>1. \A z \in Seq(S) : Kept(Append(z, e), X) = IF e \in X THEN Append(Kept(z, X), e) ELSE Kept(z, X)
      BY KeptAppend
    <3> HIDE DEF k, m
    <3> QED
      BY <2>0, <3>1, Zenon
  <2>3. Kept(a, X) = IF e \in X THEN Append(m, e) ELSE m
    BY KeptAppend
  <2> HIDE DEF a, k, m
  <2>4. Kept(s \o a, X) = k \o Kept(a, X)
    BY <2>1, <2>2, <2>3, Zenon
  <2> QED
    BY <2>0, <2>4 DEF a, k
<1> HIDE DEF T
<1>3. \A t \in Seq(S) : t \in T
  BY <1>1, <1>2, AllSequences
<1> QED
  BY <1>3 DEF T

\* An element that is not to be kept, in front.
LEMMA KeptWithout ==
    ASSUME NEW S, NEW Y, NEW f \in S, f \notin Y
    PROVE  \A v \in Seq(S) : Elements(v) \subseteq Y => Kept(<<f>> \o v, Y) = v
<1>1. <<f>> \in Seq(S) /\ <<f>> = Append(<<>>, f) /\ <<>> \in Seq(S)
  OBVIOUS
<1>2. Kept(<<f>>, Y) = <<>>
  <2>1. \A z \in Seq(S) : Kept(Append(z, f), Y) = IF f \in Y THEN Append(Kept(z, Y), f) ELSE Kept(z, Y)
    BY KeptAppend
  <2>2. Kept(Append(<<>>, f), Y) = Kept(<<>>, Y)
    BY <1>1, <2>1, Zenon
  <2>3. Kept(<<>>, Y) = <<>>
    BY KeptEmpty
  <2> QED
    BY <1>1, <2>2, <2>3
<1>3. ASSUME NEW v \in Seq(S), Elements(v) \subseteq Y PROVE Kept(<<f>> \o v, Y) = v
  <2>1. Kept(<<f>> \o v, Y) = Kept(<<f>>, Y) \o Kept(v, Y)
    BY <1>1, KeptConcat, Zenon
  <2>2. Kept(v, Y) = v
    BY <1>3, KeptAll
  <2>3. <<>> \o v = v
    OBVIOUS
  <2> QED
    BY <1>2, <2>1, <2>2, <2>3
<1> QED
  BY <1>3

-----------------------------------------------------------------------------
(* The inductive invariant                                                  *)

Distinct(s) == \A i, j \in 1 .. Len(s) : s[i] = s[j] => i = j

ClientTypeOK ==
    /\ numbers \in Nat
    /\ socket \in [number : Nat, up : BOOLEAN, unread : Nat]
    /\ owner \in {"out", "in", "closing", "waiting", "stopping"}
    /\ wpump \in [pc : {"none", "select", "write"}, frame : Nat]
    /\ writeCh \in Seq(Nat)
    /\ sender \in [Sender -> [pc : {"idle", "Send", "SendSync", "Write"}, frame : Nat, to : Nat]]
    /\ trace \in [accepted : Seq(Nat), written : Seq(Nat), lost : SUBSET Nat]
    /\ IsFiniteSet(trace.lost)

\* With A accepted, W written, L lost and Q what the pump has in hand and in the channel.
Ordered(A, W, L, Q) ==
    /\ Kept(A, Elements(A) \ L) = Kept(W, Elements(A)) \o Q
    /\ Distinct(W) /\ Distinct(Q)
    /\ Elements(Q) \cap (L \cup Elements(W)) = {} /\ Elements(Q) \subseteq Elements(A)
    /\ L \cap Elements(W) = {} /\ L \subseteq Elements(A)

\* A call under way has a number of its own, and its frame is nowhere yet.
Fresh(f) == f \in 1 .. numbers /\ f \notin Elements(trace.accepted) /\ f \notin Elements(trace.written)

CallsAreFresh ==
    /\ \A s \in Sender : sender[s].pc # "idle" => Fresh(sender[s].frame)
    /\ \A s, t \in Sender :
          sender[s].pc # "idle" /\ sender[t].pc # "idle" /\ s # t => sender[s].frame # sender[t].frame
    /\ Elements(trace.accepted) \subseteq 1 .. numbers
    /\ Elements(trace.written) \subseteq 1 .. numbers

\* A connection has one write pump, which is gone when Dial may be called.
OnePump ==
    /\ owner \in {"out", "stopping"} => wpump.pc = "none"
    /\ Cardinality(trace.lost) + (IF wpump.pc = "none" THEN 0 ELSE 1) <= socket.number

ClientInv ==
    /\ ClientTypeOK
    /\ CallsAreFresh
    /\ OnePump
    /\ Ordered(trace.accepted, trace.written, trace.lost, InHand \o writeCh)


-----------------------------------------------------------------------------
(* The four things that happen to a frame                                   *)

\* The concatenation of two sequences is one.
LEMMA ConcatType ==
    ASSUME NEW S, NEW s \in Seq(S), NEW t \in Seq(S)
    PROVE  s \o t \in Seq(S)
OBVIOUS

\* A new element keeps a sequence without duplicates so.
LEMMA DistinctAppend ==
    ASSUME NEW S, NEW s \in Seq(S), NEW e \in S, Distinct(s), e \notin Elements(s)
    PROVE  Distinct(Append(s, e))
<1>1. /\ Len(Append(s, e)) = Len(s) + 1 /\ Len(s) \in Nat
      /\ \A i \in 1 .. Len(s) : Append(s, e)[i] = s[i]
      /\ Append(s, e)[Len(s) + 1] = e
  OBVIOUS
<1>2. \A i \in 1 .. Len(s) : s[i] # e
  BY DEF Elements
<1>3. \A i \in 1 .. Len(s) + 1 : i \in 1 .. Len(s) \/ i = Len(s) + 1
  BY <1>1
<1> QED
  BY <1>1, <1>2, <1>3 DEF Distinct

\* The first element of a sequence and the others.
LEMMA FirstAndRest ==
    ASSUME NEW S, NEW q \in Seq(S), q # <<>>, Distinct(q)
    PROVE  /\ Head(q) \in S /\ Tail(q) \in Seq(S)
           /\ Distinct(Tail(q))
           /\ Elements(Tail(q)) \subseteq Elements(q) \ {Head(q)}
           /\ Head(q) \in Elements(q)
           /\ q = <<Head(q)>> \o Tail(q)
<1>1. /\ Len(q) \in Nat /\ Len(q) > 0
      /\ Head(q) = q[1] /\ Head(q) \in S
      /\ Tail(q) \in Seq(S) /\ Len(Tail(q)) = Len(q) - 1
      /\ \A i \in 1 .. Len(Tail(q)) : Tail(q)[i] = q[i + 1]
  OBVIOUS
<1>2. \A i \in 1 .. Len(Tail(q)) : i + 1 \in 1 .. Len(q) /\ i + 1 # 1 /\ i \in Int
  BY <1>1
<1>3. 1 \in 1 .. Len(q)
  BY <1>1
<1>4. Distinct(Tail(q))
  <2>1. ASSUME NEW i \in 1 .. Len(Tail(q)), NEW j \in 1 .. Len(Tail(q)), Tail(q)[i] = Tail(q)[j]
        PROVE  i = j
    <3>1. q[i + 1] = q[j + 1]
      BY <1>1, <2>1
    <3>2. i + 1 = j + 1
      BY <1>2, <3>1 DEF Distinct
    <3> QED
      BY <1>2, <3>2
  <2> QED
    BY <2>1 DEF Distinct
<1>5. Elements(Tail(q)) \subseteq Elements(q) \ {Head(q)}
  <2>1. ASSUME NEW i \in 1 .. Len(Tail(q))
        PROVE  Tail(q)[i] \in Elements(q) /\ Tail(q)[i] # Head(q)
    <3>1. Tail(q)[i] = q[i + 1] /\ q[i + 1] \in Elements(q)
      BY <1>1, <1>2 DEF Elements
    <3>2. q[i + 1] # q[1]
      BY <1>2, <1>3 DEF Distinct
    <3> QED
      BY <1>1, <3>1, <3>2
  <2> QED
    BY <2>1, Zenon DEF Elements
<1>6. Head(q) \in Elements(q)
  BY <1>1, <1>3 DEF Elements
<1>7. q = <<Head(q)>> \o Tail(q)
  OBVIOUS
<1> QED
  BY <1>1, <1>4, <1>5, <1>6, <1>7

\* Send: accepted, and last in the channel.
LEMMA Accepts ==
    ASSUME NEW A \in Seq(Nat), NEW W \in Seq(Nat), NEW L, NEW Q \in Seq(Nat), NEW f \in Nat,
           Ordered(A, W, L, Q), f \notin Elements(A), f \notin Elements(W)
    PROVE  Ordered(Append(A, f), W, L, Append(Q, f))
<1> DEFINE a == Append(A, f)
<1>0. a \in Seq(Nat)
  OBVIOUS
<1>1. Elements(a) = Elements(A) \cup {f}
  BY FramesAppend, Zenon
<1>2. Elements(Append(Q, f)) = Elements(Q) \cup {f}
  BY FramesAppend, Zenon
<1>3. f \notin L /\ f \notin Elements(Q)
  BY DEF Ordered
<1>4. Distinct(Append(Q, f))
  BY <1>3, DistinctAppend DEF Ordered
<1>5. Kept(a, Elements(a) \ L) = Append(Kept(A, Elements(A) \ L), f)
  <2> DEFINE Y == Elements(a) \ L
             X == Elements(A) \ L
  <2>1. \A Z : Kept(a, Z) = IF f \in Z THEN Append(Kept(A, Z), f) ELSE Kept(A, Z)
    BY KeptAppend
  <2>2. f \in Y /\ Elements(A) \cap Y = Elements(A) \cap X
    BY <1>1, <1>3
  <2> HIDE DEF X, Y
  <2>3. Kept(A, Y) = Kept(A, X)
    BY <2>2, KeptSame
  <2>4. Kept(a, Y) = Append(Kept(A, X), f)
    BY <2>1, <2>2, <2>3
  <2> QED
    BY <2>4, Zenon DEF X, Y
<1>6. Kept(W, Elements(a)) = Kept(W, Elements(A))
  <2>1. Elements(W) \cap Elements(a) = Elements(W) \cap Elements(A)
    BY <1>1
  <2> QED
    BY <2>1, KeptSame
<1>7. Kept(W, Elements(A)) \in Seq(Nat)
  BY KeptType
<1>8. Kept(W, Elements(A)) \o Append(Q, f) = Append(Kept(W, Elements(A)) \o Q, f)
  BY <1>7, FramesAppend, Zenon
<1>9. Kept(a, Elements(a) \ L) = Kept(W, Elements(a)) \o Append(Q, f)
  <2>1. Kept(A, Elements(A) \ L) = Kept(W, Elements(A)) \o Q
    BY Zenon DEF Ordered
  <2> HIDE DEF a
  <2> QED
    BY <1>5, <1>6, <1>8, <2>1, Zenon
<1>10. /\ Distinct(W)
       /\ Elements(Append(Q, f)) \cap (L \cup Elements(W)) = {} /\ Elements(Append(Q, f)) \subseteq Elements(a)
       /\ L \cap Elements(W) = {} /\ L \subseteq Elements(a)
  BY <1>1, <1>2, <1>3 DEF Ordered
<1> QED
  BY <1>4, <1>9, <1>10, Zenon DEF Ordered


\* SendSync writes a frame that Send has not accepted.
LEMMA WritesOther ==
    ASSUME NEW A \in Seq(Nat), NEW W \in Seq(Nat), NEW L, NEW Q \in Seq(Nat), NEW f \in Nat,
           Ordered(A, W, L, Q), f \notin Elements(A), f \notin Elements(W)
    PROVE  Ordered(A, Append(W, f), L, Q)
<1>1. Elements(Append(W, f)) = Elements(W) \cup {f}
  BY FramesAppend, Zenon
<1>2. Distinct(Append(W, f))
  BY DistinctAppend DEF Ordered
<1>3. Kept(Append(W, f), Elements(A)) = Kept(W, Elements(A))
  <2>1. \A Z : Kept(Append(W, f), Z) = IF f \in Z THEN Append(Kept(W, Z), f) ELSE Kept(W, Z)
    BY KeptAppend
  <2> QED
    BY <2>1
<1>4. /\ Elements(Q) \cap (L \cup Elements(Append(W, f))) = {}
      /\ L \cap Elements(Append(W, f)) = {}
  BY <1>1 DEF Ordered
<1> QED
  BY <1>2, <1>3, <1>4, Zenon DEF Ordered

\* The pump writes the frame it has in hand.
LEMMA WritesFirst ==
    ASSUME NEW A \in Seq(Nat), NEW W \in Seq(Nat), NEW L, NEW Q \in Seq(Nat),
           Ordered(A, W, L, Q), Q # <<>>
    PROVE  Ordered(A, Append(W, Head(Q)), L, Tail(Q))
<1> DEFINE f == Head(Q)
<1>1. /\ f \in Nat /\ Tail(Q) \in Seq(Nat) /\ Distinct(Tail(Q))
      /\ Elements(Tail(Q)) \subseteq Elements(Q) \ {f}
      /\ f \in Elements(Q)
      /\ Q = <<f>> \o Tail(Q)
  BY FirstAndRest DEF Ordered
<1> HIDE DEF f
<1>2. f \in Elements(A) /\ f \notin Elements(W) /\ f \notin L
  BY <1>1 DEF Ordered
<1>3. Elements(Append(W, f)) = Elements(W) \cup {f}
  BY <1>1, ElementsAppend
<1>4. Distinct(Append(W, f))
  BY <1>1, <1>2, DistinctAppend DEF Ordered
<1>5. Kept(Append(W, f), Elements(A)) = Append(Kept(W, Elements(A)), f)
  <2>1. \A Z : Kept(Append(W, f), Z) = IF f \in Z THEN Append(Kept(W, Z), f) ELSE Kept(W, Z)
    BY <1>1, KeptAppend
  <2> QED
    BY <1>2, <2>1
<1>6. Append(Kept(W, Elements(A)), f) \o Tail(Q) = Kept(W, Elements(A)) \o Q
  <2>1. Kept(W, Elements(A)) \in Seq(Nat)
    BY KeptType
  <2>2. PICK r \in Seq(Nat) : r = Tail(Q)
    BY <1>1, Zenon
  <2>3. Append(Kept(W, Elements(A)), f) \o r = Kept(W, Elements(A)) \o (<<f>> \o r)
    BY <1>1, <2>1, AppendConcat, Zenon
  <2>4. Q = <<f>> \o r
    BY <1>1, <2>2, Zenon
  <2> QED
    BY <2>2, <2>3, <2>4, Zenon
<1>7. /\ Elements(Tail(Q)) \cap (L \cup Elements(Append(W, f))) = {} /\ Elements(Tail(Q)) \subseteq Elements(A)
      /\ L \cap Elements(Append(W, f)) = {}
  BY <1>1, <1>2, <1>3 DEF Ordered
<1>8. Ordered(A, Append(W, f), L, Tail(Q))
  BY <1>1, <1>4, <1>5, <1>6, <1>7, Zenon DEF Ordered
<1> QED
  BY <1>8 DEF f

\* The frame is lost with the connection.
LEMMA LosesFirst ==
    ASSUME NEW A \in Seq(Nat), NEW W \in Seq(Nat), NEW L, NEW Q \in Seq(Nat),
           Ordered(A, W, L, Q), Q # <<>>
    PROVE  Ordered(A, W, L \cup {Head(Q)}, Tail(Q)) /\ Head(Q) \notin L
<1> DEFINE f == Head(Q)
           X == Elements(A) \ L
           Y == Elements(A) \ (L \cup {f})
           u == Kept(W, Elements(A))
<1>1. /\ f \in Nat /\ Tail(Q) \in Seq(Nat) /\ Distinct(Tail(Q))
      /\ Elements(Tail(Q)) \subseteq Elements(Q) \ {f}
      /\ f \in Elements(Q)
      /\ Q = <<f>> \o Tail(Q)
  BY FirstAndRest DEF Ordered
<1> HIDE DEF f
<1>2. f \in Elements(A) /\ f \notin Elements(W) /\ f \notin L
  BY <1>1 DEF Ordered
<1>3. u \in Seq(Nat) /\ Elements(u) = Elements(W) \cap Elements(A)
  BY KeptType, ElementsKept
<1>4. Elements(u) \subseteq Y /\ Elements(Tail(Q)) \subseteq Y /\ f \notin Y
  BY <1>1, <1>2, <1>3 DEF Ordered
<1>5. Kept(A, X) = u \o (<<f>> \o Tail(Q))
  BY <1>1, Zenon DEF Ordered
<1>6. X \cap Y = Y
  OBVIOUS
<1> HIDE DEF u, X, Y
<1>7. Kept(u \o (<<f>> \o Tail(Q)), Y) = u \o Tail(Q)
  <2> DEFINE v == Tail(Q)
  <2>1. f \in Nat /\ u \in Seq(Nat) /\ v \in Seq(Nat)
    BY <1>1, <1>3
  <2>2. Elements(u) \subseteq Y /\ Elements(v) \subseteq Y /\ f \notin Y
    BY <1>4
  <2> HIDE DEF v
  <2>3. Kept(<<f>> \o v, Y) = v
    BY <2>1, <2>2, KeptWithout, Zenon
  <2>4. <<f>> \o v \in Seq(Nat)
    BY <2>1
  <2>5. Kept(u, Y) = u
    BY <2>1, <2>2, KeptAll
  <2>6. \A z \in Seq(Nat) : Kept(u \o z, Y) = Kept(u, Y) \o Kept(z, Y)
    BY <2>1, KeptConcat, Zenon
  <2>7. Kept(u \o (<<f>> \o v), Y) = u \o v
    BY <2>3, <2>4, <2>5, <2>6, Zenon
  <2> QED
    BY <2>7, Zenon DEF v
<1>8. Kept(Kept(A, X), Y) = Kept(A, X \cap Y)
  BY KeptTwice
<1>9. Kept(A, Y) = u \o Tail(Q)
  BY <1>5, <1>6, <1>7, <1>8, Zenon
<1>10. /\ Elements(Tail(Q)) \cap ((L \cup {f}) \cup Elements(W)) = {} /\ Elements(Tail(Q)) \subseteq Elements(A)
       /\ (L \cup {f}) \cap Elements(W) = {} /\ L \cup {f} \subseteq Elements(A)
  BY <1>1, <1>2 DEF Ordered
<1>11. Ordered(A, W, L \cup {f}, Tail(Q))
  BY <1>1, <1>9, <1>10, Zenon DEF Ordered, u, Y
<1> QED
  BY <1>2, <1>11 DEF f


-----------------------------------------------------------------------------
(* The actions                                                              *)

\* The parts of the state that the invariant is about.
Untouched == UNCHANGED <<numbers, wpump, writeCh, sender, trace>>

\* Steps that touch no frame.
LEMMA NothingMoves ==
    ASSUME ClientInv, Untouched, socket'.number = socket.number,
           socket' \in [number : Nat, up : BOOLEAN, unread : Nat],
           owner' \in {"out", "in", "closing", "waiting", "stopping"},
           owner' \in {"out", "stopping"} => wpump.pc = "none"
    PROVE  ClientInv'
<1>1. ClientTypeOK'
  BY DEF ClientInv, ClientTypeOK, Untouched
<1>2. CallsAreFresh'
  BY DEF ClientInv, CallsAreFresh, Fresh, Untouched
<1>3. OnePump'
  BY DEF ClientInv, OnePump, Untouched
<1>4. Ordered(trace.accepted, trace.written, trace.lost, InHand \o writeCh)'
  BY DEF ClientInv, InHand, Untouched
<1> QED
  BY <1>1, <1>2, <1>3, <1>4 DEF ClientInv

\* The invariant holds at first.
LEMMA InitClient == ClientInit => ClientInv
<1> SUFFICES ASSUME ClientInit PROVE ClientInv
  OBVIOUS
<1>1. ClientTypeOK
  <2>1. IsFiniteSet(trace.lost)
    BY FS_EmptySet DEF ClientInit
  <2>2. sender \in [Sender -> [pc : {"idle", "Send", "SendSync", "Write"}, frame : Nat, to : Nat]]
    BY DEF ClientInit, Idle
  <2>3. <<>> \in Seq(Nat)
    OBVIOUS
  <2> QED
    BY <2>1, <2>2, <2>3 DEF ClientInit, ClientTypeOK
<1>2. CallsAreFresh
  BY DEF ClientInit, CallsAreFresh, Idle, Elements
<1>3. OnePump
  <2>1. Cardinality({}) = 0
    BY FS_EmptySet
  <2> QED
    BY <2>1 DEF ClientInit, OnePump
<1>4. Ordered(trace.accepted, trace.written, trace.lost, InHand \o writeCh)
  <2>1. InHand \o writeCh = <<>> /\ trace.accepted = <<>> /\ trace.written = <<>> /\ trace.lost = {}
    BY DEF ClientInit, InHand
  <2>2. \A Z : Kept(<<>>, Z) = <<>>
    BY KeptEmpty
  <2>3. Elements(<<>>) = {} /\ Distinct(<<>>) /\ <<>> \o <<>> = <<>>
    BY DEF Elements, Distinct
  <2>4. Ordered(<<>>, <<>>, {}, <<>>)
    BY <2>2, <2>3 DEF Ordered
  <2> QED
    BY <2>1, <2>4
<1> QED
  BY <1>1, <1>2, <1>3, <1>4 DEF ClientInv

\* The recorder starts.
LEMMA StartRecorderStep == ClientInv /\ StartRecorder => ClientInv'
<1> SUFFICES ASSUME ClientInv, StartRecorder PROVE ClientInv'
  OBVIOUS
<1>1. Untouched /\ socket' = socket /\ owner' = owner
  BY DEF StartRecorder, Untouched
<1> QED
  BY <1>1, NothingMoves DEF ClientInv, ClientTypeOK, OnePump

\* The sampler runs.
LEMMA SamplerStep == ClientInv /\ SamplerLoop => ClientInv'
<1> SUFFICES ASSUME ClientInv, SamplerLoop PROVE ClientInv'
  OBVIOUS
<1>1. Untouched /\ socket' = socket /\ owner' = owner
  BY DEF SamplerLoop, Untouched
<1> QED
  BY <1>1, NothingMoves DEF ClientInv, ClientTypeOK, OnePump

\* The read pump runs.
LEMMA ReadPumpStep == ClientInv /\ readPump => ClientInv'
<1> SUFFICES ASSUME ClientInv, readPump PROVE ClientInv'
  OBVIOUS
<1>1. Untouched /\ socket' = socket /\ owner' = owner
  BY DEF readPump, Untouched
<1> QED
  BY <1>1, NothingMoves DEF ClientInv, ClientTypeOK, OnePump

\* The server, or the network, reads or closes.
LEMMA PeerStep == ClientInv /\ Peer => ClientInv'
<1> SUFFICES ASSUME ClientInv, Peer PROVE ClientInv'
  OBVIOUS
<1>1. Untouched /\ owner' = owner
  BY DEF Peer, Untouched
<1>2. socket \in [number : Nat, up : BOOLEAN, unread : Nat]
  BY DEF ClientInv, ClientTypeOK
<1>3. socket'.number = socket.number /\ socket' \in [number : Nat, up : BOOLEAN, unread : Nat]
  <2>1. CASE socket.unread > 0 /\ socket' = [socket EXCEPT !.unread = @ - 1]
    <3>1. socket.unread - 1 \in Nat
      BY <1>2, <2>1
    <3> QED
      BY <1>2, <2>1, <3>1
  <2>2. CASE socket' = [socket EXCEPT !.up = FALSE]
    BY <1>2, <2>2, Zenon
  <2> QED
    BY <2>1, <2>2 DEF Peer
<1> QED
  BY <1>1, <1>3, NothingMoves DEF ClientInv, ClientTypeOK, OnePump

\* Close is where the goroutine learns that the pump is gone.
LEMMA CloseStep == ClientInv /\ Close => ClientInv'
<1> SUFFICES ASSUME ClientInv, Close PROVE ClientInv'
  OBVIOUS
<1>1. Untouched
  BY DEF Close, Untouched
<1>2. socket \in [number : Nat, up : BOOLEAN, unread : Nat]
  BY DEF ClientInv, ClientTypeOK
<1>3. socket'.number = socket.number /\ socket' \in [number : Nat, up : BOOLEAN, unread : Nat]
  BY <1>2, Zenon DEF Close
<1>4. owner' \in {"out", "in", "closing", "waiting", "stopping"}
  BY DEF Close
<1>5. owner' \in {"out", "stopping"} => wpump.pc = "none"
  BY DEF Close, WgWait, ClientInv, OnePump
<1> QED
  BY <1>1, <1>3, <1>4, <1>5, NothingMoves

\* A dial makes a new socket and a new write pump.
LEMMA DialStep == ClientInv /\ Dial => ClientInv'
<1> SUFFICES ASSUME ClientInv, Dial PROVE ClientInv'
  OBVIOUS
<1>1. /\ UNCHANGED <<numbers, writeCh, sender, trace>> /\ owner' = "in"
      /\ wpump.pc = "none" /\ wpump' = [pc |-> "select", frame |-> 0]
      /\ socket' = [number |-> socket.number + 1, up |-> TRUE, unread |-> 0]
  BY DEF Dial, ClientInv, OnePump
<1>2. socket.number \in Nat
  BY DEF ClientInv, ClientTypeOK
<1>3. ClientTypeOK'
  BY <1>1, <1>2 DEF ClientInv, ClientTypeOK
<1>4. CallsAreFresh'
  BY <1>1 DEF ClientInv, CallsAreFresh, Fresh
<1>5. OnePump'
  <2>1. Cardinality(trace.lost) \in Nat
    BY FS_CardinalityType DEF ClientInv, ClientTypeOK
  <2>2. Cardinality(trace.lost) <= socket.number
    BY <1>1, <1>2, <2>1 DEF ClientInv, OnePump
  <2>3. socket'.number = socket.number + 1 /\ wpump'.pc = "select" /\ trace' = trace
    BY <1>1
  <2> QED
    BY <1>1, <1>2, <2>1, <2>2, <2>3 DEF OnePump
<1>6. (InHand \o writeCh)' = InHand \o writeCh
  BY <1>1 DEF InHand
<1> QED
  BY <1>1, <1>3, <1>4, <1>5, <1>6 DEF ClientInv


\* A sender draws the next number.
LEMMA NextNumberStep ==
    ASSUME ClientInv, NEW s \in Sender, NextNumber(s)
    PROVE  ClientInv'
<1> PICK pc \in {"Send", "SendSync"} :
          sender' = [sender EXCEPT ![s] = [pc |-> pc, frame |-> numbers + 1, to |-> 0]]
  BY Zenon DEF NextNumber
<1>1. /\ UNCHANGED <<socket, owner, wpump, writeCh, trace>> /\ numbers' = numbers + 1
      /\ sender[s].pc = "idle"
  BY DEF NextNumber
<1>2. numbers \in Nat /\ numbers + 1 \in Nat
  BY DEF ClientInv, ClientTypeOK
<1>3. ClientTypeOK'
  <2>1. [pc |-> pc, frame |-> numbers + 1, to |-> 0]
           \in [pc : {"idle", "Send", "SendSync", "Write"}, frame : Nat, to : Nat]
    BY <1>2
  <2>2. sender' \in [Sender -> [pc : {"idle", "Send", "SendSync", "Write"}, frame : Nat, to : Nat]]
    BY <2>1, Zenon DEF ClientInv, ClientTypeOK
  <2> QED
    BY <1>1, <1>2, <2>2 DEF ClientInv, ClientTypeOK
<1>4. /\ sender'[s].pc # "idle" /\ sender'[s].frame = numbers + 1
      /\ \A t \in Sender : t # s => sender'[t] = sender[t]
  BY DEF ClientInv, ClientTypeOK
<1>5. 1 .. numbers \subseteq 1 .. numbers + 1 /\ numbers + 1 \in 1 .. numbers + 1 /\ numbers + 1 \notin 1 .. numbers
  BY <1>2
<1>6. CallsAreFresh'
  <2>2. ASSUME NEW t \in Sender, sender'[t].pc # "idle" PROVE Fresh(sender[t].frame)'
    <3>1. CASE t # s
      <4>1. Fresh(sender[t].frame)
        BY <1>4, <2>2, <3>1 DEF ClientInv, CallsAreFresh
      <4> QED
        BY <1>1, <1>4, <1>5, <3>1, <4>1 DEF Fresh
    <3>2. CASE t = s
      <4>1. numbers + 1 \notin Elements(trace.accepted) /\ numbers + 1 \notin Elements(trace.written)
        BY <1>5 DEF ClientInv, CallsAreFresh
      <4> QED
        BY <1>1, <1>4, <1>5, <3>2, <4>1 DEF Fresh
    <3> QED
      BY <3>1, <3>2
  <2>3. ASSUME NEW t \in Sender, t # s, sender[t].pc # "idle" PROVE sender[t].frame # numbers + 1
    BY <1>5, <2>3 DEF ClientInv, CallsAreFresh, Fresh
  <2>4. ASSUME NEW t \in Sender, NEW u \in Sender, t # u, sender'[t].pc # "idle", sender'[u].pc # "idle"
        PROVE  sender'[t].frame # sender'[u].frame
    <3>1. CASE t = s
      BY <1>4, <2>3, <2>4, <3>1
    <3>2. CASE u = s
      BY <1>4, <2>3, <2>4, <3>2
    <3>3. CASE t # s /\ u # s
      BY <1>4, <2>4, <3>3 DEF ClientInv, CallsAreFresh
    <3> QED
      BY <3>1, <3>2, <3>3
  <2>5. Elements(trace'.accepted) \subseteq 1 .. numbers' /\ Elements(trace'.written) \subseteq 1 .. numbers'
    BY <1>1, <1>5 DEF ClientInv, CallsAreFresh
  <2> QED
    BY <2>2, <2>4, <2>5 DEF CallsAreFresh
<1>7. OnePump'
  BY <1>1 DEF ClientInv, OnePump
<1>8. Ordered(trace.accepted, trace.written, trace.lost, InHand \o writeCh)'
  BY <1>1 DEF ClientInv, InHand
<1> QED
  BY <1>3, <1>6, <1>7, <1>8 DEF ClientInv

\* A call ends, and its frame went nowhere, to the channel or to a connection: the
\* others keep their frames.
LEMMA CallEnds ==
    ASSUME ClientInv, NEW s \in Sender, sender[s].pc # "idle",
           sender' = [sender EXCEPT ![s] = Idle], numbers' = numbers,
           Elements(trace'.accepted) \subseteq Elements(trace.accepted) \cup {sender[s].frame},
           Elements(trace'.written) \subseteq Elements(trace.written) \cup {sender[s].frame}
    PROVE  /\ CallsAreFresh'
           /\ sender' \in [Sender -> [pc : {"idle", "Send", "SendSync", "Write"}, frame : Nat, to : Nat]]
<1>1. sender' \in [Sender -> [pc : {"idle", "Send", "SendSync", "Write"}, frame : Nat, to : Nat]]
  <2>1. Idle \in [pc : {"idle", "Send", "SendSync", "Write"}, frame : Nat, to : Nat]
    BY DEF Idle
  <2> QED
    BY <2>1, Zenon DEF ClientInv, ClientTypeOK
<1>2. /\ sender'[s].pc = "idle"
      /\ \A t \in Sender : t # s => sender'[t] = sender[t]
  BY DEF ClientInv, ClientTypeOK, Idle
<1>3. ASSUME NEW t \in Sender, sender'[t].pc # "idle" PROVE Fresh(sender[t].frame)'
  <2>1. t # s /\ sender'[t] = sender[t] /\ Fresh(sender[t].frame) /\ sender[t].frame # sender[s].frame
    BY <1>2, <1>3 DEF ClientInv, CallsAreFresh
  <2> QED
    BY <2>1 DEF Fresh
<1>4. ASSUME NEW t \in Sender, NEW u \in Sender, t # u, sender'[t].pc # "idle", sender'[u].pc # "idle"
      PROVE  sender'[t].frame # sender'[u].frame
  <2>1. t # s /\ u # s
    BY <1>2, <1>4
  <2> QED
    BY <1>2, <1>4, <2>1 DEF ClientInv, CallsAreFresh
<1>5. Elements(trace'.accepted) \subseteq 1 .. numbers' /\ Elements(trace'.written) \subseteq 1 .. numbers'
  BY DEF ClientInv, CallsAreFresh, Fresh
<1> QED
  BY <1>1, <1>3, <1>4, <1>5 DEF CallsAreFresh


\* The frame in hand and the queue after it.
LEMMA QueueType == ASSUME ClientTypeOK PROVE InHand \in Seq(Nat) /\ InHand \o writeCh \in Seq(Nat)
<1>1. InHand \in Seq(Nat)
  BY DEF InHand, ClientTypeOK
<1> QED
  BY <1>1 DEF ClientTypeOK

\* Send queues the frame or refuses it.
LEMMA SendStep ==
    ASSUME ClientInv, NEW s \in Sender, Send(s)
    PROVE  ClientInv'
<1> DEFINE f == sender[s].frame
<1>0. ClientTypeOK /\ f \in Nat /\ sender[s].pc # "idle" /\ Fresh(f)
  BY DEF Send, ClientInv, ClientTypeOK, CallsAreFresh
<1>1. /\ UNCHANGED <<socket, owner, wpump, numbers>>
      /\ sender' = [sender EXCEPT ![s] = Idle]
  BY DEF Send
<1>2. CASE writeCh' = Append(writeCh, f) /\ trace' = [trace EXCEPT !.accepted = Append(@, f)]
  <2>1. /\ trace' \in [accepted : Seq(Nat), written : Seq(Nat), lost : SUBSET Nat]
        /\ trace'.accepted = Append(trace.accepted, f)
        /\ trace'.written = trace.written /\ trace'.lost = trace.lost
        /\ writeCh' \in Seq(Nat)
    <3>1. trace \in [accepted : Seq(Nat), written : Seq(Nat), lost : SUBSET Nat] /\ writeCh \in Seq(Nat)
      BY <1>0 DEF ClientTypeOK
    <3>2. Append(trace.accepted, f) \in Seq(Nat) /\ Append(writeCh, f) \in Seq(Nat)
      BY <1>0, <3>1
    <3> HIDE DEF f
    <3> QED
      BY <1>2, <3>1, <3>2, Zenon
  <2>2. /\ trace.accepted \in Seq(Nat) /\ trace.written \in Seq(Nat)
        /\ InHand \in Seq(Nat) /\ writeCh \in Seq(Nat) /\ InHand \o writeCh \in Seq(Nat)
    BY <1>0, QueueType DEF ClientTypeOK
  <2>3. Elements(trace'.accepted) = Elements(trace.accepted) \cup {f}
    BY <1>0, <2>1, <2>2, ElementsAppend
  <2>4. CallsAreFresh' /\ sender' \in [Sender -> [pc : {"idle", "Send", "SendSync", "Write"}, frame : Nat, to : Nat]]
    BY <1>0, <1>1, <2>1, <2>3, CallEnds, Zenon
  <2>5. ClientTypeOK'
    BY <1>0, <1>1, <2>1, <2>4, Zenon DEF ClientTypeOK
  <2>6. OnePump'
    BY <1>1, <2>1 DEF ClientInv, OnePump
  <2>7. InHand' \o writeCh' = Append(InHand \o writeCh, f)
    <3>1. InHand' = InHand
      BY <1>1 DEF InHand
    <3>2. InHand \o Append(writeCh, f) = Append(InHand \o writeCh, f)
      BY <1>0, <2>2, FramesAppend, Zenon
    <3> QED
      BY <1>2, <3>1, <3>2
  <2>8. Ordered(Append(trace.accepted, f), trace.written, trace.lost, Append(InHand \o writeCh, f))
    <3>1. f \notin Elements(trace.accepted) /\ f \notin Elements(trace.written)
      BY <1>0 DEF Fresh
    <3>2. Ordered(trace.accepted, trace.written, trace.lost, InHand \o writeCh)
      BY DEF ClientInv
    <3> HIDE DEF f
    <3> QED
      BY <1>0, <2>2, <3>1, <3>2, Accepts, Zenon
  <2> QED
    BY <2>1, <2>4, <2>5, <2>6, <2>7, <2>8 DEF ClientInv
<1>3. CASE UNCHANGED <<writeCh, trace>>
  <2>1. CallsAreFresh' /\ sender' \in [Sender -> [pc : {"idle", "Send", "SendSync", "Write"}, frame : Nat, to : Nat]]
    BY <1>0, <1>1, <1>3, CallEnds, Zenon
  <2>2. ClientTypeOK'
    BY <1>0, <1>1, <1>3, <2>1 DEF ClientTypeOK
  <2>3. OnePump'
    BY <1>1, <1>3 DEF ClientInv, OnePump
  <2>4. Ordered(trace.accepted, trace.written, trace.lost, InHand \o writeCh)'
    BY <1>1, <1>3 DEF ClientInv, InHand
  <2> QED
    BY <2>1, <2>2, <2>3, <2>4 DEF ClientInv
<1> QED
  BY <1>2, <1>3 DEF Send

\* SendSync writes to the socket it read, or fails.
LEMMA SendSyncStep ==
    ASSUME ClientInv, NEW s \in Sender, SendSync(s)
    PROVE  ClientInv'
<1> DEFINE f == sender[s].frame
<1>0. ClientTypeOK /\ f \in Nat /\ sender[s].pc # "idle" /\ Fresh(f)
  BY DEF SendSync, ClientInv, ClientTypeOK, CallsAreFresh
<1>1. UNCHANGED <<owner, writeCh, wpump, numbers>>
  BY DEF SendSync
<1>2. CASE /\ sender' = [sender EXCEPT ![s].pc = "Write", ![s].to = socket.number]
           /\ UNCHANGED <<socket, trace>>
  <2>1. sender' \in [Sender -> [pc : {"idle", "Send", "SendSync", "Write"}, frame : Nat, to : Nat]]
    <3>1. PICK n \in Nat : n = socket.number
      BY <1>0 DEF ClientTypeOK
    <3>2. sender' = [sender EXCEPT ![s].pc = "Write", ![s].to = n]
      BY <1>2, <3>1
    <3>3. sender \in [Sender -> [pc : {"idle", "Send", "SendSync", "Write"}, frame : Nat, to : Nat]]
      BY <1>0 DEF ClientTypeOK
    <3> HIDE DEF f
    <3> QED
      BY <3>2, <3>3, Zenon
  <2>2. \A t \in Sender : sender'[t].frame = sender[t].frame /\ (sender'[t].pc # "idle" => sender[t].pc # "idle")
    BY <1>0, <1>2 DEF ClientTypeOK
  <2>3. CallsAreFresh'
    <3>1. numbers' = numbers /\ trace' = trace
      BY <1>1, <1>2
    <3>2. ASSUME NEW t \in Sender, sender'[t].pc # "idle" PROVE Fresh(sender[t].frame)'
      <4>1. Fresh(sender[t].frame) /\ sender'[t].frame = sender[t].frame
        BY <2>2, <3>2, Zenon DEF ClientInv, CallsAreFresh
      <4> QED
        BY <3>1, <4>1 DEF Fresh
    <3>3. ASSUME NEW t \in Sender, NEW u \in Sender, sender'[t].pc # "idle",
                 sender'[u].pc # "idle", t # u
          PROVE  sender'[t].frame # sender'[u].frame
      BY <2>2, <3>3, Zenon DEF ClientInv, CallsAreFresh
    <3>4. (Elements(trace.accepted) \subseteq 1 .. numbers)' /\ (Elements(trace.written) \subseteq 1 .. numbers)'
      BY <3>1 DEF ClientInv, CallsAreFresh
    <3> QED
      BY <3>2, <3>3, <3>4, Zenon DEF CallsAreFresh
  <2>4. ClientTypeOK'
    BY <1>0, <1>1, <1>2, <2>1 DEF ClientTypeOK
  <2>5. OnePump' /\ Ordered(trace.accepted, trace.written, trace.lost, InHand \o writeCh)'
    BY <1>1, <1>2 DEF ClientInv, OnePump, InHand
  <2> QED
    BY <2>3, <2>4, <2>5 DEF ClientInv
<1>3. CASE sender' = [sender EXCEPT ![s] = Idle] /\ UNCHANGED <<socket, trace>>
  <2>1. CallsAreFresh' /\ sender' \in [Sender -> [pc : {"idle", "Send", "SendSync", "Write"}, frame : Nat, to : Nat]]
    BY <1>0, <1>1, <1>3, CallEnds, Zenon
  <2>2. ClientTypeOK'
    BY <1>0, <1>1, <1>3, <2>1 DEF ClientTypeOK
  <2>3. OnePump' /\ Ordered(trace.accepted, trace.written, trace.lost, InHand \o writeCh)'
    BY <1>1, <1>3 DEF ClientInv, OnePump, InHand
  <2> QED
    BY <2>1, <2>2, <2>3 DEF ClientInv
<1>4. CASE sender' = [sender EXCEPT ![s] = Idle] /\ Write(sender[s].to, f)
  <2>1. /\ trace' \in [accepted : Seq(Nat), written : Seq(Nat), lost : SUBSET Nat]
        /\ trace'.written = Append(trace.written, f)
        /\ trace'.accepted = trace.accepted /\ trace'.lost = trace.lost
    <3>1. trace \in [accepted : Seq(Nat), written : Seq(Nat), lost : SUBSET Nat]
      BY <1>0 DEF ClientTypeOK
    <3>2. Append(trace.written, f) \in Seq(Nat)
      BY <1>0, <3>1
    <3>3. trace' = [trace EXCEPT !.written = Append(trace.written, f)]
      BY <1>4 DEF Write
    <3> HIDE DEF f
    <3> QED
      BY <3>1, <3>2, <3>3, Zenon
  <2>2. /\ socket' \in [number : Nat, up : BOOLEAN, unread : Nat] /\ socket'.number = socket.number
    <3>1. socket \in [number : Nat, up : BOOLEAN, unread : Nat]
      BY <1>0 DEF ClientTypeOK
    <3>2. socket' = [socket EXCEPT !.unread = socket.unread + 1]
      BY <1>4 DEF Write
    <3>3. socket.unread + 1 \in Nat
      BY <3>1
    <3> QED
      BY <3>1, <3>2, <3>3
  <2>3. /\ trace.accepted \in Seq(Nat) /\ trace.written \in Seq(Nat) /\ InHand \o writeCh \in Seq(Nat)
    BY <1>0, QueueType DEF ClientTypeOK
  <2>4. Elements(trace'.written) = Elements(trace.written) \cup {f}
    BY <1>0, <2>1, <2>3, ElementsAppend
  <2>5. CallsAreFresh' /\ sender' \in [Sender -> [pc : {"idle", "Send", "SendSync", "Write"}, frame : Nat, to : Nat]]
    BY <1>0, <1>1, <1>4, <2>1, <2>4, CallEnds, Zenon
  <2>6. ClientTypeOK'
    BY <1>0, <1>1, <2>1, <2>2, <2>5 DEF ClientTypeOK
  <2>7. OnePump'
    BY <1>1, <2>1, <2>2 DEF ClientInv, OnePump
  <2>8. InHand' \o writeCh' = InHand \o writeCh
    BY <1>1 DEF InHand
  <2>9. Ordered(trace.accepted, Append(trace.written, f), trace.lost, InHand \o writeCh)
    <3>1. f \notin Elements(trace.accepted) /\ f \notin Elements(trace.written)
      BY <1>0 DEF Fresh
    <3>2. Ordered(trace.accepted, trace.written, trace.lost, InHand \o writeCh)
      BY DEF ClientInv
    <3> HIDE DEF f
    <3> QED
      BY <1>0, <2>3, <3>1, <3>2, WritesOther, Zenon
  <2> QED
    BY <2>1, <2>5, <2>6, <2>7, <2>8, <2>9 DEF ClientInv
<1> QED
  BY <1>2, <1>3, <1>4 DEF SendSync, WriteFails


\* The write pump takes a frame, or ends.
LEMMA WriterSelectsStep == ClientInv /\ WriterSelects => ClientInv'
<1> SUFFICES ASSUME ClientInv, WriterSelects PROVE ClientInv'
  OBVIOUS
<1>0. ClientTypeOK
  BY DEF ClientInv
<1>1. /\ UNCHANGED <<socket, owner, sender, numbers, trace>>
      /\ wpump.pc = "select"
  BY DEF WriterSelects
<1>2. /\ wpump' \in [pc : {"none", "select", "write"}, frame : Nat]
      /\ writeCh' \in Seq(Nat)
      /\ InHand' \o writeCh' = InHand \o writeCh
  <2>1. CASE wpump' = [pc |-> "none", frame |-> 0] /\ UNCHANGED writeCh
    BY <1>0, <1>1, <2>1 DEF InHand, ClientTypeOK
  <2>2. CASE writeCh # <<>> /\ wpump' = [pc |-> "write", frame |-> Head(writeCh)] /\ writeCh' = Tail(writeCh)
    <3>1. writeCh \in Seq(Nat) /\ Head(writeCh) \in Nat /\ Tail(writeCh) \in Seq(Nat)
      BY <1>0, <2>2 DEF ClientTypeOK
    <3>2. InHand = <<>> /\ InHand' = <<Head(writeCh)>>
      BY <1>1, <2>2 DEF InHand
    <3>3. <<Head(writeCh)>> \o Tail(writeCh) = writeCh /\ <<>> \o writeCh = writeCh
      BY <2>2, <3>1
    <3>4. wpump' \in [pc : {"none", "select", "write"}, frame : Nat]
      BY <2>2, <3>1
    <3> QED
      BY <2>2, <3>1, <3>2, <3>3, <3>4
  <2> QED
    BY <2>1, <2>2, Zenon DEF WriterSelects
<1>3. ClientTypeOK'
  BY <1>0, <1>1, <1>2 DEF ClientTypeOK
<1>4. CallsAreFresh'
  BY <1>1 DEF ClientInv, CallsAreFresh, Fresh
<1>5. OnePump'
  <2>1. Cardinality(trace.lost) \in Nat /\ socket.number \in Nat
    BY <1>0, FS_CardinalityType DEF ClientTypeOK
  <2>2. Cardinality(trace.lost) + 1 <= socket.number /\ owner \notin {"out", "stopping"}
    BY <1>1, <2>1 DEF ClientInv, OnePump
  <2>3. Cardinality(trace.lost) <= socket.number
    BY <2>1, <2>2
  <2>4. Cardinality(trace'.lost) + (IF wpump'.pc = "none" THEN 0 ELSE 1) <= socket'.number
    <3>1. trace' = trace /\ socket' = socket
      BY <1>1
    <3> QED
      BY <2>1, <2>2, <2>3, <3>1
  <2>5. owner' \notin {"out", "stopping"}
    BY <1>1, <2>2
  <2> QED
    BY <2>4, <2>5 DEF OnePump
<1>6. Ordered(trace.accepted, trace.written, trace.lost, InHand \o writeCh)'
  BY <1>1, <1>2 DEF ClientInv
<1> QED
  BY <1>3, <1>4, <1>5, <1>6 DEF ClientInv

\* The frames of calls under way are not among the accepted ones, so a write of the
\* pump does not touch them.
LEMMA PumpKeepsCalls ==
    ASSUME ClientInv, NEW f, f \in Elements(trace.accepted), UNCHANGED <<sender, numbers>>,
           trace'.accepted = trace.accepted,
           Elements(trace'.written) \subseteq Elements(trace.written) \cup {f}
    PROVE  CallsAreFresh'
<1>1. ASSUME NEW t \in Sender, sender'[t].pc # "idle" PROVE Fresh(sender[t].frame)'
  <2>1. sender'[t] = sender[t] /\ Fresh(sender[t].frame)
    BY <1>1 DEF ClientInv, CallsAreFresh
  <2> QED
    BY <2>1 DEF Fresh
<1>2. Elements(trace'.accepted) \subseteq 1 .. numbers' /\ Elements(trace'.written) \subseteq 1 .. numbers'
  BY DEF ClientInv, CallsAreFresh
<1> QED
  BY <1>1, <1>2 DEF ClientInv, CallsAreFresh

\* The write pump writes the frame it has, or loses it with the socket.
LEMMA WriterWritesStep == ClientInv /\ WriterWrites => ClientInv'
<1> SUFFICES ASSUME ClientInv, WriterWrites PROVE ClientInv'
  OBVIOUS
<1> DEFINE f == wpump.frame
           Q == InHand \o writeCh
<1>0. ClientTypeOK
  BY DEF ClientInv
<1>1. /\ UNCHANGED <<owner, writeCh, sender, numbers>> /\ wpump.pc = "write"
  BY DEF WriterWrites
<1>2. f \in Nat /\ Q \in Seq(Nat) /\ Q # <<>> /\ Head(Q) = f /\ Tail(Q) = writeCh
  <2>1. InHand = <<f>> /\ f \in Nat /\ writeCh \in Seq(Nat)
    BY <1>0, <1>1 DEF InHand, ClientTypeOK
  <2> HIDE DEF f
  <2> QED
    BY <2>1
<1>3. Ordered(trace.accepted, trace.written, trace.lost, Q)
  BY DEF ClientInv
<1>4. /\ trace.accepted \in Seq(Nat) /\ trace.written \in Seq(Nat)
      /\ trace \in [accepted : Seq(Nat), written : Seq(Nat), lost : SUBSET Nat]
      /\ socket \in [number : Nat, up : BOOLEAN, unread : Nat]
      /\ IsFiniteSet(trace.lost) /\ Cardinality(trace.lost) \in Nat
  BY <1>0, FS_CardinalityType DEF ClientTypeOK
<1>5. f \in Elements(trace.accepted)
  <2>1. Head(Q) \in Elements(Q)
    BY <1>2, <1>3, FirstAndRest, Zenon DEF Ordered
  <2> HIDE DEF Q, f
  <2> QED
    BY <1>2, <1>3, <2>1 DEF Ordered
<1>6. Cardinality(trace.lost) + 1 <= socket.number /\ owner \notin {"out", "stopping"}
  BY <1>1 DEF ClientInv, OnePump
<1>7. (wpump'.pc # "write") => InHand' \o writeCh' = Tail(Q)
  <2>1. ASSUME wpump'.pc # "write" PROVE InHand' = <<>>
    BY <2>1 DEF InHand
  <2>2. writeCh \in Seq(Nat) /\ <<>> \o writeCh = writeCh
    BY <1>0 DEF ClientTypeOK
  <2> QED
    BY <1>1, <1>2, <2>1, <2>2
<1>8. CASE Write(socket.number, f) /\ wpump' = [pc |-> "select", frame |-> 0]
  <2>1. trace' = [trace EXCEPT !.written = Append(trace.written, f)] /\ socket' = [socket EXCEPT !.unread = socket.unread + 1]
    BY <1>8 DEF Write
  <2>2. Append(trace.written, f) \in Seq(Nat) /\ socket.unread + 1 \in Nat
    BY <1>2, <1>4
  <2> HIDE DEF f, Q
  <2>3. /\ trace' \in [accepted : Seq(Nat), written : Seq(Nat), lost : SUBSET Nat]
        /\ trace'.written = Append(trace.written, f)
        /\ trace'.accepted = trace.accepted /\ trace'.lost = trace.lost
    BY <1>4, <2>1, <2>2, Zenon
  <2>4. socket' \in [number : Nat, up : BOOLEAN, unread : Nat] /\ socket'.number = socket.number
    BY <1>4, <2>1, <2>2, Zenon
  <2>5. Elements(trace'.written) = Elements(trace.written) \cup {f}
    BY <1>2, <1>4, <2>3, ElementsAppend
  <2>6. CallsAreFresh'
    BY <1>1, <1>5, <2>3, <2>5, PumpKeepsCalls
  <2>7. ClientTypeOK'
    BY <1>0, <1>1, <1>8, <2>3, <2>4 DEF ClientTypeOK
  <2>8. OnePump'
    BY <1>1, <1>6, <1>8, <2>3, <2>4 DEF OnePump
  <2>9. Ordered(trace.accepted, Append(trace.written, Head(Q)), trace.lost, Tail(Q))
    BY <1>2, <1>3, <1>4, WritesFirst
  <2>10. Ordered(trace.accepted, trace.written, trace.lost, InHand \o writeCh)'
    BY <1>2, <1>7, <1>8, <2>3, <2>9, Zenon
  <2> QED
    BY <2>6, <2>7, <2>8, <2>10 DEF ClientInv
<1>9. CASE /\ wpump' = [pc |-> "none", frame |-> 0] /\ UNCHANGED socket
           /\ trace' = [trace EXCEPT !.lost = @ \cup {f}]
  <2>0. trace' = [trace EXCEPT !.lost = trace.lost \cup {f}] /\ trace.lost \cup {f} \in SUBSET Nat
    BY <1>2, <1>4, <1>9
  <2> HIDE DEF f, Q
  <2>1. /\ trace' \in [accepted : Seq(Nat), written : Seq(Nat), lost : SUBSET Nat]
        /\ trace'.written = trace.written /\ trace'.accepted = trace.accepted
        /\ trace'.lost = trace.lost \cup {f}
    BY <1>4, <2>0, Zenon
  <2>2. Ordered(trace.accepted, trace.written, trace.lost \cup {Head(Q)}, Tail(Q)) /\ Head(Q) \notin trace.lost
    BY <1>2, <1>3, <1>4, LosesFirst, Zenon
  <2>3. IsFiniteSet(trace'.lost) /\ Cardinality(trace'.lost) = Cardinality(trace.lost) + 1
    <3>1. /\ IsFiniteSet(trace.lost \cup {f})
          /\ Cardinality(trace.lost \cup {f}) =
                IF f \in trace.lost THEN Cardinality(trace.lost) ELSE Cardinality(trace.lost) + 1
      BY <1>4, FS_AddElement
    <3>2. f \notin trace.lost
      BY <1>2, <2>2
    <3> QED
      BY <2>1, <3>1, <3>2
  <2>4. CallsAreFresh'
    BY <1>1, <1>5, <2>1, PumpKeepsCalls
  <2>5. ClientTypeOK'
    BY <1>0, <1>1, <1>9, <2>1, <2>3 DEF ClientTypeOK
  <2>6. OnePump'
    BY <1>1, <1>4, <1>6, <1>9, <2>3 DEF OnePump
  <2>7. Ordered(trace.accepted, trace.written, trace.lost, InHand \o writeCh)'
    BY <1>2, <1>7, <1>9, <2>1, <2>2, Zenon
  <2> QED
    BY <2>4, <2>5, <2>6, <2>7 DEF ClientInv
<1> QED
  BY <1>8, <1>9 DEF WriterWrites, WriteFails

-----------------------------------------------------------------------------
(* The theorems                                                             *)

\* The invariant holds for any senders, capacities and bounds: a call that is under way
\* has a number no other frame has, a connection has one write pump, and the accepted
\* frames that are not lost are the ones written, in hand and in the channel, in order.
THEOREM ClientInvariance == ClientSpec => []ClientInv
<1>1. ClientInv /\ [ClientNext]_client => ClientInv'
  <2> SUFFICES ASSUME ClientInv, [ClientNext]_client PROVE ClientInv'
    OBVIOUS
  <2>1. CASE UNCHANGED client
    <3>1. Untouched /\ socket' = socket /\ owner' = owner
      BY <2>1 DEF client, Untouched
    <3> QED
      BY <3>1, NothingMoves DEF ClientInv, ClientTypeOK, OnePump
  <2>2. CASE \E s \in Sender : NextNumber(s)
    BY <2>2, NextNumberStep
  <2>3. CASE \E s \in Sender : Send(s)
    BY <2>3, SendStep
  <2>4. CASE \E s \in Sender : SendSync(s)
    BY <2>4, SendSyncStep
  <2>5. CASE StartRecorder \/ Dial \/ Close \/ SamplerLoop
    BY <2>5, StartRecorderStep, DialStep, CloseStep, SamplerStep
  <2>6. CASE WriterSelects \/ WriterWrites \/ readPump \/ Peer
    BY <2>6, WriterSelectsStep, WriterWritesStep, ReadPumpStep, PeerStep
  <2> QED
    BY <2>1, <2>2, <2>3, <2>4, <2>5, <2>6 DEF ClientNext, ClientAtRest
<1> QED
  BY <1>1, InitClient, PTL DEF ClientSpec

\* Frames that TCPClient.Send accepts go out in the order of acceptance, across Close and
\* Dial too, each once; a connection that fails costs at most the one frame writePump had
\* taken from the channel.
THEOREM AcceptedKeepOrder == ClientSpec => []SendsKeepOrder
<1>1. ClientInv => SendsKeepOrder
  <2> SUFFICES ASSUME ClientInv PROVE SendsKeepOrder
    OBVIOUS
  <2>1. /\ trace.accepted \in Seq(Nat) /\ trace.written \in Seq(Nat) /\ writeCh \in Seq(Nat)
        /\ InHand \in Seq(Nat) /\ IsFiniteSet(trace.lost) /\ socket.number \in Nat
    BY QueueType DEF ClientInv, ClientTypeOK
  <2>0. \A s \in Seq(Nat) : DOMAIN s = 1 .. Len(s)
    OBVIOUS
  <2>2. Range(trace.accepted) = Elements(trace.accepted)
    <3>1. DOMAIN trace.accepted = 1 .. Len(trace.accepted)
      BY <2>0, <2>1
    <3> QED
      BY <3>1, Zenon DEF Range, Elements
  <2>3. IsInjective(trace.written)
    <3>1. DOMAIN trace.written = 1 .. Len(trace.written)
      BY <2>0, <2>1
    <3> QED
      BY <3>1, Zenon DEF ClientInv, Ordered, Distinct, IsInjective
  <2>4. Cardinality(trace.lost) <= socket.number
    <3>1. Cardinality(trace.lost) \in Nat
      BY <2>1, FS_CardinalityType
    <3> QED
      BY <2>1, <3>1 DEF ClientInv, OnePump
  <2>5. Kept(trace.accepted, Elements(trace.accepted) \ trace.lost)
          = Kept(trace.written, Elements(trace.accepted)) \o InHand \o writeCh
    <3>1. Kept(trace.written, Elements(trace.accepted)) \in Seq(Nat)
      BY <2>1, KeptType
    <3>2. \A u, v, w \in Seq(Nat) : (u \o v) \o w = u \o (v \o w)
      BY Associates, Zenon
    <3>3. Kept(trace.accepted, Elements(trace.accepted) \ trace.lost)
            = Kept(trace.written, Elements(trace.accepted)) \o (InHand \o writeCh)
      BY Zenon DEF ClientInv, Ordered
    <3>4. Kept(trace.written, Elements(trace.accepted)) \o (InHand \o writeCh)
            = (Kept(trace.written, Elements(trace.accepted)) \o InHand) \o writeCh
      BY <2>1, <3>1, <3>2, Zenon
    <3> QED
      BY <3>3, <3>4, Zenon
  <2> QED
    BY <2>2, <2>3, <2>4, <2>5, Zenon DEF SendsKeepOrder
<1> QED
  BY <1>1, ClientInvariance, PTL


=============================================================================
