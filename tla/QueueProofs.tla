------------------------------ MODULE QueueProofs ------------------------------
(* What the operations of Queues return, for sequences of any length.           *)
EXTENDS Queues, WellFoundedInduction, TLAPS

\* A set of naturals that is not empty has a least element.
LEMMA LeastNat ==
    ASSUME NEW T \in SUBSET Nat, T # {}
    PROVE  \E x \in T : \A y \in T : x <= y
<1> DEFINE R == OpToRel(<, Nat)
<1>1. IsWellFoundedOn(R, Nat)
    BY NatLessThanWellFounded
<1>2. PICK x \in T : \A y \in T : ~(<<y, x>> \in R)
    <2> HIDE DEF R
    <2> QED BY <1>1, WFMin
<1>3. \A y \in T : y < x => <<y, x>> \in R
    BY DEF OpToRel
<1>4. \A y \in T : ~(y < x)
    BY <1>2, <1>3, Zenon
<1>5. QED
    BY <1>4

\* Removing n elements from the front shifts the others.
LEMMA PopFrontProperties ==
    ASSUME NEW S, NEW q \in Seq(S), NEW n \in 0..Len(q)
    PROVE  /\ PopFront(q, n) \in Seq(S)
           /\ Len(PopFront(q, n)) = Len(q) - n
           /\ \A i \in 1..(Len(q) - n) : PopFront(q, n)[i] = q[n + i]
BY DEF PopFront

\* Removing one element keeps the order of the others.
LEMMA DropAtProperties ==
    ASSUME NEW S, NEW q \in Seq(S), NEW i \in 1..Len(q)
    PROVE  /\ DropAt(q, i) \in Seq(S)
           /\ Len(DropAt(q, i)) = Len(q) - 1
           /\ \A j \in 1..(Len(q) - 1) :
                DropAt(q, i)[j] = IF j < i THEN q[j] ELSE q[j + 1]
BY DEF DropAt

\* A scan over 1..L that goes on while the index is in G stops at exactly one place,
\* L included.
LEMMA ScanStops ==
    ASSUME NEW L \in Nat, NEW G
    PROVE  \E n \in 0..L : (\A i \in 1..n : i \in G) /\ (n < L => n + 1 \notin G)
<1> DEFINE T == {n \in 0..L : n < L => n + 1 \notin G}
<1>1. T \in SUBSET Nat /\ L \in T
    OBVIOUS
<1>2. PICK x \in T : \A y \in T : x <= y
    <2> HIDE DEF T
    <2> QED BY <1>1, LeastNat
<1>3. \A i \in 1..x : i \in G
    <2> SUFFICES ASSUME NEW i \in 1..x, i \notin G PROVE FALSE
        OBVIOUS
    <2>1. i - 1 \in T
        BY <1>2
    <2>2. x <= i - 1
        <3> HIDE DEF T
        <3> QED BY <2>1, <1>2
    <2>3. x \in Nat /\ i \in Nat
        OBVIOUS
    <2> QED BY <2>2, <2>3
<1>4. QED
    BY <1>2, <1>3

\* The scan of Below stops somewhere, and where its definition says.
LEMMA BelowProperties ==
    ASSUME NEW S, NEW q \in Seq(S), NEW k \in Nat,
           \A i \in 1..Len(q) : q[i].seqnum \in Nat
    PROVE  /\ Below(q, k) \in 0..Len(q)
           /\ \A i \in 1..Below(q, k) : q[i].seqnum < k
           /\ Below(q, k) < Len(q) => q[Below(q, k) + 1].seqnum >= k
<1> DEFINE P(n) == /\ \A i \in 1..n : q[i].seqnum < k
                   /\ n < Len(q) => q[n + 1].seqnum >= k
           G == {i \in 1..Len(q) : q[i].seqnum < k}
<1>1. Len(q) \in Nat
    OBVIOUS
<1>2. PICK n \in 0..Len(q) : (\A i \in 1..n : i \in G) /\ (n < Len(q) => n + 1 \notin G)
    <2> HIDE DEF G
    <2> QED BY <1>1, ScanStops
<1>3. \E m \in 0..Len(q) : P(m)
    BY <1>2
<1>4. Below(q, k) = CHOOSE m \in 0..Len(q) : P(m)
    BY DEF Below
<1>5. Below(q, k) \in 0..Len(q) /\ P(Below(q, k))
    <2> HIDE DEF P
    <2> QED BY <1>3, <1>4
<1>6. QED
    BY <1>5
================================================================================
