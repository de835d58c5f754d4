--------------------------- MODULE SequenceLemmas ---------------------------
(***************************************************************************)
(* Lemmas about the queues of the models: the values of a sequence, and    *)
(* sequences of increasing numbers, as their ends are taken and put.       *)
(***************************************************************************)
EXTENDS Naturals, Sequences, Functions, SequenceTheorems, WellFoundedInduction, TLAPS

\* The values of a sequence with one more element.
LEMMA RangeAppend ==
    ASSUME NEW S, NEW q \in Seq(S), NEW x \in S
    PROVE  Range(Append(q, x)) = Range(q) \cup {x}
<1>1. /\ DOMAIN Append(q, x) = 1 .. Len(q) + 1
      /\ DOMAIN q = 1 .. Len(q)
      /\ Len(q) \in Nat
      /\ \A i \in 1 .. Len(q) : Append(q, x)[i] = q[i]
      /\ Append(q, x)[Len(q) + 1] = x
    OBVIOUS
<1> QED
    BY <1>1 DEF Range

\* The empty sequence has no values.
LEMMA RangeEmpty == Range(<< >>) = {}
BY DEF Range

\* The values of a sequence over S are members of S.
LEMMA RangeType ==
    ASSUME NEW S, NEW q \in Seq(S)
    PROVE  Range(q) \subseteq S
BY ElementOfSeq DEF Range

Increasing(q) == \A j \in 1 .. Len(q) : \A i \in 1 .. j - 1 : q[i] < q[j]

\* Taking the head off an increasing sequence takes exactly its value out, the least.
LEMMA TailIncreasing ==
    ASSUME NEW q \in Seq(Nat), q # << >>, Increasing(q)
    PROVE  /\ Increasing(Tail(q))
           /\ Range(Tail(q)) = Range(q) \ {Head(q)}
           /\ Head(q) \in Range(q)
           /\ \A x \in Range(Tail(q)) : Head(q) < x
<1> DEFINE t == Tail(q)
<1>1. /\ t \in Seq(Nat) /\ Len(q) \in Nat \ {0}
      /\ Len(t) = Len(q) - 1
      /\ \A i \in 1 .. Len(t) : t[i] = q[i + 1]
      /\ Head(q) = q[1]
      /\ DOMAIN q = 1 .. Len(q)
      /\ DOMAIN t = 1 .. Len(t)
      /\ \A i \in 1 .. Len(q) : q[i] \in Nat
    BY EmptySeq
<1> HIDE DEF t
<1>2. Increasing(t)
    <2> SUFFICES ASSUME NEW j \in 1 .. Len(t), NEW i \in 1 .. j - 1
                 PROVE  t[i] < t[j]
        BY DEF Increasing
    <2>1. /\ j + 1 \in 1 .. Len(q) /\ i + 1 \in 1 .. (j + 1) - 1
          /\ i \in 1 .. Len(t)
        BY <1>1
    <2>2. q[i + 1] < q[j + 1]
        BY <2>1 DEF Increasing
    <2> QED
        BY <1>1, <2>1, <2>2
<1>3. ASSUME NEW j \in 2 .. Len(q) PROVE q[1] < q[j]
    <2>1. j \in 1 .. Len(q) /\ 1 \in 1 .. j - 1
        BY <1>1
    <2> QED
        BY <2>1 DEF Increasing
<1>4. Range(t) = Range(q) \ {q[1]}
    <2>1. ASSUME NEW x \in Range(t) PROVE x \in Range(q) \ {q[1]}
        <3>1. PICK i \in 1 .. Len(t) : x = t[i]
            BY <1>1 DEF Range
        <3>2. i + 1 \in 1 .. Len(q) /\ i + 1 \in 2 .. Len(q) /\ x = q[i + 1]
            BY <1>1, <3>1
        <3>3. x \in Range(q)
            BY <1>1, <3>2 DEF Range
        <3>4. q[1] \in Nat /\ q[1] < x
            BY <1>1, <1>3, <3>2
        <3> QED
            BY <3>3, <3>4
    <2>2. ASSUME NEW x \in Range(q) \ {q[1]} PROVE x \in Range(t)
        <3>1. PICK i \in 2 .. Len(q) : x = q[i]
            BY <1>1 DEF Range
        <3>2. i - 1 \in 1 .. Len(t) /\ t[i - 1] = x
            BY <1>1, <3>1
        <3> QED
            BY <1>1, <3>2 DEF Range
    <2> QED
        BY <2>1, <2>2
<1>5. q[1] \in Range(q)
    BY <1>1 DEF Range
<1>6. ASSUME NEW x \in Range(t) PROVE q[1] < x
    <2>1. PICK i \in 1 .. Len(t) : x = t[i]
        BY <1>1 DEF Range
    <2>2. i + 1 \in 2 .. Len(q) /\ x = q[i + 1]
        BY <1>1, <2>1
    <2> QED
        BY <1>3, <2>2
<1> QED
    BY <1>1, <1>2, <1>4, <1>5, <1>6 DEF t

\* Assignments to one of a family of sequences.
LEMMA PutSeq ==
    ASSUME NEW K, NEW S, NEW q \in [K -> Seq(S)], NEW v \in K
    PROVE  /\ \A r \in Seq(S) : [q EXCEPT ![v] = r] \in [K -> Seq(S)]
           /\ \A x \in S : [q EXCEPT ![v] = Append(@, x)] \in [K -> Seq(S)]
           /\ q[v] # << >> => /\ [q EXCEPT ![v] = Tail(@)] \in [K -> Seq(S)]
                              /\ Head(q[v]) \in S
<1>1. q[v] \in Seq(S)
    OBVIOUS
<1>2. /\ \A x \in S : Append(q[v], x) \in Seq(S)
      /\ q[v] # << >> => Tail(q[v]) \in Seq(S) /\ Head(q[v]) \in S
    BY <1>1, HeadTailProperties
<1> QED
    BY <1>2

\* A number beyond all values goes to the end of an increasing sequence.
LEMMA AppendIncreasing ==
    ASSUME NEW q \in Seq(Nat), NEW n \in Nat, Increasing(q), \A x \in Range(q) : x < n
    PROVE  Increasing(Append(q, n))
<1>1. /\ Len(q) \in Nat /\ DOMAIN q = 1 .. Len(q)
      /\ Len(Append(q, n)) = Len(q) + 1
      /\ Append(q, n)[Len(q) + 1] = n
      /\ \A i \in 1 .. Len(q) : Append(q, n)[i] = q[i]
    OBVIOUS
<1> SUFFICES ASSUME NEW j \in 1 .. Len(q) + 1, NEW i \in 1 .. j - 1
             PROVE  Append(q, n)[i] < Append(q, n)[j]
    BY <1>1 DEF Increasing
<1>2. i \in 1 .. Len(q) /\ q[i] \in Range(q)
    BY <1>1 DEF Range
<1>3. CASE j \in 1 .. Len(q)
    BY <1>1, <1>2, <1>3 DEF Increasing
<1>4. CASE j = Len(q) + 1
    BY <1>1, <1>2, <1>4
<1> QED
    BY <1>1, <1>3, <1>4

\* The places of a concatenation.
LEMMA ConcatPlaces ==
    ASSUME NEW S, NEW p \in Seq(S), NEW q \in Seq(S)
    PROVE  /\ p \o q \in Seq(S) /\ Len(p \o q) = Len(p) + Len(q)
           /\ \A i \in 1 .. Len(p) + Len(q) :
                 (p \o q)[i] = IF i <= Len(p) THEN p[i] ELSE q[i - Len(p)]
<1>1. p \o q \in Seq(S) /\ Len(p \o q) = Len(p) + Len(q)
    OBVIOUS
<1> QED
    BY <1>1

\* The head of a sequence is its first value.
LEMMA HeadInRange ==
    ASSUME NEW S, NEW q \in Seq(S), q # << >>
    PROVE  Head(q) \in Range(q) /\ Head(q) \in S
<1>1. Head(q) = q[1] /\ 1 \in DOMAIN q /\ q[1] \in S
    BY EmptySeq
<1> QED
    BY <1>1 DEF Range

\* What follows the first m - 1 elements of a sequence.
LEMMA EndOfSeq ==
    ASSUME NEW S, NEW s \in Seq(S), NEW m \in Nat \ {0},
           NEW end, end = SubSeq(s, m, Len(s))
    PROVE  /\ end \in Seq(S)
           /\ Len(end) = IF m <= Len(s) THEN Len(s) - m + 1 ELSE 0
           /\ \A i \in 1 .. Len(s) - m + 1 : end[i] = s[m + i - 1]
<1>1. PICK n \in Nat : n = Len(s)
    OBVIOUS
<1>2. end = SubSeq(s, m, n)
    BY <1>1
<1> QED
    BY <1>1, <1>2

\* A set of numbers has a least.
LEMMA Least ==
    ASSUME NEW T \in SUBSET Nat, T # {}
    PROVE  \E x \in T : \A y \in T : x <= y
<1> DEFINE Less == OpToRel(<, Nat)
<1>1. IsWellFoundedOn(Less, Nat)
    BY NatLessThanWellFounded
<1>2. \A x, y \in Nat : y < x => << y, x >> \in Less
    BY DEF OpToRel
<1> HIDE DEF Less
<1>3. PICK x \in T : \A y \in T : ~ (<< y, x >> \in Less)
    BY <1>1, WFMin
<1>4. ASSUME NEW y \in T PROVE x <= y
    <2>1. x \in Nat /\ y \in Nat /\ ~ (y < x)
        BY <1>2, <1>3
    <2> QED
        BY <2>1
<1> QED
    BY <1>4

\* A set of numbers up to n has a greatest.
LEMMA Greatest ==
    ASSUME NEW n \in Nat, NEW T \in SUBSET (0 .. n), T # {}
    PROVE  \E x \in T : \A y \in T : y <= x
<1> DEFINE U == {n - x : x \in T}
<1>1. \A x \in T : x \in 0 .. n /\ n - x \in Nat
    OBVIOUS
<1>2. U \in SUBSET Nat /\ U # {}
    BY <1>1
<1> HIDE DEF U
<1>3. PICK u \in U : \A w \in U : u <= w
    BY <1>2, Least
<1>4. PICK x \in T : u = n - x
    BY DEF U
<1>5. ASSUME NEW y \in T PROVE y <= x
    <2>1. n - y \in U
        BY DEF U
    <2>2. n - x <= n - y
        BY <1>3, <1>4, <2>1
    <2> QED
        BY <1>1, <2>2
<1> QED
    BY <1>5

=============================================================================
