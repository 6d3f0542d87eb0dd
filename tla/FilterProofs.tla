---------------------------- MODULE FilterProofs ----------------------------
(* What the filter keeps, for any list and any set.  Induction over a list  *)
(* is done by hand here: there is a least length for which the claim would  *)
(* be false.                                                                *)
EXTENDS Filter, WellFoundedInduction, TLAPS

Members(s) == {s[i] : i \in DOMAIN s}

(* What a filter has made of the first n elements of s.                    *)
Filtered(k, s, S, n) ==
    /\ k[0] = <<>>
    /\ \A i \in 1..n : k[i] = IF s[i] \in S THEN Append(k[i - 1], s[i])
                                            ELSE k[i - 1]

(* A set of numbers that is not empty has a least one.                     *)
LEMMA LeastNumber == \A T \in SUBSET Nat : T # {} => \E n \in T : \A m \in T : n <= m
<1> SUFFICES ASSUME NEW T \in SUBSET Nat, T # {}
             PROVE  \E n \in T : \A m \in T : n <= m
  OBVIOUS
<1>1. PICK n \in T : \A m \in T : ~ (<<m, n>> \in OpToRel(<, Nat))
  BY NatLessThanWellFounded, WFMin
<1>2. \A m \in T : ~ (m < n)
  BY <1>1 DEF OpToRel
<1> QED
  BY <1>2

(* The recursion of Keeping is well defined: by the least length for which *)
(* it were not.                                                            *)
LEMMA FilterExists ==
    ASSUME NEW R, NEW s \in Seq(R), NEW S
    PROVE  \A n \in 0..Len(s) : \E k \in [0..n -> Seq(R)] : Filtered(k, s, S, n)
<1> DEFINE Bad == {n \in 0..Len(s) :
                     ~ \E k \in [0..n -> Seq(R)] : Filtered(k, s, S, n)}
<1> SUFFICES ASSUME Bad # {}
             PROVE  FALSE
  OBVIOUS
<1>1. PICK n \in Bad : \A m \in Bad : n <= m
  <2>1. Bad \in SUBSET Nat
    OBVIOUS
  <2> HIDE DEF Bad
  <2> QED
    BY <2>1, LeastNumber
<1>2. CASE n = 0
  <2>1. [i \in 0..0 |-> <<>>] \in [0..0 -> Seq(R)]
    OBVIOUS
  <2>2. Filtered([i \in 0..0 |-> <<>>], s, S, 0)
    BY DEF Filtered
  <2> QED
    BY <1>2, <2>1, <2>2
<1>3. CASE n # 0
  <2>1. n - 1 \in 0..Len(s) /\ n \in 1..Len(s)
    BY <1>3
  <2>2. PICK k \in [0..(n - 1) -> Seq(R)] : Filtered(k, s, S, n - 1)
    <3>1. ~ (n <= n - 1)
      BY <2>1
    <3>2. n - 1 \notin Bad
      BY <1>1, <3>1
    <3> QED
      BY <2>1, <3>2
  <2> DEFINE next == IF s[n] \in S THEN Append(k[n - 1], s[n]) ELSE k[n - 1]
             l == [i \in 0..n |-> IF i = n THEN next ELSE k[i]]
  <2>3. k[n - 1] \in Seq(R) /\ s[n] \in R
    BY <2>1
  <2>4. next \in Seq(R)
    BY <2>3
  <2>5. \A i \in 0..n : i # n => i \in 0..(n - 1)
    BY <2>1
  <2>6. l \in [0..n -> Seq(R)]
    BY <2>4, <2>5
  <2>7. l[0] = <<>>
    BY <1>3, <2>1, <2>2 DEF Filtered
  <2>8. ASSUME NEW i \in 1..n
        PROVE  l[i] = IF s[i] \in S THEN Append(l[i - 1], s[i]) ELSE l[i - 1]
    <3>1. i - 1 \in 0..n /\ i - 1 # n /\ i \in 0..n
      BY <2>1
    <3>2. l[i - 1] = k[i - 1]
      BY <3>1
    <3>3. CASE i = n
      BY <3>1, <3>2, <3>3
    <3>4. CASE i # n
      <4>1. i \in 1..(n - 1)
        BY <2>1, <3>4
      <4> QED
        BY <2>2, <3>1, <3>2, <3>4, <4>1 DEF Filtered
    <3> QED
      BY <3>3, <3>4
  <2>9. Filtered(l, s, S, n)
    BY <2>7, <2>8 DEF Filtered
  <2> QED
    BY <2>6, <2>9
<1> QED
  BY <1>2, <1>3

(* The elements of a sequence with one more at its end.                    *)
LEMMA AppendElements ==
    ASSUME NEW R, NEW s \in Seq(R), NEW e
    PROVE  Members(Append(s, e)) = Members(s) \cup {e}
<1>1. Len(Append(s, e)) = Len(s) + 1 /\ Len(s) \in Nat
  OBVIOUS
<1>2. DOMAIN Append(s, e) = 1..(Len(s) + 1) /\ DOMAIN s = 1..Len(s)
  OBVIOUS
<1>3. \A i \in 1..(Len(s) + 1) :
          Append(s, e)[i] = IF i = Len(s) + 1 THEN e ELSE s[i]
  OBVIOUS
<1>4. \A i \in 1..(Len(s) + 1) : i # Len(s) + 1 => i \in 1..Len(s)
  BY <1>1
<1>5. \A i \in 1..Len(s) : i \in 1..(Len(s) + 1) /\ i # Len(s) + 1
  BY <1>1
<1>6. Len(s) + 1 \in 1..(Len(s) + 1)
  BY <1>1
<1> QED
  BY <1>2, <1>3, <1>4, <1>5, <1>6 DEF Members

(* Keeping, step by step.                                                  *)
LEMMA KeepingSteps ==
    ASSUME NEW R, NEW s \in Seq(R), NEW S
    PROVE  \E k : Filtered(k, s, S, Len(s)) /\ Keeping(s, S) = k[Len(s)]
<1> DEFINE Step(k) == [i \in 0..Len(s) |->
                         IF i = 0 THEN <<>>
                         ELSE IF s[i] \in S THEN Append(k[i - 1], s[i])
                                            ELSE k[i - 1]]
           K == CHOOSE k : k = Step(k)
<1>1. Len(s) \in Nat /\ Len(s) \in 0..Len(s)
  OBVIOUS
<1>2. \E k : k = Step(k)
  <2>1. PICK k \in [0..Len(s) -> Seq(R)] : Filtered(k, s, S, Len(s))
    BY <1>1, FilterExists
  <2>2. ASSUME NEW i \in 0..Len(s)
        PROVE  k[i] = Step(k)[i]
    <3>1. i = 0 \/ i \in 1..Len(s)
      BY <1>1
    <3> QED
      BY <2>1, <3>1 DEF Filtered
  <2>3. k = Step(k)
    BY <2>2
  <2> QED
    BY <2>3
<1>3. K = Step(K)
  BY <1>2
<1>4. Keeping(s, S) = K[Len(s)]
  BY DEF Keeping
<1> HIDE DEF K
<1>5. K[0] = <<>>
  BY <1>1, <1>3
<1>6. \A i \in 1..Len(s) : K[i] = IF s[i] \in S THEN Append(K[i - 1], s[i])
                                              ELSE K[i - 1]
  <2> SUFFICES ASSUME NEW i \in 1..Len(s)
               PROVE  K[i] = IF s[i] \in S THEN Append(K[i - 1], s[i])
                                            ELSE K[i - 1]
    OBVIOUS
  <2>1. i \in 0..Len(s) /\ i # 0
    BY <1>1
  <2>2. K[i] = Step(K)[i]
    BY <1>3
  <2> QED
    BY <2>1, <2>2
<1> QED
  BY <1>4, <1>5, <1>6 DEF Filtered

(* What Keeping keeps: the elements that are in S, and nothing else.       *)
LEMMA KeepingElements ==
    ASSUME NEW R, NEW s \in Seq(R), NEW S
    PROVE  /\ Keeping(s, S) \in Seq(R)
           /\ Len(Keeping(s, S)) <= Len(s)
           /\ Members(Keeping(s, S)) = Members(s) \cap S
<1>1. Len(s) \in Nat /\ Len(s) \in 0..Len(s)
  OBVIOUS
<1>2. PICK K : Filtered(K, s, S, Len(s)) /\ Keeping(s, S) = K[Len(s)]
  BY KeepingSteps
<1> DEFINE Right(i) == /\ K[i] \in Seq(R)
                       /\ Len(K[i]) <= i
                       /\ Members(K[i]) = {s[j] : j \in 1..i} \cap S
<1>5. K[0] = <<>>
  BY <1>2 DEF Filtered
<1>6. \A i \in 1..Len(s) : K[i] = IF s[i] \in S THEN Append(K[i - 1], s[i])
                                              ELSE K[i - 1]
  BY <1>2 DEF Filtered
<1>7. Right(0)
  BY <1>5 DEF Members
<1>8. ASSUME NEW i \in 1..Len(s), Right(i - 1)
      PROVE  Right(i)
  <2>1. i - 1 \in Nat /\ s[i] \in R /\ 1..i = (1..(i - 1)) \cup {i}
    OBVIOUS
  <2>2. {s[j] : j \in 1..i} = {s[j] : j \in 1..(i - 1)} \cup {s[i]}
    BY <2>1
  <2>3. CASE s[i] \in S
    <3>1. K[i] = Append(K[i - 1], s[i])
      BY <1>6, <2>3
    <3>2. K[i] \in Seq(R) /\ Len(K[i]) = Len(K[i - 1]) + 1
      BY <1>8, <2>1, <3>1
    <3>3. Members(K[i]) = Members(K[i - 1]) \cup {s[i]}
      BY <1>8, <2>1, <3>1, AppendElements
    <3> QED
      BY <1>8, <2>1, <2>2, <2>3, <3>2, <3>3
  <2>4. CASE s[i] \notin S
    <3>1. K[i] = K[i - 1]
      BY <1>6, <2>4
    <3> QED
      BY <1>8, <2>1, <2>2, <2>4, <3>1
  <2> QED
    BY <2>3, <2>4
<1>9. \A i \in 0..Len(s) : Right(i)
  <2> DEFINE Bad == {i \in 0..Len(s) : ~ Right(i)}
  <2> SUFFICES ASSUME Bad # {}
               PROVE  FALSE
    OBVIOUS
  <2>1. PICK i \in Bad : \A j \in Bad : i <= j
    <3>1. Bad \in SUBSET Nat
      OBVIOUS
    <3> HIDE DEF Bad
    <3> QED
      BY <3>1, LeastNumber
  <2>2. i # 0
    BY <1>7
  <2>3. i \in 1..Len(s) /\ i - 1 \in 0..Len(s) /\ ~ (i <= i - 1)
    BY <2>2
  <2>4. Right(i - 1)
    BY <2>1, <2>3
  <2> QED
    BY <1>8, <2>3, <2>4
<1>10. Members(s) = {s[j] : j \in 1..Len(s)}
  BY DEF Members
<1> QED
  BY <1>1, <1>2, <1>9, <1>10

(* No two elements of the list are about the same thing.                   *)
Distinct(s) == \A i, j \in DOMAIN s : s[i].id = s[j].id => i = j

(* One more element keeps a list distinct when it is about something new.  *)
LEMMA AppendDistinct ==
    ASSUME NEW R, NEW s \in Seq(R), NEW e, Distinct(s),
           \A x \in Members(s) : x.id # e.id
    PROVE  Distinct(Append(s, e))
<1>1. Len(s) \in Nat /\ DOMAIN Append(s, e) = 1..(Len(s) + 1) /\ DOMAIN s = 1..Len(s)
  OBVIOUS
<1>2. \A i \in 1..(Len(s) + 1) :
          Append(s, e)[i] = IF i = Len(s) + 1 THEN e ELSE s[i]
  OBVIOUS
<1>3. \A i \in 1..(Len(s) + 1) : i # Len(s) + 1 => i \in 1..Len(s)
  BY <1>1
<1>4. \A i \in 1..Len(s) : s[i].id # e.id
  BY <1>1 DEF Members
<1> QED
  BY <1>1, <1>2, <1>3, <1>4 DEF Distinct

(* A filter keeps a list distinct.                                         *)
LEMMA KeepingDistinct ==
    ASSUME NEW R, NEW s \in Seq(R), NEW S, Distinct(s)
    PROVE  Distinct(Keeping(s, S))
<1>1. Len(s) \in Nat /\ Len(s) \in 0..Len(s) /\ DOMAIN s = 1..Len(s)
  OBVIOUS
<1>2. PICK K : Filtered(K, s, S, Len(s)) /\ Keeping(s, S) = K[Len(s)]
  BY KeepingSteps
<1> DEFINE Right(i) == /\ K[i] \in Seq(R)
                       /\ Members(K[i]) \subseteq {s[j] : j \in 1..i}
                       /\ Distinct(K[i])
<1>3. Right(0)
  BY <1>2 DEF Filtered, Members, Distinct
<1>4. ASSUME NEW i \in 1..Len(s), Right(i - 1)
      PROVE  Right(i)
  <2>1. i - 1 \in Nat /\ s[i] \in R /\ 1..i = (1..(i - 1)) \cup {i}
    OBVIOUS
  <2>2. {s[j] : j \in 1..i} = {s[j] : j \in 1..(i - 1)} \cup {s[i]}
    BY <2>1
  <2>3. CASE s[i] \in S
    <3>1. K[i] = Append(K[i - 1], s[i])
      BY <1>2, <2>3 DEF Filtered
    <3>2. K[i] \in Seq(R)
      BY <1>4, <2>1, <3>1
    <3>3. Members(K[i]) = Members(K[i - 1]) \cup {s[i]}
      BY <1>4, <2>1, <3>1, AppendElements
    <3>4. ASSUME NEW x \in Members(K[i - 1])
          PROVE  x.id # s[i].id
      <4>1. PICK j \in 1..(i - 1) : x = s[j]
        BY <1>4
      <4>2. j \in 1..Len(s) /\ j # i
        BY <1>1
      <4> QED
        BY <1>1, <4>1, <4>2 DEF Distinct
    <3>5. Distinct(K[i])
      BY <1>4, <3>1, <3>4, AppendDistinct
    <3> QED
      BY <1>4, <2>2, <3>2, <3>3, <3>5
  <2>4. CASE s[i] \notin S
    <3>1. K[i] = K[i - 1]
      BY <1>2, <2>4 DEF Filtered
    <3> QED
      BY <1>4, <2>2, <3>1
  <2> QED
    BY <2>3, <2>4
<1>5. \A i \in 0..Len(s) : Right(i)
  <2> DEFINE Bad == {i \in 0..Len(s) : ~ Right(i)}
  <2> SUFFICES ASSUME Bad # {}
               PROVE  FALSE
    OBVIOUS
  <2>1. PICK i \in Bad : \A j \in Bad : i <= j
    <3>1. Bad \in SUBSET Nat
      OBVIOUS
    <3> HIDE DEF Bad
    <3> QED
      BY <3>1, LeastNumber
  <2>2. i # 0
    BY <1>3
  <2>3. i \in 1..Len(s) /\ i - 1 \in 0..Len(s) /\ ~ (i <= i - 1)
    BY <2>2
  <2>4. Right(i - 1)
    BY <2>1, <2>3
  <2> QED
    BY <1>4, <2>3, <2>4
<1> QED
  BY <1>1, <1>2, <1>5
=============================================================================
