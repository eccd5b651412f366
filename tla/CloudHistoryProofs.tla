------------------------ MODULE CloudHistoryProofs -------------------------
(* For any number of servers, threshold, syncs, texts and identity changes:  *)
(* the search of unwrap_message_key finds a key exactly when a threshold of  *)
(* the shares is genuine, and every published text is in exactly one place.  *)
EXTENDS CloudHistory, FiniteSetTheorems, TLAPS

-----------------------------------------------------------------------------
(* Numbers: least elements, induction and recursive functions.               *)

NatOrder == {ss \in Nat \X Nat : ss[1] < ss[2]}

(* A set of natural numbers has a least element.                            *)
LEMMA NatMin ==
    ASSUME NEW T, T \subseteq Nat, T # {}
    PROVE  \E m \in T : \A k \in T : m <= k
<1>1. IsWellFoundedOn(NatOrder, Nat)
  <2>1. NatOrder = OpToRel(<, Nat)
    BY Zenon DEF OpToRel, NatOrder
  <2> QED
    BY <2>1, NatLessThanWellFounded, Zenon
<1>2. PICK m \in T : \A k \in T : ~(<<k, m>> \in NatOrder)
  BY <1>1, WFMin, Zenon
<1>3. \A k \in T : k \in Nat /\ m \in Nat /\ ~(k < m)
  BY <1>2, Zenon DEF NatOrder
<1> QED
  BY <1>3

(* Induction over the numbers up to n, for a property given as a set.       *)
LEMMA Induction ==
    ASSUME NEW n \in Nat, NEW P, 0 \in P,
           \A i \in 1..n : (i - 1) \in P => i \in P
    PROVE  \A i \in 0..n : i \in P
<1> DEFINE Bad == {i \in 0..n : i \notin P}
<1> SUFFICES ASSUME Bad # {} PROVE FALSE
  BY Zenon
<1>1. PICK m \in Bad : \A k \in Bad : m <= k
  <2>1. Bad \subseteq Nat
    OBVIOUS
  <2> QED
    BY <2>1, NatMin, Zenon
<1>2. m # 0 /\ m \in 1..n /\ m - 1 \in 0..n
  BY <1>1
<1>3. m - 1 \notin Bad
  BY <1>1, <1>2
<1> QED
  BY <1>1, <1>2, <1>3, Zenon

(* f starts with a and goes on by step.                                     *)
Follows(f, n, a, step) == f[0] = a /\ \A i \in 1..n : f[i] = step[<<i, f[i - 1]>>]

(* A function is defined by its first value and the step to the next one.   *)
LEMMA Recursion ==
    ASSUME NEW n \in Nat, NEW D, NEW a \in D, NEW step \in [(1..n) \X D -> D]
    PROVE  \E f \in [0..n -> D] : Follows(f, n, a, step)
<1> DEFINE Ok(f, m) == f[0] = a /\ \A i \in 1..m : f[i] = step[<<i, f[i - 1]>>]
           P == {m \in 0..n : \E f \in [0..m -> D] : Ok(f, m)}
<1>1. 0 \in P
  <2> DEFINE f == [i \in 0..0 |-> a]
  <2>1. f \in [0..0 -> D] /\ Ok(f, 0)
    OBVIOUS
  <2>2. 0 \in 0..n
    OBVIOUS
  <2> HIDE DEF f, Ok
  <2> QED
    BY <2>1, <2>2, Zenon
<1>2. ASSUME NEW m \in 1..n, m - 1 \in P PROVE m \in P
  <2>1. PICK f \in [0..(m - 1) -> D] : Ok(f, m - 1)
    BY <1>2, Zenon
  <2> DEFINE g == [i \in 0..m |-> IF i = m THEN step[<<m, f[m - 1]>>] ELSE f[i]]
  <2>2. m - 1 \in 0..(m - 1) /\ f[m - 1] \in D
    BY <2>1
  <2>3. step[<<m, f[m - 1]>>] \in D
    BY <2>2, Zenon
  <2>4. \A i \in 0..m : i # m => i \in 0..(m - 1)
    OBVIOUS
  <2>5. g \in [0..m -> D]
    BY <2>3, <2>4, Zenon
  <2>6. g[0] = a
    BY <2>1
  <2>7. \A i \in 1..m : g[i] = step[<<i, g[i - 1]>>]
    <3> SUFFICES ASSUME NEW i \in 1..m PROVE g[i] = step[<<i, g[i - 1]>>]
      BY Zenon
    <3>1. i - 1 \in 0..(m - 1) /\ i - 1 # m /\ i - 1 \in 0..m /\ i \in 0..m
      OBVIOUS
    <3>2. g[i - 1] = f[i - 1]
      BY <3>1, Zenon
    <3>3. CASE i = m
      BY <3>1, <3>2, <3>3, Zenon
    <3>4. CASE i # m
      BY <3>1, <3>2, <3>4, <2>1
    <3> QED
      BY <3>3, <3>4, Zenon
  <2>8. m \in 0..n
    OBVIOUS
  <2> HIDE DEF g
  <2> QED
    BY <2>5, <2>6, <2>7, <2>8, Zenon
<1> HIDE DEF P
<1>3. \A i \in 0..n : i \in P
  BY <1>1, <1>2, Induction, Zenon
<1>4. n \in P
  BY <1>3
<1> QED
  BY <1>4, Zenon DEF P, Follows

(* The filter, element by element.                                          *)
LEMMA KeepingStep ==
    ASSUME NEW T, NEW s \in Seq(T), NEW S
    PROVE  /\ Keeping(s, S)[0] = << >>
           /\ \A i \in 1..Len(s) : Keeping(s, S)[i] =
                IF s[i] \in S THEN Append(Keeping(s, S)[i - 1], s[i])
                              ELSE Keeping(s, S)[i - 1]
<1> DEFINE n == Len(s)
           step == [p \in (1..n) \X Seq(T) |->
                      IF s[p[1]] \in S THEN Append(p[2], s[p[1]]) ELSE p[2]]
           Def(f) == f = [i \in 0..Len(s) |->
                            IF i = 0 THEN << >>
                            ELSE IF s[i] \in S THEN Append(f[i - 1], s[i]) ELSE f[i - 1]]
<1>1. n \in Nat /\ << >> \in Seq(T) /\ \A i \in 1..n : s[i] \in T
  OBVIOUS
<1>2. step \in [(1..n) \X Seq(T) -> Seq(T)]
  BY <1>1
<1>3. \A i \in 1..n, q \in Seq(T) : step[<<i, q>>] = IF s[i] \in S THEN Append(q, s[i]) ELSE q
  BY <1>1, Zenon
<1> HIDE DEF step
<1>4. PICK f \in [0..n -> Seq(T)] :
        f[0] = << >> /\ \A i \in 1..n : f[i] = step[<<i, f[i - 1]>>]
  <2> DEFINE D == Seq(T)
             a == << >>
  <2>1. n \in Nat /\ a \in D /\ step \in [(1..n) \X D -> D]
    BY <1>1, <1>2, Zenon
  <2> HIDE DEF n, D, a
  <2>2. \E f \in [0..n -> D] : Follows(f, n, a, step)
    BY <2>1, Recursion, Zenon
  <2> QED
    BY <2>2, Zenon DEF D, a, Follows
<1>5. \A i \in 1..n : f[i] = IF s[i] \in S THEN Append(f[i - 1], s[i]) ELSE f[i - 1]
  <2> SUFFICES ASSUME NEW i \in 1..n
               PROVE  f[i] = IF s[i] \in S THEN Append(f[i - 1], s[i]) ELSE f[i - 1]
    BY Zenon
  <2>1. i - 1 \in 0..n
    BY <1>1
  <2> QED
    BY <1>3, <1>4, <2>1, Zenon
<1>6. Def(f)
  <2>1. \A i \in 0..n : i # 0 => i \in 1..n
    BY <1>1
  <2> QED
    BY <1>4, <1>5, <2>1, Zenon
<1>7. Def(Keeping(s, S))
  <2>1. Keeping(s, S) = CHOOSE g : Def(g)
    BY Zenon DEF Keeping
  <2> HIDE DEF Def
  <2> QED
    BY <1>6, <2>1, Zenon
<1>8. 0 \in 0..n /\ \A i \in 1..n : i \in 0..n /\ i # 0
  BY <1>1
<1> DEFINE k == Keeping(s, S)
<1>9. Def(k)
  BY <1>7, Zenon
<1> HIDE DEF k
<1>10. /\ k[0] = << >>
       /\ \A i \in 1..n : k[i] = IF s[i] \in S THEN Append(k[i - 1], s[i]) ELSE k[i - 1]
  BY <1>8, <1>9, Zenon
<1> QED
  BY <1>10, Zenon DEF k

(* h tells for every position of q from which of the first n positions of s *)
(* it was taken; all of those in S were taken, each of them once.           *)
TakenFrom(h, q, n, s, S) ==
    /\ h \in [1..Len(q) -> 1..n]
    /\ \A k \in 1..Len(q) : q[k] = s[h[k]] /\ s[h[k]] \in S
    /\ \A k, l \in 1..Len(q) : h[k] = h[l] => k = l
    /\ \A i \in 1..n : s[i] \in S => \E k \in 1..Len(q) : h[k] = i

(* The filter takes what it has to, and nothing twice.                      *)
LEMMA KeptFrom ==
    ASSUME NEW T, NEW s \in Seq(T), NEW S
    PROVE  /\ Kept(s, S) \in Seq(T)
           /\ \E h : TakenFrom(h, Kept(s, S), Len(s), s, S)
<1> DEFINE K == Keeping(s, S)
           P == {i \in 0..Len(s) : K[i] \in Seq(T) /\ \E h : TakenFrom(h, K[i], i, s, S)}
<1>1. /\ K[0] = << >>
      /\ \A i \in 1..Len(s) : K[i] = IF s[i] \in S THEN Append(K[i - 1], s[i]) ELSE K[i - 1]
  BY KeepingStep
<1>2. Len(s) \in Nat /\ \A i \in 1..Len(s) : s[i] \in T
  OBVIOUS
<1> HIDE DEF K
<1>3. 0 \in P
  <2> DEFINE h == [k \in 1..0 |-> 1]
  <2>1. K[0] \in Seq(T) /\ Len(K[0]) = 0
    BY <1>1
  <2>2. TakenFrom(h, K[0], 0, s, S)
    BY <2>1 DEF TakenFrom
  <2> HIDE DEF h
  <2> QED
    BY <1>2, <2>1, <2>2
<1>4. ASSUME NEW i \in 1..Len(s), i - 1 \in P PROVE i \in P
  <2>1. K[i - 1] \in Seq(T) /\ i \in 0..Len(s) /\ i - 1 \in Nat
    BY <1>2, <1>4
  <2>2. PICK h : TakenFrom(h, K[i - 1], i - 1, s, S)
    BY <1>4, Zenon
  <2>3. CASE s[i] \notin S
    <3>1. K[i] = K[i - 1]
      BY <1>1, <2>3, Zenon
    <3>2. TakenFrom(h, K[i], i, s, S)
      <4>1. h \in [1..Len(K[i - 1]) -> 1..i]
        BY <1>2, <2>1, <2>2 DEF TakenFrom
      <4>2. \A j \in 1..i : s[j] \in S => j \in 1..(i - 1)
        BY <1>2, <2>3
      <4> QED
        BY <2>2, <3>1, <4>1, <4>2, Zenon DEF TakenFrom
    <3> QED
      BY <2>1, <3>1, <3>2, Zenon
  <2>4. CASE s[i] \in S
    <3> DEFINE q == K[i - 1]
               m == Len(q) + 1
               g == [k \in 1..m |-> IF k = m THEN i ELSE h[k]]
    <3>1. K[i] = Append(q, s[i])
      BY <1>1, <2>4, Zenon
    <3>2. /\ K[i] \in Seq(T) /\ Len(K[i]) = m /\ m \in Nat /\ K[i][m] = s[i] /\ m \in 1..m
          /\ \A k \in 1..m : k # m => k \in 1..Len(q) /\ K[i][k] = q[k]
      BY <1>2, <2>1, <3>1, SMTT(60)
    <3> HIDE DEF q, m
    <3>3. /\ h \in [1..Len(q) -> 1..(i - 1)]
          /\ \A k \in 1..Len(q) : q[k] = s[h[k]] /\ s[h[k]] \in S
          /\ \A k, l \in 1..Len(q) : h[k] = h[l] => k = l
          /\ \A j \in 1..(i - 1) : s[j] \in S => \E k \in 1..Len(q) : h[k] = j
      BY <2>2, Zenon DEF TakenFrom, q
    <3>4. g[m] = i /\ \A k \in 1..m : k # m => g[k] = h[k] /\ g[k] \in 1..(i - 1)
      <4>1. \A k \in 1..m : k # m => h[k] \in 1..(i - 1)
        BY <3>2, <3>3, Zenon
      <4> QED
        BY <3>2, <4>1, Zenon
    <3>5. g \in [1..m -> 1..i]
      <4>1. i \in 1..i /\ \A j \in 1..(i - 1) : j \in 1..i
        BY <2>1
      <4>2. \A k \in 1..m : (IF k = m THEN i ELSE h[k]) \in 1..i
        BY <3>2, <3>3, <4>1, Zenon
      <4> QED
        BY <4>2, Zenon
    <3> HIDE DEF g
    <3>6. \A k \in 1..m : K[i][k] = s[g[k]] /\ s[g[k]] \in S
      BY <2>4, <3>2, <3>3, <3>4, Zenon
    <3>7. \A k, l \in 1..m : g[k] = g[l] => k = l
      BY <1>2, <3>2, <3>3, <3>4
    <3>8. \A j \in 1..i : s[j] \in S => \E k \in 1..m : g[k] = j
      <4> SUFFICES ASSUME NEW j \in 1..i, s[j] \in S PROVE \E k \in 1..m : g[k] = j
        BY Zenon
      <4>1. CASE j = i
        BY <3>2, <3>4, <4>1, Zenon
      <4>2. CASE j # i
        <5>1. PICK k \in 1..Len(q) : h[k] = j
          BY <2>1, <3>3, <4>2
        <5>2. k \in 1..m /\ k # m
          BY <2>1, <5>1 DEF m, q
        <5> QED
          BY <3>4, <5>1, <5>2, Zenon
      <4> QED
        BY <4>1, <4>2, Zenon
    <3>9. TakenFrom(g, K[i], i, s, S)
      BY <3>2, <3>5, <3>6, <3>7, <3>8, Zenon DEF TakenFrom
    <3> QED
      BY <2>1, <3>2, <3>9, Zenon
  <2> QED
    BY <2>3, <2>4, Zenon
<1> HIDE DEF P
<1>5. Len(s) \in P
  <2>1. \A i \in 0..Len(s) : i \in P
    BY <1>2, <1>3, <1>4, Induction, Zenon
  <2> QED
    BY <1>2, <2>1
<1> QED
  BY <1>5, Zenon DEF P, K, Kept

(* The first n numbers are n.                                               *)
LEMMA UpTo == \A n \in Nat : IsFiniteSet(1..n) /\ Cardinality(1..n) = n
<1> SUFFICES ASSUME NEW n \in Nat PROVE IsFiniteSet(1..n) /\ Cardinality(1..n) = n
  BY Zenon
<1>1. 1 \in Int /\ n \in Int
  OBVIOUS
<1>2. IsFiniteSet(1..n) /\ Cardinality(1..n) = IF 1 > n THEN 0 ELSE n - 1 + 1
  BY <1>1, FS_Interval, Zenon
<1> QED
  BY <1>2

(* The positions of q that hold an element of U.                            *)
Where(q, U) == {k \in 1..Len(q) : q[k] \in U}

(* Of the elements the filter keeps, it keeps the number.                   *)
LEMMA KeptNumber ==
    ASSUME NEW T, NEW s \in Seq(T), NEW S, NEW U \in SUBSET S
    PROVE  /\ IsFiniteSet(Where(Kept(s, S), U)) /\ IsFiniteSet(Where(s, U))
           /\ Cardinality(Where(Kept(s, S), U)) = Cardinality(Where(s, U))
<1> DEFINE q == Kept(s, S)
           Q == {k \in 1..Len(q) : q[k] \in U}
           R == {i \in 1..Len(s) : s[i] \in U}
<1>1. q \in Seq(T)
  BY KeptFrom, Zenon
<1>2. PICK h : TakenFrom(h, q, Len(s), s, S)
  BY KeptFrom, Zenon
<1>3. Len(q) \in Nat /\ Len(s) \in Nat
  BY <1>1
<1> HIDE DEF q
<1>4. IsFiniteSet(Q)
  <2>1. IsFiniteSet(1..Len(q))
    BY <1>3, UpTo, Zenon
  <2> QED
    BY <2>1, FS_Subset, Zenon
<1> DEFINE g == [k \in Q |-> h[k]]
<1>5. g \in [Q -> R]
  BY <1>2, Zenon DEF TakenFrom
<1>6. \A a, b \in Q : g[a] = g[b] => a = b
  BY <1>2, Zenon DEF TakenFrom
<1>7. \A r \in R : \E k \in Q : g[k] = r
  <2> SUFFICES ASSUME NEW r \in R PROVE \E k \in Q : g[k] = r
    BY Zenon
  <2>1. PICK k \in 1..Len(q) : h[k] = r
    BY <1>2, Zenon DEF TakenFrom
  <2>2. k \in Q
    BY <1>2, <2>1, Zenon DEF TakenFrom
  <2> QED
    BY <2>1, <2>2, Zenon
<1> HIDE DEF g, Q, R
<1>8. g \in Bijection(Q, R)
  <2>1. g \in Injection(Q, R)
    BY <1>5, <1>6, Zenon DEF Injection, IsInjective
  <2>2. g \in Surjection(Q, R)
    BY <1>5, <1>7, Zenon DEF Surjection
  <2> QED
    BY <2>1, <2>2, Zenon DEF Bijection
<1>9. ExistsBijection(Q, R)
  BY <1>8, Zenon DEF ExistsBijection
<1>10. IsFiniteSet(R) /\ Cardinality(R) = Cardinality(Q)
  BY <1>4, <1>9, FS_Bijection, Zenon
<1> QED
  BY <1>4, <1>10, Zenon DEF Q, R, q, Where

(* The usable shares are the genuine and the tampered ones.                 *)
LEMMA ValidShares ==
    ASSUME NEW s \in Seq(ShareKinds)
    PROVE  LET valid == Kept(s, {"genuine", "tampered"})
           IN  /\ valid \in Seq(ShareKinds)
               /\ Count(valid, "genuine") = Count(s, "genuine")
               /\ Len(valid) = Count(s, "genuine") + Count(s, "tampered")
               /\ Len(valid) <= Len(s)
               /\ Count(s, "genuine") \in Nat /\ Count(s, "tampered") \in Nat
<1> DEFINE S == {"genuine", "tampered"}
           v == Kept(s, S)
<1>1. v \in Seq(ShareKinds) /\ Len(v) \in Nat /\ Len(s) \in Nat
  BY KeptFrom
<1>2. \A U \in SUBSET S :
         /\ IsFiniteSet(Where(v, U)) /\ IsFiniteSet(Where(s, U))
         /\ Cardinality(Where(v, U)) = Cardinality(Where(s, U))
  BY KeptNumber, Zenon
<1>3. \A k \in 1..Len(v) : v[k] \in S
  <2>1. PICK h : TakenFrom(h, v, Len(s), s, S)
    BY KeptFrom, Zenon
  <2> QED
    BY <2>1, Zenon DEF TakenFrom
<1> HIDE DEF v
<1>4. \A x : /\ Count(v, x) = Cardinality(Where(v, {x}))
             /\ Count(s, x) = Cardinality(Where(s, {x}))
  <2>1. DOMAIN v = 1..Len(v) /\ DOMAIN s = 1..Len(s)
    BY <1>1
  <2>2. \A x : {i \in DOMAIN v : v[i] = x} = Where(v, {x})
    BY <2>1, Zenon DEF Where
  <2>3. \A x : {i \in DOMAIN s : s[i] = x} = Where(s, {x})
    BY <2>1, Zenon DEF Where
  <2> QED
    BY <2>2, <2>3, Zenon DEF Count
<1>5. Where(v, S) = 1..Len(v)
  BY <1>3, Zenon DEF Where
<1>6. Cardinality(Where(v, S)) = Len(v)
  BY <1>1, <1>5, UpTo, Zenon
<1>7. /\ Where(s, S) = Where(s, {"genuine"}) \cup Where(s, {"tampered"})
      /\ Where(s, {"genuine"}) \cap Where(s, {"tampered"}) = {}
  BY Zenon DEF Where
<1>8. /\ {"genuine"} \in SUBSET S /\ {"tampered"} \in SUBSET S /\ S \in SUBSET S
      /\ Where(s, S) \in SUBSET (1..Len(s))
  BY Zenon DEF Where
<1>9. Cardinality(Where(s, S)) =
        Cardinality(Where(s, {"genuine"})) + Cardinality(Where(s, {"tampered"}))
  <2>1. Cardinality(Where(s, S)) =
          Cardinality(Where(s, {"genuine"})) + Cardinality(Where(s, {"tampered"}))
            - Cardinality({})
    BY <1>2, <1>7, <1>8, FS_Union
  <2>2. /\ Cardinality(Where(s, {"genuine"})) \in Nat
        /\ Cardinality(Where(s, {"tampered"})) \in Nat
    BY <1>2, <1>8, FS_CardinalityType, Zenon
  <2> QED
    BY <2>1, <2>2, FS_EmptySet
<1>10. Cardinality(Where(s, S)) <= Len(s)
  <2>1. IsFiniteSet(1..Len(s)) /\ Cardinality(1..Len(s)) = Len(s)
    BY <1>1, UpTo, Zenon
  <2> QED
    BY <1>8, <2>1, FS_Subset
<1>11. /\ Cardinality(Where(s, {"genuine"})) \in Nat
       /\ Cardinality(Where(s, {"tampered"})) \in Nat
  BY <1>2, <1>8, FS_CardinalityType, Zenon
<1> QED
  BY <1>1, <1>2, <1>4, <1>6, <1>8, <1>9, <1>10, <1>11, Zenon DEF v

(* An injection bounds the number.                                          *)
LEMMA AtMost ==
    ASSUME NEW S, NEW T, NEW f \in [S -> T], IsFiniteSet(T),
           \A a, b \in S : f[a] = f[b] => a = b
    PROVE  IsFiniteSet(S) /\ Cardinality(S) <= Cardinality(T)
<1>1. f \in Injection(S, T)
  BY Zenon DEF Injection, IsInjective
<1> QED
  BY <1>1, FS_Injection, Zenon

(* A bounded set of numbers has a greatest element.                         *)
LEMMA NatMax ==
    ASSUME NEW n \in Nat, NEW T, T \subseteq 0..n, T # {}
    PROVE  \E m \in T : \A k \in T : k <= m
<1> DEFINE D == {n - k : k \in T}
<1>1. D \subseteq Nat /\ D # {}
  <2>1. \A k \in T : n - k \in Nat
    OBVIOUS
  <2> QED
    BY <2>1, Zenon
<1>2. PICK d \in D : \A e \in D : d <= e
  BY <1>1, NatMin, Zenon
<1>3. PICK m \in T : d = n - m
  BY <1>2, Zenon
<1>4. \A k \in T : n - m <= n - k
  BY <1>2, <1>3, Zenon
<1> QED
  BY <1>3, <1>4

-----------------------------------------------------------------------------
(* The size-t combinations of 1..n, and their order.                        *)
Combos(n, t) ==
    {c \in [1..t -> 1..n] : \A i, j \in 1..t : i < j => c[i] < c[j]}

Before(c, q, t) ==
    \E j \in 1..t : c[j] < q[j] /\ \A i \in 1..(j - 1) : c[i] = q[i]

(* A function on 1..t is a sequence of length t.                            *)
LEMMA Tuple ==
    ASSUME NEW t \in Nat, NEW S, NEW c \in [1..t -> S]
    PROVE  c \in Seq(S) /\ Len(c) = t
OBVIOUS

(* The elements of a combination are at least as far apart as their places. *)
LEMMA Spread ==
    ASSUME NEW n \in Nat, NEW t \in Nat, NEW c \in Combos(n, t),
           NEW i \in 1..t, NEW j \in 1..t, i <= j
    PROVE  c[i] + (j - i) <= c[j]
<1> DEFINE P == {d \in 0..t : \A k \in 1..t : k + d <= t => c[k] + d <= c[k + d]}
<1>1. \A k \in 1..t : c[k] \in Nat
  BY DEF Combos
<1>2. 0 \in P
  BY <1>1
<1>3. ASSUME NEW d \in 1..t, d - 1 \in P PROVE d \in P
  <2> SUFFICES ASSUME NEW k \in 1..t, k + d <= t PROVE c[k] + d <= c[k + d]
    OBVIOUS
  <2>1. k + (d - 1) \in 1..t /\ k + d \in 1..t /\ k + (d - 1) < k + d
    OBVIOUS
  <2>2. c[k] + (d - 1) <= c[k + (d - 1)]
    BY <1>3, <2>1
  <2>3. c[k + (d - 1)] < c[k + d]
    BY <2>1, Zenon DEF Combos
  <2> QED
    BY <1>1, <2>1, <2>2, <2>3
<1> HIDE DEF P
<1>4. \A d \in 0..t : d \in P
  BY <1>2, <1>3, Induction, Zenon
<1>5. j - i \in 0..t /\ i + (j - i) = j
  OBVIOUS
<1> QED
  BY <1>4, <1>5 DEF P

(* What is nowhere greater comes first.                                     *)
LEMMA PointwiseBefore ==
    ASSUME NEW n \in Nat, NEW t \in Nat, NEW c \in Combos(n, t), NEW q \in Combos(n, t),
           \A i \in 1..t : c[i] <= q[i]
    PROVE  c = q \/ Before(c, q, t)
<1> DEFINE D == {i \in 1..t : c[i] # q[i]}
<1>1. \A i \in 1..t : c[i] \in Nat /\ q[i] \in Nat
  BY DEF Combos
<1>2. c \in [1..t -> 1..n] /\ q \in [1..t -> 1..n]
  BY Zenon DEF Combos
<1>3. CASE D = {}
  <2>1. \A i \in 1..t : c[i] = q[i]
    BY <1>3, Zenon
  <2> QED
    BY <1>2, <2>1
<1>4. CASE D # {}
  <2>1. PICK j \in D : \A k \in D : j <= k
    <3>1. D \subseteq Nat
      OBVIOUS
    <3> QED
      BY <1>4, <3>1, NatMin, Zenon
  <2>2. c[j] < q[j]
    BY <1>1, <2>1
  <2>3. \A i \in 1..(j - 1) : c[i] = q[i]
    BY <2>1
  <2> QED
    BY <2>1, <2>2, <2>3, Zenon DEF Before
<1> QED
  BY <1>3, <1>4, Zenon

(* The order is strict and transitive.                                      *)
LEMMA BeforeStrict ==
    ASSUME NEW n \in Nat, NEW t \in Nat, NEW c \in Combos(n, t), NEW q \in Combos(n, t),
           NEW r \in Combos(n, t)
    PROVE  /\ Before(c, q, t) => c # q
           /\ Before(c, q, t) /\ Before(q, r, t) => Before(c, r, t)
<1>1. \A i \in 1..t : c[i] \in Nat /\ q[i] \in Nat /\ r[i] \in Nat
  BY SMTT(60) DEF Combos
<1>2. Before(c, q, t) => c # q
  BY <1>1 DEF Before
<1>3. ASSUME Before(c, q, t), Before(q, r, t) PROVE Before(c, r, t)
  <2>1. PICK j \in 1..t : c[j] < q[j] /\ \A i \in 1..(j - 1) : c[i] = q[i]
    BY <1>3, Zenon DEF Before
  <2>2. PICK k \in 1..t : q[k] < r[k] /\ \A i \in 1..(k - 1) : q[i] = r[i]
    BY <1>3, Zenon DEF Before
  <2>3. CASE j < k
    BY <1>1, <2>1, <2>2, <2>3 DEF Before
  <2>4. CASE k < j
    BY <1>1, <2>1, <2>2, <2>4 DEF Before
  <2>5. CASE j = k
    BY <1>1, <2>1, <2>2, <2>5 DEF Before
  <2> QED
    BY <2>3, <2>4, <2>5
<1> QED
  BY <1>2, <1>3, Zenon

(* Place i moves on by one and the places after it follow.                  *)
Moved(c, i, t) == [j \in 1..t |-> IF j < i THEN c[j] ELSE c[i] + 1 + (j - i)]

(* The rightmost place that can move, and the combination that follows.     *)
LEMMA NextMoves ==
    ASSUME NEW n \in Nat, NEW t \in Nat, NEW c \in Combos(n, t),
           NEW m \in 1..t, c[m] < n - (t - m)
    PROVE  \E i \in 1..t :
             /\ m <= i /\ c[i] < n - (t - i)
             /\ \A l \in 1..t : c[l] < n - (t - l) => l <= i
             /\ NextCombination(c, n, t) = Moved(c, i, t)
<1> DEFINE movable == {i \in 1..Len(c) : c[i] < n - (t - i)}
           i == CHOOSE k \in movable : \A l \in movable : l <= k
<1>1. Len(c) = t
  BY Tuple, Zenon DEF Combos
<1>2. movable \subseteq 0..t /\ m \in movable
  BY <1>1
<1>3. \E k \in movable : \A l \in movable : l <= k
  <2> HIDE DEF movable
  <2> QED
    BY <1>2, NatMax, Zenon
<1>4. i \in movable /\ \A l \in movable : l <= i
  <2> HIDE DEF movable
  <2> QED
    BY <1>3, Zenon
<1>5. NextCombination(c, n, t) = Moved(c, i, t)
  <2>1. movable # {}
    BY <1>2, Zenon
  <2> QED
    BY <2>1, Zenon DEF NextCombination, Moved
<1> HIDE DEF i
<1> QED
  BY <1>1, <1>2, <1>4, <1>5, Zenon

(* It is a combination and comes later.                                     *)
LEMMA NextIsLater ==
    ASSUME NEW n \in Nat, NEW t \in Nat, NEW c \in Combos(n, t),
           NEW i \in 1..t, c[i] < n - (t - i),
           NEW x, x = Moved(c, i, t)
    PROVE  x \in Combos(n, t) /\ Before(c, x, t)
<1>1. c \in [1..t -> 1..n] /\ \A k, l \in 1..t : k < l => c[k] < c[l]
  BY Zenon DEF Combos
<1>2. \A j \in 1..t : x[j] = IF j < i THEN c[j] ELSE c[i] + 1 + (j - i)
  BY Zenon DEF Moved
<1>3. \A j \in 1..t : x[j] \in 1..n
  <2> SUFFICES ASSUME NEW j \in 1..t PROVE x[j] \in 1..n
    BY Zenon
  <2>1. c[i] \in 1..n /\ c[j] \in 1..n
    BY <1>1, Zenon
  <2>2. CASE j < i
    BY <1>2, <2>1, <2>2, Zenon
  <2>3. CASE i <= j
    <3>1. x[j] = c[i] + 1 + (j - i)
      BY <1>2, <2>3
    <3> QED
      BY <2>1, <2>3, <3>1
  <2> QED
    BY <2>2, <2>3
<1>4. x \in [1..t -> 1..n]
  <2>1. x = [j \in 1..t |-> x[j]]
    BY Zenon DEF Moved
  <2> QED
    BY <1>3, <2>1, Zenon
<1>5. \A k, l \in 1..t : k < l => x[k] < x[l]
  <2> SUFFICES ASSUME NEW k \in 1..t, NEW l \in 1..t, k < l PROVE x[k] < x[l]
    BY Zenon
  <2>1. c[i] \in Nat /\ c[k] \in Nat /\ c[l] \in Nat
    BY <1>1
  <2>2. CASE l < i
    BY <1>1, <1>2, <2>2
  <2>3. CASE k < i /\ i <= l
    <3>1. x[k] = c[k] /\ x[l] = c[i] + 1 + (l - i) /\ c[k] < c[i]
      BY <1>1, <1>2, <2>3
    <3> QED
      BY <2>1, <2>3, <3>1
  <2>4. CASE i <= k
    <3>1. x[k] = c[i] + 1 + (k - i) /\ x[l] = c[i] + 1 + (l - i)
      BY <1>2, <2>4
    <3> QED
      BY <2>1, <2>4, <3>1
  <2> QED
    BY <2>2, <2>3, <2>4
<1>6. c[i] < x[i] /\ \A j \in 1..(i - 1) : c[j] = x[j]
  <2>1. c[i] \in Nat
    BY <1>1
  <2>2. x[i] = c[i] + 1
    BY <1>2, <2>1
  <2>3. \A j \in 1..(i - 1) : j \in 1..t /\ j < i
    OBVIOUS
  <2> QED
    BY <1>2, <2>1, <2>2, <2>3
<1> QED
  BY <1>4, <1>5, <1>6, Zenon DEF Combos, Before

(* The search steps from a combination to the next one: nothing lies in     *)
(* between.                                                                 *)
LEMMA NextIsNext ==
    ASSUME NEW n \in Nat, NEW t \in Nat, NEW c \in Combos(n, t), NEW q \in Combos(n, t),
           Before(c, q, t), NEW x, x = NextCombination(c, n, t)
    PROVE  x \in Combos(n, t) /\ Before(c, x, t) /\ (x = q \/ Before(x, q, t))
<1>1. PICK j \in 1..t : c[j] < q[j] /\ \A l \in 1..(j - 1) : c[l] = q[l]
  BY Zenon DEF Before
<1>2. \A l \in 1..t : c[l] \in 1..n /\ q[l] \in 1..n
  BY Zenon DEF Combos
<1>3. c[j] < n - (t - j)
  <2>1. t \in 1..t /\ j <= t
    OBVIOUS
  <2>2. q[j] + (t - j) <= q[t]
    BY <2>1, Spread, Zenon
  <2> QED
    BY <1>1, <1>2, <2>1, <2>2
<1>4. PICK i \in 1..t :
        /\ j <= i /\ c[i] < n - (t - i)
        /\ \A l \in 1..t : c[l] < n - (t - l) => l <= i
        /\ x = Moved(c, i, t)
  BY <1>3, NextMoves, Zenon
<1>5. x \in Combos(n, t) /\ Before(c, x, t)
  BY <1>4, NextIsLater, Zenon
<1>6. \A l \in 1..t : x[l] = IF l < i THEN c[l] ELSE c[i] + 1 + (l - i)
  BY <1>4, Zenon DEF Moved
<1>7. ASSUME j < i PROVE Before(x, q, t)
  <2>1. x[j] = c[j] /\ \A l \in 1..(j - 1) : x[l] = c[l]
    BY <1>6, <1>7
  <2> QED
    BY <1>1, <2>1, Zenon DEF Before
<1>8. ASSUME j = i PROVE x = q \/ Before(x, q, t)
  <2>1. \A l \in 1..t : x[l] <= q[l] \/ c[j] + 1 < q[j]
    <3> SUFFICES ASSUME NEW l \in 1..t, ~(c[j] + 1 < q[j]) PROVE x[l] <= q[l]
      BY Zenon
    <3>1. q[j] = c[j] + 1
      BY <1>1, <1>2
    <3>2. CASE l < j
      BY <1>1, <1>2, <1>6, <1>8, <3>2
    <3>3. CASE j <= l
      <4>1. q[j] + (l - j) <= q[l]
        BY <3>3, Spread, Zenon
      <4>2. x[l] = c[j] + 1 + (l - j)
        BY <1>6, <1>8, <3>3
      <4> QED
        BY <3>1, <4>1, <4>2, Zenon
    <3> QED
      BY <3>2, <3>3
  <2>2. CASE c[j] + 1 < q[j]
    <3>1. x[j] = c[j] + 1 /\ \A l \in 1..(j - 1) : x[l] = c[l]
      BY <1>2, <1>6, <1>8
    <3> QED
      BY <1>1, <2>2, <3>1, Zenon DEF Before
  <2>3. CASE \A l \in 1..t : x[l] <= q[l]
    BY <1>5, <2>3, PointwiseBefore, Zenon
  <2> QED
    BY <2>1, <2>2, <2>3, Zenon
<1>9. j < i \/ j = i
  BY <1>4
<1> QED
  BY <1>5, <1>7, <1>8, <1>9, Zenon

(* After the last combination comes << >>, and stays.                       *)
LEMMA NextClosed ==
    ASSUME NEW n \in Nat, NEW t \in Nat, NEW c \in Combos(n, t) \cup {<< >>}
    PROVE  NextCombination(c, n, t) \in Combos(n, t) \cup {<< >>}
<1> DEFINE movable == {i \in 1..Len(c) : c[i] < n - (t - i)}
<1>1. CASE movable = {}
  BY <1>1, Zenon DEF NextCombination
<1>2. ASSUME NEW d \in Combos(n, t), NEW m \in 1..t, d[m] < n - (t - m)
      PROVE  NextCombination(d, n, t) \in Combos(n, t)
  <2>1. PICK i \in 1..t :
          /\ m <= i /\ d[i] < n - (t - i)
          /\ \A l \in 1..t : d[l] < n - (t - l) => l <= i
          /\ NextCombination(d, n, t) = Moved(d, i, t)
    BY <1>2, NextMoves, Zenon
  <2> QED
    BY <2>1, NextIsLater, Zenon
<1>3. CASE movable # {}
  <2>1. c # << >>
    BY <1>3
  <2>2. c \in Combos(n, t)
    BY <2>1, Zenon
  <2>3. Len(c) = t
    BY <2>2, Tuple, Zenon DEF Combos
  <2>4. PICK m \in 1..t : c[m] < n - (t - m)
    BY <1>3, <2>3, Zenon
  <2> QED
    BY <1>2, <2>2, <2>4, Zenon
<1> QED
  BY <1>1, <1>3, Zenon

(* The first of them.                                                       *)
LEMMA FirstCombo ==
    ASSUME NEW n \in Nat, NEW t \in Nat, t <= n
    PROVE  /\ [i \in 1..t |-> i] \in Combos(n, t)
           /\ \A q \in Combos(n, t) :
                [i \in 1..t |-> i] = q \/ Before([i \in 1..t |-> i], q, t)
<1> DEFINE f == [i \in 1..t |-> i]
<1>1. f \in Combos(n, t)
  BY DEF Combos
<1>2. \A i \in 1..t : f[i] = i
  BY Zenon
<1> HIDE DEF f
<1>3. ASSUME NEW q \in Combos(n, t) PROVE f = q \/ Before(f, q, t)
  <2>1. \A i \in 1..t : i <= q[i]
    <3> SUFFICES ASSUME NEW i \in 1..t PROVE i <= q[i]
      BY Zenon
    <3>1. 1 \in 1..t /\ 1 <= i
      OBVIOUS
    <3>2. q[1] \in 1..n /\ q[i] \in 1..n
      BY <3>1, Zenon DEF Combos
    <3>3. q[1] + (i - 1) <= q[i]
      BY <3>1, Spread, Zenon
    <3> QED
      BY <3>2, <3>3
  <2> QED
    BY <1>1, <1>2, <2>1, PointwiseBefore, Zenon
<1> QED
  BY <1>1, <1>3, Zenon DEF f

(* The combinations in the order of the search.                             *)
LEMMA CombinationStep ==
    ASSUME NEW n \in Nat, NEW t \in Nat, t <= n
    PROVE  /\ CombinationAt(n, t)[1] = [i \in 1..t |-> i]
           /\ \A k \in 1..MaxRetrySubsets : k # 1 =>
                CombinationAt(n, t)[k] = NextCombination(CombinationAt(n, t)[k - 1], n, t)
           /\ \A k \in 1..MaxRetrySubsets :
                CombinationAt(n, t)[k] \in Combos(n, t) \cup {<< >>}
<1> DEFINE D == Combos(n, t) \cup {<< >>}
           first == [i \in 1..t |-> i]
           m == MaxRetrySubsets - 1
           step == [p \in (1..m) \X D |-> NextCombination(p[2], n, t)]
           Def(f) == f = [k \in 1..MaxRetrySubsets |->
                            IF k = 1 THEN [i \in 1..t |-> i]
                                     ELSE NextCombination(f[k - 1], n, t)]
<1>1. MaxRetrySubsets \in Nat /\ m \in Nat /\ MaxRetrySubsets = m + 1
  BY ThresholdAssumption
<1>2. first \in D
  BY FirstCombo, Zenon
<1>3. \A c \in D : NextCombination(c, n, t) \in D
  BY NextClosed, Zenon
<1>4. step \in [(1..m) \X D -> D] /\ \A k \in 1..m, c \in D : step[<<k, c>>] = NextCombination(c, n, t)
  <2> HIDE DEF D
  <2> QED
    BY <1>3, Zenon
<1> HIDE DEF D, first, m, step
<1>5. PICK f \in [0..m -> D] : Follows(f, m, first, step)
  BY <1>1, <1>2, <1>4, Recursion, Zenon
<1>6. f[0] = first /\ \A k \in 1..m : f[k] = NextCombination(f[k - 1], n, t)
  <2>1. \A k \in 1..m : k - 1 \in 0..m
    BY <1>1
  <2> QED
    BY <1>4, <1>5, <2>1, Zenon DEF Follows
<1> DEFINE g == [k \in 1..MaxRetrySubsets |-> f[k - 1]]
<1>7. \A k \in 1..MaxRetrySubsets :
        g[k] = IF k = 1 THEN first ELSE NextCombination(g[k - 1], n, t)
  <2> SUFFICES ASSUME NEW k \in 1..MaxRetrySubsets
               PROVE  g[k] = IF k = 1 THEN first ELSE NextCombination(g[k - 1], n, t)
    BY Zenon
  <2>1. CASE k = 1
    BY <1>6, <2>1
  <2>2. CASE k # 1
    <3>1. k - 1 \in 1..m /\ k - 1 \in 1..MaxRetrySubsets
      BY <1>1, <2>2
    <3> QED
      BY <1>6, <2>2, <3>1, Zenon
  <2> QED
    BY <2>1, <2>2, Zenon
<1>8. g = [k \in 1..MaxRetrySubsets |-> g[k]]
  BY Zenon
<1> HIDE DEF g
<1>9. Def(g)
  BY <1>7, <1>8, Zenon DEF first
<1> DEFINE A == CombinationAt(n, t)
<1>10. Def(A)
  <2>1. CombinationAt(n, t) = CHOOSE f1 : Def(f1)
    BY Zenon DEF CombinationAt
  <2> HIDE DEF Def
  <2> QED
    BY <1>9, <2>1, Zenon
<1> HIDE DEF A
<1>11. \A k \in 1..MaxRetrySubsets :
         A[k] = IF k = 1 THEN first ELSE NextCombination(A[k - 1], n, t)
  BY <1>10, Zenon DEF first
<1> DEFINE P == {k \in 0..m : A[k + 1] \in D}
<1>12. 0 \in P
  <2>1. 0 + 1 = 1 /\ 1 \in 1..MaxRetrySubsets /\ 0 \in 0..m
    BY <1>1
  <2> QED
    BY <1>2, <1>11, <2>1, Zenon
<1>13. ASSUME NEW k \in 1..m, k - 1 \in P PROVE k \in P
  <2>1. k + 1 \in 1..MaxRetrySubsets /\ k + 1 # 1 /\ (k + 1) - 1 = k /\ (k - 1) + 1 = k /\ k \in 0..m
    BY <1>1
  <2>2. A[k + 1] = NextCombination(A[k], n, t)
    BY <1>11, <2>1, Zenon
  <2>3. A[k] \in D
    BY <1>13, <2>1, Zenon
  <2> QED
    BY <1>3, <2>1, <2>2, <2>3, Zenon
<1>14. \A k \in 1..MaxRetrySubsets : A[k] \in D
  <2>1. \A k \in 0..m : k \in P
    <3> HIDE DEF P
    <3> QED
      BY <1>1, <1>12, <1>13, Induction, Zenon
  <2>2. \A k \in 1..MaxRetrySubsets : k - 1 \in 0..m /\ (k - 1) + 1 = k
    BY <1>1
  <2> QED
    BY <2>1, <2>2, Zenon
<1>15. 1 \in 1..MaxRetrySubsets
  BY <1>1
<1> QED
  BY <1>11, <1>14, <1>15, Zenon DEF A, D, first

(* The elements of a combination.                                           *)
Elements(c, t) == {c[i] : i \in 1..t}

(* A combination has t elements, and no other combination has the same.     *)
LEMMA ElementsOf ==
    ASSUME NEW n \in Nat, NEW t \in Nat, NEW c \in Combos(n, t)
    PROVE  /\ Elements(c, t) \in {S \in SUBSET (1..n) : Cardinality(S) = t}
           /\ \A q \in Combos(n, t) : Before(c, q, t) => Elements(c, t) # Elements(q, t)
<1>1. c \in [1..t -> 1..n] /\ \A i, j \in 1..t : i < j => c[i] < c[j]
  BY Zenon DEF Combos
<1>2. Elements(c, t) \subseteq 1..n
  BY <1>1, Zenon DEF Elements
<1>3. Cardinality(Elements(c, t)) = t
  <2> DEFINE E == Elements(c, t)
  <2>1. c \in [1..t -> E] /\ \A e \in E : \E i \in 1..t : c[i] = e
    BY <1>1, Zenon DEF Elements
  <2>2. \A i, j \in 1..t : c[i] = c[j] => i = j
    <3>1. \A i, j \in 1..t : i < j \/ j < i \/ i = j
      OBVIOUS
    <3>2. \A i \in 1..t : c[i] \in Nat
      BY <1>1
    <3> QED
      BY <1>1, <3>1, <3>2
  <2> HIDE DEF E
  <2>3. c \in Injection(1..t, E)
    BY <2>1, <2>2, Zenon DEF Injection, IsInjective
  <2>4. c \in Surjection(1..t, E)
    BY <2>1, Zenon DEF Surjection
  <2>5. ExistsBijection(1..t, E)
    BY <2>3, <2>4, Zenon DEF ExistsBijection, Bijection
  <2>6. Cardinality(E) = t
    BY <2>5, FS_CountingElements, Zenon
  <2> QED
    BY <2>6, Zenon DEF E
<1>4. ASSUME NEW q \in Combos(n, t), Before(c, q, t), Elements(c, t) = Elements(q, t)
      PROVE  FALSE
  <2>1. PICK j \in 1..t : c[j] < q[j] /\ \A i \in 1..(j - 1) : c[i] = q[i]
    BY <1>4, Zenon DEF Before
  <2>2. PICK l \in 1..t : c[j] = q[l]
    BY <1>4, Zenon DEF Elements
  <2>3. /\ q \in [1..t -> 1..n] /\ \A i, k \in 1..t : i < k => q[i] < q[k]
    BY Zenon DEF Combos
  <2>4. c[j] \in Nat /\ q[j] \in Nat /\ q[l] \in Nat /\ c[l] \in Nat
    BY <1>1, <2>3
  <2>5. CASE l < j
    <3>1. c[l] = q[l] /\ c[l] < c[j]
      BY <1>1, <2>1, <2>5
    <3> QED
      BY <2>2, <2>4, <3>1
  <2>6. CASE j <= l
    BY <2>1, <2>2, <2>3, <2>4, <2>6
  <2> QED
    BY <2>5, <2>6
<1> QED
  BY <1>2, <1>3, <1>4, Zenon

(* The bounded search comes to every combination.                           *)
LEMMA AllFound ==
    ASSUME NEW n \in 0..WrapTotal, WrapThreshold <= n, NEW q \in Combos(n, WrapThreshold)
    PROVE  q \in SubsetCombinations(n, WrapThreshold)
<1> DEFINE t == WrapThreshold
           A == CombinationAt(n, t)
           M == MaxRetrySubsets
           F == {S \in SUBSET (1..n) : Cardinality(S) = t}
<1>1. n \in Nat /\ t \in Nat /\ t # 0 /\ M \in Nat /\ M # 0 /\ M - 1 \in Nat
  BY ThresholdAssumption
<1>2. /\ A[1] = [i \in 1..t |-> i]
      /\ \A k \in 1..M : k # 1 => A[k] = NextCombination(A[k - 1], n, t)
  BY <1>1, CombinationStep, Zenon
<1>3. Cardinality(F) <= M
  BY RetryAssumption, Zenon
<1>4. IsFiniteSet(F)
  <2>1. IsFiniteSet(SUBSET (1..n))
    BY <1>1, UpTo, FS_SUBSET, Zenon
  <2> QED
    BY <2>1, FS_Subset
<1>5. q \notin {<< >>}
  <2>1. q \in [1..t -> 1..n]
    BY Zenon DEF Combos
  <2>2. Len(q) = t
    BY <1>1, <2>1, Tuple, Zenon
  <2> QED
    BY <1>1, <2>2
<1> SUFFICES ASSUME \A k \in 1..M : A[k] # q PROVE FALSE
  <2>1. t <= n
    BY Zenon
  <2>2. \A k \in 1..M : A[k] = q => q \in {A[i] : i \in 1..M} \ {<< >>}
    BY <1>5, Zenon
  <2>3. (q \in {A[i] : i \in 1..M} \ {<< >>}) => q \in SubsetCombinations(n, t)
    BY <1>1, <2>1 DEF SubsetCombinations
  <2> QED
    BY <2>2, <2>3, Zenon
<1> HIDE DEF A, M, F, t
<1> DEFINE P == {k \in 0..(M - 1) : A[k + 1] \in Combos(n, t) /\ Before(A[k + 1], q, t)}
<1>6. q \in Combos(n, t) /\ t <= n
  BY Zenon DEF t
<1>7. 0 \in P
  <2>1. 0 + 1 = 1 /\ 1 \in 1..M /\ 0 \in 0..(M - 1)
    BY <1>1
  <2>2. A[1] \in Combos(n, t) /\ (A[1] = q \/ Before(A[1], q, t))
    BY <1>1, <1>2, <1>6, FirstCombo
  <2> QED
    BY <2>1, <2>2, Zenon
<1>8. ASSUME NEW k \in 1..(M - 1), A[k] \in Combos(n, t), Before(A[k], q, t)
      PROVE  /\ A[k + 1] \in Combos(n, t) /\ Before(A[k], A[k + 1], t)
             /\ Before(A[k + 1], q, t)
  <2>1. k + 1 \in 1..M /\ k + 1 # 1 /\ (k + 1) - 1 = k
    BY <1>1
  <2>2. A[k + 1] = NextCombination(A[k], n, t)
    BY <1>2, <2>1, Zenon
  <2>3. /\ A[k + 1] \in Combos(n, t) /\ Before(A[k], A[k + 1], t)
        /\ A[k + 1] = q \/ Before(A[k + 1], q, t)
    BY <1>1, <1>6, <1>8, <2>2, NextIsNext, Zenon
  <2> QED
    BY <2>1, <2>3, Zenon
<1>9. ASSUME NEW k \in 1..(M - 1), k - 1 \in P PROVE k \in P
  <2>1. (k - 1) + 1 = k /\ k \in 0..(M - 1)
    BY <1>1
  <2>2. A[k] \in Combos(n, t) /\ Before(A[k], q, t)
    BY <1>9, <2>1, Zenon
  <2> QED
    BY <1>8, <2>1, <2>2, Zenon
<1>10. \A k \in 1..M : A[k] \in Combos(n, t) /\ Before(A[k], q, t)
  <2>1. \A k \in 0..(M - 1) : k \in P
    <3> HIDE DEF P
    <3> QED
      BY <1>1, <1>7, <1>9, Induction, Zenon
  <2>2. \A k \in 1..M : k - 1 \in 0..(M - 1) /\ (k - 1) + 1 = k
    BY <1>1
  <2> QED
    BY <2>1, <2>2, Zenon
<1> DEFINE Q == {k \in 0..(M - 1) : \A l \in 1..k : Before(A[l], A[k + 1], t)}
<1>11. 0 \in Q
  BY <1>1
<1>12. ASSUME NEW k \in 1..(M - 1), k - 1 \in Q PROVE k \in Q
  <2>1. (k - 1) + 1 = k /\ k \in 0..(M - 1) /\ k \in 1..M /\ k + 1 \in 1..M
    BY <1>1
  <2>2. \A l \in 1..(k - 1) : Before(A[l], A[k], t)
    BY <1>12, <2>1, Zenon
  <2>3. Before(A[k], A[k + 1], t)
    BY <1>8, <1>10, <2>1, Zenon
  <2>4. ASSUME NEW l \in 1..k PROVE Before(A[l], A[k + 1], t)
    <3>1. CASE l = k
      BY <2>3, <3>1, Zenon
    <3>2. CASE l # k
      <4>1. l \in 1..(k - 1) /\ l \in 1..M
        BY <1>1, <3>2
      <4> QED
        BY <1>1, <1>10, <2>1, <2>2, <2>3, <4>1, BeforeStrict
    <3> QED
      BY <3>1, <3>2, Zenon
  <2> QED
    BY <2>1, <2>4, Zenon
<1>13. \A k, l \in 1..M : l < k => Before(A[l], A[k], t)
  <2>1. \A k \in 0..(M - 1) : k \in Q
    <3> HIDE DEF Q
    <3> QED
      BY <1>1, <1>11, <1>12, Induction, Zenon
  <2>2. \A k, l \in 1..M : l < k => k - 1 \in 0..(M - 1) /\ (k - 1) + 1 = k /\ l \in 1..(k - 1)
    BY <1>1
  <2> QED
    BY <2>1, <2>2, Zenon
<1> HIDE DEF P, Q
<1> DEFINE f == [k \in 1..(M + 1) |-> IF k = M + 1 THEN Elements(q, t) ELSE Elements(A[k], t)]
<1>14. /\ \A k \in 1..(M + 1) : k # M + 1 => k \in 1..M
       /\ f[M + 1] = Elements(q, t) /\ \A k \in 1..M : f[k] = Elements(A[k], t)
  BY <1>1
<1>15. f \in [1..(M + 1) -> F]
  <2>1. Elements(q, t) \in F /\ \A k \in 1..M : Elements(A[k], t) \in F
    BY <1>1, <1>6, <1>10, ElementsOf, Zenon DEF F
  <2> QED
    BY <1>14, <2>1, Zenon
<1> HIDE DEF f
<1>16. \A k, l \in 1..(M + 1) : l < k => f[l] # f[k]
  <2> SUFFICES ASSUME NEW k \in 1..(M + 1), NEW l \in 1..(M + 1), l < k PROVE f[l] # f[k]
    BY Zenon
  <2>1. l \in 1..M
    BY <1>1
  <2>2. CASE k = M + 1
    BY <1>1, <1>6, <1>10, <1>14, <2>1, <2>2, ElementsOf
  <2>3. CASE k # M + 1
    BY <1>1, <1>10, <1>13, <1>14, <2>1, <2>3, ElementsOf
  <2> QED
    BY <2>2, <2>3, Zenon
<1>17. \A k, l \in 1..(M + 1) : f[k] = f[l] => k = l
  <2>1. \A k, l \in 1..(M + 1) : k < l \/ l < k \/ k = l
    BY <1>1
  <2> QED
    BY <1>16, <2>1, Zenon
<1>18. Cardinality(1..(M + 1)) <= Cardinality(F)
  BY <1>4, <1>15, <1>17, AtMost, Zenon
<1>19. Cardinality(1..(M + 1)) = M + 1
  BY <1>1, UpTo
<1>20. Cardinality(F) \in Nat
  BY <1>4, FS_CardinalityType, Zenon
<1> QED
  BY <1>1, <1>3, <1>18, <1>19, <1>20

(* Out of d places a combination of d of them can be made.                  *)
LEMMA Choosing ==
    ASSUME NEW n \in Nat, NEW t \in Nat, NEW G \in SUBSET (1..n), Cardinality(G) >= t
    PROVE  \E c \in Combos(n, t) : \A i \in 1..t : c[i] \in G
<1> DEFINE Good(c, d, H) == c \in Combos(n, d) /\ \A i \in 1..d : c[i] \in H
           P == {d \in 0..t : \A H \in SUBSET (1..n) : Cardinality(H) >= d =>
                                 \E c : Good(c, d, H)}
<1>1. \A H \in SUBSET (1..n) : IsFiniteSet(H) /\ Cardinality(H) \in Nat
  BY UpTo, FS_Subset, FS_CardinalityType, Zenon
<1>2. 0 \in P
  <2> DEFINE c == [i \in 1..0 |-> 1]
  <2>1. \A H \in SUBSET (1..n) : Good(c, 0, H)
    BY DEF Combos
  <2>2. 0 \in 0..t
    OBVIOUS
  <2> HIDE DEF c, Good
  <2> QED
    BY <2>1, <2>2, Zenon
<1>3. ASSUME NEW d \in 1..t, d - 1 \in P PROVE d \in P
  <2>1. d \in 0..t /\ d - 1 \in Nat /\ d \in Nat /\ d \in 1..d
    OBVIOUS
  <2> SUFFICES ASSUME NEW H \in SUBSET (1..n), Cardinality(H) >= d
               PROVE  \E c : Good(c, d, H)
    BY <2>1, Zenon
  <2>2. H # {}
    BY <1>1, <2>1, FS_EmptySet
  <2>3. PICK g \in H : \A k \in H : k <= g
    <3>1. H \subseteq 0..n
      OBVIOUS
    <3> QED
      BY <2>2, <3>1, NatMax, Zenon
  <2>4. H \ {g} \in SUBSET (1..n) /\ Cardinality(H \ {g}) >= d - 1
    <3>1. Cardinality(H \ {g}) = Cardinality(H) - 1
      BY <1>1, <2>3, FS_RemoveElement, Zenon
    <3> QED
      BY <1>1, <2>1, <3>1
  <2>5. PICK c : Good(c, d - 1, H \ {g})
    BY <1>3, <2>4, Zenon
  <2> DEFINE x == [i \in 1..d |-> IF i = d THEN g ELSE c[i]]
  <2>6. /\ c \in [1..(d - 1) -> 1..n] /\ \A i, j \in 1..(d - 1) : i < j => c[i] < c[j]
        /\ \A i \in 1..(d - 1) : c[i] \in H /\ c[i] # g /\ c[i] \in Nat
    BY <2>5 DEF Combos
  <2>7. g \in 1..n /\ \A i \in 1..d : i # d => i \in 1..(d - 1)
    OBVIOUS
  <2>8. x[d] = g /\ \A i \in 1..d : i # d => x[i] = c[i]
    BY <2>1, Zenon
  <2>9. x \in [1..d -> 1..n]
    BY <2>6, <2>7, Zenon
  <2> HIDE DEF x
  <2>10. \A i \in 1..(d - 1) : c[i] < g
    BY <2>3, <2>6, <2>7
  <2>11. \A i, j \in 1..d : i < j => x[i] < x[j]
    <3> SUFFICES ASSUME NEW i \in 1..d, NEW j \in 1..d, i < j PROVE x[i] < x[j]
      BY Zenon
    <3>1. i # d /\ i \in 1..(d - 1)
      OBVIOUS
    <3>2. CASE j = d
      BY <2>8, <2>10, <3>1, <3>2, Zenon
    <3>3. CASE j # d
      BY <2>6, <2>7, <2>8, <3>1, <3>3, Zenon
    <3> QED
      BY <3>2, <3>3, Zenon
  <2>12. \A i \in 1..d : x[i] \in H
    BY <2>3, <2>6, <2>7, <2>8, Zenon
  <2>13. Good(x, d, H)
    BY <2>9, <2>11, <2>12, Zenon DEF Combos
  <2> HIDE DEF Good
  <2> QED
    BY <2>13, Zenon
<1>4. t \in P
  <2>1. \A d \in 0..t : d \in P
    <3> HIDE DEF P
    <3> QED
      BY <1>2, <1>3, Induction, Zenon
  <2> QED
    BY <2>1
<1> QED
  BY <1>4, Zenon

(* The search opens the key exactly when a threshold of the usable shares   *)
(* is genuine.                                                              *)
LEMMA SearchExact ==
    ASSUME NEW v \in Seq(ShareKinds), Len(v) <= WrapTotal, WrapThreshold <= Len(v)
    PROVE  SomeSubsetOpens(v) <=> Count(v, "genuine") >= WrapThreshold
<1> DEFINE n == Len(v)
           t == WrapThreshold
           G == {i \in DOMAIN v : v[i] = "genuine"}
<1>1. n \in 0..WrapTotal /\ n \in Nat /\ t \in Nat /\ t # 0 /\ t <= n /\ DOMAIN v = 1..n
  BY ThresholdAssumption
<1>2. G \in SUBSET (1..n) /\ IsFiniteSet(G) /\ Count(v, "genuine") = Cardinality(G)
  <2>1. G \in SUBSET (1..n)
    BY <1>1, Zenon
  <2> QED
    BY <1>1, <2>1, UpTo, FS_Subset, Zenon DEF Count
<1>3. SomeSubsetOpens(v) <=>
        \E c \in SubsetCombinations(n, t) : \A i \in 1..t : v[c[i]] = "genuine"
  BY <1>1, Zenon DEF SomeSubsetOpens, Combinations
<1>4. \A c \in SubsetCombinations(n, t) : c \in Combos(n, t)
  <2>1. SubsetCombinations(n, t) = {CombinationAt(n, t)[k] : k \in 1..MaxRetrySubsets} \ {<< >>}
    BY <1>1 DEF SubsetCombinations
  <2>2. \A k \in 1..MaxRetrySubsets : CombinationAt(n, t)[k] \in Combos(n, t) \cup {<< >>}
    BY <1>1, CombinationStep, Zenon
  <2> QED
    BY <2>1, <2>2, Zenon
<1>5. \A i \in 1..n : v[i] = "genuine" <=> i \in G
  BY <1>1, Zenon
<1> HIDE DEF n, t, G
<1>6. ASSUME NEW c \in Combos(n, t), \A i \in 1..t : v[c[i]] = "genuine"
      PROVE  Cardinality(G) >= t
  <2>1. c \in [1..t -> 1..n] /\ \A i, j \in 1..t : i < j => c[i] < c[j]
    BY Zenon DEF Combos
  <2>2. c \in [1..t -> G]
    BY <1>5, <1>6, <2>1, Zenon
  <2>3. \A i, j \in 1..t : c[i] = c[j] => i = j
    <3>1. \A i, j \in 1..t : i < j \/ j < i \/ i = j
      BY <1>1
    <3>2. \A i \in 1..t : c[i] \in Nat
      BY <2>1
    <3> QED
      BY <2>1, <3>1, <3>2
  <2>4. Cardinality(1..t) <= Cardinality(G)
    BY <1>2, <2>2, <2>3, AtMost, Zenon
  <2>5. Cardinality(1..t) = t /\ Cardinality(G) \in Nat
    BY <1>1, <1>2, UpTo, FS_CardinalityType, Zenon
  <2> QED
    BY <1>1, <2>4, <2>5, Zenon
<1>7. ASSUME Cardinality(G) >= t
      PROVE  \E c \in SubsetCombinations(n, t) : \A i \in 1..t : v[c[i]] = "genuine"
  <2>1. PICK c \in Combos(n, t) : \A i \in 1..t : c[i] \in G
    BY <1>1, <1>2, <1>7, Choosing, Zenon
  <2>2. c \in SubsetCombinations(n, t)
    BY <1>1, <2>1, AllFound, Zenon DEF t
  <2>3. \A i \in 1..t : v[c[i]] = "genuine"
    BY <1>2, <1>5, <2>1, Zenon
  <2> QED
    BY <2>2, <2>3, Zenon
<1> QED
  BY <1>2, <1>3, <1>4, <1>6, <1>7, Zenon DEF t

(* What unwrap_message_key answers, whatever the order of the shares.       *)
LEMMA UnwrapAnswers ==
    ASSUME NEW s \in Seq(ShareKinds), Len(s) <= WrapTotal, NEW m \in BOOLEAN,
           NEW r, r = UnwrapMessageKey(s, m)
    PROVE  /\ r \in {"Ok", "InsufficientUnwrapShares", "AllSubsetsFailedUnwrap"}
           /\ (r = "Ok") <=> (Count(s, "genuine") >= WrapThreshold /\ m)
           /\ (r = "InsufficientUnwrapShares") <=>
                (Count(s, "genuine") + Count(s, "tampered") < WrapThreshold)
<1> DEFINE v == Kept(s, {"genuine", "tampered"})
<1>1. /\ v \in Seq(ShareKinds) /\ Len(v) <= Len(s) /\ Len(v) \in Nat /\ Len(s) \in Nat
      /\ Count(v, "genuine") = Count(s, "genuine")
      /\ Len(v) = Count(s, "genuine") + Count(s, "tampered")
      /\ Count(s, "genuine") \in Nat /\ Count(s, "tampered") \in Nat
  BY ValidShares
<1>2. r = IF Len(v) < WrapThreshold THEN "InsufficientUnwrapShares"
          ELSE IF m /\ SomeSubsetOpens(v) THEN "Ok" ELSE "AllSubsetsFailedUnwrap"
  BY Zenon DEF UnwrapMessageKey
<1> HIDE DEF v
<1>3. WrapThreshold \in Nat /\ WrapTotal \in Nat
  BY ThresholdAssumption
<1>4. CASE Len(v) < WrapThreshold
  BY <1>1, <1>2, <1>3, <1>4
<1>5. CASE WrapThreshold <= Len(v)
  <2>1. Len(v) <= WrapTotal
    BY <1>1, <1>3
  <2>2. SomeSubsetOpens(v) <=> Count(v, "genuine") >= WrapThreshold
    BY <1>1, <1>5, <2>1, SearchExact, Zenon
  <2>3. ~(Len(v) < WrapThreshold)
    BY <1>1, <1>3, <1>5
  <2>4. r = IF m /\ SomeSubsetOpens(v) THEN "Ok" ELSE "AllSubsetsFailedUnwrap"
    BY <1>2, <2>3, Zenon
  <2> QED
    BY <1>1, <2>2, <2>3, <2>4, Zenon
<1> QED
  BY <1>1, <1>3, <1>4, <1>5

-----------------------------------------------------------------------------
(* The syncs: types.                                                         *)

CallRecords ==
    [todo : Seq(Entries), device : 0..MaxRotations, out : Seq(Texts),
     working : SUBSET Servers, shares : Seq(ShareKinds)]

(* The types, with what they owe to one another: only a running sync has    *)
(* opened texts, and it has workers left and not yet enough shares.         *)
TypeInv ==
    /\ transport \in {"http2", "stub"}
    /\ identity \in 0..MaxRotations
    /\ published \in 0..MaxEntries
    /\ history \in Seq(Entries)
    /\ call \in [Calls -> CallRecords]
    /\ \A c \in Calls :
         /\ Running(c) <=> call[c].working # {}
         /\ ~Running(c) => call[c].out = << >>
         /\ Len(call[c].shares) + Cardinality(call[c].working) <= Cardinality(Servers)
         /\ Running(c) => Len(call[c].shares) < EarlyReturn
    /\ shown \in Seq(Texts)
    /\ lost \subseteq Texts

(* The numbers and the servers.                                             *)
LEMMA HistoryConstants ==
    /\ MaxEntries \in Nat /\ MaxRotations \in Nat /\ EarlyReturn \in Nat /\ EarlyReturn > 0
    /\ IsFiniteSet(Servers) /\ Cardinality(Servers) = WrapTotal
    /\ WrapTotal \in Nat /\ WrapTotal > 0 /\ Servers # {}
<1>1. /\ MaxEntries \in Nat /\ MaxRotations \in Nat /\ EarlyReturn \in Nat /\ EarlyReturn > 0
      /\ IsFiniteSet(Servers) /\ Cardinality(Servers) = WrapTotal
      /\ WrapTotal \in Nat /\ WrapTotal > 0
  BY HistoryAssumption, ThresholdAssumption
<1> QED
  BY <1>1, FS_EmptySet

(* The three ways a sync goes on when a dispatch has ended: with the next   *)
(* entry, by returning what it opened, or by failing.                       *)
GoesOn(c) ==
    /\ Len(call[c].todo) > 1
    /\ call'[c] = Dispatching(Tail(call[c].todo), call[c].device,
                              Append(call[c].out, Head(call[c].todo).text))
    /\ UNCHANGED <<shown, lost>>

Returns(c) ==
    /\ Len(call[c].todo) = 1
    /\ call'[c] = Idle
    /\ shown' = shown \o Append(call[c].out, Head(call[c].todo).text)
    /\ UNCHANGED lost

Fails(c) ==
    /\ call'[c] = Idle
    /\ lost' = lost \cup {CallTexts(c)[i] : i \in DOMAIN CallTexts(c)}
    /\ UNCHANGED shown

(* These are the ways.                                                      *)
LEMMA AfterDispatchCases ==
    ASSUME TypeInv, NEW c \in Calls, Running(c), NEW shares, AfterDispatch(c, shares)
    PROVE  /\ GoesOn(c) \/ Returns(c) \/ Fails(c)
           /\ DOMAIN call' = Calls
           /\ \A d \in Calls : d # c => call'[d] = call[d]
           /\ UNCHANGED <<transport, identity, published, history>>
<1>1. call[c].todo \in Seq(Entries) /\ call[c].todo # << >>
  BY Zenon DEF TypeInv, CallRecords, Running
<1>2. Len(call[c].todo) \in Nat /\ Len(call[c].todo) # 0
  BY <1>1
<1>3. DOMAIN call = Calls
  BY Zenon DEF TypeInv
<1>4. UNCHANGED <<transport, identity, published, history>>
  BY Zenon DEF AfterDispatch
<1>5. EntryOpened(c) \/ SyncFails(c)
  BY Zenon DEF AfterDispatch
<1>6. CASE EntryOpened(c)
  <2>1. CASE Len(call[c].todo) > 1
    BY <1>3, <1>4, <1>6, <2>1, Zenon DEF EntryOpened, GoesOn
  <2>2. CASE ~(Len(call[c].todo) > 1)
    <3>1. Len(call[c].todo) = 1
      <4>1. \A n \in Nat : n # 0 /\ ~(n > 1) => n = 1
        OBVIOUS
      <4> QED
        BY <1>2, <2>2, <4>1, Zenon
    <3>2. /\ call' = [call EXCEPT ![c] = Idle]
          /\ shown' = shown \o Append(call[c].out, Head(call[c].todo).text)
          /\ UNCHANGED lost
      BY <1>6, <2>2, Zenon DEF EntryOpened
    <3>3. Returns(c) /\ DOMAIN call' = Calls /\ \A d \in Calls : d # c => call'[d] = call[d]
      BY <1>3, <3>1, <3>2, Zenon DEF Returns
    <3> QED
      BY <1>4, <3>3, Zenon
  <2> QED
    BY <2>1, <2>2, Zenon
<1>7. CASE SyncFails(c)
  BY <1>3, <1>4, <1>7, Zenon DEF SyncFails, Fails, CallTexts
<1> QED
  BY <1>5, <1>6, <1>7, Zenon

(* An idle sync, and one that begins.                                       *)
LEMMA CallTypes ==
    /\ Idle \in CallRecords /\ Idle.todo = << >> /\ Idle.out = << >>
    /\ Idle.working = {} /\ Idle.shares = << >>
BY HistoryConstants DEF Idle, CallRecords

(* The head and the tail of a sequence.                                     *)
LEMMA HeadTail ==
    ASSUME NEW T, NEW q \in Seq(T), q # << >>
    PROVE  /\ Len(q) \in Nat /\ Len(q) > 0
           /\ Head(q) = q[1] /\ Head(q) \in T
           /\ Tail(q) \in Seq(T) /\ Len(Tail(q)) = Len(q) - 1
           /\ \A i \in 1..(Len(q) - 1) : Tail(q)[i] = q[i + 1]
           /\ Len(q) > 1 => Tail(q) # << >>
<1>1. /\ Len(q) \in Nat /\ Len(q) > 0
      /\ Head(q) = q[1] /\ Head(q) \in T
      /\ Tail(q) \in Seq(T) /\ Len(Tail(q)) = Len(q) - 1
      /\ \A i \in 1..(Len(q) - 1) : Tail(q)[i] = q[i + 1]
  OBVIOUS
<1>2. Len(<< >>) = 0
  BY Zenon
<1>3. \A n \in Nat : n > 1 => n - 1 # 0
  OBVIOUS
<1>4. Len(q) > 1 => Tail(q) # << >>
  BY <1>1, <1>2, <1>3, Zenon
<1> QED
  BY <1>1, <1>4, Zenon

(* The texts of a sequence of entries.                                      *)
LEMMA TextsType ==
    ASSUME NEW q \in Seq(Entries)
    PROVE  /\ SeqTexts(q) \in Seq(Texts) /\ Len(SeqTexts(q)) = Len(q)
           /\ \A i \in 1..Len(q) : SeqTexts(q)[i] = q[i].text /\ q[i].text \in Texts
<1>1. /\ DOMAIN q = 1..Len(q) /\ Len(q) \in Nat
      /\ \A i \in 1..Len(q) : q[i] \in Entries
  OBVIOUS
<1>2. \A i \in 1..Len(q) : q[i].text \in Texts
  BY <1>1, Zenon DEF Entries
<1>3. SeqTexts(q) \in [1..Len(q) -> Texts] /\ \A i \in 1..Len(q) : SeqTexts(q)[i] = q[i].text
  BY <1>1, <1>2, Zenon DEF SeqTexts
<1>4. SeqTexts(q) \in Seq(Texts) /\ Len(SeqTexts(q)) = Len(q)
  BY <1>1, <1>3, Tuple, Zenon
<1> QED
  BY <1>2, <1>3, <1>4, Zenon

(* What the types of a sync owe to one another.                             *)
CallOk(r) ==
    /\ r.todo # << >> <=> r.working # {}
    /\ r.todo = << >> => r.out = << >>
    /\ Len(r.shares) + Cardinality(r.working) <= Cardinality(Servers)
    /\ r.todo # << >> => Len(r.shares) < EarlyReturn

(* When one call changes and keeps the types, all calls have them.          *)
LEMMA OneCall ==
    ASSUME TypeInv, NEW c \in Calls, DOMAIN call' = Calls, call' = [d \in Calls |-> call'[d]],
           \A d \in Calls : d # c => call'[d] = call[d],
           call'[c] \in CallRecords, CallOk(call'[c]),
           transport' = transport, identity' \in 0..MaxRotations,
           published' = published, history' \in Seq(Entries),
           shown' \in Seq(Texts), lost' \subseteq Texts
    PROVE  TypeInv'
<1>1. \A d \in Calls : call'[d] \in CallRecords
  BY Zenon DEF TypeInv
<1>2. call' \in [Calls -> CallRecords]
  BY <1>1, Zenon
<1>3. \A d \in Calls : CallOk(call'[d])
  <2>1. \A d \in Calls : CallOk(call[d])
    BY Zenon DEF TypeInv, CallOk, Running
  <2> QED BY <2>1, Zenon
<1> QED
  BY <1>2, <1>3, Zenon DEF TypeInv, CallOk, Running

(* A dispatch that ends keeps the types.                                    *)
LEMMA TypeAfter ==
    ASSUME TypeInv, NEW c \in Calls, Running(c), NEW shares, AfterDispatch(c, shares)
    PROVE  TypeInv'
<1> USE HistoryConstants
<1>1. /\ GoesOn(c) \/ Returns(c) \/ Fails(c)
      /\ DOMAIN call' = Calls
      /\ \A d \in Calls : d # c => call'[d] = call[d]
      /\ UNCHANGED <<transport, identity, published, history>>
  BY AfterDispatchCases, Zenon
<1>2. /\ call[c] \in CallRecords /\ call[c].todo # << >> /\ call[c].todo \in Seq(Entries)
      /\ call[c].device \in 0..MaxRotations /\ call[c].out \in Seq(Texts)
  BY Zenon DEF TypeInv, CallRecords, Running
<1>3. Head(call[c].todo) \in Entries /\ Tail(call[c].todo) \in Seq(Entries)
  BY <1>2
<1>4. Head(call[c].todo).text \in Texts
  BY <1>3, Zenon DEF Entries
<1>5. Append(call[c].out, Head(call[c].todo).text) \in Seq(Texts)
  BY <1>2, <1>4
<1>6. call' = [d \in Calls |-> call'[d]]
  BY Zenon DEF AfterDispatch, EntryOpened, SyncFails, TypeInv
<1>7. CallOk(Idle)
  BY CallTypes, FS_EmptySet DEF CallOk
<1>8. CASE GoesOn(c)
  <2> DEFINE q == call[c].todo
             d == Dispatching(Tail(q), call[c].device, Append(call[c].out, Head(q).text))
  <2>1. Tail(q) # << >>
    BY <1>2, <1>8, HeadTail, Zenon DEF GoesOn
  <2>2. /\ d \in CallRecords /\ d.todo = Tail(q) /\ d.working = Servers /\ d.shares = << >>
    <3>1. d = Dispatching(Tail(q), call[c].device, Append(call[c].out, Head(q).text))
      BY Zenon
    <3> HIDE DEF d
    <3>2. /\ Tail(q) \in Seq(Entries) /\ call[c].device \in 0..MaxRotations
          /\ Append(call[c].out, Head(q).text) \in Seq(Texts)
      BY <1>2, <1>3, <1>5, Zenon
    <3> HIDE DEF q
    <3> HIDE HistoryConstants
    <3> QED
      BY <3>1, <3>2, HistoryConstants DEF Dispatching, CallRecords
  <2>3. call'[c] = d
    BY <1>8, Zenon DEF GoesOn
  <2> HIDE DEF d
  <2>4. CallOk(d)
    BY <2>1, <2>2 DEF CallOk
  <2>5. call'[c] \in CallRecords /\ CallOk(call'[c])
    BY <2>2, <2>3, <2>4, Zenon
  <2> QED
    BY <1>1, <1>6, <1>8, <2>5, OneCall, Zenon DEF GoesOn, TypeInv
<1>9. CASE Returns(c)
  <2>1. shown' \in Seq(Texts)
    BY <1>5, <1>9 DEF Returns, TypeInv
  <2> QED
    BY <1>1, <1>6, <1>7, <1>9, <2>1, CallTypes, OneCall, Zenon DEF Returns, TypeInv
<1>10. CASE Fails(c)
  <2>1. CallTexts(c) \in Seq(Texts)
    BY <1>2, TextsType DEF CallTexts
  <2>2. lost' \subseteq Texts
    BY <1>10, <2>1 DEF Fails, TypeInv
  <2>3. /\ call'[c] \in CallRecords /\ CallOk(call'[c])
        /\ transport' = transport /\ published' = published /\ shown' \in Seq(Texts)
        /\ identity' \in 0..MaxRotations /\ history' \in Seq(Entries)
    BY <1>1, <1>7, <1>10, CallTypes, Zenon DEF Fails, TypeInv
  <2> QED
    BY <1>1, <1>6, <2>2, <2>3, OneCall, Zenon
<1> QED
  BY <1>1, <1>8, <1>9, <1>10, Zenon

(* A worker leaves and the coordinator waits on: the types are kept.        *)
LEMMA TypeWaits ==
    ASSUME TypeInv, NEW c \in Calls, NEW s \in call[c].working, Running(c),
           NEW q \in Seq(ShareKinds), Len(q) <= Len(call[c].shares) + 1,
           ~Collected(q, call[c].working \ {s}),
           call' = [call EXCEPT ![c] =
                      [call[c] EXCEPT !.shares = q, !.working = call[c].working \ {s}]],
           UNCHANGED <<transport, identity, published, history, shown, lost>>
    PROVE  TypeInv'
<1> USE HistoryConstants
<1> DEFINE working == call[c].working \ {s}
           r == [call[c] EXCEPT !.shares = q, !.working = working]
<1>1. /\ call[c] \in CallRecords /\ call[c].todo # << >> /\ DOMAIN call = Calls
      /\ call[c].working \in SUBSET Servers /\ call[c].shares \in Seq(ShareKinds)
      /\ Len(call[c].shares) + Cardinality(call[c].working) <= Cardinality(Servers)
  BY Zenon DEF TypeInv, CallRecords, Running
<1>2. working \in SUBSET Servers
  BY <1>1, Zenon
<1>3. r \in CallRecords /\ r.todo = call[c].todo /\ r.working = working /\ r.shares = q
  BY <1>1, <1>2, Zenon DEF CallRecords
<1>4. Cardinality(working) = Cardinality(call[c].working) - 1 /\ Cardinality(working) \in Nat
  <2>1. IsFiniteSet(call[c].working)
    BY <1>1, FS_Subset, Zenon
  <2> QED
    BY <2>1, FS_RemoveElement, FS_CardinalityType, Zenon
<1>5. Len(q) < EarlyReturn /\ working # {}
  BY DEF Collected
<1>6. call'[c] = r /\ \A d \in Calls : d # c => call'[d] = call[d]
  BY <1>1, Zenon
<1>7. DOMAIN call' = Calls /\ call' = [d \in Calls |-> call'[d]]
  BY <1>1, Zenon
<1> HIDE DEF r, working
<1>8. Len(q) + Cardinality(working) <= Cardinality(Servers)
  <2>1. /\ Len(q) \in Nat /\ Len(call[c].shares) \in Nat
        /\ Cardinality(call[c].working) \in Nat
    BY <1>1, FS_Subset, FS_CardinalityType
  <2> QED
    BY <1>1, <1>4, <2>1, SMTT(60)
<1>9. CallOk(r)
  BY <1>1, <1>3, <1>5, <1>8, Zenon DEF CallOk
<1>10. call'[c] \in CallRecords /\ CallOk(call'[c])
  BY <1>3, <1>6, <1>9, Zenon
<1>11. /\ transport' = transport /\ identity' \in 0..MaxRotations
       /\ published' = published /\ history' \in Seq(Entries)
       /\ shown' \in Seq(Texts) /\ lost' \subseteq Texts
  BY Zenon DEF TypeInv
<1> QED
  BY <1>6, <1>7, <1>10, <1>11, OneCall, Zenon

(* Every step keeps the types.                                              *)
LEMMA TypeStep ==
    ASSUME TypeInv, [Next]_vars
    PROVE  TypeInv'
<1> USE HistoryConstants
<1>0. \A c \in Calls :
        /\ call[c] \in CallRecords /\ call[c].working \in SUBSET Servers
        /\ call[c].shares \in Seq(ShareKinds)
  BY Zenon DEF TypeInv, CallRecords
<1>1. CASE UNCHANGED vars
  BY <1>1, Zenon DEF vars, TypeInv, Running
<1>2. CASE CloudPublishAtRest
  <2>1. [text |-> published + 1, under |-> identity, intact |-> TRUE] \in Entries
    BY <1>2 DEF CloudPublishAtRest, TypeInv, Entries, Texts
  <2>2. history' \in Seq(Entries) /\ published' \in 0..MaxEntries
    BY <1>2, <2>1 DEF CloudPublishAtRest, TypeInv
  <2> QED
    BY <1>2, <2>2, Zenon DEF CloudPublishAtRest, TypeInv, Running
<1>3. CASE SwapMlsKeystore
  BY <1>3 DEF SwapMlsKeystore, TypeInv, Running
<1>4. ASSUME NEW i \in DOMAIN history, EntryDamaged(i) PROVE TypeInv'
  <2>1. history[i] \in Entries
    BY DEF TypeInv
  <2>2. [history[i] EXCEPT !.intact = FALSE] \in Entries
    BY <2>1, Zenon DEF Entries
  <2>3. history' = [history EXCEPT ![i] = [history[i] EXCEPT !.intact = FALSE]]
    BY <1>4, Zenon DEF EntryDamaged
  <2>4. history' \in Seq(Entries)
    BY <2>2, <2>3 DEF TypeInv
  <2> QED
    BY <1>4, <2>4, Zenon DEF EntryDamaged, TypeInv, Running
<1>5. ASSUME NEW c \in Calls, NEW since \in 0..MaxEntries, SyncStart(c, since) PROVE TypeInv'
  <2> DEFINE drained == Kept(history, {e \in Entries : e.text > since})
             r == Dispatching(drained, identity, << >>)
  <2>1. drained \in Seq(Entries) /\ history' \in Seq(Entries)
    <3>1. history \in Seq(Entries)
      BY Zenon DEF TypeInv
    <3>2. history' = Kept(history, {e \in Entries : e.text <= since})
      BY <1>5, Zenon DEF SyncStart, DrainCloudHistory
    <3> QED
      BY <3>1, <3>2, KeptFrom, Zenon
  <2>2. /\ drained # << >> /\ call' = [call EXCEPT ![c] = r]
        /\ UNCHANGED <<transport, identity, published, shown, lost>>
    BY <1>5, Zenon DEF SyncStart
  <2> HIDE DEF drained
  <2>3. << >> \in Seq(Texts) /\ identity \in 0..MaxRotations
    BY DEF TypeInv
  <2>4. r \in CallRecords /\ r.todo = drained /\ r.working = Servers /\ r.shares = << >>
    <3>1. r = Dispatching(drained, identity, << >>)
      BY Zenon
    <3> HIDE DEF r
    <3>2. drained \in Seq(Entries) /\ identity \in 0..MaxRotations /\ << >> \in Seq(Texts)
      BY <2>1, <2>3, Zenon
    <3> HIDE HistoryConstants
    <3> QED
      BY <3>1, <3>2, HistoryConstants DEF Dispatching, CallRecords
  <2> HIDE DEF r
  <2>5. CallOk(r)
    BY <2>2, <2>4 DEF CallOk
  <2>6. /\ call'[c] = r /\ DOMAIN call' = Calls /\ call' = [d \in Calls |-> call'[d]]
        /\ \A d \in Calls : d # c => call'[d] = call[d]
    BY <2>2, Zenon DEF TypeInv
  <2> QED
    BY <2>1, <2>2, <2>3, <2>4, <2>5, <2>6, OneCall, Zenon DEF TypeInv
<1>6. ASSUME NEW c \in Calls, NEW s \in Servers, NEW kind \in ShareKinds,
             ShareArrives(c, s, kind)
      PROVE  TypeInv'
  <2> DEFINE q == Append(call[c].shares, kind)
  <2>1. Running(c) /\ s \in call[c].working
    BY <1>6, Zenon DEF ShareArrives
  <2>2. CASE Collected(q, call[c].working \ {s})
    BY <1>6, <2>1, <2>2, TypeAfter, Zenon DEF ShareArrives
  <2>3. CASE ~Collected(q, call[c].working \ {s})
    <3>1. /\ call' = [call EXCEPT ![c] =
                        [call[c] EXCEPT !.shares = q, !.working = call[c].working \ {s}]]
          /\ UNCHANGED <<transport, identity, published, history, shown, lost>>
      BY <1>0, <1>6, <2>3, Zenon DEF ShareArrives, CallRecords
    <3>2. q \in Seq(ShareKinds) /\ Len(q) <= Len(call[c].shares) + 1
      BY <1>0
    <3> HIDE DEF q
    <3> QED
      BY <2>1, <2>3, <3>1, <3>2, TypeWaits, Zenon
  <2> QED
    BY <2>2, <2>3, Zenon
<1>7. ASSUME NEW c \in Calls, NEW s \in Servers, WorkerDrops(c, s) PROVE TypeInv'
  <2> DEFINE q == call[c].shares
  <2>1. Running(c) /\ s \in call[c].working
    BY <1>7, Zenon DEF WorkerDrops
  <2>2. CASE Collected(q, call[c].working \ {s})
    BY <1>7, <2>1, <2>2, TypeAfter, Zenon DEF WorkerDrops
  <2>3. CASE ~Collected(q, call[c].working \ {s})
    <3>1. /\ call' = [call EXCEPT ![c] = [call[c] EXCEPT !.working = call[c].working \ {s}]]
          /\ UNCHANGED <<transport, identity, published, history, shown, lost>>
      BY <1>7, <2>3, Zenon DEF WorkerDrops
    <3>2. q \in Seq(ShareKinds) /\ Len(q) <= Len(call[c].shares) + 1
      BY <1>0
    <3>3. [call[c] EXCEPT !.working = call[c].working \ {s}] =
            [call[c] EXCEPT !.shares = q, !.working = call[c].working \ {s}]
      BY <1>0, Zenon DEF CallRecords
    <3>4. call' = [call EXCEPT ![c] =
                     [call[c] EXCEPT !.shares = q, !.working = call[c].working \ {s}]]
      BY <3>1, <3>3, Zenon
    <3> HIDE DEF q
    <3> QED
      BY <2>1, <2>3, <3>1, <3>2, <3>4, TypeWaits, Zenon
  <2> QED
    BY <2>2, <2>3, Zenon
<1>8. ASSUME NEW c \in Calls,
             DispatchDeadline(c) \/ \E answers \in StagedAnswers : StubDispatch(c, answers)
      PROVE  TypeInv'
  <2>1. Running(c) /\ \E q : AfterDispatch(c, q)
    BY <1>8, Zenon DEF DispatchDeadline, StubDispatch
  <2> QED
    BY <2>1, TypeAfter, Zenon
<1> QED
  BY <1>1, <1>2, <1>3, <1>4, <1>5, <1>6, <1>7, <1>8, Zenon DEF Next

(* Initially.                                                               *)
LEMMA TypeInit == Init => TypeInv
<1> SUFFICES ASSUME Init PROVE TypeInv
  BY Zenon
<1>1. call \in [Calls -> CallRecords] /\ \A c \in Calls : call[c] = Idle
  BY CallTypes, Zenon DEF Init
<1>2. CallOk(Idle)
  BY CallTypes, HistoryConstants, FS_EmptySet DEF CallOk
<1>3. \A c \in Calls : CallOk(call[c])
  BY <1>1, <1>2, Zenon
<1> QED
  BY <1>1, <1>3, HistoryConstants DEF Init, TypeInv, CallOk, Running

(* A step that opens or refuses an entry had no more shares than there are  *)
(* servers; no other step says anything of an unwrap.                       *)
LEMMA Dispatched ==
    ASSUME TypeInv, [Next]_vars
    PROVE  \/ last' = last \/ last' = NoUnwrap
           \/ \E c \in Calls, shares \in Seq(ShareKinds) :
                Running(c) /\ Len(shares) <= WrapTotal /\ AfterDispatch(c, shares)
<1>0. \A c \in Calls :
        /\ call[c].working \in SUBSET Servers /\ call[c].shares \in Seq(ShareKinds)
        /\ Len(call[c].shares) \in Nat /\ Len(call[c].shares) <= WrapTotal
        /\ \A s \in call[c].working : Len(call[c].shares) < WrapTotal
  <2> SUFFICES ASSUME NEW c \in Calls
               PROVE  /\ call[c].working \in SUBSET Servers
                      /\ call[c].shares \in Seq(ShareKinds)
                      /\ Len(call[c].shares) \in Nat /\ Len(call[c].shares) <= WrapTotal
                      /\ \A s \in call[c].working : Len(call[c].shares) < WrapTotal
    BY Zenon
  <2>1. /\ call[c].working \in SUBSET Servers /\ call[c].shares \in Seq(ShareKinds)
        /\ Len(call[c].shares) + Cardinality(call[c].working) <= WrapTotal
    BY HistoryConstants, Zenon DEF TypeInv, CallRecords
  <2>2. IsFiniteSet(call[c].working) /\ Cardinality(call[c].working) \in Nat
    BY <2>1, HistoryConstants, FS_Subset, FS_CardinalityType, Zenon
  <2>3. call[c].working # {} => Cardinality(call[c].working) # 0
    BY <2>2, FS_EmptySet, Zenon
  <2>4. Len(call[c].shares) \in Nat
    BY <2>1
  <2> QED
    BY <2>1, <2>2, <2>3, <2>4, HistoryConstants
<1>1. CASE UNCHANGED vars \/ CloudPublishAtRest \/ SwapMlsKeystore
  BY <1>1, Zenon DEF vars, CloudPublishAtRest, SwapMlsKeystore
<1>2. ASSUME NEW i \in DOMAIN history, EntryDamaged(i) PROVE last' = NoUnwrap
  BY <1>2, Zenon DEF EntryDamaged
<1>3. ASSUME NEW c \in Calls, NEW since \in 0..MaxEntries, SyncStart(c, since)
      PROVE  last' = NoUnwrap
  BY <1>3, Zenon DEF SyncStart
<1>4. ASSUME NEW c \in Calls, NEW s \in Servers, NEW kind \in ShareKinds,
             ShareArrives(c, s, kind), last' # NoUnwrap
      PROVE  \E shares \in Seq(ShareKinds) :
               Running(c) /\ Len(shares) <= WrapTotal /\ AfterDispatch(c, shares)
  <2>1. /\ Append(call[c].shares, kind) \in Seq(ShareKinds)
        /\ Len(Append(call[c].shares, kind)) = Len(call[c].shares) + 1
    BY <1>0
  <2>2. Running(c) /\ s \in call[c].working /\ AfterDispatch(c, Append(call[c].shares, kind))
    BY <1>4, Zenon DEF ShareArrives
  <2>3. Len(Append(call[c].shares, kind)) <= WrapTotal
    BY <1>0, <2>1, <2>2, HistoryConstants
  <2> QED
    BY <2>1, <2>2, <2>3, Zenon
<1>5. ASSUME NEW c \in Calls,
             \/ DispatchDeadline(c)
             \/ \E s \in Servers : WorkerDrops(c, s) /\ last' # NoUnwrap
      PROVE  \E shares \in Seq(ShareKinds) :
               Running(c) /\ Len(shares) <= WrapTotal /\ AfterDispatch(c, shares)
  <2>1. Running(c) /\ AfterDispatch(c, call[c].shares)
    BY <1>5, Zenon DEF DispatchDeadline, WorkerDrops
  <2> QED
    BY <1>0, <2>1, Zenon
<1>6. ASSUME NEW c \in Calls, NEW answers \in StagedAnswers, StubDispatch(c, answers)
      PROVE  \E shares \in Seq(ShareKinds) :
               Running(c) /\ Len(shares) <= WrapTotal /\ AfterDispatch(c, shares)
  <2>1. PICK n \in 0..Cardinality(Servers) : answers \in [1..n -> ShareKinds]
    BY Zenon DEF StagedAnswers
  <2>2. answers \in Seq(ShareKinds) /\ Len(answers) = n
    BY <2>1, Tuple, HistoryConstants
  <2>3. Len(answers) <= WrapTotal
    BY <2>1, <2>2, HistoryConstants
  <2>4. Running(c) /\ AfterDispatch(c, answers)
    BY <1>6, Zenon DEF StubDispatch
  <2> QED
    BY <2>2, <2>3, <2>4, Zenon
<1> QED
  BY <1>1, <1>2, <1>3, <1>4, <1>5, <1>6, Zenon DEF Next

(* What the last unwrap said is one of its results, and exact.              *)
LastInv == last.result \in Outcomes /\ UnwrapExact

(* It stays so: the shares of a dispatch are those of UnwrapAnswers.        *)
LEMMA LastStep ==
    ASSUME TypeInv, LastInv, [Next]_vars
    PROVE  LastInv'
<1>1. CASE last' = last
  BY <1>1, Zenon DEF LastInv, UnwrapExact
<1>2. CASE last' = NoUnwrap
  BY <1>2, Zenon DEF LastInv, UnwrapExact, NoUnwrap, Outcomes
<1>3. ASSUME NEW c \in Calls, NEW shares \in Seq(ShareKinds),
             Len(shares) <= WrapTotal, AfterDispatch(c, shares)
      PROVE  LastInv'
  <2> DEFINE m == Head(call[c].todo).under = call[c].device
             r == UnwrapMessageKey(shares, m)
             g == Count(shares, "genuine")
             x == Count(shares, "tampered")
  <2>1. m \in BOOLEAN
    BY Zenon
  <2>2. last' = [genuine |-> g, tampered |-> x, matches |-> m, result |-> r]
    BY <1>3, Zenon DEF AfterDispatch
  <2>3. r = UnwrapMessageKey(shares, m)
    BY Zenon
  <2> HIDE DEF m, r
  <2>4. /\ r \in {"Ok", "InsufficientUnwrapShares", "AllSubsetsFailedUnwrap"}
        /\ (r = "Ok") <=> (g >= WrapThreshold /\ m)
        /\ (r = "InsufficientUnwrapShares") <=> (g + x < WrapThreshold)
    BY <1>3, <2>1, <2>3, UnwrapAnswers, Zenon
  <2> HIDE DEF g, x
  <2>5. last'.genuine = g /\ last'.tampered = x /\ last'.matches = m /\ last'.result = r
    BY <2>2, Zenon
  <2>6. last'.result \in Outcomes
    BY <2>4, <2>5, Zenon DEF Outcomes
  <2>7. UnwrapExact'
    BY <2>4, <2>5, Zenon DEF UnwrapExact
  <2> QED
    BY <2>6, <2>7, Zenon DEF LastInv
<1> QED
  BY <1>1, <1>2, <1>3, Dispatched, Zenon

(* The types and what the unwrap says hold in every behaviour.              *)
LEMMA Types == Spec => [](TypeInv /\ LastInv)
<1>1. Init => TypeInv /\ LastInv
  <2>1. Init => LastInv
    BY DEF Init, LastInv, UnwrapExact, NoUnwrap, Outcomes
  <2> QED
    BY <2>1, TypeInit, Zenon
<1>2. TypeInv /\ LastInv /\ [Next]_vars => (TypeInv /\ LastInv)'
  BY TypeStep, LastStep, Zenon
<1> QED
  BY <1>1, <1>2, PTL DEF Spec

(* Every value of a behaviour has its type, a running sync has workers left *)
(* and not yet EARLY_RETURN_THRESHOLD shares, and an unwrap has one of the  *)
(* three results of unwrap_message_key.                                     *)
THEOREM TypeCorrect == Spec => []TypeOK
<1>1. TypeInv /\ LastInv => TypeOK
  <2> SUFFICES ASSUME TypeInv, LastInv PROVE TypeOK
    BY Zenon
  <2>1. \A c \in Calls :
          /\ call[c].todo \in Seq(Entries) /\ call[c].device \in 0..MaxRotations
          /\ call[c].out \in Seq(Texts) /\ call[c].working \subseteq Servers
          /\ call[c].shares \in Seq(ShareKinds)
    BY Zenon DEF TypeInv, CallRecords
  <2> QED
    BY <2>1, Zenon DEF TypeInv, LastInv, TypeOK
<1> QED
  BY <1>1, Types, PTL

(* For every threshold, every number of servers and every order of good and *)
(* bad shares, the search of unwrap_message_key finds a key exactly when    *)
(* enough shares are genuine, and its errors tell why there is none.        *)
THEOREM UnwrapExactHolds == Spec => []UnwrapExact
<1>1. LastInv => UnwrapExact
  BY Zenon DEF LastInv
<1> QED
  BY <1>1, Types, PTL

-----------------------------------------------------------------------------
(* The syncs: where the texts are.                                           *)

(* The values of a sequence, and one that has each of them once.            *)
Values(s) == {s[i] : i \in 1..Len(s)}
NoRepeat(s) == \A i, j \in 1..Len(s) : s[i] = s[j] => i = j

(* Appending a new value.                                                   *)
LEMMA AppendValues ==
    ASSUME NEW T, NEW s \in Seq(T), NEW x \in T
    PROVE  /\ Values(Append(s, x)) = Values(s) \cup {x}
           /\ NoRepeat(s) /\ x \notin Values(s) => NoRepeat(Append(s, x))
<1> DEFINE q == Append(s, x)
<1>1. /\ Len(s) \in Nat /\ Len(q) = Len(s) + 1 /\ q[Len(s) + 1] = x
      /\ \A i \in 1..Len(s) : q[i] = s[i]
  OBVIOUS
<1> HIDE DEF q
<1>2. 1..Len(q) = (1..Len(s)) \cup {Len(s) + 1}
  BY <1>1
<1>3. /\ Values(q) = Values(s) \cup {x}
      /\ NoRepeat(s) /\ x \notin Values(s) => NoRepeat(q)
  BY <1>1, <1>2, SMTT(60) DEF Values, NoRepeat
<1> QED
  BY <1>3, Zenon DEF q

(* Where the values of two joined sequences are.                            *)
LEMMA Joined ==
    ASSUME NEW T, NEW s \in Seq(T), NEW u \in Seq(T)
    PROVE  /\ s \o u \in Seq(T) /\ Len(s \o u) = Len(s) + Len(u)
           /\ \A i \in 1..Len(s) : (s \o u)[i] = s[i]
           /\ \A i \in 1..Len(u) : (s \o u)[Len(s) + i] = u[i]
OBVIOUS

(* Joining two sequences.                                                   *)
LEMMA JoinValues ==
    ASSUME NEW T, NEW s \in Seq(T), NEW u \in Seq(T)
    PROVE  /\ Values(s \o u) = Values(s) \cup Values(u)
           /\ (/\ NoRepeat(s) /\ NoRepeat(u)
               /\ Values(s) \cap Values(u) = {}) => NoRepeat(s \o u)
<1> DEFINE q == s \o u
<1>1. /\ Len(s) \in Nat /\ Len(u) \in Nat /\ Len(q) = Len(s) + Len(u)
      /\ \A i \in 1..Len(s) : q[i] = s[i]
      /\ \A i \in 1..Len(u) : q[Len(s) + i] = u[i]
  OBVIOUS
<1> HIDE DEF q
<1>2. ASSUME NEW i \in 1..Len(q)
      PROVE  \/ i \in 1..Len(s) /\ q[i] = s[i]
             \/ \E k \in 1..Len(u) : i = Len(s) + k /\ q[i] = u[k]
  <2>1. CASE i \in 1..Len(s)
    BY <1>1, <2>1, Zenon
  <2>2. CASE i \notin 1..Len(s)
    <3>1. i - Len(s) \in 1..Len(u) /\ i = Len(s) + (i - Len(s))
      BY <1>1, <2>2
    <3>2. q[Len(s) + (i - Len(s))] = u[i - Len(s)]
      BY <1>1, <3>1, Zenon
    <3> QED
      BY <3>1, <3>2, Zenon
  <2> QED
    BY <2>1, <2>2, Zenon
<1>3. \A i \in 1..Len(s) : i \in 1..Len(q) /\ q[i] = s[i]
  BY <1>1
<1>4. \A i \in 1..Len(u) : Len(s) + i \in 1..Len(q) /\ q[Len(s) + i] = u[i]
  BY <1>1
<1>5. Values(q) = Values(s) \cup Values(u)
  <2>1. ASSUME NEW x \in Values(q) PROVE x \in Values(s) \cup Values(u)
    <3>1. PICK i \in 1..Len(q) : x = q[i]
      BY Zenon DEF Values
    <3> QED
      BY <1>2, <3>1, Zenon DEF Values
  <2>2. ASSUME NEW x \in Values(s) PROVE x \in Values(q)
    BY <1>3, Zenon DEF Values
  <2>3. ASSUME NEW x \in Values(u) PROVE x \in Values(q)
    BY <1>4, Zenon DEF Values
  <2> QED
    BY <2>1, <2>2, <2>3, Zenon
<1>6. ASSUME NoRepeat(s), NoRepeat(u), Values(s) \cap Values(u) = {}
      PROVE  NoRepeat(q)
  <2> SUFFICES ASSUME NEW i \in 1..Len(q), NEW j \in 1..Len(q), q[i] = q[j] PROVE i = j
    BY Zenon DEF NoRepeat
  <2>1. CASE q[i] \in Values(s)
    <3>1. q[i] \notin Values(u) /\ q[j] \notin Values(u)
      BY <1>6, <2>1, Zenon
    <3>2. i \in 1..Len(s) /\ q[i] = s[i] /\ j \in 1..Len(s) /\ q[j] = s[j]
      BY <1>2, <3>1, Zenon DEF Values
    <3> QED
      BY <1>6, <3>2, Zenon DEF NoRepeat
  <2>2. CASE q[i] \notin Values(s)
    <3>1. q[j] \notin Values(s)
      BY <2>2, Zenon
    <3>2. PICK k \in 1..Len(u) : i = Len(s) + k /\ q[i] = u[k]
      BY <1>2, <2>2, Zenon DEF Values
    <3>3. PICK l \in 1..Len(u) : j = Len(s) + l /\ q[j] = u[l]
      BY <1>2, <3>1, Zenon DEF Values
    <3>4. k = l
      BY <1>6, <3>2, <3>3, Zenon DEF NoRepeat
    <3> QED
      BY <3>2, <3>3, <3>4, Zenon
  <2> QED
    BY <2>1, <2>2, Zenon
<1> QED
  BY <1>5, <1>6, Zenon DEF q

(* Two sequences that agree everywhere are the same.                        *)
LEMMA SameSequence ==
    ASSUME NEW T, NEW s \in Seq(T), NEW u \in Seq(T), Len(s) = Len(u),
           \A i \in 1..Len(s) : s[i] = u[i]
    PROVE  s = u
OBVIOUS

(* What is kept of a history: the texts of the entries that are kept, none  *)
(* of them twice if it was not there twice.                                 *)
LEMMA KeptTexts ==
    ASSUME NEW s \in Seq(Entries), NEW S, NEW q, q = Kept(s, S)
    PROVE  /\ q \in Seq(Entries)
           /\ \A x : x \in Values(SeqTexts(q)) <=>
                     \E k \in 1..Len(s) : s[k] \in S /\ x = s[k].text
           /\ NoRepeat(SeqTexts(s)) => NoRepeat(SeqTexts(q))
<1>1. q \in Seq(Entries) /\ \E h : TakenFrom(h, q, Len(s), s, S)
  BY KeptFrom, Zenon
<1>2. PICK h : TakenFrom(h, q, Len(s), s, S)
  BY <1>1, Zenon
<1>3. /\ Len(SeqTexts(q)) = Len(q) /\ Len(SeqTexts(s)) = Len(s)
      /\ \A i \in 1..Len(q) : SeqTexts(q)[i] = q[i].text
      /\ \A i \in 1..Len(s) : SeqTexts(s)[i] = s[i].text
  BY <1>1, TextsType, Zenon
<1>4. /\ \A k \in 1..Len(q) : h[k] \in 1..Len(s) /\ q[k] = s[h[k]] /\ s[h[k]] \in S
      /\ \A k, l \in 1..Len(q) : h[k] = h[l] => k = l
      /\ \A i \in 1..Len(s) : s[i] \in S => \E k \in 1..Len(q) : h[k] = i
  BY <1>2, Zenon DEF TakenFrom
<1>5. ASSUME NEW x
      PROVE  x \in Values(SeqTexts(q)) <=> \E k \in 1..Len(s) : s[k] \in S /\ x = s[k].text
  <2>1. x \in Values(SeqTexts(q)) <=> \E i \in 1..Len(q) : x = q[i].text
    BY <1>3 DEF Values
  <2>2. ASSUME NEW i \in 1..Len(q), x = q[i].text
        PROVE  \E k \in 1..Len(s) : s[k] \in S /\ x = s[k].text
    BY <1>4, <2>2, SMTT(60)
  <2>3. ASSUME NEW k \in 1..Len(s), s[k] \in S, x = s[k].text
        PROVE  \E i \in 1..Len(q) : x = q[i].text
    <3>1. PICK i \in 1..Len(q) : h[i] = k
      BY <1>4, <2>3, Zenon
    <3> QED
      BY <1>4, <2>3, <3>1, Zenon
  <2> QED
    BY <2>1, <2>2, <2>3, Zenon
<1>6. NoRepeat(SeqTexts(s)) => NoRepeat(SeqTexts(q))
  <2> SUFFICES ASSUME NoRepeat(SeqTexts(s)), NEW i \in 1..Len(q), NEW j \in 1..Len(q),
                      q[i].text = q[j].text
               PROVE  i = j
    BY <1>3 DEF NoRepeat
  <2>1. h[i] \in 1..Len(s) /\ h[j] \in 1..Len(s) /\ s[h[i]].text = s[h[j]].text
    BY <1>4, Zenon
  <2>2. h[i] = h[j]
    BY <1>3, <2>1 DEF NoRepeat
  <2> QED
    BY <1>4, <2>2, Zenon
<1> QED
  BY <1>1, <1>5, <1>6, Zenon

(* Opening an entry moves its text from the entries to do to the opened     *)
(* ones and leaves their order.                                             *)
LEMMA OpenedKeepsTexts ==
    ASSUME NEW q \in Seq(Entries), q # << >>, NEW o \in Seq(Texts)
    PROVE  Append(o, Head(q).text) \o SeqTexts(Tail(q)) = o \o SeqTexts(q)
<1> DEFINE x == Head(q).text
           a == Append(o, x)
           b == SeqTexts(Tail(q))
           e == SeqTexts(q)
           l == a \o b
           r == o \o e
<1>1. /\ Len(q) \in Nat /\ Len(q) > 0 /\ Head(q) = q[1] /\ Head(q) \in Entries
      /\ Tail(q) \in Seq(Entries) /\ Len(Tail(q)) = Len(q) - 1
      /\ \A i \in 1..(Len(q) - 1) : Tail(q)[i] = q[i + 1]
  BY HeadTail, Zenon
<1>2. x \in Texts /\ x = q[1].text
  BY <1>1, Zenon DEF Entries
<1>3. /\ e \in Seq(Texts) /\ Len(e) = Len(q) /\ \A i \in 1..Len(q) : e[i] = q[i].text
  BY TextsType, Zenon
<1>4. /\ b \in Seq(Texts) /\ Len(b) = Len(q) - 1
      /\ \A i \in 1..(Len(q) - 1) : b[i] = Tail(q)[i].text
  BY <1>1, TextsType, Zenon
<1>5. \A i \in 1..(Len(q) - 1) : b[i] = e[i + 1]
  <2> TAKE i \in 1..(Len(q) - 1)
  <2>1. i + 1 \in 1..Len(q)
    BY <1>1
  <2> QED
    BY <1>1, <1>3, <1>4, <2>1, Zenon
<1>6. 1 \in 1..Len(q) /\ e[1] = x
  BY <1>1, <1>2, <1>3
<1> HIDE DEF x, b, e
<1>7. /\ a \in Seq(Texts) /\ Len(a) = Len(o) + 1 /\ a[Len(o) + 1] = x /\ Len(o) \in Nat
      /\ \A i \in 1..Len(o) : a[i] = o[i]
  BY <1>2
<1> HIDE DEF a
<1>8. /\ l \in Seq(Texts) /\ Len(l) = Len(o) + Len(q)
      /\ \A i \in 1..(Len(o) + 1) : l[i] = a[i]
      /\ \A i \in 1..(Len(q) - 1) : l[Len(o) + 1 + i] = b[i]
  <2>0. a \in Seq(Texts) /\ b \in Seq(Texts) /\ l = a \o b
    BY <1>4, <1>7, Zenon
  <2> HIDE DEF l
  <2>1. /\ l \in Seq(Texts) /\ Len(l) = Len(a) + Len(b)
        /\ \A i \in 1..Len(a) : l[i] = a[i]
        /\ \A i \in 1..Len(b) : l[Len(a) + i] = b[i]
    BY <2>0, Joined
  <2>2. Len(a) + Len(b) = Len(o) + Len(q)
    BY <1>1, <1>4, <1>7
  <2> QED
    BY <1>4, <1>7, <2>1, <2>2, Zenon
<1>9. /\ r \in Seq(Texts) /\ Len(r) = Len(o) + Len(q)
      /\ \A i \in 1..Len(o) : r[i] = o[i]
      /\ \A i \in 1..Len(q) : r[Len(o) + i] = e[i]
  <2>1. o \in Seq(Texts) /\ e \in Seq(Texts) /\ r = o \o e
    BY <1>3, Zenon
  <2> HIDE DEF r
  <2>2. /\ r \in Seq(Texts) /\ Len(r) = Len(o) + Len(e)
        /\ \A i \in 1..Len(o) : r[i] = o[i]
        /\ \A i \in 1..Len(e) : r[Len(o) + i] = e[i]
    BY <2>1, Joined
  <2> QED
    BY <1>3, <2>2, Zenon
<1> HIDE DEF l, r
<1>10. ASSUME NEW i \in 1..Len(l) PROVE l[i] = r[i]
  <2>0. i \in Nat /\ 1 <= i /\ i <= Len(o) + Len(q)
    BY <1>1, <1>7, <1>8
  <2>1. CASE i <= Len(o)
    BY <1>1, <1>7, <1>8, <1>9, <2>0, <2>1
  <2>2. CASE i = Len(o) + 1
    BY <1>1, <1>6, <1>7, <1>8, <1>9, <2>2
  <2>3. CASE i > Len(o) + 1
    <3> DEFINE k == i - Len(o) - 1
    <3>1. k \in 1..(Len(q) - 1) /\ k + 1 \in 1..Len(q) /\ i = Len(o) + 1 + k
          /\ i = Len(o) + (k + 1)
      BY <1>1, <1>7, <2>0, <2>3
    <3> HIDE DEF k
    <3>2. l[i] = b[k]
      BY <1>8, <3>1, Zenon
    <3>3. r[i] = e[k + 1]
      BY <1>9, <3>1, Zenon
    <3> QED
      BY <1>5, <3>1, <3>2, <3>3, Zenon
  <2> QED
    BY <1>7, <2>0, <2>1, <2>2, <2>3
<1>11. l = r
  BY <1>8, <1>9, <1>10, SameSequence, Zenon
<1> QED
  BY <1>11, Zenon DEF l, r, a, b, e, x

-----------------------------------------------------------------------------
(* The texts up to n are shared out: A of them are at the postman, B were   *)
(* shown, L are lost and V[c] are with the sync c.                          *)
SharedOut(A, B, L, V, n) ==
    /\ A \cap B = {} /\ A \cap L = {} /\ B \cap L = {}
    /\ \A c \in Calls : V[c] \cap A = {} /\ V[c] \cap B = {} /\ V[c] \cap L = {}
    /\ \A c, d \in Calls : c # d => V[c] \cap V[d] = {}
    /\ \A x : x \in 1..n <=> x \in A \/ x \in B \/ x \in L \/ \E c \in Calls : x \in V[c]

(* One more text.                                                           *)
LEMMA SharedOutMore ==
    ASSUME NEW A, NEW B, NEW L, NEW V, NEW n \in Nat, SharedOut(A, B, L, V, n)
    PROVE  n + 1 \notin A /\ SharedOut(A \cup {n + 1}, B, L, V, n + 1)
<1>1. n + 1 \notin 1..n /\ \A x : x \in 1..(n + 1) <=> x \in 1..n \/ x = n + 1
  OBVIOUS
<1>2. n + 1 \notin A /\ n + 1 \notin B /\ n + 1 \notin L /\ \A c \in Calls : n + 1 \notin V[c]
  BY <1>1, Zenon DEF SharedOut
<1> DEFINE m == n + 1
           M == A \cup {m}
<1> HIDE DEF m
<1>3. \A x : x \in M <=> x \in A \/ x = m
  BY Zenon
<1>4. /\ M \cap B = {} /\ M \cap L = {} /\ B \cap L = {}
      /\ \A c \in Calls : V[c] \cap M = {} /\ V[c] \cap B = {} /\ V[c] \cap L = {}
      /\ \A c, d \in Calls : c # d => V[c] \cap V[d] = {}
  BY <1>2 DEF SharedOut, m
<1>5. \A x : x \in 1..m <=> x \in M \/ x \in B \/ x \in L \/ \E c \in Calls : x \in V[c]
  <2>1. \A x : x \in 1..m <=> x \in 1..n \/ x = m
    BY <1>1, Zenon DEF m
  <2>2. \A x : x \in 1..n <=> x \in A \/ x \in B \/ x \in L \/ \E c \in Calls : x \in V[c]
    BY Zenon DEF SharedOut
  <2> HIDE DEF M
  <2> QED
    BY <1>3, <2>1, <2>2, Zenon
<1>6. SharedOut(M, B, L, V, m)
  BY <1>4, <1>5, Zenon DEF SharedOut
<1> QED
  BY <1>2, <1>6, Zenon DEF m

(* A sync takes some of the postman's texts.                                *)
LEMMA SharedOutTaken ==
    ASSUME NEW A, NEW B, NEW L, NEW V, NEW n, SharedOut(A, B, L, V, n),
           NEW c \in Calls, V[c] = {}, NEW K, NEW D, K \cup D = A, K \cap D = {},
           NEW W, W[c] = D, \A d \in Calls : d # c => W[d] = V[d]
    PROVE  SharedOut(K, B, L, W, n)
<1>1. \A x : x \in A <=> x \in K \/ x \in D
  BY Zenon
<1>2. /\ K \cap B = {} /\ K \cap L = {} /\ B \cap L = {}
  BY <1>1, Zenon DEF SharedOut
<1>3. ASSUME NEW d \in Calls PROVE W[d] \cap K = {} /\ W[d] \cap B = {} /\ W[d] \cap L = {}
  BY <1>1, Zenon DEF SharedOut
<1>4. ASSUME NEW d \in Calls, NEW e \in Calls, d # e PROVE W[d] \cap W[e] = {}
  BY <1>1, <1>4 DEF SharedOut
<1>5. ASSUME NEW x
      PROVE  x \in 1..n <=> x \in K \/ x \in B \/ x \in L \/ \E d \in Calls : x \in W[d]
  <2>1. (\E d \in Calls : x \in W[d]) <=> (x \in D \/ \E d \in Calls : x \in V[d])
    BY Zenon
  <2> QED
    BY <1>1, <2>1, Zenon DEF SharedOut
<1> QED
  BY <1>2, <1>3, <1>4, <1>5, Zenon DEF SharedOut

(* A sync's texts are shown, or lost.                                       *)
LEMMA SharedOutGiven ==
    ASSUME NEW A, NEW B, NEW L, NEW V, NEW n, SharedOut(A, B, L, V, n),
           NEW c \in Calls, NEW W, W[c] = {}, \A d \in Calls : d # c => W[d] = V[d]
    PROVE  /\ B \cap V[c] = {}
           /\ SharedOut(A, B \cup V[c], L, W, n) /\ SharedOut(A, B, L \cup V[c], W, n)
<1>1. \A d \in Calls : W[d] \subseteq V[d] /\ W[d] \cap V[c] = {}
  BY Zenon DEF SharedOut
<1>2. \A x : (\E d \in Calls : x \in V[d]) <=> (x \in V[c] \/ \E d \in Calls : x \in W[d])
  BY Zenon
<1>3. SharedOut(A, B \cup V[c], L, W, n)
  <2>1. /\ A \cap (B \cup V[c]) = {} /\ A \cap L = {} /\ (B \cup V[c]) \cap L = {}
    BY Zenon DEF SharedOut
  <2>2. ASSUME NEW d \in Calls
        PROVE  W[d] \cap A = {} /\ W[d] \cap (B \cup V[c]) = {} /\ W[d] \cap L = {}
    BY <1>1 DEF SharedOut
  <2>3. ASSUME NEW d \in Calls, NEW e \in Calls, d # e PROVE W[d] \cap W[e] = {}
    BY <1>1, <2>3, Zenon DEF SharedOut
  <2>4. ASSUME NEW x
        PROVE  x \in 1..n <=> x \in A \/ x \in (B \cup V[c]) \/ x \in L \/ \E d \in Calls : x \in W[d]
    BY <1>2, Zenon DEF SharedOut
  <2> QED
    BY <2>1, <2>2, <2>3, <2>4, Zenon DEF SharedOut
<1>4. SharedOut(A, B, L \cup V[c], W, n)
  <2>1. /\ A \cap (L \cup V[c]) = {} /\ A \cap B = {} /\ B \cap (L \cup V[c]) = {}
    BY Zenon DEF SharedOut
  <2>2. ASSUME NEW d \in Calls
        PROVE  W[d] \cap A = {} /\ W[d] \cap (L \cup V[c]) = {} /\ W[d] \cap B = {}
    BY <1>1, Zenon DEF SharedOut
  <2>3. ASSUME NEW d \in Calls, NEW e \in Calls, d # e PROVE W[d] \cap W[e] = {}
    BY <1>1, <2>3, Zenon DEF SharedOut
  <2>4. ASSUME NEW x
        PROVE  x \in 1..n <=> x \in A \/ x \in B \/ x \in (L \cup V[c]) \/ \E d \in Calls : x \in W[d]
    BY <1>2, Zenon DEF SharedOut
  <2> QED
    BY <2>1, <2>2, <2>3, <2>4, Zenon DEF SharedOut
<1> QED
  BY <1>3, <1>4, Zenon DEF SharedOut

-----------------------------------------------------------------------------
Stored == Values(SeqTexts(history))
Held(c) == Values(CallTexts(c))

(* The texts are shared out, and no place has one of them twice.            *)
OnceInv ==
    /\ SharedOut(Stored, Values(shown), lost, [c \in Calls |-> Held(c)], published)
    /\ NoRepeat(SeqTexts(history)) /\ NoRepeat(shown)
    /\ \A c \in Calls : NoRepeat(CallTexts(c))

(* No entries have no texts.                                                *)
LEMMA NoTexts == << >> \o SeqTexts(<< >>) = << >>
<1>1. << >> \in Seq(Entries) /\ Len(<< >>) = 0
  OBVIOUS
<1>2. SeqTexts(<< >>) \in Seq(Texts) /\ Len(SeqTexts(<< >>)) = 0
  BY <1>1, TextsType, Zenon
<1>3. SeqTexts(<< >>) = << >>
  BY <1>2
<1> QED
  BY <1>3

(* The texts of a sync are texts.                                           *)
LEMMA CallTextsType ==
    ASSUME TypeInv, NEW c \in Calls
    PROVE  CallTexts(c) \in Seq(Texts) /\ (~Running(c) => CallTexts(c) = << >>)
<1>1. call[c].out \in Seq(Texts) /\ call[c].todo \in Seq(Entries)
  BY Zenon DEF TypeInv, CallRecords
<1>2. CallTexts(c) \in Seq(Texts)
  BY <1>1, TextsType DEF CallTexts
<1>3. ~Running(c) => call[c].out = << >> /\ call[c].todo = << >>
  BY Zenon DEF TypeInv, Running
<1> QED
  BY <1>2, <1>3, NoTexts, Zenon DEF CallTexts

(* The empty sequence.                                                      *)
LEMMA EmptyValues == Values(<< >>) = {} /\ NoRepeat(<< >>)
BY DEF Values, NoRepeat

(* A dispatch that ends moves texts and neither drops nor doubles one.      *)
LEMMA OnceAfter ==
    ASSUME TypeInv, TypeInv', OnceInv, NEW c \in Calls, Running(c), NEW shares,
           AfterDispatch(c, shares)
    PROVE  OnceInv'
<1> DEFINE V == [d \in Calls |-> Held(d)]
           W == [d \in Calls |-> Held(d)']
<1>1. /\ GoesOn(c) \/ Returns(c) \/ Fails(c)
      /\ \A d \in Calls : d # c => call'[d] = call[d]
      /\ UNCHANGED <<transport, identity, published, history>>
  BY AfterDispatchCases, Zenon
<1>2. \A d \in Calls : d # c => CallTexts(d)' = CallTexts(d) /\ Held(d)' = Held(d)
  BY <1>1, Zenon DEF CallTexts, Held
<1>3. Stored' = Stored /\ SeqTexts(history)' = SeqTexts(history) /\ published' = published
  BY <1>1, Zenon DEF Stored
<1>4. SharedOut(Stored, Values(shown), lost, V, published)
  BY Zenon DEF OnceInv
<1>5. W[c] = Held(c)' /\ V[c] = Held(c) /\ \A d \in Calls : d # c => W[d] = V[d]
  BY <1>2, Zenon
<1>6. /\ call[c].todo \in Seq(Entries) /\ call[c].todo # << >> /\ call[c].out \in Seq(Texts)
      /\ CallTexts(c) \in Seq(Texts)
  BY CallTextsType, Zenon DEF TypeInv, CallRecords, Running
<1>7. CASE GoesOn(c)
  <2>1. CallTexts(c)' = CallTexts(c)
    <3>1. /\ call'[c].out = Append(call[c].out, Head(call[c].todo).text)
          /\ call'[c].todo = Tail(call[c].todo)
      BY <1>7 DEF GoesOn, Dispatching
    <3>2. CallTexts(c)' = Append(call[c].out, Head(call[c].todo).text)
                            \o SeqTexts(Tail(call[c].todo))
      BY <3>1, Zenon DEF CallTexts
    <3> QED
      BY <1>6, <3>2, OpenedKeepsTexts, Zenon DEF CallTexts
  <2>2. \A d \in Calls : CallTexts(d)' = CallTexts(d) /\ Held(d)' = Held(d)
    BY <1>2, <2>1, Zenon DEF Held
  <2>3. W = V
    BY <2>2, Zenon
  <2>4. shown' = shown /\ lost' = lost
    BY <1>7, Zenon DEF GoesOn
  <2> QED
    BY <1>3, <2>2, <2>3, <2>4, Zenon DEF OnceInv
<1>8. CASE call'[c] = Idle
  <2>1. CallTexts(c)' = << >> /\ Held(c)' = {}
    <3>1. call'[c].out = << >> /\ call'[c].todo = << >>
      BY <1>8 DEF Idle
    <3>2. CallTexts(c)' = << >>
      BY <3>1, NoTexts, Zenon DEF CallTexts
    <3> QED
      BY <3>2, EmptyValues, Zenon DEF Held
  <2>2. /\ Values(shown) \cap V[c] = {}
        /\ SharedOut(Stored, Values(shown) \cup V[c], lost, W, published)
        /\ SharedOut(Stored, Values(shown), lost \cup V[c], W, published)
    <3> HIDE DEF V, W
    <3> QED
      BY <1>4, <1>5, <2>1, SharedOutGiven, Zenon
  <2>3. \A d \in Calls : NoRepeat(CallTexts(d)')
    BY <1>2, <2>1, EmptyValues, Zenon DEF OnceInv
  <2>4. CASE Returns(c)
    <3>1. shown' = shown \o CallTexts(c)
      <4> DEFINE q == call[c].todo
                 o == Append(call[c].out, Head(q).text)
      <4>1. Len(q) = 1 /\ shown' = shown \o o
        BY <2>4, Zenon DEF Returns
      <4>2. o \o SeqTexts(Tail(q)) = CallTexts(c)
        BY <1>6, OpenedKeepsTexts, Zenon DEF CallTexts
      <4>3. Tail(q) \in Seq(Entries) /\ Len(Tail(q)) = 0
        <5>1. Tail(q) \in Seq(Entries) /\ Len(Tail(q)) = Len(q) - 1
          BY <1>6, HeadTail, Zenon
        <5> QED
          BY <4>1, <5>1
      <4>4. SeqTexts(Tail(q)) \in Seq(Texts) /\ Len(SeqTexts(Tail(q))) = 0
        BY <4>3, TextsType, Zenon
      <4>5. SeqTexts(Tail(q)) = << >>
        BY <4>4
      <4>6. o \in Seq(Texts)
        <5>1. Head(q) \in Entries
          BY <1>6, HeadTail, Zenon
        <5>2. Head(q).text \in Texts
          BY <5>1, Zenon DEF Entries
        <5> QED
          BY <1>6, <5>2
      <4> HIDE DEF o
      <4>7. o \o << >> = o
        BY <4>6
      <4> QED
        BY <4>1, <4>2, <4>5, <4>7, Zenon
    <3>2. Values(shown') = Values(shown) \cup Held(c) /\ NoRepeat(shown')
      <4>1. shown \in Seq(Texts) /\ CallTexts(c) \in Seq(Texts)
        BY <1>6, Zenon DEF TypeInv
      <4>2. NoRepeat(shown) /\ NoRepeat(CallTexts(c))
        BY Zenon DEF OnceInv
      <4>3. Values(shown) \cap Values(CallTexts(c)) = {}
        BY <1>5, <2>2, Zenon DEF Held
      <4> QED
        BY <3>1, <4>1, <4>2, <4>3, JoinValues DEF Held
    <3>3. lost' = lost
      BY <2>4, Zenon DEF Returns
    <3> QED
      BY <1>3, <1>5, <2>2, <2>3, <3>2, <3>3, Zenon DEF OnceInv
  <2>5. CASE Fails(c)
    <3>1. shown' = shown /\ lost' = lost \cup {CallTexts(c)[i] : i \in DOMAIN CallTexts(c)}
      BY <2>5, Zenon DEF Fails
    <3>2. lost' = lost \cup Held(c)
      BY <1>6, <3>1 DEF Held, Values
    <3> QED
      BY <1>3, <1>5, <2>2, <2>3, <3>1, <3>2, Zenon DEF OnceInv
  <2>6. Returns(c) \/ Fails(c) \/ GoesOn(c)
    BY <1>1, Zenon
  <2> QED
    BY <1>7, <2>4, <2>5, <2>6, Zenon
<1> QED
  BY <1>1, <1>7, <1>8, Zenon DEF Returns, Fails

(* A step that leaves every sync's texts, what was shown and what was lost  *)
(* alone has to look after the postman's texts only.                        *)
LEMMA OnceKeeps ==
    ASSUME OnceInv, \A c \in Calls : CallTexts(c)' = CallTexts(c),
           shown' = shown, lost' = lost, NoRepeat(SeqTexts(history)'),
           \A V : SharedOut(Stored, Values(shown), lost, V, published) =>
                  SharedOut(Stored', Values(shown), lost, V, published')
    PROVE  OnceInv'
<1> DEFINE V == [d \in Calls |-> Held(d)]
           W == [d \in Calls |-> Held(d)']
<1>1. W = V
  BY Zenon DEF Held
<1>2. SharedOut(Stored, Values(shown), lost, V, published)
  BY Zenon DEF OnceInv
<1>3. SharedOut(Stored', Values(shown), lost, V, published')
  <2> HIDE DEF V
  <2> QED
    BY <1>2, Zenon
<1> QED
  BY <1>1, <1>3, Zenon DEF OnceInv

(* Every step keeps the texts shared out.                                   *)
LEMMA OnceStep ==
    ASSUME TypeInv, OnceInv, [Next]_vars
    PROVE  OnceInv'
<1>0. /\ history \in Seq(Entries) /\ published \in 0..MaxEntries
      /\ SeqTexts(history) \in Seq(Texts)
      /\ DOMAIN history = 1..Len(history) /\ Len(SeqTexts(history)) = Len(history)
  BY TextsType DEF TypeInv
<1>1. CASE UNCHANGED vars
  <2>1. /\ \A c \in Calls : CallTexts(c)' = CallTexts(c)
        /\ shown' = shown /\ lost' = lost /\ history' = history /\ published' = published
    BY <1>1, Zenon DEF vars, CallTexts
  <2>2. Stored' = Stored /\ NoRepeat(SeqTexts(history)')
    BY <2>1, Zenon DEF Stored, OnceInv
  <2> QED
    BY <2>1, <2>2, OnceKeeps, Zenon
<1>2. CASE CloudPublishAtRest
  <2> DEFINE n == published + 1
             e == [text |-> n, under |-> identity, intact |-> TRUE]
  <2>1. /\ history' = Append(history, e) /\ published' = n /\ n \in Texts /\ published \in Nat
        /\ shown' = shown /\ lost' = lost /\ \A c \in Calls : CallTexts(c)' = CallTexts(c)
    BY <1>0, <1>2, HistoryConstants DEF CloudPublishAtRest, CallTexts, Texts
  <2>2. e \in Entries /\ e.text = n
    BY <2>1, Zenon DEF Entries, TypeInv
  <2>3. SeqTexts(history)' = Append(SeqTexts(history), n)
    <3> HIDE DEF e, n
    <3>1. history' \in Seq(Entries) /\ Len(history') = Len(history) + 1
      BY <1>0, <2>1, <2>2
    <3>2. /\ SeqTexts(history') \in Seq(Texts) /\ Len(SeqTexts(history')) = Len(history) + 1
          /\ \A i \in 1..(Len(history) + 1) : SeqTexts(history')[i] = history'[i].text
      BY <3>1, TextsType, Zenon
    <3>3. /\ \A i \in 1..Len(history) : history'[i] = history[i]
          /\ history'[Len(history) + 1] = e
      BY <1>0, <2>1, <2>2
    <3>4. \A i \in 1..Len(history) : SeqTexts(history)[i] = history[i].text
      BY <1>0, TextsType, Zenon
    <3> DEFINE a == Append(SeqTexts(history), n)
    <3>5. /\ a \in Seq(Texts) /\ Len(a) = Len(history) + 1 /\ a[Len(history) + 1] = n
          /\ \A i \in 1..Len(history) : a[i] = SeqTexts(history)[i]
      BY <1>0, <2>1
    <3> HIDE DEF a
    <3>6. Len(history) \in Nat
      BY <1>0
    <3>7. \A i \in 1..(Len(history) + 1) : SeqTexts(history')[i] = a[i]
      <4> TAKE i \in 1..(Len(history) + 1)
      <4>1. i \in 1..Len(history) \/ i = Len(history) + 1
        BY <3>6
      <4> QED
        BY <2>2, <3>2, <3>3, <3>4, <3>5, <4>1, Zenon
    <3>8. SeqTexts(history') = a
      BY <3>2, <3>5, <3>7, SameSequence, Zenon
    <3> QED
      BY <3>8, Zenon DEF a
  <2> HIDE DEF e, n
  <2>4. /\ Stored' = Stored \cup {n}
        /\ n \notin Stored => NoRepeat(SeqTexts(history)')
    <3> DEFINE old == SeqTexts(history)
               new == SeqTexts(history)'
    <3>1. old \in Seq(Texts) /\ n \in Texts /\ new = Append(old, n) /\ NoRepeat(old)
      BY <1>0, <2>1, <2>3, Zenon DEF OnceInv
    <3> HIDE DEF old, new
    <3>2. Values(new) = Values(old) \cup {n} /\ (n \notin Values(old) => NoRepeat(new))
      BY <3>1, AppendValues
    <3> QED
      BY <3>2, Zenon DEF Stored, old, new
  <2>5. \A V : SharedOut(Stored, Values(shown), lost, V, published) =>
               n \notin Stored /\ SharedOut(Stored', Values(shown), lost, V, published')
    BY <2>1, <2>4, SharedOutMore, Zenon DEF n
  <2>6. n \notin Stored
    BY <2>5, Zenon DEF OnceInv
  <2> QED
    BY <2>1, <2>4, <2>5, <2>6, OnceKeeps, Zenon
<1>3. CASE SwapMlsKeystore
  <2>1. /\ \A c \in Calls : CallTexts(c)' = CallTexts(c)
        /\ shown' = shown /\ lost' = lost /\ history' = history /\ published' = published
    BY <1>3, Zenon DEF SwapMlsKeystore, CallTexts
  <2>2. Stored' = Stored /\ NoRepeat(SeqTexts(history)')
    BY <2>1, Zenon DEF Stored, OnceInv
  <2> QED
    BY <2>1, <2>2, OnceKeeps, Zenon
<1>4. ASSUME NEW i \in DOMAIN history, EntryDamaged(i) PROVE OnceInv'
  <2>1. /\ \A c \in Calls : CallTexts(c)' = CallTexts(c)
        /\ shown' = shown /\ lost' = lost /\ published' = published
        /\ history' = [history EXCEPT ![i] = [history[i] EXCEPT !.intact = FALSE]]
    BY <1>4, Zenon DEF EntryDamaged, CallTexts
  <2>2. \A k \in DOMAIN history : history[k] \in Entries
    BY <1>0
  <2>3. DOMAIN history' = DOMAIN history /\ \A k \in DOMAIN history : history'[k].text = history[k].text
    BY <2>1, <2>2, Zenon DEF Entries
  <2>4. SeqTexts(history') = SeqTexts(history)
    BY <2>3, Zenon DEF SeqTexts
  <2>5. Stored' = Stored /\ NoRepeat(SeqTexts(history)')
    BY <2>4, Zenon DEF Stored, OnceInv
  <2> QED
    BY <2>1, <2>5, OnceKeeps, Zenon
<1>5. ASSUME NEW c \in Calls, NEW since \in 0..MaxEntries, SyncStart(c, since) PROVE OnceInv'
  <2> DEFINE drained == Kept(history, {x \in Entries : x.text > since})
             kept == Kept(history, {x \in Entries : x.text <= since})
             V == [d \in Calls |-> Held(d)]
             W == [d \in Calls |-> Held(d)']
  <2>1. /\ ~Running(c) /\ history' = kept
        /\ call' = [call EXCEPT ![c] = Dispatching(drained, identity, << >>)]
        /\ UNCHANGED <<transport, identity, published, shown, lost>>
    BY <1>5, Zenon DEF SyncStart, DrainCloudHistory
  <2>2. drained = Kept(history, {x \in Entries : x.text > since})
    BY Zenon
  <2>3. kept = Kept(history, {x \in Entries : x.text <= since})
    BY Zenon
  <2> HIDE DEF drained, kept
  <2>4. /\ drained \in Seq(Entries) /\ NoRepeat(SeqTexts(drained))
        /\ \A x : x \in Values(SeqTexts(drained)) <=>
                  \E k \in 1..Len(history) :
                    history[k] \in {e \in Entries : e.text > since} /\ x = history[k].text
    BY <1>0, <2>2, KeptTexts, SMTT(60) DEF OnceInv
  <2>5. /\ NoRepeat(SeqTexts(kept))
        /\ \A x : x \in Values(SeqTexts(kept)) <=>
                  \E k \in 1..Len(history) :
                    history[k] \in {e \in Entries : e.text <= since} /\ x = history[k].text
    BY <1>0, <2>3, KeptTexts DEF OnceInv
  <2>6. /\ Values(SeqTexts(kept)) \cup Values(SeqTexts(drained)) = Stored
        /\ Values(SeqTexts(kept)) \cap Values(SeqTexts(drained)) = {}
    <3>1. \A i \in 1..Len(history) : /\ history[i] \in Entries /\ history[i].text \in Nat
                                     /\ SeqTexts(history)[i] = history[i].text
      BY <1>0, TextsType DEF Texts
    <3>2. Stored = {history[i].text : i \in 1..Len(history)}
      BY <1>0, <3>1, Zenon DEF Stored, Values
    <3>3. since \in Nat /\ \A n \in Nat : (n > since <=> ~(n <= since))
      BY HistoryConstants
    <3>4. Values(SeqTexts(drained)) = {x \in Stored : x > since}
      BY <2>4, <3>1, <3>2, Zenon
    <3>5. Values(SeqTexts(kept)) = {x \in Stored : x <= since}
      BY <2>5, <3>1, <3>2, Zenon
    <3>6. \A x \in Stored : x \in Nat
      BY <3>1, <3>2, Zenon
    <3> QED
      BY <3>3, <3>4, <3>5, <3>6, Zenon
  <2>7. CallTexts(c)' = SeqTexts(drained)
    <3>1. call'[c].out = << >> /\ call'[c].todo = drained
      BY <2>1, Zenon DEF Dispatching, TypeInv
    <3>2. SeqTexts(drained) \in Seq(Texts)
      BY <2>4, TextsType, Zenon
    <3>3. CallTexts(c)' = << >> \o SeqTexts(drained)
      BY <3>1, Zenon DEF CallTexts
    <3>4. \A s \in Seq(Texts) : << >> \o s = s
      OBVIOUS
    <3> QED
      BY <3>2, <3>3, <3>4, Zenon
  <2>8. \A d \in Calls : d # c => CallTexts(d)' = CallTexts(d)
    BY <2>1, Zenon DEF CallTexts, TypeInv
  <2>9. V[c] = {} /\ W[c] = Values(SeqTexts(drained)) /\ \A d \in Calls : d # c => W[d] = V[d]
    BY <2>1, <2>7, <2>8, CallTextsType, EmptyValues, Zenon DEF Held
  <2>10. SharedOut(Stored, Values(shown), lost, V, published)
    BY Zenon DEF OnceInv
  <2>11. SharedOut(Values(SeqTexts(kept)), Values(shown), lost, W, published)
    <3> HIDE DEF V, W
    <3> QED
      BY <2>6, <2>9, <2>10, SharedOutTaken, ZenonT(60)
  <2>12. Stored' = Values(SeqTexts(kept)) /\ NoRepeat(SeqTexts(history)')
    BY <2>1, <2>5, Zenon DEF Stored
  <2>13. \A d \in Calls : NoRepeat(CallTexts(d)')
    BY <2>4, <2>7, <2>8, Zenon DEF OnceInv
  <2> QED
    BY <2>1, <2>11, <2>12, <2>13, Zenon DEF OnceInv
<1>6. ASSUME NEW c \in Calls, Running(c),
             call'[c].out = call[c].out, call'[c].todo = call[c].todo,
             \A d \in Calls : d # c => call'[d] = call[d],
             UNCHANGED <<transport, identity, published, history, shown, lost>>
      PROVE  OnceInv'
  <2>1. \A d \in Calls : CallTexts(d)' = CallTexts(d)
    BY <1>6, Zenon DEF CallTexts
  <2>2. Stored' = Stored /\ NoRepeat(SeqTexts(history)')
    BY <1>6, Zenon DEF Stored, OnceInv
  <2> QED
    BY <1>6, <2>1, <2>2, OnceKeeps, Zenon
<1>7. TypeInv'
  BY TypeStep, Zenon
<1>8. ASSUME NEW c \in Calls, Running(c), NEW shares, AfterDispatch(c, shares)
      PROVE  OnceInv'
  BY <1>7, <1>8, OnceAfter, Zenon
<1>9. ASSUME NEW c \in Calls, NEW s \in Servers, NEW kind \in ShareKinds,
             ShareArrives(c, s, kind)
      PROVE  OnceInv'
  <2>1. CASE Collected(Append(call[c].shares, kind), call[c].working \ {s})
    BY <1>8, <1>9, <2>1, Zenon DEF ShareArrives
  <2>2. CASE ~Collected(Append(call[c].shares, kind), call[c].working \ {s})
    <3>1. /\ call'[c].out = call[c].out /\ call'[c].todo = call[c].todo /\ Running(c)
          /\ \A d \in Calls : d # c => call'[d] = call[d]
          /\ UNCHANGED <<transport, identity, published, history, shown, lost>>
      BY <1>9, <2>2, Zenon DEF ShareArrives, TypeInv, CallRecords
    <3> QED
      BY <1>6, <3>1, Zenon
  <2> QED
    BY <2>1, <2>2, Zenon
<1>10. ASSUME NEW c \in Calls, NEW s \in Servers, WorkerDrops(c, s) PROVE OnceInv'
  <2>1. CASE Collected(call[c].shares, call[c].working \ {s})
    BY <1>8, <1>10, <2>1, Zenon DEF WorkerDrops
  <2>2. CASE ~Collected(call[c].shares, call[c].working \ {s})
    <3>1. /\ call'[c].out = call[c].out /\ call'[c].todo = call[c].todo /\ Running(c)
          /\ \A d \in Calls : d # c => call'[d] = call[d]
          /\ UNCHANGED <<transport, identity, published, history, shown, lost>>
      BY <1>10, <2>2, Zenon DEF WorkerDrops, TypeInv, CallRecords
    <3> QED
      BY <1>6, <3>1, Zenon
  <2> QED
    BY <2>1, <2>2, Zenon
<1>11. ASSUME NEW c \in Calls,
              DispatchDeadline(c) \/ \E answers \in StagedAnswers : StubDispatch(c, answers)
       PROVE  OnceInv'
  <2>1. Running(c) /\ \E q : AfterDispatch(c, q)
    BY <1>11, Zenon DEF DispatchDeadline, StubDispatch
  <2> QED
    BY <1>8, <2>1, Zenon
<1> QED
  BY <1>1, <1>2, <1>3, <1>4, <1>5, <1>9, <1>10, <1>11, Zenon DEF Next

(* Initially there is no text.                                              *)
LEMMA OnceInit == Init => OnceInv
<1> SUFFICES ASSUME Init PROVE OnceInv
  BY Zenon
<1>1. \A c \in Calls : CallTexts(c) = << >> /\ Held(c) = {}
  <2>1. \A c \in Calls : call[c].out = << >> /\ call[c].todo = << >>
    BY Zenon DEF Init, Idle
  <2> QED
    BY <2>1, NoTexts, EmptyValues, Zenon DEF CallTexts, Held
<1>2. SeqTexts(history) = << >> /\ Stored = {}
  <2>1. SeqTexts(history) = << >>
    BY DEF Init, SeqTexts
  <2> QED
    BY <2>1, EmptyValues, Zenon DEF Stored
<1>3. shown = << >> /\ lost = {} /\ published = 0
  BY Zenon DEF Init
<1>4. SharedOut({}, {}, {}, [c \in Calls |-> Held(c)], 0)
  BY <1>1 DEF SharedOut
<1> QED
  BY <1>1, <1>2, <1>3, <1>4, EmptyValues, Zenon DEF OnceInv

(* A set whose members are all the same has one or none.                    *)
LEMMA OneOrNone ==
    ASSUME NEW S, \A a, b \in S : a = b
    PROVE  Cardinality(S) = IF S = {} THEN 0 ELSE 1
<1>1. CASE S = {}
  BY <1>1, FS_EmptySet, Zenon
<1>2. CASE S # {}
  <2>1. PICK a \in S : TRUE
    BY <1>2, Zenon
  <2>2. S = {a}
    BY <2>1, Zenon
  <2> QED
    BY <1>2, <2>2, FS_Singleton, Zenon
<1> QED
  BY <1>1, <1>2, Zenon

(* A text in a sequence that has nothing twice is at one of its places.     *)
LEMMA PlaceOf ==
    ASSUME NEW T, NEW s \in Seq(T), NoRepeat(s), NEW x
    PROVE  Cardinality({i \in DOMAIN s : s[i] = x}) = IF x \in Values(s) THEN 1 ELSE 0
<1> DEFINE S == {i \in DOMAIN s : s[i] = x}
<1>1. DOMAIN s = 1..Len(s)
  OBVIOUS
<1>2. \A a, b \in S : a = b
  BY <1>1, Zenon DEF NoRepeat
<1>3. S = {} <=> x \notin Values(s)
  BY <1>1, Zenon DEF Values
<1> HIDE DEF S
<1>4. Cardinality(S) = IF S = {} THEN 0 ELSE 1
  BY <1>2, OneOrNone, Zenon
<1> QED
  BY <1>3, <1>4, Zenon DEF S

(* What is shared out is in exactly one place.                              *)
LEMMA OncePlaces ==
    ASSUME TypeInv, OnceInv
    PROVE  EveryTextOnce
<1> SUFFICES ASSUME NEW t \in 1..published PROVE Places[t] = 1
  BY Zenon DEF EveryTextOnce
<1> DEFINE inHistory == {i \in DOMAIN history : history[i].text = t}
           inCalls == {p \in Calls \X Texts :
                         p[2] \in DOMAIN CallTexts(p[1]) /\ CallTexts(p[1])[p[2]] = t}
           inShown == {i \in DOMAIN shown : shown[i] = t}
           held == \E c \in Calls : t \in Held(c)
<1>1. Places[t] = Cardinality(inHistory) + Cardinality(inCalls) + Cardinality(inShown)
                    + (IF t \in lost THEN 1 ELSE 0)
  BY Zenon DEF Places
<1>2. Cardinality(inHistory) = IF t \in Stored THEN 1 ELSE 0
  <2>1. SeqTexts(history) \in Seq(Texts) /\ NoRepeat(SeqTexts(history))
    BY TextsType, Zenon DEF TypeInv, OnceInv
  <2>2. inHistory = {i \in DOMAIN SeqTexts(history) : SeqTexts(history)[i] = t}
    BY Zenon DEF SeqTexts
  <2> QED
    BY <2>1, <2>2, PlaceOf, SMTT(60) DEF Stored
<1>3. Cardinality(inShown) = IF t \in Values(shown) THEN 1 ELSE 0
  BY PlaceOf DEF TypeInv, OnceInv
<1>4. Cardinality(inCalls) = IF held THEN 1 ELSE 0
  <2>1. \A c \in Calls : /\ CallTexts(c) \in Seq(Texts) /\ NoRepeat(CallTexts(c))
                         /\ DOMAIN CallTexts(c) = 1..Len(CallTexts(c))
    BY CallTextsType DEF OnceInv
  <2>2. \A c, d \in Calls : t \in Held(c) /\ t \in Held(d) => c = d
    BY Zenon DEF OnceInv, SharedOut
  <2>3. \A p \in inCalls : /\ p[1] \in Calls /\ p[2] \in 1..Len(CallTexts(p[1]))
                           /\ CallTexts(p[1])[p[2]] = t /\ t \in Held(p[1])
                           /\ p = <<p[1], p[2]>>
    BY <2>1 DEF Held, Values
  <2>4. ASSUME NEW a \in inCalls, NEW b \in inCalls PROVE a = b
    <3>1. a[1] = b[1]
      BY <2>2, <2>3, Zenon
    <3>2. a[2] = b[2]
      BY <2>1, <2>3, <3>1 DEF NoRepeat
    <3> QED
      BY <2>3, <3>1, <3>2, Zenon
  <2>5. ASSUME NEW c \in Calls, t \in Held(c) PROVE inCalls # {}
    <3>1. PICK i \in 1..Len(CallTexts(c)) : CallTexts(c)[i] = t
      BY <2>5, Zenon DEF Held, Values
    <3>2. Len(CallTexts(c)) <= MaxEntries
      <4> DEFINE s == CallTexts(c)
      <4>1. s \in [1..Len(s) -> 1..MaxEntries] /\ Len(s) \in Nat
        <5>1. s \in Seq(Texts)
          BY <2>1, Zenon
        <5> HIDE DEF s
        <5>2. s \in [1..Len(s) -> Texts] /\ Len(s) \in Nat
          BY <5>1
        <5> QED
          BY <5>2, Zenon DEF Texts
      <4>2. \A a, b \in 1..Len(s) : s[a] = s[b] => a = b
        BY <2>1, Zenon DEF NoRepeat
      <4> HIDE DEF s
      <4>3. /\ IsFiniteSet(1..MaxEntries) /\ Cardinality(1..MaxEntries) = MaxEntries
            /\ Cardinality(1..Len(s)) = Len(s)
        BY <4>1, UpTo, HistoryConstants, Zenon
      <4>4. Cardinality(1..Len(s)) <= Cardinality(1..MaxEntries)
        BY <4>1, <4>2, <4>3, AtMost, Zenon
      <4> QED
        BY <4>3, <4>4, Zenon DEF s
    <3>3. i \in Texts
      BY <2>1, <3>2, HistoryConstants DEF Texts
    <3>4. <<c, i>> \in inCalls
      BY <2>1, <3>1, <3>3, Zenon
    <3> QED
      BY <3>4, Zenon
  <2>6. inCalls = {} <=> ~held
    BY <2>3, <2>5, Zenon
  <2> HIDE DEF inCalls, held
  <2>7. Cardinality(inCalls) = IF inCalls = {} THEN 0 ELSE 1
    BY <2>4, OneOrNone, Zenon
  <2> QED
    BY <2>6, <2>7, Zenon
<1>5. /\ t \in Stored \/ t \in Values(shown) \/ t \in lost \/ held
      /\ ~(t \in Stored /\ t \in Values(shown)) /\ ~(t \in Stored /\ t \in lost)
      /\ ~(t \in Values(shown) /\ t \in lost)
      /\ ~(held /\ t \in Stored) /\ ~(held /\ t \in Values(shown)) /\ ~(held /\ t \in lost)
  BY Zenon DEF OnceInv, SharedOut
<1> HIDE DEF inHistory, inCalls, inShown, held
<1> QED
  BY <1>1, <1>2, <1>3, <1>4, <1>5

(* However syncs, publications, identity changes and failures interleave, a *)
(* published text is at the postman, in one sync, shown or lost: none is    *)
(* shown twice and none vanishes.                                           *)
THEOREM EveryTextOnceHolds == Spec => []EveryTextOnce
<1>1. Init => TypeInv /\ OnceInv
  BY TypeInit, OnceInit, Zenon
<1>2. TypeInv /\ OnceInv /\ [Next]_vars => (TypeInv /\ OnceInv)'
  BY TypeStep, OnceStep, Zenon
<1>3. TypeInv /\ OnceInv => EveryTextOnce
  BY OncePlaces, Zenon
<1> QED
  BY <1>1, <1>2, <1>3, PTL DEF Spec
=============================================================================
