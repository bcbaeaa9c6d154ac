----------------------------- MODULE Lists_proofs -----------------------------
(****************************************************************************)
(* What operations on lists keep: which members there are, in which order,  *)
(* and that none is there twice.                                            *)
(****************************************************************************)
EXTENDS Lists, WellFoundedInduction, TLAPS

LEMMA AppendKeeps ==
  ASSUME NEW S, NEW s \in Seq(S), NEW e \in S
  PROVE  /\ Append(s, e) \in Seq(S)
         /\ ToSet(Append(s, e)) = ToSet(s) \cup {e}
         /\ \A x, y : Precedes(Append(s, e), x, y) <=>
                        Precedes(s, x, y) \/ (x \in ToSet(s) /\ y = e)
<1> DEFINE t == Append(s, e)
<1>1. /\ t \in Seq(S) /\ Len(t) = Len(s) + 1 /\ Len(s) \in Nat
      /\ DOMAIN s = 1..Len(s) /\ DOMAIN t = 1..(Len(s) + 1)
      /\ t[Len(s) + 1] = e /\ \A i \in 1..Len(s) : t[i] = s[i]
  OBVIOUS
<1> HIDE DEF t
<1>2. ToSet(t) = ToSet(s) \cup {e}
  BY <1>1 DEF ToSet
<1>3. ASSUME NEW x, NEW y, Precedes(t, x, y)
      PROVE  Precedes(s, x, y) \/ (x \in ToSet(s) /\ y = e)
  <2>1. PICK i \in DOMAIN t, j \in DOMAIN t : i < j /\ t[i] = x /\ t[j] = y
    BY <1>3 DEF Precedes
  <2>2. i \in 1..Len(s) /\ s[i] = x
    BY <1>1, <2>1
  <2>3. CASE j = Len(s) + 1
    BY <1>1, <2>1, <2>2, <2>3 DEF ToSet
  <2>4. CASE j # Len(s) + 1
    <3>1. j \in 1..Len(s) /\ s[j] = y
      BY <1>1, <2>1, <2>4
    <3>2. QED
      BY <1>1, <2>1, <2>2, <3>1 DEF Precedes
  <2>5. QED
    BY <2>3, <2>4
<1>4. ASSUME NEW x, NEW y, Precedes(s, x, y) \/ (x \in ToSet(s) /\ y = e)
      PROVE  Precedes(t, x, y)
  <2>1. CASE Precedes(s, x, y)
    <3>1. PICK i \in DOMAIN s, j \in DOMAIN s : i < j /\ s[i] = x /\ s[j] = y
      BY <2>1 DEF Precedes
    <3>2. i \in DOMAIN t /\ j \in DOMAIN t /\ t[i] = x /\ t[j] = y
      BY <1>1, <3>1
    <3>3. QED
      BY <3>1, <3>2 DEF Precedes
  <2>2. CASE x \in ToSet(s) /\ y = e
    <3>1. PICK i \in DOMAIN s : s[i] = x
      BY <2>2 DEF ToSet
    <3>2. /\ i \in DOMAIN t /\ Len(s) + 1 \in DOMAIN t /\ i < Len(s) + 1
          /\ t[i] = x /\ t[Len(s) + 1] = y
      BY <1>1, <2>2, <3>1
    <3>3. QED
      BY <3>2 DEF Precedes
  <2>3. QED
    BY <1>4, <2>1, <2>2
<1>5. QED
  BY <1>1, <1>2, <1>3, <1>4 DEF t

LEMMA ConcatKeeps ==
  ASSUME NEW S, NEW s \in Seq(S), NEW t \in Seq(S)
  PROVE  /\ s \o t \in Seq(S)
         /\ ToSet(s \o t) = ToSet(s) \cup ToSet(t)
         /\ \A x, y : Precedes(s \o t, x, y) <=>
                        \/ Precedes(s, x, y) \/ Precedes(t, x, y)
                        \/ (x \in ToSet(s) /\ y \in ToSet(t))
<1> DEFINE u == s \o t
           m == Len(s)
           n == Len(t)
<1>1. /\ u \in Seq(S) /\ m \in Nat /\ n \in Nat
      /\ DOMAIN s = 1..m /\ DOMAIN t = 1..n /\ DOMAIN u = 1..(m + n)
      /\ \A i \in 1..(m + n) : u[i] = IF i <= m THEN s[i] ELSE t[i - m]
  OBVIOUS
<1>2. /\ \A i \in 1..m : i \in DOMAIN u /\ u[i] = s[i]
      /\ \A i \in 1..n : i + m \in DOMAIN u /\ u[i + m] = t[i]
      /\ \A i \in DOMAIN u : \/ i \in 1..m
                             \/ i - m \in 1..n /\ (i - m) + m = i
  <2>1. ASSUME NEW i \in 1..n PROVE i + m \in DOMAIN u /\ u[i + m] = t[i]
    <3>1. i + m \in 1..(m + n) /\ ~(i + m <= m) /\ (i + m) - m = i
      BY <1>1
    <3>2. QED
      BY <1>1, <3>1
  <2>2. QED
    BY <1>1, <2>1
<1> HIDE DEF u, m, n
<1>3. ToSet(u) = ToSet(s) \cup ToSet(t)
  <2>1. ASSUME NEW i \in DOMAIN u PROVE u[i] \in ToSet(s) \cup ToSet(t)
    <3>1. CASE i \in 1..m
      <4>1. u[i] = s[i] /\ i \in DOMAIN s
        BY <1>1, <1>2, <3>1
      <4>2. QED
        BY <4>1 DEF ToSet
    <3>2. CASE i - m \in 1..n /\ (i - m) + m = i
      <4>1. u[i] = t[i - m] /\ i - m \in DOMAIN t
        BY <1>1, <1>2, <3>2
      <4>2. QED
        BY <4>1 DEF ToSet
    <3>3. QED
      BY <1>2, <3>1, <3>2
  <2>2. ASSUME NEW i \in DOMAIN s PROVE s[i] \in ToSet(u)
    <3>1. i \in DOMAIN u /\ u[i] = s[i]
      BY <1>1, <1>2
    <3>2. QED
      BY <3>1 DEF ToSet
  <2>3. ASSUME NEW i \in DOMAIN t PROVE t[i] \in ToSet(u)
    <3>1. i + m \in DOMAIN u /\ u[i + m] = t[i]
      BY <1>1, <1>2
    <3>2. QED
      BY <3>1 DEF ToSet
  <2>4. QED
    BY <2>1, <2>2, <2>3 DEF ToSet
<1>4. ASSUME NEW x, NEW y, Precedes(u, x, y)
      PROVE  Precedes(s, x, y) \/ Precedes(t, x, y) \/ (x \in ToSet(s) /\ y \in ToSet(t))
  <2>1. PICK i \in DOMAIN u, j \in DOMAIN u : i < j /\ u[i] = x /\ u[j] = y
    BY <1>4 DEF Precedes
  <2>2. CASE i \in 1..m /\ j \in 1..m
    BY <1>1, <1>2, <2>1, <2>2 DEF Precedes
  <2>3. CASE i \in 1..m /\ j \notin 1..m
    BY <1>1, <1>2, <2>1, <2>3 DEF ToSet
  <2>4. CASE i \notin 1..m
    <3>1. i - m \in 1..n /\ j - m \in 1..n /\ i - m < j - m
      BY <1>1, <1>2, <2>1, <2>4
    <3>2. t[i - m] = x /\ t[j - m] = y
      BY <1>1, <1>2, <2>1, <3>1
    <3>3. QED
      BY <1>1, <3>1, <3>2 DEF Precedes
  <2>5. QED
    BY <2>2, <2>3, <2>4
<1>5. ASSUME NEW x, NEW y, Precedes(s, x, y)
      PROVE  Precedes(u, x, y)
  <2>1. PICK i \in DOMAIN s, j \in DOMAIN s : i < j /\ s[i] = x /\ s[j] = y
    BY <1>5 DEF Precedes
  <2>2. i \in DOMAIN u /\ j \in DOMAIN u /\ u[i] = x /\ u[j] = y
    BY <1>1, <1>2, <2>1
  <2>3. QED
    BY <2>1, <2>2 DEF Precedes
<1>6. ASSUME NEW x, NEW y, Precedes(t, x, y)
      PROVE  Precedes(u, x, y)
  <2>1. PICK i \in DOMAIN t, j \in DOMAIN t : i < j /\ t[i] = x /\ t[j] = y
    BY <1>6 DEF Precedes
  <2>2. i + m \in DOMAIN u /\ j + m \in DOMAIN u /\ u[i + m] = x /\ u[j + m] = y
    BY <1>1, <1>2, <2>1
  <2>3. i + m < j + m
    BY <1>1, <2>1
  <2>4. QED
    BY <2>2, <2>3 DEF Precedes
<1>7. ASSUME NEW x \in ToSet(s), NEW y \in ToSet(t)
      PROVE  Precedes(u, x, y)
  <2>1. PICK i \in DOMAIN s, j \in DOMAIN t : s[i] = x /\ t[j] = y
    BY DEF ToSet
  <2>2. i \in DOMAIN u /\ j + m \in DOMAIN u /\ u[i] = x /\ u[j + m] = y
    BY <1>1, <1>2, <2>1
  <2>3. i < j + m
    BY <1>1, <2>1
  <2>4. QED
    BY <2>2, <2>3 DEF Precedes
<1>8. QED
  BY <1>1, <1>3, <1>4, <1>5, <1>6, <1>7 DEF u

LEMMA ReverseKeeps ==
  ASSUME NEW S, NEW s \in Seq(S)
  PROVE  /\ Reverse(s) \in Seq(S)
         /\ ToSet(Reverse(s)) = ToSet(s)
         /\ \A x, y : Precedes(Reverse(s), x, y) <=> Precedes(s, y, x)
<1> DEFINE r == Reverse(s)
           n == Len(s)
           mirror(i) == (n - i) + 1
<1>1. n \in Nat /\ DOMAIN s = 1..n
  OBVIOUS
<1>2. \A i \in 1..n : mirror(i) \in 1..n /\ mirror(mirror(i)) = i
  BY <1>1
<1>3. \A i, j \in 1..n : i < j <=> mirror(j) < mirror(i)
  BY <1>1
<1>4. r = [i \in 1..n |-> s[mirror(i)]]
  BY DEF Reverse
<1> HIDE DEF mirror, n
<1>5. r \in [1..n -> S] /\ DOMAIN r = 1..n /\ \A i \in 1..n : r[i] = s[mirror(i)]
  BY <1>1, <1>2, <1>4
<1>6. r \in Seq(S)
  BY <1>1, <1>5
<1> HIDE DEF r
<1>7. ToSet(r) = ToSet(s)
  BY <1>1, <1>2, <1>5 DEF ToSet
<1>8. ASSUME NEW x, NEW y, Precedes(r, x, y) PROVE Precedes(s, y, x)
  <2>1. PICK i \in 1..n, j \in 1..n : i < j /\ r[i] = x /\ r[j] = y
    BY <1>5, <1>8 DEF Precedes
  <2>2. mirror(j) < mirror(i) /\ s[mirror(i)] = x /\ s[mirror(j)] = y
    BY <1>3, <1>5, <2>1
  <2>3. QED
    BY <1>1, <1>2, <2>1, <2>2 DEF Precedes
<1>9. ASSUME NEW x, NEW y, Precedes(s, y, x) PROVE Precedes(r, x, y)
  <2>1. PICK i \in 1..n, j \in 1..n : i < j /\ s[i] = y /\ s[j] = x
    BY <1>1, <1>9 DEF Precedes
  <2>2. mirror(j) < mirror(i) /\ r[mirror(i)] = y /\ r[mirror(j)] = x
    BY <1>2, <1>3, <1>5, <2>1
  <2>3. QED
    BY <1>2, <1>5, <2>1, <2>2 DEF Precedes
<1>10. QED
  BY <1>6, <1>7, <1>8, <1>9 DEF r

\* Nothing twice: none before itself.
LEMMA InjectiveIs ==
  ASSUME NEW S, NEW s \in Seq(S)
  PROVE  IsInjective(s) <=> \A x : ~Precedes(s, x, x)
<1>1. DOMAIN s = 1..Len(s) /\ Len(s) \in Nat
  OBVIOUS
<1>2. ASSUME IsInjective(s), NEW x, Precedes(s, x, x) PROVE FALSE
  <2>1. PICK i \in DOMAIN s, j \in DOMAIN s : i < j /\ s[i] = x /\ s[j] = x
    BY <1>2 DEF Precedes
  <2>2. i = j
    BY <1>2, <2>1 DEF IsInjective
  <2>3. QED
    BY <1>1, <2>1, <2>2
<1>3. ASSUME \A x : ~Precedes(s, x, x), NEW i \in DOMAIN s, NEW j \in DOMAIN s, s[i] = s[j]
      PROVE  i = j
  <2>1. ~(i < j) /\ ~(j < i)
    BY <1>3 DEF Precedes
  <2>2. QED
    BY <1>1, <2>1
<1>4. QED
  BY <1>2, <1>3 DEF IsInjective

\* The rest of a list in which nothing is twice.
LEMMA TailKeeps ==
  ASSUME NEW S, NEW s \in Seq(S), s # <<>>, \A x : ~Precedes(s, x, x)
  PROVE  /\ Head(s) \in S /\ Head(s) \in ToSet(s)
         /\ Tail(s) \in Seq(S)
         /\ ToSet(Tail(s)) = ToSet(s) \ {Head(s)}
         /\ \A x : ~Precedes(s, x, Head(s))
         /\ \A x, y : Precedes(Tail(s), x, y) <=> Precedes(s, x, y) /\ x # Head(s)
<1> DEFINE t == Tail(s)
           n == Len(s)
           h == Head(s)
<1>1. /\ n \in Nat /\ n # 0 /\ DOMAIN s = 1..n /\ h = s[1] /\ h \in S
      /\ t \in Seq(S) /\ DOMAIN t = 1..(n - 1)
      /\ \A i \in 1..(n - 1) : t[i] = s[i + 1]
  OBVIOUS
<1> HIDE DEF t, n, h
<1>2. ASSUME NEW i \in 2..n PROVE s[i] # h
  <2>1. 1 \in DOMAIN s /\ i \in DOMAIN s /\ 1 < i /\ s[1] = h
    BY <1>1
  <2>2. QED
    BY <2>1 DEF Precedes
<1>3. /\ \A i \in DOMAIN t : i + 1 \in 2..n /\ t[i] = s[i + 1]
      /\ \A i \in 2..n : i - 1 \in DOMAIN t /\ t[i - 1] = s[i]
      /\ \A i \in DOMAIN s : i = 1 \/ i \in 2..n
      /\ \A i \in 2..n : i \in DOMAIN s
  <2>1. \A i \in 2..n : i - 1 \in 1..(n - 1) /\ (i - 1) + 1 = i
    BY <1>1
  <2>2. QED
    BY <1>1, <2>1
<1>4. ToSet(t) = ToSet(s) \ {h}
  <2>1. ASSUME NEW x \in ToSet(t) PROVE x \in ToSet(s) \ {h}
    BY <1>2, <1>3 DEF ToSet
  <2>2. ASSUME NEW x \in ToSet(s) \ {h} PROVE x \in ToSet(t)
    <3>1. PICK i \in DOMAIN s : s[i] = x
      BY DEF ToSet
    <3>2. i \in 2..n
      BY <1>1, <1>3, <3>1
    <3>3. i - 1 \in DOMAIN t /\ t[i - 1] = x
      BY <1>3, <3>1, <3>2
    <3>4. QED
      BY <3>3 DEF ToSet
  <2>3. QED
    BY <2>1, <2>2
<1>5. h \in ToSet(s)
  BY <1>1 DEF ToSet
<1>6. ASSUME NEW x, Precedes(s, x, h) PROVE FALSE
  <2>1. PICK i \in DOMAIN s, j \in DOMAIN s : i < j /\ s[i] = x /\ s[j] = h
    BY <1>6 DEF Precedes
  <2>2. j \in 2..n
    BY <1>1, <2>1
  <2>3. QED
    BY <1>2, <2>1, <2>2
<1>7. ASSUME NEW x, NEW y, Precedes(t, x, y) PROVE Precedes(s, x, y) /\ x # h
  <2>1. PICK i \in DOMAIN t, j \in DOMAIN t : i < j /\ t[i] = x /\ t[j] = y
    BY <1>7 DEF Precedes
  <2>2. /\ i + 1 \in 2..n /\ j + 1 \in 2..n /\ s[i + 1] = x /\ s[j + 1] = y
    BY <1>3, <2>1
  <2>3. i + 1 < j + 1
    BY <1>1, <2>1
  <2>4. QED
    BY <1>2, <1>3, <2>2, <2>3 DEF Precedes
<1>8. ASSUME NEW x, NEW y, Precedes(s, x, y), x # h PROVE Precedes(t, x, y)
  <2>1. PICK i \in DOMAIN s, j \in DOMAIN s : i < j /\ s[i] = x /\ s[j] = y
    BY <1>8 DEF Precedes
  <2>2. i \in 2..n /\ j \in 2..n
    BY <1>1, <1>8, <2>1
  <2>3. /\ i - 1 \in DOMAIN t /\ t[i - 1] = x
        /\ j - 1 \in DOMAIN t /\ t[j - 1] = y
    BY <1>3, <2>1, <2>2
  <2>4. i - 1 < j - 1
    BY <1>1, <2>1
  <2>5. QED
    BY <2>3, <2>4 DEF Precedes
<1>9. QED
  BY <1>1, <1>4, <1>5, <1>6, <1>7, <1>8 DEF t, h

\* A set of natural numbers that is not empty has a least element.
LEMMA LeastNumber ==
  ASSUME NEW S, S \subseteq Nat, S # {}
  PROVE  \E n \in S : \A m \in S : n <= m
<1> DEFINE Less == OpToRel(<, Nat)
<1>1. IsWellFoundedOn(Less, Nat)
  BY NatLessThanWellFounded
<1>2. \A n, m \in Nat : m < n => <<m, n>> \in Less
  BY DEF OpToRel
<1> HIDE DEF Less
<1>3. PICK n \in S : \A m \in S : ~(<<m, n>> \in Less)
  BY <1>1, WFMin
<1>4. \A m \in S : ~(m < n)
  BY <1>2, <1>3, Zenon
<1>5. n \in Nat /\ \A m \in S : m \in Nat
  OBVIOUS
<1>6. \A m \in S : n <= m
  BY <1>4, <1>5
<1>7. QED
  BY <1>6

\* F holds what Only() has found in the first n, for each n up to k.
Finds(s, T, k, F) ==
  F = [n \in 0..k |->
         IF n = 0 THEN <<>>
         ELSE IF s[n] \in T THEN Append(F[n - 1], s[n]) ELSE F[n - 1]]

LEMMA OnlyUnfolds ==
  ASSUME NEW s, Len(s) \in Nat, NEW T
  PROVE  \E F : Finds(s, T, Len(s), F) /\ Only(s, T) = F[Len(s)]
<1> DEFINE bad == {k \in 0..Len(s) : ~\E F : Finds(s, T, k, F)}
<1>1. bad = {}
  <2>1. SUFFICES ASSUME bad # {} PROVE FALSE
    OBVIOUS
  <2>2. bad \subseteq Nat
    OBVIOUS
  <2> HIDE DEF bad
  <2>3. PICK k \in bad : \A m \in bad : k <= m
    BY <2>1, <2>2, LeastNumber
  <2> USE DEF bad
  <2>4. CASE k = 0
    <3> DEFINE G == [n \in 0..0 |-> <<>>]
    <3>1. Finds(s, T, 0, G)
      BY DEF Finds
    <3>2. QED
      BY <2>3, <2>4, <3>1
  <2>5. CASE k # 0
    <3>1. k - 1 \in 0..Len(s) /\ k \in Nat /\ k - 1 \in Nat /\ k - 1 \notin bad
      BY <2>3, <2>5
    <3>2. PICK F : Finds(s, T, k - 1, F)
      BY <3>1
    <3> DEFINE last == IF s[k] \in T THEN Append(F[k - 1], s[k]) ELSE F[k - 1]
               G == [n \in 0..k |-> IF n = k THEN last ELSE F[n]]
    <3>3. \A n \in 0..(k - 1) :
            F[n] = IF n = 0 THEN <<>> ELSE IF s[n] \in T THEN Append(F[n - 1], s[n]) ELSE F[n - 1]
      BY <3>1, <3>2 DEF Finds
    <3>4. \A n \in 0..k :
            G[n] = IF n = 0 THEN <<>> ELSE IF s[n] \in T THEN Append(G[n - 1], s[n]) ELSE G[n - 1]
      <4> SUFFICES ASSUME NEW n \in 0..k
                   PROVE  G[n] = IF n = 0 THEN <<>>
                                 ELSE IF s[n] \in T THEN Append(G[n - 1], s[n]) ELSE G[n - 1]
        OBVIOUS
      <4>1. CASE n = 0
        BY <2>5, <3>1, <3>3, <4>1
      <4>2. CASE n # 0
        <5>1. n - 1 \in 0..(k - 1) /\ G[n - 1] = F[n - 1]
          BY <3>1, <4>2
        <5>2. CASE n = k
          BY <2>5, <5>1, <5>2
        <5>3. CASE n # k
          <6>1. n \in 0..(k - 1) /\ G[n] = F[n]
            BY <3>1, <5>3
          <6>2. QED
            BY <3>3, <4>2, <5>1, <6>1
        <5>4. QED
          BY <5>2, <5>3
      <4>3. QED
        BY <4>1, <4>2
    <3>5. G = [n \in 0..k |-> G[n]]
      OBVIOUS
    <3> HIDE DEF G
    <3>6. Finds(s, T, k, G)
      BY <3>4, <3>5 DEF Finds
    <3>7. QED
      BY <2>3, <3>6
  <2>6. QED
    BY <2>4, <2>5
<1>2. \E F : Finds(s, T, Len(s), F)
  BY <1>1
<1> DEFINE H == CHOOSE F : Finds(s, T, Len(s), F)
<1>3. Finds(s, T, Len(s), H)
  BY <1>2
<1>4. Only(s, T) = H[Len(s)]
  BY DEF Only, Finds
<1>5. QED
  BY <1>3, <1>4

LEMMA OnlyKeeps ==
  ASSUME NEW S, NEW s \in Seq(S), NEW T
  PROVE  /\ Only(s, T) \in Seq(S)
         /\ ToSet(Only(s, T)) = ToSet(s) \cap T
         /\ \A x, y : Precedes(Only(s, T), x, y) <=> Precedes(s, x, y) /\ x \in T /\ y \in T
<1> DEFINE Selects(t, u) ==
             /\ t \in Seq(S)
             /\ ToSet(t) = ToSet(u) \cap T
             /\ \A x, y : Precedes(t, x, y) <=> Precedes(u, x, y) /\ x \in T /\ y \in T
           first(n) == SubSeq(s, 1, n)
<1>1. PICK F : Finds(s, T, Len(s), F) /\ Only(s, T) = F[Len(s)]
  BY OnlyUnfolds
<1> DEFINE bad == {n \in 0..Len(s) : ~Selects(F[n], first(n))}
<1>2. Len(s) \in Nat /\ first(Len(s)) = s
  OBVIOUS
<1>3. /\ F[0] = <<>>
      /\ \A n \in 1..Len(s) :
           F[n] = IF s[n] \in T THEN Append(F[n - 1], s[n]) ELSE F[n - 1]
  <2>1. \A n \in 0..Len(s) :
          F[n] = IF n = 0 THEN <<>>
                 ELSE IF s[n] \in T THEN Append(F[n - 1], s[n]) ELSE F[n - 1]
    BY <1>1 DEF Finds
  <2>2. 0 \in 0..Len(s) /\ \A n \in 1..Len(s) : n \in 0..Len(s) /\ n # 0
    BY <1>2
  <2>3. F[0] = <<>>
    BY <2>1, <2>2
  <2>4. ASSUME NEW n \in 1..Len(s)
        PROVE  F[n] = IF s[n] \in T THEN Append(F[n - 1], s[n]) ELSE F[n - 1]
    BY <2>1, <2>2
  <2>5. QED
    BY <2>3, <2>4
<1>4. first(0) = <<>>
  OBVIOUS
<1>5. ASSUME NEW n \in 1..Len(s)
      PROVE  first(n - 1) \in Seq(S) /\ s[n] \in S /\ first(n) = Append(first(n - 1), s[n])
  OBVIOUS
<1> HIDE DEF first
<1>6. Selects(<<>>, <<>>)
  <2>1. /\ <<>> \in Seq(S) /\ DOMAIN <<>> = {}
    OBVIOUS
  <2>2. ToSet(<<>>) = {} /\ \A x, y : ~Precedes(<<>>, x, y)
    BY <2>1 DEF ToSet, Precedes
  <2>3. QED
    BY <2>1, <2>2
<1>7. ASSUME NEW t \in Seq(S), NEW u \in Seq(S), NEW e \in S, Selects(t, u)
      PROVE  Selects(IF e \in T THEN Append(t, e) ELSE t, Append(u, e))
  <2>1. CASE e \in T
    <3>1. Selects(Append(t, e), Append(u, e))
      BY <1>7, <2>1, AppendKeeps
    <3>2. QED
      BY <2>1, <3>1
  <2>2. CASE e \notin T
    <3>1. Selects(t, Append(u, e))
      BY <1>7, <2>2, AppendKeeps
    <3>2. QED
      BY <2>2, <3>1
  <2>3. QED
    BY <2>1, <2>2
<1>8. \A n \in 0..Len(s) : F[n] \in Seq(S) \/ ~Selects(F[n], first(n))
  OBVIOUS
<1> HIDE DEF Selects
<1>9. bad = {}
  <2>1. SUFFICES ASSUME bad # {} PROVE FALSE
    OBVIOUS
  <2>2. bad \subseteq Nat
    BY <1>2
  <2> HIDE DEF bad
  <2>3. PICK k \in bad : \A m \in bad : k <= m
    BY <2>1, <2>2, LeastNumber
  <2> USE DEF bad
  <2>4. k # 0
    BY <1>3, <1>4, <1>6, <2>3
  <2>5. k \in 1..Len(s) /\ k - 1 \in 0..Len(s) /\ k - 1 \notin bad
    BY <1>2, <2>3, <2>4
  <2>6. Selects(F[k - 1], first(k - 1)) /\ F[k - 1] \in Seq(S)
    BY <1>8, <2>5
  <2>7. Selects(F[k], first(k))
    BY <1>3, <1>5, <1>7, <2>5, <2>6
  <2>8. QED
    BY <2>3, <2>7
<1>10. Selects(F[Len(s)], first(Len(s)))
  BY <1>2, <1>9
<1>11. QED
  BY <1>1, <1>2, <1>10 DEF Selects

\* A list that one entry was taken out of, or put into, entry by entry.
LEMMA RemoveAtIs ==
  ASSUME NEW S, NEW s \in Seq(S), NEW k \in 1..Len(s)
  PROVE  /\ RemoveAt(s, k) \in Seq(S) /\ Len(RemoveAt(s, k)) = Len(s) - 1
         /\ \A i \in 1..Len(s) - 1 : RemoveAt(s, k)[i] = s[IF i < k THEN i ELSE i + 1]
<1> DEFINE u == SubSeq(s, 1, k - 1)
           v == SubSeq(s, k + 1, Len(s))
<1>1. u \in Seq(S) /\ Len(u) = k - 1 /\ \A i \in 1..k - 1 : u[i] = s[i]
  OBVIOUS
<1>2. v \in Seq(S) /\ Len(v) = Len(s) - k
  OBVIOUS
<1>3. ASSUME NEW i \in 1..Len(s) - k
      PROVE  v[i] = s[i + k]
  <2>1. k + 1 + i - 1 = i + k
    OBVIOUS
  <2>2. i \in 1..(Len(s) - (k + 1) + 1)
    OBVIOUS
  <2> QED BY <2>1, <2>2
<1>4. RemoveAt(s, k) = u \o v
  BY DEF RemoveAt
<1> HIDE DEF u, v
<1>5. /\ u \o v \in Seq(S) /\ Len(u \o v) = Len(s) - 1
      /\ \A i \in 1..Len(s) - 1 : (u \o v)[i] = IF i < k THEN u[i] ELSE v[i - (k - 1)]
  <2>1. u \o v \in Seq(S) /\ Len(u \o v) = Len(u) + Len(v)
    BY <1>1, <1>2
  <2>2. \A i \in 1..Len(u) + Len(v) :
          (u \o v)[i] = IF i <= Len(u) THEN u[i] ELSE v[i - Len(u)]
    BY <1>1, <1>2
  <2> QED BY <1>1, <1>2, <2>1, <2>2
<1>6. ASSUME NEW i \in 1..Len(s) - 1
      PROVE  (u \o v)[i] = s[IF i < k THEN i ELSE i + 1]
  <2>1. CASE i < k
    BY <1>1, <1>5, <2>1
  <2>2. CASE ~(i < k)
    <3>1. i - (k - 1) \in 1..Len(s) - k /\ (i - (k - 1)) + k = i + 1
      BY <2>2
    <3> QED BY <1>3, <1>5, <2>2, <3>1
  <2> QED BY <2>1, <2>2
<1> QED BY <1>4, <1>5, <1>6

LEMMA InsertAtIs ==
  ASSUME NEW S, NEW s \in Seq(S), NEW e \in S, NEW k \in 1..Len(s)
  PROVE  /\ InsertAt(s, k, e) \in Seq(S) /\ Len(InsertAt(s, k, e)) = Len(s) + 1
         /\ \A i \in 1..Len(s) + 1 :
              InsertAt(s, k, e)[i] = IF i < k THEN s[i] ELSE IF i = k THEN e ELSE s[i - 1]
<1> DEFINE u == SubSeq(s, 1, k - 1)
           v == SubSeq(s, k, Len(s))
           w == u \o <<e>>
<1>1. u \in Seq(S) /\ Len(u) = k - 1 /\ \A i \in 1..k - 1 : u[i] = s[i]
  OBVIOUS
<1>2. v \in Seq(S) /\ Len(v) = Len(s) - k + 1
  OBVIOUS
<1>3. ASSUME NEW i \in 1..Len(s) - k + 1
      PROVE  v[i] = s[i + k - 1]
  OBVIOUS
<1>4. InsertAt(s, k, e) = w \o v
  BY DEF InsertAt
<1> HIDE DEF u, v
<1>5. /\ w \in Seq(S) /\ Len(w) = k
      /\ \A i \in 1..k : w[i] = IF i < k THEN u[i] ELSE e
  BY <1>1
<1> HIDE DEF w
<1>6. /\ w \o v \in Seq(S) /\ Len(w \o v) = Len(s) + 1
      /\ \A i \in 1..Len(s) + 1 : (w \o v)[i] = IF i <= k THEN w[i] ELSE v[i - k]
  <2>1. w \o v \in Seq(S) /\ Len(w \o v) = Len(w) + Len(v)
    BY <1>2, <1>5
  <2>2. \A i \in 1..Len(w) + Len(v) :
          (w \o v)[i] = IF i <= Len(w) THEN w[i] ELSE v[i - Len(w)]
    BY <1>2, <1>5
  <2> QED BY <1>2, <1>5, <2>1, <2>2
<1>7. ASSUME NEW i \in 1..Len(s) + 1
      PROVE  (w \o v)[i] = IF i < k THEN s[i] ELSE IF i = k THEN e ELSE s[i - 1]
  <2>1. CASE i <= k
    BY <1>1, <1>5, <1>6, <2>1
  <2>2. CASE ~(i <= k)
    <3>1. i - k \in 1..Len(s) - k + 1 /\ (i - k) + k - 1 = i - 1
      BY <2>2
    <3> QED BY <1>3, <1>6, <2>2, <3>1
  <2> QED BY <2>1, <2>2
<1> QED BY <1>4, <1>6, <1>7

\* Lists in which nothing is twice.
LEMMA RemovedFirst ==
  ASSUME NEW S, NEW s \in Seq(S), NEW e, IsInjective(s)
  PROVE  /\ RemoveFirst(s, e) \in Seq(S)
         /\ IsInjective(RemoveFirst(s, e))
         /\ ToSet(RemoveFirst(s, e)) = ToSet(s) \ {e}
<1>1. CASE ~\E i \in 1..Len(s) : s[i] = e
  <2>1. RemoveFirst(s, e) = s
    BY <1>1 DEF RemoveFirst
  <2>2. e \notin ToSet(s)
    BY <1>1 DEF ToSet
  <2> QED BY <2>1, <2>2
<1>2. CASE \E i \in 1..Len(s) : s[i] = e
  <2> PICK k \in 1..Len(s) : s[k] = e
    BY <1>2
  <2>1. \A i \in 1..Len(s) : s[i] = e <=> i = k
    BY DEF IsInjective
  <2>2. SelectInSeq(s, LAMBDA v : v = e) = k
    <3>1. {i \in 1..Len(s) : s[i] = e} = {k}
      BY <2>1
    <3>2. Min({k}) = k
      BY DEF Min
    <3> QED BY <3>1, <3>2 DEF SelectInSeq
  <2> DEFINE t == RemoveAt(s, k)
  <2>3. RemoveFirst(s, e) = t
    BY <1>2, <2>2 DEF RemoveFirst
  <2>4. /\ t \in Seq(S) /\ Len(t) = Len(s) - 1
        /\ \A i \in 1..Len(t) : t[i] = s[IF i < k THEN i ELSE i + 1]
    BY RemoveAtIs
  <2> HIDE DEF t
  <2>5. IsInjective(t)
    <3> SUFFICES ASSUME NEW a \in 1..Len(t), NEW b \in 1..Len(t), t[a] = t[b] PROVE a = b
      BY <2>4 DEF IsInjective
    <3> DEFINE at(i) == IF i < k THEN i ELSE i + 1
    <3>1. at(a) \in 1..Len(s) /\ at(b) \in 1..Len(s)
      BY <2>4
    <3>2. s[at(a)] = s[at(b)]
      BY <2>4
    <3>3. at(a) = at(b)
      BY <3>1, <3>2 DEF IsInjective
    <3> QED BY <2>4, <3>3
  <2>6. ASSUME NEW x \in ToSet(t)
        PROVE  x \in ToSet(s) \ {e}
    <3> PICK i \in 1..Len(t) : t[i] = x
      BY <2>4 DEF ToSet
    <3> DEFINE j == IF i < k THEN i ELSE i + 1
    <3>1. j \in 1..Len(s) /\ j # k /\ s[j] = x
      BY <2>4
    <3> HIDE DEF j
    <3> QED BY <2>1, <3>1 DEF ToSet
  <2>7. ASSUME NEW x \in ToSet(s) \ {e}
        PROVE  x \in ToSet(t)
    <3> PICK i \in 1..Len(s) : s[i] = x
      BY DEF ToSet
    <3>1. i # k
      BY <2>1
    <3> DEFINE j == IF i < k THEN i ELSE i - 1
    <3>2. j \in 1..Len(t) /\ (IF j < k THEN j ELSE j + 1) = i
      BY <2>4, <3>1
    <3>3. t[j] = x
      BY <2>4, <3>2
    <3> QED BY <2>4, <3>2, <3>3 DEF ToSet
  <2> QED BY <2>3, <2>4, <2>5, <2>6, <2>7
<1> QED BY <1>1, <1>2

LEMMA Prefixed ==
  ASSUME NEW S, NEW s \in Seq(S), NEW l \in S, IsInjective(s), l \notin ToSet(s)
  PROVE  /\ <<l>> \o s \in Seq(S) /\ <<l>> \o s # <<>>
         /\ IsInjective(<<l>> \o s)
         /\ ToSet(<<l>> \o s) = ToSet(s) \cup {l}
<1> DEFINE t == <<l>> \o s
<1>1. /\ t \in Seq(S) /\ Len(t) = Len(s) + 1
      /\ t[1] = l /\ \A i \in 1..Len(s) : t[i + 1] = s[i]
  OBVIOUS
<1>2. t # <<>>
  BY <1>1
<1> HIDE DEF t
<1>3. \A i \in 1..Len(t) : t[i] = IF i = 1 THEN l ELSE s[i - 1]
  <2> SUFFICES ASSUME NEW i \in 1..Len(t), i # 1 PROVE t[i] = s[i - 1]
    BY <1>1
  <2>1. i - 1 \in 1..Len(s) /\ (i - 1) + 1 = i
    BY <1>1
  <2> QED BY <1>1, <2>1
<1>4. \A i \in 1..Len(s) : s[i] # l
  BY DEF ToSet
<1>5. IsInjective(t)
  <2> SUFFICES ASSUME NEW a \in 1..Len(t), NEW b \in 1..Len(t), t[a] = t[b] PROVE a = b
    BY <1>1 DEF IsInjective
  <2>1. a # 1 => a - 1 \in 1..Len(s)
    BY <1>1
  <2>2. b # 1 => b - 1 \in 1..Len(s)
    BY <1>1
  <2>3. a # 1 /\ b # 1 => a - 1 = b - 1
    BY <1>3, <2>1, <2>2 DEF IsInjective
  <2> QED BY <1>3, <1>4, <2>1, <2>2, <2>3
<1>6. ToSet(t) = ToSet(s) \cup {l}
  <2>1. ASSUME NEW x \in ToSet(t) PROVE x \in ToSet(s) \cup {l}
    <3> PICK i \in 1..Len(t) : t[i] = x
      BY <1>1 DEF ToSet
    <3>1. i # 1 => i - 1 \in 1..Len(s)
      BY <1>1
    <3> QED BY <1>3, <3>1 DEF ToSet
  <2>2. ASSUME NEW x \in ToSet(s) PROVE x \in ToSet(t)
    <3> PICK i \in 1..Len(s) : s[i] = x
      BY DEF ToSet
    <3>1. i + 1 \in 1..Len(t)
      BY <1>1
    <3> QED BY <1>1, <3>1 DEF ToSet
  <2>3. l \in ToSet(t)
    <3>1. 1 \in 1..Len(t)
      BY <1>1
    <3> QED BY <1>1, <3>1 DEF ToSet
  <2> QED BY <2>1, <2>2, <2>3
<1> QED BY <1>1, <1>2, <1>5, <1>6 DEF t

LEMMA Appended ==
  ASSUME NEW S, NEW s \in Seq(S), NEW e \in S, IsInjective(s), e \notin ToSet(s)
  PROVE  /\ Append(s, e) \in Seq(S) /\ Append(s, e) # <<>>
         /\ IsInjective(Append(s, e))
         /\ ToSet(Append(s, e)) = ToSet(s) \cup {e}
<1> DEFINE t == Append(s, e)
<1>1. /\ t \in Seq(S) /\ Len(t) = Len(s) + 1
      /\ \A i \in 1..Len(t) : t[i] = IF i = Len(s) + 1 THEN e ELSE s[i]
  OBVIOUS
<1>2. t # <<>>
  BY <1>1
<1> HIDE DEF t
<1>3. \A i \in 1..Len(s) : s[i] # e
  BY DEF ToSet
<1>4. IsInjective(t)
  BY <1>1, <1>3 DEF IsInjective
<1>5. ToSet(t) = ToSet(s) \cup {e}
  BY <1>1 DEF ToSet
<1> QED BY <1>1, <1>2, <1>4, <1>5 DEF t

=============================================================================
