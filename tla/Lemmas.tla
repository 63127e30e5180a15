------------------------------- MODULE Lemmas -------------------------------
(***************************************************************************)
(* Facts that several proofs need: least elements, induction and recursion *)
(* up to a bound, and what Filter keeps of a sequence.                     *)
(***************************************************************************)
EXTENDS Naturals, Sequences, FiniteSetsExt, Filtering, SequenceTheorems,
        WellFoundedInduction, TLAPS

\* A set of natural numbers that is not empty has a least element, the one
\* that Min chooses.
LEMMA MinFacts ==
    ASSUME NEW S \in SUBSET Nat, S # {}
    PROVE  Min(S) \in S /\ \A k \in S : Min(S) =< k
<1> DEFINE R == OpToRel(<, Nat)
<1>1. IsWellFoundedOn(R, Nat)
  BY NatLessThanWellFounded, Zenon
<1> HIDE DEF R
<1>2. PICK n \in S : \A k \in S : ~(<<k, n>> \in R)
  BY <1>1, WFMin, Zenon
<1>3. \A k \in S : ~(k < n)
  BY <1>2, Zenon DEF R, OpToRel
<1>4. \E x \in S : \A y \in S : x =< y
  BY <1>3
<1> QED BY <1>4 DEF Min

\* Induction up to N, for the numbers in a set.
LEMMA UpTo ==
    ASSUME NEW N \in Nat, NEW T, 0 \in T,
           \A n \in 0..N : n \in T /\ n < N => n + 1 \in T
    PROVE  \A n \in 0..N : n \in T
<1> DEFINE Bad == {n \in 0..N : n \notin T}
<1> SUFFICES ASSUME Bad # {} PROVE FALSE
  OBVIOUS
<1>1. PICK k : k = Min(Bad)
  OBVIOUS
<1>2. Bad \in SUBSET Nat
  OBVIOUS
<1>3. k \in Bad /\ \A j \in Bad : k =< j
  <2> HIDE DEF Bad
  <2> QED BY <1>1, <1>2, MinFacts
<1>4. k \in 0..N /\ k \notin T /\ k # 0
  BY <1>3
<1>5. k - 1 \in 0..N /\ k - 1 < N /\ ~(k =< k - 1)
  BY <1>4
<1>6. k - 1 \in T
  BY <1>3, <1>5
<1>7. (k - 1) + 1 \in T
  BY <1>5, <1>6
<1> QED BY <1>4, <1>7

\* The function g on 0..N with values in S starts with base and follows step.
Steps(N, S, step) == step \in [0..N -> [S -> S]]
Follows(g, N, S, base, step) ==
    /\ g \in [0..N -> S]
    /\ g[0] = base
    /\ \A n \in 1..N : g[n] = step[n][g[n - 1]]

\* A function on 0..N may be defined by recursion.
LEMMA Recursion ==
    ASSUME NEW N \in Nat, NEW S, NEW base \in S, NEW step, Steps(N, S, step)
    PROVE  \E g : Follows(g, N, S, base, step)
<1> DEFINE Solves(g, n) ==
             g = [k \in 0..n |-> IF k = 0 THEN base ELSE step[k][g[k - 1]]]
           T == {n \in 0..N : \E g \in [0..n -> S] : Solves(g, n)}
<1>0. step \in [0..N -> [S -> S]]
  BY DEF Steps
<1>1. 0 \in T
  <2>1. PICK g : g = [k \in 0..0 |-> base]
    OBVIOUS
  <2>2. g \in [0..0 -> S] /\ Solves(g, 0)
    BY <2>1
  <2> QED BY <2>2
<1>2. ASSUME NEW n \in 0..N, n \in T, n < N
      PROVE  n + 1 \in T
  <2>1. PICK g \in [0..n -> S] : Solves(g, n)
    BY <1>2
  <2>2. PICK h : h = [k \in 0..n + 1 |-> IF k = n + 1 THEN step[n + 1][g[n]]
                                         ELSE g[k]]
    OBVIOUS
  <2>3. n + 1 \in 0..N /\ n \in 0..n
    BY <1>2
  <2>4. h \in [0..n + 1 -> S]
    BY <1>0, <2>2, <2>3
  <2>5. \A k \in 0..n + 1 : h[k] = IF k = 0 THEN base ELSE step[k][h[k - 1]]
    <3> TAKE k \in 0..n + 1
    <3>1. CASE k = n + 1
      <4>1. k # 0 /\ k - 1 = n /\ n # n + 1 /\ n \in 0..n + 1
        BY <3>1
      <4> QED BY <2>2, <3>1, <4>1
    <3>2. CASE k # n + 1
      <4>1. k \in 0..n /\ h[k] = g[k]
        BY <2>2, <3>2
      <4>2. k # 0 => k - 1 \in 0..n + 1 /\ k - 1 # n + 1
        BY <4>1
      <4>3. k # 0 => h[k - 1] = g[k - 1]
        BY <2>2, <4>2
      <4> QED BY <2>1, <4>1, <4>3
    <3> QED BY <3>1, <3>2
  <2>6. Solves(h, n + 1)
    BY <2>2, <2>5
  <2> QED BY <2>3, <2>4, <2>6
<1>3. \A n \in 0..N : n \in T
  <2> HIDE DEF T
  <2> QED BY <1>1, <1>2, UpTo
<1>4. N \in T
  <2> HIDE DEF T
  <2> QED BY <1>3
<1>5. PICK g \in [0..N -> S] : Solves(g, N)
  BY <1>4
<1>6. 0 \in 0..N /\ \A n \in 1..N : n \in 0..N /\ n # 0
  OBVIOUS
<1>7. g[0] = base /\ \A n \in 1..N : g[n] = step[n][g[n - 1]]
  BY <1>5, <1>6
<1> QED BY <1>7 DEF Follows

\* The walk g along the sequence s over U, and that Filter is its end.
Walks(g, U, s, S) ==
    /\ g \in [0..Len(s) -> Seq(U)]
    /\ g[0] = <<>>
    /\ \A n \in 1..Len(s) :
         g[n] = IF s[n] \in S THEN Append(g[n - 1], s[n]) ELSE g[n - 1]

\* Filter is the end of such a walk.
LEMMA FilterWalk ==
    ASSUME NEW U, NEW s \in Seq(U), NEW S
    PROVE  \E g : Walks(g, U, s, S) /\ Filter(s, S) = g[Len(s)]
<1> DEFINE D == 0..Len(s)
           step == [n \in D |-> [q \in Seq(U) |->
                      IF n # 0 /\ s[n] \in S THEN Append(q, s[n]) ELSE q]]
           Walk(f) == f = [n \in D |->
                        IF n = 0 THEN <<>>
                        ELSE IF s[n] \in S THEN Append(f[n - 1], s[n]) ELSE f[n - 1]]
           upTo == CHOOSE f : Walk(f)
<1>1. step \in [D -> [Seq(U) -> Seq(U)]]
  <2> SUFFICES ASSUME NEW n \in D, NEW q \in Seq(U)
               PROVE  (IF n # 0 /\ s[n] \in S THEN Append(q, s[n]) ELSE q) \in Seq(U)
    OBVIOUS
  <2>1. n # 0 => s[n] \in U
    OBVIOUS
  <2> QED BY <2>1
<1>2. Len(s) \in Nat /\ <<>> \in Seq(U)
  OBVIOUS
<1>3. PICK g \in [D -> Seq(U)] :
        g[0] = <<>> /\ \A n \in 1..Len(s) : g[n] = step[n][g[n - 1]]
  <2>1. Steps(Len(s), Seq(U), step)
    BY <1>1 DEF Steps
  <2> HIDE DEF step
  <2>2. PICK g : Follows(g, Len(s), Seq(U), <<>>, step)
    BY <1>2, <2>1, Recursion
  <2> QED BY <2>2 DEF Follows
<1>4. \A n \in D : n # 0 => n - 1 \in D
  BY <1>2
<1>5. Walk(g)
  <2>1. \A n \in D : g[n] = IF n = 0 THEN <<>>
                            ELSE IF s[n] \in S THEN Append(g[n - 1], s[n]) ELSE g[n - 1]
    <3> TAKE n \in D
    <3>1. CASE n = 0
      BY <1>3, <3>1
    <3>2. CASE n # 0
      <4>1. g[n] = step[n][g[n - 1]] /\ g[n - 1] \in Seq(U)
        <5> HIDE DEF step
        <5> QED BY <1>3, <1>4, <3>2
      <4> QED BY <3>2, <4>1
    <3> QED BY <3>1, <3>2
  <2> QED BY <2>1
<1>6. Walk(upTo)
  <2> HIDE DEF Walk
  <2> QED BY <1>5
<1>7. \A n \in D : g[n] = upTo[n]
  <2> DEFINE T == {n \in D : g[n] = upTo[n]}
  <2>0. PICK u : Walk(u) /\ u = upTo
    BY <1>6
  <2> HIDE DEF upTo
  <2>1. 0 \in T
    BY <1>2, <1>5, <2>0
  <2>2. ASSUME NEW n \in 0..Len(s), n \in T, n < Len(s)
        PROVE  n + 1 \in T
    <3>1. n + 1 \in D /\ n + 1 # 0 /\ (n + 1) - 1 = n
      BY <1>2, <2>2
    <3>2. g[n + 1] = IF s[n + 1] \in S THEN Append(g[n], s[n + 1]) ELSE g[n]
      BY <1>5, <3>1
    <3>3. u[n + 1] = IF s[n + 1] \in S THEN Append(u[n], s[n + 1]) ELSE u[n]
      BY <2>0, <3>1
    <3> QED BY <2>0, <2>2, <3>1, <3>2, <3>3
  <2>3. \A n \in 0..Len(s) : n \in T
    <3> HIDE DEF T
    <3> QED BY <1>2, <2>1, <2>2, UpTo
  <2> QED BY <2>3
<1>8. Filter(s, S) = upTo[Len(s)]
  BY DEF Filter
<1>9. Filter(s, S) = g[Len(s)]
  <2> HIDE DEF upTo
  <2> QED BY <1>2, <1>7, <1>8
<1>10. g[0] = <<>> /\ \A n \in 1..Len(s) :
         g[n] = IF s[n] \in S THEN Append(g[n - 1], s[n]) ELSE g[n - 1]
  <2>1. 0 \in D /\ \A n \in 1..Len(s) : n \in D /\ n # 0
    BY <1>2
  <2> HIDE DEF D
  <2> QED BY <1>5, <2>1
<1> QED BY <1>9, <1>10 DEF Walks

\* The positions h of s that q is made of: in their order, with all of those
\* up to n that hold an element of S.
Picks(h, q, s, S, n) ==
    /\ h \in [1..Len(q) -> 1..n]
    /\ \A i, j \in 1..Len(q) : i < j => h[i] < h[j]
    /\ \A i \in 1..Len(q) : q[i] = s[h[i]] /\ q[i] \in S
    /\ \A k \in 1..n : s[k] \in S => \E i \in 1..Len(q) : h[i] = k

\* Filter keeps the elements of S, all of them, in their order.
LEMMA FilterFacts ==
    ASSUME NEW U, NEW s \in Seq(U), NEW S
    PROVE  /\ Filter(s, S) \in Seq(U)
           /\ \E h : Picks(h, Filter(s, S), s, S, Len(s))
<1>0. PICK g : Walks(g, U, s, S) /\ Filter(s, S) = g[Len(s)]
  BY FilterWalk
<1>1. /\ g \in [0..Len(s) -> Seq(U)] /\ g[0] = <<>>
      /\ \A n \in 1..Len(s) :
           g[n] = IF s[n] \in S THEN Append(g[n - 1], s[n]) ELSE g[n - 1]
  BY <1>0 DEF Walks
<1> DEFINE T == {n \in 0..Len(s) : \E h : Picks(h, g[n], s, S, n)}
<1>2. Len(s) \in Nat
  OBVIOUS
<1>3. 0 \in T
  <2>1. Len(g[0]) = 0
    BY <1>1
  <2>2. PICK h : h = [i \in 1..0 |-> 0]
    OBVIOUS
  <2>3. Picks(h, g[0], s, S, 0)
    BY <2>1, <2>2 DEF Picks
  <2> QED BY <1>2, <2>3
<1>4. ASSUME NEW n \in 0..Len(s), n \in T, n < Len(s)
      PROVE  n + 1 \in T
  <2>1. PICK h : Picks(h, g[n], s, S, n)
    BY <1>4
  <2>2. n + 1 \in 1..Len(s) /\ n + 1 \in 0..Len(s) /\ (n + 1) - 1 = n /\ n \in Nat
    BY <1>2, <1>4
  <2>3. PICK q \in Seq(U) : q = g[n]
    BY <1>1
  <2>4. PICK c \in Nat : c = Len(q)
    BY <2>3
  <2>5. /\ h \in [1..c -> 1..n]
        /\ \A i, j \in 1..c : i < j => h[i] < h[j]
        /\ \A i \in 1..c : q[i] = s[h[i]] /\ q[i] \in S
        /\ \A k \in 1..n : s[k] \in S => \E i \in 1..c : h[i] = k
    BY <2>1, <2>3, <2>4 DEF Picks
  <2>6. CASE s[n + 1] \notin S
    <3>1. g[n + 1] = q
      BY <1>1, <2>2, <2>3, <2>6
    <3>2. h \in [1..c -> 1..n + 1]
      BY <2>2, <2>5
    <3>3. \A k \in 1..n + 1 : s[k] \in S => \E i \in 1..c : h[i] = k
      BY <2>2, <2>5, <2>6
    <3>4. Picks(h, q, s, S, n + 1)
      BY <2>4, <2>5, <3>2, <3>3 DEF Picks
    <3> QED BY <2>2, <3>1, <3>4
  <2>7. CASE s[n + 1] \in S
    <3>1. PICK x \in U : x = s[n + 1]
      BY <2>2
    <3>2. PICK p : p = Append(q, x)
      OBVIOUS
    <3>3. g[n + 1] = p
      BY <1>1, <2>2, <2>3, <2>7, <3>1, <3>2
    <3>4. Len(p) = c + 1 /\ p[c + 1] = x /\ \A i \in 1..c : p[i] = q[i]
      BY <2>3, <2>4, <3>1, <3>2
    <3>5. PICK f : f = [i \in 1..c + 1 |-> IF i = c + 1 THEN n + 1 ELSE h[i]]
      OBVIOUS
    <3>6. f[c + 1] = n + 1 /\ \A i \in 1..c : f[i] = h[i]
      BY <3>5
    <3>7. f \in [1..c + 1 -> 1..n + 1]
      BY <2>2, <2>5, <3>5
    <3>8. \A i, j \in 1..c + 1 : i < j => f[i] < f[j]
      <4> SUFFICES ASSUME NEW i \in 1..c + 1, NEW j \in 1..c + 1, i < j
                   PROVE  f[i] < f[j]
        OBVIOUS
      <4>1. i \in 1..c /\ f[i] = h[i] /\ h[i] \in 1..n
        BY <2>5, <3>6
      <4>2. CASE j = c + 1
        BY <2>2, <3>6, <4>1, <4>2
      <4>3. CASE j # c + 1
        <5>1. j \in 1..c
          BY <4>3
        <5> QED BY <2>5, <3>6, <4>1, <5>1
      <4> QED BY <4>2, <4>3
    <3>9. \A i \in 1..c + 1 : p[i] = s[f[i]] /\ p[i] \in S
      <4> TAKE i \in 1..c + 1
      <4>1. CASE i = c + 1
        BY <2>7, <3>1, <3>4, <3>6, <4>1
      <4>2. CASE i # c + 1
        <5>1. i \in 1..c
          BY <4>2
        <5> QED BY <2>5, <3>4, <3>6, <5>1
      <4> QED BY <4>1, <4>2
    <3>10. \A k \in 1..n + 1 : s[k] \in S => \E i \in 1..c + 1 : f[i] = k
      <4> SUFFICES ASSUME NEW k \in 1..n + 1, s[k] \in S
                   PROVE  \E i \in 1..c + 1 : f[i] = k
        OBVIOUS
      <4>1. CASE k = n + 1
        BY <3>6, <4>1
      <4>2. CASE k # n + 1
        <5>1. k \in 1..n
          BY <2>2, <4>2
        <5>2. PICK i \in 1..c : h[i] = k
          BY <2>5, <5>1
        <5>3. i \in 1..c + 1 /\ f[i] = k
          BY <3>6, <5>2
        <5> QED BY <5>3
      <4> QED BY <4>1, <4>2
    <3>11. Picks(f, p, s, S, n + 1)
      BY <3>4, <3>7, <3>8, <3>9, <3>10 DEF Picks
    <3> QED BY <2>2, <3>3, <3>11
  <2> QED BY <2>6, <2>7
<1>5. \A n \in 0..Len(s) : n \in T
  <2> HIDE DEF T
  <2> QED BY <1>2, <1>3, <1>4, UpTo
<1>6. Len(s) \in T
  <2> HIDE DEF T
  <2> QED BY <1>2, <1>5
<1>7. Len(s) \in 0..Len(s)
  BY <1>2
<1> QED BY <1>0, <1>1, <1>6, <1>7

\* Filter goes on where the sequence does.
LEMMA FilterAppend ==
    ASSUME NEW U, NEW s \in Seq(U), NEW x \in U, NEW S
    PROVE  Filter(Append(s, x), S) =
             IF x \in S THEN Append(Filter(s, S), x) ELSE Filter(s, S)
<1>1. PICK t \in Seq(U) : t = Append(s, x)
  <2>1. Append(s, x) \in Seq(U)
    OBVIOUS
  <2> QED BY <2>1
<1>2. PICK N \in Nat : N = Len(s)
  OBVIOUS
<1>3. Len(t) = N + 1 /\ t[N + 1] = x /\ \A n \in 1..N : t[n] = s[n]
  BY <1>1, <1>2
<1>4. PICK f : Walks(f, U, s, S) /\ Filter(s, S) = f[N]
  BY <1>2, FilterWalk
<1>5. PICK g : Walks(g, U, t, S) /\ Filter(t, S) = g[N + 1]
  BY <1>3, FilterWalk
<1>6. /\ f[0] = <<>>
      /\ \A n \in 1..N :
           f[n] = IF s[n] \in S THEN Append(f[n - 1], s[n]) ELSE f[n - 1]
  BY <1>2, <1>4 DEF Walks
<1>7. /\ g[0] = <<>>
      /\ \A n \in 1..N + 1 :
           g[n] = IF t[n] \in S THEN Append(g[n - 1], t[n]) ELSE g[n - 1]
  BY <1>3, <1>5 DEF Walks
<1> DEFINE T == {n \in 0..N : g[n] = f[n]}
<1>8. 0 \in T
  BY <1>6, <1>7
<1>9. ASSUME NEW n \in 0..N, n \in T, n < N
      PROVE  n + 1 \in T
  <2>1. n + 1 \in 1..N /\ n + 1 \in 1..N + 1 /\ n + 1 \in 0..N /\ (n + 1) - 1 = n
    BY <1>9
  <2>2. f[n + 1] = IF s[n + 1] \in S THEN Append(f[n], s[n + 1]) ELSE f[n]
    BY <1>6, <2>1
  <2>3. g[n + 1] = IF t[n + 1] \in S THEN Append(g[n], t[n + 1]) ELSE g[n]
    BY <1>7, <2>1
  <2> QED BY <1>3, <1>9, <2>1, <2>2, <2>3
<1>10. \A n \in 0..N : n \in T
  <2> HIDE DEF T
  <2> QED BY <1>8, <1>9, UpTo
<1>11. g[N] = f[N]
  <2>1. N \in T
    <3> HIDE DEF T
    <3> QED BY <1>10
  <2> QED BY <2>1
<1>12. g[N + 1] = IF t[N + 1] \in S THEN Append(g[N], t[N + 1]) ELSE g[N]
  <2>1. N + 1 \in 1..N + 1 /\ (N + 1) - 1 = N
    OBVIOUS
  <2> QED BY <1>7, <2>1
<1> QED BY <1>1, <1>3, <1>4, <1>5, <1>11, <1>12

\* Filter begins where the sequence does.
LEMMA FilterHead ==
    ASSUME NEW U, NEW s \in Seq(U), s # <<>>, NEW S
    PROVE  Filter(s, S) =
             (IF Head(s) \in S THEN <<Head(s)>> ELSE <<>>) \o Filter(Tail(s), S)
<1>1. PICK t \in Seq(U) : t = Tail(s)
  <2>1. Tail(s) \in Seq(U)
    OBVIOUS
  <2> QED BY <2>1
<1>2. PICK N \in Nat : N + 1 = Len(s)
  <2>1. Len(s) \in Nat /\ Len(s) # 0
    OBVIOUS
  <2>2. Len(s) - 1 \in Nat /\ (Len(s) - 1) + 1 = Len(s)
    BY <2>1
  <2> QED BY <2>2
<1>3. PICK x \in U : x = Head(s) /\ x = s[1]
  BY <1>2
<1>4. Len(t) = N /\ \A n \in 1..N : t[n] = s[n + 1]
  BY <1>1, <1>2
<1>5. PICK f : Walks(f, U, s, S) /\ Filter(s, S) = f[N + 1]
  BY <1>2, FilterWalk
<1>6. PICK g : Walks(g, U, t, S) /\ Filter(t, S) = g[N]
  BY <1>4, FilterWalk
<1>7. /\ f[0] = <<>>
      /\ \A n \in 1..N + 1 :
           f[n] = IF s[n] \in S THEN Append(f[n - 1], s[n]) ELSE f[n - 1]
  BY <1>2, <1>5 DEF Walks
<1>8. /\ g \in [0..N -> Seq(U)] /\ g[0] = <<>>
      /\ \A n \in 1..N :
           g[n] = IF t[n] \in S THEN Append(g[n - 1], t[n]) ELSE g[n - 1]
  BY <1>4, <1>6 DEF Walks
<1>9. PICK h \in Seq(U) : h = IF x \in S THEN <<x>> ELSE <<>>
  <2>1. <<x>> \in Seq(U) /\ <<>> \in Seq(U)
    OBVIOUS
  <2> QED BY <2>1
<1> DEFINE T == {n \in 0..N : f[n + 1] = h \o g[n]}
<1>10. 0 \in T
  <2>1. 1 \in 1..N + 1 /\ 1 - 1 = 0
    OBVIOUS
  <2>2. f[1] = IF s[1] \in S THEN Append(f[0], s[1]) ELSE f[0]
    BY <1>7, <2>1
  <2>3. f[1] = h
    BY <1>3, <1>7, <1>9, <2>2
  <2>4. h \o <<>> = h
    BY <1>9, ConcatEmptySeq
  <2>5. 0 \in 0..N /\ 0 + 1 = 1
    OBVIOUS
  <2> QED BY <1>8, <2>3, <2>4, <2>5
<1>11. ASSUME NEW n \in 0..N, n \in T, n < N
       PROVE  n + 1 \in T
  <2>1. /\ n + 1 \in 1..N /\ n + 1 \in 0..N /\ (n + 1) - 1 = n
        /\ (n + 1) + 1 \in 1..N + 1 /\ ((n + 1) + 1) - 1 = n + 1
    BY <1>11
  <2>2. f[(n + 1) + 1] = IF s[(n + 1) + 1] \in S
                         THEN Append(f[n + 1], s[(n + 1) + 1]) ELSE f[n + 1]
    BY <1>7, <2>1
  <2>3. g[n + 1] = IF t[n + 1] \in S THEN Append(g[n], t[n + 1]) ELSE g[n]
    BY <1>8, <2>1
  <2>4. PICK y \in U : y = t[n + 1] /\ y = s[(n + 1) + 1]
    BY <1>4, <2>1
  <2>5. PICK q \in Seq(U) : q = g[n]
    BY <1>8
  <2>6. Append(h \o q, y) = h \o Append(q, y)
    <3>1. h \o q \in Seq(U) /\ <<y>> \in Seq(U)
      OBVIOUS
    <3>2. Append(h \o q, y) = (h \o q) \o <<y>> /\ Append(q, y) = q \o <<y>>
      BY <3>1, AppendIsConcat
    <3>3. (h \o q) \o <<y>> = h \o (q \o <<y>>)
      <4>1. PICK z \in Seq(U) : z = <<y>>
        BY <3>1
      <4>2. (h \o q) \o z = h \o (q \o z)
        <5>1. h \in Seq(U) /\ q \in Seq(U) /\ z \in Seq(U)
          OBVIOUS
        <5> QED BY ONLY <5>1
      <4> QED BY <4>1, <4>2
    <3> QED BY <3>2, <3>3
  <2> QED BY <1>11, <2>1, <2>2, <2>3, <2>4, <2>5, <2>6
<1>12. \A n \in 0..N : n \in T
  <2> HIDE DEF T
  <2> QED BY <1>10, <1>11, UpTo
<1>13. f[N + 1] = h \o g[N]
  <2>1. N \in T
    <3> HIDE DEF T
    <3> QED BY <1>12
  <2> QED BY <2>1
<1> QED BY <1>1, <1>3, <1>5, <1>6, <1>9, <1>13
=============================================================================
