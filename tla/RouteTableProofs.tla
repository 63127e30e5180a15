-------------------------- MODULE RouteTableProofs --------------------------
(***************************************************************************)
(* Proofs about module RouteTable, for any width of addresses, any tunnels *)
(* and any bounds.                                                         *)
(***************************************************************************)
EXTENDS RouteTable, Lemmas

\* Every link holds the network address of its prefix.
Normal(r) == r.ip4 = ShiftDownUp(r.ip4, W - r.mask)
LinksNormal == \A i \in DOMAIN ip4_routes : Normal(ip4_routes[i])

IInv == TypeOK /\ RoutesSorted /\ LinksNormal

-----------------------------------------------------------------------------
(* Powers, shifts and networks. *)

\* The powers of two are positive, and each is twice the one before.
LEMMA Pow2Facts ==
    /\ Pow2 \in [0..W -> Nat \ {0}]
    /\ Pow2[0] = 1
    /\ \A n \in 1..W : Pow2[n] = 2 * Pow2[n - 1]
<1> DEFINE S == Nat \ {0}
           step == [n \in 0..W |-> [q \in S |-> 2 * q]]
           Doubles(f) == f = [n \in 0..W |-> IF n = 0 THEN 1 ELSE 2 * f[n - 1]]
<1>1. W \in Nat /\ 1 \in S
  BY WAssumption
<1>2. Steps(W, S, step)
  BY DEF Steps
<1>3. PICK g : Follows(g, W, S, 1, step)
  <2> HIDE DEF step, S
  <2> QED BY <1>1, <1>2, Recursion
<1>4. g \in [0..W -> S] /\ g[0] = 1 /\ \A n \in 1..W : g[n] = step[n][g[n - 1]]
  <2> HIDE DEF step, S
  <2> QED BY <1>3 DEF Follows
<1>5. \A n \in 1..W : n - 1 \in 0..W /\ n \in 0..W /\ n # 0 /\ g[n] = 2 * g[n - 1]
  <2>1. \A n \in 1..W : n - 1 \in 0..W /\ n \in 0..W /\ n # 0
    BY <1>1
  <2>2. \A n \in 1..W : g[n - 1] \in S /\ g[n] = step[n][g[n - 1]]
    <3> HIDE DEF step, S
    <3> QED BY <1>4, <2>1
  <2> QED BY <2>1, <2>2
<1>6. Doubles(g)
  BY <1>1, <1>4, <1>5
<1>7. Doubles(Pow2)
  <2>1. Pow2 = CHOOSE f : Doubles(f)
    BY DEF Pow2
  <2> HIDE DEF Doubles
  <2> QED BY <1>6, <2>1
<1>8. Pow2[0] = 1 /\ \A n \in 1..W : Pow2[n] = 2 * Pow2[n - 1]
  <2>1. 0 \in 0..W /\ \A n \in 1..W : n \in 0..W /\ n # 0
    BY <1>1
  <2> QED BY <1>7, <2>1
<1> DEFINE T == {n \in 0..W : Pow2[n] \in S}
<1>9. 0 \in T
  BY <1>1, <1>8
<1>10. ASSUME NEW n \in 0..W, n \in T, n < W
       PROVE  n + 1 \in T
  <2>1. n + 1 \in 1..W /\ n + 1 \in 0..W /\ (n + 1) - 1 = n
    BY <1>1, <1>10
  <2>2. Pow2[n + 1] = 2 * Pow2[n]
    BY <1>8, <2>1
  <2> QED BY <1>10, <2>1, <2>2
<1>11. \A n \in 0..W : n \in T
  <2> HIDE DEF T
  <2> QED BY <1>1, <1>9, <1>10, UpTo
<1>12. Pow2 \in [0..W -> S]
  BY <1>7, <1>11
<1> QED BY <1>8, <1>12

\* A power divides every higher one.
LEMMA Pow2Divides ==
    ASSUME NEW b \in 0..W, NEW a \in 0..b
    PROVE  \E c \in Nat \ {0} : Pow2[b] = c * Pow2[a]
<1> DEFINE T == {n \in 0..W : \A k \in 0..n : \E c \in Nat \ {0} : Pow2[n] = c * Pow2[k]}
<1>1. W \in Nat
  BY WAssumption
<1>2. 0 \in T
  <2>1. Pow2[0] = 1 * Pow2[0]
    BY Pow2Facts
  <2> QED BY <1>1, <2>1
<1>3. ASSUME NEW n \in 0..W, n \in T, n < W
      PROVE  n + 1 \in T
  <2>1. n + 1 \in 1..W /\ n + 1 \in 0..W /\ (n + 1) - 1 = n
    BY <1>1, <1>3
  <2>2. Pow2[n + 1] = 2 * Pow2[n] /\ Pow2[n] \in Nat /\ Pow2[n + 1] \in Nat
    BY <2>1, Pow2Facts
  <2>3. ASSUME NEW k \in 0..n + 1
        PROVE  \E c \in Nat \ {0} : Pow2[n + 1] = c * Pow2[k]
    <3>1. CASE k = n + 1
      <4>1. Pow2[n + 1] = 1 * Pow2[k]
        BY <2>2, <3>1
      <4> QED BY <4>1
    <3>2. CASE k # n + 1
      <4>1. k \in 0..n /\ k \in 0..W
        BY <1>1, <2>1, <3>2
      <4>2. PICK c \in Nat \ {0} : Pow2[n] = c * Pow2[k]
        BY <1>3, <4>1
      <4>3. Pow2[k] \in Nat
        BY <4>1, Pow2Facts
      <4>4. Pow2[n + 1] = (2 * c) * Pow2[k] /\ 2 * c \in Nat \ {0}
        BY <2>2, <4>2, <4>3
      <4> QED BY <4>4
    <3> QED BY <3>1, <3>2
  <2> QED BY <2>1, <2>3
<1>4. \A n \in 0..W : n \in T
  <2> HIDE DEF T
  <2> QED BY <1>1, <1>2, <1>3, UpTo
<1>5. b \in T
  <2> HIDE DEF T
  <2> QED BY <1>4
<1> QED BY <1>5

\* Division of numbers, as the shifts use it.
LEMMA DivFacts ==
    ASSUME NEW a \in Nat, NEW p \in Nat \ {0}
    PROVE  /\ a \div p \in Nat /\ (a \div p) * p \in Nat
           /\ (a \div p) * p =< a /\ a < (a \div p) * p + p
           /\ ((a \div p) * p) \div p = a \div p
OBVIOUS

\* The coarser a division, the lower the multiple it rounds down to.
LEMMA DivCoarse ==
    ASSUME NEW a \in Nat, NEW p \in Nat \ {0}, NEW c \in Nat \ {0}
    PROVE  (a \div (c * p)) * (c * p) =< (a \div p) * p
OBVIOUS

\* Addresses are the numbers below the highest power.
LEMMA AddrFacts == Addr \subseteq Nat /\ Addr = 0..(Pow2[W] - 1) /\ Pow2[W] \in Nat \ {0}
<1>1. W \in 0..W
  BY WAssumption
<1> QED BY <1>1, Pow2Facts DEF Addr

\* A network address is an address, and its own network address.
LEMMA ShiftFacts ==
    ASSUME NEW ip \in Addr, NEW n \in 0..W
    PROVE  /\ ShiftDownUp(ip, n) \in Addr
           /\ ShiftDownUp(ShiftDownUp(ip, n), n) = ShiftDownUp(ip, n)
<1>1. PICK p \in Nat \ {0} : p = Pow2[n]
  BY Pow2Facts
<1>2. PICK d : d = (ip \div p) * p
  OBVIOUS
<1>3. d \in Nat /\ d =< ip /\ (d \div p) * p = d
  BY <1>1, <1>2, AddrFacts, DivFacts
<1>4. d \in Addr
  BY <1>3, AddrFacts
<1> QED BY <1>1, <1>2, <1>3, <1>4 DEF ShiftDownUp

\* route4 makes a link that holds the network address of its prefix.
LEMMA NewLinkFacts ==
    ASSUME NEW ip \in Addr, NEW mask \in 0..W + 1, NEW t \in Tuns
    PROVE  NewLink(ip, mask, t) \in Link /\ Normal(NewLink(ip, mask, t))
<1>1. PICK c \in 0..W : c = Clamp(mask)
  BY WAssumption DEF Clamp
<1>2. W - c \in 0..W
  BY WAssumption
<1>3. PICK d : d = ShiftDownUp(ip, W - c)
  OBVIOUS
<1>4. d \in Addr /\ ShiftDownUp(d, W - c) = d
  BY <1>2, <1>3, ShiftFacts
<1>5. NewLink(ip, mask, t) = [ip4 |-> d, mask |-> c, tun |-> t]
  BY <1>1, <1>3 DEF NewLink
<1> QED BY <1>4, <1>5 DEF Link, Normal

-----------------------------------------------------------------------------
(* The operations on a list. *)

Sorted(list) ==
    \A i, j \in 1..Len(list) : i < j => Lower(list[j], list[i])
Elements(list) == {list[i] : i \in 1..Len(list)}

\* A list as the operations keep it.
Fine(list) ==
    /\ list \in Seq(Link) /\ Sorted(list)
    /\ \A i \in 1..Len(list) : Normal(list[i])

\* The numbers of a link.
LEMMA LinkFacts ==
    ASSUME NEW r \in Link
    PROVE  /\ r.ip4 \in Addr /\ r.ip4 \in Nat /\ r.mask \in 0..W /\ r.mask \in Nat
           /\ W - r.mask \in 0..W /\ r.tun \in Tuns
BY AddrFacts, WAssumption DEF Link

\* The order is strict and total on networks.
LEMMA LowerFacts ==
    ASSUME NEW r \in Link, NEW s \in Link
    PROVE  /\ Lower(r, s) \/ SameNet(r, s) \/ Lower(s, r)
           /\ ~(Lower(r, s) /\ SameNet(r, s)) /\ ~(Lower(r, s) /\ Lower(s, r))
           /\ \A q \in Link : Lower(q, r) /\ Lower(r, s) => Lower(q, s)
           /\ \A q \in Link : SameNet(q, r) =>
                /\ Lower(r, s) => Lower(q, s)
                /\ Lower(s, r) => Lower(s, q)
<1>1. \A q \in Link : q.ip4 \in Nat /\ q.mask \in Nat
  BY AddrFacts, WAssumption DEF Link
<1> QED BY <1>1 DEF Lower, SameNet

\* Two links of one network are one link.
LEMMA OneLink ==
    ASSUME NEW list, Fine(list), NEW r \in Elements(list), NEW s \in Elements(list),
           SameNet(r, s)
    PROVE  r = s
<1>1. PICK i \in 1..Len(list), j \in 1..Len(list) : r = list[i] /\ s = list[j]
  BY DEF Elements
<1>2. r \in Link /\ s \in Link /\ Len(list) \in Nat
  BY <1>1 DEF Fine
<1>3. i < j => Lower(s, r)
  BY <1>1 DEF Fine, Sorted
<1>4. j < i => Lower(r, s)
  BY <1>1 DEF Fine, Sorted
<1>5. ~Lower(r, s) /\ ~Lower(s, r)
  BY <1>2, LowerFacts DEF SameNet
<1>6. i = j
  BY <1>2, <1>3, <1>4, <1>5
<1> QED BY <1>1, <1>6

\* Where a walk stops.
LEMMA StopFacts ==
    ASSUME NEW list \in Seq(Link), NEW I \in SUBSET (1..Len(list))
    PROVE  LET k == FirstIndex(list, I) IN
           /\ k \in 1..Len(list) + 1
           /\ k <= Len(list) => k \in I
           /\ \A i \in 1..Len(list) : i < k => i \notin I
<1>1. PICK N \in Nat : N = Len(list)
  OBVIOUS
<1>2. PICK J : J = I \cup {N + 1}
  OBVIOUS
<1>3. J \in SUBSET Nat /\ J # {}
  <2>1. \A i \in I : i \in Nat
    BY <1>1
  <2>2. N + 1 \in J /\ \A i \in J : i \in Nat
    BY <1>2, <2>1
  <2> QED BY <2>2
<1>4. PICK k : k = Min(J)
  OBVIOUS
<1>5. k \in J /\ \A i \in J : k =< i
  BY <1>3, <1>4, MinFacts
<1>6. FirstIndex(list, I) = k
  BY <1>1, <1>2, <1>4 DEF FirstIndex
<1>7. k \in 1..N + 1 /\ (k <= N => k \in I)
  BY <1>1, <1>2, <1>5
<1>8. \A i \in 1..N : i < k => i \notin I
  BY <1>1, <1>2, <1>5, <1>7
<1> QED BY <1>1, <1>6, <1>7, <1>8

\* route4 keeps the order, and changes the link of one network only.
LEMMA Route4Facts ==
    ASSUME NEW list, Fine(list), NEW new \in Link, Normal(new)
    PROVE  /\ Fine(Route4(list, new))
           /\ Elements(Route4(list, new)) =
                {r \in Elements(list) : ~SameNet(r, new)} \cup {new}
<1>0. list \in Seq(Link) /\ Sorted(list) /\ \A i \in 1..Len(list) : Normal(list[i])
  BY DEF Fine
<1>1. PICK N \in Nat : N = Len(list)
  BY <1>0
<1>2. PICK k : k = StopsAt(list, new)
  OBVIOUS
<1>3. \A i \in 1..N : list[i] \in Link
  BY <1>0, <1>1
<1>4. /\ k \in 1..N + 1
      /\ k <= N => Lower(list[k], new) \/ SameNet(list[k], new)
      /\ \A i \in 1..N : i < k => ~Lower(list[i], new) /\ ~SameNet(list[i], new)
  <2> DEFINE I == {i \in DOMAIN list : Lower(list[i], new) \/ SameNet(list[i], new)}
  <2>1. I \in SUBSET (1..Len(list)) /\ k = FirstIndex(list, I)
    BY <1>0, <1>2 DEF StopsAt
  <2>2. /\ k \in 1..N + 1 /\ (k <= N => k \in I)
        /\ \A i \in 1..N : i < k => i \notin I
    <3> HIDE DEF I
    <3> QED BY <1>0, <1>1, <2>1, StopFacts
  <2> QED BY <1>0, <1>1, <2>2
<1>5. \A i \in 1..N : i < k => Lower(new, list[i])
  BY <1>3, <1>4, LowerFacts
<1>6. \A i, j \in 1..N : i < j => Lower(list[j], list[i])
  BY <1>0, <1>1 DEF Sorted
<1>7. CASE k <= N /\ SameNet(list[k], new)
  <2>1. PICK R : R = [list EXCEPT ![k] = new]
    OBVIOUS
  <2>2. Route4(list, new) = R
    BY <1>1, <1>2, <1>7, <2>1 DEF Route4
  <2>3. k \in 1..N
    BY <1>4, <1>7
  <2>4. /\ R \in Seq(Link) /\ Len(R) = N /\ R[k] = new
        /\ \A i \in 1..N : i # k => R[i] = list[i]
    BY <1>0, <1>1, <2>1, <2>3
  <2>5. SameNet(new, list[k])
    BY <1>7 DEF SameNet
  <2>6. \A i \in 1..N : i # k => ~SameNet(list[i], new)
    <3> SUFFICES ASSUME NEW i \in 1..N, i # k, SameNet(list[i], new) PROVE FALSE
      OBVIOUS
    <3>1. SameNet(list[i], list[k]) /\ SameNet(list[k], list[i])
      BY <2>5 DEF SameNet
    <3>2. Lower(list[i], list[k]) \/ Lower(list[k], list[i])
      BY <1>1, <1>6, <2>3
    <3> QED BY <1>3, <2>3, <3>1, <3>2, LowerFacts
  <2>7. Sorted(R)
    <3> SUFFICES ASSUME NEW i \in 1..N, NEW j \in 1..N, i < j
                 PROVE  Lower(R[j], R[i])
      BY <2>4 DEF Sorted
    <3>1. Lower(list[j], list[i])
      BY <1>6
    <3>2. CASE i = k
      <4>1. R[i] = new /\ R[j] = list[j]
        BY <2>4, <3>2
      <4> QED BY <1>3, <2>3, <2>5, <3>1, <3>2, <4>1, LowerFacts
    <3>3. CASE j = k
      <4>1. R[j] = new /\ R[i] = list[i]
        BY <2>4, <3>3
      <4> QED BY <1>3, <2>3, <2>5, <3>1, <3>3, <4>1, LowerFacts
    <3>4. CASE i # k /\ j # k
      BY <2>4, <3>1, <3>4
    <3> QED BY <3>2, <3>3, <3>4
  <2>8. \A i \in 1..Len(R) : Normal(R[i])
    BY <1>0, <1>1, <2>4
  <2>9. Elements(R) = {r \in Elements(list) : ~SameNet(r, new)} \cup {new}
    <3>1. ASSUME NEW r \in Elements(R)
          PROVE  r = new \/ (r \in Elements(list) /\ ~SameNet(r, new))
      <4>1. PICK i \in 1..N : r = R[i]
        BY <2>4 DEF Elements
      <4> QED BY <1>1, <2>4, <2>6, <4>1 DEF Elements
    <3>2. ASSUME NEW r \in Elements(list), ~SameNet(r, new)
          PROVE  r \in Elements(R)
      <4>1. PICK i \in 1..N : r = list[i]
        BY <1>1 DEF Elements
      <4>2. i # k
        BY <1>7, <3>2, <4>1
      <4> QED BY <2>4, <4>1, <4>2 DEF Elements
    <3>3. new \in Elements(R)
      BY <2>3, <2>4 DEF Elements
    <3> QED BY <3>1, <3>2, <3>3
  <2> QED BY <2>2, <2>4, <2>7, <2>8, <2>9 DEF Fine
<1>8. CASE ~(k <= N /\ SameNet(list[k], new))
  <2>1. PICK R : R = InsertBefore(list, k, new)
    OBVIOUS
  <2>2. Route4(list, new) = R
    BY <1>1, <1>2, <1>8, <2>1 DEF Route4
  <2>3. /\ Len(R) = N + 1 /\ R[k] = new
        /\ \A i \in 1..N + 1 : i < k => R[i] = list[i]
        /\ \A i \in 1..N + 1 : i > k => R[i] = list[i - 1]
    BY <1>1, <1>4, <2>1 DEF InsertBefore
  <2>4. \A i \in 1..N + 1 : i < k => i \in 1..N /\ R[i] = list[i]
    BY <1>4, <2>3
  <2>5. \A i \in 1..N + 1 : i > k => i - 1 \in 1..N /\ i - 1 >= k /\ R[i] = list[i - 1]
    BY <1>4, <2>3
  <2>6. \A i \in 1..N + 1 : R[i] \in Link
    BY <1>3, <1>4, <2>3, <2>4, <2>5
  <2>7. R \in Seq(Link)
    <3>1. R = [i \in 1..N + 1 |-> R[i]]
      BY <1>1, <2>1 DEF InsertBefore
    <3> QED BY <2>6, <3>1
  <2>8. \A i \in 1..N : i >= k => Lower(list[i], new)
    <3> SUFFICES ASSUME NEW i \in 1..N, i >= k PROVE Lower(list[i], new)
      OBVIOUS
    <3>1. k \in 1..N /\ Lower(list[k], new)
      BY <1>4, <1>8
    <3>2. CASE i = k
      BY <3>1, <3>2
    <3>3. CASE i # k
      <4>1. Lower(list[i], list[k])
        BY <1>6, <3>1, <3>3
      <4> QED BY <1>3, <3>1, <4>1, LowerFacts
    <3> QED BY <3>2, <3>3
  <2>9. Sorted(R)
    <3> SUFFICES ASSUME NEW i \in 1..N + 1, NEW j \in 1..N + 1, i < j
                 PROVE  Lower(R[j], R[i])
      BY <2>3 DEF Sorted
    <3>1. CASE j < k
      <4>1. i \in 1..N /\ j \in 1..N /\ R[i] = list[i] /\ R[j] = list[j]
        BY <1>4, <2>4, <3>1
      <4> QED BY <1>6, <4>1
    <3>2. CASE j = k
      <4>1. i \in 1..N /\ R[i] = list[i] /\ R[j] = new /\ i < k
        BY <2>3, <2>4, <3>2
      <4> QED BY <1>5, <4>1
    <3>3. CASE j > k /\ i < k
      <4>1. /\ i \in 1..N /\ R[i] = list[i]
            /\ j - 1 \in 1..N /\ R[j] = list[j - 1] /\ i < j - 1
        BY <1>4, <2>4, <2>5, <3>3
      <4> QED BY <1>6, <4>1
    <3>4. CASE j > k /\ i = k
      <4>1. R[i] = new /\ j - 1 \in 1..N /\ R[j] = list[j - 1] /\ j - 1 >= k
        BY <2>3, <2>5, <3>4
      <4> QED BY <2>8, <4>1
    <3>5. CASE j > k /\ i > k
      <4>1. /\ i - 1 \in 1..N /\ R[i] = list[i - 1]
            /\ j - 1 \in 1..N /\ R[j] = list[j - 1] /\ i - 1 < j - 1
        BY <2>5, <3>5
      <4> QED BY <1>6, <4>1
    <3> QED BY <1>4, <3>1, <3>2, <3>3, <3>4, <3>5
  <2>10. \A i \in 1..Len(R) : Normal(R[i])
    BY <1>0, <1>1, <1>4, <2>3, <2>4, <2>5
  <2>11. \A i \in 1..N : ~SameNet(list[i], new)
    <3> TAKE i \in 1..N
    <3>1. CASE i < k
      BY <1>4, <3>1
    <3>2. CASE i >= k
      BY <1>3, <2>8, <3>2, LowerFacts
    <3> QED BY <1>4, <3>1, <3>2
  <2>12. Elements(R) = {r \in Elements(list) : ~SameNet(r, new)} \cup {new}
    <3>1. ASSUME NEW r \in Elements(R)
          PROVE  r = new \/ (r \in Elements(list) /\ ~SameNet(r, new))
      <4>1. PICK i \in 1..N + 1 : r = R[i]
        BY <2>3 DEF Elements
      <4>2. CASE i = k
        BY <2>3, <4>1, <4>2
      <4>3. CASE i < k
        BY <1>1, <2>4, <2>11, <4>1, <4>3 DEF Elements
      <4>4. CASE i > k
        BY <1>1, <2>5, <2>11, <4>1, <4>4 DEF Elements
      <4> QED BY <1>4, <4>2, <4>3, <4>4
    <3>2. ASSUME NEW r \in Elements(list)
          PROVE  r \in Elements(R)
      <4>1. PICK i \in 1..N : r = list[i]
        BY <1>1 DEF Elements
      <4>2. CASE i < k
        BY <2>3, <4>1, <4>2 DEF Elements
      <4>3. CASE i >= k
        <5>1. i + 1 \in 1..N + 1 /\ i + 1 > k /\ (i + 1) - 1 = i
          BY <1>4, <4>3
        <5>2. R[i + 1] = r
          BY <2>3, <4>1, <5>1
        <5> QED BY <2>3, <5>1, <5>2 DEF Elements
      <4> QED BY <1>4, <4>2, <4>3
    <3>3. new \in Elements(R)
      BY <1>4, <2>3 DEF Elements
    <3> QED BY <3>1, <3>2, <3>3
  <2> QED BY <2>2, <2>7, <2>9, <2>10, <2>12 DEF Fine
<1> QED BY <1>7, <1>8

\* unroute keeps the order and takes away the links of the tunnel only.
LEMMA UnrouteFacts ==
    ASSUME NEW list, Fine(list), NEW t
    PROVE  /\ Fine(Unroute(list, t))
           /\ Elements(Unroute(list, t)) = {r \in Elements(list) : r.tun # t}
<1>0. list \in Seq(Link) /\ Sorted(list) /\ \A i \in 1..Len(list) : Normal(list[i])
  BY DEF Fine
<1>1. PICK N \in Nat : N = Len(list)
  BY <1>0
<1>2. PICK R : R = Unroute(list, t)
  OBVIOUS
<1> DEFINE S == {r \in Link : r.tun # t}
<1>3. R \in Seq(Link) /\ \E h : Picks(h, R, list, S, N)
  <2>1. R = Filter(list, S)
    BY <1>2 DEF Unroute
  <2> HIDE DEF S
  <2> QED BY <1>0, <1>1, <2>1, FilterFacts
<1>4. PICK h : Picks(h, R, list, S, N)
  BY <1>3
<1>5. PICK c \in Nat : c = Len(R)
  BY <1>3
<1>6. /\ h \in [1..c -> 1..N]
      /\ \A i, j \in 1..c : i < j => h[i] < h[j]
      /\ \A i \in 1..c : R[i] = list[h[i]] /\ R[i] \in S
      /\ \A k \in 1..N : list[k] \in S => \E i \in 1..c : h[i] = k
  <2> HIDE DEF S
  <2> QED BY <1>4, <1>5 DEF Picks
<1>7. Sorted(R)
  <2> SUFFICES ASSUME NEW i \in 1..c, NEW j \in 1..c, i < j
               PROVE  Lower(R[j], R[i])
    BY <1>5 DEF Sorted
  <2>1. h[i] \in 1..N /\ h[j] \in 1..N /\ h[i] < h[j]
    BY <1>6
  <2>2. Lower(list[h[j]], list[h[i]])
    BY <1>0, <1>1, <2>1 DEF Sorted
  <2> QED BY <1>6, <2>2
<1>8. \A i \in 1..Len(R) : Normal(R[i])
  BY <1>0, <1>1, <1>5, <1>6
<1>9. \A i \in 1..N : list[i] \in Link
  BY <1>0, <1>1
<1>10. Elements(R) = {r \in Elements(list) : r.tun # t}
  <2>1. ASSUME NEW r \in Elements(R)
        PROVE  r \in Elements(list) /\ r.tun # t
    <3>1. PICK i \in 1..c : r = R[i]
      BY <1>5 DEF Elements
    <3>2. h[i] \in 1..N /\ r = list[h[i]] /\ r \in S
      BY <1>6, <3>1
    <3> QED BY <1>1, <3>2 DEF Elements
  <2>2. ASSUME NEW r \in Elements(list), r.tun # t
        PROVE  r \in Elements(R)
    <3>1. PICK k \in 1..N : r = list[k]
      BY <1>1 DEF Elements
    <3>2. list[k] \in S
      BY <1>9, <2>2, <3>1
    <3>3. PICK i \in 1..c : h[i] = k
      BY <1>6, <3>2
    <3> QED BY <1>5, <1>6, <3>1, <3>3 DEF Elements
  <2> QED BY <2>1, <2>2
<1> QED BY <1>2, <1>3, <1>7, <1>8, <1>10 DEF Fine

\* unroute4 keeps the order and takes away the narrowest network of the address.
LEMMA Unroute4Facts ==
    ASSUME NEW list, Fine(list), NEW ip \in Addr
    PROVE  /\ Fine(Unroute4(list, ip))
           /\ \/ Unroute4(list, ip) = list
              \/ \E r \in Elements(list) :
                   /\ \A s \in Elements(list) : s.ip4 = r.ip4 => s.mask <= r.mask
                   /\ Elements(Unroute4(list, ip)) = Elements(list) \ {r}
<1>0. list \in Seq(Link) /\ Sorted(list) /\ \A i \in 1..Len(list) : Normal(list[i])
  BY DEF Fine
<1>1. PICK N \in Nat : N = Len(list)
  BY <1>0
<1>2. PICK k : k = Unroute4At(list, ip)
  OBVIOUS
<1>3. \A i \in 1..N : list[i] \in Link /\ list[i].ip4 \in Nat /\ list[i].mask \in Nat
  <2>1. \A i \in 1..N : list[i] \in Link
    BY <1>0, <1>1
  <2> QED BY <2>1, LinkFacts
<1>4. /\ k \in 1..N + 1
      /\ \A i \in 1..N : i < k => ~(list[i].ip4 <= ip)
  <2> DEFINE I == {i \in DOMAIN list : list[i].ip4 <= ip}
  <2>1. I \in SUBSET (1..Len(list)) /\ k = FirstIndex(list, I)
    BY <1>0, <1>2 DEF Unroute4At
  <2>2. k \in 1..N + 1 /\ \A i \in 1..N : i < k => i \notin I
    <3> HIDE DEF I
    <3> QED BY <1>0, <1>1, <2>1, StopFacts
  <2> QED BY <1>0, <1>1, <2>2
<1>5. \A i, j \in 1..N : i < j => Lower(list[j], list[i])
  BY <1>0, <1>1 DEF Sorted
<1>6. CASE ~HasRoute4(list, ip)
  <2>1. Unroute4(list, ip) = list
    BY <1>6 DEF Unroute4
  <2> QED BY <2>1
<1>7. CASE HasRoute4(list, ip)
  <2>1. k \in 1..N /\ list[k].ip4 = ip
    BY <1>1, <1>2, <1>4, <1>7 DEF HasRoute4
  <2>2. PICK R : R = [i \in 1..N - 1 |-> IF i < k THEN list[i] ELSE list[i + 1]]
    OBVIOUS
  <2>3. Unroute4(list, ip) = R
    BY <1>1, <1>2, <1>7, <2>2 DEF Unroute4
  <2>4. N - 1 \in Nat
    BY <2>1
  <2>5. PICK h : h = [i \in 1..N - 1 |-> IF i < k THEN i ELSE i + 1]
    OBVIOUS
  <2>6. \A i \in 1..N - 1 : h[i] \in 1..N /\ h[i] # k /\ h[i] = IF i < k THEN i ELSE i + 1
    BY <2>1, <2>4, <2>5
  <2>7. \A i \in 1..N - 1 : R[i] = list[h[i]]
    BY <2>2, <2>6
  <2>8. \A i \in 1..N - 1 : R[i] \in Link
    BY <1>3, <2>6, <2>7
  <2>9. R \in Seq(Link) /\ Len(R) = N - 1
    BY <2>2, <2>4, <2>8
  <2>10. Sorted(R)
    <3> SUFFICES ASSUME NEW i \in 1..N - 1, NEW j \in 1..N - 1, i < j
                 PROVE  Lower(R[j], R[i])
      BY <2>9 DEF Sorted
    <3>1. h[i] \in 1..N /\ h[j] \in 1..N /\ h[i] < h[j]
      BY <2>1, <2>6
    <3> QED BY <1>5, <2>7, <3>1
  <2>11. \A i \in 1..Len(R) : Normal(R[i])
    BY <1>0, <1>1, <2>6, <2>7, <2>9
  <2>12. \A i \in 1..N : i # k => \E j \in 1..N - 1 : h[j] = i
    <3> SUFFICES ASSUME NEW i \in 1..N, i # k
                 PROVE  \E j \in 1..N - 1 : h[j] = i
      OBVIOUS
    <3>1. CASE i < k
      BY <2>1, <2>6, <3>1
    <3>2. CASE i > k
      <4>1. i - 1 \in 1..N - 1 /\ ~(i - 1 < k) /\ (i - 1) + 1 = i
        BY <2>1, <3>2
      <4> QED BY <2>6, <4>1
    <3> QED BY <2>1, <3>1, <3>2
  <2>13. \A i \in 1..N : i # k => list[i] # list[k]
    <3> SUFFICES ASSUME NEW i \in 1..N, i # k, list[i] = list[k] PROVE FALSE
      OBVIOUS
    <3>1. Lower(list[i], list[k]) \/ Lower(list[k], list[i])
      BY <1>5, <2>1
    <3> QED BY <1>3, <2>1, <3>1 DEF Lower
  <2>14. Elements(R) = Elements(list) \ {list[k]}
    <3>1. ASSUME NEW r \in Elements(R)
          PROVE  r \in Elements(list) /\ r # list[k]
      <4>1. PICK i \in 1..N - 1 : r = R[i]
        BY <2>9 DEF Elements
      <4>2. h[i] \in 1..N /\ r = list[h[i]] /\ h[i] # k
        BY <2>6, <2>7, <4>1
      <4> QED BY <1>1, <2>13, <4>2 DEF Elements
    <3>2. ASSUME NEW r \in Elements(list), r # list[k]
          PROVE  r \in Elements(R)
      <4>1. PICK i \in 1..N : r = list[i]
        BY <1>1 DEF Elements
      <4>2. PICK j \in 1..N - 1 : h[j] = i
        BY <2>12, <3>2, <4>1
      <4> QED BY <2>7, <2>9, <4>1, <4>2 DEF Elements
    <3> QED BY <3>1, <3>2
  <2>15. \A s \in Elements(list) : s.ip4 = list[k].ip4 => s.mask <= list[k].mask
    <3> SUFFICES ASSUME NEW s \in Elements(list), s.ip4 = list[k].ip4
                 PROVE  s.mask <= list[k].mask
      OBVIOUS
    <3>1. PICK i \in 1..N : s = list[i]
      BY <1>1 DEF Elements
    <3>2. ~(i < k)
      BY <1>3, <1>4, <2>1, <3>1
    <3>3. CASE i = k
      BY <1>3, <2>1, <3>1, <3>3
    <3>4. CASE k < i
      <4>1. Lower(list[i], list[k])
        BY <1>5, <2>1, <3>4
      <4> QED BY <1>3, <2>1, <3>1, <4>1 DEF Lower
    <3> QED BY <2>1, <3>2, <3>3, <3>4
  <2>16. list[k] \in Elements(list)
    BY <1>1, <2>1 DEF Elements
  <2> QED BY <2>3, <2>9, <2>10, <2>11, <2>14, <2>15, <2>16 DEF Fine
<1> QED BY <1>6, <1>7

-----------------------------------------------------------------------------
(* The invariant. *)

\* The invariant says that the list is as the operations keep it.
LEMMA InvIsFine ==
    IInv <=> /\ Fine(ip4_routes) /\ ip4_routes_count \in Int
             /\ ip4_default_tun_ctx \in Tuns \cup {NULL} /\ FullShiftClears \in BOOLEAN
<1>1. ASSUME ip4_routes \in Seq(Link)
      PROVE  /\ DOMAIN ip4_routes = 1..Len(ip4_routes)
             /\ Sorted(ip4_routes) <=> RoutesSorted
  <2>1. DOMAIN ip4_routes = 1..Len(ip4_routes)
    BY <1>1
  <2> QED BY <2>1 DEF Sorted, RoutesSorted
<1> QED BY <1>1, Zenon DEF IInv, TypeOK, Fine, LinksNormal

\* The empty list is sorted.
LEMMA InitInv == Init => IInv
<1> SUFFICES ASSUME Init PROVE IInv
  OBVIOUS
<1>1. ip4_routes = <<>> /\ Len(ip4_routes) = 0
  BY DEF Init
<1>2. Fine(ip4_routes)
  BY <1>1 DEF Fine, Sorted
<1> QED BY <1>2, InvIsFine DEF Init

\* Whether a list is fine depends on the list and on the build only.
LEMMA FineNext ==
    ASSUME NEW list, Fine(list), ip4_routes' = list, FullShiftClears' = FullShiftClears
    PROVE  Fine(ip4_routes)'
BY DEF Fine, Sorted, Lower, Normal, ShiftDownUp

\* Every operation keeps the invariant.
LEMMA NextInv == IInv /\ [Next]_vars => IInv'
<1> SUFFICES ASSUME IInv, [Next]_vars PROVE IInv'
  OBVIOUS
<1>0. /\ Fine(ip4_routes) /\ ip4_routes_count \in Int
      /\ ip4_default_tun_ctx \in Tuns \cup {NULL} /\ FullShiftClears \in BOOLEAN
  BY InvIsFine
<1>1. FullShiftClears' = FullShiftClears
  BY DEF Next, vars
<1>7. IInv' <=> (/\ Fine(ip4_routes) /\ ip4_routes_count \in Int
                 /\ ip4_default_tun_ctx \in Tuns \cup {NULL} /\ FullShiftClears \in BOOLEAN)'
  BY InvIsFine, PTL
<1> SUFFICES /\ Fine(ip4_routes)' /\ ip4_routes_count' \in Int
             /\ ip4_default_tun_ctx' \in Tuns \cup {NULL}
  BY <1>0, <1>1, <1>7
<1>2. ASSUME NEW ip \in Addr, NEW mask \in 0..W + 1, NEW t \in Tuns, route4(ip, mask, t)
      PROVE  /\ Fine(ip4_routes)' /\ ip4_routes_count' \in Int
             /\ ip4_default_tun_ctx' \in Tuns \cup {NULL}
  <2>1. PICK new \in Link : new = NewLink(ip, mask, t) /\ Normal(new)
    BY NewLinkFacts
  <2>2. Fine(Route4(ip4_routes, new))
    BY <1>0, <2>1, Route4Facts
  <2>3. CountAdded(ip4_routes, new) \in Int
    BY DEF CountAdded
  <2> QED BY <1>0, <1>1, <1>2, <2>1, <2>2, <2>3, FineNext DEF route4
<1>3. ASSUME NEW t \in Tuns, unroute(t)
      PROVE  /\ Fine(ip4_routes)' /\ ip4_routes_count' \in Int
             /\ ip4_default_tun_ctx' \in Tuns \cup {NULL}
  <2>1. Fine(Unroute(ip4_routes, t))
    BY <1>0, UnrouteFacts
  <2>2. Len(ip4_routes) \in Int /\ Len(Unroute(ip4_routes, t)) \in Int
    BY <1>0, <2>1 DEF Fine
  <2> QED BY <1>0, <1>1, <1>3, <2>1, <2>2, FineNext DEF unroute
<1>4. ASSUME NEW ip \in Addr, unroute4(ip)
      PROVE  /\ Fine(ip4_routes)' /\ ip4_routes_count' \in Int
             /\ ip4_default_tun_ctx' \in Tuns \cup {NULL}
  <2>1. Fine(Unroute4(ip4_routes, ip))
    BY <1>0, Unroute4Facts
  <2> QED BY <1>0, <1>1, <1>4, <2>1, FineNext DEF unroute4
<1>5. ASSUME NEW t \in Tuns, default4(t)
      PROVE  /\ Fine(ip4_routes)' /\ ip4_routes_count' \in Int
             /\ ip4_default_tun_ctx' \in Tuns \cup {NULL}
  BY <1>0, <1>1, <1>5, FineNext DEF default4
<1>6. CASE UNCHANGED vars
  BY <1>0, <1>1, <1>6, FineNext DEF vars
<1> QED BY <1>2, <1>3, <1>4, <1>5, <1>6 DEF Next

\* The list is sorted and holds network addresses in every reachable state.
THEOREM Invariance == Spec => []IInv
BY InitInv, NextInv, PTL DEF Spec

\* The links of router.c stay links: every operation leaves addresses, prefix
\* lengths and tunnels in range, whatever mask it is called with.
THEOREM TypeCorrect == Spec => []TypeOK
<1>1. IInv => TypeOK
  BY DEF IInv
<1> QED BY <1>1, Invariance, PTL

\* route4, unroute and unroute4 keep the list strictly descending.
THEOREM StaysSorted == Spec => []RoutesSorted
<1>1. IInv => RoutesSorted
  BY DEF IInv
<1> QED BY <1>1, Invariance, PTL

-----------------------------------------------------------------------------
(* What send4 finds. *)

\* A quotient is known by the multiple it leaves below the number.
LEMMA DivUnique ==
    ASSUME NEW d \in Nat, NEW p \in Nat \ {0}, NEW x \in Nat, d * p <= x, x < d * p + p
    PROVE  x \div p = d
OBVIOUS

\* The size of the network of a link.
Size(r) == Pow2[W - r.mask]

\* Where the shifts are defined, the network of a link is the Size(r) addresses
\* from r.ip4 on, and the link matches these.
LEMMA NetFacts ==
    ASSUME NEW r \in Link, Normal(r), FullShiftClears \/ r.mask > 0, NEW a \in Addr
    PROVE  /\ Size(r) \in Nat \ {0}
           /\ r.ip4 = (r.ip4 \div Size(r)) * Size(r)
           /\ Matches(r, a) <=> Contains(r, a)
           /\ Contains(r, a) <=> r.ip4 <= a /\ a < r.ip4 + Size(r)
           /\ Contains(r, a) => r.ip4 = (a \div Size(r)) * Size(r)
<1>1. PICK n \in 0..W : n = W - r.mask
  BY LinkFacts
<1>2. PICK p \in Nat \ {0} : p = Pow2[n]
  BY Pow2Facts
<1>3. n = W => FullShiftClears
  BY <1>1, LinkFacts, WAssumption
<1>4. PICK b \in Nat : b = r.ip4
  BY LinkFacts
<1>5. a \in Nat
  BY AddrFacts
<1>6. Size(r) = p /\ (Contains(r, a) <=> b \div p = a \div p)
  BY <1>1, <1>2, <1>4 DEF Size, Contains
<1>7. b = (b \div p) * p
  BY <1>1, <1>2, <1>3, <1>4 DEF Normal, ShiftDownUp
<1>8. Matches(r, a) <=> b = (a \div p) * p
  BY <1>1, <1>2, <1>3, <1>4 DEF Matches, ip4_addr_match, ShiftDownUp
<1>9. PICK d \in Nat, e \in Nat : d = b \div p /\ e = a \div p
  BY <1>4, <1>5, DivFacts
<1>10. d * p = e * p => d = e
  OBVIOUS
<1>11. e * p <= a /\ a < e * p + p
  BY <1>5, <1>9, DivFacts
<1>12. d * p <= a /\ a < d * p + p => e = d
  BY <1>5, <1>9, DivUnique
<1> QED BY <1>4, <1>6, <1>7, <1>8, <1>9, <1>10, <1>11, <1>12

\* The network of the longer prefix starts at a multiple of both sizes.
LEMMA NetOrder ==
    ASSUME NEW r \in Link, NEW s \in Link, r.mask <= s.mask, NEW a \in Nat
    PROVE  (a \div Size(r)) * Size(r) <= (a \div Size(s)) * Size(s)
<1>1. W - r.mask \in 0..W /\ W - s.mask \in 0..W - r.mask /\ W - s.mask \in 0..W
  BY LinkFacts, WAssumption
<1>2. PICK p \in Nat \ {0} : p = Size(s)
  BY <1>1, Pow2Facts DEF Size
<1>3. PICK c \in Nat \ {0} : Size(r) = c * p
  BY <1>1, <1>2, Pow2Divides DEF Size
<1> QED BY <1>2, <1>3, DivCoarse

\* The link that send4 stops at.
LEMMA LookupFacts ==
    ASSUME NEW list \in Seq(Link), NEW a \in Addr
    PROVE  \E k \in 1..Len(list) + 1 :
             /\ Lookup(list, a) = IF k <= Len(list) /\ Matches(list[k], a) THEN k ELSE 0
             /\ k <= Len(list) => Matches(list[k], a) \/ list[k].ip4 < a
             /\ \A i \in 1..Len(list) : i < k => ~Matches(list[i], a) /\ ~(list[i].ip4 < a)
<1> DEFINE I == {i \in DOMAIN list : Matches(list[i], a) \/ list[i].ip4 < a}
<1>1. PICK k : k = FirstIndex(list, I)
  OBVIOUS
<1>2. Lookup(list, a) = IF k <= Len(list) /\ Matches(list[k], a) THEN k ELSE 0
  BY <1>1 DEF Lookup
<1>3. I \in SUBSET (1..Len(list))
  OBVIOUS
<1>4. /\ k \in 1..Len(list) + 1 /\ (k <= Len(list) => k \in I)
      /\ \A i \in 1..Len(list) : i < k => i \notin I
  <2> HIDE DEF I
  <2> QED BY <1>1, <1>3, StopFacts
<1>5. k <= Len(list) => Matches(list[k], a) \/ list[k].ip4 < a
  BY <1>4
<1>6. \A i \in 1..Len(list) : i < k => ~Matches(list[i], a) /\ ~(list[i].ip4 < a)
  BY <1>4
<1> QED BY <1>2, <1>4, <1>5, <1>6

\* In a sorted list of network addresses the first match has the longest prefix: a
\* match with a longer one would have an address at least as high and stand before it.
LEMMA InvMatch == IInv => MatchIsLongest
<1> SUFFICES ASSUME IInv, ShiftsDefined, NEW a \in Addr, Lookup(ip4_routes, a) # 0
             PROVE  ip4_routes[Lookup(ip4_routes, a)] \in LongestMatch(a)
  BY DEF MatchIsLongest
<1>1. PICK list \in Seq(Link) : list = ip4_routes
  BY DEF IInv, TypeOK
<1>2. PICK N \in Nat : N = Len(list) /\ DOMAIN list = 1..N
  OBVIOUS
<1>3. /\ \A i \in 1..N : list[i] \in Link /\ Normal(list[i])
      /\ \A i \in 1..N : FullShiftClears \/ list[i].mask > 0
      /\ \A i, j \in 1..N : i < j => Lower(list[j], list[i])
  BY <1>1, <1>2 DEF IInv, LinksNormal, RoutesSorted, ShiftsDefined, LinkSet
<1>4. PICK k \in 1..N + 1 :
             /\ Lookup(list, a) = IF k <= N /\ Matches(list[k], a) THEN k ELSE 0
             /\ \A i \in 1..N : i < k => ~Matches(list[i], a) /\ ~(list[i].ip4 < a)
  BY <1>1, <1>2, LookupFacts
<1>5. k \in 1..N /\ Matches(list[k], a) /\ Lookup(list, a) = k
  BY <1>1, <1>4
<1>6. PICK r \in Link : r = list[k] /\ Normal(r) /\ (FullShiftClears \/ r.mask > 0)
  BY <1>3, <1>5
<1>7. Contains(r, a) /\ r.ip4 = (a \div Size(r)) * Size(r)
  BY <1>5, <1>6, NetFacts
<1>8. ASSUME NEW s \in LinkSet, Contains(s, a)
      PROVE  s.mask <= r.mask
  <2>1. PICK j \in 1..N : s = list[j]
    BY <1>1, <1>2 DEF LinkSet
  <2>2. s \in Link /\ Normal(s) /\ (FullShiftClears \/ s.mask > 0)
    BY <1>3, <2>1
  <2>3. Matches(s, a) /\ s.ip4 = (a \div Size(s)) * Size(s)
    BY <1>8, <2>2, NetFacts
  <2>4. r.mask \in Nat /\ s.mask \in Nat /\ r.ip4 \in Nat /\ s.ip4 \in Nat /\ a \in Nat
    BY <2>2, LinkFacts, AddrFacts
  <2>5. CASE j = k
    BY <1>6, <2>1, <2>4, <2>5
  <2>6. CASE k < j
    <3>1. Lower(s, r)
      BY <1>3, <1>5, <1>6, <2>1, <2>6
    <3>2. r.mask <= s.mask => r.ip4 <= s.ip4
      BY <1>7, <2>2, <2>3, <2>4, NetOrder
    <3> QED BY <2>4, <3>1, <3>2 DEF Lower
  <2>7. ~(j < k)
    BY <1>4, <2>1, <2>3
  <2> QED BY <1>5, <2>5, <2>6, <2>7
<1>9. r \in LinkSet
  BY <1>1, <1>2, <1>5, <1>6 DEF LinkSet
<1> QED BY <1>1, <1>5, <1>6, <1>7, <1>8, <1>9 DEF LongestMatch

\* If send4 stops at a lower link before it reaches one that contains the address,
\* then that lower link lies inside the network of the other.
LEMMA InvDisjoint == IInv => DisjointComplete
<1> SUFFICES ASSUME IInv, ShiftsDefined, NEW a \in Addr, Lookup(ip4_routes, a) = 0,
                    NEW r \in LinkSet, Contains(r, a)
             PROVE  Nested
  BY DEF DisjointComplete
<1>1. PICK list \in Seq(Link) : list = ip4_routes
  BY DEF IInv, TypeOK
<1>2. PICK N \in Nat : N = Len(list) /\ DOMAIN list = 1..N
  OBVIOUS
<1>3. /\ \A i \in 1..N : list[i] \in Link /\ Normal(list[i])
      /\ \A i \in 1..N : FullShiftClears \/ list[i].mask > 0
      /\ \A i, j \in 1..N : i < j => Lower(list[j], list[i])
  BY <1>1, <1>2 DEF IInv, LinksNormal, RoutesSorted, ShiftsDefined, LinkSet
<1>4. PICK k \in 1..N + 1 :
             /\ Lookup(list, a) = IF k <= N /\ Matches(list[k], a) THEN k ELSE 0
             /\ k <= N => Matches(list[k], a) \/ list[k].ip4 < a
             /\ \A i \in 1..N : i < k => ~Matches(list[i], a) /\ ~(list[i].ip4 < a)
  BY <1>1, <1>2, LookupFacts
<1>5. PICK j \in 1..N : r = list[j]
  BY <1>1, <1>2 DEF LinkSet
<1>6. r \in Link /\ Normal(r) /\ (FullShiftClears \/ r.mask > 0)
  BY <1>3, <1>5
<1>7. Matches(r, a) /\ r.ip4 <= a /\ a < r.ip4 + Size(r) /\ Size(r) \in Nat
  BY <1>6, NetFacts
<1>8. ~(j < k)
  BY <1>4, <1>5, <1>7
<1>9. k \in 1..N /\ ~Matches(list[k], a)
  BY <1>1, <1>4, <1>8
<1>10. PICK q \in Link : q = list[k]
  BY <1>3, <1>9
<1>11. q.ip4 < a /\ Normal(q) /\ (FullShiftClears \/ q.mask > 0)
  BY <1>3, <1>4, <1>9, <1>10
<1>12. k < j /\ r # q
  BY <1>5, <1>7, <1>8, <1>9, <1>10
<1>13. Lower(r, q)
  BY <1>3, <1>5, <1>9, <1>10, <1>12
<1>14. /\ r.mask \in Nat /\ q.mask \in Nat /\ r.ip4 \in Nat /\ q.ip4 \in Nat /\ a \in Nat
       /\ q.ip4 \in Addr
  BY <1>6, LinkFacts, AddrFacts
<1>15. r.ip4 <= q.ip4 /\ q.ip4 < r.ip4 + Size(r)
  BY <1>7, <1>11, <1>13, <1>14 DEF Lower
<1>16. Contains(r, q.ip4) /\ r.ip4 = (q.ip4 \div Size(r)) * Size(r)
  BY <1>6, <1>14, <1>15, NetFacts
<1>17. r.mask <= q.mask
  <2> SUFFICES ASSUME q.mask < r.mask PROVE FALSE
    BY <1>14
  <2>1. q.ip4 = (q.ip4 \div Size(q)) * Size(q)
    BY <1>11, <1>14, NetFacts
  <2>2. q.ip4 <= r.ip4
    BY <1>6, <1>14, <1>16, <2>1, NetOrder
  <2> QED BY <1>13, <1>14, <2>2 DEF Lower
<1>18. q \in LinkSet
  BY <1>1, <1>2, <1>9, <1>10 DEF LinkSet
<1> QED BY <1>12, <1>16, <1>17, <1>18 DEF Nested

\* The link that send4 takes has the longest prefix that contains the
\* destination, for every width of addresses and every list route4 can build.
THEOREM LongestPrefix == Spec => []MatchIsLongest
BY Invariance, InvMatch, PTL

\* send4 falls back to the default route only for addresses that no link
\* contains, as long as no network lies inside another one.
THEOREM FallbackComplete == Spec => []DisjointComplete
BY Invariance, InvDisjoint, PTL

-----------------------------------------------------------------------------
(* The list implements the set of routes. *)

\* The tunnels of the networks, from the links of a list.
ViaOf(E) ==
    [n \in Nets |->
        IF \E r \in E : SameNet(r, n) THEN (CHOOSE r \in E : SameNet(r, n)).tun ELSE NULL]

\* v is the set of routes that E stands for.
StandsFor(v, E) ==
    /\ v = [n \in Nets |-> v[n]]
    /\ \A n \in Nets : \A r \in E : SameNet(r, n) => v[n] = r.tun
    /\ \A n \in Nets : (\A r \in E : ~SameNet(r, n)) => v[n] = NULL

\* The links of a list that is fine give each network one tunnel.
LEMMA ViaFacts ==
    ASSUME NEW list, Fine(list)
    PROVE  /\ StandsFor(ViaOf(Elements(list)), Elements(list))
           /\ \A r \in Elements(list) :
                /\ r \in Link /\ r.tun \in Tuns /\ r.tun # NULL
                /\ \A s \in Elements(list) : SameNet(r, s) => r = s
<1>1. PICK E : E = Elements(list)
  OBVIOUS
<1>2. \A r \in E : r \in Link
  <2>1. \A i \in 1..Len(list) : list[i] \in Link
    BY DEF Fine
  <2> QED BY <1>1, <2>1 DEF Elements
<1>3. \A r \in E : r.tun \in Tuns /\ r.tun # NULL
  BY <1>2, LinkFacts, NullAssumption
<1>4. \A r, s \in E : SameNet(r, s) => r = s
  BY <1>1, OneLink
<1>5. ASSUME NEW n \in Nets, NEW r \in E, SameNet(r, n)
      PROVE  ViaOf(E)[n] = r.tun
  <2>1. PICK c : c = CHOOSE q \in E : SameNet(q, n)
    OBVIOUS
  <2>2. c \in E /\ SameNet(c, n)
    BY <1>5, <2>1
  <2>3. SameNet(c, r)
    BY <1>5, <2>2 DEF SameNet
  <2>4. c = r
    BY <1>4, <2>2, <2>3
  <2> QED BY <1>5, <2>1, <2>4 DEF ViaOf
<1>6. ASSUME NEW n \in Nets, \A r \in E : ~SameNet(r, n)
      PROVE  ViaOf(E)[n] = NULL
  BY <1>6 DEF ViaOf
<1>7. ViaOf(E) = [n \in Nets |-> ViaOf(E)[n]]
  BY DEF ViaOf
<1> QED BY <1>1, <1>2, <1>3, <1>4, <1>5, <1>6, <1>7 DEF StandsFor

\* A set of routes is known by the tunnel of each network.
LEMMA SameRoutes ==
    ASSUME NEW v, NEW w, v = [n \in Nets |-> v[n]], w = [n \in Nets |-> w[n]],
           \A n \in Nets : v[n] = w[n]
    PROVE  v = w
<1> QED OBVIOUS

\* The network of a link.
NetOf(r) == [ip4 |-> r.ip4, mask |-> r.mask]
\* A link belongs to one network.
LEMMA NetOfFacts ==
    ASSUME NEW r \in Link
    PROVE  /\ NetOf(r) \in Nets /\ SameNet(r, NetOf(r))
           /\ NetOf(r).ip4 = r.ip4 /\ NetOf(r).mask = r.mask
           /\ \A n \in Nets : SameNet(r, n) => n = NetOf(r)
BY DEF NetOf, Nets, Link, SameNet

\* route4 gives one network to a tunnel.
LEMMA AssignRoute ==
    ASSUME NEW E, NEW F, NEW v, NEW w, StandsFor(v, E), StandsFor(w, F),
           NEW new \in Link, F = {r \in E : ~SameNet(r, new)} \cup {new}
    PROVE  w = [v EXCEPT ![NetOf(new)] = new.tun]
<1>1. PICK u : u = [v EXCEPT ![NetOf(new)] = new.tun]
  OBVIOUS
<1>2. /\ v = [n \in Nets |-> v[n]]
      /\ \A n \in Nets : \A r \in E : SameNet(r, n) => v[n] = r.tun
      /\ \A n \in Nets : (\A r \in E : ~SameNet(r, n)) => v[n] = NULL
  BY DEF StandsFor
<1>3. /\ w = [n \in Nets |-> w[n]]
      /\ \A n \in Nets : \A r \in F : SameNet(r, n) => w[n] = r.tun
      /\ \A n \in Nets : (\A r \in F : ~SameNet(r, n)) => w[n] = NULL
  BY DEF StandsFor
<1>4. /\ u = [n \in Nets |-> u[n]] /\ u[NetOf(new)] = new.tun
      /\ \A n \in Nets : n # NetOf(new) => u[n] = v[n]
  <2>1. NetOf(new) \in Nets
    BY NetOfFacts
  <2> HIDE DEF Nets
  <2> QED BY <1>1, <1>2, <2>1
<1>5. ASSUME NEW n \in Nets PROVE u[n] = w[n]
  <2>1. CASE n = NetOf(new)
    BY <1>3, <1>4, <2>1, NetOfFacts
  <2>2. CASE n # NetOf(new)
    <3>1. ~SameNet(new, n)
      BY <2>2, NetOfFacts
    <3>2. CASE \E r \in E : SameNet(r, n)
      <4>1. PICK r \in E : SameNet(r, n)
        BY <3>2
      <4>2. ~SameNet(r, new)
        BY <3>1, <4>1 DEF SameNet
      <4> QED BY <1>2, <1>3, <1>4, <2>2, <4>1, <4>2
    <3>3. CASE \A r \in E : ~SameNet(r, n)
      BY <1>2, <1>3, <1>4, <2>2, <3>1, <3>3
    <3> QED BY <3>2, <3>3
  <2> QED BY <2>1, <2>2
<1> QED BY <1>1, <1>3, <1>4, <1>5, SameRoutes

\* w is v without the routes through t.
Without(v, t, w) == w = [n \in Nets |-> IF v[n] = t THEN NULL ELSE v[n]]

\* unroute takes the networks of one tunnel.
LEMMA ForgetRoutes ==
    ASSUME NEW E, NEW F, NEW v, NEW w, StandsFor(v, E), StandsFor(w, F),
           NEW t, t # NULL, F = {r \in E : r.tun # t},
           \A r, s \in E : SameNet(r, s) => r = s
    PROVE  Without(v, t, w)
<1>1. PICK u : u = [n \in Nets |-> IF v[n] = t THEN NULL ELSE v[n]]
  OBVIOUS
<1>2. /\ \A n \in Nets : \A r \in E : SameNet(r, n) => v[n] = r.tun
      /\ \A n \in Nets : (\A r \in E : ~SameNet(r, n)) => v[n] = NULL
  BY DEF StandsFor
<1>3. /\ w = [n \in Nets |-> w[n]]
      /\ \A n \in Nets : \A r \in F : SameNet(r, n) => w[n] = r.tun
      /\ \A n \in Nets : (\A r \in F : ~SameNet(r, n)) => w[n] = NULL
  BY DEF StandsFor
<1>4. /\ u = [n \in Nets |-> u[n]]
      /\ \A n \in Nets : u[n] = IF v[n] = t THEN NULL ELSE v[n]
  BY <1>1
<1>5. ASSUME NEW n \in Nets PROVE u[n] = w[n]
  <2>1. CASE \E r \in E : SameNet(r, n)
    <3>1. PICK r \in E : SameNet(r, n)
      BY <2>1
    <3>2. CASE r.tun = t
      <4>1. \A s \in F : ~SameNet(s, n)
        <5> SUFFICES ASSUME NEW s \in F, SameNet(s, n) PROVE FALSE
          OBVIOUS
        <5>1. SameNet(s, r) /\ s \in E /\ s.tun # t
          BY <3>1 DEF SameNet
        <5> QED BY <3>1, <3>2, <5>1
      <4> QED BY <1>2, <1>3, <1>4, <3>1, <3>2, <4>1
    <3>3. CASE r.tun # t
      BY <1>2, <1>3, <1>4, <3>1, <3>3
    <3> QED BY <3>2, <3>3
  <2>2. CASE \A r \in E : ~SameNet(r, n)
    BY <1>2, <1>3, <1>4, <2>2
  <2> QED BY <2>1, <2>2
<1> QED BY <1>1, <1>3, <1>4, <1>5, SameRoutes DEF Without

\* unroute4 takes one network.
LEMMA WithdrawRoute ==
    ASSUME NEW E, NEW F, NEW v, NEW w, StandsFor(v, E), StandsFor(w, F),
           NEW q \in E, q \in Link, F = E \ {q},
           \A r, s \in E : SameNet(r, s) => r = s
    PROVE  w = [v EXCEPT ![NetOf(q)] = NULL]
<1>1. PICK u : u = [v EXCEPT ![NetOf(q)] = NULL]
  OBVIOUS
<1>2. /\ v = [n \in Nets |-> v[n]]
      /\ \A n \in Nets : \A r \in E : SameNet(r, n) => v[n] = r.tun
      /\ \A n \in Nets : (\A r \in E : ~SameNet(r, n)) => v[n] = NULL
  BY DEF StandsFor
<1>3. /\ w = [n \in Nets |-> w[n]]
      /\ \A n \in Nets : \A r \in F : SameNet(r, n) => w[n] = r.tun
      /\ \A n \in Nets : (\A r \in F : ~SameNet(r, n)) => w[n] = NULL
  BY DEF StandsFor
<1>4. /\ u = [n \in Nets |-> u[n]] /\ u[NetOf(q)] = NULL
      /\ \A n \in Nets : n # NetOf(q) => u[n] = v[n]
  <2>1. NetOf(q) \in Nets
    BY NetOfFacts
  <2> HIDE DEF Nets
  <2> QED BY <1>1, <1>2, <2>1
<1>5. ASSUME NEW n \in Nets PROVE u[n] = w[n]
  <2>1. CASE n = NetOf(q)
    <3>1. \A s \in F : ~SameNet(s, n)
      <4> SUFFICES ASSUME NEW s \in F, SameNet(s, n) PROVE FALSE
        OBVIOUS
      <4>1. SameNet(q, n)
        BY <2>1, NetOfFacts
      <4>2. SameNet(s, q) /\ s \in E /\ s # q
        BY <4>1 DEF SameNet
      <4> QED BY <4>2
    <3> QED BY <1>3, <1>4, <2>1, <3>1
  <2>2. CASE n # NetOf(q)
    <3>1. ~SameNet(q, n)
      BY <2>2, NetOfFacts
    <3>2. CASE \E r \in E : SameNet(r, n)
      BY <1>2, <1>3, <1>4, <2>2, <3>1, <3>2
    <3>3. CASE \A r \in E : ~SameNet(r, n)
      BY <1>2, <1>3, <1>4, <2>2, <3>3
    <3> QED BY <3>2, <3>3
  <2> QED BY <2>1, <2>2
<1> QED BY <1>1, <1>3, <1>4, <1>5, SameRoutes

\* The empty list stands for the empty set of routes.
LEMMA InitMaps == Init => Abstract!Init
<1> SUFFICES ASSUME Init PROVE Abstract!Init
  OBVIOUS
<1>1. LinkSet = {}
  BY DEF Init, LinkSet
<1>2. Via = [n \in Nets |-> NULL]
  BY <1>1 DEF Via
<1> QED BY <1>2 DEF Init, Abstract!Init

\* Every operation on the list is an operation on the set of routes, or changes nothing.
LEMMA NextMaps ==
    IInv /\ IInv' /\ [Next]_vars => [Abstract!Next]_<<Via, ip4_default_tun_ctx>>
<1> SUFFICES ASSUME IInv, IInv', [Next]_vars
             PROVE  [Abstract!Next]_<<Via, ip4_default_tun_ctx>>
  OBVIOUS
<1>1. PICK E, F : E = Elements(ip4_routes) /\ F = Elements(ip4_routes')
  OBVIOUS
<1>2. Fine(ip4_routes)
  BY InvIsFine
<1>3. FullShiftClears' = FullShiftClears
  BY DEF Next, vars
<1>4. Fine(ip4_routes')
  <2>1. Fine(ip4_routes)'
    BY InvIsFine, PTL
  <2> QED BY <1>3, <2>1 DEF Fine, Sorted, Lower, Normal, ShiftDownUp
<1>5. PICK v, w : v = Via /\ w = Via'
  OBVIOUS
<1>6. v = ViaOf(E) /\ w = ViaOf(F)
  <2>1. LinkSet = E /\ LinkSet' = F
    BY <1>1, <1>2, <1>4 DEF LinkSet, Elements, Fine
  <2> QED BY <1>5, <2>1 DEF Via, ViaOf, SameNet, Nets, Addr
<1>7. /\ StandsFor(v, E) /\ StandsFor(w, F)
      /\ \A r, s \in E : SameNet(r, s) => r = s
      /\ \A r \in E : r \in Link /\ r.tun # NULL
  BY <1>1, <1>2, <1>4, <1>6, ViaFacts
<1>8. ASSUME NEW ip \in Addr, NEW mask \in 0..W + 1, NEW t \in Tuns, route4(ip, mask, t)
      PROVE  Abstract!Assign
  <2>1. PICK new \in Link : new = NewLink(ip, mask, t) /\ Normal(new)
    BY NewLinkFacts
  <2>2. ip4_routes' = Route4(ip4_routes, new) /\ UNCHANGED ip4_default_tun_ctx
    BY <1>8, <2>1 DEF route4
  <2>3. F = {r \in E : ~SameNet(r, new)} \cup {new}
    BY <1>1, <1>2, <2>1, <2>2, Route4Facts
  <2>4. w = [v EXCEPT ![NetOf(new)] = new.tun]
    BY <1>7, <2>3, AssignRoute
  <2>5. NetOf(new) \in Nets /\ new.tun \in Tuns
    BY NetOfFacts, LinkFacts
  <2> QED BY <1>5, <2>2, <2>4, <2>5 DEF Abstract!Assign
<1>9. ASSUME NEW t \in Tuns, unroute(t)
      PROVE  Abstract!Forget
  <2>1. /\ ip4_routes' = Unroute(ip4_routes, t)
        /\ ip4_default_tun_ctx' = IF ip4_default_tun_ctx = t THEN NULL
                                  ELSE ip4_default_tun_ctx
    BY <1>9 DEF unroute
  <2>2. F = {r \in E : r.tun # t} /\ t # NULL
    BY <1>1, <1>2, <2>1, UnrouteFacts, NullAssumption
  <2>3. Without(v, t, w)
    BY <1>7, <2>2, ForgetRoutes
  <2> QED BY <1>5, <2>1, <2>3 DEF Abstract!Forget, Without
<1>10. ASSUME NEW ip \in Addr, unroute4(ip)
       PROVE  Abstract!Withdraw \/ UNCHANGED <<Via, ip4_default_tun_ctx>>
  <2>1. ip4_routes' = Unroute4(ip4_routes, ip) /\ UNCHANGED ip4_default_tun_ctx
    BY <1>10 DEF unroute4
  <2>2. CASE ip4_routes' = ip4_routes
    <3>1. w = v
      BY <1>1, <1>6, <2>2
    <3> QED BY <1>5, <2>1, <3>1
  <2>3. CASE ip4_routes' # ip4_routes
    <3>1. PICK q \in E : /\ \A s \in E : s.ip4 = q.ip4 => s.mask <= q.mask
                         /\ F = E \ {q}
      BY <1>1, <1>2, <2>1, <2>3, Unroute4Facts
    <3>2. q \in Link /\ q.tun # NULL
      BY <1>7
    <3>3. PICK n \in Nets : n = NetOf(q)
      BY <3>2, NetOfFacts
    <3>4. SameNet(q, n) /\ n.ip4 = q.ip4 /\ n.mask = q.mask
      BY <3>2, <3>3, NetOfFacts
    <3>5. v[n] # NULL
      BY <1>7, <3>2, <3>4 DEF StandsFor
    <3>6. ASSUME NEW m \in Nets, v[m] # NULL, m.ip4 = n.ip4
          PROVE  m.mask <= n.mask
      <4>1. PICK r \in E : SameNet(r, m)
        BY <1>7, <3>6 DEF StandsFor
      <4> QED BY <3>1, <3>4, <3>6, <4>1 DEF SameNet
    <3>7. w = [v EXCEPT ![n] = NULL]
      BY <1>7, <3>1, <3>2, <3>3, WithdrawRoute
    <3>8. Abstract!Withdraw
      BY <1>5, <2>1, <3>5, <3>6, <3>7 DEF Abstract!Withdraw
    <3> QED BY <3>8
  <2> QED BY <2>2, <2>3
<1>11. ASSUME NEW t \in Tuns, default4(t)
       PROVE  Abstract!SetDefault
  <2>1. ip4_routes' = ip4_routes /\ ip4_default_tun_ctx' = t
    BY <1>11 DEF default4
  <2>2. w = v
    BY <1>1, <1>6, <2>1
  <2> QED BY <1>5, <2>1, <2>2 DEF Abstract!SetDefault
<1>12. CASE UNCHANGED vars
  <2>1. ip4_routes' = ip4_routes /\ ip4_default_tun_ctx' = ip4_default_tun_ctx
    BY <1>12 DEF vars
  <2>2. w = v
    BY <1>1, <1>6, <2>1
  <2> QED BY <1>5, <2>1, <2>2
<1> QED BY <1>8, <1>9, <1>10, <1>11, <1>12 DEF Next, Abstract!Next

\* The list operations of router.c implement the abstract set of routes: each
\* gives, takes back or withdraws exactly the networks RouteSet says.
THEOREM Refinement == Spec => ImplementsRouteSet
BY InitMaps, NextMaps, Invariance, PTL DEF Spec, ImplementsRouteSet, Abstract!Spec
=============================================================================
