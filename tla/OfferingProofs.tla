--------------------------- MODULE OfferingProofs ---------------------------
(***************************************************************************)
(* An offering, for any holders, orders, votes and bids.                   *)
(*                                                                         *)
(*   Amounts: what the elements of a set have together is the number of    *)
(*   its units told apart, so sums are cardinalities.                      *)
(*                                                                         *)
(*   Distributions: a payout is owed whole, in shares that follow the      *)
(*   holdings to the last paisa, every share is paid once, and declaring   *)
(*   and claiming implement Payout.                                        *)
(*                                                                         *)
(*   Reservation: the orders that take tokens fit the offering and the cap *)
(*   of their person, since what an order has read under the lock is no    *)
(*   less than what was taken before it.                                   *)
(*                                                                         *)
(*   Governance: a tally stands because the votes of an ended proposal do  *)
(*   not change any more, and no vote weighs more than there is because    *)
(*   the wallets of a voter are counted once each.                         *)
(*                                                                         *)
(*   Buy-back: a call that reaches the booking has seen its transfer, and  *)
(*   a booked sale adds what it says to the count of the bid.              *)
(***************************************************************************)
EXTENDS Offering, FiniteSetTheorems, TLAPS

\* The units of f over S, told apart, and how many they are.
Pile(f, S) == UNION {{x} \X (1..f[x]) : x \in S}
Amount(f, S) == Cardinality(Pile(f, S))

LEMMA PileFinite ==
  ASSUME NEW S, IsFiniteSet(S), NEW f, \A x \in S : f[x] \in Nat
  PROVE  IsFiniteSet(Pile(f, S)) /\ Amount(f, S) \in Nat
<1> DEFINE Of(x) == {x} \X (1..f[x])
           Parts == {Of(x) : x \in S}
           part == [x \in S |-> Of(x)]
<1>1. \A x \in S : IsFiniteSet(Of(x))
  <2> TAKE x \in S
  <2>1. f[x] \in Int /\ 1 \in Int
    OBVIOUS
  <2>2. IsFiniteSet(1..f[x])
    BY <2>1, FS_Interval
  <2>3. IsFiniteSet({x})
    BY FS_Singleton
  <2> QED BY <2>2, <2>3, FS_Product
<1>2. part \in Surjection(S, Parts)
  BY DEF Surjection
<1>3. IsFiniteSet(Parts)
  BY <1>2, FS_Surjection
<1>4. \A T \in Parts : IsFiniteSet(T)
  BY <1>1
<1>5. IsFiniteSet(UNION Parts)
  BY <1>3, <1>4, FS_UNION
<1>6. IsFiniteSet(Pile(f, S))
  BY <1>5 DEF Pile
<1> QED BY <1>6, FS_CardinalityType DEF Amount

\* A unit is one of S and a number up to what it has.
LEMMA PileIs ==
  ASSUME NEW S, NEW f, \A x \in S : f[x] \in Nat, NEW u
  PROVE  u \in Pile(f, S) <=> \E x \in S : \E n \in Nat : u = <<x, n>> /\ 1 <= n /\ n <= f[x]
<1>1. ASSUME u \in Pile(f, S)
      PROVE  \E x \in S : \E n \in Nat : u = <<x, n>> /\ 1 <= n /\ n <= f[x]
  <2>1. PICK x \in S : u \in {x} \X (1..f[x])
    BY <1>1 DEF Pile
  <2>2. PICK n \in 1..f[x] : u = <<x, n>>
    BY <2>1
  <2>3. n \in Nat /\ 1 <= n /\ n <= f[x]
    BY <2>2
  <2> QED BY <2>2, <2>3
<1>2. ASSUME NEW x \in S, NEW n \in Nat, u = <<x, n>>, 1 <= n, n <= f[x]
      PROVE  u \in Pile(f, S)
  <2>1. n \in 1..f[x]
    BY <1>2
  <2> QED BY <1>2, <2>1 DEF Pile
<1> QED BY <1>1, <1>2

LEMMA PileHas ==
  ASSUME NEW S, NEW f, \A x \in S : f[x] \in Nat, NEW x \in S, NEW n \in Nat
  PROVE  <<x, n>> \in Pile(f, S) <=> 1 <= n /\ n <= f[x]
BY PileIs

\* Equal functions have equal piles.
LEMMA PileSame ==
  ASSUME NEW S, NEW f, NEW g, \A x \in S : f[x] = g[x]
  PROVE  Pile(f, S) = Pile(g, S)
BY DEF Pile

\* Fewer hold no more.
LEMMA AmountMonotone ==
  ASSUME NEW S, IsFiniteSet(S), NEW f, \A x \in S : f[x] \in Nat, NEW T \in SUBSET S
  PROVE  Amount(f, T) <= Amount(f, S)
<1>1. Pile(f, T) \in SUBSET Pile(f, S)
  BY DEF Pile
<1>2. IsFiniteSet(Pile(f, S))
  BY PileFinite
<1> QED BY <1>1, <1>2, FS_Subset DEF Amount

\* What is the amount of one.
LEMMA PileOne ==
  ASSUME NEW x, NEW n \in Nat
  PROVE  IsFiniteSet({x} \X (1..n)) /\ Cardinality({x} \X (1..n)) = n
<1>1. IsFiniteSet(1..n) /\ Cardinality(1..n) = n
  BY FS_Interval
<1>2. IsFiniteSet({x}) /\ Cardinality({x}) = 1
  BY FS_Singleton
<1>3. IsFiniteSet({x} \X (1..n)) /\ Cardinality({x} \X (1..n)) = 1 * n
  BY <1>1, <1>2, FS_Product
<1> QED BY <1>3

\* One more adds what it has.
LEMMA AmountAdd ==
  ASSUME NEW S, IsFiniteSet(S), NEW f, \A x \in S : f[x] \in Nat, NEW y \in S, NEW T \in SUBSET S,
         y \notin T
  PROVE  Amount(f, T \cup {y}) = Amount(f, T) + f[y]
<1> DEFINE Of == {y} \X (1..f[y])
<1>1. Pile(f, T \cup {y}) = Pile(f, T) \cup Of
  BY DEF Pile
<1>2. Pile(f, T) \cap Of = {}
  BY DEF Pile
<1>3. IsFiniteSet(Of) /\ Cardinality(Of) = f[y]
  BY PileOne
<1>4. IsFiniteSet(T)
  BY FS_Subset
<1>5. IsFiniteSet(Pile(f, T)) /\ Cardinality(Pile(f, T)) \in Nat
  BY <1>4, PileFinite DEF Amount
<1> HIDE DEF Of
<1>6. Cardinality(Pile(f, T) \cap Of) = 0
  BY <1>2, FS_EmptySet
<1>7. Cardinality(Pile(f, T) \cup Of)
        = Cardinality(Pile(f, T)) + Cardinality(Of) - Cardinality(Pile(f, T) \cap Of)
  BY <1>3, <1>5, FS_Union
<1>8. f[y] \in Nat
  OBVIOUS
<1>9. Cardinality(Pile(f, T) \cup Of) = Cardinality(Pile(f, T)) + f[y]
  BY <1>3, <1>5, <1>6, <1>7, <1>8
<1>10. Cardinality(Pile(f, T \cup {y})) = Cardinality(Pile(f, T)) + f[y]
  BY <1>1, <1>9
<1> QED BY <1>10 DEF Amount

\* Amounts add up pointwise.
LEMMA AmountPlus ==
  ASSUME NEW S, IsFiniteSet(S), NEW f, NEW g, NEW h,
         \A x \in S : f[x] \in Nat /\ g[x] \in Nat /\ h[x] = f[x] + g[x]
  PROVE  Amount(h, S) = Amount(f, S) + Amount(g, S)
<1> DEFINE up == [u \in Pile(g, S) |-> <<u[1], f[u[1]] + u[2]>>]
           Over == {up[u] : u \in Pile(g, S)}
<1>1. \A x \in S : f[x] \in Nat
  OBVIOUS
<1>2. \A x \in S : g[x] \in Nat
  OBVIOUS
<1>3. \A x \in S : h[x] \in Nat /\ h[x] = f[x] + g[x]
  OBVIOUS
<1>4. IsFiniteSet(Pile(f, S)) /\ Amount(f, S) \in Nat
  BY <1>1, PileFinite
<1>5. IsFiniteSet(Pile(g, S)) /\ Amount(g, S) \in Nat
  BY <1>2, PileFinite
<1>6. \A u \in Pile(g, S) : /\ u[1] \in S /\ u[2] \in Nat /\ u = <<u[1], u[2]>>
                            /\ 1 <= u[2] /\ u[2] <= g[u[1]]
  <2> TAKE u \in Pile(g, S)
  <2>1. PICK x \in S : \E n \in Nat : u = <<x, n>> /\ 1 <= n /\ n <= g[x]
    BY <1>2, PileIs
  <2>2. PICK n \in Nat : u = <<x, n>> /\ 1 <= n /\ n <= g[x]
    BY <2>1
  <2> QED BY <2>2
<1>7. up \in Bijection(Pile(g, S), Over)
  <2>1. up \in [Pile(g, S) -> Over]
    OBVIOUS
  <2>2. ASSUME NEW u \in Pile(g, S), NEW v \in Pile(g, S), up[u] = up[v] PROVE u = v
    <3>1. u[1] = v[1] /\ f[u[1]] + u[2] = f[v[1]] + v[2]
      BY <2>2
    <3>2. f[u[1]] \in Nat /\ u[2] \in Nat /\ v[2] \in Nat
      BY <1>1, <1>6
    <3>3. u[2] = v[2]
      BY <3>1, <3>2
    <3> QED BY <1>6, <3>1, <3>3
  <2>3. \A t \in Over : \E u \in Pile(g, S) : up[u] = t
    OBVIOUS
  <2> QED BY <2>1, <2>2, <2>3 DEF Bijection, Injection, Surjection, IsInjective
<1>8. IsFiniteSet(Over) /\ Cardinality(Over) = Cardinality(Pile(g, S))
  BY <1>5, <1>7, FS_Bijection DEF ExistsBijection
<1>9. Pile(f, S) \cap Over = {}
  <2> SUFFICES ASSUME NEW t \in Pile(f, S), t \in Over PROVE FALSE
    OBVIOUS
  <2>1. PICK x \in S : \E n \in Nat : t = <<x, n>> /\ 1 <= n /\ n <= f[x]
    BY <1>1, PileIs
  <2>2. PICK n \in Nat : t = <<x, n>> /\ n <= f[x]
    BY <2>1
  <2>3. PICK u \in Pile(g, S) : t = <<u[1], f[u[1]] + u[2]>>
    OBVIOUS
  <2>4. x = u[1] /\ n = f[x] + u[2]
    BY <2>2, <2>3
  <2>5. u[2] \in Nat /\ 1 <= u[2] /\ f[x] \in Nat
    BY <1>1, <1>6
  <2> QED BY <2>2, <2>4, <2>5
<1>10. Pile(h, S) = Pile(f, S) \cup Over
  <2>1. ASSUME NEW t \in Pile(h, S) PROVE t \in Pile(f, S) \cup Over
    <3>1. PICK x \in S : \E n \in Nat : t = <<x, n>> /\ 1 <= n /\ n <= h[x]
      BY <1>3, PileIs
    <3>2. PICK n \in Nat : t = <<x, n>> /\ 1 <= n /\ n <= h[x]
      BY <3>1
    <3>3. CASE n <= f[x]
      BY <1>1, <3>2, <3>3, PileHas
    <3>4. CASE ~(n <= f[x])
      <4>1. f[x] \in Nat /\ g[x] \in Nat /\ h[x] = f[x] + g[x]
        OBVIOUS
      <4>2. PICK m \in Nat : m = n - f[x]
        BY <3>2, <3>4, <4>1
      <4>3. 1 <= m /\ m <= g[x] /\ n = f[x] + m
        BY <3>2, <3>4, <4>1, <4>2
      <4>4. <<x, m>> \in Pile(g, S)
        BY <1>2, <4>3, PileHas
      <4>5. up[<<x, m>>] = <<x, f[x] + m>>
        BY <4>4
      <4> QED BY <3>2, <4>3, <4>4, <4>5
    <3> QED BY <3>3, <3>4
  <2>2. ASSUME NEW t \in Pile(f, S) PROVE t \in Pile(h, S)
    <3>1. PICK x \in S : \E n \in Nat : t = <<x, n>> /\ 1 <= n /\ n <= f[x]
      BY <1>1, PileIs, <2>2
    <3>2. PICK n \in Nat : t = <<x, n>> /\ 1 <= n /\ n <= f[x]
      BY <3>1
    <3>3. n <= h[x]
      BY <3>2
    <3> QED BY <1>3, <3>2, <3>3, PileHas
  <2>3. ASSUME NEW t \in Over PROVE t \in Pile(h, S)
    <3>1. PICK u \in Pile(g, S) : t = <<u[1], f[u[1]] + u[2]>>
      BY <2>3
    <3>2. u[1] \in S /\ u[2] \in Nat /\ 1 <= u[2] /\ u[2] <= g[u[1]]
      BY <1>6
    <3>3. f[u[1]] + u[2] \in Nat /\ 1 <= f[u[1]] + u[2] /\ f[u[1]] + u[2] <= h[u[1]]
      BY <1>3, <3>2
    <3> QED BY <1>3, <3>1, <3>2, <3>3, PileHas
  <2> QED BY <2>1, <2>2, <2>3
<1> HIDE DEF Over, up
<1>11. Cardinality(Pile(f, S) \cap Over) = 0
  BY <1>9, FS_EmptySet
<1>12. Cardinality(Pile(f, S) \cup Over)
         = Cardinality(Pile(f, S)) + Cardinality(Over) - Cardinality(Pile(f, S) \cap Over)
  BY <1>4, <1>8, FS_Union
<1> QED BY <1>4, <1>5, <1>8, <1>10, <1>11, <1>12 DEF Amount

\* Who have at most m each, have together at most m times their number.
LEMMA AmountBound ==
  ASSUME NEW S, IsFiniteSet(S), NEW f, NEW m \in Nat, \A x \in S : f[x] \in Nat /\ f[x] <= m
  PROVE  LET some == {x \in S : f[x] # 0} IN
           IsFiniteSet(some) /\ Cardinality(some) \in Nat /\ Amount(f, S) <= Cardinality(some) * m
<1> DEFINE some == {x \in S : f[x] # 0}
<1>1. \A x \in S : f[x] \in Nat
  OBVIOUS
<1>2. IsFiniteSet(some) /\ Cardinality(some) \in Nat
  BY FS_Subset, FS_CardinalityType
<1>3. IsFiniteSet(1..m) /\ Cardinality(1..m) = m
  BY FS_Interval
<1>4. IsFiniteSet(some \X (1..m)) /\ Cardinality(some \X (1..m)) = Cardinality(some) * m
  BY <1>2, <1>3, FS_Product
<1>5. Pile(f, S) \in SUBSET (some \X (1..m))
  <2> SUFFICES ASSUME NEW u \in Pile(f, S) PROVE u \in some \X (1..m)
    OBVIOUS
  <2>1. PICK x \in S : \E n \in Nat : u = <<x, n>> /\ 1 <= n /\ n <= f[x]
    BY <1>1, PileIs
  <2>2. PICK n \in Nat : u = <<x, n>> /\ 1 <= n /\ n <= f[x]
    BY <2>1
  <2>3. f[x] # 0 /\ n \in 1..m
    BY <2>2
  <2> QED BY <2>2, <2>3
<1>6. Cardinality(Pile(f, S)) <= Cardinality(some \X (1..m))
  BY <1>4, <1>5, FS_Subset
<1> QED BY <1>2, <1>4, <1>6 DEF Amount

\* A number of wholes and a rest are told from their sum.
LEMMA WholesAndRest ==
  ASSUME NEW a \in Nat \ {0}, NEW i \in Nat, NEW j \in Nat, NEW m \in Nat, NEW n \in Nat,
         m < a, n < a, i * a + m = j * a + n
  PROVE  i = j /\ m = n
<1>1. ASSUME NEW b \in Nat, NEW c \in Nat, b < c PROVE c * a >= b * a + a
  <2>1. PICK d \in Nat : c = b + 1 + d
    <3>1. c - b - 1 \in Nat /\ c = b + 1 + (c - b - 1)
      BY <1>1
    <3> QED BY <3>1
  <2>2. c * a = b * a + a + d * a
    BY <2>1
  <2>3. d * a \in Nat /\ b * a \in Nat
    OBVIOUS
  <2> QED BY <2>2, <2>3
<1>2. i * a \in Nat /\ j * a \in Nat
  OBVIOUS
<1>3. ~(i < j)
  <2>1. i < j => j * a >= i * a + a
    BY <1>1
  <2> QED BY <1>2, <2>1
<1>4. ~(j < i)
  <2>1. j < i => i * a >= j * a + a
    BY <1>1
  <2> QED BY <1>2, <2>1
<1>5. i = j
  BY <1>3, <1>4
<1> QED BY <1>2, <1>5

\* And every number is so many wholes and a rest.
LEMMA DivideRest ==
  ASSUME NEW x \in Nat, NEW a \in Nat \ {0}
  PROVE  /\ x \div a \in Nat /\ x % a \in Nat /\ x % a < a
         /\ x = (x \div a) * a + (x % a)
OBVIOUS

\* k times each is k times the amount.
LEMMA AmountTimes ==
  ASSUME NEW S, IsFiniteSet(S), NEW f, NEW h, NEW k \in Nat,
         \A x \in S : f[x] \in Nat /\ h[x] = k * f[x]
  PROVE  Amount(h, S) = k * Amount(f, S)
<1>1. \A x \in S : f[x] \in Nat
  OBVIOUS
<1>2. \A x \in S : h[x] \in Nat /\ h[x] = k * f[x]
  OBVIOUS
<1> DEFINE Copies == (1..k) \X Pile(f, S)
           place == [c \in Copies |-> <<c[2][1], (c[1] - 1) * f[c[2][1]] + c[2][2]>>]
<1>3. IsFiniteSet(Pile(f, S)) /\ Amount(f, S) \in Nat
  BY <1>1, PileFinite
<1>4. IsFiniteSet(1..k) /\ Cardinality(1..k) = k
  BY FS_Interval
<1>5. IsFiniteSet(Copies) /\ Cardinality(Copies) = k * Amount(f, S)
  BY <1>3, <1>4, FS_Product DEF Amount
<1>6. ASSUME NEW c \in Copies
      PROVE  \E x \in S : \E i, n \in Nat :
               /\ c = <<i + 1, <<x, n + 1>>>> /\ i < k /\ n < f[x]
               /\ place[c] = <<x, i * f[x] + n + 1>>
  <2>1. PICK j \in 1..k : \E u \in Pile(f, S) : c = <<j, u>>
    OBVIOUS
  <2>2. PICK u \in Pile(f, S) : c = <<j, u>>
    BY <2>1
  <2>3. PICK x \in S : \E n \in Nat : u = <<x, n>> /\ 1 <= n /\ n <= f[x]
    BY <1>1, PileIs
  <2>4. PICK m \in Nat : u = <<x, m>> /\ 1 <= m /\ m <= f[x]
    BY <2>3
  <2>5. f[x] \in Nat
    OBVIOUS
  <2>6. PICK n \in Nat : m = n + 1 /\ n < f[x]
    <3>1. m - 1 \in Nat /\ m = (m - 1) + 1 /\ m - 1 < f[x]
      BY <2>4, <2>5
    <3> QED BY <3>1
  <2>7. PICK i \in Nat : j = i + 1 /\ i < k
    <3>1. j - 1 \in Nat /\ j = (j - 1) + 1 /\ j - 1 < k
      OBVIOUS
    <3> QED BY <3>1
  <2>8. c = <<i + 1, <<x, n + 1>>>>
    BY <2>2, <2>4, <2>6, <2>7
  <2>9. place[c] = <<x, (i + 1 - 1) * f[x] + (n + 1)>>
    BY <2>8
  <2>10. (i + 1 - 1) * f[x] + (n + 1) = i * f[x] + n + 1
    <3>1. i + 1 - 1 = i
      OBVIOUS
    <3>2. PICK y \in Nat : y = i * f[x]
      BY <2>5
    <3>3. (i + 1 - 1) * f[x] = y
      BY <3>1, <3>2
    <3> QED BY <3>2, <3>3
  <2> QED BY <2>6, <2>7, <2>8, <2>9, <2>10
<1> HIDE DEF place
<1>7. place \in Bijection(Copies, Pile(h, S))
  <2>1. ASSUME NEW c \in Copies PROVE place[c] \in Pile(h, S)
    <3>1. PICK x \in S : \E i, n \in Nat :
               /\ c = <<i + 1, <<x, n + 1>>>> /\ i < k /\ n < f[x]
               /\ place[c] = <<x, i * f[x] + n + 1>>
      BY <1>6
    <3>2. PICK i \in Nat, n \in Nat : i < k /\ n < f[x] /\ place[c] = <<x, i * f[x] + n + 1>>
      BY <3>1
    <3>3. PICK d \in Nat : k = i + 1 + d
      <4>1. k - i - 1 \in Nat /\ k = i + 1 + (k - i - 1)
        BY <3>2
      <4> QED BY <4>1
    <3>4. k * f[x] = i * f[x] + f[x] + d * f[x] /\ d * f[x] \in Nat /\ i * f[x] \in Nat
      <4>1. f[x] \in Nat
        OBVIOUS
      <4>2. k * f[x] = (i + 1 + d) * f[x]
        BY <3>3
      <4>3. (i + 1 + d) * f[x] = i * f[x] + f[x] + d * f[x]
        BY <4>1
      <4> QED BY <4>1, <4>2, <4>3
    <3>5. h[x] = k * f[x] /\ f[x] \in Nat
      OBVIOUS
    <3>6. i * f[x] + n + 1 \in Nat /\ 1 <= i * f[x] + n + 1 /\ i * f[x] + n + 1 <= h[x]
      BY <3>2, <3>4, <3>5
    <3> QED BY <1>2, <3>2, <3>6, PileHas
  <2>2. ASSUME NEW c \in Copies, NEW e \in Copies, place[c] = place[e] PROVE c = e
    <3>1. PICK x \in S : \E i, n \in Nat :
               /\ c = <<i + 1, <<x, n + 1>>>> /\ i < k /\ n < f[x]
               /\ place[c] = <<x, i * f[x] + n + 1>>
      BY <1>6
    <3>2. PICK i \in Nat, n \in Nat : /\ c = <<i + 1, <<x, n + 1>>>> /\ n < f[x]
                                      /\ place[c] = <<x, i * f[x] + n + 1>>
      BY <3>1
    <3>3. PICK y \in S : \E j, m \in Nat :
               /\ e = <<j + 1, <<y, m + 1>>>> /\ j < k /\ m < f[y]
               /\ place[e] = <<y, j * f[y] + m + 1>>
      BY <1>6
    <3>4. PICK j \in Nat, m \in Nat : /\ e = <<j + 1, <<y, m + 1>>>> /\ m < f[y]
                                      /\ place[e] = <<y, j * f[y] + m + 1>>
      BY <3>3
    <3>5. x = y /\ i * f[x] + n + 1 = j * f[x] + m + 1
      BY <2>2, <3>2, <3>4
    <3>6. f[x] \in Nat \ {0}
      BY <3>2
    <3>7. i * f[x] \in Nat /\ j * f[x] \in Nat
      BY <3>6
    <3>8. i * f[x] + n = j * f[x] + m
      <4>1. \A a, b \in Nat : a + n + 1 = b + m + 1 => a + n = b + m
        OBVIOUS
      <4> QED BY <3>5, <3>7, <4>1
    <3>9. i = j /\ n = m
      BY <3>2, <3>4, <3>5, <3>6, <3>8, WholesAndRest
    <3> QED BY <3>2, <3>4, <3>5, <3>9
  <2>3. ASSUME NEW t \in Pile(h, S) PROVE \E c \in Copies : place[c] = t
    <3>1. PICK x \in S : \E n \in Nat : t = <<x, n>> /\ 1 <= n /\ n <= h[x]
      BY <1>2, PileIs
    <3>2. PICK l \in Nat : t = <<x, l>> /\ 1 <= l /\ l <= h[x]
      BY <3>1
    <3>3. f[x] \in Nat /\ h[x] = k * f[x]
      OBVIOUS
    <3>4. f[x] \in Nat \ {0}
      BY <3>2, <3>3
    <3>5. PICK z \in Nat : l = z + 1 /\ z < k * f[x]
      <4>1. l - 1 \in Nat /\ l = (l - 1) + 1 /\ l - 1 < k * f[x]
        BY <3>2, <3>3
      <4> QED BY <4>1
    <3>6. PICK i \in Nat, n \in Nat : n < f[x] /\ z = i * f[x] + n
      BY <3>4, DivideRest
    <3>7. i < k
      <4>1. SUFFICES ASSUME ~(i < k) PROVE FALSE
        OBVIOUS
      <4>2. PICK d \in Nat : i = k + d
        <5>1. i - k \in Nat /\ i = k + (i - k)
          BY <4>1
        <5> QED BY <5>1
      <4>3. i * f[x] = k * f[x] + d * f[x] /\ d * f[x] \in Nat /\ k * f[x] \in Nat
        BY <3>3, <4>2
      <4> QED BY <3>5, <3>6, <4>3
    <3>8. i + 1 \in 1..k
      BY <3>7
    <3>9. <<x, n + 1>> \in Pile(f, S)
      <4>1. n + 1 \in Nat /\ 1 <= n + 1 /\ n + 1 <= f[x]
        BY <3>4, <3>6
      <4> QED BY <1>1, <4>1, PileHas
    <3> DEFINE c == <<i + 1, <<x, n + 1>>>>
    <3>10. c \in Copies
      BY <3>8, <3>9
    <3>11. place[c] = <<x, (i + 1 - 1) * f[x] + (n + 1)>>
      BY <3>10 DEF place
    <3>12. (i + 1 - 1) * f[x] + (n + 1) = l
      <4>1. i + 1 - 1 = i /\ i * f[x] \in Nat
        BY <3>4
      <4> QED BY <3>5, <3>6, <4>1
    <3> QED BY <3>2, <3>10, <3>11, <3>12
  <2>4. place \in [Copies -> Pile(h, S)]
    BY <2>1 DEF place
  <2> QED BY <2>2, <2>3, <2>4 DEF Bijection, Injection, Surjection, IsInjective
<1> HIDE DEF Copies
<1>8. Cardinality(Pile(h, S)) = Cardinality(Copies)
  BY <1>5, <1>7, FS_Bijection DEF ExistsBijection
<1> QED BY <1>5, <1>8 DEF Amount

-----------------------------------------------------------------------------
(* Distributions: the arithmetic of allocatePayout. *)

Holdings == [Wallets -> Nat]

\* A total is an amount over the wallets, so what is counted is finite.
LEMMA UnitsFinite ==
  ASSUME NEW f \in Holdings
  PROVE  IsFiniteSet(Units(f)) /\ Total(f) \in Nat /\ Total(f) = Amount(f, Wallets)
<1>1. Units(f) = Pile(f, Wallets)
  BY DEF Units, Pile
<1>2. \A w \in Wallets : f[w] \in Nat
  BY DEF Holdings
<1>3. IsFiniteSet(Pile(f, Wallets)) /\ Amount(f, Wallets) \in Nat
  BY <1>2, PileFinite, WalletsAssumption
<1> QED BY <1>1, <1>3 DEF Total, Amount

\* A unit of f is a wallet and a number up to what it has.
LEMMA UnitsOf ==
  ASSUME NEW f \in Holdings, NEW u \in Units(f)
  PROVE  \E w \in Wallets : \E n \in Nat : u = <<w, n>> /\ 1 <= n /\ n <= f[w]
<1>1. \A w \in Wallets : f[w] \in Nat
  BY DEF Holdings
<1> QED BY <1>1, PileIs DEF Units, Pile

\* And such a pair is one.
LEMMA UnitsAre ==
  ASSUME NEW f \in Holdings, NEW w \in Wallets, NEW n \in Nat
  PROVE  <<w, n>> \in Units(f) <=> 1 <= n /\ n <= f[w]
<1>1. \A v \in Wallets : f[v] \in Nat
  BY DEF Holdings
<1> QED BY <1>1, PileHas DEF Units, Pile

\* Somebody who has something makes the total positive.
LEMMA TotalPositive ==
  ASSUME NEW f \in Holdings, Held(f) # {}
  PROVE  Total(f) \in Nat \ {0}
<1>1. PICK w \in Wallets : f[w] # 0
  BY DEF Held
<1>2. f[w] \in Nat /\ 1 <= f[w]
  BY <1>1 DEF Holdings
<1>3. <<w, 1>> \in Units(f)
  BY <1>2, UnitsAre
<1>4. Units(f) # {}
  BY <1>3
<1> QED BY <1>4, UnitsFinite, FS_EmptySet DEF Total

\* One more for each of some wallets adds their number to the total.
LEMMA TotalMore ==
  ASSUME NEW f \in Holdings, NEW lucky \in SUBSET Wallets
  PROVE  LET g == [w \in Wallets |-> f[w] + IF w \in lucky THEN 1 ELSE 0] IN
           Total(g) = Total(f) + Cardinality(lucky)
<1> DEFINE g == [w \in Wallets |-> f[w] + IF w \in lucky THEN 1 ELSE 0]
           Next1 == {<<w, f[w] + 1>> : w \in lucky}
           top == [w \in lucky |-> <<w, f[w] + 1>>]
<1>0. \A w \in Wallets : f[w] \in Nat
  BY DEF Holdings
<1>1. g \in Holdings
  BY <1>0 DEF Holdings
<1>2. IsFiniteSet(lucky)
  BY FS_Subset, WalletsAssumption
<1>3. top \in Bijection(lucky, Next1)
  <2>1. top \in [lucky -> Next1]
    OBVIOUS
  <2>2. \A v, w \in lucky : top[v] = top[w] => v = w
    OBVIOUS
  <2>3. \A u \in Next1 : \E w \in lucky : top[w] = u
    OBVIOUS
  <2> QED BY <2>1, <2>2, <2>3 DEF Bijection, Injection, Surjection, IsInjective
<1>4. IsFiniteSet(Next1) /\ Cardinality(Next1) = Cardinality(lucky)
  BY <1>2, <1>3, FS_Bijection DEF ExistsBijection
<1>5. Units(g) = Units(f) \cup Next1
  <2>1. ASSUME NEW u \in Units(g) PROVE u \in Units(f) \cup Next1
    <3>1. PICK w \in Wallets : \E n \in Nat : u = <<w, n>> /\ 1 <= n /\ n <= g[w]
      BY <1>1, <2>1, UnitsOf
    <3>2. PICK n \in Nat : u = <<w, n>> /\ 1 <= n /\ n <= g[w]
      BY <3>1
    <3>3. CASE n <= f[w]
      BY <3>2, <3>3, UnitsAre
    <3>4. CASE ~(n <= f[w])
      <4>1. w \in lucky /\ n = f[w] + 1
        BY <3>2, <3>4, <1>0
      <4> QED BY <4>1, <3>2
    <3> QED BY <3>3, <3>4
  <2>2. ASSUME NEW u \in Units(f) PROVE u \in Units(g)
    <3>1. PICK w \in Wallets : \E n \in Nat : u = <<w, n>> /\ 1 <= n /\ n <= f[w]
      BY <2>2, UnitsOf
    <3>2. PICK n \in Nat : u = <<w, n>> /\ 1 <= n /\ n <= f[w]
      BY <3>1
    <3>3. n <= g[w]
      BY <3>2, <1>0
    <3> QED BY <3>2, <3>3, <1>1, UnitsAre
  <2>3. ASSUME NEW u \in Next1 PROVE u \in Units(g)
    <3>1. PICK w \in lucky : u = <<w, f[w] + 1>>
      BY <2>3
    <3>2. f[w] + 1 \in Nat /\ 1 <= f[w] + 1 /\ f[w] + 1 <= g[w]
      BY <1>0
    <3> QED BY <3>1, <3>2, <1>1, UnitsAre
  <2> QED BY <2>1, <2>2, <2>3
<1>6. Units(f) \cap Next1 = {}
  <2> SUFFICES ASSUME NEW u \in Units(f), u \in Next1 PROVE FALSE
    OBVIOUS
  <2>1. PICK w \in Wallets : \E n \in Nat : u = <<w, n>> /\ 1 <= n /\ n <= f[w]
    BY UnitsOf
  <2>2. PICK v \in lucky : u = <<v, f[v] + 1>>
    OBVIOUS
  <2>3. PICK n \in Nat : u = <<w, n>> /\ n <= f[w]
    BY <2>1
  <2>4. w = v /\ n = f[v] + 1
    BY <2>2, <2>3
  <2> QED BY <2>3, <2>4, <1>0
<1> HIDE DEF Next1, g
<1>7. IsFiniteSet(Units(f)) /\ Cardinality(Units(f)) \in Nat
  BY UnitsFinite DEF Total
<1>8. Cardinality(Next1) \in Nat
  BY <1>4, FS_CardinalityType
<1>9. Cardinality(Units(f) \cap Next1) = 0
  BY <1>6, FS_EmptySet
<1>10. Cardinality(Units(f) \cup Next1)
         = Cardinality(Units(f)) + Cardinality(Next1) - Cardinality(Units(f) \cap Next1)
  BY <1>4, <1>7, FS_Union
<1>11. Cardinality(Units(g)) = Cardinality(Units(f)) + Cardinality(Next1)
  BY <1>5, <1>7, <1>8, <1>9, <1>10
<1>12. Total(g) = Total(f) + Cardinality(lucky)
  BY <1>4, <1>11 DEF Total
<1> QED BY <1>12 DEF g

\* A product of natural numbers over a positive one, rounded down.
LEMMA FloorType ==
  ASSUME NEW paise \in Nat, NEW bal \in Holdings, Held(bal) # {}, NEW w \in Wallets
  PROVE  Floor(paise, bal, w) \in Nat
<1>1. Total(bal) \in Nat \ {0}
  BY TotalPositive
<1>2. bal[w] \in Nat
  BY DEF Holdings
<1>3. paise * bal[w] \in Nat
  BY <1>2
<1> DEFINE x == paise * bal[w]
           y == Total(bal)
<1>4. x \in Nat /\ y \in Nat \ {0}
  BY <1>1, <1>3
<1> HIDE DEF x, y
<1>5. x \div y \in Nat
  BY <1>4
<1> QED BY <1>5 DEF Floor, x, y

\* What is allocated adds up to the amount, whoever is lucky.
LEMMA AllocateWhole ==
  ASSUME NEW paise \in Nat, NEW bal \in Holdings, Held(bal) # {},
         NEW lucky \in Lucky(paise, bal)
  PROVE  /\ Allocate(paise, bal, lucky) \in Holdings
         /\ Total(Allocate(paise, bal, lucky)) = paise
<1> DEFINE floors == [w \in Wallets |-> Floor(paise, bal, w)]
<1>1. floors \in Holdings
  BY FloorType DEF Holdings
<1>2. lucky \in SUBSET Wallets /\ Cardinality(lucky) = paise - Total(floors)
  BY DEF Lucky, Leftover, Held
<1>3. Allocate(paise, bal, lucky) = [w \in Wallets |-> floors[w] + IF w \in lucky THEN 1 ELSE 0]
  BY DEF Allocate
<1>4. \A w \in Wallets : floors[w] + (IF w \in lucky THEN 1 ELSE 0) \in Nat
  BY <1>1 DEF Holdings
<1>5. Allocate(paise, bal, lucky) \in Holdings
  BY <1>3, <1>4 DEF Holdings
<1>6. Total(floors) \in Nat
  BY <1>1, UnitsFinite
<1> HIDE DEF floors
<1>7. Total(Allocate(paise, bal, lucky)) = Total(floors) + Cardinality(lucky)
  BY <1>1, <1>2, <1>3, TotalMore, Zenon
<1>8. Total(floors) + (paise - Total(floors)) = paise
  BY <1>6
<1> QED BY <1>2, <1>5, <1>7, <1>8

\* Nobody is a whole paisa off, and who held less is never owed more: the
\* leftover is smaller than the number of holders with a remainder, so that who
\* gets a paisa of it has one.
LEMMA AllocateFair ==
  ASSUME NEW paise \in Nat \ {0}, NEW bal \in Holdings, Held(bal) # {},
         NEW lucky \in Lucky(paise, bal)
  PROVE  LET new == Allocate(paise, bal, lucky)
             supply == Total(bal) IN
           \A w \in Wallets :
             /\ new[w] * supply - paise * bal[w] \in (1 - supply)..(supply - 1)
             /\ \A v \in Wallets : bal[v] < bal[w] => new[v] <= new[w]
<1> DEFINE supply == Total(bal)
           whole == [w \in Wallets |-> Floor(paise, bal, w)]
           rest == [w \in Wallets |-> Remainder(paise, bal, w)]
           part == [w \in Wallets |-> supply * whole[w]]
           due == [w \in Wallets |-> paise * bal[w]]
           new == Allocate(paise, bal, lucky)
           some == {w \in Wallets : rest[w] # 0}
           left == Leftover(paise, bal)
<1>1. supply \in Nat \ {0} /\ supply = Amount(bal, Wallets)
  BY TotalPositive, UnitsFinite
<1>2. \A w \in Wallets : bal[w] \in Nat
  BY DEF Holdings
<1>3. \A w \in Wallets : paise * bal[w] \in Nat
  BY <1>2
<1>4. ASSUME NEW w \in Wallets
      PROVE  /\ whole[w] \in Nat /\ rest[w] \in Nat /\ rest[w] < supply
             /\ paise * bal[w] = whole[w] * supply + rest[w]
  <2>1. /\ whole[w] = (paise * bal[w]) \div supply
        /\ rest[w] = (paise * bal[w]) % supply
    BY DEF Floor, Remainder
  <2>2. paise * bal[w] \in Nat
    BY <1>3
  <2> DEFINE x == paise * bal[w]
  <2>3. x \in Nat /\ whole[w] = x \div supply /\ rest[w] = x % supply
    BY <2>1, <2>2
  <2> HIDE DEF supply, whole, rest, x
  <2>4. /\ x \div supply \in Nat /\ x % supply \in Nat /\ x % supply < supply
        /\ x = (x \div supply) * supply + (x % supply)
    BY <1>1, <2>3, DivideRest
  <2>5. /\ whole[w] \in Nat /\ rest[w] \in Nat /\ rest[w] < supply
        /\ x = whole[w] * supply + rest[w]
    BY <2>3, <2>4
  <2> QED BY <2>5 DEF x
<1>5. whole \in Holdings
  BY <1>4 DEF Holdings
<1>6. \A w \in Wallets : new[w] = whole[w] + IF w \in lucky THEN 1 ELSE 0
  BY DEF Allocate
<1>7. /\ lucky \in SUBSET Held(bal) /\ Cardinality(lucky) = left
      /\ \A w \in lucky, v \in Held(bal) \ lucky : rest[v] <= rest[w]
  BY DEF Lucky, Held
<1>8. left = paise - Amount(whole, Wallets) /\ Amount(whole, Wallets) \in Nat
  BY <1>5, UnitsFinite DEF Leftover
<1>9. \A w \in Wallets : due[w] = paise * bal[w]
  OBVIOUS
<1>10. \A w \in Wallets : part[w] = supply * whole[w]
  OBVIOUS
<1> HIDE DEF supply, whole, rest, part, due, new, left
<1>11. Amount(due, Wallets) = paise * supply
  <2>1. \A w \in Wallets : bal[w] \in Nat /\ due[w] = paise * bal[w]
    BY <1>2, <1>9
  <2>2. paise \in Nat
    OBVIOUS
  <2> QED BY <1>1, <2>1, <2>2, AmountTimes, WalletsAssumption
<1>12. Amount(part, Wallets) = supply * Amount(whole, Wallets)
  <2>1. \A w \in Wallets : whole[w] \in Nat /\ part[w] = supply * whole[w]
    BY <1>4, <1>10
  <2> QED BY <1>1, <2>1, AmountTimes, WalletsAssumption
<1>13. \A w \in Wallets : part[w] \in Nat /\ rest[w] \in Nat /\ due[w] = part[w] + rest[w]
  <2> TAKE w \in Wallets
  <2>1. whole[w] \in Nat /\ supply \in Nat
    BY <1>1, <1>4
  <2>2. supply * whole[w] \in Nat /\ supply * whole[w] = whole[w] * supply
    BY <2>1
  <2> QED BY <1>4, <1>9, <1>10, <2>2
<1>14. Amount(due, Wallets) = Amount(part, Wallets) + Amount(rest, Wallets)
  BY <1>13, AmountPlus, WalletsAssumption
<1>15. supply - 1 \in Nat /\ \A w \in Wallets : rest[w] \in Nat /\ rest[w] <= supply - 1
  BY <1>1, <1>4
<1>16. /\ IsFiniteSet(some) /\ Cardinality(some) \in Nat
       /\ Amount(rest, Wallets) <= Cardinality(some) * (supply - 1)
  BY <1>15, AmountBound, WalletsAssumption
<1>17. Amount(rest, Wallets) \in Nat
  BY <1>15, PileFinite, WalletsAssumption
<1>18. left \in Int /\ supply * left = Amount(rest, Wallets)
  <2>1. paise \in Nat /\ supply \in Nat
    BY <1>1
  <2>2. supply * (paise - Amount(whole, Wallets)) = paise * supply - supply * Amount(whole, Wallets)
    BY <1>8, <2>1
  <2>3. paise * supply \in Nat /\ supply * Amount(whole, Wallets) \in Nat
    BY <1>8, <2>1
  <2> QED BY <1>8, <1>11, <1>12, <1>14, <1>17, <2>1, <2>2, <2>3
<1>19. some # {} => left < Cardinality(some)
  <2> SUFFICES ASSUME some # {}, left >= Cardinality(some) PROVE FALSE
    BY <1>16, <1>18
  <2> DEFINE n == Cardinality(some)
  <2>1. n \in Nat \ {0}
    BY <1>16, FS_EmptySet
  <2>2. supply * left <= n * (supply - 1)
    BY <1>16, <1>18
  <2>3. left >= n
    OBVIOUS
  <2> HIDE DEF n
  <2>4. PICK d \in Nat : left = n + d
    <3>1. left - n \in Nat /\ left = n + (left - n)
      BY <1>18, <2>1, <2>3
    <3> QED BY <3>1
  <2>5. supply * left = supply * n + supply * d /\ n * (supply - 1) = supply * n - n
    BY <1>1, <2>1, <2>4
  <2>6. supply * d \in Nat /\ supply * n \in Nat
    BY <1>1, <2>1, <2>4
  <2> QED BY <2>1, <2>2, <2>5, <2>6
<1>20. IsFiniteSet(lucky) /\ lucky \subseteq Wallets /\ left \in Nat
  <2>1. lucky \in SUBSET Wallets
    BY <1>7 DEF Held
  <2>2. IsFiniteSet(lucky)
    BY <2>1, FS_Subset, WalletsAssumption
  <2> QED BY <1>7, <2>1, <2>2, FS_CardinalityType
<1>21. some \subseteq Held(bal)
  <2> SUFFICES ASSUME NEW w \in Wallets, rest[w] # 0, bal[w] = 0 PROVE FALSE
    BY DEF Held
  <2>1. paise * bal[w] = 0
    OBVIOUS
  <2>2. whole[w] * supply \in Nat
    BY <1>1, <1>4
  <2> QED BY <1>4, <2>1, <2>2
<1>22. lucky \subseteq some
  <2> SUFFICES ASSUME NEW w \in lucky, rest[w] = 0 PROVE FALSE
    BY <1>20
  <2>1. some \subseteq lucky
    <3> SUFFICES ASSUME NEW v \in some, v \notin lucky PROVE FALSE
      OBVIOUS
    <3>1. rest[v] <= rest[w]
      BY <1>7, <1>21
    <3>2. rest[v] \in Nat /\ rest[v] # 0
      BY <1>15
    <3> QED BY <3>1, <3>2
  <2>2. some \in SUBSET (lucky \ {w})
    BY <2>1
  <2>3. IsFiniteSet(lucky \ {w}) /\ Cardinality(lucky \ {w}) = left - 1
    BY <1>7, <1>20, FS_RemoveElement
  <2>4. Cardinality(some) <= left - 1
    BY <2>2, <2>3, FS_Subset
  <2>5. CASE some = {}
    <3>1. Cardinality(some) = 0
      BY <2>5, FS_EmptySet
    <3>2. left = 0
      <4>1. Amount(rest, Wallets) <= 0
        BY <1>15, <1>16, <3>1
      <4>2. supply * left = 0
        BY <1>17, <1>18, <4>1
      <4> QED BY <1>1, <1>20, <4>2
    <3> QED BY <2>4, <3>1, <3>2
  <2>6. CASE some # {}
    BY <1>16, <1>19, <1>20, <2>4, <2>6
  <2> QED BY <2>5, <2>6
<1>23. ASSUME NEW w \in Wallets
       PROVE  new[w] * supply - paise * bal[w] \in (1 - supply)..(supply - 1)
  <2>1. /\ whole[w] \in Nat /\ rest[w] \in Nat /\ rest[w] < supply
        /\ paise * bal[w] = whole[w] * supply + rest[w]
    BY <1>4
  <2>2. whole[w] * supply \in Nat /\ (whole[w] + 1) * supply = whole[w] * supply + supply
    BY <1>1, <2>1
  <2>3. CASE w \in lucky
    <3>1. rest[w] # 0
      BY <1>22, <2>3
    <3>2. new[w] = whole[w] + 1
      BY <1>6, <2>3
    <3>3. new[w] * supply - paise * bal[w] = supply - rest[w]
      BY <1>1, <2>1, <2>2, <3>2
    <3> QED BY <1>1, <2>1, <3>1, <3>3
  <2>4. CASE w \notin lucky
    <3>1. new[w] = whole[w]
      BY <1>6, <2>1, <2>4
    <3>2. new[w] * supply - paise * bal[w] = 0 - rest[w]
      BY <1>1, <2>1, <2>2, <3>1
    <3> QED BY <1>1, <2>1, <3>2
  <2> QED BY <2>3, <2>4
<1>24. ASSUME NEW w \in Wallets, NEW v \in Wallets, bal[v] < bal[w] PROVE new[v] <= new[w]
  <2>1. /\ whole[w] \in Nat /\ rest[w] \in Nat /\ rest[w] < supply
        /\ paise * bal[w] = whole[w] * supply + rest[w]
    BY <1>4
  <2>2. /\ whole[v] \in Nat /\ rest[v] \in Nat /\ rest[v] < supply
        /\ paise * bal[v] = whole[v] * supply + rest[v]
    BY <1>4
  <2>3. paise * bal[v] < paise * bal[w]
    <3>1. PICK d \in Nat : bal[w] = bal[v] + 1 + d
      <4>1. bal[w] - bal[v] - 1 \in Nat /\ bal[w] = bal[v] + 1 + (bal[w] - bal[v] - 1)
        BY <1>2, <1>24
      <4> QED BY <4>1
    <3>2. bal[v] \in Nat /\ paise \in Nat \ {0}
      BY <1>2
    <3>3. paise * bal[w] = paise * bal[v] + paise + paise * d
      BY <3>1, <3>2
    <3>4. paise * bal[v] \in Nat /\ paise * d \in Nat
      BY <3>1, <3>2
    <3> QED BY <3>2, <3>3, <3>4
  <2>4. ~(whole[w] < whole[v])
    <3> SUFFICES ASSUME whole[w] < whole[v] PROVE FALSE
      OBVIOUS
    <3>1. PICK d \in Nat : whole[v] = whole[w] + 1 + d
      <4>1. whole[v] - whole[w] - 1 \in Nat /\ whole[v] = whole[w] + 1 + (whole[v] - whole[w] - 1)
        BY <2>1, <2>2
      <4> QED BY <4>1
    <3>2. whole[v] * supply = whole[w] * supply + supply + d * supply
      BY <1>1, <2>1, <3>1
    <3>3. whole[w] * supply \in Nat /\ d * supply \in Nat
      BY <1>1, <2>1, <3>1
    <3> QED BY <1>1, <2>1, <2>2, <2>3, <3>2, <3>3
  <2>5. CASE whole[v] < whole[w]
    BY <1>6, <2>1, <2>2, <2>5
  <2>6. CASE whole[v] = whole[w]
    <3>1. rest[v] < rest[w]
      <4>1. whole[w] * supply \in Nat
        BY <1>1, <2>1
      <4> QED BY <2>1, <2>2, <2>3, <2>6, <4>1
    <3>2. w \in Held(bal)
      BY <1>2, <1>24 DEF Held
    <3>3. v \in lucky => w \in lucky
      BY <1>7, <2>1, <2>2, <3>1, <3>2
    <3> QED BY <1>6, <2>1, <2>2, <2>6, <3>3
  <2> QED BY <2>1, <2>2, <2>4, <2>5, <2>6
<1> QED BY <1>23, <1>24 DEF new, supply

-----------------------------------------------------------------------------
(* The state machine. *)

\* An undeclared pot has no rows, and a declared one is owed whole.
PotsAreWhole ==
  \A d \in Pots :
    /\ total[d] = 0 => \A w \in Wallets : status[d][w] = "none"
    /\ total[d] # 0 => Total(share[d]) = total[d]

\* Who is about to declare has an amount and somebody to owe it to.
DeclareIsReady ==
  \A p \in Procs : At(p, "declare") => amount[p] # 0 /\ Held(holders[p]) # {}

AmountIsPositive == \A p \in Procs : At(p, "holders") => amount[p] # 0

Inv == TypeOK /\ PotsAreWhole /\ ProRata /\ PaidOnce /\ DeclareIsReady /\ AmountIsPositive

LEMMA ZeroType == Zero \in Holdings
BY DEF Zero, Holdings

LEMMA InitInv == Init => Inv
<1> SUFFICES ASSUME Init PROVE Inv
  OBVIOUS
<1>1. \A x \in Persons : Primary[x] \in Wallets
  BY PrimaryAssumption
<1>2. TypeOK
  BY <1>1, ZeroType, IssuedAssumption DEF Init, TypeOK, RowStatuses, Pcs, Holdings
<1>3. PaidOnce
  BY DEF Init, PaidOnce, Zero
<1>4. ProRata
  BY DEF Init, ProRata, Declared
<1> QED BY <1>2, <1>3, <1>4 DEF Init, Inv, PotsAreWhole, DeclareIsReady, AmountIsPositive, At

\* What a call keeps to itself has its type when the call is over.
LEMMA FinishType ==
  ASSUME TypeOK, NEW p \in Procs, Finish(p)
  PROVE  /\ pc' \in [Procs -> Pcs] /\ person' \in [Procs -> Persons \cup {NoPerson}]
         /\ amount' \in [Procs -> Nat] /\ holders' \in [Procs -> [Wallets -> Nat]]
         /\ wallets' \in [Procs -> SUBSET Wallets]
BY ZeroType DEF TypeOK, Finish, Goto, Pcs, Holdings

\* Shares stay fair as long as no declaration is written.
LEMMA StillProRata ==
  ASSUME ProRata, UNCHANGED <<total, snapshot, share>>
  PROVE  ProRata'
BY DEF ProRata, Declared, Total, Units

\* A call that is over is about to declare nothing.
LEMMA FinishReady ==
  ASSUME TypeOK, DeclareIsReady, AmountIsPositive, NEW p \in Procs, Finish(p)
  PROVE  DeclareIsReady' /\ AmountIsPositive'
BY DEF TypeOK, Finish, Goto, At, DeclareIsReady, AmountIsPositive

LEMMA DeclareInv == ASSUME Inv, NEW p \in Procs, NEW a \in Amounts, Declare(p, a) PROVE Inv'
<1>1. a \in Nat \ {0}
  BY AmountsAssumption
<1>2. TypeOK'
  BY <1>1 DEF Inv, TypeOK, Declare, Goto, Pcs, rowVars
<1>3. DeclareIsReady' /\ AmountIsPositive'
  BY <1>1 DEF Inv, TypeOK, Declare, Goto, At, DeclareIsReady, AmountIsPositive
<1>4. PotsAreWhole' /\ PaidOnce'
  BY DEF Inv, Declare, rowVars, PotsAreWhole, PaidOnce, Total, Units
<1>5. ProRata'
  BY StillProRata DEF Inv, Declare, rowVars
<1> QED BY <1>2, <1>3, <1>4, <1>5 DEF Inv

LEMMA ReadHoldersInv == ASSUME Inv, NEW p \in Procs, ReadHolders(p) PROVE Inv'
<1>1. PotsAreWhole' /\ PaidOnce'
  BY DEF Inv, ReadHolders, rowVars, PotsAreWhole, PaidOnce, Total, Units
<1>4. ProRata'
  BY StillProRata DEF Inv, ReadHolders, rowVars
<1>2. CASE Finish(p)
  <2>1. TypeOK'
    BY <1>2, FinishType DEF Inv, TypeOK, ReadHolders, rowVars
  <2>2. DeclareIsReady' /\ AmountIsPositive'
    BY <1>2, FinishReady DEF Inv
  <2> QED BY <1>1, <1>4, <2>1, <2>2 DEF Inv
<1>3. CASE Held(balance) # {} /\ holders' = [holders EXCEPT ![p] = balance]
           /\ Goto(p, "declare") /\ UNCHANGED <<person, amount, wallets>>
  <2>1. TypeOK'
    BY <1>3 DEF Inv, TypeOK, ReadHolders, rowVars, Goto, Pcs
  <2>2. DeclareIsReady' /\ AmountIsPositive'
    BY <1>3 DEF Inv, TypeOK, ReadHolders, Goto, At, DeclareIsReady, AmountIsPositive
  <2> QED BY <1>1, <1>4, <2>1, <2>2 DEF Inv
<1> QED BY <1>2, <1>3 DEF ReadHolders

\* The one step that adds to a total: the rows of a pot, all at once.
LEMMA DeclarationRows ==
  ASSUME Inv, NEW p \in Procs, At(p, "declare"), NEW d \in Pots, NEW lucky,
         WriteDeclaration(p, d, lucky), UNCHANGED collected
  PROVE  /\ total' \in [Pots -> Nat] /\ snapshot' \in [Pots -> [Wallets -> Nat]]
         /\ share' \in [Pots -> [Wallets -> Nat]] /\ status' \in [Pots -> [Wallets -> RowStatuses]]
         /\ PotsAreWhole' /\ ProRata' /\ PaidOnce'
<1> DEFINE new == Allocate(amount[p], holders[p], lucky)
           rows == [w \in Wallets |-> IF w \in Held(holders[p]) THEN "claimable" ELSE "none"]
<1>1. /\ amount[p] \in Nat /\ amount[p] # 0
      /\ holders[p] \in Holdings /\ Held(holders[p]) # {}
  BY DEF Inv, TypeOK, DeclareIsReady, Holdings
<1>2. lucky \in Lucky(amount[p], holders[p])
  BY DEF WriteDeclaration
<1>3. new \in Holdings /\ Total(new) = amount[p]
  BY <1>1, <1>2, AllocateWhole
<1>4. /\ total[d] = 0
      /\ total' = [total EXCEPT ![d] = amount[p]]
      /\ snapshot' = [snapshot EXCEPT ![d] = holders[p]]
      /\ share' = [share EXCEPT ![d] = new]
      /\ status' = [status EXCEPT ![d] = rows]
  BY DEF WriteDeclaration
<1>5. rows \in [Wallets -> {"claimable", "none"}]
  OBVIOUS
<1> HIDE DEF new, rows
<1>6. total' \in [Pots -> Nat] /\ snapshot' \in [Pots -> [Wallets -> Nat]]
  BY <1>1, <1>4 DEF Inv, TypeOK, Holdings
<1>7. share' \in [Pots -> [Wallets -> Nat]]
  BY <1>3, <1>4 DEF Inv, TypeOK, Holdings
<1>8. status' \in [Pots -> [Wallets -> RowStatuses]]
  BY <1>4, <1>5 DEF Inv, TypeOK, RowStatuses
<1>9. PotsAreWhole'
  <2> SUFFICES ASSUME NEW e \in Pots
               PROVE  /\ total'[e] = 0 => \A w \in Wallets : status'[e][w] = "none"
                      /\ total'[e] # 0 => Total(share'[e]) = total'[e]
    BY DEF PotsAreWhole, Total, Units
  <2>1. CASE e = d
    <3>1. total'[e] = amount[p] /\ share'[e] = new
      BY <1>4, <2>1 DEF Inv, TypeOK
    <3> QED BY <1>1, <1>3, <3>1
  <2>2. CASE e # d
    <3>1. total'[e] = total[e] /\ share'[e] = share[e] /\ status'[e] = status[e]
      BY <1>4, <2>2 DEF Inv, TypeOK
    <3> QED BY <3>1 DEF Inv, PotsAreWhole
  <2> QED BY <2>1, <2>2
<1>10. PaidOnce'
  <2> SUFFICES ASSUME NEW e \in Pots, NEW w \in Wallets
               PROVE  collected[e][w] = IF status'[e][w] = "claimed" THEN share'[e][w] ELSE 0
    BY DEF PaidOnce
  <2>1. collected[e][w] = IF status[e][w] = "claimed" THEN share[e][w] ELSE 0
    BY DEF Inv, PaidOnce
  <2>2. CASE e = d
    <3>1. status[e][w] = "none"
      BY <1>4, <2>2 DEF Inv, PotsAreWhole
    <3>2. status'[e][w] # "claimed"
      BY <1>4, <1>5, <2>2 DEF Inv, TypeOK
    <3> QED BY <2>1, <3>1, <3>2
  <2>3. CASE e # d
    <3>1. status'[e] = status[e] /\ share'[e] = share[e]
      BY <1>4, <2>3 DEF Inv, TypeOK
    <3> QED BY <2>1, <3>1
  <2> QED BY <2>2, <2>3
<1>11. ProRata'
  <2> DEFINE Fair(amt, bal, due) ==
        \A w \in Wallets :
          /\ due[w] * Total(bal) - amt * bal[w] \in (1 - Total(bal))..(Total(bal) - 1)
          /\ \A v \in Wallets : bal[v] < bal[w] => due[v] <= due[w]
  <2>1. Fair(amount[p], holders[p], new)
    BY <1>1, <1>2, AllocateFair DEF new
  <2>2. ASSUME NEW e \in Pots, total'[e] # 0 PROVE Fair(total'[e], snapshot'[e], share'[e])
    <3>1. CASE e = d
      <4>1. total'[e] = amount[p] /\ snapshot'[e] = holders[p] /\ share'[e] = new
        BY <1>4, <3>1 DEF Inv, TypeOK
      <4> QED BY <2>1, <4>1
    <3>2. CASE e # d
      <4>1. total'[e] = total[e] /\ snapshot'[e] = snapshot[e] /\ share'[e] = share[e]
        BY <1>4, <3>2 DEF Inv, TypeOK
      <4>2. Fair(total[e], snapshot[e], share[e])
        BY <2>2, <4>1 DEF Inv, ProRata, Declared
      <4> QED BY <4>1, <4>2
    <3> QED BY <3>1, <3>2
  <2> QED BY <2>2 DEF ProRata, Declared, Total, Units
<1> QED BY <1>6, <1>7, <1>8, <1>9, <1>10, <1>11

LEMMA WriteDeclareInv == ASSUME Inv, NEW p \in Procs, WriteDeclare(p) PROVE Inv'
<1>1. Finish(p) /\ At(p, "declare") /\ UNCHANGED <<balance, linked, collected>>
  BY DEF WriteDeclare
<1>2. DeclareIsReady' /\ AmountIsPositive'
  BY <1>1, FinishReady DEF Inv
<1>3. CASE UNCHANGED rowVars
  <2>1. PotsAreWhole' /\ PaidOnce'
    BY <1>1, <1>3 DEF Inv, rowVars, PotsAreWhole, PaidOnce, Total, Units
  <2>2. TypeOK'
    BY <1>1, <1>3, FinishType DEF Inv, TypeOK, rowVars
  <2>3. ProRata'
    BY <1>3, StillProRata DEF Inv, rowVars
  <2> QED BY <1>2, <2>1, <2>2, <2>3 DEF Inv
<1>4. CASE \E d \in Pots, lucky \in SUBSET Wallets : WriteDeclaration(p, d, lucky)
  <2>1. PICK d \in Pots, lucky \in SUBSET Wallets : WriteDeclaration(p, d, lucky)
    BY <1>4
  <2>2. /\ total' \in [Pots -> Nat] /\ snapshot' \in [Pots -> [Wallets -> Nat]]
        /\ share' \in [Pots -> [Wallets -> Nat]] /\ status' \in [Pots -> [Wallets -> RowStatuses]]
        /\ PotsAreWhole' /\ ProRata' /\ PaidOnce'
    BY <1>1, <2>1, DeclarationRows
  <2>3. TypeOK'
    BY <1>1, <2>2, FinishType DEF Inv, TypeOK
  <2> QED BY <1>2, <2>2, <2>3 DEF Inv
<1> QED BY <1>3, <1>4 DEF WriteDeclare

LEMMA ClaimInv == ASSUME Inv, NEW p \in Procs, NEW x \in Persons, Claim(p, x) PROVE Inv'
<1>1. PotsAreWhole' /\ PaidOnce'
  BY DEF Inv, Claim, rowVars, PotsAreWhole, PaidOnce, Total, Units
<1>2. TypeOK'
  BY DEF Inv, TypeOK, Claim, rowVars, Goto, Pcs
<1>3. DeclareIsReady' /\ AmountIsPositive'
  BY DEF Inv, TypeOK, Claim, Goto, At, DeclareIsReady, AmountIsPositive
<1>4. ProRata'
  BY StillProRata DEF Inv, Claim, rowVars
<1> QED BY <1>1, <1>2, <1>3, <1>4 DEF Inv

LEMMA ClaimAllInv == ASSUME Inv, NEW p \in Procs, ClaimAll(p) PROVE Inv'
<1> PICK role \in Roles : TakeRows(p, Claimable(p, role))
  BY DEF ClaimAll
<1>1. /\ Finish(p) /\ UNCHANGED <<balance, linked, total, snapshot, share>>
      /\ status' = [d \in Pots |-> [w \in Wallets |->
                      IF <<d, w>> \in Claimable(p, role) THEN "claimed" ELSE status[d][w]]]
      /\ collected' = [d \in Pots |-> [w \in Wallets |->
                         IF <<d, w>> \in Claimable(p, role) THEN collected[d][w] + share[d][w]
                         ELSE collected[d][w]]]
  BY DEF TakeRows
<1>2. DeclareIsReady' /\ AmountIsPositive'
  BY <1>1, FinishReady DEF Inv
<1>3. \A d \in Pots, w \in Wallets : <<d, w>> \in Claimable(p, role) => status[d][w] = "claimable"
  BY DEF Claimable
<1> DEFINE taken == Claimable(p, role)
<1> HIDE DEF taken
<1>4. /\ status' = [d \in Pots |-> [w \in Wallets |-> IF <<d, w>> \in taken THEN "claimed" ELSE status[d][w]]]
      /\ collected' = [d \in Pots |-> [w \in Wallets |->
                         IF <<d, w>> \in taken THEN collected[d][w] + share[d][w] ELSE collected[d][w]]]
      /\ \A d \in Pots, w \in Wallets : <<d, w>> \in taken => status[d][w] = "claimable"
  BY <1>1, <1>3 DEF taken
<1>5. status' \in [Pots -> [Wallets -> RowStatuses]] /\ collected' \in [Pots -> [Wallets -> Nat]]
  <2>1. \A d \in Pots, w \in Wallets :
          status[d][w] \in RowStatuses /\ collected[d][w] \in Nat /\ share[d][w] \in Nat
    BY DEF Inv, TypeOK
  <2> QED BY <1>4, <2>1 DEF RowStatuses
<1>6. TypeOK'
  BY <1>1, <1>5, FinishType DEF Inv, TypeOK
<1>7. PaidOnce'
  <2> SUFFICES ASSUME NEW d \in Pots, NEW w \in Wallets
               PROVE  collected'[d][w] = IF status'[d][w] = "claimed" THEN share[d][w] ELSE 0
    BY <1>1 DEF PaidOnce
  <2>1. /\ collected[d][w] = IF status[d][w] = "claimed" THEN share[d][w] ELSE 0
        /\ share[d][w] \in Nat
    BY DEF Inv, PaidOnce, TypeOK
  <2>2. CASE <<d, w>> \in taken
    <3>1. collected[d][w] = 0
      BY <1>4, <2>1, <2>2
    <3>2. collected'[d][w] = collected[d][w] + share[d][w] /\ status'[d][w] = "claimed"
      BY <1>4, <2>2
    <3> QED BY <2>1, <3>1, <3>2
  <2>3. CASE <<d, w>> \notin taken
    <3>1. collected'[d][w] = collected[d][w] /\ status'[d][w] = status[d][w]
      BY <1>4, <2>3
    <3> QED BY <2>1, <3>1
  <2> QED BY <2>2, <2>3
<1>8. PotsAreWhole'
  <2> SUFFICES ASSUME NEW d \in Pots
               PROVE  /\ total[d] = 0 => \A w \in Wallets : status'[d][w] = "none"
                      /\ total[d] # 0 => Total(share[d]) = total[d]
    BY <1>1 DEF PotsAreWhole, Total, Units
  <2>1. total[d] = 0 => \A w \in Wallets : status[d][w] = "none"
    BY DEF Inv, PotsAreWhole
  <2>2. \A w \in Wallets : status[d][w] = "none" => status'[d][w] = "none"
    BY <1>4
  <2> QED BY <2>1, <2>2 DEF Inv, PotsAreWhole
<1>9. ProRata'
  BY <1>1, StillProRata DEF Inv
<1> QED BY <1>2, <1>6, <1>7, <1>8, <1>9 DEF Inv

LEMMA ElsewhereInv == ASSUME Inv, Elsewhere PROVE Inv'
<1>1. UNCHANGED <<rowVars, collected, pc, procVars>>
  BY DEF Elsewhere, Trade, LinkWallet
<1>2. PotsAreWhole' /\ PaidOnce'
  BY <1>1 DEF Inv, rowVars, PotsAreWhole, PaidOnce, Total, Units
<1>3. DeclareIsReady' /\ AmountIsPositive'
  BY <1>1 DEF Inv, procVars, At, DeclareIsReady, AmountIsPositive, Held
<1>4. balance' \in [Wallets -> Nat] /\ linked' \in SUBSET Wallets
  <2>1. CASE \E v, w \in Wallets : Trade(v, w)
    <3>1. PICK v, w \in Wallets : Trade(v, w)
      BY <2>1
    <3>2. /\ v # w /\ balance[v] > 0 /\ balance \in [Wallets -> Nat] /\ linked \in SUBSET Wallets
          /\ balance' = [balance EXCEPT ![v] = @ - 1, ![w] = @ + 1] /\ linked' = linked
      BY <3>1 DEF Inv, TypeOK, Trade
    <3>3. balance[v] - 1 \in Nat /\ balance[w] + 1 \in Nat
      BY <3>2
    <3> QED BY <3>2, <3>3
  <2>2. CASE \E w \in Wallets : LinkWallet(w)
    BY <2>2 DEF Inv, TypeOK, LinkWallet
  <2> QED BY <2>1, <2>2 DEF Elsewhere
<1>5. TypeOK'
  BY <1>1, <1>4 DEF Inv, TypeOK, rowVars, procVars
<1>6. ProRata'
  BY <1>1, StillProRata DEF Inv, rowVars
<1> QED BY <1>2, <1>3, <1>5, <1>6 DEF Inv

LEMMA StutterInv == ASSUME Inv, UNCHANGED vars PROVE Inv'
<1>1. PotsAreWhole' /\ PaidOnce'
  BY DEF Inv, vars, rowVars, PotsAreWhole, PaidOnce, Total, Units
<1>2. DeclareIsReady' /\ AmountIsPositive'
  BY DEF Inv, vars, procVars, At, DeclareIsReady, AmountIsPositive, Held
<1>3. TypeOK'
  BY DEF Inv, vars, rowVars, procVars, TypeOK
<1>4. ProRata'
  BY StillProRata DEF Inv, vars, rowVars
<1> QED BY <1>1, <1>2, <1>3, <1>4 DEF Inv

LEMMA NextInv == Inv /\ [Next]_vars => Inv'
<1> SUFFICES ASSUME Inv, [Next]_vars PROVE Inv'
  OBVIOUS
<1>1. ASSUME NEW p \in Procs, ReadHolders(p) PROVE Inv'
  BY <1>1, ReadHoldersInv
<1>2. ASSUME NEW p \in Procs, WriteDeclare(p) PROVE Inv'
  BY <1>2, WriteDeclareInv
<1>3. ASSUME NEW p \in Procs, ClaimAll(p) PROVE Inv'
  BY <1>3, ClaimAllInv
<1>4. ASSUME NEW p \in Procs, NEW a \in Amounts, Declare(p, a) PROVE Inv'
  BY <1>4, DeclareInv
<1>5. ASSUME NEW p \in Procs, NEW x \in Persons, Claim(p, x) PROVE Inv'
  BY <1>5, ClaimInv
<1>6. CASE Elsewhere
  BY <1>6, ElsewhereInv
<1>7. CASE UNCHANGED vars
  BY <1>7, StutterInv
<1> QED BY <1>1, <1>2, <1>3, <1>4, <1>5, <1>6, <1>7 DEF Next, Advance, Call

LEMMA AlwaysInv == Spec => []Inv
BY InitInv, NextInv, PTL DEF Spec

-----------------------------------------------------------------------------
\* Every variable has its type: in particular an amount that is divided among
\* holders is divided by a positive supply.
THEOREM TypeCorrect == Spec => []TypeOK
<1>1. Inv => TypeOK
  BY DEF Inv
<1> QED BY <1>1, AlwaysInv, PTL

\* A share is collected exactly if its row reads claimed, however many claims
\* of a person run at once (claimAll).
THEOREM SharesPaidOnce == Spec => []PaidOnce
<1>1. Inv => PaidOnce
  BY DEF Inv
<1> QED BY <1>1, AlwaysInv, PTL

\* A declared payout is owed to the last paisa (allocatePayout).
THEOREM PotIsWhole == Spec => []WholePot
<1>1. Inv => WholePot
  BY DEF Inv, PotsAreWhole, WholePot, Declared
<1> QED BY <1>1, AlwaysInv, PTL

\* Shares are pro rata to the snapshot: nobody is a whole paisa off, and who held
\* less is never owed more (allocatePayout, largest remainder).
THEOREM SharesAreFair == Spec => []ProRata
<1>1. Inv => ProRata
  BY DEF Inv
<1> QED BY <1>1, AlwaysInv, PTL

-----------------------------------------------------------------------------
(* The refinement: declared pots, shares and what was collected are those of *)
(* Payout, for which a declaration and a claim are one step each.            *)

LEMMA PromiseInit == Init => Promise!PayoutInit
BY DEF Init, Promise!PayoutInit, Promise!Nothing, Declared, Zero

LEMMA PromiseDeclare ==
  ASSUME Inv, NEW p \in Procs, At(p, "declare"), NEW d \in Pots, NEW lucky,
         WriteDeclaration(p, d, lucky), UNCHANGED collected
  PROVE  Promise!DeclarePot(d)
<1>1. share' \in [Pots -> [Wallets -> Nat]]
  BY DeclarationRows
<1>2. total[d] = 0 /\ total' = [total EXCEPT ![d] = amount[p]] /\ amount[p] # 0
  BY DEF WriteDeclaration, Inv, DeclareIsReady
<1>3. Declared' = Declared \cup {d} /\ d \notin Declared
  BY <1>2 DEF Declared, Inv, TypeOK
<1>4. share' = [share EXCEPT ![d] = Allocate(amount[p], holders[p], lucky)]
  BY DEF WriteDeclaration
<1>5. share' = [share EXCEPT ![d] = share'[d]]
  BY <1>4 DEF Inv, TypeOK
<1>6. share'[d] \in [Wallets -> Nat]
  BY <1>1
<1> QED BY <1>3, <1>5, <1>6 DEF Promise!DeclarePot

LEMMA PromiseClaim ==
  ASSUME Inv, NEW p \in Procs, ClaimAll(p)
  PROVE  \E shares \in SUBSET (Pots \X Wallets) : Promise!HandOut(shares)
<1> PICK role \in Roles : TakeRows(p, Claimable(p, role))
  BY DEF ClaimAll
<1>1. Claimable(p, role) \in SUBSET (Pots \X Wallets)
  BY DEF Claimable
<1>2. \A d \in Pots, w \in Wallets :
        <<d, w>> \in Claimable(p, role) => collected[d][w] = 0 /\ d \in Declared
  BY DEF Claimable, Inv, PaidOnce, PotsAreWhole, Declared
<1>3. \A s \in Claimable(p, role) : s[1] \in Declared /\ collected[s[1]][s[2]] = 0
  BY <1>1, <1>2
<1>4. \A d \in Pots, w \in Wallets : share[d][w] \in Nat
  BY DEF Inv, TypeOK
<1>5. \A d \in Pots, w \in Wallets : <<d, w>> \in Claimable(p, role) => collected[d][w] + share[d][w] = share[d][w]
  BY <1>2, <1>4
<1>6. collected' = [d \in Pots |-> [w \in Wallets |->
                      IF <<d, w>> \in Claimable(p, role) THEN share[d][w] ELSE collected[d][w]]]
  BY <1>5 DEF TakeRows
<1>7. Declared' = Declared /\ share' = share
  BY DEF TakeRows, Declared
<1>8. Promise!HandOut(Claimable(p, role))
  BY <1>3, <1>6, <1>7 DEF Promise!HandOut
<1> QED BY <1>1, <1>8

LEMMA PromiseNext == Inv /\ [Next]_vars => [Promise!PayoutNext]_(Promise!payoutVars)
<1> SUFFICES ASSUME Inv, [Next]_vars
             PROVE  Promise!PayoutNext \/ UNCHANGED Promise!payoutVars
  OBVIOUS
<1>1. CASE UNCHANGED <<total, share, collected>>
  BY <1>1 DEF Promise!payoutVars, Declared
<1>2. ASSUME NEW p \in Procs, NEW d \in Pots, NEW lucky, At(p, "declare"),
             WriteDeclaration(p, d, lucky), UNCHANGED collected
      PROVE  Promise!PayoutNext
  BY <1>2, PromiseDeclare DEF Promise!PayoutNext
<1>3. ASSUME NEW p \in Procs, ClaimAll(p) PROVE Promise!PayoutNext
  BY <1>3, PromiseClaim DEF Promise!PayoutNext
<1>4. ASSUME NEW p \in Procs, WriteDeclare(p)
      PROVE  Promise!PayoutNext \/ UNCHANGED <<total, share, collected>>
  BY <1>2, <1>4 DEF WriteDeclare, rowVars
<1>5. ASSUME NEW p \in Procs, ReadHolders(p) \/ Call(p) PROVE UNCHANGED <<total, share, collected>>
  BY <1>5 DEF ReadHolders, Call, Declare, Claim, rowVars
<1>6. CASE Elsewhere \/ UNCHANGED vars
  BY <1>1, <1>6 DEF Elsewhere, Trade, LinkWallet, vars, rowVars
<1> QED BY <1>1, <1>3, <1>4, <1>5, <1>6 DEF Next, Advance

\* Declaring and claiming, with every await between their calls, implement the
\* promise: shares that never change, each handed out at most once, whole.
THEOREM PromiseKept == Spec => KeepsPromise
<1>1. Init => Promise!PayoutInit
  BY PromiseInit
<1>2. Inv /\ [Next]_vars => [Promise!PayoutNext]_(Promise!payoutVars)
  BY PromiseNext
<1> QED BY <1>1, <1>2, AlwaysInv, PTL DEF Spec, KeepsPromise, Promise!PayoutSpec

-----------------------------------------------------------------------------
\* Together: a pot is owed whole, and no part of it is paid twice.
THEOREM PotPaidOut == Spec => []PotIsPaidOut
<1>1. WholePot /\ PaidOnce => PotIsPaidOut
  BY DEF PotIsPaidOut
<1> QED BY <1>1, PotIsWhole, SharesPaidOnce, PTL

-----------------------------------------------------------------------------
(* OrderReservation.                                                       *)

\* The statements of the transaction.
Deciding == {"reserved", "issued", "person", "decide"}
Reading == [held : Nat, reservedAll : Nat, tokensIssued : Nat, reservedByPerson : Nat]

\* Orders that take tokens: those not yet settled, and a refund that may be refused.
Taken == {o \in Orders : orderRow[o] \in Reserve!Reserving \cup {"refunding"}}
Unsettled == {o \in Orders : orderRow[o] \in Reserve!Reserving}

OrderTyped == Reserve!TypeOK /\ read \in [Orders -> Reading]

\* Who is in the transaction holds the offering's row.
LockIsHeld == \A o \in Orders : orderPc[o] \in Deciding <=> lock = o

\* A row appears when its call has decided, a capture is under way of an order
\* that waits for it, and refunds begin when nobody decides any more.
RowsFollowCalls ==
  \A o \in Orders :
    /\ orderPc[o] \notin {"checkout", "done"} => orderRow[o] = "none"
    /\ o \in paying => orderRow[o] = "pending_payment" /\ orderPc[o] = "done"
    /\ orderRow[o] = "refunding" =>
         ~open /\ \A x \in Orders : orderPc[x] \in {"start", "checkout", "done"}

\* What a call has read of the reservations is no less than what there is.
ReadsHold ==
  \A o \in Orders :
    /\ orderPc[o] \in {"issued", "person", "decide"} => Amount(Want, Unsettled) <= read[o].reservedAll
    /\ orderPc[o] = "decide" /\ Cap[Reserve!Person(o)] # NoCap =>
         Amount(Want, Reserve!ByPerson(Reserve!Person(o), Unsettled)) <= read[o].reservedByPerson

TakenFits ==
  /\ Amount(Want, Taken) <= TokensTotal
  /\ \A x \in Reserve!Customers :
       Cap[x] # NoCap => Amount(Want, Reserve!ByPerson(x, Taken)) <= Cap[x]

OrderInv == OrderTyped /\ LockIsHeld /\ RowsFollowCalls /\ ReadsHold /\ TakenFits

\* No row policy binds the connection, and no step outlasts what waits for it.
OrdersInTime == Role = "owner" /\ {"earlyPay", "slowCapture", "slowCreate"} \cap OrderFaults = {}

\* Of fewer orders there are no more tokens.
LEMMA FewerTokens ==
  ASSUME NEW S \in SUBSET Orders, NEW T \in SUBSET S
  PROVE  /\ Amount(Want, S) \in Nat /\ Amount(Want, T) \in Nat
         /\ Amount(Want, T) <= Amount(Want, S)
<1>1. IsFiniteSet(Orders) /\ \A o \in Orders : Want[o] \in Nat
  BY OfferingAssumption DEF OrderAssumed
<1>2. IsFiniteSet(S) /\ T \in SUBSET Orders
  BY <1>1, FS_Subset
<1>3. IsFiniteSet(T)
  BY <1>2, FS_Subset
<1>4. \A o \in S : Want[o] \in Nat
  BY <1>1
<1>5. \A o \in T : Want[o] \in Nat
  BY <1>1
<1>6. Amount(Want, S) \in Nat
  BY <1>2, <1>4, PileFinite
<1>7. Amount(Want, T) \in Nat
  BY <1>3, <1>5, PileFinite
<1>8. Amount(Want, T) <= Amount(Want, S)
  BY <1>2, <1>4, AmountMonotone
<1> QED BY <1>6, <1>7, <1>8

\* The tokens of orders are an amount.
LEMMA TokensAre ==
  ASSUME NEW S \in SUBSET Orders
  PROVE  Reserve!Tokens(S) = Amount(Want, S) /\ Reserve!Tokens(S) \in Nat
<1>1. Reserve!Tokens(S) = Amount(Want, S)
  BY DEF Reserve!Tokens, Amount, Pile, Reserve!Cardinality, Cardinality
<1> QED BY <1>1, FewerTokens

\* With one order more there are its tokens more.
LEMMA MoreTokens ==
  ASSUME NEW S \in SUBSET Orders, NEW o \in Orders
  PROVE  Amount(Want, S \cup {o}) <= Amount(Want, S) + Want[o]
<1>1. IsFiniteSet(Orders) /\ \A x \in Orders : Want[x] \in Nat
  BY OfferingAssumption DEF OrderAssumed
<1>2. CASE o \in S
  <2>1. S \cup {o} = S
    BY <1>2
  <2>2. Amount(Want, S) \in Nat /\ Want[o] \in Nat
    BY <1>1, FewerTokens
  <2>3. Amount(Want, S) <= Amount(Want, S) + Want[o]
    BY <2>2
  <2> QED BY <2>1, <2>3
<1>3. CASE o \notin S
  <2>1. Amount(Want, S \cup {o}) = Amount(Want, S) + Want[o]
    BY <1>1, <1>3, AmountAdd
  <2>2. Amount(Want, S) \in Nat /\ Amount(Want, S \cup {o}) \in Nat /\ Want[o] \in Nat
    BY <1>1, FewerTokens
  <2> QED BY <2>1, <2>2
<1> QED BY <1>2, <1>3

\* A person of an order is one of the customers.
LEMMA PersonIsCustomer ==
  ASSUME NEW o \in Orders
  PROVE  /\ Reserve!Person(o) \in Reserve!Customers
         /\ Cap[Reserve!Person(o)] \in Nat \cup {NoCap}
<1>1. WalletOf[o] \in Wallets
  BY OfferingAssumption DEF OrderAssumed
<1>2. Reserve!Person(o) \in Reserve!Customers
  BY <1>1 DEF Reserve!Person, Reserve!Customers
<1> QED BY <1>2, OfferingAssumption DEF OrderAssumed

LEMMA OrderStart == Reserve!Init => OrderTyped
<1> SUFFICES ASSUME Reserve!Init PROVE OrderTyped
  OBVIOUS
<1>1. read \in [Orders -> Reading]
  BY DEF Reserve!Init, Reserve!NoRead, Reading
<1>2. Reserve!TypeOK
  BY DEF Reserve!Init, Reserve!TypeOK, Reserve!NoRead, Reserve!Rows, Reserve!Reserving
<1> QED BY <1>1, <1>2 DEF OrderTyped

\* What a call learns is a number.
LEMMA LearnTyped ==
  ASSUME OrderTyped, NEW o \in Orders, NEW n \in Nat,
         NEW f \in {"held", "reservedAll", "tokensIssued", "reservedByPerson"},
         read' = [read EXCEPT ![o][f] = n]
  PROVE  read' \in [Orders -> Reading]
<1>1. read[o] \in Reading
  BY DEF OrderTyped
<1>2. [read[o] EXCEPT ![f] = n] \in Reading
  BY <1>1 DEF Reading
<1> QED BY <1>2 DEF OrderTyped

\* A type of the reads says what TypeOK says of them.
LEMMA ReadingTyped ==
  ASSUME NEW r, r \in [Orders -> Reading], NEW o \in Orders
  PROVE  DOMAIN r[o] = DOMAIN Reserve!NoRead /\ \A f \in DOMAIN Reserve!NoRead : r[o][f] \in Nat
<1>1. r[o] \in Reading
  OBVIOUS
<1>2. DOMAIN Reserve!NoRead = {"held", "reservedAll", "tokensIssued", "reservedByPerson"}
  BY DEF Reserve!NoRead
<1> QED BY <1>1, <1>2 DEF Reading

LEMMA OrderTypedParts ==
  ASSUME open \in BOOLEAN, orderRow \in [Orders -> Reserve!Rows], lock \in Orders \cup {NoOrder},
         orderPc \in [Orders -> {"start", "held", "lock", "checkout", "done"} \cup Deciding],
         unread \in [Orders -> SUBSET Wallets], read \in [Orders -> Reading],
         paying \in SUBSET Orders, indexed \in SUBSET minted, minted \in SUBSET Orders
  PROVE  OrderTyped
BY ReadingTyped DEF OrderTyped, Reserve!TypeOK, Deciding

LEMMA OrderTypedCreate ==
  ASSUME OrderTyped, NEW o \in Orders, Reserve!Create(o)
  PROVE  OrderTyped'
<1> DEFINE Pcs2 == {"start", "held", "lock", "checkout", "done"} \cup Deciding
<1>1. /\ open \in BOOLEAN /\ orderRow \in [Orders -> Reserve!Rows] /\ lock \in Orders \cup {NoOrder}
      /\ orderPc \in [Orders -> Pcs2] /\ unread \in [Orders -> SUBSET Wallets]
      /\ read \in [Orders -> Reading]
      /\ paying \in SUBSET Orders /\ indexed \in SUBSET minted /\ minted \in SUBSET Orders
  BY DEF OrderTyped, Reserve!TypeOK, Deciding
<1>2. UNCHANGED <<open, paying, minted, indexed>>
  BY DEF Reserve!Create, Reserve!Start, Reserve!ReadHeld, Reserve!TakeLock, Reserve!ReadReserved,
         Reserve!ReadIssued, Reserve!ReadPerson, Reserve!Decide, Reserve!Rollback, Reserve!Checkout,
         Reserve!lifeVars
<1>3. orderPc' \in [Orders -> Pcs2]
  BY <1>1 DEF Reserve!Create, Reserve!Start, Reserve!ReadHeld, Reserve!TakeLock, Reserve!ReadReserved,
         Reserve!ReadIssued, Reserve!ReadPerson, Reserve!Decide, Reserve!Rollback, Reserve!Checkout,
         Reserve!Goto, Deciding
<1>4. lock' \in Orders \cup {NoOrder}
  BY <1>1 DEF Reserve!Create, Reserve!Start, Reserve!ReadHeld, Reserve!TakeLock, Reserve!ReadReserved,
         Reserve!ReadIssued, Reserve!ReadPerson, Reserve!Decide, Reserve!Rollback, Reserve!Checkout,
         Reserve!Commit
<1>5. orderRow' \in [Orders -> Reserve!Rows]
  BY <1>1 DEF Reserve!Create, Reserve!Start, Reserve!ReadHeld, Reserve!TakeLock, Reserve!ReadReserved,
         Reserve!ReadIssued, Reserve!ReadPerson, Reserve!Decide, Reserve!Rollback, Reserve!Checkout,
         Reserve!Rows, Reserve!Reserving
<1>6. unread' \in [Orders -> SUBSET Wallets]
  <2>1. Reserve!WalletsOf(o) \in SUBSET Wallets
    BY DEF Reserve!WalletsOf
  <2> QED BY <1>1, <2>1 DEF Reserve!Create, Reserve!Start, Reserve!ReadHeld, Reserve!TakeLock,
         Reserve!ReadReserved, Reserve!ReadIssued, Reserve!ReadPerson, Reserve!Decide,
         Reserve!Rollback, Reserve!Checkout
<1>7. read' \in [Orders -> Reading]
  <2>1. CASE UNCHANGED read
    BY <1>1, <2>1
  <2>2. ASSUME NEW S \in SUBSET Orders, NEW f \in {"reservedAll", "tokensIssued", "reservedByPerson"},
               Reserve!Learn(o, f, Reserve!Tokens(S))
        PROVE  read' \in [Orders -> Reading]
    BY <2>2, TokensAre, LearnTyped DEF Reserve!Learn
  <2>3. CASE Reserve!ReadHeld(o)
    <3>1. CASE UNCHANGED read
      BY <2>1, <3>1
    <3>2. ASSUME NEW w \in unread[o],
                 Reserve!Learn(o, "held", read[o].held + Reserve!Tokens({x \in minted : WalletOf[x] = w}))
          PROVE  read' \in [Orders -> Reading]
      <4>1. {x \in minted : WalletOf[x] = w} \in SUBSET Orders
        BY <1>1
      <4>2. Reserve!Tokens({x \in minted : WalletOf[x] = w}) \in Nat
        BY <4>1, TokensAre
      <4>3. read[o].held \in Nat
        BY <1>1 DEF Reading
      <4>4. read[o].held + Reserve!Tokens({x \in minted : WalletOf[x] = w}) \in Nat
        BY <4>2, <4>3
      <4> QED BY <3>2, <4>4, LearnTyped DEF Reserve!Learn
    <3> QED BY <2>3, <3>1, <3>2 DEF Reserve!ReadHeld
  <2>4. CASE Reserve!ReadReserved(o)
    <3>1. Reserve!Visible(o, Reserve!Open(Orders)) \in SUBSET Orders
      BY DEF Reserve!Visible, Reserve!Open
    <3> QED BY <2>2, <2>4, <3>1 DEF Reserve!ReadReserved
  <2>5. CASE Reserve!ReadIssued(o)
    <3>1. Reserve!Visible(o, indexed) \in SUBSET Orders
      BY <1>1 DEF Reserve!Visible
    <3> QED BY <2>2, <2>5, <3>1 DEF Reserve!ReadIssued
  <2>6. CASE Reserve!ReadPerson(o)
    <3>1. Reserve!Visible(o, Reserve!ByPerson(Reserve!Person(o), Reserve!Open(Orders))) \in SUBSET Orders
      BY DEF Reserve!Visible, Reserve!ByPerson, Reserve!Open
    <3> QED BY <2>1, <2>2, <2>6, <3>1 DEF Reserve!ReadPerson
  <2>7. CASE Reserve!Start(o) \/ Reserve!TakeLock(o) \/ Reserve!Decide(o) \/ Reserve!Rollback(o)
             \/ Reserve!Checkout(o)
    BY <2>1, <2>7 DEF Reserve!Start, Reserve!TakeLock, Reserve!Decide, Reserve!Rollback, Reserve!Checkout
  <2> QED BY <2>3, <2>4, <2>5, <2>6, <2>7 DEF Reserve!Create
<1>8. /\ open' \in BOOLEAN /\ paying' \in SUBSET Orders /\ indexed' \in SUBSET minted'
      /\ minted' \in SUBSET Orders
  BY <1>1, <1>2
<1> QED BY <1>3, <1>4, <1>5, <1>6, <1>7, <1>8, ReadingTyped DEF OrderTyped, Reserve!TypeOK, Deciding

LEMMA OrderTypedElse ==
  ASSUME OrderTyped, Reserve!Close \/ (\E o \in Orders : Reserve!Live(o)) \/ UNCHANGED Reserve!vars
  PROVE  OrderTyped'
<1>1. /\ open \in BOOLEAN /\ orderRow \in [Orders -> Reserve!Rows] /\ lock \in Orders \cup {NoOrder}
      /\ orderPc \in [Orders -> {"start", "held", "lock", "checkout", "done"} \cup Deciding]
      /\ unread \in [Orders -> SUBSET Wallets] /\ read \in [Orders -> Reading]
      /\ paying \in SUBSET Orders /\ indexed \in SUBSET minted /\ minted \in SUBSET Orders
  BY DEF OrderTyped, Reserve!TypeOK, Deciding
<1>2. UNCHANGED <<lock, orderPc, unread, read>> /\ open' \in BOOLEAN
  BY <1>1 DEF Reserve!Close, Reserve!Live, Reserve!Pay, Reserve!Paid, Reserve!Expire,
         Reserve!ClaimSettle, Reserve!Refund, Reserve!Mint, Reserve!Unsettle, Reserve!Settled,
         Reserve!Index, Reserve!Move, Reserve!callVars, Reserve!vars
<1>3. orderRow' \in [Orders -> Reserve!Rows]
  BY <1>1 DEF Reserve!Close, Reserve!Live, Reserve!Pay, Reserve!Paid, Reserve!Expire,
         Reserve!ClaimSettle, Reserve!Refund, Reserve!Mint, Reserve!Unsettle, Reserve!Settled,
         Reserve!Index, Reserve!Move, Reserve!vars, Reserve!Rows, Reserve!Reserving
<1>4. paying' \in SUBSET Orders /\ indexed' \in SUBSET minted' /\ minted' \in SUBSET Orders
  BY <1>1 DEF Reserve!Close, Reserve!Live, Reserve!Pay, Reserve!Paid, Reserve!Expire,
         Reserve!ClaimSettle, Reserve!Refund, Reserve!Mint, Reserve!Unsettle, Reserve!Settled,
         Reserve!Index, Reserve!Move, Reserve!lifeVars, Reserve!vars
<1> QED BY <1>1, <1>2, <1>3, <1>4, ReadingTyped DEF OrderTyped, Reserve!TypeOK, Deciding

LEMMA OrderTypedNext ==
  ASSUME OrderTyped, [Reserve!Next]_(Reserve!vars)
  PROVE  OrderTyped'
BY OrderTypedCreate, OrderTypedElse DEF Reserve!Next

LEMMA CallsKept ==
  ASSUME OrdersInTime, OrderTyped, LockIsHeld, RowsFollowCalls, NEW o \in Orders, Reserve!Create(o)
  PROVE  LockIsHeld' /\ RowsFollowCalls'
<1> USE DEF OrdersInTime, OrderTyped, Reserve!TypeOK, LockIsHeld, RowsFollowCalls, Deciding,
            Reserve!At, Reserve!Goto, Reserve!lifeVars
<1>0. NoOrder \notin Orders
  BY OfferingAssumption DEF OrderAssumed
<1>1. CASE Reserve!Start(o)
  BY <1>0, <1>1 DEF Reserve!Start
<1>2. CASE Reserve!ReadHeld(o)
  BY <1>0, <1>2 DEF Reserve!ReadHeld
<1>3. CASE Reserve!TakeLock(o)
  BY <1>0, <1>3 DEF Reserve!TakeLock
<1>4. CASE Reserve!ReadReserved(o)
  BY <1>0, <1>4 DEF Reserve!ReadReserved
<1>5. CASE Reserve!ReadIssued(o)
  BY <1>0, <1>5 DEF Reserve!ReadIssued
<1>6. CASE Reserve!ReadPerson(o)
  BY <1>0, <1>6 DEF Reserve!ReadPerson
<1>7. CASE Reserve!Decide(o)
  BY <1>0, <1>7 DEF Reserve!Decide, Reserve!Commit
<1>8. CASE Reserve!Rollback(o)
  BY <1>0, <1>8 DEF Reserve!Rollback, Reserve!Commit
<1>9. CASE Reserve!Checkout(o)
  BY <1>0, <1>9 DEF Reserve!Checkout
<1> QED BY <1>1, <1>2, <1>3, <1>4, <1>5, <1>6, <1>7, <1>8, <1>9 DEF Reserve!Create

LEMMA OrdersKept ==
  ASSUME OrdersInTime, OrderTyped, LockIsHeld, RowsFollowCalls,
         Reserve!Close \/ (\E o \in Orders : Reserve!Live(o)) \/ UNCHANGED Reserve!vars
  PROVE  LockIsHeld' /\ RowsFollowCalls'
<1> USE DEF OrdersInTime, OrderTyped, Reserve!TypeOK, LockIsHeld, RowsFollowCalls, Deciding,
            Reserve!At, Reserve!callVars, Reserve!lifeVars
<1>1. CASE Reserve!Close
  BY <1>1 DEF Reserve!Close
<1>2. CASE UNCHANGED Reserve!vars
  BY <1>2 DEF Reserve!vars
<1>3. ASSUME NEW o \in Orders, Reserve!Live(o) PROVE LockIsHeld' /\ RowsFollowCalls'
  <2>1. CASE Reserve!Pay(o)
    BY <2>1 DEF Reserve!Pay
  <2>2. CASE Reserve!Paid(o)
    BY <2>2 DEF Reserve!Paid
  <2>3. CASE Reserve!Expire(o)
    BY <2>3 DEF Reserve!Expire, Reserve!Move
  <2>4. CASE Reserve!ClaimSettle(o)
    BY <2>4 DEF Reserve!ClaimSettle, Reserve!Move
  <2>5. CASE Reserve!Refund(o)
    BY <2>5 DEF Reserve!Refund, Reserve!Move
  <2>6. CASE Reserve!Mint(o)
    BY <2>6 DEF Reserve!Mint
  <2>7. CASE Reserve!Unsettle(o)
    BY <2>7 DEF Reserve!Unsettle, Reserve!Move
  <2>8. CASE Reserve!Settled(o)
    BY <2>8 DEF Reserve!Settled, Reserve!Move
  <2>9. CASE Reserve!Index(o)
    BY <2>9 DEF Reserve!Index
  <2> QED BY <1>3, <2>1, <2>2, <2>3, <2>4, <2>5, <2>6, <2>7, <2>8, <2>9 DEF Reserve!Live
<1> QED BY <1>1, <1>2, <1>3

\* A step that adds no order to those that take tokens, and lets who has read
\* keep what was read, keeps both limits.
LEMMA NoMoreOrders ==
  ASSUME OrderTyped, ReadsHold, TakenFits,
         Unsettled' \subseteq Unsettled, Taken' \subseteq Taken,
         \A o \in Orders : orderPc'[o] \in {"issued", "person", "decide"} =>
                             orderPc'[o] = orderPc[o] /\ read'[o] = read[o]
  PROVE  ReadsHold' /\ TakenFits'
<1>1. Unsettled \in SUBSET Orders /\ Taken \in SUBSET Orders
  BY DEF Unsettled, Taken
<1>2. ASSUME NEW o \in Orders
      PROVE  /\ orderPc'[o] \in {"issued", "person", "decide"} =>
                  Amount(Want, Unsettled') <= read'[o].reservedAll
             /\ orderPc'[o] = "decide" /\ Cap[Reserve!Person(o)] # NoCap =>
                  Amount(Want, Reserve!ByPerson(Reserve!Person(o), Unsettled')) <= read'[o].reservedByPerson
  <2> DEFINE mine == Reserve!ByPerson(Reserve!Person(o), Unsettled)
             mine2 == Reserve!ByPerson(Reserve!Person(o), Unsettled')
  <2>1. mine \in SUBSET Orders /\ mine2 \in SUBSET mine
    BY <1>1 DEF Reserve!ByPerson
  <2>2. read[o] \in Reading
    BY DEF OrderTyped
  <2>3. read[o].reservedAll \in Nat /\ read[o].reservedByPerson \in Nat
    BY <2>2 DEF Reading
  <2>4. /\ Amount(Want, Unsettled') <= Amount(Want, Unsettled)
        /\ Amount(Want, Unsettled') \in Nat /\ Amount(Want, Unsettled) \in Nat
    BY <1>1, FewerTokens
  <2> HIDE DEF mine, mine2
  <2>5. Amount(Want, mine2) <= Amount(Want, mine) /\ Amount(Want, mine2) \in Nat /\ Amount(Want, mine) \in Nat
    BY <2>1, FewerTokens
  <2>6. ASSUME orderPc'[o] \in {"issued", "person", "decide"}
        PROVE  Amount(Want, Unsettled') <= read'[o].reservedAll
    <3>1. Amount(Want, Unsettled) <= read[o].reservedAll /\ read'[o] = read[o]
      BY <2>6 DEF ReadsHold
    <3> QED BY <2>3, <2>4, <3>1
  <2>7. ASSUME orderPc'[o] = "decide", Cap[Reserve!Person(o)] # NoCap
        PROVE  Amount(Want, mine2) <= read'[o].reservedByPerson
    <3>1. Amount(Want, mine) <= read[o].reservedByPerson /\ read'[o] = read[o]
      BY <2>7 DEF ReadsHold, mine
    <3> QED BY <2>3, <2>5, <3>1
  <2> QED BY <2>6, <2>7 DEF mine2
<1>3. Amount(Want, Taken') <= TokensTotal
  <2>1. /\ Amount(Want, Taken') <= Amount(Want, Taken)
        /\ Amount(Want, Taken') \in Nat /\ Amount(Want, Taken) \in Nat
    BY <1>1, FewerTokens
  <2>2. Amount(Want, Taken) <= TokensTotal /\ TokensTotal \in Nat
    BY OfferingAssumption DEF TakenFits, OrderAssumed
  <2> QED BY <2>1, <2>2
<1>4. ASSUME NEW x \in Reserve!Customers, Cap[x] # NoCap
      PROVE  Amount(Want, Reserve!ByPerson(x, Taken')) <= Cap[x]
  <2> DEFINE theirs == Reserve!ByPerson(x, Taken)
             theirs2 == Reserve!ByPerson(x, Taken')
  <2>1. theirs \in SUBSET Orders /\ theirs2 \in SUBSET theirs
    BY <1>1 DEF Reserve!ByPerson
  <2>2. Amount(Want, theirs) <= Cap[x] /\ Cap[x] \in Nat
    BY <1>4, OfferingAssumption DEF TakenFits, OrderAssumed
  <2> HIDE DEF theirs, theirs2
  <2>3. /\ Amount(Want, theirs2) <= Amount(Want, theirs)
        /\ Amount(Want, theirs2) \in Nat /\ Amount(Want, theirs) \in Nat
    BY <2>1, FewerTokens
  <2>4. Amount(Want, theirs2) <= Cap[x]
    BY <2>2, <2>3
  <2> QED BY <2>4 DEF theirs2
<1>5. ReadsHold'
  BY <1>2 DEF ReadsHold, Reserve!ByPerson, Reserve!Person
<1>6. TakenFits'
  BY <1>3, <1>4 DEF TakenFits, Reserve!ByPerson, Reserve!Person, Reserve!Customers
<1> QED BY <1>5, <1>6

\* The statements that read, under the lock: what is read is what there is.
LEMMA ReadsKept ==
  ASSUME OrdersInTime, OrderInv, NEW o \in Orders,
         Reserve!ReadReserved(o) \/ Reserve!ReadIssued(o) \/ Reserve!ReadPerson(o)
  PROVE  ReadsHold' /\ TakenFits'
<1>1. /\ read \in [Orders -> Reading] /\ LockIsHeld /\ ReadsHold /\ TakenFits
      /\ orderPc \in [Orders -> {"start", "held", "lock", "reserved", "issued", "person",
                                 "decide", "checkout", "done"}]
  BY DEF OrderInv, OrderTyped, Reserve!TypeOK
<1>2. orderRow' = orderRow
  BY DEF Reserve!ReadReserved, Reserve!ReadIssued, Reserve!ReadPerson
<1>3. Unsettled' = Unsettled /\ Taken' = Taken
  BY <1>2 DEF Unsettled, Taken
<1>4. TakenFits'
  BY <1>1, <1>3 DEF TakenFits, Reserve!ByPerson, Reserve!Person, Reserve!Customers
<1>5. Unsettled \in SUBSET Orders /\ Reserve!Open(Orders) = Unsettled
  BY DEF Unsettled, Reserve!Open
<1>6. \A S : Reserve!Visible(o, S) = {x \in S : TRUE}
  BY DEF Reserve!Visible, OrdersInTime
<1>7. \A S : Reserve!Visible(o, S) = S
  BY <1>6
<1> DEFINE mine(x) == Reserve!ByPerson(Reserve!Person(x), Unsettled)
<1>8. \A x \in Orders : x # o => read'[x] = read[x] /\ orderPc'[x] = orderPc[x]
  BY <1>1 DEF Reserve!ReadReserved, Reserve!ReadIssued, Reserve!ReadPerson, Reserve!Learn, Reserve!Goto
<1>9. mine(o) \in SUBSET Orders
  BY <1>5 DEF Reserve!ByPerson
<1>10. Amount(Want, Unsettled) \in Nat /\ Amount(Want, mine(o)) \in Nat
  BY <1>5, <1>9, FewerTokens
<1>11. /\ Amount(Want, Unsettled) <= read'[o].reservedAll
       /\ orderPc'[o] = "decide" /\ Cap[Reserve!Person(o)] # NoCap =>
            Amount(Want, mine(o)) <= read'[o].reservedByPerson
  <2>1. CASE Reserve!ReadReserved(o)
    <3>1. read' = [read EXCEPT ![o]["reservedAll"] = Reserve!Tokens(Unsettled)] /\ orderPc'[o] = "issued"
      BY <1>1, <1>5, <1>7, <2>1 DEF Reserve!ReadReserved, Reserve!Learn, Reserve!Goto
    <3>2. read'[o].reservedAll = Amount(Want, Unsettled)
      BY <1>1, <1>5, <3>1, TokensAre DEF Reading
    <3> QED BY <1>10, <3>1, <3>2
  <2>2. CASE Reserve!ReadIssued(o)
    <3>1. read'[o].reservedAll = read[o].reservedAll /\ orderPc'[o] = "person" /\ orderPc[o] = "issued"
      BY <1>1, <2>2 DEF Reserve!ReadIssued, Reserve!Learn, Reserve!Goto, Reserve!At, Reading
    <3> QED BY <1>1, <3>1 DEF ReadsHold
  <2>3. CASE Reserve!ReadPerson(o)
    <3>1. read'[o].reservedAll = read[o].reservedAll /\ orderPc[o] = "person"
      BY <1>1, <2>3 DEF Reserve!ReadPerson, Reserve!Learn, Reserve!Goto, Reserve!At, Reading
    <3>2. ASSUME Cap[Reserve!Person(o)] # NoCap
          PROVE  read'[o].reservedByPerson = Amount(Want, mine(o))
      <4>1. read' = [read EXCEPT ![o]["reservedByPerson"] = Reserve!Tokens(mine(o))]
        BY <1>5, <1>7, <2>3, <3>2 DEF Reserve!ReadPerson, Reserve!Learn
      <4>2. Reserve!Tokens(mine(o)) = Amount(Want, mine(o))
        BY <1>9, TokensAre
      <4> QED BY <1>1, <4>1, <4>2 DEF Reading
    <3> QED BY <1>1, <1>10, <3>1, <3>2 DEF ReadsHold
  <2> QED BY <2>1, <2>2, <2>3
<1>12. ASSUME NEW x \in Orders
       PROVE  /\ orderPc'[x] \in {"issued", "person", "decide"} =>
                   Amount(Want, Unsettled) <= read'[x].reservedAll
              /\ orderPc'[x] = "decide" /\ Cap[Reserve!Person(x)] # NoCap =>
                   Amount(Want, mine(x)) <= read'[x].reservedByPerson
  BY <1>1, <1>8, <1>11 DEF ReadsHold
<1>13. ReadsHold'
  BY <1>3, <1>12 DEF ReadsHold, Reserve!ByPerson, Reserve!Person
<1> QED BY <1>4, <1>13

\* The decision: no refund is under way, so that what was read is all that is
\* taken, and nobody else is in the transaction.
LEMMA DecisionFits ==
  ASSUME OrdersInTime, OrderInv, NEW o \in Orders, Reserve!Decide(o)
  PROVE  ReadsHold' /\ TakenFits'
<1>1. /\ read \in [Orders -> Reading] /\ LockIsHeld /\ RowsFollowCalls /\ ReadsHold /\ TakenFits
      /\ orderRow \in [Orders -> Reserve!Rows]
      /\ orderPc \in [Orders -> {"start", "held", "lock", "reserved", "issued", "person",
                                 "decide", "checkout", "done"}]
  BY DEF OrderInv, OrderTyped, Reserve!TypeOK
<1>2. orderPc[o] = "decide" /\ read' = read
  BY DEF Reserve!Decide, Reserve!At
<1>3. \A x \in Orders : orderPc'[x] \notin {"issued", "person", "decide"}
  <2>1. orderPc'[o] \in {"checkout", "done"} /\ \A x \in Orders \ {o} : orderPc'[x] = orderPc[x]
    BY <1>1 DEF Reserve!Decide, Reserve!Goto
  <2>2. \A x \in Orders \ {o} : orderPc[x] \notin Deciding
    BY <1>1, <1>2 DEF LockIsHeld, Deciding
  <2> QED BY <2>1, <2>2 DEF Deciding
<1>4. ReadsHold'
  BY <1>3 DEF ReadsHold, Reserve!Person
<1>5. \A x \in Orders : orderRow[x] # "refunding"
  BY <1>1, <1>2 DEF RowsFollowCalls
<1>6. Taken = Unsettled /\ Unsettled \in SUBSET Orders
  BY <1>5 DEF Taken, Unsettled
<1>7. CASE UNCHANGED orderRow
  <2>1. Taken' = Taken
    BY <1>7 DEF Taken
  <2> QED BY <1>1, <1>4, <2>1 DEF TakenFits, Reserve!ByPerson, Reserve!Person, Reserve!Customers
<1>8. CASE Reserve!Fits(o) /\ orderRow' = [orderRow EXCEPT ![o] = "pending_payment"]
  <2>1. Taken' = Unsettled \cup {o}
    BY <1>1, <1>6, <1>8 DEF Taken, Unsettled, Reserve!Reserving
  <2>2. /\ read[o].held \in Nat /\ read[o].reservedAll \in Nat /\ read[o].tokensIssued \in Nat
        /\ read[o].reservedByPerson \in Nat
    <3>1. read[o] \in Reading
      BY <1>1
    <3> QED BY <3>1 DEF Reading
  <2>3. Want[o] \in Nat /\ TokensTotal \in Nat
    BY OfferingAssumption DEF OrderAssumed
  <2>4. Amount(Want, Taken') <= TokensTotal
    <3>1. Want[o] <= TokensTotal - read[o].tokensIssued - read[o].reservedAll
      BY <1>8 DEF Reserve!Fits, Reserve!SupplyLeft
    <3>2. Amount(Want, Unsettled) <= read[o].reservedAll /\ Amount(Want, Unsettled) \in Nat
      BY <1>1, <1>2, <1>6, FewerTokens DEF ReadsHold
    <3>3. Amount(Want, Unsettled \cup {o}) <= Amount(Want, Unsettled) + Want[o]
      BY <1>6, MoreTokens
    <3>4. Amount(Want, Unsettled \cup {o}) \in Nat
      <4>1. Unsettled \cup {o} \in SUBSET Orders
        BY <1>6
      <4> QED BY <4>1, FewerTokens
    <3>5. Amount(Want, Unsettled \cup {o}) <= TokensTotal
      BY <2>2, <2>3, <3>1, <3>2, <3>3, <3>4
    <3> QED BY <2>1, <3>5
  <2>5. ASSUME NEW x \in Reserve!Customers, Cap[x] # NoCap
        PROVE  Amount(Want, Reserve!ByPerson(x, Taken')) <= Cap[x]
    <3> DEFINE mine == Reserve!ByPerson(x, Unsettled)
    <3>1. mine \in SUBSET Orders /\ Amount(Want, mine) \in Nat
      <4>1. mine \in SUBSET Orders
        BY <1>6 DEF Reserve!ByPerson
      <4> QED BY <4>1, FewerTokens
    <3>2. CASE x = Reserve!Person(o)
      <4>1. Reserve!ByPerson(x, Taken') = mine \cup {o}
        BY <2>1, <3>2 DEF Reserve!ByPerson
      <4>2. read[o].held + read[o].reservedByPerson + Want[o] <= Cap[x]
        BY <1>8, <2>5, <3>2 DEF Reserve!Fits, Reserve!WithinCap
      <4>3. Amount(Want, mine) <= read[o].reservedByPerson
        BY <1>1, <1>2, <2>5, <3>2 DEF ReadsHold
      <4>4. Amount(Want, mine \cup {o}) <= Amount(Want, mine) + Want[o]
        BY <3>1, MoreTokens
      <4>5. Amount(Want, mine \cup {o}) \in Nat
        <5>1. mine \cup {o} \in SUBSET Orders
          BY <3>1
        <5> QED BY <5>1, FewerTokens
      <4>6. Cap[x] \in Nat
        BY <2>5, OfferingAssumption DEF OrderAssumed
      <4> HIDE DEF mine
      <4>7. Amount(Want, mine \cup {o}) <= Cap[x]
        BY <2>2, <2>3, <3>1, <4>2, <4>3, <4>4, <4>5, <4>6
      <4> QED BY <4>1, <4>7
    <3>3. CASE x # Reserve!Person(o)
      <4>1. Reserve!ByPerson(x, Taken') = Reserve!ByPerson(x, Taken)
        BY <1>6, <2>1, <3>3 DEF Reserve!ByPerson
      <4> QED BY <1>1, <2>5, <4>1 DEF TakenFits
    <3> QED BY <3>2, <3>3
  <2>6. TakenFits'
    BY <2>4, <2>5 DEF TakenFits, Reserve!ByPerson, Reserve!Person, Reserve!Customers
  <2> QED BY <1>4, <2>6
<1> QED BY <1>7, <1>8 DEF Reserve!Decide

\* A refund begins when nobody decides; refused, it leaves an order that was taken
\* all the time.
LEMMA RefundFits ==
  ASSUME OrdersInTime, OrderInv, NEW o \in Orders, Reserve!Refund(o)
  PROVE  ReadsHold' /\ TakenFits'
<1>1. /\ orderRow \in [Orders -> Reserve!Rows] /\ OrderTyped /\ ReadsHold /\ TakenFits /\ RowsFollowCalls
  BY DEF OrderInv, OrderTyped, Reserve!TypeOK
<1>2. UNCHANGED <<orderPc, read>>
  BY DEF Reserve!Refund, Reserve!Move, Reserve!callVars
<1>3. CASE Reserve!Move(o, "paid", "refunding") \/ Reserve!Move(o, "refunding", "refunded")
  <2>1. Unsettled' \subseteq Unsettled /\ Taken' \subseteq Taken
    BY <1>1, <1>3 DEF Unsettled, Taken, Reserve!Move, Reserve!Reserving
  <2> QED BY <1>1, <1>2, <2>1, NoMoreOrders
<1>4. CASE Reserve!Move(o, "refunding", "paid")
  <2>1. Taken' = Taken
    BY <1>1, <1>4 DEF Taken, Reserve!Move, Reserve!Reserving
  <2>2. \A x \in Orders : orderPc'[x] \in {"start", "checkout", "done"}
    BY <1>1, <1>2, <1>4 DEF RowsFollowCalls, Reserve!Move
  <2>3. ReadsHold'
    BY <2>2 DEF ReadsHold
  <2>4. TakenFits'
    BY <1>1, <2>1 DEF TakenFits, Reserve!ByPerson, Reserve!Person, Reserve!Customers
  <2> QED BY <2>3, <2>4
<1> QED BY <1>3, <1>4 DEF Reserve!Refund

LEMMA RestFits ==
  ASSUME OrdersInTime, OrderInv, NEW o \in Orders,
         \/ Reserve!Start(o) \/ Reserve!ReadHeld(o) \/ Reserve!TakeLock(o) \/ Reserve!Rollback(o)
         \/ Reserve!Checkout(o) \/ Reserve!Pay(o) \/ Reserve!Paid(o) \/ Reserve!Expire(o)
         \/ Reserve!ClaimSettle(o) \/ Reserve!Mint(o) \/ Reserve!Unsettle(o) \/ Reserve!Settled(o)
         \/ Reserve!Index(o) \/ Reserve!Close \/ UNCHANGED Reserve!vars
  PROVE  ReadsHold' /\ TakenFits'
<1>1. /\ orderRow \in [Orders -> Reserve!Rows] /\ read \in [Orders -> Reading]
      /\ orderPc \in [Orders -> {"start", "held", "lock", "reserved", "issued", "person",
                                 "decide", "checkout", "done"}]
      /\ OrderTyped /\ ReadsHold /\ TakenFits /\ RowsFollowCalls
  BY DEF OrderInv, OrderTyped, Reserve!TypeOK
<1>2. ASSUME orderRow' = orderRow PROVE Unsettled' \subseteq Unsettled /\ Taken' \subseteq Taken
  BY <1>2 DEF Unsettled, Taken
<1>3. ASSUME NEW s \in Reserve!Rows, orderRow' = [orderRow EXCEPT ![o] = s],
             orderRow[o] \in Reserve!Reserving \/ s \notin Reserve!Reserving \cup {"refunding"}
      PROVE  Unsettled' \subseteq Unsettled /\ Taken' \subseteq Taken
  BY <1>1, <1>3 DEF Unsettled, Taken, Reserve!Reserving
<1>4. Unsettled' \subseteq Unsettled /\ Taken' \subseteq Taken
  <2>1. CASE Reserve!Paid(o)
    <3>1. orderRow[o] = "pending_payment"
      BY <1>1, <2>1 DEF RowsFollowCalls, Reserve!Paid
    <3> QED BY <1>3, <2>1, <3>1 DEF Reserve!Paid, Reserve!Rows, Reserve!Reserving
  <2>2. CASE Reserve!Checkout(o)
    BY <1>2, <1>3, <2>2 DEF Reserve!Checkout, Reserve!Rows, Reserve!Reserving
  <2>3. CASE \/ Reserve!Expire(o) \/ Reserve!ClaimSettle(o) \/ Reserve!Unsettle(o) \/ Reserve!Settled(o)
    BY <1>3, <2>3 DEF Reserve!Expire, Reserve!ClaimSettle, Reserve!Unsettle, Reserve!Settled,
         Reserve!Move, Reserve!Rows, Reserve!Reserving
  <2>4. CASE \/ Reserve!Start(o) \/ Reserve!ReadHeld(o) \/ Reserve!TakeLock(o) \/ Reserve!Rollback(o)
             \/ Reserve!Pay(o) \/ Reserve!Mint(o) \/ Reserve!Index(o) \/ Reserve!Close
             \/ UNCHANGED Reserve!vars
    BY <1>2, <2>4 DEF Reserve!Start, Reserve!ReadHeld, Reserve!TakeLock, Reserve!Rollback, Reserve!Pay,
         Reserve!Mint, Reserve!Index, Reserve!Close, Reserve!vars
  <2> QED BY <2>1, <2>2, <2>3, <2>4
<1>5. \A x \in Orders : orderPc'[x] \in {"issued", "person", "decide"} =>
                          orderPc'[x] = orderPc[x] /\ read'[x] = read[x]
  BY <1>1 DEF Reserve!Start, Reserve!ReadHeld, Reserve!TakeLock, Reserve!Rollback, Reserve!Checkout,
       Reserve!Pay, Reserve!Paid, Reserve!Expire, Reserve!ClaimSettle, Reserve!Mint, Reserve!Unsettle,
       Reserve!Settled, Reserve!Index, Reserve!Move, Reserve!Close, Reserve!vars, Reserve!callVars,
       Reserve!Goto, Reserve!At, Reserve!Learn
<1> QED BY <1>1, <1>4, <1>5, NoMoreOrders

LEMMA OrderInit == Reserve!Init => OrderInv
<1> SUFFICES ASSUME Reserve!Init PROVE OrderInv
  OBVIOUS
<1>1. OrderTyped
  BY OrderStart
<1>2. LockIsHeld /\ RowsFollowCalls /\ ReadsHold
  BY OfferingAssumption DEF Reserve!Init, LockIsHeld, RowsFollowCalls, ReadsHold, Deciding, OrderAssumed
<1>3. Taken = {}
  BY DEF Reserve!Init, Taken, Reserve!Reserving
<1>4. Pile(Want, {}) = {}
  BY DEF Pile
<1>5. Amount(Want, {}) = 0
  BY <1>4, FS_EmptySet DEF Amount
<1>6. \A x : Reserve!ByPerson(x, Taken) = {}
  BY <1>3 DEF Reserve!ByPerson
<1>7. TakenFits
  BY <1>3, <1>5, <1>6, OfferingAssumption DEF TakenFits, OrderAssumed
<1> QED BY <1>1, <1>2, <1>7 DEF OrderInv

LEMMA OrderNext ==
  ASSUME OrdersInTime, OrderInv, [Reserve!Next]_(Reserve!vars)
  PROVE  OrderInv'
<1>1. OrderTyped'
  BY OrderTypedNext DEF OrderInv
<1>2. LockIsHeld' /\ RowsFollowCalls'
  BY CallsKept, OrdersKept DEF OrderInv, Reserve!Next
<1>3. ReadsHold' /\ TakenFits'
  <2>1. CASE Reserve!Close \/ UNCHANGED Reserve!vars
    <3>1. CASE Orders = {}
      BY <3>1, <2>1, RestFits DEF OrderInv, ReadsHold, TakenFits, Taken, Reserve!ByPerson
    <3>2. ASSUME NEW o \in Orders PROVE ReadsHold' /\ TakenFits'
      BY <2>1, RestFits
    <3> QED BY <3>1, <3>2
  <2>2. ASSUME NEW o \in Orders, Reserve!Create(o) PROVE ReadsHold' /\ TakenFits'
    BY <2>2, ReadsKept, DecisionFits, RestFits DEF Reserve!Create
  <2>3. ASSUME NEW o \in Orders, Reserve!Live(o) PROVE ReadsHold' /\ TakenFits'
    BY <2>3, RefundFits, RestFits DEF Reserve!Live
  <2> QED BY <2>1, <2>2, <2>3 DEF Reserve!Next
<1> QED BY <1>1, <1>2, <1>3 DEF OrderInv

\* Concurrent orders reserve no more than the offering has, and no person's more
\* than the person's cap, however createOrderAtomic interleaves with what becomes
\* of orders: on a connection no row policy binds, and if no capture, creation or
\* payment outlasts what waits for it.
THEOREM OrdersFit == ASSUME OrdersInTime PROVE Reserve!Spec => []ReservationsFit
<1>1. Reserve!Init => OrderInv
  BY OrderInit
<1>2. OrderInv /\ [Reserve!Next]_(Reserve!vars) => OrderInv'
  BY OrderNext
<1>3. OrderInv => ReservationsFit
  <2> SUFFICES ASSUME OrderInv PROVE ReservationsFit
    OBVIOUS
  <2>1. Reserve!Open(Orders) = Unsettled /\ Unsettled \in SUBSET Taken /\ Taken \in SUBSET Orders
    BY DEF Reserve!Open, Unsettled, Taken
  <2>2. Reserve!Tokens(Unsettled) <= TokensTotal
    <3>1. Reserve!Tokens(Unsettled) = Amount(Want, Unsettled) /\ Amount(Want, Unsettled) <= Amount(Want, Taken)
          /\ Amount(Want, Unsettled) \in Nat /\ Amount(Want, Taken) \in Nat
      BY <2>1, TokensAre, FewerTokens
    <3>2. Amount(Want, Taken) <= TokensTotal /\ TokensTotal \in Nat
      BY OfferingAssumption DEF OrderInv, TakenFits, OrderAssumed
    <3> QED BY <3>1, <3>2
  <2>3. ASSUME NEW x \in Reserve!Customers, Cap[x] # NoCap
        PROVE  Reserve!Tokens(Reserve!ByPerson(x, Unsettled)) <= Cap[x]
    <3>1. /\ Reserve!ByPerson(x, Unsettled) \in SUBSET Reserve!ByPerson(x, Taken)
          /\ Reserve!ByPerson(x, Taken) \in SUBSET Orders
      BY <2>1 DEF Reserve!ByPerson
    <3>2. Reserve!ByPerson(x, Unsettled) \in SUBSET Orders
      BY <3>1
    <3>3. /\ Reserve!Tokens(Reserve!ByPerson(x, Unsettled)) = Amount(Want, Reserve!ByPerson(x, Unsettled))
          /\ Amount(Want, Reserve!ByPerson(x, Unsettled)) \in Nat
      BY <3>2, TokensAre
    <3>4. /\ Amount(Want, Reserve!ByPerson(x, Unsettled)) <= Amount(Want, Reserve!ByPerson(x, Taken))
          /\ Amount(Want, Reserve!ByPerson(x, Taken)) \in Nat
      BY <3>1, FewerTokens
    <3>5. Amount(Want, Reserve!ByPerson(x, Taken)) <= Cap[x] /\ Cap[x] \in Nat
      BY <2>3, OfferingAssumption DEF OrderInv, TakenFits, OrderAssumed
    <3> QED BY <3>3, <3>4, <3>5
  <2> QED BY <2>1, <2>2, <2>3 DEF ReservationsFit, Reserve!ReservationsFit, Reserve!ReservedFits,
            Reserve!PersonReservedFits
<1> QED BY <1>1, <1>2, <1>3, PTL DEF Reserve!Spec

-----------------------------------------------------------------------------
(* Governance.                                                             *)

Ballots == [person : Persons \cup {NoPerson}, proposal : Proposals \cup {0},
            choice : {"none", "for", "against"}, todo : SUBSET Wallets, weight : Nat, passed : BOOLEAN]
Voting(p) == votePc[p] \in {"weigh", "vote"}

VoteTyped ==
  /\ Governed!TypeOK
  /\ call \in [Procs -> Ballots]
  /\ \A p \in Procs : votePc[p] # "idle" => call[p].proposal \in Proposals
  /\ \A p \in Procs : Voting(p) => call[p].person \in Persons /\ call[p].choice # "none"

\* One call at most is about to apply an outcome that was not applied before.
OneApplies ==
  /\ \A p \in Procs : votePc[p] = "install" =>
       voteStatus[call[p].proposal] = "passed" /\ installs[call[p].proposal] = 0
  /\ \A p, q \in Procs : votePc[p] = "install" /\ votePc[q] = "install" /\ p # q =>
       call[p].proposal # call[q].proposal
  /\ \A v \in Proposals : installs[v] <= IF voteStatus[v] = "passed" THEN 1 ELSE 0

\* What the votes f for a proposal come to.
Sway(f, c) ==
  Governed!Cardinality(UNION {{x} \X (1..f[x].weight) : x \in {y \in Persons : f[y].choice = c}})
Carries(f) == Sway(f, "for") > Sway(f, "against")

\* No vote on v is under way, and none can begin.
Counted(v) == v \in ended /\ \A p \in Procs : Voting(p) => call[p].proposal # v

\* A tally stands, for the call that made it and when it is recorded.
TallyStands ==
  /\ \A p \in Procs : votePc[p] = "tally" => call[p].proposal \in ended
  /\ \A p \in Procs : votePc[p] = "close" =>
       Counted(call[p].proposal) /\ (call[p].passed <=> Carries(votes[call[p].proposal]))
  /\ \A v \in Proposals : voteStatus[v] \in {"passed", "rejected"} =>
       Counted(v) /\ (voteStatus[v] = "passed" <=> Carries(votes[v]))

\* A voter is weighed by wallets of the voter, each once, and all wallets hold
\* what they held at first.
Theirs(x) == {w \in Wallets : Owner[w] = x}
WeightsExist ==
  /\ Amount(held, Wallets) = Amount(Shares, Wallets)
  /\ \A p \in Procs : votePc[p] = "weigh" =>
       /\ call[p].todo \subseteq Theirs(call[p].person)
       /\ call[p].weight = Amount(held, Theirs(call[p].person) \ call[p].todo)
  /\ \A p \in Procs : votePc[p] = "vote" => call[p].weight <= Amount(Shares, Wallets)
  /\ \A v \in Proposals, x \in Persons : votes[v][x].weight <= Amount(Shares, Wallets)

VoteInv == VoteTyped /\ OneApplies /\ TallyStands /\ WeightsExist

\* A vote that began in time is written before the tally, and no token moves while
\* its voter is weighed.
VotedInTime == "slowVote" \notin Faults
WeighedInTime == "midTrade" \notin Faults
VotesInTime == VotedInTime /\ WeighedInTime

VotePcs == {"idle", "weigh", "vote", "tally", "close", "install"}
VoteParts ==
  /\ voteStatus \in [Proposals -> {"none", "open", "passed", "rejected"}]
  /\ ended \in SUBSET Proposals
  /\ votes \in [Proposals -> [Persons -> Governed!Votes \cup {Governed!Nobody}]]
  /\ manager \in Managers \cup {NoManager}
  /\ held \in [Wallets -> Nat] /\ trades \in 0..MaxTrades
  /\ installs \in [Proposals -> Nat]
  /\ votePc \in [Procs -> VotePcs]
  /\ call \in [Procs -> Ballots]

LEMMA VotePartsAre == VoteTyped => VoteParts
BY DEF VoteTyped, VoteParts, VotePcs, Governed!TypeOK, Governed!Statuses, Governed!Pcs, Governed!ClosePcs

LEMMA PartsAreVote ==
  ASSUME VoteParts,
         \A p \in Procs : votePc[p] # "idle" => call[p].proposal \in Proposals,
         \A p \in Procs : Voting(p) => call[p].person \in Persons /\ call[p].choice # "none"
  PROVE  VoteTyped
<1>1. \A p \in Procs : call[p].todo \subseteq Wallets /\ call[p].weight \in Nat
  <2> TAKE p \in Procs
  <2>1. call[p] \in Ballots
    BY DEF VoteParts
  <2> QED BY <2>1 DEF Ballots
<1>2. Governed!TypeOK
  BY <1>1 DEF VoteParts, VotePcs, Governed!TypeOK, Governed!Statuses, Governed!Pcs, Governed!ClosePcs
<1> QED BY <1>2 DEF VoteTyped, VoteParts

LEMMA CarriedIs ==
  ASSUME NEW v \in Proposals
  PROVE  Governed!Carried(v) <=> Carries(votes[v])
BY DEF Governed!Carried, Governed!Sum, Governed!Voters, Carries, Sway

LEMMA NoCallTyped == Governed!NoCall \in Ballots
BY DEF Governed!NoCall, Ballots

\* What Vote and the weighing make of a call.
Begins(r, x, v, c) ==
  r = [Governed!NoCall EXCEPT !.person = x, !.proposal = v, !.choice = c, !.todo = Theirs(x)]
Weighs(r, b, w, n) == r = [b EXCEPT !.todo = b.todo \ {w}, !.weight = b.weight + n]

LEMMA BallotBegins ==
  ASSUME NEW x \in Persons, NEW v \in Proposals, NEW c \in {"for", "against"}, NEW r, Begins(r, x, v, c)
  PROVE  /\ r \in Ballots
         /\ r.person = x /\ r.proposal = v /\ r.choice = c /\ r.todo = Theirs(x) /\ r.weight = 0
<1>1. r = [person |-> x, proposal |-> v, choice |-> c, todo |-> Theirs(x), weight |-> 0,
           passed |-> FALSE]
  <2>1. r = [person |-> r.person, proposal |-> r.proposal, choice |-> r.choice, todo |-> r.todo,
             weight |-> r.weight, passed |-> r.passed]
    BY DEF Governed!NoCall, Begins
  <2>2. /\ r.person = x /\ r.proposal = v /\ r.choice = c /\ r.todo = Theirs(x) /\ r.weight = 0
        /\ r.passed = FALSE
    BY DEF Governed!NoCall, Begins
  <2> QED BY <2>1, <2>2
<1>2. Theirs(x) \in SUBSET Wallets
  BY DEF Theirs
<1>3. [person |-> x, proposal |-> v, choice |-> c, todo |-> Theirs(x), weight |-> 0,
       passed |-> FALSE] \in Ballots
  BY <1>2 DEF Ballots
<1>4. /\ r.person = x /\ r.proposal = v /\ r.choice = c /\ r.todo = Theirs(x) /\ r.weight = 0
  BY <1>1
<1>5. r \in Ballots
  BY <1>1, <1>3
<1> QED BY <1>4, <1>5

LEMMA BallotWeighs ==
  ASSUME NEW b \in Ballots, NEW w \in b.todo, NEW n \in Nat, NEW r,
         Weighs(r, b, w, n)
  PROVE  /\ r \in Ballots
         /\ r.person = b.person /\ r.proposal = b.proposal /\ r.choice = b.choice
         /\ r.todo = b.todo \ {w} /\ r.weight = b.weight + n
<1>1. PICK x, v, c, s, m, y :
        /\ b = [person |-> x, proposal |-> v, choice |-> c, todo |-> s, weight |-> m, passed |-> y]
        /\ x \in Persons \cup {NoPerson} /\ v \in Proposals \cup {0}
        /\ c \in {"none", "for", "against"} /\ s \in SUBSET Wallets /\ m \in Nat /\ y \in BOOLEAN
  <2>1. /\ b = [person |-> b.person, proposal |-> b.proposal, choice |-> b.choice, todo |-> b.todo,
                weight |-> b.weight, passed |-> b.passed]
        /\ b.person \in Persons \cup {NoPerson} /\ b.proposal \in Proposals \cup {0}
        /\ b.choice \in {"none", "for", "against"} /\ b.todo \in SUBSET Wallets
        /\ b.weight \in Nat /\ b.passed \in BOOLEAN
    BY DEF Ballots
  <2> QED BY <2>1
<1>2. r = [person |-> x, proposal |-> v, choice |-> c, todo |-> s \ {w}, weight |-> m + n,
           passed |-> y]
  <2>1. r = [person |-> r.person, proposal |-> r.proposal, choice |-> r.choice, todo |-> r.todo,
             weight |-> r.weight, passed |-> r.passed]
    BY <1>1 DEF Weighs
  <2>2. /\ r.person = x /\ r.proposal = v /\ r.choice = c /\ r.todo = s \ {w} /\ r.weight = m + n
        /\ r.passed = y
    BY <1>1 DEF Weighs
  <2> QED BY <2>1, <2>2
<1>3. s \ {w} \in SUBSET Wallets /\ m + n \in Nat
  BY <1>1
<1>4. r \in Ballots
  BY <1>1, <1>2, <1>3 DEF Ballots
<1> QED BY <1>1, <1>2, <1>4

LEMMA BallotMarked ==
  ASSUME NEW b \in Ballots
  PROVE  /\ \A v \in Proposals : [b EXCEPT !.proposal = v] \in Ballots
         /\ \A y \in BOOLEAN : [b EXCEPT !.passed = y] \in Ballots
BY DEF Ballots

LEMMA VoteStart == Governed!Init => VoteInv
<1> SUFFICES ASSUME Governed!Init PROVE VoteInv
  OBVIOUS
<1> USE DEF Governed!Init
<1>1. VoteParts
  BY NoCallTyped, OfferingAssumption DEF VoteParts, VotePcs, VoteAssumed, Governed!NoCall
<1>2. \A p \in Procs : votePc[p] = "idle"
  OBVIOUS
<1>3. VoteTyped
  BY <1>1, <1>2, PartsAreVote DEF Voting
<1>4. OneApplies /\ TallyStands
  BY <1>2 DEF OneApplies, TallyStands
<1>5. Amount(Shares, Wallets) \in Nat
  BY PileFinite, WalletsAssumption, OfferingAssumption DEF VoteAssumed
<1>6. \A v \in Proposals, x \in Persons : votes[v][x].weight = 0
  BY DEF Governed!Nobody
<1>7. WeightsExist
  BY <1>2, <1>5, <1>6 DEF WeightsExist
<1> QED BY <1>3, <1>4, <1>7 DEF VoteInv

\* A call that is over is none.
LEMMA CallEnds ==
  ASSUME VoteTyped, NEW p \in Procs, Governed!Finish(p)
  PROVE  /\ votePc' \in [Procs -> VotePcs] /\ call' \in [Procs -> Ballots]
         /\ votePc'[p] = "idle" /\ \A q \in Procs \ {p} : votePc'[q] = votePc[q] /\ call'[q] = call[q]
BY VotePartsAre, NoCallTyped DEF VoteParts, VotePcs, Governed!Finish, Governed!Goto

\* A step of p that keeps the proposal, the person and the choice, or ends.
LEMMA CallTyped ==
  ASSUME VoteTyped, VoteParts', NEW p \in Procs,
         \A q \in Procs \ {p} : votePc'[q] = votePc[q] /\ call'[q] = call[q],
         \/ votePc'[p] = "idle"
         \/ /\ call'[p].proposal \in Proposals
            /\ votePc'[p] \in {"weigh", "vote"} => call'[p].person \in Persons /\ call'[p].choice # "none"
  PROVE  VoteTyped'
<1>1. \A q \in Procs : votePc'[q] # "idle" => call'[q].proposal \in Proposals
  BY DEF VoteTyped
<1>2. \A q \in Procs : votePc'[q] \in {"weigh", "vote"} =>
                         call'[q].person \in Persons /\ call'[q].choice # "none"
  BY DEF VoteTyped, Voting
<1>3. \A q \in Procs : call'[q].todo \subseteq Wallets /\ call'[q].weight \in Nat
  <2> TAKE q \in Procs
  <2>1. call'[q] \in Ballots
    BY DEF VoteParts
  <2> QED BY <2>1 DEF Ballots
<1>4. Governed!TypeOK'
  BY <1>3 DEF VoteParts, VotePcs, Governed!TypeOK, Governed!Statuses, Governed!Pcs, Governed!ClosePcs
<1> QED BY <1>1, <1>2, <1>4 DEF VoteTyped, VoteParts, Voting

LEMMA VoteTypedVotes ==
  ASSUME VoteTyped, NEW p \in Procs,
         \/ \E x \in Persons, v \in Proposals, c \in {"for", "against"} : Governed!Vote(p, x, v, c)
         \/ Governed!Weigh(p) \/ Governed!WriteVote(p) \/ Governed!Crash(p)
  PROVE  VoteTyped'
<1>1. VoteParts
  BY VotePartsAre
<1>2. ASSUME NEW x \in Persons, NEW v \in Proposals, NEW c \in {"for", "against"},
             Governed!Vote(p, x, v, c)
      PROVE  VoteTyped'
  <2>0. PICK r : Begins(r, x, v, c)
    BY DEF Begins
  <2>1. r \in Ballots /\ r.person = x /\ r.proposal = v /\ r.choice = c
    BY <2>0, BallotBegins
  <2>2. call' = [call EXCEPT ![p] = r] /\ votePc' = [votePc EXCEPT ![p] = "weigh"]
    BY <1>2, <2>0 DEF Governed!Vote, Governed!Goto, Theirs, Begins
  <2>3. /\ call' \in [Procs -> Ballots] /\ call'[p] = r /\ votePc' \in [Procs -> VotePcs]
        /\ votePc'[p] = "weigh" /\ \A q \in Procs \ {p} : votePc'[q] = votePc[q] /\ call'[q] = call[q]
    BY <1>1, <2>1, <2>2 DEF VoteParts, VotePcs
  <2>4. VoteParts'
    BY <1>1, <1>2, <2>3 DEF VoteParts, Governed!Vote, Governed!rowVars, Governed!chainVars
  <2> QED BY <2>1, <2>3, <2>4, CallTyped
<1>3. CASE Governed!Weigh(p)
  <2>1. PICK w \in call[p].todo :
          call' = [call EXCEPT ![p].todo = @ \ {w}, ![p].weight = @ + held[w]]
    BY <1>3 DEF Governed!Weigh
  <2>2. call[p] \in Ballots /\ w \in Wallets
    BY <1>1 DEF VoteParts, Ballots
  <2>3. held[w] \in Nat
    BY <1>1, <2>2 DEF VoteParts
  <2>0. PICK r : Weighs(r, call[p], w, held[w])
    BY DEF Weighs
  <2>4. /\ r \in Ballots
        /\ r.person = call[p].person /\ r.proposal = call[p].proposal /\ r.choice = call[p].choice
    BY <2>0, <2>2, <2>3, BallotWeighs
  <2>5. call' = [call EXCEPT ![p] = r]
    BY <1>1, <2>0, <2>1 DEF VoteParts, Weighs
  <2>6. call' \in [Procs -> Ballots] /\ call'[p] = r /\ \A q \in Procs \ {p} : call'[q] = call[q]
    BY <1>1, <2>4, <2>5 DEF VoteParts
  <2>7. /\ votePc' \in [Procs -> VotePcs] /\ votePc[p] = "weigh" /\ votePc'[p] \in {"weigh", "vote"}
        /\ \A q \in Procs \ {p} : votePc'[q] = votePc[q]
    BY <1>1, <1>3 DEF VoteParts, VotePcs, Governed!Weigh, Governed!Goto, Governed!At
  <2>8. VoteParts'
    BY <1>1, <1>3, <2>6, <2>7 DEF VoteParts, Governed!Weigh, Governed!rowVars, Governed!chainVars
  <2>9. call[p].person \in Persons /\ call[p].choice # "none" /\ call[p].proposal \in Proposals
    BY <2>7 DEF VoteTyped, Voting
  <2> QED BY <2>4, <2>6, <2>7, <2>8, <2>9, CallTyped
<1>4. CASE Governed!WriteVote(p)
  <2>1. Governed!Finish(p) /\ UNCHANGED <<voteStatus, ended, manager, held, trades, installs>>
    BY <1>4 DEF Governed!WriteVote, Governed!chainVars
  <2>2. votes' \in [Proposals -> [Persons -> Governed!Votes \cup {Governed!Nobody}]]
    <3>1. CASE UNCHANGED votes
      BY <1>1, <3>1 DEF VoteParts
    <3>2. CASE Governed!UpsertVote(call[p])
      <4>1. votePc[p] = "vote"
        BY <1>4 DEF Governed!WriteVote, Governed!At
      <4>2. call[p].person \in Persons /\ call[p].choice # "none" /\ call[p].proposal \in Proposals
            /\ call[p] \in Ballots
        BY <1>1, <4>1 DEF VoteTyped, Voting, VoteParts
      <4> DEFINE n == [choice |-> call[p].choice, weight |-> call[p].weight]
      <4>3. n \in Governed!Votes
        BY <4>2 DEF Ballots, Governed!Votes
      <4>4. votes' = [votes EXCEPT ![call[p].proposal][call[p].person] = n]
        BY <3>2 DEF Governed!UpsertVote
      <4> HIDE DEF n
      <4> QED BY <1>1, <4>2, <4>3, <4>4 DEF VoteParts
    <3> QED BY <1>4, <3>1, <3>2 DEF Governed!WriteVote
  <2>3. VoteParts'
    BY <1>1, <2>1, <2>2, CallEnds DEF VoteParts
  <2> QED BY <2>1, <2>3, CallEnds, CallTyped
<1>5. CASE Governed!Crash(p)
  <2>1. Governed!Finish(p) /\ UNCHANGED <<voteStatus, ended, votes, manager, held, trades, installs>>
    BY <1>5 DEF Governed!Crash, Governed!rowVars, Governed!chainVars
  <2>2. VoteParts'
    BY <1>1, <2>1, CallEnds DEF VoteParts
  <2> QED BY <2>1, <2>2, CallEnds, CallTyped
<1> QED BY <1>2, <1>3, <1>4, <1>5

LEMMA VoteTypedCloses ==
  ASSUME VoteTyped, NEW p \in Procs,
         \/ \E v \in Proposals : Governed!CloseProposal(p, v)
         \/ Governed!Tally(p) \/ Governed!WriteClose(p) \/ Governed!Install(p)
  PROVE  VoteTyped'
<1>1. VoteParts /\ call[p] \in Ballots
  BY VotePartsAre DEF VoteParts
<1>2. ASSUME NEW v \in Proposals, Governed!CloseProposal(p, v) PROVE VoteTyped'
  <2> DEFINE r == [call[p] EXCEPT !.proposal = v]
  <2>1. r \in Ballots /\ r.proposal = v
    BY <1>1, BallotMarked DEF Ballots
  <2>2. call' = [call EXCEPT ![p] = r] /\ votePc' = [votePc EXCEPT ![p] = "tally"]
    BY <1>1, <1>2 DEF Governed!CloseProposal, Governed!Goto, VoteParts
  <2> HIDE DEF r
  <2>3. /\ call' \in [Procs -> Ballots] /\ call'[p] = r /\ votePc' \in [Procs -> VotePcs]
        /\ votePc'[p] = "tally" /\ \A q \in Procs \ {p} : votePc'[q] = votePc[q] /\ call'[q] = call[q]
    BY <1>1, <2>1, <2>2 DEF VoteParts, VotePcs
  <2>4. VoteParts'
    BY <1>1, <1>2, <2>3 DEF VoteParts, Governed!CloseProposal, Governed!rowVars, Governed!chainVars
  <2> QED BY <2>1, <2>3, <2>4, CallTyped
<1>3. CASE Governed!Tally(p)
  <2> DEFINE y == Governed!Carried(call[p].proposal)
             r == [call[p] EXCEPT !.passed = y]
  <2>1. votePc[p] = "tally" /\ call[p].proposal \in Proposals
    BY <1>3 DEF Governed!Tally, Governed!At, VoteTyped
  <2>2. y \in BOOLEAN
    BY DEF Governed!Carried
  <2>3. r \in Ballots /\ r.proposal = call[p].proposal
    BY <1>1, <2>2, BallotMarked DEF Ballots
  <2>4. call' = [call EXCEPT ![p] = r] /\ votePc' = [votePc EXCEPT ![p] = "close"]
    BY <1>1, <1>3 DEF Governed!Tally, Governed!Goto, VoteParts
  <2> HIDE DEF r, y
  <2>5. /\ call' \in [Procs -> Ballots] /\ call'[p] = r /\ votePc' \in [Procs -> VotePcs]
        /\ votePc'[p] = "close" /\ \A q \in Procs \ {p} : votePc'[q] = votePc[q] /\ call'[q] = call[q]
    BY <1>1, <2>3, <2>4 DEF VoteParts, VotePcs
  <2>6. VoteParts'
    BY <1>1, <1>3, <2>5 DEF VoteParts, Governed!Tally, Governed!rowVars, Governed!chainVars
  <2> QED BY <2>1, <2>3, <2>5, <2>6, CallTyped
<1>4. CASE Governed!WriteClose(p)
  <2>1. votePc[p] = "close" /\ call[p].proposal \in Proposals
    BY <1>4 DEF Governed!WriteClose, Governed!At, VoteTyped
  <2>2. /\ UNCHANGED <<ended, votes, manager, held, trades, installs>>
        /\ voteStatus' \in [Proposals -> {"none", "open", "passed", "rejected"}]
    BY <1>1, <1>4, <2>1 DEF Governed!WriteClose, Governed!chainVars, VoteParts
  <2>3. CASE Governed!Finish(p)
    <3>1. VoteParts'
      BY <1>1, <2>2, <2>3, CallEnds DEF VoteParts
    <3> QED BY <2>3, <3>1, CallEnds, CallTyped
  <2>4. CASE Governed!Goto(p, "install") /\ UNCHANGED call
    <3>1. /\ votePc' \in [Procs -> VotePcs] /\ votePc'[p] = "install"
          /\ \A q \in Procs \ {p} : votePc'[q] = votePc[q]
      BY <1>1, <2>4 DEF VoteParts, VotePcs, Governed!Goto
    <3>2. VoteParts'
      BY <1>1, <2>2, <2>4, <3>1 DEF VoteParts
    <3> QED BY <2>1, <2>4, <3>1, <3>2, CallTyped
  <2> QED BY <1>4, <2>3, <2>4 DEF Governed!WriteClose
<1>5. CASE Governed!Install(p)
  <2>1. votePc[p] = "install" /\ call[p].proposal \in Proposals /\ Governed!Finish(p)
    BY <1>5 DEF Governed!Install, Governed!At, VoteTyped
  <2>2. /\ UNCHANGED <<voteStatus, ended, votes, held, trades>>
        /\ manager' = Names[call[p].proposal]
        /\ installs' = [installs EXCEPT ![call[p].proposal] = @ + 1]
    BY <1>5 DEF Governed!Install, Governed!rowVars, Governed!chainVars
  <2>3. manager' \in Managers \cup {NoManager}
    BY <2>1, <2>2, OfferingAssumption DEF VoteAssumed
  <2>4. installs' \in [Proposals -> Nat]
    BY <1>1, <2>1, <2>2 DEF VoteParts
  <2>5. VoteParts'
    BY <1>1, <2>1, <2>2, <2>3, <2>4, CallEnds DEF VoteParts
  <2> QED BY <2>1, <2>5, CallEnds, CallTyped
<1> QED BY <1>2, <1>3, <1>4, <1>5

LEMMA VoteTypedElsewhere ==
  ASSUME VoteTyped, Governed!Elsewhere \/ UNCHANGED Governed!vars
  PROVE  VoteTyped'
<1>1. VoteParts
  BY VotePartsAre
<1>2. UNCHANGED <<votes, votePc, call>> /\ UNCHANGED installs
  BY DEF Governed!Elsewhere, Governed!ProposeManager, Governed!VoteEnds, Governed!AssignManager,
         Governed!Trade, Governed!rowVars, Governed!vars
<1>3. /\ voteStatus' \in [Proposals -> {"none", "open", "passed", "rejected"}]
      /\ ended' \in SUBSET Proposals /\ manager' \in Managers \cup {NoManager}
  BY <1>1 DEF Governed!Elsewhere, Governed!ProposeManager, Governed!VoteEnds, Governed!AssignManager,
         Governed!Trade, Governed!rowVars, Governed!vars, VoteParts
<1>4. held' \in [Wallets -> Nat] /\ trades' \in 0..MaxTrades
  <2>1. ASSUME NEW v \in Wallets, NEW w \in Wallets, Governed!Trade(v, w)
        PROVE  held' \in [Wallets -> Nat] /\ trades' \in 0..MaxTrades
    <3>1. /\ held[v] \in Nat /\ held[w] \in Nat /\ held[v] > 0 /\ v # w
          /\ held' = [held EXCEPT ![v] = @ - 1, ![w] = @ + 1]
          /\ trades' = trades + 1 /\ trades < MaxTrades /\ trades \in 0..MaxTrades
      BY <1>1, <2>1 DEF Governed!Trade, VoteParts
    <3>2. held[v] - 1 \in Nat /\ held[w] + 1 \in Nat
      BY <3>1
    <3>3. held' \in [Wallets -> Nat]
      BY <1>1, <3>1, <3>2 DEF VoteParts
    <3>4. MaxTrades \in Nat
      BY OfferingAssumption DEF VoteAssumed
    <3> QED BY <3>1, <3>3, <3>4
  <2>2. CASE UNCHANGED <<held, trades>>
    BY <1>1, <2>2 DEF VoteParts
  <2> QED BY <2>1, <2>2 DEF Governed!Elsewhere, Governed!ProposeManager, Governed!VoteEnds,
            Governed!AssignManager, Governed!chainVars, Governed!vars
<1>5. VoteParts'
  BY <1>1, <1>2, <1>3, <1>4 DEF VoteParts
<1>6. /\ \A p \in Procs : votePc'[p] # "idle" => call'[p].proposal \in Proposals
      /\ \A p \in Procs : votePc'[p] \in {"weigh", "vote"} =>
                            call'[p].person \in Persons /\ call'[p].choice # "none"
  BY <1>2 DEF VoteTyped, Voting
<1>7. \A p \in Procs : call'[p].todo \subseteq Wallets /\ call'[p].weight \in Nat
  <2> TAKE p \in Procs
  <2>1. call'[p] \in Ballots
    BY <1>5 DEF VoteParts
  <2> QED BY <2>1 DEF Ballots
<1>8. Governed!TypeOK'
  BY <1>5, <1>7 DEF VoteParts, VotePcs, Governed!TypeOK, Governed!Statuses, Governed!Pcs, Governed!ClosePcs
<1> QED BY <1>5, <1>6, <1>8 DEF VoteTyped, VoteParts, Voting

LEMMA VoteTypedNext ==
  ASSUME VoteTyped, [Governed!Next]_(Governed!vars)
  PROVE  VoteTyped'
BY VoteTypedVotes, VoteTypedCloses, VoteTypedElsewhere
   DEF Governed!Next, Governed!Advance, Governed!Call

\* What a step of p leaves to the others.
Others(p) == \A q \in Procs \ {p} : votePc'[q] = votePc[q] /\ call'[q] = call[q]
RowsKept == UNCHANGED <<voteStatus, ended, votes, installs>>

LEMMA VoteStep ==
  ASSUME VoteTyped, NEW p \in Procs, NEW x \in Persons, NEW v \in Proposals, NEW c \in {"for", "against"},
         Governed!Vote(p, x, v, c)
  PROVE  /\ votePc'[p] = "weigh" /\ call'[p].person = x /\ call'[p].proposal = v
         /\ call'[p].todo = Theirs(x) /\ call'[p].weight = 0
         /\ v \notin ended /\ Others(p) /\ RowsKept /\ UNCHANGED held
<1>1. VoteParts
  BY VotePartsAre
<1>2. PICK r : Begins(r, x, v, c)
  BY DEF Begins
<1>3. r.person = x /\ r.proposal = v /\ r.todo = Theirs(x) /\ r.weight = 0
  BY <1>2, BallotBegins
<1>4. call' = [call EXCEPT ![p] = r] /\ votePc' = [votePc EXCEPT ![p] = "weigh"]
  BY <1>2 DEF Governed!Vote, Governed!Goto, Theirs, Begins
<1>5. votePc'[p] = "weigh" /\ call'[p] = r /\ Others(p)
  BY <1>1, <1>4 DEF VoteParts, Others
<1> QED BY <1>3, <1>5 DEF Governed!Vote, RowsKept, Governed!rowVars, Governed!chainVars

LEMMA WeighStep ==
  ASSUME VoteTyped, NEW p \in Procs, Governed!Weigh(p)
  PROVE  /\ \E w \in call[p].todo :
              /\ call'[p].person = call[p].person /\ call'[p].proposal = call[p].proposal
              /\ call'[p].todo = call[p].todo \ {w} /\ call'[p].weight = call[p].weight + held[w]
         /\ votePc[p] = "weigh" /\ votePc'[p] \in {"weigh", "vote"}
         /\ votePc'[p] = "vote" => call'[p].todo = {}
         /\ Others(p) /\ RowsKept /\ UNCHANGED held
<1>1. VoteParts /\ call[p] \in Ballots
  BY VotePartsAre DEF VoteParts
<1>2. PICK w \in call[p].todo :
        call' = [call EXCEPT ![p].todo = @ \ {w}, ![p].weight = @ + held[w]]
  BY DEF Governed!Weigh
<1>3. held[w] \in Nat
  BY <1>1, <1>2 DEF VoteParts, Ballots
<1>4. PICK r : Weighs(r, call[p], w, held[w])
  BY DEF Weighs
<1>5. /\ r.person = call[p].person /\ r.proposal = call[p].proposal
      /\ r.todo = call[p].todo \ {w} /\ r.weight = call[p].weight + held[w]
  BY <1>1, <1>3, <1>4, BallotWeighs
<1>6. call' = [call EXCEPT ![p] = r]
  BY <1>1, <1>2, <1>4 DEF VoteParts, Weighs
<1>7. call'[p] = r /\ \A q \in Procs \ {p} : call'[q] = call[q]
  BY <1>1, <1>6 DEF VoteParts
<1>8. /\ votePc[p] = "weigh" /\ votePc'[p] \in {"weigh", "vote"}
      /\ votePc'[p] = "vote" => call'[p].todo = {}
      /\ \A q \in Procs \ {p} : votePc'[q] = votePc[q]
  BY <1>1 DEF VoteParts, Governed!Weigh, Governed!Goto, Governed!At
<1>9. RowsKept /\ UNCHANGED held
  BY DEF Governed!Weigh, RowsKept, Governed!rowVars, Governed!chainVars
<1> QED BY <1>5, <1>7, <1>8, <1>9 DEF Others

LEMMA CloseBegins ==
  ASSUME VoteTyped, NEW p \in Procs, NEW v \in Proposals, Governed!CloseProposal(p, v)
  PROVE  /\ votePc'[p] = "tally" /\ call'[p].proposal = v /\ v \in ended
         /\ Others(p) /\ RowsKept /\ UNCHANGED held
<1>1. VoteParts /\ call[p] \in Ballots
  BY VotePartsAre DEF VoteParts
<1> DEFINE r == [call[p] EXCEPT !.proposal = v]
<1>2. r.proposal = v
  BY <1>1 DEF Ballots
<1>3. call' = [call EXCEPT ![p] = r] /\ votePc' = [votePc EXCEPT ![p] = "tally"]
  BY <1>1 DEF Governed!CloseProposal, Governed!Goto, VoteParts
<1> HIDE DEF r
<1>4. votePc'[p] = "tally" /\ call'[p] = r /\ Others(p)
  BY <1>1, <1>3 DEF VoteParts, Others
<1> QED BY <1>2, <1>4 DEF Governed!CloseProposal, RowsKept, Governed!rowVars, Governed!chainVars

LEMMA TallyStep ==
  ASSUME VoteTyped, NEW p \in Procs, Governed!Tally(p)
  PROVE  /\ votePc[p] = "tally" /\ votePc'[p] = "close" /\ call'[p].proposal = call[p].proposal
         /\ call'[p].passed = Carries(votes[call[p].proposal])
         /\ VotedInTime => \A q \in Procs : Voting(q) => call[q].proposal # call[p].proposal
         /\ Others(p) /\ RowsKept /\ UNCHANGED held
<1>1. VoteParts /\ call[p] \in Ballots /\ votePc[p] = "tally" /\ call[p].proposal \in Proposals
  BY VotePartsAre DEF VoteParts, VoteTyped, Governed!Tally, Governed!At
<1> DEFINE y == Governed!Carried(call[p].proposal)
           r == [call[p] EXCEPT !.passed = y]
<1>2. y = Carries(votes[call[p].proposal])
  <2>1. y \in BOOLEAN /\ Carries(votes[call[p].proposal]) \in BOOLEAN
    BY DEF Governed!Carried, Carries
  <2>2. y <=> Carries(votes[call[p].proposal])
    BY <1>1, CarriedIs
  <2> QED BY <2>1, <2>2
<1>3. r.proposal = call[p].proposal /\ r.passed = y
  BY <1>1 DEF Ballots
<1>4. call' = [call EXCEPT ![p] = r] /\ votePc' = [votePc EXCEPT ![p] = "close"]
  BY <1>1 DEF Governed!Tally, Governed!Goto, VoteParts
<1> HIDE DEF r, y
<1>5. votePc'[p] = "close" /\ call'[p] = r /\ Others(p)
  BY <1>1, <1>4 DEF VoteParts, Others
<1>6. VotedInTime => \A q \in Procs : Voting(q) => call[q].proposal # call[p].proposal
  BY DEF Governed!Tally, Governed!Fault, Governed!At, VotedInTime, Voting
<1>7. RowsKept /\ UNCHANGED held
  BY DEF Governed!Tally, RowsKept, Governed!rowVars, Governed!chainVars
<1> QED BY <1>1, <1>2, <1>3, <1>5, <1>6, <1>7

\* What a close writes, and what becomes of the call.
LEMMA WriteCloseStep ==
  ASSUME VoteTyped, NEW p \in Procs, Governed!WriteClose(p)
  PROVE  /\ votePc[p] = "close" /\ call[p].proposal \in Proposals /\ Others(p)
         /\ UNCHANGED <<ended, votes, installs, held>>
         /\ \/ UNCHANGED voteStatus /\ votePc'[p] = "idle"
            \/ /\ voteStatus[call[p].proposal] = "open"
               /\ voteStatus' = [voteStatus EXCEPT ![call[p].proposal] =
                                   IF call[p].passed THEN "passed" ELSE "rejected"]
               /\ \/ call[p].passed /\ votePc'[p] = "install" /\ call'[p] = call[p]
                  \/ ~call[p].passed /\ votePc'[p] = "idle"
<1>1. VoteParts
  BY VotePartsAre
<1>2. votePc[p] = "close" /\ call[p].proposal \in Proposals
  BY DEF Governed!WriteClose, Governed!At, VoteTyped
<1>3. UNCHANGED <<ended, votes, installs, held>>
  BY DEF Governed!WriteClose, Governed!chainVars
<1>4. CASE voteStatus[call[p].proposal] # "open" /\ Governed!Finish(p) /\ UNCHANGED voteStatus
  <2>1. votePc'[p] = "idle" /\ Others(p)
    BY <1>4, CallEnds DEF Others
  <2> QED BY <1>2, <1>3, <1>4, <2>1
<1>5. CASE /\ voteStatus[call[p].proposal] = "open"
           /\ voteStatus' = [voteStatus EXCEPT ![call[p].proposal] =
                               IF call[p].passed THEN "passed" ELSE "rejected"]
           /\ IF call[p].passed THEN Governed!Goto(p, "install") /\ UNCHANGED call ELSE Governed!Finish(p)
  <2>1. CASE call[p].passed
    <3>1. votePc'[p] = "install" /\ call'[p] = call[p] /\ Others(p)
      BY <1>1, <1>5, <2>1 DEF Governed!Goto, VoteParts, Others
    <3> QED BY <1>2, <1>3, <1>5, <2>1, <3>1
  <2>2. CASE ~call[p].passed
    <3>1. Governed!Finish(p)
      BY <1>5, <2>2
    <3>2. votePc'[p] = "idle" /\ Others(p)
      BY <3>1, CallEnds DEF Others
    <3> QED BY <1>2, <1>3, <1>5, <2>2, <3>2
  <2> QED BY <2>1, <2>2
<1> QED BY <1>4, <1>5 DEF Governed!WriteClose

\* Nobody comes to apply an outcome.
LEMMA NobodyApplies ==
  ASSUME OneApplies, UNCHANGED <<voteStatus, installs>>,
         \A q \in Procs : votePc'[q] = "install" => votePc[q] = "install" /\ call'[q] = call[q]
  PROVE  OneApplies'
BY DEF OneApplies

LEMMA AppliesCall ==
  ASSUME VoteTyped, OneApplies, NEW p \in Procs,
         Governed!Advance(p) \/ Governed!Call(p) \/ Governed!Crash(p)
  PROVE  OneApplies'
<1>1. ASSUME NEW x \in Persons, NEW v \in Proposals, NEW c \in {"for", "against"},
             Governed!Vote(p, x, v, c)
      PROVE  OneApplies'
  BY <1>1, VoteStep, NobodyApplies DEF Others, RowsKept
<1>2. CASE Governed!Weigh(p)
  BY <1>2, WeighStep, NobodyApplies DEF Others, RowsKept
<1>3. CASE Governed!WriteVote(p)
  <2>1. Governed!Finish(p) /\ UNCHANGED <<voteStatus, installs>>
    BY <1>3 DEF Governed!WriteVote
  <2> QED BY <2>1, CallEnds, NobodyApplies
<1>4. ASSUME NEW v \in Proposals, Governed!CloseProposal(p, v) PROVE OneApplies'
  BY <1>4, CloseBegins, NobodyApplies DEF Others, RowsKept
<1>5. CASE Governed!Tally(p)
  BY <1>5, TallyStep, NobodyApplies DEF Others, RowsKept
<1>6. CASE Governed!WriteClose(p)
  <2> DEFINE u == call[p].proposal
  <2>1. /\ votePc[p] = "close" /\ u \in Proposals /\ Others(p) /\ UNCHANGED installs
        /\ \/ UNCHANGED voteStatus /\ votePc'[p] = "idle"
           \/ /\ voteStatus[u] = "open"
              /\ voteStatus' = [voteStatus EXCEPT ![u] = IF call[p].passed THEN "passed" ELSE "rejected"]
              /\ \/ call[p].passed /\ votePc'[p] = "install" /\ call'[p] = call[p]
                 \/ ~call[p].passed /\ votePc'[p] = "idle"
    BY <1>6, WriteCloseStep
  <2>2. voteStatus \in [Proposals -> {"none", "open", "passed", "rejected"}] /\ installs \in [Proposals -> Nat]
    BY VotePartsAre DEF VoteParts
  <2> HIDE DEF u
  <2>3. CASE UNCHANGED voteStatus /\ votePc'[p] = "idle"
    BY <2>1, <2>3, NobodyApplies DEF Others
  <2>4. CASE /\ voteStatus[u] = "open" /\ call[p].passed /\ votePc'[p] = "install" /\ call'[p] = call[p]
             /\ voteStatus' = [voteStatus EXCEPT ![u] = "passed"]
    <3>1. installs[u] = 0
      BY <2>1, <2>2, <2>4 DEF OneApplies
    <3>2. \A q \in Procs : votePc[q] = "install" => call[q].proposal # u
      BY <2>4 DEF OneApplies
    <3>3. \A q \in Procs : votePc'[q] = "install" => q = p \/ (votePc[q] = "install" /\ call'[q] = call[q])
      BY <2>1 DEF Others
    <3>4. \A q \in Procs : votePc'[q] = "install" =>
            voteStatus'[call'[q].proposal] = "passed" /\ installs'[call'[q].proposal] = 0
      <4> SUFFICES ASSUME NEW q \in Procs, votePc'[q] = "install"
                   PROVE  voteStatus'[call'[q].proposal] = "passed" /\ installs'[call'[q].proposal] = 0
        OBVIOUS
      <4>1. CASE q = p
        BY <2>1, <2>2, <2>4, <3>1, <4>1 DEF u
      <4>2. CASE votePc[q] = "install" /\ call'[q] = call[q]
        BY <2>1, <2>2, <2>4, <3>2, <4>2 DEF OneApplies, VoteTyped
      <4> QED BY <3>3, <4>1, <4>2
    <3>5. \A q, r \in Procs : votePc'[q] = "install" /\ votePc'[r] = "install" /\ q # r =>
            call'[q].proposal # call'[r].proposal
      BY <2>4, <3>2, <3>3 DEF OneApplies, u
    <3>6. \A v \in Proposals : installs'[v] <= IF voteStatus'[v] = "passed" THEN 1 ELSE 0
      <4> TAKE v \in Proposals
      <4>1. CASE v = u
        BY <2>1, <2>2, <2>4, <3>1, <4>1
      <4>2. CASE v # u
        BY <2>1, <2>2, <2>4, <4>2 DEF OneApplies
      <4> QED BY <4>1, <4>2
    <3> QED BY <3>4, <3>5, <3>6 DEF OneApplies
  <2>5. CASE /\ voteStatus[u] = "open" /\ ~call[p].passed /\ votePc'[p] = "idle"
             /\ voteStatus' = [voteStatus EXCEPT ![u] = "rejected"]
    <3>1. \A q \in Procs : votePc'[q] = "install" =>
            votePc[q] = "install" /\ call'[q] = call[q] /\ call[q].proposal # u
      BY <2>1, <2>5 DEF Others, OneApplies
    <3>2. \A v \in Proposals : v # u => voteStatus'[v] = voteStatus[v]
      BY <2>2, <2>5
    <3>3. \A q \in Procs : votePc'[q] = "install" =>
            voteStatus'[call'[q].proposal] = "passed" /\ installs'[call'[q].proposal] = 0
      BY <2>1, <3>1, <3>2 DEF OneApplies, VoteTyped
    <3>4. \A q, r \in Procs : votePc'[q] = "install" /\ votePc'[r] = "install" /\ q # r =>
            call'[q].proposal # call'[r].proposal
      BY <3>1 DEF OneApplies
    <3>5. \A v \in Proposals : installs'[v] <= IF voteStatus'[v] = "passed" THEN 1 ELSE 0
      <4> TAKE v \in Proposals
      <4>1. CASE v = u
        BY <2>1, <2>2, <2>5, <4>1 DEF OneApplies
      <4>2. CASE v # u
        BY <2>1, <2>2, <3>2, <4>2 DEF OneApplies
      <4> QED BY <4>1, <4>2
    <3> QED BY <3>3, <3>4, <3>5 DEF OneApplies
  <2> QED BY <2>1, <2>3, <2>4, <2>5
<1>7. CASE Governed!Install(p)
  <2> DEFINE u == call[p].proposal
  <2>1. votePc[p] = "install" /\ Governed!Finish(p) /\ UNCHANGED voteStatus
        /\ installs' = [installs EXCEPT ![u] = @ + 1]
    BY <1>7 DEF Governed!Install, Governed!At, Governed!rowVars
  <2>2. installs \in [Proposals -> Nat] /\ u \in Proposals
    BY <2>1, VotePartsAre DEF VoteParts, VoteTyped
  <2>3. voteStatus[u] = "passed" /\ installs[u] = 0
    BY <2>1 DEF OneApplies
  <2>4. /\ \A q \in Procs : votePc'[q] = "install" => q # p /\ votePc[q] = "install" /\ call'[q] = call[q]
    BY <2>1, CallEnds
  <2>5. \A q \in Procs : votePc'[q] = "install" => call[q].proposal # u /\ call[q].proposal \in Proposals
    BY <2>1, <2>4 DEF OneApplies, VoteTyped
  <2> HIDE DEF u
  <2>6. installs'[u] = 1 /\ \A v \in Proposals : v # u => installs'[v] = installs[v]
    BY <2>1, <2>2, <2>3
  <2>7. \A q \in Procs : votePc'[q] = "install" =>
          voteStatus'[call'[q].proposal] = "passed" /\ installs'[call'[q].proposal] = 0
    BY <2>1, <2>4, <2>5, <2>6 DEF OneApplies
  <2>8. \A q, r \in Procs : votePc'[q] = "install" /\ votePc'[r] = "install" /\ q # r =>
          call'[q].proposal # call'[r].proposal
    BY <2>4 DEF OneApplies
  <2>9. \A v \in Proposals : installs'[v] <= IF voteStatus'[v] = "passed" THEN 1 ELSE 0
    BY <2>1, <2>3, <2>6 DEF OneApplies
  <2> QED BY <2>7, <2>8, <2>9 DEF OneApplies
<1>8. CASE Governed!Crash(p)
  <2>1. Governed!Finish(p) /\ UNCHANGED <<voteStatus, installs>>
    BY <1>8 DEF Governed!Crash, Governed!rowVars
  <2> QED BY <2>1, CallEnds, NobodyApplies
<1> QED BY <1>1, <1>2, <1>3, <1>4, <1>5, <1>6, <1>7, <1>8 DEF Governed!Advance, Governed!Call

LEMMA AppliesElsewhere ==
  ASSUME VoteTyped, OneApplies, Governed!Elsewhere \/ UNCHANGED Governed!vars
  PROVE  OneApplies'
<1>1. UNCHANGED <<votePc, call, installs>>
  BY DEF Governed!Elsewhere, Governed!ProposeManager, Governed!VoteEnds, Governed!AssignManager,
         Governed!Trade, Governed!rowVars, Governed!vars
<1>2. CASE UNCHANGED voteStatus
  BY <1>1, <1>2, NobodyApplies
<1>3. ASSUME NEW v \in Proposals, Governed!ProposeManager(v) PROVE OneApplies'
  <2>1. voteStatus[v] = "none" /\ voteStatus' = [voteStatus EXCEPT ![v] = "open"]
    BY <1>3 DEF Governed!ProposeManager
  <2>2. voteStatus \in [Proposals -> {"none", "open", "passed", "rejected"}]
    BY VotePartsAre DEF VoteParts
  <2>3. \A u \in Proposals : voteStatus'[u] = "passed" <=> voteStatus[u] = "passed"
    BY <2>1, <2>2
  <2>4. \A q \in Procs : votePc[q] = "install" => call[q].proposal \in Proposals
    BY DEF VoteTyped
  <2>5. \A u \in Proposals : installs'[u] <= IF voteStatus'[u] = "passed" THEN 1 ELSE 0
    BY <1>1, <2>3 DEF OneApplies
  <2> QED BY <1>1, <2>3, <2>4, <2>5 DEF OneApplies
<1> QED BY <1>2, <1>3 DEF Governed!Elsewhere, Governed!VoteEnds, Governed!AssignManager,
         Governed!Trade, Governed!rowVars, Governed!vars

\* What is counted stays counted, and its votes stay what they are.
CountStays == \A v \in Proposals : Counted(v) => Counted(v)' /\ votes'[v] = votes[v]

LEMMA CountGoesOn ==
  ASSUME ended \subseteq ended', UNCHANGED votes,
         \A q \in Procs : votePc'[q] \in {"weigh", "vote"} =>
           \/ Voting(q) /\ call'[q].proposal = call[q].proposal
           \/ call'[q].proposal \notin ended
  PROVE  CountStays
<1> SUFFICES ASSUME NEW v \in Proposals, Counted(v) PROVE Counted(v)' /\ votes'[v] = votes[v]
  BY DEF CountStays
<1>1. v \in ended'
  BY DEF Counted
<1>2. \A q \in Procs : votePc'[q] \in {"weigh", "vote"} => call'[q].proposal # v
  BY DEF Counted
<1> QED BY <1>1, <1>2 DEF Counted, Voting

LEMMA CountsCall ==
  ASSUME VoteTyped, NEW p \in Procs,
         Governed!Advance(p) \/ Governed!Call(p) \/ Governed!Crash(p)
  PROVE  CountStays
<1>1. ASSUME NEW x \in Persons, NEW v \in Proposals, NEW c \in {"for", "against"},
             Governed!Vote(p, x, v, c)
      PROVE  CountStays
  BY <1>1, VoteStep, CountGoesOn DEF Others, RowsKept, Voting
<1>2. CASE Governed!Weigh(p)
  BY <1>2, WeighStep, CountGoesOn DEF Others, RowsKept, Voting
<1>3. CASE Governed!WriteVote(p)
  <2>1. Governed!Finish(p) /\ UNCHANGED ended /\ votePc[p] = "vote"
        /\ (UNCHANGED votes \/ Governed!UpsertVote(call[p]))
    BY <1>3 DEF Governed!WriteVote, Governed!At
  <2>2. votes \in [Proposals -> [Persons -> Governed!Votes \cup {Governed!Nobody}]]
    BY VotePartsAre DEF VoteParts
  <2>3. call[p].proposal \in Proposals
    BY <2>1 DEF VoteTyped
  <2>4. \A v \in Proposals : v # call[p].proposal => votes'[v] = votes[v]
    BY <2>1, <2>2, <2>3 DEF Governed!UpsertVote
  <2>5. \A q \in Procs : votePc'[q] \in {"weigh", "vote"} => votePc'[q] = votePc[q] /\ call'[q] = call[q]
    BY <2>1, CallEnds
  <2> SUFFICES ASSUME NEW v \in Proposals, Counted(v) PROVE Counted(v)' /\ votes'[v] = votes[v]
    BY DEF CountStays
  <2>6. v # call[p].proposal
    BY <2>1 DEF Counted, Voting
  <2>7. v \in ended' /\ \A q \in Procs : votePc'[q] \in {"weigh", "vote"} => call'[q].proposal # v
    BY <2>1, <2>5 DEF Counted, Voting
  <2> QED BY <2>4, <2>6, <2>7 DEF Counted, Voting
<1>4. ASSUME NEW v \in Proposals, Governed!CloseProposal(p, v) PROVE CountStays
  BY <1>4, CloseBegins, CountGoesOn DEF Others, RowsKept, Voting
<1>5. CASE Governed!Tally(p)
  BY <1>5, TallyStep, CountGoesOn DEF Others, RowsKept, Voting
<1>6. CASE Governed!WriteClose(p)
  BY <1>6, WriteCloseStep, CountGoesOn DEF Others, Voting
<1>7. CASE Governed!Install(p)
  <2>1. Governed!Finish(p) /\ UNCHANGED <<ended, votes>>
    BY <1>7 DEF Governed!Install, Governed!rowVars
  <2> QED BY <2>1, CallEnds, CountGoesOn DEF Voting
<1>8. CASE Governed!Crash(p)
  <2>1. Governed!Finish(p) /\ UNCHANGED <<ended, votes>>
    BY <1>8 DEF Governed!Crash, Governed!rowVars
  <2> QED BY <2>1, CallEnds, CountGoesOn DEF Voting
<1> QED BY <1>1, <1>2, <1>3, <1>4, <1>5, <1>6, <1>7, <1>8 DEF Governed!Advance, Governed!Call

\* No tally is made, and none is recorded.
LEMMA TalliesStay ==
  ASSUME VoteTyped, TallyStands, CountStays, ended \subseteq ended',
         \A v \in Proposals : voteStatus'[v] \in {"passed", "rejected"} => voteStatus'[v] = voteStatus[v],
         \A q \in Procs : /\ votePc'[q] = "tally" =>
                               \/ votePc[q] = "tally" /\ call'[q] = call[q]
                               \/ call'[q].proposal \in ended
                          /\ votePc'[q] = "close" => votePc[q] = "close" /\ call'[q] = call[q]
  PROVE  TallyStands'
<1>1. \A q \in Procs : votePc'[q] = "tally" => call'[q].proposal \in ended'
  BY DEF TallyStands
<1>2. \A q \in Procs : votePc'[q] = "close" =>
        Counted(call[q].proposal)' /\ (call'[q].passed <=> Carries(votes'[call'[q].proposal]))
  <2> SUFFICES ASSUME NEW q \in Procs, votePc'[q] = "close"
               PROVE  Counted(call[q].proposal)' /\ (call'[q].passed <=> Carries(votes'[call'[q].proposal]))
    OBVIOUS
  <2>1. votePc[q] = "close" /\ call'[q] = call[q]
    OBVIOUS
  <2>2. PICK u \in Proposals : u = call[q].proposal
    BY <2>1 DEF VoteTyped
  <2>3. Counted(u) /\ (call[q].passed <=> Carries(votes[u]))
    BY <2>1, <2>2 DEF TallyStands
  <2>4. Counted(u)' /\ votes'[u] = votes[u]
    BY <2>3 DEF CountStays
  <2>5. call'[q].proposal = u
    BY <2>1, <2>2
  <2>6. Counted(call[q].proposal)'
    BY <2>4, <2>5 DEF Counted
  <2> QED BY <2>1, <2>3, <2>4, <2>5, <2>6
<1>3. \A v \in Proposals : voteStatus'[v] \in {"passed", "rejected"} =>
        Counted(v)' /\ (voteStatus'[v] = "passed" <=> Carries(votes'[v]))
  BY DEF TallyStands, CountStays
<1> QED BY <1>1, <1>2, <1>3 DEF TallyStands

LEMMA TalliesCall ==
  ASSUME VotedInTime, VoteTyped, TallyStands, NEW p \in Procs,
         Governed!Advance(p) \/ Governed!Call(p) \/ Governed!Crash(p)
  PROVE  TallyStands'
<1>0. CountStays
  BY CountsCall
<1>1. ASSUME NEW x \in Persons, NEW v \in Proposals, NEW c \in {"for", "against"},
             Governed!Vote(p, x, v, c)
      PROVE  TallyStands'
  BY <1>0, <1>1, VoteStep, TalliesStay DEF Others, RowsKept
<1>2. CASE Governed!Weigh(p)
  BY <1>0, <1>2, WeighStep, TalliesStay DEF Others, RowsKept
<1>3. CASE Governed!WriteVote(p)
  <2>1. Governed!Finish(p) /\ UNCHANGED <<ended, voteStatus>>
    BY <1>3 DEF Governed!WriteVote
  <2> QED BY <1>0, <2>1, CallEnds, TalliesStay
<1>4. ASSUME NEW v \in Proposals, Governed!CloseProposal(p, v) PROVE TallyStands'
  BY <1>0, <1>4, CloseBegins, TalliesStay DEF Others, RowsKept
<1>5. CASE Governed!Tally(p)
  <2>1. PICK u \in Proposals : u = call[p].proposal
    BY <1>5 DEF Governed!Tally, Governed!At, VoteTyped
  <2>2. /\ votePc[p] = "tally" /\ votePc'[p] = "close" /\ call'[p].proposal = u
        /\ call'[p].passed = Carries(votes[u])
        /\ \A q \in Procs : Voting(q) => call[q].proposal # u
        /\ Others(p) /\ RowsKept
    BY <1>5, <2>1, TallyStep
  <2>3. u \in ended
    BY <2>1, <2>2 DEF TallyStands
  <2>4. Counted(u)
    BY <2>2, <2>3 DEF Counted
  <2>5. Counted(u)' /\ votes'[u] = votes[u]
    BY <1>0, <2>4 DEF CountStays
  <2>6. \A q \in Procs : votePc'[q] = "tally" => call'[q].proposal \in ended'
    BY <2>2 DEF TallyStands, Others, RowsKept
  <2>7. \A q \in Procs : votePc'[q] = "close" =>
          Counted(call[q].proposal)' /\ (call'[q].passed <=> Carries(votes'[call'[q].proposal]))
    <3> SUFFICES ASSUME NEW q \in Procs, votePc'[q] = "close"
                 PROVE  Counted(call[q].proposal)' /\ (call'[q].passed <=> Carries(votes'[call'[q].proposal]))
      OBVIOUS
    <3>1. CASE q = p
      <4>1. Counted(call[q].proposal)'
        BY <2>2, <2>5, <3>1 DEF Counted
      <4> QED BY <2>2, <2>5, <3>1, <4>1
    <3>2. CASE q # p
      <4>1. votePc[q] = "close" /\ call'[q] = call[q]
        BY <2>2, <3>2 DEF Others
      <4>2. PICK v \in Proposals : v = call[q].proposal
        BY <4>1 DEF VoteTyped
      <4>3. Counted(v) /\ (call[q].passed <=> Carries(votes[v]))
        BY <4>1, <4>2 DEF TallyStands
      <4>4. Counted(v)' /\ votes'[v] = votes[v] /\ call'[q].proposal = v
        BY <1>0, <4>1, <4>2, <4>3 DEF CountStays
      <4>5. Counted(call[q].proposal)'
        BY <4>4 DEF Counted
      <4> QED BY <4>1, <4>3, <4>4, <4>5
    <3> QED BY <3>1, <3>2
  <2>8. \A v \in Proposals : voteStatus'[v] \in {"passed", "rejected"} =>
          Counted(v)' /\ (voteStatus'[v] = "passed" <=> Carries(votes'[v]))
    BY <1>0, <2>2 DEF TallyStands, CountStays, RowsKept
  <2> QED BY <2>6, <2>7, <2>8 DEF TallyStands
<1>6. CASE Governed!WriteClose(p)
  <2>1. PICK u \in Proposals : u = call[p].proposal
    BY <1>6, WriteCloseStep
  <2>2. /\ votePc[p] = "close" /\ Others(p) /\ UNCHANGED <<ended, votes>>
        /\ \/ UNCHANGED voteStatus /\ votePc'[p] = "idle"
           \/ /\ voteStatus' = [voteStatus EXCEPT ![u] = IF call[p].passed THEN "passed" ELSE "rejected"]
              /\ votePc'[p] \in {"install", "idle"}
    BY <1>6, <2>1, WriteCloseStep
  <2>3. CASE UNCHANGED voteStatus
    BY <1>0, <2>2, <2>3, TalliesStay DEF Others
  <2>4. CASE voteStatus' = [voteStatus EXCEPT ![u] = IF call[p].passed THEN "passed" ELSE "rejected"]
    <3>1. voteStatus \in [Proposals -> {"none", "open", "passed", "rejected"}]
      BY VotePartsAre DEF VoteParts
    <3>2. Counted(u) /\ (call[p].passed <=> Carries(votes[u]))
      BY <2>1, <2>2 DEF TallyStands
    <3>3. voteStatus'[u] = "passed" <=> Carries(votes[u])
      BY <2>4, <3>1, <3>2
    <3>4. \A v \in Proposals : v # u => voteStatus'[v] = voteStatus[v]
      BY <2>4, <3>1
    <3>5. \A v \in Proposals : voteStatus'[v] \in {"passed", "rejected"} =>
            Counted(v) /\ (voteStatus'[v] = "passed" <=> Carries(votes[v]))
      BY <3>2, <3>3, <3>4 DEF TallyStands
    <3>6. \A v \in Proposals : voteStatus'[v] \in {"passed", "rejected"} =>
            Counted(v)' /\ (voteStatus'[v] = "passed" <=> Carries(votes'[v]))
      BY <1>0, <3>5 DEF CountStays
    <3>7. \A q \in Procs : votePc'[q] \in {"tally", "close"} => votePc[q] = votePc'[q] /\ call'[q] = call[q]
      BY <2>2 DEF Others
    <3>8. \A q \in Procs : votePc'[q] = "tally" => call'[q].proposal \in ended'
      BY <2>2, <3>7 DEF TallyStands
    <3>9. \A q \in Procs : votePc'[q] = "close" =>
            Counted(call[q].proposal)' /\ (call'[q].passed <=> Carries(votes'[call'[q].proposal]))
      <4> SUFFICES ASSUME NEW q \in Procs, votePc'[q] = "close"
                   PROVE  Counted(call[q].proposal)' /\ (call'[q].passed <=> Carries(votes'[call'[q].proposal]))
        OBVIOUS
      <4>1. votePc[q] = "close" /\ call'[q] = call[q]
        BY <3>7
      <4>2. PICK v \in Proposals : v = call[q].proposal
        BY <4>1 DEF VoteTyped
      <4>3. Counted(v) /\ (call[q].passed <=> Carries(votes[v]))
        BY <4>1, <4>2 DEF TallyStands
      <4>4. Counted(v)' /\ votes'[v] = votes[v] /\ call'[q].proposal = v
        BY <1>0, <4>1, <4>2, <4>3 DEF CountStays
      <4>5. Counted(call[q].proposal)'
        BY <4>4 DEF Counted
      <4> QED BY <4>1, <4>3, <4>4, <4>5
    <3> QED BY <3>6, <3>8, <3>9 DEF TallyStands
  <2> QED BY <2>2, <2>3, <2>4
<1>7. CASE Governed!Install(p)
  <2>1. Governed!Finish(p) /\ UNCHANGED <<ended, voteStatus>>
    BY <1>7 DEF Governed!Install, Governed!rowVars
  <2> QED BY <1>0, <2>1, CallEnds, TalliesStay
<1>8. CASE Governed!Crash(p)
  <2>1. Governed!Finish(p) /\ UNCHANGED <<ended, voteStatus>>
    BY <1>8 DEF Governed!Crash, Governed!rowVars
  <2> QED BY <1>0, <2>1, CallEnds, TalliesStay
<1> QED BY <1>1, <1>2, <1>3, <1>4, <1>5, <1>6, <1>7, <1>8 DEF Governed!Advance, Governed!Call

LEMMA TalliesElsewhere ==
  ASSUME VoteTyped, TallyStands, Governed!Elsewhere \/ UNCHANGED Governed!vars
  PROVE  TallyStands'
<1>1. UNCHANGED <<votePc, call, votes>>
  BY DEF Governed!Elsewhere, Governed!ProposeManager, Governed!VoteEnds, Governed!AssignManager,
         Governed!Trade, Governed!rowVars, Governed!vars
<1>2. ended \subseteq ended'
  BY DEF Governed!Elsewhere, Governed!ProposeManager, Governed!VoteEnds, Governed!AssignManager,
         Governed!Trade, Governed!rowVars, Governed!vars
<1>3. \A v \in Proposals : voteStatus'[v] \in {"passed", "rejected"} => voteStatus'[v] = voteStatus[v]
  <2>1. voteStatus \in [Proposals -> {"none", "open", "passed", "rejected"}]
    BY VotePartsAre DEF VoteParts
  <2>2. \/ UNCHANGED voteStatus
        \/ \E v \in Proposals : voteStatus' = [voteStatus EXCEPT ![v] = "open"]
    BY DEF Governed!Elsewhere, Governed!ProposeManager, Governed!VoteEnds, Governed!AssignManager,
         Governed!Trade, Governed!rowVars, Governed!vars
  <2> QED BY <2>1, <2>2
<1>4. CountStays
  BY <1>1, <1>2, CountGoesOn DEF Voting
<1> QED BY <1>1, <1>2, <1>3, <1>4, TalliesStay

LEMMA AmountEmpty == ASSUME NEW f PROVE Amount(f, {}) = 0
<1>1. Pile(f, {}) = {}
  BY DEF Pile
<1> QED BY <1>1, FS_EmptySet DEF Amount

\* Only y has units.
LEMMA AmountOnly ==
  ASSUME NEW S, NEW y \in S, NEW n \in Nat, NEW f, \A x \in S : f[x] = IF x = y THEN n ELSE 0
  PROVE  Amount(f, S) = n
<1>1. \A x \in S : f[x] \in Nat
  OBVIOUS
<1>2. \A u : u \in Pile(f, S) <=> u \in {y} \X (1..n)
  <2> TAKE u
  <2>1. ASSUME u \in Pile(f, S) PROVE u \in {y} \X (1..n)
    <3>1. PICK x \in S : \E m \in Nat : u = <<x, m>> /\ 1 <= m /\ m <= f[x]
      BY <1>1, <2>1, PileIs
    <3>2. PICK m \in Nat : u = <<x, m>> /\ 1 <= m /\ m <= f[x]
      BY <3>1
    <3>3. x = y
      <4>1. CASE x # y
        <5>1. f[x] = 0
          BY <4>1
        <5> QED BY <3>2, <5>1
      <4> QED BY <4>1
    <3>4. m \in 1..n
      BY <3>2, <3>3
    <3> QED BY <3>2, <3>3, <3>4
  <2>2. ASSUME u \in {y} \X (1..n) PROVE u \in Pile(f, S)
    <3>1. PICK m \in 1..n : u = <<y, m>>
      BY <2>2
    <3>2. m \in Nat /\ 1 <= m /\ m <= f[y]
      BY <3>1
    <3> QED BY <1>1, <3>1, <3>2, PileHas
  <2> QED BY <2>1, <2>2
<1>3. Pile(f, S) = {y} \X (1..n)
  BY <1>2
<1> QED BY <1>3, PileOne DEF Amount

\* A transfer leaves what there is.
LEMMA TradeKeeps ==
  ASSUME NEW f \in [Wallets -> Nat], NEW v \in Wallets, NEW w \in Wallets, v # w, f[v] > 0,
         NEW g, \A x \in Wallets : g[x] = IF x = v THEN f[x] - 1 ELSE IF x = w THEN f[x] + 1 ELSE f[x]
  PROVE  Amount(g, Wallets) = Amount(f, Wallets)
<1> DEFINE less == [x \in Wallets |-> IF x = v THEN f[x] - 1 ELSE f[x]]
           one(y) == [x \in Wallets |-> IF x = y THEN 1 ELSE 0]
<1>1. f[v] - 1 \in Nat
  OBVIOUS
<1>2. \A x \in Wallets : less[x] \in Nat /\ less[x] = IF x = v THEN f[x] - 1 ELSE f[x]
  BY <1>1
<1>3. \A x, y \in Wallets : one(y)[x] \in Nat /\ one(y)[x] = IF x = y THEN 1 ELSE 0
  OBVIOUS
<1>4. \A y \in Wallets : Amount(one(y), Wallets) = 1
  <2> TAKE y \in Wallets
  <2>1. \A x \in Wallets : one(y)[x] = IF x = y THEN 1 ELSE 0
    OBVIOUS
  <2> HIDE DEF one
  <2>2. 1 \in Nat
    OBVIOUS
  <2> QED BY <2>1, <2>2, AmountOnly
<1> HIDE DEF less, one
<1>6. \A x \in Wallets : f[x] = less[x] + one(v)[x]
  BY <1>2, <1>3
<1>7. \A x \in Wallets : g[x] = less[x] + one(w)[x]
  BY <1>2, <1>3
<1>8. Amount(f, Wallets) = Amount(less, Wallets) + Amount(one(v), Wallets)
  BY <1>2, <1>3, <1>6, WalletsAssumption, AmountPlus
<1>9. Amount(g, Wallets) = Amount(less, Wallets) + Amount(one(w), Wallets)
  BY <1>2, <1>3, <1>7, WalletsAssumption, AmountPlus
<1> QED BY <1>4, <1>8, <1>9

LEMMA TheirsWithin ==
  ASSUME VoteTyped, Amount(held, Wallets) = Amount(Shares, Wallets), NEW T \in SUBSET Wallets
  PROVE  Amount(held, T) \in Nat /\ Amount(held, T) <= Amount(Shares, Wallets)
<1>1. \A w \in Wallets : held[w] \in Nat
  BY VotePartsAre DEF VoteParts
<1>2. Amount(held, T) <= Amount(held, Wallets)
  BY <1>1, WalletsAssumption, AmountMonotone
<1>3. IsFiniteSet(T) /\ \A w \in T : held[w] \in Nat
  BY <1>1, WalletsAssumption, FS_Subset
<1>4. Amount(held, T) \in Nat
  BY <1>3, PileFinite
<1> QED BY <1>2, <1>4

\* Who is weighed goes on, votes stand.
LEMMA WeightsStay ==
  ASSUME WeightsExist, UNCHANGED <<held, votes>>,
         \A q \in Procs : votePc'[q] \in {"weigh", "vote"} => votePc'[q] = votePc[q] /\ call'[q] = call[q]
  PROVE  WeightsExist'
<1>1. \A q \in Procs : votePc'[q] = "weigh" =>
        /\ call'[q].todo \subseteq Theirs(call'[q].person)
        /\ call'[q].weight = Amount(held', Theirs(call'[q].person) \ call'[q].todo)
  BY DEF WeightsExist
<1>2. \A q \in Procs : votePc'[q] = "vote" => call'[q].weight <= Amount(Shares, Wallets)
  BY DEF WeightsExist
<1>3. \A v \in Proposals, x \in Persons : votes'[v][x].weight <= Amount(Shares, Wallets)
  BY DEF WeightsExist
<1> QED BY <1>1, <1>2, <1>3 DEF WeightsExist

\* One voter is weighed, the others as before.
LEMMA OneWeighs ==
  ASSUME WeightsExist, UNCHANGED <<held, votes>>, NEW p \in Procs, Others(p),
         votePc'[p] = "weigh" =>
           /\ call'[p].todo \subseteq Theirs(call'[p].person)
           /\ call'[p].weight = Amount(held, Theirs(call'[p].person) \ call'[p].todo),
         votePc'[p] = "vote" => call'[p].weight <= Amount(Shares, Wallets)
  PROVE  WeightsExist'
<1>1. \A q \in Procs : votePc'[q] = "weigh" =>
        /\ call'[q].todo \subseteq Theirs(call'[q].person)
        /\ call'[q].weight = Amount(held', Theirs(call'[q].person) \ call'[q].todo)
  <2> SUFFICES ASSUME NEW q \in Procs, votePc'[q] = "weigh"
               PROVE  /\ call'[q].todo \subseteq Theirs(call'[q].person)
                      /\ call'[q].weight = Amount(held', Theirs(call'[q].person) \ call'[q].todo)
    OBVIOUS
  <2>1. CASE q = p
    BY <2>1
  <2>2. CASE q # p
    BY <2>2 DEF WeightsExist, Others
  <2> QED BY <2>1, <2>2
<1>2. \A q \in Procs : votePc'[q] = "vote" => call'[q].weight <= Amount(Shares, Wallets)
  BY DEF WeightsExist, Others
<1>3. \A v \in Proposals, x \in Persons : votes'[v][x].weight <= Amount(Shares, Wallets)
  BY DEF WeightsExist
<1> QED BY <1>1, <1>2, <1>3 DEF WeightsExist

LEMMA WeightsCall ==
  ASSUME VoteTyped, WeightsExist, NEW p \in Procs,
         Governed!Advance(p) \/ Governed!Call(p) \/ Governed!Crash(p)
  PROVE  WeightsExist'
<1>1. ASSUME NEW x \in Persons, NEW v \in Proposals, NEW c \in {"for", "against"},
             Governed!Vote(p, x, v, c)
      PROVE  WeightsExist'
  <2>1. /\ votePc'[p] = "weigh" /\ call'[p].person = x /\ call'[p].todo = Theirs(x)
        /\ call'[p].weight = 0 /\ Others(p) /\ UNCHANGED <<held, votes>>
    BY <1>1, VoteStep DEF RowsKept
  <2>2. Theirs(x) \ Theirs(x) = {}
    OBVIOUS
  <2>3. Amount(held, Theirs(x) \ Theirs(x)) = 0
    BY <2>2, AmountEmpty
  <2> QED BY <2>1, <2>3, OneWeighs
<1>2. CASE Governed!Weigh(p)
  <2>1. PICK w \in call[p].todo :
          /\ call'[p].person = call[p].person
          /\ call'[p].todo = call[p].todo \ {w} /\ call'[p].weight = call[p].weight + held[w]
    BY <1>2, WeighStep
  <2>2. /\ votePc[p] = "weigh" /\ votePc'[p] \in {"weigh", "vote"}
        /\ votePc'[p] = "vote" => call'[p].todo = {}
        /\ Others(p) /\ UNCHANGED <<held, votes>>
    BY <1>2, WeighStep DEF RowsKept
  <2>3. PICK T : T = Theirs(call[p].person)
    OBVIOUS
  <2>4. T \in SUBSET Wallets /\ call[p].todo \subseteq T /\ call[p].weight = Amount(held, T \ call[p].todo)
    BY <2>2, <2>3 DEF WeightsExist, Theirs
  <2>5. \A u \in Wallets : held[u] \in Nat
    BY VotePartsAre DEF VoteParts
  <2>6. Amount(held, (T \ call[p].todo) \cup {w}) = Amount(held, T \ call[p].todo) + held[w]
    <3>1. w \in Wallets /\ T \ call[p].todo \in SUBSET Wallets /\ w \notin T \ call[p].todo
      BY <2>4
    <3> QED BY <2>5, <3>1, WalletsAssumption, AmountAdd
  <2>7. (T \ call[p].todo) \cup {w} = T \ (call[p].todo \ {w})
    BY <2>4
  <2>8. call'[p].todo \subseteq T /\ call'[p].weight = Amount(held, T \ call'[p].todo)
    BY <2>1, <2>4, <2>6, <2>7
  <2>9. Amount(held, Wallets) = Amount(Shares, Wallets)
    BY DEF WeightsExist
  <2>10. Amount(held, T \ call'[p].todo) <= Amount(Shares, Wallets)
    BY <2>4, <2>9, TheirsWithin
  <2> QED BY <2>1, <2>2, <2>3, <2>8, <2>10, OneWeighs
<1>3. CASE Governed!WriteVote(p)
  <2>1. Governed!Finish(p) /\ UNCHANGED held /\ votePc[p] = "vote"
        /\ (UNCHANGED votes \/ Governed!UpsertVote(call[p]))
    BY <1>3 DEF Governed!WriteVote, Governed!At, Governed!chainVars
  <2>2. CASE UNCHANGED votes
    BY <2>1, <2>2, CallEnds, WeightsStay
  <2>3. CASE Governed!UpsertVote(call[p])
    <3>1. votes \in [Proposals -> [Persons -> Governed!Votes \cup {Governed!Nobody}]]
      BY VotePartsAre DEF VoteParts
    <3>2. call[p].weight <= Amount(Shares, Wallets)
      BY <2>1 DEF WeightsExist
    <3>3. \A v \in Proposals, x \in Persons : votes'[v][x].weight <= Amount(Shares, Wallets)
      <4> TAKE v \in Proposals, x \in Persons
      <4>1. votes'[v][x] = votes[v][x] \/ votes'[v][x].weight = call[p].weight
        BY <2>3, <3>1 DEF Governed!UpsertVote
      <4>2. votes[v][x].weight <= Amount(Shares, Wallets)
        BY DEF WeightsExist
      <4> QED BY <3>2, <4>1, <4>2
    <3>4. \A q \in Procs : votePc'[q] \in {"weigh", "vote"} => votePc'[q] = votePc[q] /\ call'[q] = call[q]
      BY <2>1, CallEnds
    <3>5. \A q \in Procs : votePc'[q] = "weigh" =>
            /\ call'[q].todo \subseteq Theirs(call'[q].person)
            /\ call'[q].weight = Amount(held', Theirs(call'[q].person) \ call'[q].todo)
      BY <2>1, <3>4 DEF WeightsExist
    <3>6. \A q \in Procs : votePc'[q] = "vote" => call'[q].weight <= Amount(Shares, Wallets)
      BY <3>4 DEF WeightsExist
    <3> QED BY <2>1, <3>3, <3>5, <3>6 DEF WeightsExist
  <2> QED BY <2>1, <2>2, <2>3
<1>4. ASSUME NEW v \in Proposals, Governed!CloseProposal(p, v) PROVE WeightsExist'
  BY <1>4, CloseBegins, WeightsStay DEF Others, RowsKept
<1>5. CASE Governed!Tally(p)
  BY <1>5, TallyStep, WeightsStay DEF Others, RowsKept
<1>6. CASE Governed!WriteClose(p)
  BY <1>6, WriteCloseStep, WeightsStay DEF Others
<1>7. CASE Governed!Install(p)
  <2>1. Governed!Finish(p) /\ UNCHANGED <<held, votes>>
    BY <1>7 DEF Governed!Install, Governed!rowVars, Governed!chainVars
  <2> QED BY <2>1, CallEnds, WeightsStay
<1>8. CASE Governed!Crash(p)
  <2>1. Governed!Finish(p) /\ UNCHANGED <<held, votes>>
    BY <1>8 DEF Governed!Crash, Governed!rowVars, Governed!chainVars
  <2> QED BY <2>1, CallEnds, WeightsStay
<1> QED BY <1>1, <1>2, <1>3, <1>4, <1>5, <1>6, <1>7, <1>8 DEF Governed!Advance, Governed!Call

LEMMA WeightsElsewhere ==
  ASSUME WeighedInTime, VoteTyped, WeightsExist, Governed!Elsewhere \/ UNCHANGED Governed!vars
  PROVE  WeightsExist'
<1>1. UNCHANGED <<votePc, call, votes>>
  BY DEF Governed!Elsewhere, Governed!ProposeManager, Governed!VoteEnds, Governed!AssignManager,
         Governed!Trade, Governed!rowVars, Governed!vars
<1>2. CASE UNCHANGED held
  BY <1>1, <1>2, WeightsStay
<1>3. ASSUME NEW v \in Wallets, NEW w \in Wallets, Governed!Trade(v, w) PROVE WeightsExist'
  <2>1. /\ held[v] > 0 /\ v # w /\ held' = [held EXCEPT ![v] = @ - 1, ![w] = @ + 1]
        /\ \A q \in Procs : votePc[q] # "weigh"
    BY <1>3 DEF Governed!Trade, Governed!Fault, Governed!At, WeighedInTime
  <2>2. held \in [Wallets -> Nat]
    BY VotePartsAre DEF VoteParts
  <2>3. \A x \in Wallets : held'[x] = IF x = v THEN held[x] - 1 ELSE IF x = w THEN held[x] + 1 ELSE held[x]
    BY <2>1, <2>2
  <2>4. held[v] > 0 /\ v # w
    BY <2>1
  <2>5. Amount(held', Wallets) = Amount(held, Wallets)
    BY <2>2, <2>3, <2>4, TradeKeeps
  <2> QED BY <1>1, <2>1, <2>5 DEF WeightsExist
<1> QED BY <1>2, <1>3 DEF Governed!Elsewhere, Governed!ProposeManager, Governed!VoteEnds,
         Governed!AssignManager, Governed!chainVars, Governed!vars

\* Each part is kept on its own, with what it needs.
LEMMA VoteNext ==
  ASSUME VoteTyped, [Governed!Next]_(Governed!vars)
  PROVE  /\ VoteTyped'
         /\ OneApplies => OneApplies'
         /\ VotedInTime /\ TallyStands => TallyStands'
         /\ WeighedInTime /\ WeightsExist => WeightsExist'
<1>1. VoteTyped'
  BY VoteTypedNext
<1>2. CASE \E p \in Procs : Governed!Advance(p) \/ Governed!Call(p) \/ Governed!Crash(p)
  BY <1>1, <1>2, AppliesCall, TalliesCall, WeightsCall
<1>3. CASE Governed!Elsewhere \/ UNCHANGED Governed!vars
  BY <1>1, <1>3, AppliesElsewhere, TalliesElsewhere, WeightsElsewhere
<1> QED BY <1>2, <1>3 DEF Governed!Next

\* However closes overlap and die, an outcome is applied once at most.
THEOREM OutcomesApplyOnce == Governed!Spec => []Governed!AppliedOnce
<1>1. Governed!Init => VoteTyped /\ OneApplies
  BY VoteStart DEF VoteInv
<1>2. VoteTyped /\ OneApplies /\ [Governed!Next]_(Governed!vars) => (VoteTyped /\ OneApplies)'
  BY VoteNext
<1>3. OneApplies => Governed!AppliedOnce
  BY DEF OneApplies, Governed!AppliedOnce
<1> QED BY <1>1, <1>2, <1>3, PTL DEF Governed!Spec

\* The outcome that is recorded is what the recorded votes say, for votes that are written
\* before the tally of their proposal.
THEOREM OutcomesAreTallies == ASSUME VotedInTime PROVE Governed!Spec => []Governed!OutcomeIsTally
<1>1. Governed!Init => VoteTyped /\ TallyStands
  BY VoteStart DEF VoteInv
<1>2. VoteTyped /\ TallyStands /\ [Governed!Next]_(Governed!vars) => (VoteTyped /\ TallyStands)'
  BY VoteNext
<1>3. TallyStands => Governed!OutcomeIsTally
  BY CarriedIs DEF TallyStands, Governed!OutcomeIsTally
<1> QED BY <1>1, <1>2, <1>3, PTL DEF Governed!Spec

\* No vote weighs more than there is, for tokens that do not move while their voter is
\* weighed.
THEOREM WeightsAreThere == ASSUME WeighedInTime PROVE Governed!Spec => []Governed!WeightExists
<1>1. Governed!Init => VoteTyped /\ WeightsExist
  BY VoteStart DEF VoteInv
<1>2. VoteTyped /\ WeightsExist /\ [Governed!Next]_(Governed!vars) => (VoteTyped /\ WeightsExist)'
  BY VoteNext
<1>3. Governed!Supply = Amount(Shares, Wallets)
  BY DEF Governed!Supply, Governed!Cardinality, Cardinality, Amount, Pile
<1>4. WeightsExist => Governed!WeightExists
  BY <1>3 DEF WeightsExist, Governed!WeightExists
<1> QED BY <1>1, <1>2, <1>4, PTL DEF Governed!Spec

\* Together: however votes, closes and trades overlap, a vote counts for what there is, and
\* the outcome is what the votes say and applied at most once.
THEOREM VotesAlwaysCount ==
  ASSUME VotesInTime
  PROVE  Governed!Spec => []VoteCounts
<1>1. VotedInTime /\ WeighedInTime
  BY DEF VotesInTime
<1>2. Governed!Spec => []Governed!OutcomeIsTally
  BY <1>1, OutcomesAreTallies
<1>3. Governed!Spec => []Governed!WeightExists
  BY <1>1, WeightsAreThere
<1>4. Governed!AppliedOnce /\ Governed!OutcomeIsTally /\ Governed!WeightExists => VoteCounts
  BY DEF VoteCounts, Governed!VoteCounts
<1> QED BY <1>2, <1>3, <1>4, OutcomesApplyOnce, PTL

-----------------------------------------------------------------------------
(* Buy-back.                                                               *)

BidClaims == [tx : Txs, wallet : BidWallets, tokens : {Size[x] : x \in Txs}]
Booked == [x \in Txs |-> sales[x].tokens]

BidTyped ==
  /\ Bid!TypeOK
  /\ bidStatus = "open" => terms \in published
  /\ \A p \in Procs : bidPc[p] # "idle" => claim[p] \in BidClaims /\ bid[p] \in published

\* A call that was admitted has seen the transfer it claims.
Verified ==
  \A p \in Procs : bidPc[p] = "record" => Bid!Matches(claim[p], bid[p].seller)

BidInv ==
  /\ BidTyped /\ Verified
  /\ bought = Amount(Booked, Txs)
  /\ Bid!SaleIsBacked /\ Bid!PaidAsPublished

LEMMA BoughtIs == bought = Amount(Booked, Txs) <=> Bid!BoughtIsSold
<1>1. Pile(Booked, Txs) = UNION {{x} \X (1..sales[x].tokens) : x \in Txs}
  BY DEF Pile, Booked
<1> QED BY <1>1 DEF Amount, Bid!BoughtIsSold, Bid!Cardinality, Cardinality

LEMMA TermsAre ==
  ASSUME NEW t \in Terms \cup {Bid!NoTerms}
  PROVE  t.price \in Nat /\ (t.limit # NoLimit => t.limit \in Nat)
BY OfferingAssumption DEF BidAssumed, Bid!NoTerms

LEMMA BidStart == Bid!Init => BidInv
<1> SUFFICES ASSUME Bid!Init PROVE BidInv
  OBVIOUS
<1> USE DEF Bid!Init
<1>1. Bid!TypeOK
  BY OfferingAssumption DEF Bid!TypeOK, Bid!Statuses, Bid!TxStates, BidAssumed
<1>2. BidTyped /\ Verified
  BY <1>1 DEF BidTyped, Verified
<1>3. \A x \in Txs : sales[x] = Bid!NoSale /\ Booked[x] = 0
  BY DEF Booked, Bid!NoSale
<1>4. Bid!SaleIsBacked /\ Bid!PaidAsPublished
  BY <1>3 DEF Bid!SaleIsBacked, Bid!PaidAsPublished, Bid!Sold
<1>5. Amount(Booked, Txs) = 0
  <2>1. \A x \in Txs : Booked[x] \in Nat
    BY <1>3
  <2>2. \A u : u \notin Pile(Booked, Txs)
    BY <1>3, <2>1, PileIs
  <2>3. Pile(Booked, Txs) = {}
    BY <2>2
  <2> QED BY <2>3, FS_EmptySet DEF Amount
<1> QED BY <1>2, <1>4, <1>5 DEF BidInv

\* What is booked and what it rests on stay.
LEMMA SalesStay ==
  ASSUME BidInv, UNCHANGED <<sales, bought>>, published \subseteq published',
         \A x \in Txs : chain[x] = "mined" => chain'[x] = "mined"
  PROVE  (bought = Amount(Booked, Txs) /\ Bid!SaleIsBacked /\ Bid!PaidAsPublished)'
<1>1. bought' = Amount(Booked', Txs)
  BY DEF BidInv, Booked
<1>2. Bid!SaleIsBacked' /\ Bid!PaidAsPublished'
  BY DEF BidInv, Bid!SaleIsBacked, Bid!PaidAsPublished, Bid!Sold
<1> QED BY <1>1, <1>2

LEMMA BidManages ==
  ASSUME BidInv, Bid!Manage \/ \E x \in Txs : Bid!Include(x)
  PROVE  BidInv'
<1>1. UNCHANGED <<sales, bought, bidPc, claim, bid>>
  BY DEF Bid!Manage, Bid!CloseBuyback, Bid!OpenBuyback, Bid!Upsert, Bid!Include, Bid!bidVars
<1>2. published \subseteq published' /\ published' \in SUBSET Terms
  BY DEF BidInv, BidTyped, Bid!TypeOK, Bid!Manage, Bid!CloseBuyback, Bid!OpenBuyback, Bid!Include
<1>3. chain' \in [Txs -> Bid!TxStates] /\ \A x \in Txs : chain[x] = "mined" => chain'[x] = "mined"
  <2>1. chain \in [Txs -> Bid!TxStates]
    BY DEF BidInv, BidTyped, Bid!TypeOK
  <2>2. CASE UNCHANGED chain
    BY <2>1, <2>2
  <2>3. ASSUME NEW x \in Txs, Bid!Include(x)
        PROVE  chain' \in [Txs -> Bid!TxStates] /\ \A y \in Txs : chain[y] = "mined" => chain'[y] = "mined"
    BY <2>1, <2>3 DEF Bid!Include, Bid!TxStates
  <2> QED BY <2>2, <2>3 DEF Bid!Manage, Bid!CloseBuyback, Bid!OpenBuyback
<1>4. /\ bidStatus' \in Bid!Statuses /\ terms' \in Terms \cup {Bid!NoTerms} /\ opened' \in 0..MaxTerms
      /\ bidStatus' = "open" => terms' \in published'
  <2>1. MaxTerms \in Nat
    BY OfferingAssumption DEF BidAssumed
  <2>2. CASE Bid!CloseBuyback \/ \E x \in Txs : Bid!Include(x)
    BY <2>2 DEF BidInv, BidTyped, Bid!TypeOK, Bid!CloseBuyback, Bid!Include, Bid!bidVars, Bid!Statuses
  <2>3. ASSUME NEW t \in Terms, Bid!OpenBuyback(t)
        PROVE  /\ bidStatus' \in Bid!Statuses /\ terms' \in Terms \cup {Bid!NoTerms} /\ opened' \in 0..MaxTerms
               /\ bidStatus' = "open" => terms' \in published'
    BY <2>1, <2>3 DEF BidInv, BidTyped, Bid!TypeOK, Bid!OpenBuyback, Bid!Upsert, Bid!Statuses
  <2> QED BY <2>2, <2>3 DEF Bid!Manage
<1>5. Bid!TypeOK'
  BY <1>1, <1>2, <1>3, <1>4 DEF BidInv, BidTyped, Bid!TypeOK
<1>6. \A p \in Procs : bidPc'[p] # "idle" => claim'[p] \in BidClaims /\ bid'[p] \in published'
  BY <1>1, <1>2 DEF BidInv, BidTyped
<1>7. Verified'
  BY <1>1, <1>3 DEF BidInv, BidTyped, Verified, Bid!Matches, BidClaims
<1>8. (bought = Amount(Booked, Txs) /\ Bid!SaleIsBacked /\ Bid!PaidAsPublished)'
  BY <1>1, <1>2, <1>3, SalesStay
<1> QED BY <1>4, <1>5, <1>6, <1>7, <1>8 DEF BidInv, BidTyped

\* A call ends.
LEMMA BidEnds ==
  ASSUME Bid!TypeOK, NEW p \in Procs, Bid!Finish(p)
  PROVE  /\ bidPc' \in [Procs -> {"idle", "verify", "record"}]
         /\ claim' \in [Procs -> BidClaims \cup {Bid!NoClaim}]
         /\ bid' \in [Procs -> Terms \cup {Bid!NoTerms}]
         /\ \A q \in Procs : bidPc'[q] # "idle" => bidPc'[q] = bidPc[q] /\ claim'[q] = claim[q] /\ bid'[q] = bid[q]
BY DEF Bid!TypeOK, Bid!Finish, Bid!Goto, Bid!Claims, Bid!Tokens, BidClaims

\* The calls as they were, the rows but for the sales too.
LEMMA BidCallsStay ==
  ASSUME BidTyped, Verified, UNCHANGED <<bidStatus, terms, chain, published, opened>>,
         bought' \in Nat, sales' \in [Txs -> [tokens : Nat, wallet : BidWallets, price : Nat] \cup {Bid!NoSale}],
         bidPc' \in [Procs -> {"idle", "verify", "record"}],
         claim' \in [Procs -> BidClaims \cup {Bid!NoClaim}],
         bid' \in [Procs -> Terms \cup {Bid!NoTerms}],
         \A q \in Procs : bidPc'[q] # "idle" =>
           /\ claim'[q] \in BidClaims /\ bid'[q] \in published
           /\ bidPc'[q] = "record" => Bid!Matches(claim'[q], bid'[q].seller)
  PROVE  BidTyped' /\ Verified'
<1>1. Bid!TypeOK'
  BY DEF BidTyped, Bid!TypeOK, BidClaims, Bid!Claims, Bid!Tokens
<1>2. BidTyped'
  BY <1>1 DEF BidTyped
<1>3. Verified'
  BY DEF Verified, Bid!Matches
<1> QED BY <1>2, <1>3

LEMMA BidVerifies ==
  ASSUME BidInv, NEW p \in Procs,
         Bid!VerifyTransfer(p) \/ \E c \in BidClaims : Bid!SellBack(p, c)
  PROVE  BidInv'
<1>1. /\ UNCHANGED <<bidStatus, terms, bought, sales, chain, published, opened>>
      /\ BidTyped /\ Verified /\ Bid!TypeOK
  BY DEF Bid!VerifyTransfer, Bid!SellBack, Bid!bidVars, BidInv, BidTyped
<1>2. (bought = Amount(Booked, Txs) /\ Bid!SaleIsBacked /\ Bid!PaidAsPublished)'
  BY <1>1, SalesStay
<1>3. /\ bought \in Nat /\ sales \in [Txs -> [tokens : Nat, wallet : BidWallets, price : Nat] \cup {Bid!NoSale}]
      /\ bidPc \in [Procs -> {"idle", "verify", "record"}]
      /\ claim \in [Procs -> BidClaims \cup {Bid!NoClaim}]
      /\ bid \in [Procs -> Terms \cup {Bid!NoTerms}]
  BY <1>1 DEF Bid!TypeOK, Bid!Claims, Bid!Tokens, BidClaims
<1>4. \A q \in Procs : bidPc[q] # "idle" =>
        /\ claim[q] \in BidClaims /\ bid[q] \in published
        /\ bidPc[q] = "record" => Bid!Matches(claim[q], bid[q].seller)
  BY <1>1 DEF BidTyped, Verified
<1>5. CASE Bid!VerifyTransfer(p)
  <2>1. CASE Bid!Finish(p)
    <3>1. \A q \in Procs : bidPc'[q] # "idle" =>
            /\ claim'[q] \in BidClaims /\ bid'[q] \in published
            /\ bidPc'[q] = "record" => Bid!Matches(claim'[q], bid'[q].seller)
      BY <1>1, <1>4, <2>1, BidEnds
    <3>2. BidTyped' /\ Verified'
      BY <1>1, <1>3, <2>1, <3>1, BidEnds, BidCallsStay
    <3> QED BY <1>2, <3>2 DEF BidInv
  <2>2. CASE Bid!Matches(claim[p], bid[p].seller) /\ Bid!Goto(p, "record") /\ UNCHANGED <<claim, bid>>
    <3>1. bidPc[p] = "verify"
      BY <1>5 DEF Bid!VerifyTransfer, Bid!At
    <3>2. bidPc' = [bidPc EXCEPT ![p] = "record"]
      BY <2>2 DEF Bid!Goto
    <3>3. /\ bidPc' \in [Procs -> {"idle", "verify", "record"}]
          /\ \A q \in Procs \ {p} : bidPc'[q] = bidPc[q]
      BY <1>3, <3>2
    <3>4. \A q \in Procs : bidPc'[q] # "idle" =>
            /\ claim'[q] \in BidClaims /\ bid'[q] \in published
            /\ bidPc'[q] = "record" => Bid!Matches(claim'[q], bid'[q].seller)
      BY <1>4, <2>2, <3>1, <3>3
    <3>5. BidTyped' /\ Verified'
      BY <1>1, <1>3, <2>2, <3>3, <3>4, BidCallsStay
    <3> QED BY <1>2, <3>5 DEF BidInv
  <2> QED BY <1>5, <2>1, <2>2 DEF Bid!VerifyTransfer
<1>6. ASSUME NEW c \in BidClaims, Bid!SellBack(p, c) PROVE BidInv'
  <2>1. /\ bidStatus = "open" /\ claim' = [claim EXCEPT ![p] = c] /\ bid' = [bid EXCEPT ![p] = terms]
        /\ bidPc' = [bidPc EXCEPT ![p] = "verify"]
    BY <1>6 DEF Bid!SellBack, Bid!Goto
  <2>2. terms \in published /\ terms \in Terms \cup {Bid!NoTerms}
    BY <1>1, <2>1 DEF BidTyped, Bid!TypeOK
  <2>3. /\ bidPc' \in [Procs -> {"idle", "verify", "record"}]
        /\ claim' \in [Procs -> BidClaims \cup {Bid!NoClaim}]
        /\ bid' \in [Procs -> Terms \cup {Bid!NoTerms}]
        /\ bidPc'[p] = "verify" /\ claim'[p] = c /\ bid'[p] = terms
        /\ \A q \in Procs \ {p} : bidPc'[q] = bidPc[q] /\ claim'[q] = claim[q] /\ bid'[q] = bid[q]
    BY <1>3, <2>1, <2>2
  <2>4. \A q \in Procs : bidPc'[q] # "idle" =>
          /\ claim'[q] \in BidClaims /\ bid'[q] \in published
          /\ bidPc'[q] = "record" => Bid!Matches(claim'[q], bid'[q].seller)
    BY <1>4, <2>2, <2>3
  <2>5. BidTyped' /\ Verified'
    BY <1>1, <1>3, <2>3, <2>4, BidCallsStay
  <2> QED BY <1>2, <2>5 DEF BidInv
<1> QED BY <1>5, <1>6

LEMMA BidRecords ==
  ASSUME BidInv, NEW p \in Procs, Bid!RecordSale(p)
  PROVE  BidInv' /\ (bought' > bought => (terms.limit # NoLimit => bought' <= terms.limit))
<1>1. /\ UNCHANGED <<bidStatus, terms, chain, published, opened>> /\ Bid!Finish(p)
      /\ BidTyped /\ Verified /\ Bid!TypeOK /\ bidPc[p] = "record"
  BY DEF Bid!RecordSale, Bid!At, BidInv, BidTyped
<1>2. /\ bought \in Nat /\ sales \in [Txs -> [tokens : Nat, wallet : BidWallets, price : Nat] \cup {Bid!NoSale}]
      /\ published \in SUBSET Terms
  BY <1>1 DEF Bid!TypeOK
<1>3. \A q \in Procs : bidPc'[q] # "idle" =>
        /\ claim'[q] \in BidClaims /\ bid'[q] \in published
        /\ bidPc'[q] = "record" => Bid!Matches(claim'[q], bid'[q].seller)
  BY <1>1, BidEnds DEF BidTyped, Verified
<1>4. CASE UNCHANGED <<bought, sales>>
  <2>1. BidTyped' /\ Verified'
    BY <1>1, <1>2, <1>3, <1>4, BidEnds, BidCallsStay
  <2>2. (bought = Amount(Booked, Txs) /\ Bid!SaleIsBacked /\ Bid!PaidAsPublished)'
    BY <1>1, <1>4, SalesStay
  <2>3. ~(bought' > bought)
    BY <1>2, <1>4
  <2> QED BY <2>1, <2>2, <2>3 DEF BidInv
<1>5. CASE Bid!Book(p) /\ ~Bid!Duplicate(p) /\ Bid!Fits(p)
  <2>1. PICK x \in Txs, n \in Nat, w \in BidWallets :
          /\ claim[p] = [tx |-> x, wallet |-> w, tokens |-> n]
    <3>1. claim[p] \in BidClaims /\ Size \in [Txs -> Nat]
      BY <1>1, OfferingAssumption DEF BidTyped, BidAssumed
    <3>2. /\ claim[p] = [tx |-> claim[p].tx, wallet |-> claim[p].wallet, tokens |-> claim[p].tokens]
          /\ claim[p].tx \in Txs /\ claim[p].wallet \in BidWallets /\ claim[p].tokens \in Nat
      BY <3>1 DEF BidClaims
    <3> QED BY <3>2
  <2>2. claim[p].tx = x /\ claim[p].wallet = w /\ claim[p].tokens = n
    BY <2>1
  <2>3. bid[p] \in published /\ bid[p].price \in Nat
    <3>1. bid[p] \in published
      BY <1>1 DEF BidTyped
    <3> QED BY <1>2, <3>1, TermsAre
  <2>4. PICK s : s = [tokens |-> n, wallet |-> w, price |-> bid[p].price]
    OBVIOUS
  <2>5. s \in [tokens : Nat, wallet : BidWallets, price : Nat] /\ s.tokens = n /\ s.wallet = w /\ s.price = bid[p].price
    BY <2>3, <2>4
  <2>6. bought' = bought + n /\ sales' = [sales EXCEPT ![x] = s]
    BY <1>5, <2>2, <2>4 DEF Bid!Book
  <2>7. sales[x] = Bid!NoSale
    BY <1>5, <2>2 DEF Bid!Duplicate, Bid!Sold
  <2>8. sales'[x] = s /\ \A y \in Txs : y # x => sales'[y] = sales[y]
    BY <1>2, <2>6
  <2>9. /\ bought' \in Nat
        /\ sales' \in [Txs -> [tokens : Nat, wallet : BidWallets, price : Nat] \cup {Bid!NoSale}]
    BY <1>2, <2>5, <2>6
  <2>10. BidTyped' /\ Verified'
    BY <1>1, <1>3, <2>9, BidEnds, BidCallsStay
  <2>11. bought' = Amount(Booked', Txs)
    <3> DEFINE only == [y \in Txs |-> IF y = x THEN n ELSE 0]
    <3>1. \A y \in Txs : Booked[y] \in Nat /\ Booked[y] = sales[y].tokens
      BY <1>2 DEF Booked, Bid!NoSale
    <3>2. \A y \in Txs : Booked'[y] = sales'[y].tokens
      BY DEF Booked
    <3>3. \A y \in Txs : only[y] \in Nat /\ only[y] = IF y = x THEN n ELSE 0
      OBVIOUS
    <3>4. Booked[x] = 0
      BY <2>7, <3>1 DEF Bid!NoSale
    <3> HIDE DEF only
    <3>5. \A y \in Txs : Booked'[y] = Booked[y] + only[y]
      <4> TAKE y \in Txs
      <4>1. CASE y = x
        BY <2>5, <2>8, <3>2, <3>3, <3>4, <4>1
      <4>2. CASE y # x
        <5>1. Booked'[y] = Booked[y] /\ only[y] = 0
          BY <2>8, <3>1, <3>2, <3>3, <4>2
        <5> QED BY <3>1, <5>1
      <4> QED BY <4>1, <4>2
    <3>6. PICK f, g : f = Booked /\ g = Booked'
      OBVIOUS
    <3>7. IsFiniteSet(Txs)
      BY OfferingAssumption DEF BidAssumed
    <3>8. Amount(g, Txs) = Amount(f, Txs) + Amount(only, Txs)
      BY <3>1, <3>3, <3>5, <3>6, <3>7, AmountPlus
    <3>9. Amount(only, Txs) = n
      BY <3>3, AmountOnly
    <3>10. bought = Amount(f, Txs)
      BY <3>6 DEF BidInv
    <3> QED BY <2>6, <3>6, <3>8, <3>9, <3>10
  <2>12. chain[x] = "mined" /\ From[x] = w /\ To[x] = bid[p].seller /\ Size[x] = n
    BY <1>1, <2>2 DEF Verified, Bid!Matches
  <2>13. Bid!SaleIsBacked'
    <3> SUFFICES ASSUME NEW y \in Txs, sales'[y] # Bid!NoSale
                 PROVE  chain'[y] = "mined" /\ sales'[y].tokens = Size[y] /\ sales'[y].wallet = From[y]
      BY DEF Bid!SaleIsBacked, Bid!Sold
    <3>1. CASE y = x
      BY <1>1, <2>5, <2>8, <2>12, <3>1
    <3>2. CASE y # x
      BY <1>1, <2>8, <3>2 DEF BidInv, Bid!SaleIsBacked, Bid!Sold
    <3> QED BY <3>1, <3>2
  <2>14. Bid!PaidAsPublished'
    <3> SUFFICES ASSUME NEW y \in Txs, sales'[y] # Bid!NoSale
                 PROVE  \E t \in published' : t.price = sales'[y].price /\ t.seller = To[y]
      BY DEF Bid!PaidAsPublished, Bid!Sold
    <3>1. CASE y = x
      BY <1>1, <2>3, <2>5, <2>8, <2>12, <3>1
    <3>2. CASE y # x
      BY <1>1, <2>8, <3>2 DEF BidInv, Bid!PaidAsPublished, Bid!Sold
    <3> QED BY <3>1, <3>2
  <2>15. terms.limit # NoLimit => bought' <= terms.limit
    BY <1>5, <2>2, <2>6 DEF Bid!Fits
  <2> QED BY <2>10, <2>11, <2>13, <2>14, <2>15 DEF BidInv
<1> QED BY <1>4, <1>5 DEF Bid!RecordSale

LEMMA BidNext ==
  ASSUME BidInv, [Bid!Next]_(Bid!vars)
  PROVE  BidInv' /\ (bought' > bought => (terms.limit # NoLimit => bought' <= terms.limit))
<1>1. CASE Bid!Manage \/ \E x \in Txs : Bid!Include(x)
  <2>1. bought' = bought
    BY <1>1 DEF Bid!Manage, Bid!CloseBuyback, Bid!OpenBuyback, Bid!Upsert, Bid!Include, Bid!bidVars
  <2>2. bought \in Nat
    BY DEF BidInv, BidTyped, Bid!TypeOK
  <2> QED BY <1>1, <2>1, <2>2, BidManages
<1>2. ASSUME NEW p \in Procs, Bid!VerifyTransfer(p) \/ \E c \in BidClaims : Bid!SellBack(p, c)
      PROVE  BidInv' /\ (bought' > bought => (terms.limit # NoLimit => bought' <= terms.limit))
  <2>1. bought' = bought
    BY <1>2 DEF Bid!VerifyTransfer, Bid!SellBack, Bid!bidVars
  <2>2. bought \in Nat
    BY DEF BidInv, BidTyped, Bid!TypeOK
  <2> QED BY <1>2, <2>1, <2>2, BidVerifies
<1>3. ASSUME NEW p \in Procs, Bid!RecordSale(p)
      PROVE  BidInv' /\ (bought' > bought => (terms.limit # NoLimit => bought' <= terms.limit))
  BY <1>3, BidRecords
<1>4. CASE UNCHANGED Bid!vars
  <2>1. UNCHANGED <<bidStatus, terms, bought, sales, chain, published, opened, bidPc, claim, bid>>
    BY <1>4 DEF Bid!vars, Bid!bidVars
  <2>2. (bought = Amount(Booked, Txs) /\ Bid!SaleIsBacked /\ Bid!PaidAsPublished)'
    BY <2>1, SalesStay
  <2>3. BidTyped' /\ Verified'
    BY <2>1 DEF BidInv, BidTyped, Verified, Bid!TypeOK, Bid!Matches
  <2>4. bought \in Nat
    BY DEF BidInv, BidTyped, Bid!TypeOK
  <2> QED BY <2>1, <2>2, <2>3, <2>4 DEF BidInv
<1>5. Bid!Claims = BidClaims
  BY DEF Bid!Claims, Bid!Tokens, BidClaims
<1> QED BY <1>1, <1>2, <1>3, <1>4, <1>5 DEF Bid!Next

\* However sellers and the issuer overlap, in an investor's session or the owner's, the
\* bid has bought what its sales say, each rests on a mined transfer of its own, was sent
\* to the wallet and paid at the price of one and the same published bid, and no sale is
\* booked beyond the limit in force.
THEOREM SalesAlwaysSound == Bid!Spec => SalesAreSound
<1>1. Bid!Init => BidInv
  BY BidStart
<1>2. BidInv /\ [Bid!Next]_(Bid!vars) => BidInv'
  BY BidNext
<1>3. BidInv /\ [Bid!Next]_(Bid!vars) =>
        [bought' > bought => (terms.limit # NoLimit => bought' <= terms.limit)]_(Bid!vars)
  BY BidNext
<1>4. BidInv => Bid!BoughtIsSold /\ Bid!SaleIsBacked /\ Bid!PaidAsPublished
  BY BoughtIs DEF BidInv
<1> QED BY <1>1, <1>2, <1>3, <1>4, PTL DEF Bid!Spec, SalesAreSound, Bid!SalesAreSound, Bid!WithinLimit

-----------------------------------------------------------------------------
(* Together.                                                               *)

\* Every variable of the four parts has its type, in any run of them together.
THEOREM OfferingTyped == (Spec /\ Bid!Spec /\ Governed!Spec /\ Reserve!Spec) => []AllTyped
<1>1. Bid!Init => BidInv
  BY BidStart
<1>2. BidInv /\ [Bid!Next]_(Bid!vars) => BidInv'
  BY BidNext
<1>3. BidInv => Bid!TypeOK
  BY DEF BidInv, BidTyped
<1>4. Governed!Init => VoteTyped
  BY VoteStart DEF VoteInv
<1>5. VoteTyped /\ [Governed!Next]_(Governed!vars) => VoteTyped'
  BY VoteTypedNext
<1>6. VoteTyped => Governed!TypeOK
  BY DEF VoteTyped
<1>7. Reserve!Init => OrderTyped
  BY OrderStart
<1>8. OrderTyped /\ [Reserve!Next]_(Reserve!vars) => OrderTyped'
  BY OrderTypedNext
<1>9. OrderTyped => Reserve!TypeOK
  BY DEF OrderTyped
<1> QED BY <1>1, <1>2, <1>3, <1>4, <1>5, <1>6, <1>7, <1>8, <1>9, TypeCorrect, PTL
        DEF AllTyped, Bid!Spec, Governed!Spec, Reserve!Spec
=============================================================================
