----------------------------- MODULE FrontProofs -----------------------------
(***************************************************************************)
(* Machine-checked theorems about what stands between the network and the  *)
(* handlers: the limiters of HttpFront, for any limits, windows and sizes  *)
(* of their tables, and the terminals, for any clients and any number of   *)
(* failed forks.                                                           *)
(***************************************************************************)
EXTENDS HttpFront, Terminal, WellFoundedInduction, TLAPS

-----------------------------------------------------------------------------
(* Lists of ages.  Fresh is a recursion over a list; what it returns of a  *)
(* list in order is found by induction over the naturals, once.            *)

LEMMA SetInduction ==
    ASSUME NEW S, 0 \in S, \A n \in Nat : n \in S => n + 1 \in S
    PROVE  Nat \subseteq S
<1> SUFFICES ASSUME NEW x \in Nat, x \notin S PROVE FALSE
  OBVIOUS
<1>. DEFINE T == Nat \ S
<1>1. T \subseteq Nat /\ T # {}
  OBVIOUS
<1>2. PICK t \in T : \A s \in T : ~ (<<s, t>> \in OpToRel(<, Nat))
  BY <1>1, NatLessThanWellFounded, WFMin, Zenon
<1>3. OpToRel(<, Nat) = {ss \in Nat \X Nat : ss[1] < ss[2]}
  BY Zenon DEF OpToRel
<1>4. t \in Nat /\ t \notin S
  OBVIOUS
<1>5. t # 0
  BY <1>4
<1>6. t - 1 \in Nat /\ (t - 1) + 1 = t
  BY <1>4, <1>5
<1>7. t - 1 \in T
  BY <1>4, <1>6
<1>8. <<t - 1, t>> \in {ss \in Nat \X Nat : ss[1] < ss[2]}
  BY <1>4, <1>6
<1> QED
  BY <1>2, <1>3, <1>7, <1>8

\* The function that Fresh looks up, over the first m ages.
Filters(g, ages, w, m) ==
    g = [n \in 0..m |->
            IF n = 0 THEN <<>>
            ELSE IF ages[n] < w THEN Append(g[n - 1], ages[n]) ELSE g[n - 1]]

LEMMA FilterExists ==
    ASSUME NEW ages, NEW w, NEW m \in Nat
    PROVE  \E g : Filters(g, ages, w, m)
<1>. DEFINE S == {k \in Nat : \E g : Filters(g, ages, w, k)}
<1>1. 0 \in S
  <2>. DEFINE g == [n \in {0} |-> <<>>]
  <2>1. 0..0 = {0}
    OBVIOUS
  <2>2. Filters(g, ages, w, 0)
    BY <2>1, Zenon DEF Filters
  <2> QED
    BY <2>2
<1>2. ASSUME NEW k \in Nat, k \in S PROVE k + 1 \in S
  <2>1. PICK g : Filters(g, ages, w, k)
    BY <1>2
  <2>. DEFINE next == IF ages[k + 1] < w THEN Append(g[k], ages[k + 1]) ELSE g[k]
              h == [n \in 0..(k + 1) |-> IF n = k + 1 THEN next ELSE g[n]]
  <2>2. \A n \in 0..k :
          g[n] = IF n = 0 THEN <<>>
                 ELSE IF ages[n] < w THEN Append(g[n - 1], ages[n]) ELSE g[n - 1]
    BY <2>1 DEF Filters
  <2>3. ASSUME NEW n \in 0..(k + 1)
        PROVE  h[n] = IF n = 0 THEN <<>>
                      ELSE IF ages[n] < w THEN Append(h[n - 1], ages[n]) ELSE h[n - 1]
    <3>. HIDE DEF next
    <3>1. CASE n = k + 1
      <4>1. n # 0 /\ n - 1 = k /\ k \in 0..(k + 1) /\ k # k + 1
        BY <3>1
      <4>2. h[n] = next /\ h[n - 1] = g[k]
        BY <3>1, <4>1
      <4> QED
        BY <3>1, <4>1, <4>2 DEF next
    <3>2. CASE n = 0
      BY <3>2, <2>2
    <3>3. CASE n # 0 /\ n # k + 1
      <4>1. n \in 0..k /\ n - 1 \in 0..(k + 1) /\ n - 1 # k + 1
        BY <3>3
      <4>2. h[n] = g[n] /\ h[n - 1] = g[n - 1]
        BY <3>3, <4>1
      <4> QED
        BY <3>3, <4>1, <4>2, <2>2
    <3> QED
      BY <3>1, <3>2, <3>3
  <2>4. Filters(h, ages, w, k + 1)
    <3>1. h = [n \in 0..(k + 1) |-> h[n]]
      OBVIOUS
    <3>. HIDE DEF h
    <3> QED
      BY <2>3, <3>1, Zenon DEF Filters
  <2> QED
    BY <2>4
<1>. HIDE DEF S
<1>3. Nat \subseteq S
  BY <1>1, <1>2, SetInduction
<1> QED
  BY <1>3 DEF S

LEMMA FreshIsFiltered ==
    ASSUME NEW ages, NEW w, Len(ages) \in Nat
    PROVE  \E g : Filters(g, ages, w, Len(ages)) /\ Fresh(ages, w) = g[Len(ages)]
<1>. DEFINE g == CHOOSE f : Filters(f, ages, w, Len(ages))
<1>1. Filters(g, ages, w, Len(ages))
  BY FilterExists, Zenon
<1>2. Fresh(ages, w) = g[Len(ages)]
  BY DEF Fresh, Filters
<1> QED
  BY <1>1, <1>2

\* Oldest first.
InOrder(ages) == \A i, j \in 1..Len(ages) : i <= j => ages[j] <= ages[i]
AgeLists == {ages \in Seq(Nat) : InOrder(ages)}

\* The first k ages are too old and all that follow are kept.
KeptFrom(ages, w, k, kept) ==
    /\ \A i \in 1..Len(ages) : ages[i] < w <=> i > k
    /\ kept \in Seq(Nat)
    /\ Len(kept) = Len(ages) - k
    /\ \A i \in 1..(Len(ages) - k) : kept[i] = ages[i + k]

LEMMA OneMore ==
    ASSUME NEW s \in Seq(Nat), NEW e \in Nat
    PROVE  /\ Append(s, e) \in Seq(Nat)
           /\ Len(Append(s, e)) = Len(s) + 1
           /\ \A i \in 1..Len(s) : Append(s, e)[i] = s[i]
           /\ Append(s, e)[Len(s) + 1] = e
OBVIOUS

LEMMA FreshIsSuffix ==
    ASSUME NEW ages \in AgeLists, NEW w \in Nat
    PROVE  \E k \in 0..Len(ages) : KeptFrom(ages, w, k, Fresh(ages, w))
<1>. DEFINE L == Len(ages)
            P(n, k, kept) == /\ \A i \in 1..n : ages[i] < w <=> i > k
                             /\ kept \in Seq(Nat)
                             /\ Len(kept) = n - k
                             /\ \A i \in 1..(n - k) : kept[i] = ages[i + k]
<1>0. /\ L \in Nat /\ ages \in Seq(Nat)
      /\ \A i, j \in 1..L : i <= j => ages[j] <= ages[i]
      /\ \A i \in 1..L : ages[i] \in Nat
  BY DEF AgeLists, InOrder
<1>1. PICK g : Filters(g, ages, w, L) /\ Fresh(ages, w) = g[L]
  BY <1>0, FreshIsFiltered
<1>2. \A n \in 0..L :
        g[n] = IF n = 0 THEN <<>>
               ELSE IF ages[n] < w THEN Append(g[n - 1], ages[n]) ELSE g[n - 1]
  BY <1>1 DEF Filters
<1>. DEFINE S == {n \in Nat : n <= L => \E k \in 0..n : P(n, k, g[n])}
<1>3. 0 \in S
  <2>1. g[0] = <<>>
    BY <1>0, <1>2
  <2>2. P(0, 0, g[0])
    BY <2>1
  <2> QED
    BY <2>2
<1>. HIDE DEF P
<1>4. ASSUME NEW n \in Nat, n \in S PROVE n + 1 \in S
  <2>0. n + 1 \in Nat
    OBVIOUS
  <2> SUFFICES ASSUME n + 1 <= L PROVE \E k \in 0..(n + 1) : P(n + 1, k, g[n + 1])
    BY <2>0
  <2>1. n <= L /\ n + 1 \in 0..L /\ n + 1 \in 1..L /\ n + 1 # 0 /\ (n + 1) - 1 = n
    BY <1>0
  <2>2. PICK k \in 0..n : P(n, k, g[n])
    BY <1>4, <2>1
  <2>3. k \in Nat /\ k <= n /\ k \in 0..(n + 1)
    OBVIOUS
  <2>4. CASE ages[n + 1] < w
    <3>1. g[n + 1] = Append(g[n], ages[n + 1])
      BY <1>2, <2>1, <2>4
    <3>2. /\ g[n + 1] \in Seq(Nat) /\ Len(g[n + 1]) = (n + 1) - k
          /\ \A i \in 1..(n - k) : g[n + 1][i] = ages[i + k]
          /\ g[n + 1][(n - k) + 1] = ages[n + 1]
      <4>1. /\ g[n] \in Seq(Nat) /\ Len(g[n]) = n - k /\ ages[n + 1] \in Nat
            /\ \A i \in 1..(n - k) : g[n][i] = ages[i + k]
        BY <1>0, <2>1, <2>2 DEF P
      <4>2. n - k \in Nat /\ (n - k) + 1 = (n + 1) - k
        BY <2>3
      <4>. DEFINE s == g[n]
                  e == ages[n + 1]
      <4>3. /\ s \in Seq(Nat) /\ Len(s) = n - k /\ e \in Nat /\ g[n + 1] = Append(s, e)
            /\ \A i \in 1..(n - k) : s[i] = ages[i + k]
        BY <3>1, <4>1
      <4>. HIDE DEF s, e
      <4>4. /\ Append(s, e) \in Seq(Nat) /\ Len(Append(s, e)) = (n - k) + 1
            /\ \A i \in 1..(n - k) : Append(s, e)[i] = s[i]
            /\ Append(s, e)[(n - k) + 1] = e
        <5>1. PICK m : m = n - k
          OBVIOUS
        <5>2. Len(s) = m
          BY <4>3, <5>1
        <5> QED
          BY <4>3, <5>1, <5>2, OneMore
      <4> QED
        BY <4>2, <4>3, <4>4 DEF e
    <3>3. ASSUME NEW i \in 1..((n + 1) - k) PROVE g[n + 1][i] = ages[i + k]
      <4>1. CASE i = (n - k) + 1
        <5>1. i + k = n + 1
          BY <2>3, <4>1
        <5> QED
          BY <3>2, <4>1, <5>1
      <4>2. CASE i # (n - k) + 1
        BY <2>3, <3>2, <4>2
      <4> QED
        BY <4>1, <4>2
    <3>4. ASSUME NEW i \in 1..(n + 1) PROVE ages[i] < w <=> i > k
      <4>1. CASE i = n + 1
        BY <2>3, <2>4, <4>1
      <4>2. CASE i # n + 1
        BY <2>2, <4>2 DEF P
      <4> QED
        BY <4>1, <4>2
    <3> QED
      BY <2>3, <3>2, <3>3, <3>4 DEF P
  <2>5. CASE ~(ages[n + 1] < w)
    <3>1. g[n + 1] = g[n]
      BY <1>2, <2>1, <2>5
    <3>2. k = n
      <4>1. ASSUME k # n PROVE FALSE
        <5>1. n \in 1..n /\ n > k /\ n \in 1..L /\ n <= n + 1
          BY <2>1, <2>3, <4>1
        <5>2. ages[n] < w /\ ages[n + 1] <= ages[n]
          BY <1>0, <2>1, <2>2, <5>1 DEF P
        <5>3. ages[n] \in Nat /\ ages[n + 1] \in Nat
          BY <1>0, <2>1, <5>1
        <5> QED
          BY <2>5, <5>2, <5>3
      <4> QED
        BY <4>1
    <3>3. ASSUME NEW i \in 1..(n + 1) PROVE ages[i] < w <=> i > n + 1
      <4>1. CASE i = n + 1
        BY <2>5, <4>1
      <4>2. CASE i # n + 1
        BY <2>2, <3>2, <4>2 DEF P
      <4> QED
        BY <4>1, <4>2
    <3>4. P(n + 1, n + 1, g[n + 1])
      BY <2>2, <3>1, <3>2, <3>3 DEF P
    <3> QED
      BY <3>4
  <2> QED
    BY <2>4, <2>5
<1>. HIDE DEF S
<1>5. Nat \subseteq S
  BY <1>3, <1>4, SetInduction
<1>6. L \in S
  BY <1>0, <1>5
<1>7. \E k \in 0..L : P(L, k, g[L])
  BY <1>0, <1>6 DEF S
<1> QED
  BY <1>1, <1>7 DEF KeptFrom, P

LEMMA SameSequence ==
    ASSUME NEW S, NEW s \in Seq(S), NEW t \in Seq(S), Len(s) = Len(t),
           \A i \in 1..Len(s) : s[i] = t[i]
    PROVE  s = t
<1>1. /\ s = [i \in 1..Len(s) |-> s[i]]
      /\ t = [i \in 1..Len(t) |-> t[i]]
  OBVIOUS
<1> QED
  BY <1>1, Zenon

\* What is kept stays in order.
LEMMA KeptInOrder ==
    ASSUME NEW ages \in AgeLists, NEW w \in Nat
    PROVE  /\ Fresh(ages, w) \in AgeLists
           /\ \A i \in 1..Len(Fresh(ages, w)) : Fresh(ages, w)[i] < w
<1>1. PICK k \in 0..Len(ages) : KeptFrom(ages, w, k, Fresh(ages, w))
  BY FreshIsSuffix
<1>. DEFINE kept == Fresh(ages, w)
<1>2. /\ ages \in Seq(Nat) /\ Len(ages) \in Nat /\ k \in Nat /\ k <= Len(ages)
      /\ kept \in Seq(Nat) /\ Len(kept) = Len(ages) - k
      /\ \A i \in 1..Len(ages) : ages[i] < w <=> i > k
      /\ \A i \in 1..Len(kept) : kept[i] = ages[i + k]
      /\ \A i, j \in 1..Len(ages) : i <= j => ages[j] <= ages[i]
  BY <1>1 DEF KeptFrom, AgeLists, InOrder
<1>. HIDE DEF kept
<1>3. ASSUME NEW i \in 1..Len(kept)
      PROVE  i + k \in 1..Len(ages) /\ i + k > k
  BY <1>2
<1>4. ASSUME NEW i \in 1..Len(kept) PROVE kept[i] < w
  BY <1>2, <1>3
<1>5. ASSUME NEW i \in 1..Len(kept), NEW j \in 1..Len(kept), i <= j
      PROVE  kept[j] <= kept[i]
  <2>1. i + k <= j + k
    BY <1>2, <1>5
  <2> QED
    BY <1>2, <1>3, <2>1
<1> QED
  BY <1>2, <1>4, <1>5 DEF AgeLists, InOrder, kept

LEMMA AllFresh ==
    ASSUME NEW ages \in AgeLists, NEW w \in Nat, \A i \in 1..Len(ages) : ages[i] < w
    PROVE  Fresh(ages, w) = ages
<1>1. PICK k \in 0..Len(ages) : KeptFrom(ages, w, k, Fresh(ages, w))
  BY FreshIsSuffix
<1>2. ages \in Seq(Nat) /\ Len(ages) \in Nat
  BY DEF AgeLists
<1>3. k = 0
  <2>1. ASSUME k # 0 PROVE FALSE
    <3>1. k \in 1..Len(ages)
      BY <1>2, <2>1
    <3> QED
      BY <1>1, <3>1 DEF KeptFrom
  <2> QED
    BY <2>1
<1>4. /\ Fresh(ages, w) \in Seq(Nat) /\ Len(Fresh(ages, w)) = Len(ages)
      /\ \A i \in 1..Len(ages) : Fresh(ages, w)[i] = ages[i]
  BY <1>1, <1>2, <1>3 DEF KeptFrom
<1> QED
  BY <1>2, <1>4, SameSequence

LEMMA NoneFresh ==
    ASSUME NEW ages \in AgeLists, NEW w \in Nat, \A i \in 1..Len(ages) : ages[i] >= w
    PROVE  Fresh(ages, w) = <<>>
<1>1. PICK k \in 0..Len(ages) : KeptFrom(ages, w, k, Fresh(ages, w))
  BY FreshIsSuffix
<1>2. /\ ages \in Seq(Nat) /\ Len(ages) \in Nat
      /\ \A i \in 1..Len(ages) : ages[i] \in Nat
  BY DEF AgeLists
<1>3. k = Len(ages)
  <2>1. ASSUME k # Len(ages) PROVE FALSE
    <3>1. k + 1 \in 1..Len(ages) /\ k + 1 > k
      BY <1>2, <2>1
    <3> QED
      BY <1>1, <1>2, <3>1 DEF KeptFrom
  <2> QED
    BY <2>1
<1>4. /\ Fresh(ages, w) \in Seq(Nat) /\ <<>> \in Seq(Nat)
      /\ Len(Fresh(ages, w)) = 0 /\ Len(<<>>) = 0
  BY <1>1, <1>2, <1>3 DEF KeptFrom
<1>5. \A i \in 1..Len(Fresh(ages, w)) : Fresh(ages, w)[i] = <<>>[i]
  BY <1>4
<1> QED
  BY <1>4, <1>5, SameSequence

LEMMA NothingIsFresh ==
    ASSUME NEW w \in Nat
    PROVE  <<>> \in AgeLists /\ Fresh(<<>>, w) = <<>>
<1>1. <<>> \in AgeLists
  BY DEF AgeLists, InOrder
<1> QED
  BY <1>1, NoneFresh

\* A request that is let through is the last, and of age 0.
LEMMA AppendNow ==
    ASSUME NEW ages \in AgeLists
    PROVE  /\ Append(ages, 0) \in AgeLists
           /\ Len(Append(ages, 0)) = Len(ages) + 1
           /\ \A i \in 1..Len(ages) : Append(ages, 0)[i] = ages[i]
           /\ Append(ages, 0)[Len(ages) + 1] = 0
<1>. DEFINE new == Append(ages, 0)
<1>1. /\ ages \in Seq(Nat) /\ Len(ages) \in Nat
      /\ new \in Seq(Nat) /\ Len(new) = Len(ages) + 1
      /\ \A i \in 1..Len(ages) : new[i] = ages[i] /\ ages[i] \in Nat
      /\ new[Len(ages) + 1] = 0
      /\ \A i, j \in 1..Len(ages) : i <= j => ages[j] <= ages[i]
  BY DEF AgeLists, InOrder
<1>. HIDE DEF new
<1>2. ASSUME NEW i \in 1..Len(new), NEW j \in 1..Len(new), i <= j
      PROVE  new[j] <= new[i]
  <2>1. new[i] \in Nat
    BY <1>1
  <2>2. CASE j = Len(ages) + 1
    BY <1>1, <2>1, <2>2
  <2>3. CASE j # Len(ages) + 1
    <3>1. j \in 1..Len(ages) /\ i \in 1..Len(ages)
      BY <1>1, <1>2, <2>3
    <3> QED
      BY <1>1, <1>2, <3>1
  <2> QED
    BY <2>2, <2>3
<1> QED
  BY <1>1, <1>2 DEF AgeLists, InOrder, new

\* An age a tick later.
Older(t, w) == IF t + 1 < w THEN t + 1 ELSE w

LEMMA AgedFacts ==
    ASSUME NEW ages \in AgeLists, NEW w \in Nat
    PROVE  /\ Aged(ages, w) \in AgeLists
           /\ Len(Aged(ages, w)) = Len(ages)
           /\ \A i \in 1..Len(ages) : Aged(ages, w)[i] = Older(ages[i], w)
<1>. DEFINE new == Aged(ages, w)
<1>1. /\ ages \in Seq(Nat) /\ Len(ages) \in Nat /\ DOMAIN ages = 1..Len(ages)
      /\ \A i \in 1..Len(ages) : ages[i] \in Nat
      /\ \A i, j \in 1..Len(ages) : i <= j => ages[j] <= ages[i]
  BY DEF AgeLists, InOrder
<1>2. new = [i \in 1..Len(ages) |-> Older(ages[i], w)]
  BY <1>1 DEF Aged, Older
<1>3. \A t \in Nat : Older(t, w) \in Nat
  BY DEF Older
<1>. HIDE DEF new
<1>4. /\ new \in Seq(Nat) /\ Len(new) = Len(ages)
      /\ \A i \in 1..Len(ages) : new[i] = Older(ages[i], w)
  BY <1>1, <1>2, <1>3
<1>5. ASSUME NEW i \in 1..Len(new), NEW j \in 1..Len(new), i <= j
      PROVE  new[j] <= new[i]
  BY <1>1, <1>4, <1>5 DEF Older
<1> QED
  BY <1>4, <1>5 DEF AgeLists, InOrder, new

\* It does not matter whether a list is cut before it ages: what was too old
\* stays too old.
LEMMA AgedThenFresh ==
    ASSUME NEW ages \in AgeLists, NEW w \in Nat
    PROVE  Fresh(Aged(ages, w), w) = Fresh(Aged(Fresh(ages, w), w), w)
<1>. DEFINE kept == Fresh(ages, w)
            old == Aged(ages, w)
            new == Aged(kept, w)
<1>1. PICK k \in 0..Len(ages) : KeptFrom(ages, w, k, kept)
  BY FreshIsSuffix
<1>2. kept \in AgeLists
  BY KeptInOrder
<1>3. /\ old \in AgeLists /\ Len(old) = Len(ages)
      /\ \A i \in 1..Len(ages) : old[i] = Older(ages[i], w)
  BY AgedFacts
<1>4. /\ new \in AgeLists /\ Len(new) = Len(kept)
      /\ \A i \in 1..Len(kept) : new[i] = Older(kept[i], w)
  BY <1>2, AgedFacts
<1>5. /\ Len(ages) \in Nat /\ k \in Nat /\ k <= Len(ages)
      /\ \A i \in 1..Len(ages) : ages[i] \in Nat /\ (ages[i] < w <=> i > k)
      /\ Len(kept) = Len(ages) - k
      /\ \A i \in 1..(Len(ages) - k) : kept[i] = ages[i + k]
  BY <1>1 DEF KeptFrom, AgeLists
<1>. HIDE DEF kept, old, new
<1>6. PICK a \in 0..Len(old) : KeptFrom(old, w, a, Fresh(old, w))
  BY <1>3, FreshIsSuffix
<1>7. PICK b \in 0..Len(new) : KeptFrom(new, w, b, Fresh(new, w))
  BY <1>4, FreshIsSuffix
<1>8. a \in Nat /\ b \in Nat /\ a <= Len(ages) /\ b <= Len(ages) - k
  BY <1>3, <1>4, <1>5
<1>9. ASSUME NEW j \in 1..(Len(ages) - k)
      PROVE  /\ j + k \in 1..Len(ages)
             /\ new[j] = old[j + k]
             /\ j > b <=> j + k > a
  <2>1. j + k \in 1..Len(ages) /\ j \in 1..Len(kept) /\ j \in 1..Len(new)
        /\ j + k \in 1..Len(old)
    BY <1>3, <1>4, <1>5
  <2>2. new[j] = Older(ages[j + k], w) /\ old[j + k] = Older(ages[j + k], w)
    BY <1>3, <1>4, <1>5, <2>1
  <2>3. new[j] < w <=> j > b
    BY <1>7, <2>1 DEF KeptFrom
  <2>4. old[j + k] < w <=> j + k > a
    BY <1>6, <2>1 DEF KeptFrom
  <2> QED
    BY <2>1, <2>2, <2>3, <2>4
<1>10. a >= k
  <2>1. CASE k = 0
    BY <1>8, <2>1
  <2>2. CASE k # 0
    <3>1. k \in 1..Len(ages) /\ k \in 1..Len(old) /\ ~(k > k)
      BY <1>3, <1>5, <2>2
    <3>2. ~(ages[k] < w) /\ old[k] = Older(ages[k], w) /\ ages[k] \in Nat
      BY <1>3, <1>5, <3>1
    <3>3. ~(old[k] < w)
      BY <3>2 DEF Older
    <3>4. ~(k > a)
      BY <1>6, <3>1, <3>3 DEF KeptFrom
    <3> QED
      BY <1>5, <1>8, <3>4
  <2> QED
    BY <2>1, <2>2
<1>11. b = a - k
  <2>1. ASSUME b < a - k PROVE FALSE
    <3>1. a - k \in 1..(Len(ages) - k) /\ a - k > b /\ ~((a - k) + k > a)
      BY <1>5, <1>8, <1>10, <2>1
    <3> QED
      BY <1>9, <3>1
  <2>2. ASSUME b > a - k PROVE FALSE
    <3>1. b \in 1..(Len(ages) - k) /\ b + k > a /\ ~(b > b)
      BY <1>5, <1>8, <1>10, <2>2
    <3> QED
      BY <1>9, <3>1
  <2> QED
    BY <1>5, <1>8, <1>10, <2>1, <2>2
<1>. DEFINE m == Len(ages) - a
<1>12. m \in Nat /\ Len(new) - b = m /\ Len(old) - a = m
  BY <1>3, <1>4, <1>5, <1>8, <1>11
<1>13. /\ Fresh(old, w) \in Seq(Nat) /\ Len(Fresh(old, w)) = m
       /\ \A i \in 1..m : Fresh(old, w)[i] = old[i + a]
  BY <1>6, <1>12 DEF KeptFrom
<1>14. /\ Fresh(new, w) \in Seq(Nat) /\ Len(Fresh(new, w)) = m
       /\ \A i \in 1..m : Fresh(new, w)[i] = new[i + b]
  BY <1>7, <1>12 DEF KeptFrom
<1>15. ASSUME NEW i \in 1..m PROVE new[i + b] = old[i + a]
  <2>1. i + b \in 1..(Len(ages) - k) /\ (i + b) + k = i + a
    BY <1>5, <1>8, <1>10, <1>11
  <2>2. new[i + b] = old[(i + b) + k]
    BY <1>9, <2>1
  <2> QED
    BY <2>1, <2>2
<1>. HIDE DEF m
<1>16. Fresh(old, w) = Fresh(new, w)
  BY <1>13, <1>14, <1>15, SameSequence
<1> QED
  BY <1>16 DEF old, new, kept

-----------------------------------------------------------------------------
(* The tables of both limiters, of addresses and their lists.              *)

\* Never are more requests kept than the limit allows.
TableInv(table, limit, w) ==
    /\ IsDict(table, Address, AgeLists)
    /\ \A a \in Address : Len(Fresh(AgesOf(table, a), w)) <= limit

\* What the sliding window sees of a table.
View(table, w) == [a \in Address |-> Fresh(AgesOf(table, a), w)]

LEMMA LookedUp ==
    ASSUME NEW table, IsDict(table, Address, AgeLists), NEW a
    PROVE  AgesOf(table, a) \in AgeLists
<1>1. table \in [DOMAIN table -> AgeLists]
  BY DEF IsDict
<1>2. <<>> \in AgeLists
  BY DEF AgeLists, InOrder
<1> QED
  BY <1>1, <1>2 DEF AgesOf

LEMMA PutList ==
    ASSUME NEW table, IsDict(table, Address, AgeLists), NEW a \in Address,
           NEW ages \in AgeLists, NEW new, new = Put(table, a, ages)
    PROVE  /\ IsDict(new, Address, AgeLists)
           /\ AgesOf(new, a) = ages
           /\ \A b : b # a => AgesOf(new, b) = AgesOf(table, b)
<1>1. table \in [DOMAIN table -> AgeLists] /\ DOMAIN table \subseteq Address
  BY DEF IsDict
<1>2. new = [x \in DOMAIN table \cup {a} |-> IF x = a THEN ages ELSE table[x]]
  BY DEF Put
<1>3. /\ DOMAIN new = DOMAIN table \cup {a} /\ new[a] = ages
      /\ \A b \in DOMAIN table : b # a => new[b] = table[b]
  BY <1>2
<1>4. new \in [DOMAIN new -> AgeLists]
  BY <1>1, <1>2, <1>3
<1> QED
  BY <1>1, <1>3, <1>4 DEF IsDict, AgesOf

\* A request that is refused leaves its list cut, which nobody sees.
LEMMA RefusedTable ==
    ASSUME NEW limit \in Nat, NEW w \in Nat, NEW table, TableInv(table, limit, w),
           NEW a \in Address, NEW new,
           new = Put(table, a, Fresh(AgesOf(table, a), w))
    PROVE  TableInv(new, limit, w) /\ View(new, w) = View(table, w)
<1>. DEFINE kept == Fresh(AgesOf(table, a), w)
<1>1. IsDict(table, Address, AgeLists)
  BY DEF TableInv
<1>2. kept \in AgeLists /\ Fresh(kept, w) = kept
  BY <1>1, LookedUp, KeptInOrder, AllFresh
<1>3. /\ IsDict(new, Address, AgeLists) /\ AgesOf(new, a) = kept
      /\ \A b : b # a => AgesOf(new, b) = AgesOf(table, b)
  BY <1>1, <1>2, PutList
<1>4. \A b \in Address : Fresh(AgesOf(new, b), w) = Fresh(AgesOf(table, b), w)
  BY <1>2, <1>3
<1> QED
  BY <1>3, <1>4, Zenon DEF TableInv, View

\* One that is let through is added; with a window of no length it is forgotten
\* at once.
LEMMA AdmittedTable ==
    ASSUME NEW limit \in Nat, NEW w \in Nat, NEW table, TableInv(table, limit, w),
           NEW a \in Address, NEW new,
           Len(Fresh(AgesOf(table, a), w)) < limit,
           new = Put(table, a, Append(Fresh(AgesOf(table, a), w), 0))
    PROVE  /\ TableInv(new, limit, w)
           /\ \/ View(new, w) = View(table, w)
              \/ View(new, w) = [View(table, w) EXCEPT ![a] = Append(@, 0)]
<1>. DEFINE kept == Fresh(AgesOf(table, a), w)
            longer == Append(kept, 0)
<1>1. IsDict(table, Address, AgeLists)
  BY DEF TableInv
<1>2. kept \in AgeLists /\ \A i \in 1..Len(kept) : kept[i] < w
  BY <1>1, LookedUp, KeptInOrder
<1>3. /\ longer \in AgeLists /\ Len(longer) = Len(kept) + 1 /\ Len(kept) \in Nat
      /\ \A i \in 1..Len(kept) : longer[i] = kept[i]
      /\ longer[Len(kept) + 1] = 0
  BY <1>2, AppendNow DEF AgeLists
<1>4. /\ IsDict(new, Address, AgeLists) /\ AgesOf(new, a) = longer
      /\ \A b : b # a => AgesOf(new, b) = AgesOf(table, b)
  <2>1. new = Put(table, a, longer)
    OBVIOUS
  <2>. HIDE DEF longer, kept
  <2> QED
    BY <1>1, <1>3, <2>1, PutList
<1>5. Len(kept) + 1 <= limit
  BY <1>3
<1>6. CASE w > 0
  <2>1. \A i \in 1..Len(longer) : longer[i] < w
    BY <1>2, <1>3, <1>6
  <2>2. Fresh(longer, w) = longer
    BY <1>3, <2>1, AllFresh
  <2>3. TableInv(new, limit, w)
    <3>1. ASSUME NEW b \in Address PROVE Len(Fresh(AgesOf(new, b), w)) <= limit
      <4>1. CASE b = a
        BY <1>3, <1>4, <1>5, <2>2, <4>1
      <4>2. CASE b # a
        BY <1>4, <4>2 DEF TableInv
      <4> QED
        BY <4>1, <4>2
    <3> QED
      BY <1>4, <3>1 DEF TableInv
  <2>4. View(new, w) = [View(table, w) EXCEPT ![a] = Append(@, 0)]
    <3>1. View(table, w)[a] = kept
      BY DEF View
    <3>2. [View(table, w) EXCEPT ![a] = Append(@, 0)]
            = [b \in Address |-> IF b = a THEN longer ELSE Fresh(AgesOf(table, b), w)]
      BY <3>1 DEF View
    <3>. HIDE DEF longer, kept
    <3>3. \A b \in Address : Fresh(AgesOf(new, b), w)
                               = IF b = a THEN longer ELSE Fresh(AgesOf(table, b), w)
      BY <1>4, <2>2
    <3> QED
      BY <3>2, <3>3, Zenon DEF View
  <2> QED
    BY <2>3, <2>4
<1>7. CASE w = 0
  <2>1. \A ages \in AgeLists : Fresh(ages, w) = <<>>
    <3> SUFFICES ASSUME NEW ages \in AgeLists PROVE Fresh(ages, w) = <<>>
      OBVIOUS
    <3>1. \A i \in 1..Len(ages) : ages[i] >= w
      BY <1>7 DEF AgeLists
    <3> QED
      BY <3>1, NoneFresh
  <2>2. \A b \in Address : /\ Fresh(AgesOf(new, b), w) = <<>>
                           /\ Fresh(AgesOf(table, b), w) = <<>>
    BY <1>1, <1>4, <2>1, LookedUp
  <2>3. View(new, w) = View(table, w)
    BY <2>2, Zenon DEF View
  <2> QED
    BY <1>4, <2>2, <2>3 DEF TableInv
<1> QED
  BY <1>6, <1>7

\* Keys that are pruned have nothing left to be seen.
LEMMA PrunedTable ==
    ASSUME NEW limit \in Nat, NEW table, TableInv(table, limit, WindowSeconds),
           WindowSeconds \in Nat, NEW new, new = Pruned(table)
    PROVE  /\ TableInv(new, limit, WindowSeconds)
           /\ View(new, WindowSeconds) = View(table, WindowSeconds)
<1>1. CASE new = table
  BY <1>1
<1>2. CASE new = [a \in {b \in DOMAIN table : ~Stale(table[b])} |-> table[a]]
  <2>1. table \in [DOMAIN table -> AgeLists] /\ DOMAIN table \subseteq Address
        /\ IsDict(table, Address, AgeLists)
    BY DEF TableInv, IsDict
  <2>2. /\ DOMAIN new = {b \in DOMAIN table : ~Stale(table[b])}
        /\ \A b \in DOMAIN new : new[b] = table[b]
    BY <1>2
  <2>3. IsDict(new, Address, AgeLists)
    BY <1>2, <2>1, <2>2 DEF IsDict
  <2>4. ASSUME NEW a \in Address
        PROVE  Fresh(AgesOf(new, a), WindowSeconds) = Fresh(AgesOf(table, a), WindowSeconds)
    <3>1. CASE a \in DOMAIN table /\ Stale(table[a])
      <4>1. a \notin DOMAIN new
        BY <2>2, <3>1
      <4>2. table[a] \in AgeLists /\ \A i \in 1..Len(table[a]) : table[a][i] >= WindowSeconds
        BY <2>1, <3>1 DEF Stale, AgeLists
      <4>3. Fresh(table[a], WindowSeconds) = <<>>
        BY <4>2, NoneFresh
      <4> QED
        BY <3>1, <4>1, <4>3, NothingIsFresh DEF AgesOf
    <3>2. CASE ~(a \in DOMAIN table /\ Stale(table[a]))
      BY <2>2, <3>2 DEF AgesOf
    <3> QED
      BY <3>1, <3>2
  <2> QED
    BY <2>3, <2>4, Zenon DEF TableInv, View
<1> QED
  BY <1>1, <1>2 DEF Pruned

\* A tick cuts all that is seen.
LEMMA AgedTable ==
    ASSUME NEW limit \in Nat, NEW w \in Nat, NEW table, TableInv(table, limit, w),
           NEW new, new = [a \in DOMAIN table |-> Aged(table[a], w)]
    PROVE  /\ TableInv(new, limit, w)
           /\ View(new, w) = [a \in Address |-> Fresh(Aged(View(table, w)[a], w), w)]
<1>1. table \in [DOMAIN table -> AgeLists] /\ DOMAIN table \subseteq Address
      /\ IsDict(table, Address, AgeLists)
  BY DEF TableInv, IsDict
<1>2. IsDict(new, Address, AgeLists)
  BY <1>1, AgedFacts DEF IsDict
<1>3. Aged(<<>>, w) = <<>>
  <2>1. Aged(<<>>, w) \in Seq(Nat) /\ <<>> \in Seq(Nat)
        /\ Len(Aged(<<>>, w)) = 0 /\ Len(<<>>) = 0
    BY AgedFacts, NothingIsFresh DEF AgeLists
  <2>2. \A i \in 1..Len(Aged(<<>>, w)) : Aged(<<>>, w)[i] = <<>>[i]
    BY <2>1
  <2> QED
    BY <2>1, <2>2, SameSequence
<1>4. ASSUME NEW a \in Address
      PROVE  /\ Fresh(AgesOf(new, a), w) = Fresh(Aged(View(table, w)[a], w), w)
             /\ Len(Fresh(AgesOf(new, a), w)) <= limit
  <2>. DEFINE ages == AgesOf(table, a)
              kept == Fresh(ages, w)
              old == Aged(kept, w)
  <2>1. ages \in AgeLists
    BY <1>1, LookedUp
  <2>2. AgesOf(new, a) = Aged(ages, w)
    BY <1>3 DEF AgesOf
  <2>3. View(table, w)[a] = kept
    BY DEF View
  <2>4. kept \in AgeLists /\ Len(kept) <= limit
    BY <2>1, KeptInOrder DEF TableInv
  <2>5. old \in AgeLists /\ Len(old) = Len(kept)
    BY <2>4, AgedFacts
  <2>6. Len(Fresh(old, w)) <= Len(old)
    <3>. HIDE DEF old
    <3>1. PICK k \in 0..Len(old) : KeptFrom(old, w, k, Fresh(old, w))
      BY <2>5, FreshIsSuffix
    <3> QED
      BY <2>5, <3>1 DEF KeptFrom, AgeLists
  <2>7. Fresh(AgesOf(new, a), w) = Fresh(old, w)
    BY <2>1, <2>2, AgedThenFresh
  <2>8. Len(Fresh(old, w)) \in Nat /\ Len(old) \in Nat
    BY <2>5, KeptInOrder DEF AgeLists
  <2>. HIDE DEF old, kept, ages
  <2> QED
    BY <2>3, <2>4, <2>5, <2>6, <2>7, <2>8 DEF old
<1>5. View(new, w) = [a \in Address |-> Fresh(Aged(View(table, w)[a], w), w)]
  BY <1>4, Zenon DEF View
<1> QED
  BY <1>2, <1>4, <1>5 DEF TableInv

LEMMA EmptyTable ==
    ASSUME NEW limit \in Nat, NEW w \in Nat
    PROVE  /\ TableInv(EmptyDict, limit, w)
           /\ View(EmptyDict, w) = [a \in Address |-> <<>>]
<1>1. DOMAIN EmptyDict = {} /\ EmptyDict = [k \in {} |-> k]
  BY DEF EmptyDict
<1>2. IsDict(EmptyDict, Address, AgeLists)
  BY <1>1 DEF IsDict
<1>3. \A a \in Address : Fresh(AgesOf(EmptyDict, a), w) = <<>>
  BY <1>1, NothingIsFresh DEF AgesOf
<1> QED
  BY <1>2, <1>3 DEF TableInv, View

-----------------------------------------------------------------------------
(* Both limiters implement the sliding window.                             *)

FrontInv ==
    /\ TableInv(rateCounts, RATE_LIMIT, RATE_WINDOW)
    /\ TableInv(requests, MaxRequests, WindowSeconds)

\* What one limiter may do to its table and to whom its answer was a 429: one
\* of the steps of a sliding window, each with the table it leaves behind.
WindowStep(table, new, limit, w, refusal) ==
    \/ /\ View(new, w) = View(table, w)
       /\ refusal = {}
    \/ \E a \in Address :
         /\ Len(View(table, w)[a]) < limit
         /\ View(new, w) = [View(table, w) EXCEPT ![a] = Append(@, 0)]
         /\ refusal = {}
    \/ \E a \in Address :
         /\ Len(View(table, w)[a]) = limit
         /\ View(new, w) = View(table, w)
         /\ refusal = {a}
    \/ /\ View(new, w) = [a \in Address |-> Fresh(Aged(View(table, w)[a], w), w)]
       /\ refusal = {}
    \/ /\ View(new, w) = [a \in Address |-> <<>>]
       /\ refusal = {}

LEMMA NobodyIsRefused ==
    refused' = Nobody => RefusedBy("front")' = {} /\ RefusedBy("route")' = {}
BY DEF Nobody, RefusedBy

LEMMA FrontInvInit ==
    FrontInit =>
        /\ FrontInv
        /\ View(rateCounts, RATE_WINDOW) = [a \in Address |-> <<>>]
        /\ View(requests, WindowSeconds) = [a \in Address |-> <<>>]
        /\ RefusedBy("front") = {} /\ RefusedBy("route") = {}
BY FrontAssumption, EmptyTable DEF FrontInit, FrontInv, Nobody, RefusedBy

LEMMA FrontStep ==
    ASSUME FrontInv, FrontNext
    PROVE  /\ FrontInv'
           /\ WindowStep(rateCounts, rateCounts', RATE_LIMIT, RATE_WINDOW, RefusedBy("front")')
           /\ WindowStep(requests, requests', MaxRequests, WindowSeconds, RefusedBy("route")')
<1>. DEFINE Front == WindowStep(rateCounts, rateCounts', RATE_LIMIT, RATE_WINDOW,
                                RefusedBy("front")')
            Route == WindowStep(requests, requests', MaxRequests, WindowSeconds,
                                RefusedBy("route")')
            FrontKept == TableInv(rateCounts', RATE_LIMIT, RATE_WINDOW)
            RouteKept == TableInv(requests', MaxRequests, WindowSeconds)
<1>0. /\ TableInv(rateCounts, RATE_LIMIT, RATE_WINDOW)
      /\ TableInv(requests, MaxRequests, WindowSeconds)
      /\ RATE_LIMIT \in Nat /\ RATE_WINDOW \in Nat /\ MaxRequests \in Nat /\ WindowSeconds \in Nat
  BY FrontAssumption DEF FrontInv
<1>1. ASSUME UNCHANGED rateCounts, RefusedBy("front")' = {} PROVE FrontKept /\ Front
  BY <1>0, <1>1 DEF WindowStep
<1>2. ASSUME UNCHANGED requests, RefusedBy("route")' = {} PROVE RouteKept /\ Route
  BY <1>0, <1>2 DEF WindowStep
<1>3. FrontKept /\ RouteKept => FrontInv'
  BY DEF FrontInv
<1>4. \A a \in Address : /\ Len(View(rateCounts, RATE_WINDOW)[a]) \in Nat
                         /\ Len(View(rateCounts, RATE_WINDOW)[a]) <= RATE_LIMIT
                         /\ Len(View(requests, WindowSeconds)[a]) \in Nat
                         /\ Len(View(requests, WindowSeconds)[a]) <= MaxRequests
  <2> SUFFICES ASSUME NEW a \in Address
               PROVE  /\ Len(View(rateCounts, RATE_WINDOW)[a]) \in Nat
                      /\ Len(View(rateCounts, RATE_WINDOW)[a]) <= RATE_LIMIT
                      /\ Len(View(requests, WindowSeconds)[a]) \in Nat
                      /\ Len(View(requests, WindowSeconds)[a]) <= MaxRequests
    OBVIOUS
  <2>1. /\ View(rateCounts, RATE_WINDOW)[a] = Fresh(AgesOf(rateCounts, a), RATE_WINDOW)
        /\ View(requests, WindowSeconds)[a] = Fresh(AgesOf(requests, a), WindowSeconds)
    BY DEF View
  <2>2. /\ Fresh(AgesOf(rateCounts, a), RATE_WINDOW) \in AgeLists
        /\ Fresh(AgesOf(requests, a), WindowSeconds) \in AgeLists
    BY <1>0, LookedUp, KeptInOrder DEF TableInv
  <2> QED
    BY <1>0, <2>1, <2>2 DEF TableInv, AgeLists
<1>. HIDE DEF Front, Route, FrontKept, RouteKept
<1>5. ASSUME NEW a \in Address, NEW r \in Request, Block(a, r)
      PROVE  FrontKept /\ Front /\ RouteKept /\ Route
  BY <1>1, <1>2, <1>5, NobodyIsRefused DEF Block
<1>6. ASSUME NEW a \in Address, NEW r \in Request, RefuseInFront(a, r)
      PROVE  FrontKept /\ Front /\ RouteKept /\ Route
  <2>1. /\ Len(Recent(a)) >= RATE_LIMIT /\ rateCounts' = Put(rateCounts, a, Recent(a))
        /\ requests' = requests /\ refused' = Refusal("front", a)
        /\ Recent(a) = Fresh(AgesOf(rateCounts, a), RATE_WINDOW)
    BY <1>6 DEF RefuseInFront, Recent
  <2>2. RefusedBy("front")' = {a} /\ RefusedBy("route")' = {}
    BY <2>1 DEF Refusal, RefusedBy
  <2>3. FrontKept /\ View(rateCounts', RATE_WINDOW) = View(rateCounts, RATE_WINDOW)
    BY <1>0, <2>1, RefusedTable DEF FrontKept
  <2>4. View(rateCounts, RATE_WINDOW)[a] = Recent(a)
    BY <2>1 DEF View
  <2>5. Len(View(rateCounts, RATE_WINDOW)[a]) = RATE_LIMIT
    BY <1>0, <1>4, <2>1, <2>4
  <2> QED
    BY <1>2, <2>1, <2>2, <2>3, <2>5 DEF Front, WindowStep
<1>7. ASSUME NEW a \in Address, NEW r \in Request, Pass(a, r)
      PROVE  FrontKept /\ Front /\ RouteKept /\ Route
  <2>1. /\ Len(Recent(a)) < RATE_LIMIT /\ requests' = requests /\ refused' = Nobody
        /\ rateCounts' = Put(rateCounts, a, Append(Recent(a), 0))
        /\ Recent(a) = Fresh(AgesOf(rateCounts, a), RATE_WINDOW)
    BY <1>7 DEF Pass, Recent
  <2>2. /\ FrontKept
        /\ \/ View(rateCounts', RATE_WINDOW) = View(rateCounts, RATE_WINDOW)
           \/ View(rateCounts', RATE_WINDOW)
                = [View(rateCounts, RATE_WINDOW) EXCEPT ![a] = Append(@, 0)]
    BY <1>0, <2>1, AdmittedTable DEF FrontKept
  <2>3. View(rateCounts, RATE_WINDOW)[a] = Recent(a)
    BY <2>1 DEF View
  <2> QED
    BY <1>2, <2>1, <2>2, <2>3, NobodyIsRefused DEF Front, WindowStep
<1>8. ASSUME NEW a \in Address, NEW r \in Request, PassUndefended(a, r)
      PROVE  FrontKept /\ Front /\ RouteKept /\ Route
  BY <1>1, <1>2, <1>8, NobodyIsRefused DEF PassUndefended
<1>9. ASSUME NEW a \in Address, RefuseOnRoute(a)
      PROVE  FrontKept /\ Front /\ RouteKept /\ Route
  <2>1. /\ Len(RecentOnRoute(a)) >= MaxRequests
        /\ requests' = Put(requests, a, RecentOnRoute(a))
        /\ rateCounts' = rateCounts /\ refused' = Refusal("route", a)
        /\ RecentOnRoute(a) = Fresh(AgesOf(requests, a), WindowSeconds)
    BY <1>9 DEF RefuseOnRoute, RecentOnRoute
  <2>2. RefusedBy("route")' = {a} /\ RefusedBy("front")' = {}
    BY <2>1 DEF Refusal, RefusedBy
  <2>3. RouteKept /\ View(requests', WindowSeconds) = View(requests, WindowSeconds)
    BY <1>0, <2>1, RefusedTable DEF RouteKept
  <2>4. View(requests, WindowSeconds)[a] = RecentOnRoute(a)
    BY <2>1 DEF View
  <2>5. Len(View(requests, WindowSeconds)[a]) = MaxRequests
    BY <1>0, <1>4, <2>1, <2>4
  <2> QED
    BY <1>1, <2>1, <2>2, <2>3, <2>5 DEF Route, WindowStep
<1>10. ASSUME NEW a \in Address, Serve(a)
       PROVE  FrontKept /\ Front /\ RouteKept /\ Route
  <2>1. /\ Len(RecentOnRoute(a)) < MaxRequests /\ rateCounts' = rateCounts /\ refused' = Nobody
        /\ requests' = Pruned(Put(requests, a, Append(RecentOnRoute(a), 0)))
        /\ RecentOnRoute(a) = Fresh(AgesOf(requests, a), WindowSeconds)
    BY <1>10 DEF Serve, RecentOnRoute
  <2>2. PICK longer : longer = Put(requests, a, Append(RecentOnRoute(a), 0))
    OBVIOUS
  <2>3. /\ TableInv(longer, MaxRequests, WindowSeconds)
        /\ \/ View(longer, WindowSeconds) = View(requests, WindowSeconds)
           \/ View(longer, WindowSeconds)
                = [View(requests, WindowSeconds) EXCEPT ![a] = Append(@, 0)]
    BY <1>0, <2>1, <2>2, AdmittedTable
  <2>4. RouteKept /\ View(requests', WindowSeconds) = View(longer, WindowSeconds)
    BY <1>0, <2>1, <2>2, <2>3, PrunedTable DEF RouteKept
  <2>5. View(requests, WindowSeconds)[a] = RecentOnRoute(a)
    BY <2>1 DEF View
  <2> QED
    BY <1>1, <2>1, <2>3, <2>4, <2>5, NobodyIsRefused DEF Route, WindowStep
<1>11. ASSUME Wipe PROVE FrontKept /\ Front /\ RouteKept /\ Route
  BY <1>1, <1>2, <1>11, NobodyIsRefused DEF Wipe
<1>12. ASSUME Restart PROVE FrontKept /\ Front /\ RouteKept /\ Route
  BY <1>0, <1>12, NobodyIsRefused, EmptyTable
     DEF Restart, Front, Route, FrontKept, RouteKept, WindowStep
<1>13. ASSUME Tick PROVE FrontKept /\ Front /\ RouteKept /\ Route
  <2>1. /\ rateCounts' = [a \in DOMAIN rateCounts |-> Aged(rateCounts[a], RATE_WINDOW)]
        /\ requests' = [a \in DOMAIN requests |-> Aged(requests[a], WindowSeconds)]
        /\ refused' = Nobody
    BY <1>13 DEF Tick
  <2>2. /\ FrontKept
        /\ View(rateCounts', RATE_WINDOW)
             = [a \in Address |-> Fresh(Aged(View(rateCounts, RATE_WINDOW)[a], RATE_WINDOW),
                                        RATE_WINDOW)]
    BY <1>0, <2>1, AgedTable DEF FrontKept
  <2>3. /\ RouteKept
        /\ View(requests', WindowSeconds)
             = [a \in Address |-> Fresh(Aged(View(requests, WindowSeconds)[a], WindowSeconds),
                                        WindowSeconds)]
    BY <1>0, <2>1, AgedTable DEF RouteKept
  <2> QED
    BY <2>1, <2>2, <2>3, NobodyIsRefused DEF Front, Route, WindowStep
<1>14. FrontKept /\ Front /\ RouteKept /\ Route
  BY <1>5, <1>6, <1>7, <1>8, <1>9, <1>10, <1>11, <1>12, <1>13 DEF FrontNext
<1> QED
  BY <1>3, <1>14 DEF Front, Route

\* The steps of a sliding window, in terms of its own specification.
LEMMA FrontWindowStep ==
    WindowStep(rateCounts, rateCounts', RATE_LIMIT, RATE_WINDOW, RefusedBy("front")')
        => FrontWindow!Next
<1>. DEFINE v == View(rateCounts, RATE_WINDOW)
            new == View(rateCounts, RATE_WINDOW)'
            ref == RefusedBy("front")'
<1>1. /\ FrontWindow!Elsewhere <=> ref = {} /\ new = v
      /\ FrontWindow!Forget <=> new = [a \in Address |-> <<>>] /\ ref = {}
      /\ \A a \in Address :
           /\ FrontWindow!Admit(a) <=>
                Len(v[a]) < RATE_LIMIT /\ new = [v EXCEPT ![a] = Append(@, 0)] /\ ref = {}
           /\ FrontWindow!Refuse(a) <=> Len(v[a]) = RATE_LIMIT /\ ref = {a} /\ new = v
  BY DEF FrontWindow!Elsewhere, FrontWindow!Forget, FrontWindow!Init, FrontWindow!Admit,
         FrontWindow!Refuse, View
<1>2. FrontWindow!Tick <=>
        new = [a \in Address |-> Fresh(Aged(v[a], RATE_WINDOW), RATE_WINDOW)] /\ ref = {}
  BY DEF FrontWindow!Tick, View, FrontWindow!Fresh, FrontWindow!Aged, Fresh, Aged
<1>3. View(rateCounts', RATE_WINDOW) = new
  BY DEF View
<1>. HIDE DEF v, new, ref
<1> QED
  BY <1>1, <1>2, <1>3 DEF WindowStep, FrontWindow!Next, v, ref

LEMMA RouteWindowStep ==
    WindowStep(requests, requests', MaxRequests, WindowSeconds, RefusedBy("route")')
        => RouteWindow!Next
<1>. DEFINE v == View(requests, WindowSeconds)
            new == View(requests, WindowSeconds)'
            ref == RefusedBy("route")'
<1>1. /\ RouteWindow!Elsewhere <=> ref = {} /\ new = v
      /\ RouteWindow!Forget <=> new = [a \in Address |-> <<>>] /\ ref = {}
      /\ \A a \in Address :
           /\ RouteWindow!Admit(a) <=>
                Len(v[a]) < MaxRequests /\ new = [v EXCEPT ![a] = Append(@, 0)] /\ ref = {}
           /\ RouteWindow!Refuse(a) <=> Len(v[a]) = MaxRequests /\ ref = {a} /\ new = v
  BY DEF RouteWindow!Elsewhere, RouteWindow!Forget, RouteWindow!Init, RouteWindow!Admit,
         RouteWindow!Refuse, View
<1>2. RouteWindow!Tick <=>
        new = [a \in Address |-> Fresh(Aged(v[a], WindowSeconds), WindowSeconds)] /\ ref = {}
  BY DEF RouteWindow!Tick, View, RouteWindow!Fresh, RouteWindow!Aged, Fresh, Aged
<1>3. View(requests', WindowSeconds) = new
  BY DEF View
<1>. HIDE DEF v, new, ref
<1> QED
  BY <1>1, <1>2, <1>3 DEF WindowStep, RouteWindow!Next, v, ref

(* The lists that the two limiters cut when they look at them, the keys    *)
(* that are pruned and the restart that forgets all amount to two sliding  *)
(* windows: nobody is let through beyond the limit, and nobody is refused  *)
(* below it (_check_rate_limit of backend/cpip_provider.py and             *)
(* RateLimiter.check of backend/rate_limiter.py).                          *)
THEOREM LimitersImplementWindows == FrontSpec => LimitersAreWindows
<1>1. FrontInit => FrontInv /\ FrontWindow!Init /\ RouteWindow!Init
  BY FrontInvInit DEF FrontWindow!Init, RouteWindow!Init, View
<1>2. FrontInv /\ [FrontNext]_frontVars => FrontInv'
  <2>1. FrontInv /\ UNCHANGED frontVars => FrontInv'
    BY DEF frontVars, FrontInv
  <2> QED
    BY <2>1, FrontStep
<1>3. FrontInv /\ [FrontNext]_frontVars
        => /\ [FrontWindow!Next]_<<[a \in Address |-> Fresh(AgesOf(rateCounts, a), RATE_WINDOW)],
                                   RefusedBy("front")>>
           /\ [RouteWindow!Next]_<<[a \in Address |-> Fresh(AgesOf(requests, a), WindowSeconds)],
                                   RefusedBy("route")>>
  <2>1. FrontInv /\ FrontNext => FrontWindow!Next /\ RouteWindow!Next
    BY FrontStep, FrontWindowStep, RouteWindowStep
  <2>2. UNCHANGED frontVars =>
          UNCHANGED <<[a \in Address |-> Fresh(AgesOf(rateCounts, a), RATE_WINDOW)],
                      RefusedBy("front"),
                      [a \in Address |-> Fresh(AgesOf(requests, a), WindowSeconds)],
                      RefusedBy("route")>>
    BY DEF frontVars, RefusedBy
  <2> QED
    BY <2>1, <2>2
<1> QED
  BY <1>1, <1>2, <1>3, PTL
     DEF FrontSpec, LimitersAreWindows, FrontWindow!Spec, RouteWindow!Spec

-----------------------------------------------------------------------------
(* Terminals. *)

TerminalTypeOK ==
    /\ session \in [Client -> {"none", "open", "closing", "closed"}]
    /\ master_fd \in [Client -> Nat]
    /\ reader \in [Client -> {"none", "sleeping", "sending", "ended"}]
    /\ shown \in [Client -> SUBSET Client]

(* While a terminal is open its number leads to its own shell; after that  *)
(* its reader has either ended or was cancelled before the number was      *)
(* closed, and asks no more.                                               *)
TerminalInv ==
    /\ TerminalTypeOK
    /\ \A c \in Client : session[c] = "open" =>
          master_fd[c] \in DOMAIN master /\ master[master_fd[c]] = c
    /\ \A c \in Client : reader[c] \in {"sleeping", "sending"} =>
          session[c] = "open" \/ c \in cancelled
    /\ ReadsOwnShell

LEMMA PutDescriptor ==
    ASSUME NEW d, NEW e, NEW f, NEW v, e = Put(d, f, v)
    PROVE  /\ DOMAIN e = DOMAIN d \cup {f} /\ e[f] = v
           /\ \A x \in DOMAIN d \ {f} : e[x] = d[x]
BY DEF Put

LEMMA TerminalInitInv == TerminalInit => TerminalInv
BY DEF TerminalInit, TerminalInv, TerminalTypeOK, ReadsOwnShell

LEMMA ConnectStep == ASSUME TerminalInv, NEW c \in Client, Connect(c) PROVE TerminalInv'
<1>1. PICK f \in Descriptor : /\ LowestFree(f, DOMAIN master)
                              /\ master_fd' = [master_fd EXCEPT ![c] = f]
                              /\ master' = Put(master, f, c)
  BY DEF Connect
<1>2. f \in Nat /\ f \notin DOMAIN master
  BY <1>1 DEF LowestFree, Descriptor
<1>3. /\ session' = [session EXCEPT ![c] = "open"]
      /\ reader' = [reader EXCEPT ![c] = "sleeping"]
      /\ UNCHANGED <<cancelled, shown>>
  BY DEF Connect
<1>4. TerminalTypeOK'
  BY <1>1, <1>2, <1>3 DEF TerminalInv, TerminalTypeOK
<1>5. ASSUME NEW d \in Client, session'[d] = "open"
      PROVE  master_fd'[d] \in DOMAIN master' /\ master'[master_fd'[d]] = d
  <2>1. DOMAIN master' = DOMAIN master \cup {f} /\ master'[f] = c
        /\ \A x \in DOMAIN master \ {f} : master'[x] = master[x]
    <3>1. master' = Put(master, f, c)
      BY <1>1
    <3> QED BY <3>1 DEF Put
  <2>2. CASE d = c
    BY <1>1, <2>1, <2>2 DEF TerminalInv, TerminalTypeOK
  <2>3. CASE d # c
    <3>1. master_fd'[d] = master_fd[d] /\ session[d] = "open"
      BY <1>1, <1>3, <1>5, <2>3 DEF TerminalInv, TerminalTypeOK
    <3> QED BY <1>2, <2>1, <3>1 DEF TerminalInv
  <2> QED BY <2>2, <2>3
<1>6. \A d \in Client : reader'[d] \in {"sleeping", "sending"} =>
                          session'[d] = "open" \/ d \in cancelled'
  BY <1>3 DEF TerminalInv, TerminalTypeOK
<1> QED BY <1>3, <1>4, <1>5, <1>6 DEF TerminalInv, ReadsOwnShell

LEMMA ForkFailsStep == ASSUME TerminalInv, NEW c \in Client, ForkFails(c) PROVE TerminalInv'
<1>1. PICK f \in Descriptor, g \in Descriptor :
          /\ LowestFree(f, DOMAIN master) /\ LowestFree(g, DOMAIN master \cup {f})
          /\ master' = Put(Put(master, f, "nobody"), g, "nobody")
  BY DEF ForkFails
<1>2. f \notin DOMAIN master /\ g \notin DOMAIN master
  BY <1>1 DEF LowestFree
<1>3. /\ session[c] = "none" /\ session' = [session EXCEPT ![c] = "closed"]
      /\ UNCHANGED <<master_fd, reader, cancelled, shown>>
  BY DEF ForkFails
<1>4. \A x \in DOMAIN master : x \in DOMAIN master' /\ master'[x] = master[x]
  <2> DEFINE e == Put(master, f, "nobody")
  <2>1. DOMAIN e = DOMAIN master \cup {f} /\ \A x \in DOMAIN master \ {f} : e[x] = master[x]
    BY PutDescriptor
  <2>2. DOMAIN master' = DOMAIN e \cup {g} /\ \A x \in DOMAIN e \ {g} : master'[x] = e[x]
    <3>1. master' = Put(e, g, "nobody")
      BY <1>1
    <3> HIDE DEF e
    <3> QED BY <3>1, PutDescriptor
  <2> QED BY <1>2, <2>1, <2>2
<1>5. \A d \in Client : session'[d] = "open" => session[d] = "open"
  BY <1>3 DEF TerminalInv, TerminalTypeOK
<1>6. \A d \in Client : session[d] = "open" => session'[d] = "open"
  BY <1>3 DEF TerminalInv, TerminalTypeOK
<1>7. TerminalTypeOK'
  BY <1>3 DEF TerminalInv, TerminalTypeOK
<1> QED BY <1>3, <1>4, <1>5, <1>6, <1>7 DEF TerminalInv, ReadsOwnShell

LEMMA ReaderStep ==
    ASSUME TerminalInv, NEW c \in Client, ReaderWakes(c) \/ Sent(c) \/ ReaderCancelled(c)
    PROVE  TerminalInv'
<1>1. UNCHANGED <<session, master, master_fd>>
  BY DEF ReaderWakes, Sent, ReaderCancelled
<1>2. /\ \E r \in {"sleeping", "sending", "ended"} : reader' = [reader EXCEPT ![c] = r]
      /\ cancelled' = cancelled \/ (cancelled' = cancelled \ {c} /\ reader'[c] = "ended")
  BY DEF ReaderWakes, Sent, ReaderCancelled, TerminalInv, TerminalTypeOK
<1>3. c \in cancelled \/ session[c] = "open"
  BY DEF ReaderWakes, Sent, ReaderCancelled, TerminalInv
<1>4. \A d \in Client : reader'[d] \in {"sleeping", "sending"} =>
                          session'[d] = "open" \/ d \in cancelled'
  BY <1>1, <1>2, <1>3 DEF TerminalInv, TerminalTypeOK
<1>5. shown' \in [Client -> SUBSET Client] /\ \A d \in Client : shown'[d] \subseteq {d}
  <2>1. CASE UNCHANGED shown
    BY <2>1 DEF TerminalInv, TerminalTypeOK, ReadsOwnShell
  <2>2. CASE ReaderWakes(c) /\ ~UNCHANGED shown
    <3>1. /\ reader[c] = "sleeping" /\ c \notin cancelled
          /\ shown' = [shown EXCEPT ![c] = @ \cup {master[master_fd[c]]}]
      BY <2>2 DEF ReaderWakes
    <3>2. master[master_fd[c]] = c
      BY <3>1 DEF TerminalInv
    <3> QED BY <3>1, <3>2 DEF TerminalInv, TerminalTypeOK, ReadsOwnShell
  <2> QED BY <2>1, <2>2 DEF Sent, ReaderCancelled
<1>6. TerminalTypeOK'
  <2>1. reader' \in [Client -> {"none", "sleeping", "sending", "ended"}]
    <3>1. PICK r \in {"sleeping", "sending", "ended"} : reader' = [reader EXCEPT ![c] = r]
      BY <1>2
    <3> QED BY <3>1 DEF TerminalInv, TerminalTypeOK
  <2> QED BY <1>1, <1>5, <2>1 DEF TerminalInv, TerminalTypeOK
<1> QED BY <1>1, <1>4, <1>5, <1>6 DEF TerminalInv, ReadsOwnShell

LEMMA CloseStep == ASSUME TerminalInv, NEW c \in Client, Close(c) PROVE TerminalInv'
<1>1. /\ session[c] = "open" /\ session' = [session EXCEPT ![c] = "closing"]
      /\ cancelled' = IF reader[c] = "ended" THEN cancelled ELSE cancelled \cup {c}
      /\ master' = Drop(master, master_fd[c])
      /\ UNCHANGED <<master_fd, reader, shown>>
  BY DEF Close
<1>2. TerminalTypeOK'
  BY <1>1 DEF TerminalInv, TerminalTypeOK
<1>3. ASSUME NEW d \in Client, session'[d] = "open"
      PROVE  master_fd'[d] \in DOMAIN master' /\ master'[master_fd'[d]] = d
  <2>1. d # c /\ session[d] = "open"
    BY <1>1, <1>3 DEF TerminalInv, TerminalTypeOK
  <2>2. /\ master_fd[d] \in DOMAIN master /\ master[master_fd[d]] = d
        /\ master[master_fd[c]] = c
    BY <1>1, <2>1 DEF TerminalInv
  <2>3. master_fd[d] # master_fd[c]
    BY <2>1, <2>2
  <2>4. /\ DOMAIN master' = DOMAIN master \ {master_fd[c]}
        /\ \A x \in DOMAIN master' : master'[x] = master[x]
    <3>1. master' = Drop(master, master_fd[c])
      BY <1>1
    <3> QED BY <3>1 DEF Drop
  <2> QED BY <1>1, <2>2, <2>3, <2>4
<1>4. \A d \in Client : reader'[d] \in {"sleeping", "sending"} =>
                          session'[d] = "open" \/ d \in cancelled'
  BY <1>1 DEF TerminalInv, TerminalTypeOK
<1> QED BY <1>1, <1>2, <1>3, <1>4 DEF TerminalInv, ReadsOwnShell

LEMMA ShellStep ==
    ASSUME TerminalInv, NEW c \in Client, Deafen(c) \/ Waited(c) \/ ShellExits(c)
    PROVE  TerminalInv'
<1>1. UNCHANGED <<master, master_fd, reader, cancelled, shown>>
  BY DEF Deafen, Waited, ShellExits
<1>2. \/ UNCHANGED session
      \/ session[c] = "closing" /\ session' = [session EXCEPT ![c] = "closed"]
  BY DEF Deafen, Waited, ShellExits
<1>3. TerminalTypeOK'
  BY <1>1, <1>2 DEF TerminalInv, TerminalTypeOK
<1>4. \A d \in Client : session'[d] = "open" <=> session[d] = "open"
  BY <1>2 DEF TerminalInv, TerminalTypeOK
<1> QED BY <1>1, <1>3, <1>4 DEF TerminalInv, ReadsOwnShell

LEMMA TerminalStepInv == TerminalInv /\ [TerminalNext]_terminalVars => TerminalInv'
<1> SUFFICES ASSUME TerminalInv, [TerminalNext]_terminalVars PROVE TerminalInv'
  OBVIOUS
<1>1. CASE TerminalNext
  BY <1>1, ConnectStep, ForkFailsStep, ReaderStep, CloseStep, ShellStep DEF TerminalNext
<1>2. CASE UNCHANGED terminalVars
  BY <1>2 DEF terminalVars, TerminalInv, TerminalTypeOK, ReadsOwnShell
<1> QED BY <1>1, <1>2

(* However many terminals are opened and closed, and whatever numbers the  *)
(* system hands out again, a client only ever sees its own shell           *)
(* (backend/websocket/terminal.py).                                        *)
THEOREM OwnShellAlways == TerminalSpec => []ReadsOwnShell
<1>1. TerminalInv => ReadsOwnShell
  BY DEF TerminalInv
<1> QED BY <1>1, TerminalInitInv, TerminalStepInv, PTL DEF TerminalSpec
=============================================================================
