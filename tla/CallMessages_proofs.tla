---------------------------- MODULE CallMessages_proofs ----------------------------
(* Proofs about RecTypeChoice and CallMessages, for any configuration of rates,      *)
(* settings, threads, pool, places and queue capacities.                             *)
(*                                                                                   *)
(* What a recursive function computes is shown by induction; the theorems of the     *)
(* library that have an operator for the induction hypothesis are replaced by the    *)
(* least element of the set of its counterexamples.                                  *)
EXTENDS CallMessages, FiniteSetTheorems, TLAPS

-----------------------------------------------------------------------------
(* Induction over the naturals, for the complement of a set.                    *)

Smaller == {p \in Nat \X Nat : p[1] < p[2]}

LEMMA SmallerWellFounded == IsWellFoundedOn(Smaller, Nat)
BY NatLessThanWellFounded DEF OpToRel, Smaller

LEMMA Least ==
    ASSUME NEW T \in SUBSET Nat, T # {}
    PROVE  \E x \in T : \A y \in T : x <= y
<1>1. PICK x \in T : \A y \in T : ~ (<<y, x>> \in Smaller)
  BY SmallerWellFounded, WFMin, Zenon
<1>2. \A y \in T : ~ (y < x)
  BY <1>1 DEF Smaller
<1> QED
  BY <1>2

-----------------------------------------------------------------------------
(* RangeMax: the bounds of the intervals add the rates up.                      *)

Rated == rates \in Seq(Nat) \ {<<>>}

(* The first m bounds, as f.                                                    *)
Bounds(f, m) == /\ f \in [1 .. m -> Nat]
                /\ \A i \in 1 .. m : f[i] = IF i = 1 THEN rates[1] ELSE rates[i] + f[i - 1]

LEMMA BoundsExist ==
    ASSUME Rated
    PROVE  \E f : Bounds(f, Len(rates))
<1> DEFINE T == {m \in 0 .. Len(rates) : ~ \E f : Bounds(f, m)}
<1>1. Len(rates) \in Nat /\ \A i \in 1 .. Len(rates) : rates[i] \in Nat
  BY DEF Rated
<1> SUFFICES ASSUME T # {} PROVE FALSE
  BY <1>1
<1>2. PICK m \in T : \A k \in T : m <= k
  BY <1>1, Least, T \in SUBSET Nat
<1>3. m \in Nat /\ m <= Len(rates) /\ ~ \E f : Bounds(f, m)
  BY <1>1
<1>4. CASE m = 0
  <2>1. Bounds([i \in 1 .. 0 |-> 0], 0)
    BY DEF Bounds
  <2> QED
    BY <1>3, <1>4, <2>1
<1>5. CASE m > 0
  <2>1. m - 1 \in 0 .. Len(rates) /\ m - 1 \notin T
    BY <1>1, <1>2, <1>3, <1>5
  <2>2. PICK f : Bounds(f, m - 1)
    BY <2>1
  <2> DEFINE g == [i \in 1 .. m |-> IF i < m THEN f[i]
                                     ELSE IF m = 1 THEN rates[1] ELSE rates[m] + f[m - 1]]
  <2>3. \A i \in 1 .. m : i < m => f[i] \in Nat
    BY <1>3, <2>2 DEF Bounds
  <2>4. g \in [1 .. m -> Nat]
    BY <1>1, <1>3, <1>5, <2>3
  <2>5. \A i \in 1 .. m : g[i] = IF i = 1 THEN rates[1] ELSE rates[i] + g[i - 1]
    BY <1>3, <2>2 DEF Bounds
  <2> QED
    BY <1>3, <2>4, <2>5 DEF Bounds
<1> QED
  BY <1>3, <1>4, <1>5

LEMMA RangeMaxAdds ==
    ASSUME Rated
    PROVE  /\ RangeMax \in [Types -> Nat]
           /\ \A i \in Types : RangeMax[i] = IF i = 1 THEN rates[1] ELSE rates[i] + RangeMax[i - 1]
<1>1. Len(rates) \in Nat /\ \A i \in 1 .. Len(rates) : rates[i] \in Nat
  BY DEF Rated
<1>2. PICK f : Bounds(f, Len(rates))
  BY BoundsExist
<1>3. f = [i \in Types |-> IF i = 1 THEN rates[1] ELSE rates[i] + f[i - 1]]
  BY <1>2 DEF Bounds, Types
<1>4. RangeMax = [i \in Types |-> IF i = 1 THEN rates[1] ELSE rates[i] + RangeMax[i - 1]]
  BY <1>3, Zenon DEF RangeMax
<1>5. \A i \in Types : RangeMax[i] \in Nat
  <2> DEFINE T == {i \in Types : RangeMax[i] \notin Nat}
  <2> SUFFICES ASSUME T # {} PROVE FALSE
    OBVIOUS
  <2>1. PICK i \in T : \A k \in T : i <= k
    BY <1>1, Least, T \in SUBSET Nat DEF Types
  <2>2. i # 1 => i - 1 \in Types /\ i - 1 \notin T
    BY <1>1, <2>1 DEF Types
  <2>3. RangeMax[i] = IF i = 1 THEN rates[1] ELSE rates[i] + RangeMax[i - 1]
    BY <1>4
  <2> QED
    BY <1>1, <2>2, <2>3 DEF Types
<1> QED
  BY <1>4, <1>5

(* With rates that are all positive the bounds increase.                        *)
Positive == \A i \in Types : rates[i] > 0

LEMMA RangeMaxIncreases ==
    ASSUME Rated, Positive,
           NEW i \in Types, NEW j \in Types, i < j
    PROVE  RangeMax[i] < RangeMax[j]
<1> DEFINE T == {k \in Types : i < k /\ ~ (RangeMax[i] < RangeMax[k])}
<1>1. Len(rates) \in Nat /\ \A k \in Types : rates[k] \in Nat /\ rates[k] > 0
  BY DEF Rated, Positive, Types
<1> SUFFICES ASSUME T # {} PROVE FALSE
  OBVIOUS
<1>2. PICK k \in T : \A l \in T : k <= l
  BY <1>1, Least, T \in SUBSET Nat DEF Types
<1>3. k - 1 \in Types /\ k - 1 \notin T
  BY <1>1, <1>2 DEF Types
<1>4. i = k - 1 \/ RangeMax[i] < RangeMax[k - 1]
  BY <1>1, <1>3 DEF Types
<1>5. RangeMax[k] = rates[k] + RangeMax[k - 1] /\ RangeMax[k - 1] \in Nat /\ RangeMax[i] \in Nat
  BY <1>1, <1>2, <1>3, RangeMaxAdds DEF Types
<1> QED
  BY <1>1, <1>2, <1>4, <1>5

(* At most one interval holds a number.                                         *)
LEMMA DrawnType ==
    ASSUME Rated, Positive, NEW n \in Nat
    PROVE  /\ RandomRecType(n) \in Types
           /\ \A i \in Types : InRange(i, n) => RandomRecType(n) = i
           /\ (\A i \in Types : ~InRange(i, n)) => RandomRecType(n) = 1
<1>1. Len(rates) \in Nat /\ 1 \in Types
  BY DEF Rated, Types
<1>2. ASSUME NEW i \in Types, NEW j \in Types, InRange(i, n), InRange(j, n), i < j
      PROVE  FALSE
  <2>1. j - 1 \in Types /\ (i = j - 1 \/ i < j - 1) /\ j # 1
    BY <1>1, <1>2 DEF Types
  <2>2. RangeMax[i] <= RangeMax[j - 1] /\ RangeMax[i] \in Nat /\ RangeMax[j - 1] \in Nat
    BY <2>1, RangeMaxAdds, RangeMaxIncreases
  <2> QED
    BY <1>2, <2>1, <2>2 DEF InRange, RangeMin
<1>3. ASSUME NEW i \in Types, InRange(i, n)
      PROVE  RandomRecType(n) = i
  <2>1. \A j \in 1 .. i - 1 : ~InRange(j, n)
    BY <1>1, <1>2, <1>3 DEF Types
  <2>2. \A k \in Types : InRange(k, n) => k = i
    BY <1>1, <1>2, <1>3 DEF Types
  <2> QED
    BY <1>3, <2>1, <2>2 DEF RandomRecType
<1>4. (\A i \in Types : ~InRange(i, n)) => RandomRecType(n) = 1
  BY DEF RandomRecType
<1> QED
  BY <1>1, <1>3, <1>4

-----------------------------------------------------------------------------
(* The shares.  After c numbers a type but the first has those that lie between  *)
(* its bounds, and the first the others: all up to its own bound, which is one   *)
(* too many, and one at every bound that has been passed.                        *)

DrawTypeOK == /\ rates \in Configs
              /\ c \in 0 .. 100
              /\ recTypeCount \in [Types -> Nat]

Between(i) == IF c <= RangeMax[i - 1] THEN 0
              ELSE IF c <= RangeMax[i] THEN c - RangeMax[i - 1] - 1
              ELSE rates[i] - 1

OthersShare == \A i \in Types \ {1} : recTypeCount[i] = Between(i)

FirstShare == /\ c <= RangeMax[1] => recTypeCount[1] = c
              /\ \A i \in Types \ {1} :
                    RangeMax[i - 1] < c /\ c <= RangeMax[i] =>
                        recTypeCount[1] = RangeMax[1] + i - 1

SharesInv == /\ DrawTypeOK
             /\ Positive => OthersShare /\ FirstShare

LEMMA Configured == ASSUME rates \in Configs PROVE Rated
BY ConfigsAssumption DEF Rated

LEMMA SharesInit == Init => SharesInv
<1> SUFFICES ASSUME Init PROVE SharesInv
  OBVIOUS
<1>1. Rated
  BY Configured DEF Init
<1>2. Len(rates) \in Nat \ {0} /\ \A i \in Types : rates[i] \in Nat
  BY <1>1 DEF Rated, Types
<1>3. \A i \in Types : RangeMax[i] \in Nat
  BY <1>1, RangeMaxAdds
<1>4. DrawTypeOK
  BY DEF Init, DrawTypeOK
<1>5. OthersShare /\ FirstShare
  <2>1. \A i \in Types \ {1} : i - 1 \in Types
    BY <1>2 DEF Types
  <2>2. c = 0 /\ \A i \in Types \ {1} : ~ (RangeMax[i - 1] < c) /\ c <= RangeMax[i - 1]
    BY <1>3, <2>1 DEF Init
  <2>3. \A i \in Types \ {1} : Between(i) = 0
    BY <2>2 DEF Between
  <2>4. 1 \in Types
    BY <1>2 DEF Types
  <2> QED
    BY <2>2, <2>3, <2>4 DEF OthersShare, FirstShare, Init
<1> QED
  BY <1>4, <1>5 DEF SharesInv

(* The numbers that have no interval are those below the first, the bounds and  *)
(* those from the last bound on.                                                *)
LEMMA DrawCounts ==
    ASSUME DrawTypeOK, Draw
    PROVE  /\ Rated /\ Rated' /\ Types' = Types /\ RangeMax' = RangeMax
           /\ rates' = rates /\ c \in Nat /\ c < 100 /\ c' = c + 1
           /\ DOMAIN recTypeCount = Types
           /\ \A i \in Types : recTypeCount[i] \in Nat
           /\ recTypeCount' = [recTypeCount EXCEPT ![RandomRecType(c)] = @ + 1]
<1>1. rates' = rates
  BY DEF Draw
<1>2. Types' = Types /\ RangeMax' = RangeMax
  BY <1>1 DEF Types, RangeMax
<1> QED
  BY <1>1, <1>2, Configured DEF DrawTypeOK, Draw, Rated

LEMMA SharesStep == SharesInv /\ [Draw]_vars => SharesInv'
<1> SUFFICES ASSUME SharesInv, [Draw]_vars PROVE SharesInv'
  OBVIOUS
<1>1. CASE UNCHANGED vars
  <2>1. Types' = Types /\ RangeMax' = RangeMax
    BY <1>1 DEF vars, Types, RangeMax
  <2> QED
    BY <1>1, <2>1 DEF vars, SharesInv, DrawTypeOK, Positive, OthersShare, Between, FirstShare
<1>2. CASE Draw
  <2>1. /\ DrawTypeOK /\ Rated
        /\ Types' = Types /\ RangeMax' = RangeMax
        /\ rates' = rates /\ c \in Nat /\ c < 100 /\ c' = c + 1
        /\ DOMAIN recTypeCount = Types
        /\ \A i \in Types : recTypeCount[i] \in Nat
        /\ recTypeCount' = [recTypeCount EXCEPT ![RandomRecType(c)] = @ + 1]
    BY <1>2, DrawCounts DEF SharesInv
  <2>2. DrawTypeOK'
    <3>1. recTypeCount \in [Types -> Nat]
      BY <2>1 DEF DrawTypeOK
    <3>2. recTypeCount' \in [Types -> Nat]
      <4>1. PICK k : recTypeCount' = [recTypeCount EXCEPT ![k] = @ + 1]
        BY <2>1
      <4>2. \A i \in Types : recTypeCount'[i] \in Nat
        BY <2>1, <4>1
      <4>3. DOMAIN recTypeCount' = Types /\ recTypeCount' = [i \in Types |-> recTypeCount'[i]]
        BY <2>1, <4>1
      <4> QED
        BY <4>2, <4>3
    <3> QED
      BY <2>1, <3>2 DEF DrawTypeOK
  <2>3. ASSUME Positive PROVE OthersShare' /\ FirstShare'
    <3>1. OthersShare /\ FirstShare
      BY <2>3 DEF SharesInv
    <3>2. Len(rates) \in Nat \ {0} /\ \A i \in Types : rates[i] \in Nat /\ rates[i] > 0
      BY <2>1, <2>3 DEF Rated, Types, Positive
    <3>3. \A i \in Types : RangeMax[i] \in Nat
      BY <2>1, RangeMaxAdds
    <3>4. 1 \in Types /\ \A i \in Types \ {1} :
             i - 1 \in Types /\ RangeMax[i] = rates[i] + RangeMax[i - 1]
      BY <2>1, <3>2, RangeMaxAdds DEF Types
    <3>5. \A i, j \in Types : i < j => RangeMax[i] < RangeMax[j]
      BY <2>1, <2>3, RangeMaxIncreases
    <3>6. /\ RandomRecType(c) \in Types
          /\ \A i \in Types : InRange(i, c) => RandomRecType(c) = i
          /\ (\A i \in Types : ~InRange(i, c)) => RandomRecType(c) = 1
      BY <2>1, <2>3, DrawnType
    <3>7. \A i \in Types : recTypeCount'[i] = IF i = RandomRecType(c) THEN recTypeCount[i] + 1
                                              ELSE recTypeCount[i]
      BY <2>1
    <3>8. \A i \in Types \ {1} : InRange(i, c) <=> RangeMax[i - 1] < c /\ c < RangeMax[i]
      BY DEF InRange, RangeMin
    <3>9. ASSUME NEW i \in Types \ {1}
          PROVE  recTypeCount'[i] = Between(i)'
      <4>1. RandomRecType(c) = i <=> InRange(i, c)
        BY <3>6
      <4>2. Between(i)' = IF c + 1 <= RangeMax[i - 1] THEN 0
                          ELSE IF c + 1 <= RangeMax[i] THEN c + 1 - RangeMax[i - 1] - 1
                          ELSE rates[i] - 1
        <5>1. /\ c \in Nat /\ RangeMax[i - 1] \in Nat /\ RangeMax[i] \in Nat /\ rates[i] \in Nat
              /\ c' = c + 1 /\ RangeMax'[i - 1] = RangeMax[i - 1]
              /\ RangeMax'[i] = RangeMax[i] /\ rates'[i] = rates[i]
          BY <2>1, <3>2, <3>3, <3>4
        <5>2. Between(i)' = IF c' <= RangeMax'[i - 1] THEN 0
                            ELSE IF c' <= RangeMax'[i] THEN c' - RangeMax'[i - 1] - 1
                            ELSE rates'[i] - 1
          BY DEF Between
        <5> QED
          BY <5>1, <5>2
      <4>3. recTypeCount[i] = Between(i)
        BY <3>1 DEF OthersShare
      <4>4. recTypeCount'[i] = IF RangeMax[i - 1] < c /\ c < RangeMax[i]
                               THEN Between(i) + 1 ELSE Between(i)
        BY <3>7, <3>8, <4>1, <4>3
      <4>5. /\ c \in Nat /\ RangeMax[i - 1] \in Nat /\ RangeMax[i] \in Nat /\ rates[i] \in Nat
            /\ rates[i] > 0 /\ RangeMax[i] = rates[i] + RangeMax[i - 1]
        BY <2>1, <3>2, <3>3, <3>4
      <4> QED
        BY <4>2, <4>4, <4>5 DEF Between
    <3>10. OthersShare'
      BY <2>1, <3>9 DEF OthersShare
    <3>11. ASSUME c + 1 <= RangeMax[1]
           PROVE  recTypeCount'[1] = c + 1
      <4>1. RandomRecType(c) = 1
        <5>1. ASSUME NEW i \in Types \ {1} PROVE ~InRange(i, c)
          <6>1. RangeMax[1] <= RangeMax[i - 1]
            BY <3>2, <3>3, <3>4, <3>5 DEF Types
          <6> QED
            BY <2>1, <3>3, <3>4, <3>8, <3>11, <6>1
        <5> QED
          BY <3>4, <3>6, <5>1
      <4> QED
        BY <2>1, <3>1, <3>3, <3>4, <3>7, <3>11, <4>1 DEF FirstShare
    <3>12. ASSUME NEW i \in Types \ {1}, RangeMax[i - 1] < c + 1, c + 1 <= RangeMax[i]
           PROVE  recTypeCount'[1] = RangeMax[1] + i - 1
      <4>1. CASE RangeMax[i - 1] < c
        <5>1. RandomRecType(c) = i
          BY <2>1, <3>3, <3>4, <3>6, <3>8, <3>12, <4>1
        <5> QED
          BY <2>1, <3>1, <3>3, <3>4, <3>7, <3>12, <4>1, <5>1 DEF FirstShare
      <4>2. CASE RangeMax[i - 1] = c
        <5>1. RandomRecType(c) = 1
          <6>1. ASSUME NEW j \in Types \ {1} PROVE ~InRange(j, c)
            <7>1. i - 1 = j - 1 \/ i - 1 < j - 1 \/ j <= i - 1
              BY <3>2 DEF Types
            <7>2. RangeMax[i - 1] <= RangeMax[j - 1] \/ RangeMax[j] <= RangeMax[i - 1]
              <8>1. i - 1 \in Types /\ j - 1 \in Types /\ j \in Types
                BY <3>4
              <8>2. i - 1 < j - 1 => RangeMax[i - 1] < RangeMax[j - 1]
                BY <3>5, <8>1
              <8>3. j = i - 1 \/ j < i - 1 \/ ~ (j <= i - 1)
                BY <3>2 DEF Types
              <8>4. j < i - 1 => RangeMax[j] < RangeMax[i - 1]
                BY <3>5, <8>1
              <8> QED
                BY <3>3, <7>1, <8>1, <8>2, <8>3, <8>4
            <7> QED
              BY <2>1, <3>3, <3>4, <3>8, <4>2, <7>2
          <6> QED
            BY <3>4, <3>6, <6>1
        <5>2. recTypeCount[1] = RangeMax[1] + i - 2
          <6>1. CASE i - 1 = 1
            BY <2>1, <3>1, <3>3, <3>4, <4>2, <6>1 DEF FirstShare
          <6>2. CASE i - 1 # 1
            <7>1. i - 1 \in Types \ {1} /\ i - 1 - 1 \in Types /\ i - 1 - 1 < i - 1
              BY <3>2, <3>4, <6>2 DEF Types
            <7>2. RangeMax[i - 1 - 1] < c /\ c <= RangeMax[i - 1]
              BY <2>1, <3>3, <3>5, <4>2, <7>1
            <7>3. recTypeCount[1] = RangeMax[1] + (i - 1) - 1
              BY <3>1, <7>1, <7>2 DEF FirstShare
            <7> QED
              BY <3>2, <3>3, <3>4, <7>3 DEF Types
          <6> QED
            BY <6>1, <6>2
        <5> QED
          <6>1. recTypeCount'[1] = recTypeCount[1] + 1
            BY <3>4, <3>7, <5>1
          <6>2. RangeMax[1] \in Nat /\ i \in Int
            BY <3>2, <3>3, <3>4 DEF Types
          <6> QED
            BY <5>2, <6>1, <6>2
      <4> QED
        BY <2>1, <3>3, <3>4, <3>12, <4>1, <4>2
    <3>13. FirstShare'
      BY <2>1, <3>4, <3>11, <3>12 DEF FirstShare
    <3> QED
      BY <3>10, <3>13
  <2>4. Positive' => Positive
    BY <2>1 DEF Positive
  <2> QED
    BY <2>2, <2>3, <2>4 DEF SharesInv
<1> QED
  BY <1>1, <1>2

LEMMA SharesMeanShares == SharesInv => SharesButOnePercent
<1> SUFFICES ASSUME SharesInv, c = 100, RangeMax[Len(rates)] = 100, Positive
             PROVE  \A i \in Types : recTypeCount[i] = IF i = 1 THEN rates[1] + Len(rates) - 1
                                                       ELSE rates[i] - 1
  BY DEF SharesButOnePercent, Positive
<1>1. Rated /\ OthersShare /\ FirstShare
  BY Configured DEF SharesInv, DrawTypeOK
<1>2. Len(rates) \in Nat \ {0} /\ \A i \in Types : rates[i] \in Nat
  BY <1>1 DEF Rated, Types
<1>3. \A i \in Types : /\ RangeMax[i] \in Nat
                       /\ RangeMax[i] = IF i = 1 THEN rates[1] ELSE rates[i] + RangeMax[i - 1]
  BY <1>1, RangeMaxAdds
<1>4. \A i, j \in Types : i < j => RangeMax[i] < RangeMax[j]
  BY <1>1, RangeMaxIncreases
<1>5. ASSUME NEW i \in Types \ {1} PROVE recTypeCount[i] = rates[i] - 1
  <2>1. i - 1 \in Types /\ Len(rates) \in Types /\ (i = Len(rates) \/ i < Len(rates))
    BY <1>2 DEF Types
  <2>2. RangeMax[i - 1] < 100 /\ RangeMax[i] <= 100
    BY <1>2, <1>3, <1>4, <2>1 DEF Types
  <2>3. recTypeCount[i] = Between(i)
    BY <1>1 DEF OthersShare
  <2> QED
    BY <1>2, <1>3, <2>1, <2>2, <2>3 DEF Between
<1>6. recTypeCount[1] = rates[1] + Len(rates) - 1
  <2>1. CASE Len(rates) = 1
    BY <1>1, <1>2, <1>3, <2>1 DEF FirstShare, Types
  <2>2. CASE Len(rates) # 1
    <3>1. Len(rates) \in Types \ {1} /\ Len(rates) - 1 \in Types /\ 1 \in Types
      <4> DEFINE n == Len(rates)
      <4>1. n \in Nat /\ n # 0 /\ n # 1
        BY <1>2, <2>2
      <4> HIDE DEF n
      <4>2. n \in 1 .. n /\ n # 1 /\ n - 1 \in 1 .. n /\ 1 \in 1 .. n
        BY <4>1
      <4> QED
        BY <4>2 DEF Types, n
    <3>2. RangeMax[Len(rates) - 1] < 100 /\ RangeMax[1] = rates[1]
      BY <1>2, <1>3, <1>4, <3>1
    <3>3. recTypeCount[1] = RangeMax[1] + Len(rates) - 1
      BY <1>1, <3>1, <3>2 DEF FirstShare
    <3> QED
      BY <3>2, <3>3
  <2> QED
    BY <2>1, <2>2
<1> QED
  BY <1>5, <1>6

(* Of the hundred numbers every type but the first gets one less than its rate  *)
(* and the first all that is lost: for every configuration with positive rates  *)
(* that add up to 100, whatever their number and order (InitVariables and       *)
(* RandomRecType).                                                              *)
THEOREM Shares == Spec => []SharesButOnePercent
BY SharesInit, SharesStep, SharesMeanShares, PTL DEF Spec

(* The specification of the whole chain draws the same way.                     *)
LEMMA CallsDraw == [CallsNext]_callVars => [Draw]_vars
BY DEF CallsNext, callVars, pipeline, Compose, AppendLac, AppendCell, StoreCall, QueueCamel,
       QueueDiam, SendCamel, AnswerCharged, AnswerClosing, SendDiam, AnswerDiam

(* The same of the draws of threads that compose, queue and send messages.      *)
THEOREM CallsShares == CallsSpec => []SharesButOnePercent
<1>1. CallsInit => Init
  BY DEF CallsInit
<1> QED
  BY <1>1, CallsDraw, SharesInit, SharesStep, SharesMeanShares, PTL DEF CallsSpec

-----------------------------------------------------------------------------
(* The session ids.  A call is the number of its draw, so no two messages on    *)
(* their way have the same; and the key of a call's record depends on nothing   *)
(* else, whatever is written behind the key's twelve bytes.                     *)

CallKey(kind, call) == IF kind = "camel" THEN SessionKey(Session(call)) ELSE <<"session", call>>

LEMMA CallKeyDiffers ==
    ASSUME NEW kind, NEW k, NEW l, CallKey(kind, k) = CallKey(kind, l)
    PROVE  k = l
<1>1. CASE kind = "camel"
  <2>1. SessionKey(Session(k))[8] = SessionKey(Session(l))[8]
    BY <1>1 DEF CallKey
  <2>2. \A m : SessionKey(Session(m))[8] = <<"random", m>>
    BY DEF SessionKey, KeyBytes, Session, NewCamelSessionID, SessionBytes
  <2> QED
    BY <2>1, <2>2
<1>2. CASE kind # "camel"
  BY <1>2 DEF CallKey
<1> QED
  BY <1>1, <1>2

(* Sequences, of whatever elements.                                             *)
IsSequence(s) == s \in Seq({s[i] : i \in 1 .. Len(s)})

LEMMA IsSequenceOf == ASSUME NEW S, NEW s \in Seq(S) PROVE IsSequence(s)
BY DEF IsSequence

LEMMA AppendSequence ==
    ASSUME NEW s, IsSequence(s), NEW m
    PROVE  /\ IsSequence(Append(s, m))
           /\ Len(s) \in Nat /\ Len(Append(s, m)) = Len(s) + 1
           /\ \A i \in 1 .. Len(s) : Append(s, m)[i] = s[i]
           /\ Append(s, m)[Len(s) + 1] = m
<1> DEFINE S == {s[i] : i \in 1 .. Len(s)} \cup {m}
<1>1. s \in Seq(S)
  BY DEF IsSequence
<1>2. m \in S
  OBVIOUS
<1> HIDE DEF S
<1>3. IsSequence(Append(s, m))
  BY <1>1, <1>2, IsSequenceOf, Append(s, m) \in Seq(S)
<1>4. Len(s) \in Nat /\ Len(Append(s, m)) = Len(s) + 1 /\ Append(s, m)[Len(s) + 1] = m
  BY <1>1, <1>2
<1>5. \A i \in 1 .. Len(s) : Append(s, m)[i] = s[i]
  BY <1>1, <1>2
<1> QED
  BY <1>3, <1>4, <1>5

LEMMA TailSequence ==
    ASSUME NEW s, IsSequence(s), s # <<>>
    PROVE  /\ IsSequence(Tail(s))
           /\ Len(s) \in Nat \ {0} /\ Len(Tail(s)) = Len(s) - 1
           /\ \A i \in 1 .. Len(Tail(s)) : Tail(s)[i] = s[i + 1]
           /\ Head(s) = s[1]
<1> DEFINE S == {s[i] : i \in 1 .. Len(s)}
<1>1. s \in Seq(S)
  BY DEF IsSequence
<1> HIDE DEF S
<1>2. IsSequence(Tail(s))
  BY <1>1, IsSequenceOf, Tail(s) \in Seq(S)
<1>3. Len(s) \in Nat \ {0} /\ Len(Tail(s)) = Len(s) - 1 /\ Head(s) = s[1]
  BY <1>1
<1>4. \A i \in 1 .. Len(Tail(s)) : Tail(s)[i] = s[i + 1]
  BY <1>1
<1> QED
  BY <1>2, <1>3, <1>4

-----------------------------------------------------------------------------
Kinds == {"camel", "diameter"}

Channel(kind) == IF kind = "camel" THEN camelChannel ELSE diamChannel
Wire(kind) == IF kind = "camel" THEN camelWire ELSE diamWire

(* What the cache has under the key of a call, and what it should have for a    *)
(* message.                                                                     *)
Records(kind, call) == {e \in sessions[kind] : e.key = CallKey(kind, call)}

IsStored(kind, m) == Records(kind, m.call) = {[key |-> CallKey(kind, m.call), rec |-> m.rec]}

(* The messages of both kinds, and a CAMEL request on the wire.                 *)
IsAuthorisation(m) ==
    /\ m.kind = "camel"
    /\ m = [kind |-> "camel", call |-> m.call, rec |-> m.rec, type |-> m.type,
            frame |-> m.frame, sid |-> Session(m.call), place |-> m.place]

IsCredit(m) ==
    /\ m.kind = "diameter"
    /\ m = [kind |-> "diameter", call |-> m.call, rec |-> m.rec, message |-> m.message,
            sid |-> <<"session", m.call>>]

IsOnWire(m) ==
    m = [kind |-> "camel", call |-> m.call, rec |-> m.rec, type |-> m.type,
         sid |-> [Session(m.call) EXCEPT ![13] = <<"brt">>],
         wire |-> m.wire, lac |-> m.lac, cell |-> m.cell]

Busy(t) == pc[t] # "draw"

(* The messages the threads work on.                                            *)
ComposedInv ==
    /\ pc \in [Threads -> {"draw", "lac", "cell", "store", "queue"}]
    /\ DOMAIN composed = Threads
    /\ \A t \in Threads : Busy(t) =>
          /\ IsAuthorisation(composed[t]) \/ IsCredit(composed[t])
          /\ composed[t].call \in 1 .. c
          /\ pc[t] \in {"lac", "cell"} => IsAuthorisation(composed[t])
          /\ pc[t] = "queue" => IsStored(composed[t].kind, composed[t])
    /\ \A t, u \in Threads : Busy(t) /\ Busy(u) /\ t # u => composed[t].call # composed[u].call

(* The messages of a channel and the one behind it: each of another call, whose *)
(* record is in the cache, and none of a call a thread still works on.          *)
Ahead(kind) ==
    /\ IsSequence(Channel(kind))
    /\ \A i \in 1 .. Len(Channel(kind)) :
          /\ Channel(kind)[i].call \in 1 .. c
          /\ IsStored(kind, Channel(kind)[i])
    /\ \A i, j \in 1 .. Len(Channel(kind)) :
          i # j => Channel(kind)[i].call # Channel(kind)[j].call
    /\ Wire(kind) # Nothing =>
          /\ Wire(kind).call \in 1 .. c /\ IsStored(kind, Wire(kind))
          /\ \A i \in 1 .. Len(Channel(kind)) : Channel(kind)[i].call # Wire(kind).call
    /\ \A t \in Threads : Busy(t) /\ composed[t].kind = kind =>
          /\ \A i \in 1 .. Len(Channel(kind)) : Channel(kind)[i].call # composed[t].call
          /\ Wire(kind) # Nothing => Wire(kind).call # composed[t].call

Shapes ==
    /\ \A i \in 1 .. Len(camelChannel) : IsAuthorisation(camelChannel[i])
    /\ camelWire # Nothing => IsOnWire(camelWire)
    /\ \A i \in 1 .. Len(diamChannel) : IsCredit(diamChannel[i])
    /\ diamWire # Nothing => IsCredit(diamWire)

SessionsInv ==
    /\ c \in Nat
    /\ DOMAIN sessions = Kinds
    /\ ComposedInv
    /\ \A kind \in Kinds : Ahead(kind)
    /\ Shapes

LEMMA SessionsInit == CallsInit => SessionsInv
<1> SUFFICES ASSUME CallsInit PROVE SessionsInv
  OBVIOUS
<1>1. c = 0 /\ DOMAIN sessions = Kinds
  BY DEF CallsInit, Init, Kinds
<1>2. ComposedInv
  BY DEF CallsInit, ComposedInv, Busy
<1>3. IsSequence(<<>>)
  BY IsSequenceOf, <<>> \in Seq({})
<1>4. \A t \in Threads : ~Busy(t)
  BY DEF CallsInit, Busy
<1>5. \A kind \in Kinds : Channel(kind) = <<>> /\ Wire(kind) = Nothing
  BY DEF CallsInit, Channel, Wire
<1>6. \A kind \in Kinds : Ahead(kind)
  BY <1>3, <1>4, <1>5 DEF Ahead
<1>7. Shapes
  BY DEF CallsInit, Shapes
<1> QED
  BY <1>1, <1>2, <1>6, <1>7 DEF SessionsInv

(* What a channel owes to the rest of the state.                                *)
LEMMA AheadKept ==
    ASSUME NEW kind \in Kinds, Ahead(kind), c \in Nat, c' \in {c, c + 1},
           Channel(kind)' = Channel(kind),
           Wire(kind)' # Nothing => /\ Wire(kind) # Nothing
                                    /\ Wire(kind)'.call = Wire(kind).call
                                    /\ Wire(kind)'.rec = Wire(kind).rec
                                    /\ Records(kind, Wire(kind).call)' = Records(kind, Wire(kind).call),
           \A i \in 1 .. Len(Channel(kind)) :
              Records(kind, Channel(kind)[i].call)' = Records(kind, Channel(kind)[i].call),
           \A t \in Threads : Busy(t)' /\ composed'[t].kind = kind =>
              \/ Busy(t) /\ composed[t].kind = kind /\ composed'[t].call = composed[t].call
              \/ composed'[t].call = c + 1
    PROVE  Ahead(kind)'
BY DEF Ahead, IsStored

LEMMA AheadQueued ==
    ASSUME NEW kind \in Kinds, Ahead(kind), c \in Nat, c' = c,
           NEW t \in Threads, Busy(t), composed[t].kind = kind, composed[t].call \in 1 .. c,
           IsStored(kind, composed[t]),
           \A u \in Threads \ {t} : Busy(u) => composed[u].call # composed[t].call,
           Channel(kind)' = Append(Channel(kind), composed[t]), Wire(kind)' = Wire(kind),
           sessions' = sessions, ~Busy(t)',
           \A u \in Threads \ {t} : (Busy(u)' <=> Busy(u)) /\ composed'[u] = composed[u]
    PROVE  Ahead(kind)'
<1> DEFINE s == Channel(kind)
<1>1. /\ IsSequence(Channel(kind)') /\ Len(s) \in Nat /\ Len(Channel(kind)') = Len(s) + 1
      /\ \A i \in 1 .. Len(s) : Channel(kind)'[i] = s[i]
      /\ Channel(kind)'[Len(s) + 1] = composed[t]
  BY AppendSequence DEF Ahead
<1>2. \A i \in 1 .. Len(Channel(kind)') : i \in 1 .. Len(s) \/ i = Len(s) + 1
  BY <1>1
<1>3. \A k : Records(kind, k)' = Records(kind, k)
  BY DEF Records, CallKey, Session
<1>4. \A i \in 1 .. Len(Channel(kind)') : /\ Channel(kind)'[i].call \in 1 .. c
                                            /\ IsStored(kind, Channel(kind)[i])'
  BY <1>1, <1>2, <1>3 DEF Ahead, IsStored
<1>5. \A i, j \in 1 .. Len(Channel(kind)') :
         i # j => Channel(kind)'[i].call # Channel(kind)'[j].call
  BY <1>1, <1>2 DEF Ahead
<1>6. Wire(kind)' # Nothing =>
         /\ Wire(kind)'.call \in 1 .. c /\ IsStored(kind, Wire(kind))'
         /\ \A i \in 1 .. Len(Channel(kind)') : Channel(kind)'[i].call # Wire(kind)'.call
  BY <1>1, <1>2, <1>3 DEF Ahead, IsStored
<1>7. ASSUME NEW u \in Threads, Busy(u)', composed'[u].kind = kind
      PROVE  /\ \A i \in 1 .. Len(Channel(kind)') : Channel(kind)'[i].call # composed'[u].call
             /\ Wire(kind)' # Nothing => Wire(kind)'.call # composed'[u].call
  <2>1. u # t /\ Busy(u) /\ composed'[u] = composed[u]
    BY <1>7
  <2>2. composed[u].call # composed[t].call
    BY <2>1
  <2>3. /\ \A i \in 1 .. Len(s) : s[i].call # composed[u].call
        /\ Wire(kind) # Nothing => Wire(kind).call # composed[u].call
    BY <1>7, <2>1 DEF Ahead
  <2> QED
    BY <1>1, <1>2, <2>1, <2>2, <2>3
<1> QED
  BY <1>1, <1>4, <1>5, <1>6, <1>7 DEF Ahead

LEMMA AheadSent ==
    ASSUME NEW kind \in Kinds, Ahead(kind), c \in Nat, c' = c,
           Channel(kind) # <<>>, Wire(kind) = Nothing,
           Channel(kind)' = Tail(Channel(kind)),
           Wire(kind)'.call = Head(Channel(kind)).call,
           Wire(kind)'.rec = Head(Channel(kind)).rec,
           UNCHANGED <<sessions, pc, composed>>
    PROVE  Ahead(kind)'
<1> DEFINE s == Channel(kind)
<1>1. /\ IsSequence(Channel(kind)') /\ Len(s) \in Nat \ {0} /\ Len(Channel(kind)') = Len(s) - 1
      /\ \A i \in 1 .. Len(Channel(kind)') : Channel(kind)'[i] = s[i + 1]
      /\ Head(s) = s[1]
  BY TailSequence DEF Ahead
<1>2. 1 \in 1 .. Len(s) /\ \A i \in 1 .. Len(Channel(kind)') : i + 1 \in 1 .. Len(s) /\ i + 1 # 1
  BY <1>1
<1>3. \A i, j \in 1 .. Len(Channel(kind)') : i # j => i + 1 # j + 1
  BY <1>1
<1>4. \A k : Records(kind, k)' = Records(kind, k)
  BY DEF Records, CallKey, Session
<1>5. \A t : Busy(t)' <=> Busy(t)
  BY DEF Busy
<1>6. \A i \in 1 .. Len(Channel(kind)') : /\ Channel(kind)'[i].call \in 1 .. c'
                                         /\ IsStored(kind, Channel(kind)[i])'
  BY <1>1, <1>2, <1>4 DEF Ahead, IsStored
<1>7. \A i, j \in 1 .. Len(Channel(kind)') :
         i # j => Channel(kind)'[i].call # Channel(kind)'[j].call
  BY <1>1, <1>2, <1>3 DEF Ahead
<1>8. /\ Wire(kind)'.call \in 1 .. c' /\ IsStored(kind, Wire(kind))'
      /\ \A i \in 1 .. Len(Channel(kind)') : Channel(kind)'[i].call # Wire(kind)'.call
  BY <1>1, <1>2, <1>4 DEF Ahead, IsStored
<1>9. \A t \in Threads : Busy(t)' /\ composed'[t].kind = kind =>
         /\ \A i \in 1 .. Len(Channel(kind)') : Channel(kind)'[i].call # composed'[t].call
         /\ Wire(kind)'.call # composed'[t].call
  BY <1>1, <1>2, <1>5 DEF Ahead
<1> QED
  BY <1>1, <1>6, <1>7, <1>8, <1>9 DEF Ahead

-----------------------------------------------------------------------------
(* One step for each action.                                                    *)

LEMMA MessageShape ==
    ASSUME NEW k, NEW s, NEW r
    PROVE  \/ MessageOf(k, s, r) = Nothing
           \/ /\ IsAuthorisation(MessageOf(k, s, r)) \/ IsCredit(MessageOf(k, s, r))
              /\ MessageOf(k, s, r).call = k
<1>1. \A type, frame : /\ IsAuthorisation(Authorisation(k, r, type, frame))
                       /\ Authorisation(k, r, type, frame).call = k
  BY DEF IsAuthorisation, Authorisation
<1>2. \A measure : IsCredit(CreditRequest(k, r, measure)) /\ CreditRequest(k, r, measure).call = k
  BY DEF IsCredit, CreditRequest
<1> QED
  BY <1>1, <1>2 DEF MessageOf

LEMMA KindOfShape ==
    /\ \A m : IsAuthorisation(m) => m.kind = "camel"
    /\ \A m : IsCredit(m) => m.kind = "diameter"
    /\ Nothing.kind = "nothing"
BY DEF IsAuthorisation, IsCredit, Nothing

LEMMA ComposeKeeps ==
    ASSUME SessionsInv, NEW t \in Threads, Compose(t)
    PROVE  SessionsInv'
<1>1. /\ c \in Nat /\ c' = c + 1 /\ sessions' = sessions /\ pc[t] = "draw"
      /\ pc' = [pc EXCEPT ![t] = FirstStep[composed'[t].kind]]
      /\ UNCHANGED <<camelChannel, camelWire, diamChannel, diamWire>>
  BY DEF SessionsInv, Compose, Draw
<1>2. PICK m : /\ composed' = [composed EXCEPT ![t] = m]
               /\ \/ m = Nothing
                  \/ (IsAuthorisation(m) \/ IsCredit(m)) /\ m.call = c + 1
  <2>1. PICK sub \in CreatePoolList, i \in DOMAIN LACCELLpool :
           composed' = [composed EXCEPT ![t] =
              MessageOf(c + 1, Settings[RandomRecType(c)],
                        Record(c + 1, Settings[RandomRecType(c)], sub, LACCELLpool[i]))]
    BY DEF Compose
  <2> QED
    BY <2>1, MessageShape
<1>3. /\ pc \in [Threads -> {"draw", "lac", "cell", "store", "queue"}]
      /\ DOMAIN composed = Threads
  BY DEF SessionsInv, ComposedInv
<1>4. composed'[t] = m /\ \A u \in Threads \ {t} : composed'[u] = composed[u] /\ pc'[u] = pc[u]
  BY <1>1, <1>2, <1>3
<1>5. \/ m = Nothing /\ pc'[t] = "draw"
      \/ IsAuthorisation(m) /\ m.call = c + 1 /\ pc'[t] = "lac"
      \/ IsCredit(m) /\ m.call = c + 1 /\ pc'[t] = "store"
  BY <1>1, <1>2, <1>3, <1>4, KindOfShape DEF FirstStep
<1>6. /\ \A k \in 1 .. c : k \in 1 .. c' /\ k # c + 1
      /\ c + 1 \in 1 .. c'
  BY <1>1
<1>7. \A kind, k : Records(kind, k)' = Records(kind, k)
  BY <1>1 DEF Records, CallKey, Session
<1>8. ComposedInv'
  <2>1. /\ pc' \in [Threads -> {"draw", "lac", "cell", "store", "queue"}]
        /\ DOMAIN composed' = Threads
    BY <1>1, <1>2, <1>3, <1>4, <1>5
  <2>2. ASSUME NEW u \in Threads, Busy(u)'
        PROVE  /\ IsAuthorisation(composed'[u]) \/ IsCredit(composed'[u])
               /\ composed'[u].call \in 1 .. c'
               /\ pc'[u] \in {"lac", "cell"} => IsAuthorisation(composed'[u])
               /\ pc'[u] = "queue" => IsStored(composed[u].kind, composed[u])'
    <3>1. CASE u = t
      BY <1>4, <1>5, <1>6, <2>2, <3>1 DEF Busy
    <3>2. CASE u # t
      BY <1>4, <1>6, <1>7, <2>2, <3>2 DEF Busy, SessionsInv, ComposedInv, IsStored
    <3> QED
      BY <3>1, <3>2
  <2>3. ASSUME NEW u \in Threads, NEW v \in Threads, Busy(u)', Busy(v)', u # v
        PROVE  composed'[u].call # composed'[v].call
    BY <1>4, <1>5, <1>6, <2>3 DEF Busy, SessionsInv, ComposedInv
  <2> QED
    BY <2>1, <2>2, <2>3 DEF ComposedInv
<1>9. ASSUME NEW kind \in Kinds PROVE Ahead(kind)'
  <2>1. Channel(kind)' = Channel(kind) /\ Wire(kind)' = Wire(kind)
    BY <1>1 DEF Channel, Wire
  <2>2. \A u \in Threads : Busy(u)' /\ composed'[u].kind = kind =>
              \/ Busy(u) /\ composed[u].kind = kind /\ composed'[u].call = composed[u].call
              \/ composed'[u].call = c + 1
    BY <1>4, <1>5 DEF Busy
  <2> QED
    BY <1>1, <1>7, <2>1, <2>2, AheadKept DEF SessionsInv
<1>10. Shapes'
  BY <1>1 DEF SessionsInv, Shapes
<1> QED
  BY <1>1, <1>8, <1>9, <1>10 DEF SessionsInv

(* The location is written, into the message or beside it.                      *)
LEMMA LocationKeeps ==
    ASSUME SessionsInv, NEW t \in Threads, AppendLac(t) \/ AppendCell(t)
    PROVE  SessionsInv'
<1>1. /\ c \in Nat /\ c' = c /\ sessions' = sessions /\ pc[t] \in {"lac", "cell"}
      /\ pc' = [pc EXCEPT ![t] = IF pc[t] = "lac" THEN "cell" ELSE "store"]
      /\ UNCHANGED <<camelChannel, camelWire, diamChannel, diamWire>>
  BY DEF SessionsInv, AppendLac, AppendCell, vars
<1>2. /\ pc \in [Threads -> {"draw", "lac", "cell", "store", "queue"}]
      /\ DOMAIN composed = Threads
      /\ IsAuthorisation(composed[t])
  BY <1>1 DEF SessionsInv, ComposedInv, Busy
<1>3. composed' = composed \/ \E x : composed' = [composed EXCEPT ![t].place = x]
  BY DEF AppendLac, AppendCell
<1>4. /\ DOMAIN composed' = Threads /\ IsAuthorisation(composed'[t])
      /\ composed'[t].call = composed[t].call
      /\ \A u \in Threads \ {t} : composed'[u] = composed[u]
  <2>1. CASE composed' = composed
    BY <1>2, <2>1
  <2>2. ASSUME NEW x, composed' = [composed EXCEPT ![t].place = x]
        PROVE  <1>4
    <3>1. composed'[t] = [composed[t] EXCEPT !.place = x]
      BY <1>2, <2>2
    <3>2. composed[t] = [kind |-> "camel", call |-> composed[t].call, rec |-> composed[t].rec,
                         type |-> composed[t].type, frame |-> composed[t].frame,
                         sid |-> Session(composed[t].call), place |-> composed[t].place]
      BY <1>2 DEF IsAuthorisation
    <3>3. composed'[t] = [kind |-> "camel", call |-> composed[t].call, rec |-> composed[t].rec,
                          type |-> composed[t].type, frame |-> composed[t].frame,
                          sid |-> Session(composed[t].call), place |-> x]
      BY <3>1, <3>2
    <3> QED
      BY <1>2, <2>2, <3>3 DEF IsAuthorisation
  <2> QED
    BY <1>3, <2>1, <2>2
<1>5. /\ Busy(t) /\ Busy(t)' /\ pc'[t] \in {"cell", "store"}
      /\ \A u \in Threads \ {t} : pc'[u] = pc[u]
      /\ \A u \in Threads : Busy(u)' <=> Busy(u)
  BY <1>1, <1>2 DEF Busy
<1>6. \A kind, k : Records(kind, k)' = Records(kind, k)
  BY <1>1 DEF Records, CallKey, Session
<1>7. \A u \in Threads : composed'[u].call = composed[u].call /\ composed'[u].kind = composed[u].kind
  BY <1>2, <1>4, KindOfShape
<1>8. ComposedInv'
  <2>1. /\ pc' \in [Threads -> {"draw", "lac", "cell", "store", "queue"}]
        /\ DOMAIN composed' = Threads
    BY <1>1, <1>2, <1>4, <1>5
  <2>2. ASSUME NEW u \in Threads, Busy(u)'
        PROVE  /\ IsAuthorisation(composed'[u]) \/ IsCredit(composed'[u])
               /\ composed'[u].call \in 1 .. c'
               /\ pc'[u] \in {"lac", "cell"} => IsAuthorisation(composed'[u])
               /\ pc'[u] = "queue" => IsStored(composed[u].kind, composed[u])'
    <3>1. composed'[u].call \in 1 .. c'
      BY <1>1, <1>5, <1>7, <2>2 DEF SessionsInv, ComposedInv
    <3>2. CASE u = t
      BY <1>4, <1>5, <3>1, <3>2
    <3>3. CASE u # t
      BY <1>4, <1>5, <1>6, <2>2, <3>1, <3>3 DEF SessionsInv, ComposedInv, IsStored
    <3> QED
      BY <3>2, <3>3
  <2>3. ASSUME NEW u \in Threads, NEW v \in Threads, Busy(u)', Busy(v)', u # v
        PROVE  composed'[u].call # composed'[v].call
    BY <1>5, <1>7, <2>3 DEF SessionsInv, ComposedInv
  <2> QED
    BY <2>1, <2>2, <2>3 DEF ComposedInv
<1>9. ASSUME NEW kind \in Kinds PROVE Ahead(kind)'
  <2>1. Channel(kind)' = Channel(kind) /\ Wire(kind)' = Wire(kind)
    BY <1>1 DEF Channel, Wire
  <2> QED
    BY <1>1, <1>5, <1>6, <1>7, <2>1, AheadKept DEF SessionsInv
<1>10. Shapes'
  BY <1>1 DEF SessionsInv, Shapes
<1> QED
  BY <1>1, <1>8, <1>9, <1>10 DEF SessionsInv

LEMMA ShapeKey ==
    /\ \A m : IsAuthorisation(m) => Key(m) = CallKey("camel", m.call)
    /\ \A m : IsCredit(m) => Key(m) = CallKey("diameter", m.call)
<1>1. ASSUME NEW m, IsAuthorisation(m) PROVE Key(m) = CallKey("camel", m.call)
  <2>1. m.kind = "camel" /\ m.sid = Session(m.call)
    BY <1>1 DEF IsAuthorisation
  <2> QED
    BY <2>1 DEF Key, CallKey
<1>2. ASSUME NEW m, IsCredit(m) PROVE Key(m) = CallKey("diameter", m.call)
  <2>1. m.kind = "diameter" /\ m.sid = <<"session", m.call>>
    BY <1>2 DEF IsCredit
  <2> QED
    BY <2>1 DEF Key, CallKey
<1> QED
  BY <1>1, <1>2

(* A call is stored under its own key, and nothing else is touched.             *)
LEMMA StoreCallKeeps ==
    ASSUME SessionsInv, NEW t \in Threads, StoreCall(t)
    PROVE  SessionsInv'
<1> DEFINE m == composed[t]
<1>1. /\ c \in Nat /\ c' = c /\ pc[t] = "store" /\ pc' = [pc EXCEPT ![t] = "queue"]
      /\ composed' = composed /\ UNCHANGED <<camelChannel, camelWire, diamChannel, diamWire>>
  BY DEF SessionsInv, StoreCall, vars
<1>2. /\ pc \in [Threads -> {"draw", "lac", "cell", "store", "queue"}]
      /\ DOMAIN composed = Threads
      /\ Busy(t) /\ (IsAuthorisation(m) \/ IsCredit(m)) /\ m.call \in 1 .. c
      /\ DOMAIN sessions = Kinds
  BY <1>1 DEF SessionsInv, ComposedInv, Busy
<1>3. m.kind \in Kinds /\ Key(m) = CallKey(m.kind, m.call)
  BY <1>2, KindOfShape, ShapeKey DEF Kinds
<1>4. sessions' = [sessions EXCEPT ![m.kind] = {e \in @ : e.key # Key(m)}
                                               \cup {[key |-> Key(m), rec |-> m.rec]}]
  BY DEF StoreCall
<1>5. /\ DOMAIN sessions' = Kinds
      /\ sessions'[m.kind] = {e \in sessions[m.kind] : e.key # Key(m)}
                             \cup {[key |-> Key(m), rec |-> m.rec]}
      /\ \A kind \in Kinds \ {m.kind} : sessions'[kind] = sessions[kind]
  BY <1>2, <1>3, <1>4
<1>6. \A kind \in Kinds : \A k : kind # m.kind \/ k # m.call => Records(kind, k)' = Records(kind, k)
  <2>1. ASSUME NEW kind \in Kinds, NEW k, kind # m.kind
        PROVE  Records(kind, k)' = Records(kind, k)
    BY <1>5, <2>1 DEF Records, CallKey, Session
  <2>2. ASSUME NEW kind \in Kinds, NEW k, kind = m.kind, k # m.call
        PROVE  Records(kind, k)' = Records(kind, k)
    <3>1. CallKey(kind, k) # Key(m)
      BY <1>3, <2>2, CallKeyDiffers
    <3> QED
      BY <1>1, <1>5, <2>2, <3>1 DEF Records, CallKey, Session
  <2> QED
    BY <2>1, <2>2
<1>7. IsStored(m.kind, m)'
  <2>1. Records(m.kind, m.call)' = {e \in sessions'[m.kind] : e.key = Key(m)}
    BY <1>1, <1>3 DEF Records, CallKey, Session
  <2>2. Records(m.kind, m.call)' = {[key |-> Key(m), rec |-> m.rec]}
    BY <1>5, <2>1
  <2> QED
    BY <1>1, <1>3, <2>2 DEF IsStored, CallKey, Session
<1>8. /\ pc'[t] = "queue" /\ Busy(t) /\ \A u \in Threads \ {t} : pc'[u] = pc[u]
      /\ \A u \in Threads : Busy(u)' <=> Busy(u)
  BY <1>1, <1>2 DEF Busy
<1>9. ComposedInv'
  <2>1. pc' \in [Threads -> {"draw", "lac", "cell", "store", "queue"}]
    BY <1>1, <1>2
  <2>2. ASSUME NEW u \in Threads, u # t, pc'[u] = "queue"
        PROVE  IsStored(composed[u].kind, composed[u])'
    <3>1. Busy(u) /\ Busy(t) /\ pc[u] = "queue"
      BY <1>8, <2>2 DEF Busy
    <3>2. /\ composed[u].call # m.call /\ composed[u].kind \in Kinds
          /\ IsStored(composed[u].kind, composed[u])
      BY <2>2, <3>1, KindOfShape DEF SessionsInv, ComposedInv, Kinds
    <3>3. Records(composed[u].kind, composed[u].call)' = Records(composed[u].kind, composed[u].call)
      BY <1>1, <1>6, <3>2
    <3> QED
      BY <1>1, <3>2, <3>3 DEF IsStored, CallKey, Session
  <2> QED
    BY <1>1, <1>2, <1>7, <1>8, <2>1, <2>2 DEF SessionsInv, ComposedInv
<1>10. ASSUME NEW kind \in Kinds PROVE Ahead(kind)'
  <2>1. Channel(kind)' = Channel(kind) /\ Wire(kind)' = Wire(kind)
    BY <1>1 DEF Channel, Wire
  <2>2. Ahead(kind)
    BY DEF SessionsInv
  <2>3. \A i \in 1 .. Len(Channel(kind)) :
           Records(kind, Channel(kind)[i].call)' = Records(kind, Channel(kind)[i].call)
    BY <1>1, <1>2, <1>6, <2>1, <2>2 DEF Ahead
  <2>4. Wire(kind) # Nothing => Records(kind, Wire(kind).call)' = Records(kind, Wire(kind).call)
    BY <1>1, <1>2, <1>6, <2>1, <2>2 DEF Ahead
  <2> QED
    BY <1>1, <1>8, <2>1, <2>2, <2>3, <2>4, AheadKept
<1>11. Shapes'
  BY <1>1 DEF SessionsInv, Shapes
<1> QED
  BY <1>1, <1>5, <1>9, <1>10, <1>11 DEF SessionsInv

(* A message leaves its thread for the channel of its kind.                     *)
LEMMA QueueKeeps ==
    ASSUME SessionsInv, NEW t \in Threads, QueueCamel(t) \/ QueueDiam(t)
    PROVE  SessionsInv'
<1> DEFINE m == composed[t]
<1>1. /\ c \in Nat /\ c' = c /\ pc[t] = "queue" /\ pc' = [pc EXCEPT ![t] = "draw"]
      /\ composed' = [composed EXCEPT ![t] = Nothing]
      /\ sessions' = sessions /\ UNCHANGED <<camelWire, diamWire>>
  BY DEF SessionsInv, QueueCamel, QueueDiam, vars
<1>2. /\ pc \in [Threads -> {"draw", "lac", "cell", "store", "queue"}]
      /\ DOMAIN composed = Threads
      /\ Busy(t) /\ (IsAuthorisation(m) \/ IsCredit(m)) /\ m.call \in 1 .. c
      /\ IsStored(m.kind, m)
      /\ \A u \in Threads \ {t} : Busy(u) => composed[u].call # m.call
  BY <1>1 DEF SessionsInv, ComposedInv, Busy
<1>3. /\ m.kind \in Kinds
      /\ \A kind \in Kinds : /\ kind = m.kind => Channel(kind)' = Append(Channel(kind), m)
                             /\ kind # m.kind => Channel(kind)' = Channel(kind)
                             /\ Wire(kind)' = Wire(kind)
  <2>1. CASE QueueCamel(t)
    <3>1. /\ m.kind = "camel" /\ camelChannel' = Append(camelChannel, m)
          /\ diamChannel' = diamChannel
      BY <2>1 DEF QueueCamel
    <3> QED
      BY <1>1, <3>1 DEF Channel, Wire, Kinds
  <2>2. CASE QueueDiam(t)
    <3>1. /\ m.kind = "diameter" /\ diamChannel' = Append(diamChannel, m)
          /\ camelChannel' = camelChannel
      BY <2>2 DEF QueueDiam
    <3> QED
      BY <1>1, <3>1 DEF Channel, Wire, Kinds
  <2> QED
    BY <2>1, <2>2
<1>4. /\ ~Busy(t)'
      /\ \A u \in Threads \ {t} : (Busy(u)' <=> Busy(u)) /\ pc'[u] = pc[u]
                                  /\ composed'[u] = composed[u]
  BY <1>1, <1>2 DEF Busy
<1>5. \A kind, k : Records(kind, k)' = Records(kind, k)
  BY <1>1 DEF Records, CallKey, Session
<1>6. ComposedInv'
  <2>1. /\ pc' \in [Threads -> {"draw", "lac", "cell", "store", "queue"}]
        /\ DOMAIN composed' = Threads
    BY <1>1, <1>2
  <2>2. ASSUME NEW u \in Threads, Busy(u)'
        PROVE  /\ u # t
               /\ IsAuthorisation(composed'[u]) \/ IsCredit(composed'[u])
               /\ composed'[u].call \in 1 .. c'
               /\ pc'[u] \in {"lac", "cell"} => IsAuthorisation(composed'[u])
               /\ pc'[u] = "queue" => IsStored(composed[u].kind, composed[u])'
    BY <1>1, <1>4, <1>5, <2>2 DEF SessionsInv, ComposedInv, IsStored
  <2> QED
    BY <1>4, <2>1, <2>2 DEF SessionsInv, ComposedInv
<1>7. ASSUME NEW kind \in Kinds PROVE Ahead(kind)'
  <2>1. Ahead(kind)
    BY DEF SessionsInv
  <2>2. CASE kind = m.kind
    <3>1. /\ composed[t].kind = kind /\ IsStored(kind, composed[t])
          /\ Channel(kind)' = Append(Channel(kind), composed[t]) /\ Wire(kind)' = Wire(kind)
      BY <1>2, <1>3, <2>2
    <3> QED
      BY <1>1, <1>2, <1>4, <2>1, <3>1, AheadQueued
  <2>3. CASE kind # m.kind
    BY <1>1, <1>3, <1>4, <1>5, <2>1, <2>3, AheadKept
  <2> QED
    BY <2>2, <2>3
<1>8. Shapes'
  <2>1. CASE QueueCamel(t)
    <3>1. camelChannel' = Append(camelChannel, m) /\ diamChannel' = diamChannel /\ IsAuthorisation(m)
      BY <1>2, <2>1, KindOfShape DEF QueueCamel
    <3>2. IsSequence(camelChannel)
      BY DEF SessionsInv, Ahead, Channel, Kinds
    <3>3. ASSUME NEW i \in 1 .. Len(camelChannel') PROVE IsAuthorisation(camelChannel'[i])
      <4>1. i \in 1 .. Len(camelChannel) \/ i = Len(camelChannel) + 1
        BY <3>1, <3>2, AppendSequence
      <4> QED
        BY <3>1, <3>2, <4>1, AppendSequence DEF SessionsInv, Shapes
    <3> QED
      BY <1>1, <3>1, <3>3 DEF SessionsInv, Shapes
  <2>2. CASE QueueDiam(t)
    <3>1. diamChannel' = Append(diamChannel, m) /\ camelChannel' = camelChannel /\ IsCredit(m)
      BY <1>2, <2>2, KindOfShape DEF QueueDiam
    <3>2. IsSequence(diamChannel)
      BY DEF SessionsInv, Ahead, Channel, Kinds
    <3>3. ASSUME NEW i \in 1 .. Len(diamChannel') PROVE IsCredit(diamChannel'[i])
      <4>1. i \in 1 .. Len(diamChannel) \/ i = Len(diamChannel) + 1
        BY <3>1, <3>2, AppendSequence
      <4> QED
        BY <3>1, <3>2, <4>1, AppendSequence DEF SessionsInv, Shapes
    <3> QED
      BY <1>1, <3>1, <3>3 DEF SessionsInv, Shapes
  <2> QED
    BY <2>1, <2>2
<1> QED
  BY <1>1, <1>6, <1>7, <1>8 DEF SessionsInv

(* What the senders and the BRT leave alone.                                    *)
LEMMA ThreadsRest ==
    ASSUME SessionsInv, c' = c, UNCHANGED <<pc, composed>>,
           \A t \in Threads : pc[t] = "queue" =>
              Records(composed[t].kind, composed[t].call)' = Records(composed[t].kind, composed[t].call)
    PROVE  ComposedInv'
BY DEF SessionsInv, ComposedInv, Busy, IsStored, CallKey, Session

LEMMA SendKeeps ==
    ASSUME SessionsInv, SendCamel \/ SendDiam
    PROVE  SessionsInv'
<1>1. c \in Nat /\ c' = c /\ UNCHANGED <<pc, composed, sessions>>
  BY DEF SessionsInv, SendCamel, SendDiam, vars
<1>2. \A kind, k : Records(kind, k)' = Records(kind, k)
  BY <1>1 DEF Records, CallKey, Session
<1>3. ComposedInv'
  BY <1>1, <1>2, ThreadsRest
<1>4. \A t : Busy(t)' <=> Busy(t)
  BY <1>1 DEF Busy
<1>5. CASE SendCamel
  <2> DEFINE m == Head(camelChannel)
  <2>1. /\ camelChannel # <<>> /\ camelWire = Nothing /\ camelChannel' = Tail(camelChannel)
        /\ camelWire' = OnWire(m, [m.sid EXCEPT ![13] = <<"brt">>])
        /\ UNCHANGED <<diamChannel, diamWire>>
    BY <1>5 DEF SendCamel
  <2>2. IsSequence(camelChannel)
    BY DEF SessionsInv, Ahead, Channel, Kinds
  <2>3. /\ m = camelChannel[1] /\ 1 \in 1 .. Len(camelChannel)
        /\ \A i \in 1 .. Len(camelChannel') :
              camelChannel'[i] = camelChannel[i + 1] /\ i + 1 \in 1 .. Len(camelChannel)
    BY <2>1, <2>2, TailSequence
  <2>4. IsAuthorisation(m)
    BY <2>3 DEF SessionsInv, Shapes
  <2>5. m.sid = Session(m.call)
    BY <2>4 DEF IsAuthorisation
  <2>6. IsOnWire(camelWire') /\ camelWire'.call = m.call /\ camelWire'.rec = m.rec
    BY <2>1, <2>5 DEF OnWire, IsOnWire
  <2>7. Ahead("camel")'
    BY <1>1, <2>1, <2>6, AheadSent DEF Channel, Wire, Kinds, SessionsInv
  <2>8. Ahead("diameter")'
    BY <1>1, <1>2, <1>4, <2>1, AheadKept DEF Channel, Wire, Kinds, SessionsInv
  <2>9. Shapes'
    BY <2>1, <2>3, <2>6 DEF SessionsInv, Shapes
  <2> QED
    BY <1>1, <1>3, <2>7, <2>8, <2>9 DEF SessionsInv, Kinds
<1>6. CASE SendDiam
  <2> DEFINE m == Head(diamChannel)
  <2>1. /\ diamChannel # <<>> /\ diamWire = Nothing /\ diamChannel' = Tail(diamChannel)
        /\ diamWire' = [m EXCEPT !.message = Addressed(@)]
        /\ UNCHANGED <<camelChannel, camelWire>>
    BY <1>6 DEF SendDiam
  <2>2. IsSequence(diamChannel)
    BY DEF SessionsInv, Ahead, Channel, Kinds
  <2>3. /\ m = diamChannel[1] /\ 1 \in 1 .. Len(diamChannel)
        /\ \A i \in 1 .. Len(diamChannel') :
              diamChannel'[i] = diamChannel[i + 1] /\ i + 1 \in 1 .. Len(diamChannel)
    BY <2>1, <2>2, TailSequence
  <2>4. IsCredit(m)
    BY <2>3 DEF SessionsInv, Shapes
  <2>5. m = [kind |-> "diameter", call |-> m.call, rec |-> m.rec, message |-> m.message,
             sid |-> <<"session", m.call>>]
    BY <2>4 DEF IsCredit
  <2>6. diamWire' = [kind |-> "diameter", call |-> m.call, rec |-> m.rec,
                     message |-> Addressed(m.message), sid |-> <<"session", m.call>>]
    BY <2>1, <2>5
  <2>7. IsCredit(diamWire') /\ diamWire'.call = m.call /\ diamWire'.rec = m.rec
    BY <2>6 DEF IsCredit
  <2>8. Ahead("diameter")'
    BY <1>1, <2>1, <2>7, AheadSent DEF Channel, Wire, Kinds, SessionsInv
  <2>9. Ahead("camel")'
    BY <1>1, <1>2, <1>4, <2>1, AheadKept DEF Channel, Wire, Kinds, SessionsInv
  <2>10. Shapes'
    BY <2>1, <2>3, <2>7 DEF SessionsInv, Shapes
  <2> QED
    BY <1>1, <1>3, <2>8, <2>9, <2>10 DEF SessionsInv, Kinds
<1> QED
  BY <1>5, <1>6

(* A charged authorisation is followed by an end request for the same session.  *)
LEMMA ChargedKeeps ==
    ASSUME SessionsInv, AnswerCharged
    PROVE  SessionsInv'
<1>1. /\ c \in Nat /\ c' = c
      /\ UNCHANGED <<pc, composed, sessions, camelChannel, diamChannel, diamWire>>
  BY DEF SessionsInv, AnswerCharged, vars
<1>2. \A kind, k : Records(kind, k)' = Records(kind, k)
  BY <1>1 DEF Records, CallKey, Session
<1>3. \A t : Busy(t)' <=> Busy(t)
  BY <1>1 DEF Busy
<1>4. camelWire # Nothing /\ IsOnWire(camelWire)
  BY DEF AnswerCharged, SessionsInv, Shapes
<1>5. PICK type, wire : camelWire' = [camelWire EXCEPT !.type = type, !.wire = wire]
  BY DEF AnswerCharged
<1>6. camelWire = [kind |-> "camel", call |-> camelWire.call, rec |-> camelWire.rec,
                   type |-> camelWire.type,
                   sid |-> [Session(camelWire.call) EXCEPT ![13] = <<"brt">>],
                   wire |-> camelWire.wire, lac |-> camelWire.lac, cell |-> camelWire.cell]
  BY <1>4 DEF IsOnWire
<1>7. camelWire' = [kind |-> "camel", call |-> camelWire.call, rec |-> camelWire.rec, type |-> type,
                    sid |-> [Session(camelWire.call) EXCEPT ![13] = <<"brt">>],
                    wire |-> wire, lac |-> camelWire.lac, cell |-> camelWire.cell]
  <2>1. PICK call, rec, t, sid, w, lac, cell :
           camelWire = [kind |-> "camel", call |-> call, rec |-> rec, type |-> t, sid |-> sid,
                        wire |-> w, lac |-> lac, cell |-> cell]
    BY <1>6
  <2>2. camelWire' = [kind |-> "camel", call |-> call, rec |-> rec, type |-> type, sid |-> sid,
                      wire |-> wire, lac |-> lac, cell |-> cell]
    BY <1>5, <2>1
  <2>3. sid = [Session(camelWire.call) EXCEPT ![13] = <<"brt">>]
    BY <1>6, <2>1
  <2> QED
    BY <2>1, <2>2, <2>3
<1>8. IsOnWire(camelWire') /\ camelWire'.call = camelWire.call /\ camelWire'.rec = camelWire.rec
  BY <1>7 DEF IsOnWire
<1>9. ASSUME NEW kind \in Kinds PROVE Ahead(kind)'
  <2>1. /\ Channel(kind)' = Channel(kind)
        /\ Wire(kind)' # Nothing => /\ Wire(kind) # Nothing
                                    /\ Wire(kind)'.call = Wire(kind).call
                                    /\ Wire(kind)'.rec = Wire(kind).rec
    BY <1>1, <1>4, <1>8 DEF Channel, Wire
  <2> QED
    BY <1>1, <1>2, <1>3, <2>1, AheadKept DEF SessionsInv
<1>10. Shapes'
  BY <1>1, <1>8 DEF SessionsInv, Shapes
<1> QED
  BY <1>1, <1>2, <1>9, <1>10, ThreadsRest DEF SessionsInv

(* What an answer deletes is the record of the message it answers.              *)
LEMMA ForgetKeeps ==
    ASSUME SessionsInv, NEW kind \in Kinds, Wire(kind) # Nothing, Wire(kind)' = Nothing,
           Forget(kind, CallKey(kind, Wire(kind).call)),
           UNCHANGED <<c, pc, composed, camelChannel, diamChannel>>,
           \A other \in Kinds \ {kind} : Wire(other)' = Wire(other)
    PROVE  SessionsInv'
<1> DEFINE call == Wire(kind).call
<1>1. c \in Nat /\ c' = c /\ DOMAIN sessions = Kinds
  BY DEF SessionsInv
<1>2. /\ DOMAIN sessions' = Kinds
      /\ sessions'[kind] = {e \in sessions[kind] : e.key # CallKey(kind, call)}
      /\ \A other \in Kinds \ {kind} : sessions'[other] = sessions[other]
  BY <1>1 DEF Forget
<1>3. \A other \in Kinds : \A k : other # kind \/ k # call => Records(other, k)' = Records(other, k)
  <2>1. ASSUME NEW other \in Kinds, NEW k, other # kind
        PROVE  Records(other, k)' = Records(other, k)
    BY <1>2, <2>1 DEF Records, CallKey, Session
  <2>2. ASSUME NEW other \in Kinds, NEW k, other = kind, k # call
        PROVE  Records(other, k)' = Records(other, k)
    <3>1. CallKey(kind, k) # CallKey(kind, call)
      BY <2>2, CallKeyDiffers
    <3> QED
      BY <1>2, <2>2, <3>1 DEF Records, CallKey, Session
  <2> QED
    BY <2>1, <2>2
<1>4. Ahead(kind)
  BY DEF SessionsInv
<1>5. \A t : Busy(t)' <=> Busy(t)
  BY DEF Busy
<1>6. ComposedInv'
  <2>1. ASSUME NEW t \in Threads, pc[t] = "queue"
        PROVE  Records(composed[t].kind, composed[t].call)' = Records(composed[t].kind, composed[t].call)
    <3>1. Busy(t) /\ composed[t].kind \in Kinds
      BY <2>1, KindOfShape DEF Busy, SessionsInv, ComposedInv, Kinds
    <3>2. composed[t].kind = kind => composed[t].call # call
      BY <1>4, <3>1 DEF Ahead
    <3> QED
      BY <1>3, <3>1, <3>2
  <2> QED
    BY <2>1, ThreadsRest
<1>7. ASSUME NEW other \in Kinds PROVE Ahead(other)'
  <2>1. Ahead(other) /\ Channel(other)' = Channel(other)
    BY DEF SessionsInv, Channel
  <2>2. CASE other # kind
    <3>1. Wire(other)' = Wire(other) /\ \A k : Records(other, k)' = Records(other, k)
      BY <1>3, <2>2
    <3> QED
      BY <1>1, <1>5, <2>1, <3>1, AheadKept
  <2>3. CASE other = kind
    <3>1. Wire(other)' = Nothing
      BY <2>3
    <3>2. \A i \in 1 .. Len(Channel(other)) :
             Records(other, Channel(other)[i].call)' = Records(other, Channel(other)[i].call)
      BY <1>3, <1>4, <2>1, <2>3 DEF Ahead
    <3> QED
      BY <1>1, <1>5, <2>1, <3>1, <3>2, AheadKept
  <2> QED
    BY <2>2, <2>3
<1>8. Shapes'
  <2>1. camelWire' = camelWire \/ camelWire' = Nothing
    BY DEF Wire, Kinds
  <2>2. diamWire' = diamWire \/ diamWire' = Nothing
    BY DEF Wire, Kinds
  <2> QED
    BY <2>1, <2>2 DEF SessionsInv, Shapes
<1> QED
  BY <1>1, <1>2, <1>6, <1>7, <1>8 DEF SessionsInv

(* The place of the BRT's id is behind the key.                                 *)
LEMMA WireKey ==
    ASSUME NEW m, IsOnWire(m)
    PROVE  SessionKey(m.sid) = CallKey("camel", m.call)
<1>1. m.sid = [Session(m.call) EXCEPT ![13] = <<"brt">>]
  BY DEF IsOnWire
<1>2. \A i \in KeyBytes : m.sid[i] = Session(m.call)[i]
  BY <1>1 DEF KeyBytes, Session, NewCamelSessionID, SessionBytes
<1> QED
  BY <1>2 DEF SessionKey, CallKey

(* The dictionary gives Session-Id a type whose text ConvertType unwraps.       *)
LEMMA SessionIdBare == \A x : ConvertType("Session-Id", x) = x
<1>1. \A d \in Tables : TypesIn(d, "Session-Id") \subseteq {"UTF8String"}
  <2>1. TypesIn(CostAvps, "Session-Id") \subseteq {"UTF8String"}
    BY DEF TypesIn, CostAvps, Names, Rule
  <2>2. TypesIn(UnitAvps, "Session-Id") \subseteq {"UTF8String"}
    BY DEF TypesIn, UnitAvps, Names, Rule
  <2>3. TypesIn(ServiceAvps, "Session-Id") \subseteq {"UTF8String"}
    BY DEF TypesIn, ServiceAvps, Names, Rule
  <2>4. TypesIn(AccountingAvps, "Session-Id") \subseteq {"UTF8String"}
    BY DEF TypesIn, AccountingAvps, Names, Rule
  <2>5. TypesIn(PeerAvps, "Session-Id") \subseteq {"UTF8String"}
    BY DEF TypesIn, PeerAvps, Names, Rule
  <2>6. TypesIn(SessionAvps, "Session-Id") \subseteq {"UTF8String"}
    BY DEF TypesIn, SessionAvps, Names, Rule
  <2> QED
    BY <2>1, <2>2, <2>3, <2>4, <2>5, <2>6 DEF Tables
<1>2. TypesOf("Session-Id") \subseteq {"Unsigned32", "UTF8String"}
  BY <1>1 DEF TypesOf, TypesOfKnown
<1> QED
  BY <1>2 DEF ConvertType

LEMMA AnswerReadSid == AnswerRead.sid = diamWire.sid
BY SessionIdBare DEF AnswerRead, ResponseDiamHandler

LEMMA AnswersKeep ==
    ASSUME SessionsInv, AnswerClosing \/ AnswerDiam
    PROVE  SessionsInv'
<1>1. CASE AnswerClosing
  <2>1. camelWire # Nothing /\ SessionKey(camelWire.sid) = CallKey("camel", camelWire.call)
    BY <1>1, WireKey DEF AnswerClosing, SessionsInv, Shapes
  <2>2. /\ Wire("camel") = camelWire /\ Wire("camel")' = camelWire'
        /\ Wire("diameter")' = Wire("diameter")
    BY <1>1 DEF AnswerClosing, Wire
  <2> QED
    BY <1>1, <2>1, <2>2, ForgetKeeps DEF AnswerClosing, vars, Kinds
<1>2. CASE AnswerDiam
  <2>1. diamWire # Nothing /\ AnswerRead.sid = CallKey("diameter", diamWire.call)
    <3>1. diamWire # Nothing /\ IsCredit(diamWire)
      BY <1>2 DEF AnswerDiam, SessionsInv, Shapes
    <3>2. diamWire.sid = <<"session", diamWire.call>>
      BY <3>1 DEF IsCredit
    <3> QED
      BY <3>1, <3>2, AnswerReadSid DEF CallKey
  <2>2. /\ Wire("diameter") = diamWire /\ Wire("diameter")' = diamWire'
        /\ Wire("camel")' = Wire("camel")
    BY <1>2 DEF AnswerDiam, Wire
  <2> QED
    BY <1>2, <2>1, <2>2, ForgetKeeps DEF AnswerDiam, vars, Kinds
<1> QED
  BY <1>1, <1>2

LEMMA SessionsStutter ==
    ASSUME SessionsInv, UNCHANGED callVars
    PROVE  SessionsInv'
BY DEF SessionsInv, callVars, vars, pipeline, ComposedInv, Busy, IsStored, Records, CallKey, Session,
       Ahead, Channel, Wire, Shapes

LEMMA SessionsStep == SessionsInv /\ [CallsNext]_callVars => SessionsInv'
<1> SUFFICES ASSUME SessionsInv, [CallsNext]_callVars PROVE SessionsInv'
  OBVIOUS
<1>1. ASSUME NEW t \in Threads,
             \/ Compose(t) \/ AppendLac(t) \/ AppendCell(t)
             \/ StoreCall(t) \/ QueueCamel(t) \/ QueueDiam(t)
      PROVE  SessionsInv'
  BY <1>1, ComposeKeeps, LocationKeeps, StoreCallKeeps, QueueKeeps
<1>2. CASE SendCamel \/ SendDiam
  BY <1>2, SendKeeps
<1>3. CASE AnswerCharged
  BY <1>3, ChargedKeeps
<1>4. CASE AnswerClosing \/ AnswerDiam
  BY <1>4, AnswersKeep
<1>5. CASE UNCHANGED callVars
  BY <1>5, SessionsStutter
<1> QED
  BY <1>1, <1>2, <1>3, <1>4, <1>5 DEF CallsNext

LEMMA StoredCdrs ==
    ASSUME NEW kind, NEW m, IsStored(kind, m)
    PROVE  OfflineCdrs(kind, CallKey(kind, m.call)) = {CreateCDRRecord(m.rec)}
<1>1. {x \in sessions[kind] : x.key = CallKey(kind, m.call)}
      = {[key |-> CallKey(kind, m.call), rec |-> m.rec]}
  BY DEF IsStored, Records
<1> DEFINE e == [key |-> CallKey(kind, m.call), rec |-> m.rec]
<1>2. OfflineCdrs(kind, CallKey(kind, m.call)) = {CreateCDRRecord(e.rec)}
  <2> HIDE DEF e
  <2> QED
    BY <1>1 DEF OfflineCdrs, e
<1>3. e.rec = m.rec
  OBVIOUS
<1> QED
  BY <1>2, <1>3

(* The session id on the wire leads to the call's own offline CDR, whatever     *)
(* other calls threads compose, store and queue meanwhile (StoreCall and        *)
(* CamelSend work on the same bytes); and it names the BRT and the SCP.         *)
THEOREM SessionNames == CallsSpec => []SessionNamesCall
<1>1. SessionsInv => SessionNamesCall
  <2> SUFFICES ASSUME SessionsInv, camelWire # Nothing
               PROVE  /\ OfflineCdrs("camel", SessionKey(camelWire.sid))
                            = {CreateCDRRecord(camelWire.rec)}
                      /\ camelWire.sid[13] = <<"brt">>
                      /\ Len(ScpId) = 2 =>
                            camelWire.sid[12] = <<"scp", 16 * ScpId[1] + ScpId[2]>>
    BY DEF SessionNamesCall
  <2>1. IsOnWire(camelWire) /\ IsStored("camel", camelWire)
    BY DEF SessionsInv, Shapes, Ahead, Wire, Kinds
  <2>2. camelWire.sid = [Session(camelWire.call) EXCEPT ![13] = <<"brt">>]
    BY <2>1 DEF IsOnWire
  <2>3. camelWire.sid[13] = <<"brt">> /\ camelWire.sid[12] = <<"scp", Stringtobyte(ScpId)[1]>>
    BY <2>2 DEF Session, NewCamelSessionID, SessionBytes
  <2>4. Len(ScpId) = 2 => Stringtobyte(ScpId)[1] = 16 * ScpId[1] + ScpId[2]
    BY DEF Stringtobyte, BytesOf
  <2> QED
    BY <2>1, <2>3, <2>4, WireKey, StoredCdrs
<1> QED
  BY <1>1, SessionsInit, SessionsStep, PTL DEF CallsSpec

(* The session id the handler reads of an answer leads to the call's own        *)
(* offline CDR, and every answer has what its handler reads.                    *)
THEOREM AnswerNames == CallsSpec => []AnswerNamesCall
<1>1. \A command \in DOMAIN Answers : AvpsRead(command) \subseteq Answers[command].required
  BY DEF Answers, AvpsRead, CCAnswer, CEAnswer, DWAnswer, Rules
<1>2. SessionsInv => AnswerNamesCall
  <2> SUFFICES ASSUME SessionsInv, diamWire # Nothing
               PROVE  OfflineCdrs("diameter", AnswerRead.sid) = {CreateCDRRecord(diamWire.rec)}
    BY <1>1 DEF AnswerNamesCall
  <2>1. IsCredit(diamWire) /\ IsStored("diameter", diamWire)
    BY DEF SessionsInv, Shapes, Ahead, Wire, Kinds
  <2>2. AnswerRead.sid = CallKey("diameter", diamWire.call)
    <3>1. diamWire.sid = <<"session", diamWire.call>>
      BY <2>1 DEF IsCredit
    <3> QED
      BY <3>1, AnswerReadSid DEF CallKey
  <2> QED
    BY <2>1, <2>2, StoredCdrs
<1> QED
  BY <1>2, SessionsInit, SessionsStep, PTL DEF CallsSpec

-----------------------------------------------------------------------------
(* Sums over a finite set, as the folds of the library make them: f[s] is the   *)
(* sum of g[x] over the elements x of s, taken one by one.                      *)

Taken(s) == CHOOSE x \in s : TRUE

SumEquation(g, D, f) == f = [s \in D |-> IF s = {} THEN 0 ELSE g[Taken(s)] + f[s \ {Taken(s)}]]

IsSum(g, S, f) == SumEquation(g, SUBSET S, f)

LEMMA TakenOf == ASSUME NEW s, s # {} PROVE Taken(s) \in s
BY DEF Taken

LEMMA WithoutOne ==
    ASSUME NEW S, IsFiniteSet(S), NEW s \in SUBSET S, NEW x \in s
    PROVE  /\ IsFiniteSet(s) /\ Cardinality(s) \in Nat /\ Cardinality(s) > 0
           /\ s \ {x} \in SUBSET S /\ Cardinality(s \ {x}) = Cardinality(s) - 1
<1>1. IsFiniteSet(s) /\ Cardinality(s) \in Nat
  BY FS_Subset, FS_CardinalityType
<1>2. Cardinality(s \ {x}) = Cardinality(s) - 1
  BY <1>1, FS_RemoveElement
<1>3. Cardinality(s) # 0
  BY <1>1, FS_EmptySet
<1> QED
  BY <1>1, <1>2, <1>3

LEMMA SumExists ==
    ASSUME NEW S, IsFiniteSet(S), NEW g
    PROVE  \E f : IsSum(g, S, f)
<1> DEFINE Upto(n) == {s \in SUBSET S : Cardinality(s) <= n}
<1> DEFINE T == {n \in Nat : ~ \E f : SumEquation(g, Upto(n), f)}
<1>1. T = {}
  <2> SUFFICES ASSUME T # {} PROVE FALSE
    OBVIOUS
  <2>1. PICK n \in T : \A k \in T : n <= k
    BY Least, T \in SUBSET Nat
  <2>2. CASE n = 0
    <3>1. \A s \in Upto(0) : s = {}
      BY FS_Subset, FS_CardinalityType, FS_EmptySet
    <3>2. SumEquation(g, Upto(0), [s \in Upto(0) |-> 0])
      BY <3>1 DEF SumEquation
    <3> QED
      BY <2>1, <2>2, <3>2
  <2>3. CASE n # 0
    <3>1. n - 1 \in Nat /\ n - 1 \notin T
      <4>1. n \in Nat
        OBVIOUS
      <4> HIDE DEF T
      <4> QED
        BY <2>1, <2>3, <4>1
    <3>2. PICK f : SumEquation(g, Upto(n - 1), f)
      BY <3>1
    <3> DEFINE h == [s \in Upto(n) |-> IF s = {} THEN 0 ELSE g[Taken(s)] + f[s \ {Taken(s)}]]
    <3>3. ASSUME NEW s \in Upto(n), s # {}
          PROVE  h[s \ {Taken(s)}] = f[s \ {Taken(s)}]
      <4> DEFINE t == s \ {Taken(s)}
      <4>1. t \in Upto(n - 1) /\ t \in Upto(n)
        BY <3>1, <3>3, TakenOf, WithoutOne
      <4>2. f[t] = IF t = {} THEN 0 ELSE g[Taken(t)] + f[t \ {Taken(t)}]
        BY <3>2, <4>1 DEF SumEquation
      <4>3. h[t] = IF t = {} THEN 0 ELSE g[Taken(t)] + f[t \ {Taken(t)}]
        BY <4>1
      <4> QED
        BY <4>2, <4>3
    <3>4. SumEquation(g, Upto(n), h)
      BY <3>3 DEF SumEquation
    <3> QED
      BY <2>1, <3>4
  <2> QED
    BY <2>2, <2>3
<1>2. Cardinality(S) \in Nat /\ Upto(Cardinality(S)) = SUBSET S
  BY FS_CardinalityType, FS_Subset
<1>3. \E f : SumEquation(g, Upto(Cardinality(S)), f)
  BY <1>1, <1>2
<1> QED
  BY <1>2, <1>3 DEF IsSum

LEMMA SumNatural ==
    ASSUME NEW S, IsFiniteSet(S), NEW g, \A x \in S : g[x] \in Nat, NEW f, IsSum(g, S, f)
    PROVE  \A s \in SUBSET S : f[s] \in Nat
<1> DEFINE T == {Cardinality(s) : s \in {t \in SUBSET S : f[t] \notin Nat}}
<1> SUFFICES ASSUME T # {} PROVE FALSE
  OBVIOUS
<1>1. T \in SUBSET Nat
  BY FS_Subset, FS_CardinalityType
<1>2. PICK n \in T : \A k \in T : n <= k
  BY <1>1, Least
<1>3. PICK s \in SUBSET S : f[s] \notin Nat /\ Cardinality(s) = n
  OBVIOUS
<1>4. f[s] = IF s = {} THEN 0 ELSE g[Taken(s)] + f[s \ {Taken(s)}]
  BY DEF IsSum, SumEquation
<1>5. s # {}
  BY <1>3, <1>4
<1>6. Taken(s) \in s /\ s \ {Taken(s)} \in SUBSET S /\ Cardinality(s \ {Taken(s)}) = n - 1 /\ n \in Nat
  BY <1>3, <1>5, TakenOf, WithoutOne
<1>7. f[s \ {Taken(s)}] \in Nat
  BY <1>2, <1>6
<1> QED
  BY <1>3, <1>4, <1>5, <1>6, <1>7

(* The order in which the elements are taken makes no difference.               *)
LEMMA SumTakes ==
    ASSUME NEW S, IsFiniteSet(S), NEW g, \A x \in S : g[x] \in Nat, NEW f, IsSum(g, S, f),
           NEW s \in SUBSET S, NEW x \in s
    PROVE  f[s] = g[x] + f[s \ {x}]
<1> DEFINE Bad(u) == \E y \in u : f[u] # g[y] + f[u \ {y}]
<1> DEFINE T == {Cardinality(u) : u \in {t \in SUBSET S : Bad(t)}}
<1> SUFFICES ASSUME T # {} PROVE FALSE
  OBVIOUS
<1>1. T \in SUBSET Nat
  BY FS_Subset, FS_CardinalityType
<1>2. PICK n \in T : \A k \in T : n <= k
  BY <1>1, Least
<1>3. PICK u \in SUBSET S : Bad(u) /\ Cardinality(u) = n
  OBVIOUS
<1>4. PICK y \in u : f[u] # g[y] + f[u \ {y}]
  BY <1>3
<1> DEFINE z == Taken(u)
<1>5. z \in u /\ f[u] = g[z] + f[u \ {z}]
  BY TakenOf DEF IsSum, SumEquation
<1>6. y # z
  BY <1>4, <1>5
<1>7. /\ n \in Nat
      /\ u \ {z} \in SUBSET S /\ Cardinality(u \ {z}) = n - 1
      /\ u \ {y} \in SUBSET S /\ Cardinality(u \ {y}) = n - 1
  BY <1>3, <1>5, WithoutOne
<1>8. n - 1 \notin T
  BY <1>2, <1>7
<1>9. ~Bad(u \ {z}) /\ ~Bad(u \ {y})
  BY <1>7, <1>8
<1>10. f[u \ {z}] = g[y] + f[(u \ {z}) \ {y}] /\ f[u \ {y}] = g[z] + f[(u \ {y}) \ {z}]
  BY <1>5, <1>6, <1>9
<1>11. (u \ {z}) \ {y} = (u \ {y}) \ {z} /\ (u \ {z}) \ {y} \in SUBSET S
  OBVIOUS
<1>12. g[y] \in Nat /\ g[z] \in Nat /\ f[(u \ {z}) \ {y}] \in Nat
  BY <1>5, <1>11, SumNatural
<1> DEFINE rest == f[(u \ {z}) \ {y}]
<1>13. f[u] = g[z] + (g[y] + rest) /\ f[u \ {y}] = g[z] + rest /\ rest \in Nat
  BY <1>5, <1>10, <1>11, <1>12
<1> HIDE DEF rest, z
<1> QED
  BY <1>4, <1>12, <1>13

(* Nor does what the elements are called.                                       *)
LEMMA SumRenamed ==
    ASSUME NEW S, IsFiniteSet(S), NEW g, \A x \in S : g[x] \in Nat, NEW f, IsSum(g, S, f),
           NEW U, IsFiniteSet(U), NEW h, \A y \in U : h[y] \in Nat, NEW e, IsSum(h, U, e),
           NEW b, \A x \in S : b[x] \in U /\ h[b[x]] = g[x],
           \A x, y \in S : b[x] = b[y] => x = y
    PROVE  f[S] = e[{b[x] : x \in S}]
<1> DEFINE Image(s) == {b[x] : x \in s}
<1> DEFINE T == {Cardinality(s) : s \in {t \in SUBSET S : f[t] # e[Image(t)]}}
<1>0. \A s \in SUBSET S : Cardinality(s) \in Nat
  BY FS_Subset, FS_CardinalityType
<1>e. \A v \in SUBSET U : \A y \in v : e[v] = h[y] + e[v \ {y}]
  <2> HIDE DEF Image, T
  <2> SUFFICES ASSUME NEW v \in SUBSET U, NEW y \in v PROVE e[v] = h[y] + e[v \ {y}]
    OBVIOUS
  <2>1. IsFiniteSet(U) /\ (\A z \in U : h[z] \in Nat) /\ IsSum(h, U, e)
    OBVIOUS
  <2> QED
    BY <2>1, SumTakes
<1>1. T = {}
  <2> SUFFICES ASSUME T # {} PROVE FALSE
    OBVIOUS
  <2>1. T \in SUBSET Nat
    <3> HIDE DEF Image
    <3> QED
      BY <1>0
  <2>2. PICK n \in T : \A k \in T : n <= k
    BY <2>1, Least
  <2>3. PICK s \in SUBSET S : f[s] # e[Image(s)] /\ Cardinality(s) = n
    OBVIOUS
  <2>4. CASE s = {}
    <3>1. f[s] = 0
      BY <2>4 DEF IsSum, SumEquation
    <3>2. Image(s) = {} /\ e[{}] = 0
      BY <2>4 DEF IsSum, SumEquation
    <3> QED
      BY <2>3, <3>1, <3>2
  <2>5. CASE s # {}
    <3>1. PICK x : x \in s
      BY <2>5
    <3>2. n \in Nat /\ s \ {x} \in SUBSET S /\ Cardinality(s \ {x}) = n - 1
      BY <2>3, <3>1, WithoutOne
    <3>3. n - 1 \notin T
      <4> HIDE DEF T
      <4> QED
        BY <2>2, <3>2
    <3>4. f[s \ {x}] = e[Image(s \ {x})]
      BY <3>2, <3>3
    <3>5. Image(s) \in SUBSET U /\ b[x] \in Image(s) /\ Image(s) \ {b[x]} = Image(s \ {x})
      BY <3>1
    <3>6. f[s] = g[x] + f[s \ {x}]
      BY <3>1, SumTakes
    <3>7. e[Image(s)] = h[b[x]] + e[Image(s) \ {b[x]}]
      <4> HIDE DEF Image, T
      <4> QED
        BY <1>e, <3>5
    <3> QED
      BY <2>3, <3>1, <3>4, <3>5, <3>6, <3>7
  <2> QED
    BY <2>4, <2>5
<1>2. \A t \in SUBSET S : f[t] = e[Image(t)]
  <2> HIDE DEF Image
  <2> QED
    BY <1>1
<1> QED
  BY <1>2

(* Six hundred bytes for each of a hundred and three tags fit into sixteen bits.*)
LEMMA SumBounded ==
    ASSUME NEW S, IsFiniteSet(S), NEW g, \A p \in S : g[p] \in 0 .. 600, NEW f, IsSum(g, S, f),
           \A p \in S : p.tag \in 1 .. 103, \A p, q \in S : p.tag = q.tag => p = q
    PROVE  f[S] \in Nat /\ f[S] <= 600 * 103
<1>0. \A p \in S : g[p] \in Nat
  OBVIOUS
<1> DEFINE Low(n) == {s \in SUBSET S : \A p \in s : p.tag <= n}
<1> DEFINE T == {n \in Nat : \E s \in Low(n) : ~ (f[s] <= 600 * n)}
<1>1. \A s \in SUBSET S : f[s] \in Nat
  BY <1>0, SumNatural
<1>2. T = {}
  <2> SUFFICES ASSUME T # {} PROVE FALSE
    OBVIOUS
  <2>1. PICK n \in T : \A k \in T : n <= k
    BY Least, T \in SUBSET Nat
  <2>2. PICK s \in Low(n) : ~ (f[s] <= 600 * n)
    OBVIOUS
  <2>3. n \in Nat /\ s \in SUBSET S /\ f[s] \in Nat
    BY <1>1
  <2>4. CASE n = 0
    <3>1. s = {}
      <4>1. \A p \in s : p.tag \in 1 .. 103 /\ p.tag <= 0
        BY <2>3, <2>4
      <4> QED
        BY <4>1
    <3>2. f[s] = 0
      BY <2>3, <3>1 DEF IsSum, SumEquation
    <3> QED
      BY <2>2, <2>4, <3>2
  <2>5. CASE n # 0 /\ \A p \in s : p.tag # n
    <3>1. \A p \in s : p.tag \in 1 .. 103 /\ p.tag <= n
      BY <2>3
    <3>2. n - 1 \in Nat /\ s \in Low(n - 1)
      BY <2>3, <2>5, <3>1
    <3>3. n - 1 \notin T
      <4> HIDE DEF T
      <4> QED
        BY <2>1, <2>3, <3>2
    <3>4. f[s] <= 600 * (n - 1)
      BY <3>2, <3>3
    <3> QED
      BY <2>2, <2>3, <3>4
  <2>6. CASE n # 0 /\ \E p \in s : p.tag = n
    <3>1. PICK p \in s : p.tag = n
      BY <2>6
    <3>2. \A q \in s \ {p} : q \in S /\ p \in S /\ q.tag \in 1 .. 103 /\ q.tag <= n /\ q.tag # n
      BY <2>3, <3>1
    <3>3. n - 1 \in Nat /\ s \ {p} \in Low(n - 1)
      BY <2>3, <2>6, <3>2
    <3>4. n - 1 \notin T
      <4> HIDE DEF T
      <4> QED
        BY <2>1, <2>3, <3>3
    <3>5. f[s \ {p}] <= 600 * (n - 1) /\ f[s \ {p}] \in Nat
      BY <1>1, <3>3, <3>4
    <3>6. f[s] = g[p] + f[s \ {p}] /\ g[p] \in 0 .. 600
      <4> HIDE DEF T, Low
      <4> QED
        BY <1>0, <2>3, <3>1, SumTakes
    <3> QED
      BY <2>2, <2>3, <3>5, <3>6
  <2> QED
    BY <2>4, <2>5, <2>6
<1>3. 103 \notin T
  BY <1>2
<1>4. S \in Low(103)
  OBVIOUS
<1>5. f[S] <= 600 * 103
  BY <1>3, <1>4
<1> QED
  BY <1>1, <1>5

-----------------------------------------------------------------------------
(* Frames and what Encoder makes of them.                                       *)

(* What LenghtTCP counts for a parameter, and a reader for a unit.              *)
Counted(frame) == [p \in frame |-> 4 + IF IsStatic(p.tag) THEN StaticLen[TypeOf(p.tag)]
                                       ELSE p.size]
Carried(units) == [u \in units |-> 4 + u.size]

LEMMA LengthIsSum ==
    ASSUME NEW frame, IsFiniteSet(frame)
    PROVE  \E f : IsSum(Counted(frame), frame, f) /\ LenghtTCP(frame) = (8 + f[frame]) % 65536
<1> DEFINE E(f) == f = [s \in SUBSET frame |->
                          IF s = {} THEN 0
                          ELSE (4 + IF IsStatic((CHOOSE x \in s : TRUE).tag)
                                    THEN StaticLen[TypeOf((CHOOSE x \in s : TRUE).tag)]
                                    ELSE (CHOOSE x \in s : TRUE).size)
                               + f[s \ {CHOOSE x \in s : TRUE}]]
<1>1. \A f : IsSum(Counted(frame), frame, f) <=> E(f)
  BY DEF IsSum, SumEquation, Counted, Taken
<1>2. \E f : E(f)
  <2> HIDE DEF E
  <2> QED
    BY <1>1, SumExists
<1>3. E(CHOOSE f : E(f))
  <2> HIDE DEF E
  <2> QED
    BY <1>2
<1>4. LenghtTCP(frame) = (8 + (CHOOSE f : E(f))[frame]) % 65536
  BY DEF LenghtTCP, MapThenSumSet, MapThenFoldSet
<1> DEFINE e == CHOOSE f : E(f)
<1>5. IsSum(Counted(frame), frame, e) /\ LenghtTCP(frame) = (8 + e[frame]) % 65536
  <2> HIDE DEF E
  <2> QED
    BY <1>1, <1>3, <1>4
<1> HIDE DEF e, E
<1> QED
  BY <1>5, SMT

LEMMA CarriedIsSum ==
    ASSUME NEW wire, IsFiniteSet(wire.units)
    PROVE  \E e : /\ IsSum(Carried(wire.units), wire.units, e)
                  /\ InStep(wire) <=> /\ \A u \in wire.units : u.declared = u.size
                                      /\ wire.length = 8 + e[wire.units]
<1> DEFINE U == wire.units
<1> DEFINE E(f) == f = [s \in SUBSET U |->
                          IF s = {} THEN 0
                          ELSE (4 + (CHOOSE x \in s : TRUE).size) + f[s \ {CHOOSE x \in s : TRUE}]]
<1>1. \A f : IsSum(Carried(U), U, f) <=> E(f)
  BY DEF IsSum, SumEquation, Carried, Taken
<1>2. \E f : E(f)
  <2> HIDE DEF E
  <2> QED
    BY <1>1, SumExists
<1>3. E(CHOOSE f : E(f))
  <2> HIDE DEF E
  <2> QED
    BY <1>2
<1>4. InStep(wire) <=> /\ \A u \in U : u.declared = u.size
                       /\ wire.length = 8 + (CHOOSE f : E(f))[U]
  BY DEF InStep, MapThenSumSet, MapThenFoldSet
<1> DEFINE e == CHOOSE f : E(f)
<1>5. /\ IsSum(Carried(U), U, e)
      /\ InStep(wire) <=> (\A u \in U : u.declared = u.size) /\ wire.length = 8 + e[U]
  <2> HIDE DEF E
  <2> QED
    BY <1>1, <1>3, <1>4
<1> HIDE DEF e, E
<1> QED
  BY <1>5

(* A frame of parameters with tags from T: a parameter has as many bytes as its *)
(* type has, or a length of its own, which is right.                            *)
WellFormed(frame, T) ==
    /\ IsFiniteSet(frame)
    /\ \A p \in frame : /\ p.tag \in T /\ p.tag \in 1 .. 103 /\ p.size \in 0 .. 596
                        /\ IsStatic(p.tag) => p.size = StaticLen[TypeOf(p.tag)]
                        /\ ~IsStatic(p.tag) => TypeOf(p.tag) \in DynamicTypes /\ p.length = p.size
    /\ \A p, q \in frame : p.tag = q.tag => p = q

LEMMA EncodedInStep ==
    ASSUME NEW frame, NEW T, WellFormed(frame, T)
    PROVE  InStep(Encoder(frame))
<1> DEFINE wire == Encoder(frame)
<1> DEFINE b == [p \in frame |-> [tag |-> p.tag, declared |-> Declared(p), size |-> p.size]]
<1> DEFINE units == {b[p] : p \in frame}
<1>1. {q \in frame : IsStatic(q.tag) \/ TypeOf(q.tag) \in DynamicTypes} = frame
  BY DEF WellFormed
<1>2. wire.units = units /\ wire.length = LenghtTCP(frame)
  <2>1. wire.units = {[tag |-> p.tag, declared |-> Declared(p), size |-> p.size] : p \in frame}
    BY <1>1 DEF Encoder
  <2>2. wire.length = LenghtTCP(frame)
    BY DEF Encoder
  <2> QED
    BY <2>1, <2>2
<1>3. IsFiniteSet(frame)
  BY DEF WellFormed
<1>4. IsFiniteSet(units)
  <2>1. b \in Surjection(frame, units)
    BY DEF Surjection
  <2> HIDE DEF b, units
  <2> QED
    BY <1>3, <2>1, FS_Surjection
<1>5. \A p \in frame : Declared(p) = p.size
  BY DEF WellFormed, Declared
<1>6. \A p \in frame : Counted(frame)[p] = 4 + p.size /\ Counted(frame)[p] \in 0 .. 600
  BY DEF WellFormed, Counted
<1>7. ASSUME NEW p \in frame
      PROVE  /\ b[p] \in units /\ b[p].tag = p.tag /\ b[p].declared = p.size
             /\ b[p].size = p.size
  <2>1. b[p] = [tag |-> p.tag, declared |-> Declared(p), size |-> p.size] /\ b[p] \in units
    OBVIOUS
  <2> HIDE DEF b, units
  <2> QED
    BY <1>5, <2>1
<1>8. \A p, q \in frame : b[p] = b[q] => p = q
  BY <1>7 DEF WellFormed
<1>9. \A u \in units : \E p \in frame : u = b[p]
  OBVIOUS
<1> HIDE DEF b, wire
<1>10. \A u \in units : u.declared = u.size /\ Carried(units)[u] \in Nat
  <2>1. ASSUME NEW p \in frame
        PROVE  b[p].declared = b[p].size /\ 4 + b[p].size \in Nat
    <3>1. p.size \in 0 .. 596 /\ b[p].declared = p.size /\ b[p].size = p.size
      BY <1>7 DEF WellFormed
    <3> QED
      BY <3>1
  <2> QED
    BY <1>9, <2>1 DEF Carried
<1>11. \A p \in frame : Carried(units)[b[p]] = Counted(frame)[p]
  BY <1>6, <1>7 DEF Carried
<1>12. PICK f : IsSum(Counted(frame), frame, f) /\ LenghtTCP(frame) = (8 + f[frame]) % 65536
  BY <1>3, LengthIsSum, SMT
<1>13. PICK e : /\ IsSum(Carried(units), units, e)
                /\ InStep(wire) <=> /\ \A u \in units : u.declared = u.size
                                    /\ wire.length = 8 + e[units]
  <2> HIDE DEF units
  <2> QED
    BY <1>2, <1>4, CarriedIsSum
<1>14. f[frame] = e[units]
  <2>1. \A p \in frame : Counted(frame)[p] \in Nat
    BY <1>6
  <2>2. IsSum(Counted(frame), frame, f) /\ IsSum(Carried(units), units, e)
    BY <1>12, <1>13, SMT
  <2>3. \A p \in frame : b[p] \in units /\ Carried(units)[b[p]] = Counted(frame)[p]
    BY <1>7, <1>11
  <2>4. \A u \in units : Carried(units)[u] \in Nat
    BY <1>10
  <2> DEFINE g == Counted(frame)
  <2> DEFINE h == Carried(units)
  <2> HIDE DEF units, g, h
  <2>5. f[frame] = e[{b[p] : p \in frame}]
    <3>1. /\ IsSum(g, frame, f) /\ IsSum(h, units, e)
          /\ \A p \in frame : g[p] \in Nat /\ b[p] \in units /\ h[b[p]] = g[p]
          /\ \A u \in units : h[u] \in Nat
      BY <2>1, <2>2, <2>3, <2>4 DEF g, h
    <3> QED
      BY <1>3, <1>4, <1>8, <3>1, SumRenamed
  <2> QED
    BY <2>5 DEF units
<1>15. f[frame] \in Nat /\ f[frame] <= 600 * 103
  <2>1. IsSum(Counted(frame), frame, f)
    BY <1>12, SMT
  <2> QED
    BY <1>3, <1>6, <2>1, SumBounded DEF WellFormed
<1>16. LenghtTCP(frame) = 8 + f[frame]
  BY <1>12, <1>15, SMT
<1> HIDE DEF units
<1>17. InStep(wire)
  BY <1>2, <1>10, <1>13, <1>14, <1>16
<1> QED
  BY <1>17 DEF wire
-----------------------------------------------------------------------------
(* The requests.  The table gives a tag one type.                               *)
LEMMA TagsDisjoint ==
    ASSUME NEW type \in DOMAIN TagsOf, NEW other \in DOMAIN TagsOf, type # other,
           NEW tag \in TagsOf[type]
    PROVE  tag \notin TagsOf[other]
<1>1. DOMAIN TagsOf = {"integer", "boolean", "byte", "string", "buffer", "Short"}
  BY DEF TagsOf
<1>2. CASE type = "integer"
  BY <1>1, <1>2 DEF TagsOf
<1>3. CASE type = "boolean"
  BY <1>1, <1>3 DEF TagsOf
<1>4. CASE type = "byte"
  BY <1>1, <1>4 DEF TagsOf
<1>5. CASE type = "string"
  BY <1>1, <1>5 DEF TagsOf
<1>6. CASE type = "buffer"
  BY <1>1, <1>6 DEF TagsOf
<1>7. CASE type = "Short"
  BY <1>1, <1>7 DEF TagsOf
<1> QED
  BY <1>1, <1>2, <1>3, <1>4, <1>5, <1>6, <1>7

LEMMA TagTypes ==
    ASSUME NEW type \in DOMAIN TagsOf, NEW tag \in TagsOf[type]
    PROVE  TypeOf(tag) = type
BY TagsDisjoint DEF TypeOf

LEMMA TagsSmall ==
    ASSUME NEW type \in DOMAIN TagsOf, NEW tag \in TagsOf[type]
    PROVE  tag \in 1 .. 103
BY DEF TagsOf

(* The parameters that have the length they are composed with.                  *)
Small(n) == n \in 0 .. 596

Texts == TagsOf.string \cup TagsOf.buffer

LEMMA SizedFormed ==
    ASSUME NEW tag \in Texts, NEW n, Small(n)
    PROVE  WellFormed(Sized(tag, n), {tag})
<1>1. \E type \in {"string", "buffer"} : type \in DOMAIN TagsOf /\ tag \in TagsOf[type]
  BY DEF Texts, TagsOf
<1>2. TypeOf(tag) \in DynamicTypes /\ tag \in 1 .. 103
  BY <1>1, TagTypes, TagsSmall DEF DynamicTypes
<1>3. ~IsStatic(tag)
  BY <1>2 DEF IsStatic, StaticLen, DynamicTypes
<1>4. IsFiniteSet(Sized(tag, n))
  BY FS_Singleton DEF Sized
<1>5. \A p \in Sized(tag, n) : p.tag = tag /\ p.length = n /\ p.size = n
  BY DEF Sized
<1>6. \A p, q \in Sized(tag, n) : p = q
  BY DEF Sized
<1> QED
  BY <1>2, <1>3, <1>4, <1>5, <1>6 DEF WellFormed, Small

(* Those the requests use.                                                      *)
LEMMA TextTags ==
    /\ \h2C \in Texts /\ \h2E \in Texts /\ \h2D \in Texts /\ \h19 \in Texts
    /\ \h30 \in Texts /\ \h17 \in Texts /\ \h20 \in Texts /\ \h0A \in Texts
    /\ \h0B \in Texts /\ \h10 \in Texts /\ \h11 \in Texts /\ \h08 \in Texts
    /\ \h09 \in Texts /\ \h1A \in Texts /\ \h18 \in Texts /\ \h0E \in Texts
BY DEF Texts, TagsOf

LEMMA StaticFormed ==
    ASSUME NEW tag \in 1 .. 103, NEW of, NEW n \in 1 .. 4, IsStatic(tag),
           n = StaticLen[TypeOf(tag)]
    PROVE  WellFormed(Fixed(tag, of, n), {tag})
<1>1. IsFiniteSet(Fixed(tag, of, n))
  BY FS_Singleton DEF Fixed
<1>2. \A p \in Fixed(tag, of, n) : p.tag = tag /\ p.size = n /\ n \in 0 .. 596
  BY DEF Fixed
<1>3. \A p, q \in Fixed(tag, of, n) : p = q
  BY DEF Fixed
<1> QED
  BY <1>1, <1>2, <1>3 DEF WellFormed

LEMMA FixedFormed ==
    ASSUME NEW tag, NEW of, NEW n, \/ tag \in TagsOf.integer /\ n = 4
                                   \/ tag \in TagsOf.byte /\ n = 1
    PROVE  WellFormed(Fixed(tag, of, n), {tag})
<1>1. \/ "integer" \in DOMAIN TagsOf /\ tag \in TagsOf["integer"] /\ n = 4
      \/ "byte" \in DOMAIN TagsOf /\ tag \in TagsOf["byte"] /\ n = 1
  BY DEF TagsOf
<1>2. CASE "integer" \in DOMAIN TagsOf /\ tag \in TagsOf["integer"] /\ n = 4
  <2>1. TypeOf(tag) = "integer"
    BY <1>2, TagTypes
  <2>2. tag \in 1 .. 103
    BY <1>2, TagsSmall
  <2>3. IsStatic(tag) /\ n = StaticLen[TypeOf(tag)]
    BY <1>2, <2>1 DEF IsStatic, StaticLen
  <2>4. n \in 1 .. 4
    BY <1>2
  <2> QED
    BY <2>2, <2>3, <2>4, StaticFormed
<1>3. CASE "byte" \in DOMAIN TagsOf /\ tag \in TagsOf["byte"] /\ n = 1
  <2>1. TypeOf(tag) = "byte"
    BY <1>3, TagTypes
  <2>2. tag \in 1 .. 103
    BY <1>3, TagsSmall
  <2>3. IsStatic(tag) /\ n = StaticLen[TypeOf(tag)]
    BY <1>3, <2>1 DEF IsStatic, StaticLen
  <2>4. n \in 1 .. 4
    BY <1>3
  <2> QED
    BY <2>2, <2>3, <2>4, StaticFormed
<1> QED
  BY <1>1, <1>2, <1>3

LEMMA UnionFormed ==
    ASSUME NEW frame, NEW other, NEW T, NEW U, WellFormed(frame, T), WellFormed(other, U),
           NEW V, T \cup U = V, \A tag \in T : tag \notin U
    PROVE  WellFormed(frame \cup other, V)
<1>1. IsFiniteSet(frame \cup other)
  BY FS_Union DEF WellFormed
<1> QED
  BY <1>1 DEF WellFormed

(* What the settings and the pool allow: a number of the pool has eleven digits *)
(* and an IMSI fifteen, a second number eleven or none.                         *)
SmallDigits(x) == /\ Small(x.imsi) /\ Small(x.msisdn) /\ Small(x.dst)
                  /\ Small(x.smsc) /\ Small(x.location)

LEMMA SubscriberFormed ==
    ASSUME NEW x, SmallDigits(x)
    PROVE  WellFormed(Subscriber(x), {\h17, \h20, \h0A, \h0B})
<1> DEFINE P1 == Sized(\h17, x.imsi)
<1> DEFINE P2 == Sized(\h20, x.msisdn)
<1> DEFINE P3 == Sized(\h0A, x.msisdn)
<1> DEFINE P4 == Sized(\h0B, 3)
<1> DEFINE F3 == P1 \cup P2 \cup P3
<1>1. Small(x.imsi) /\ Small(x.msisdn) /\ Small(3)
  BY DEF SmallDigits, Small
<1>2. /\ WellFormed(P1, {\h17}) /\ WellFormed(P2, {\h20})
      /\ WellFormed(P3, {\h0A}) /\ WellFormed(P4, {\h0B})
  BY <1>1, TextTags, SizedFormed
<1>3. Subscriber(x) = F3 \cup P4
  BY DEF Subscriber
<1> HIDE DEF P1, P2, P3, P4
<1>4. WellFormed(P1 \cup P2, {\h17, \h20})
  BY <1>2, UnionFormed
<1>5. WellFormed(F3, {\h17, \h20, \h0A})
  BY <1>2, <1>4, UnionFormed
<1> HIDE DEF F3
<1>6. WellFormed(F3 \cup P4, {\h17, \h20, \h0A, \h0B})
  BY <1>2, <1>5, UnionFormed
<1> QED
  BY <1>3, <1>6

LEMMA ServiceCentreFormed ==
    ASSUME NEW x, SmallDigits(x)
    PROVE  WellFormed(IF x.smsc # 0 THEN Sized(\h2E, x.smsc) \cup Sized(\h2D, 2) ELSE {},
                      {\h2E, \h2D})
<1> DEFINE P1 == Sized(\h2E, x.smsc)
<1> DEFINE P2 == Sized(\h2D, 2)
<1>1. Small(x.smsc) /\ Small(2)
  BY DEF SmallDigits, Small
<1>2. WellFormed(P1, {\h2E}) /\ WellFormed(P2, {\h2D})
  BY <1>1, TextTags, SizedFormed
<1> HIDE DEF P1, P2
<1>3. WellFormed(P1 \cup P2, {\h2E, \h2D})
  BY <1>2, UnionFormed
<1>4. WellFormed({}, {\h2E, \h2D})
  BY FS_EmptySet DEF WellFormed
<1> QED
  BY <1>3, <1>4 DEF P1, P2

(* So every request sets each tag once, and each with the bytes it says.         *)
LEMMA AuthorizeSMS_reqFormed ==
    ASSUME NEW x, SmallDigits(x)
    PROVE  InStep(Encoder(AuthorizeSMS_req(x)))
<1> DEFINE P1 == Sized(\h2C, 16)
<1> DEFINE P2 == Fixed(\h2B, \h2B, 4)
<1> DEFINE P3 == Fixed(\h42, \h42, 1)
<1> DEFINE P4 == Fixed(\h15, \h15, 1)
<1> DEFINE P5 == (IF x.smsc # 0 THEN Sized(\h2E, x.smsc) \cup Sized(\h2D, 2) ELSE {})
<1> DEFINE P6 == Sized(\h19, x.location)
<1> DEFINE P7 == TimeAndTimezone
<1> DEFINE P8 == Subscriber(x)
<1> DEFINE P9 == Sized(\h10, x.dst)
<1> DEFINE P10 == Sized(\h11, 2)
<1> DEFINE F1 == P1
<1> DEFINE F2 == F1 \cup P2
<1> DEFINE F3 == F2 \cup P3
<1> DEFINE F4 == F3 \cup P4
<1> DEFINE F5 == F4 \cup P5
<1> DEFINE F6 == F5 \cup P6
<1> DEFINE F7 == F6 \cup P7
<1> DEFINE F8 == F7 \cup P8
<1> DEFINE F9 == F8 \cup P9
<1> DEFINE F10 == F9 \cup P10
<1>0. /\ Small(x.dst) /\ Small(x.location)
      /\ Small(0) /\ Small(2) /\ Small(3) /\ Small(8) /\ Small(16)
  BY DEF SmallDigits, Small
<1>1. WellFormed(P1, {\h2C})
  BY <1>0, TextTags, SizedFormed
<1>2. WellFormed(P2, {\h2B})
  BY FixedFormed DEF TagsOf
<1>3. WellFormed(P3, {\h42})
  BY FixedFormed DEF TagsOf
<1>4. WellFormed(P4, {\h15})
  BY FixedFormed DEF TagsOf
<1>5. WellFormed(P5, {\h2E, \h2D})
  BY ServiceCentreFormed
<1>6. WellFormed(P6, {\h19})
  BY <1>0, TextTags, SizedFormed
<1>7. WellFormed(P7, {\h30})
  BY <1>0, TextTags, SizedFormed DEF TimeAndTimezone
<1>8. WellFormed(P8, {\h17, \h20, \h0A, \h0B})
  BY SubscriberFormed
<1>9. WellFormed(P9, {\h10})
  BY <1>0, TextTags, SizedFormed
<1>10. WellFormed(P10, {\h11})
  BY <1>0, TextTags, SizedFormed
<1>11. AuthorizeSMS_req(x) = F10
  BY DEF AuthorizeSMS_req
<1> HIDE DEF P1, P2, P3, P4, P5, P6, P7, P8, P9, P10
<1>12. WellFormed(F2, {\h2C, \h2B})
BY <1>1, <1>2, UnionFormed
<1>13. WellFormed(F3, {\h2C, \h2B, \h42})
BY <1>12, <1>3, UnionFormed
<1>14. WellFormed(F4, {\h2C, \h2B, \h42, \h15})
BY <1>13, <1>4, UnionFormed
<1>15. WellFormed(F5, {\h2C, \h2B, \h42, \h15, \h2E, \h2D})
BY <1>14, <1>5, UnionFormed
<1>16. WellFormed(F6, {\h2C, \h2B, \h42, \h15, \h2E, \h2D, \h19})
BY <1>15, <1>6, UnionFormed
<1>17. WellFormed(F7, {\h2C, \h2B, \h42, \h15, \h2E, \h2D, \h19, \h30})
BY <1>16, <1>7, UnionFormed
<1>18. WellFormed(F8, {\h2C, \h2B, \h42, \h15, \h2E, \h2D, \h19, \h30, \h17, \h20, \h0A, \h0B})
BY <1>17, <1>8, UnionFormed
<1>19. WellFormed(F9, {\h2C, \h2B, \h42, \h15, \h2E, \h2D, \h19, \h30, \h17, \h20, \h0A, \h0B, \h10})
BY <1>18, <1>9, UnionFormed
<1>20. WellFormed(F10, {\h2C, \h2B, \h42, \h15, \h2E, \h2D, \h19, \h30, \h17, \h20, \h0A, \h0B, \h10, \h11})
BY <1>19, <1>10, UnionFormed
<1> QED
  BY <1>11, <1>20, EncodedInStep

LEMMA AuthorizeVoice_reqFormed ==
    ASSUME NEW x, SmallDigits(x)
    PROVE  InStep(Encoder(AuthorizeVoice_req(x)))
<1> DEFINE P1 == Sized(\h2C, 16)
<1> DEFINE P2 == Fixed(\h2B, \h2B, 4)
<1> DEFINE P3 == Fixed(\h42, \h42, 1)
<1> DEFINE P4 == Subscriber(x)
<1> DEFINE P5 == Fixed(\h2A, \h2A, 4)
<1> DEFINE P6 == Fixed(\h3F, \h3F, 1)
<1> DEFINE P7 == Sized(\h08, x.dst)
<1> DEFINE P8 == Sized(\h09, 3)
<1> DEFINE P9 == TimeAndTimezone
<1> DEFINE P10 == Sized(\h1A, 0)
<1> DEFINE P11 == Fixed(\h14, \h14, 1)
<1> DEFINE P12 == Sized(\h18, x.location)
<1> DEFINE F1 == P1
<1> DEFINE F2 == F1 \cup P2
<1> DEFINE F3 == F2 \cup P3
<1> DEFINE F4 == F3 \cup P4
<1> DEFINE F5 == F4 \cup P5
<1> DEFINE F6 == F5 \cup P6
<1> DEFINE F7 == F6 \cup P7
<1> DEFINE F8 == F7 \cup P8
<1> DEFINE F9 == F8 \cup P9
<1> DEFINE F10 == F9 \cup P10
<1> DEFINE F11 == F10 \cup P11
<1> DEFINE F12 == F11 \cup P12
<1>0. /\ Small(x.dst) /\ Small(x.location)
      /\ Small(0) /\ Small(2) /\ Small(3) /\ Small(8) /\ Small(16)
  BY DEF SmallDigits, Small
<1>1. WellFormed(P1, {\h2C})
  BY <1>0, TextTags, SizedFormed
<1>2. WellFormed(P2, {\h2B})
  BY FixedFormed DEF TagsOf
<1>3. WellFormed(P3, {\h42})
  BY FixedFormed DEF TagsOf
<1>4. WellFormed(P4, {\h17, \h20, \h0A, \h0B})
  BY SubscriberFormed
<1>5. WellFormed(P5, {\h2A})
  BY FixedFormed DEF TagsOf
<1>6. WellFormed(P6, {\h3F})
  BY FixedFormed DEF TagsOf
<1>7. WellFormed(P7, {\h08})
  BY <1>0, TextTags, SizedFormed
<1>8. WellFormed(P8, {\h09})
  BY <1>0, TextTags, SizedFormed
<1>9. WellFormed(P9, {\h30})
  BY <1>0, TextTags, SizedFormed DEF TimeAndTimezone
<1>10. WellFormed(P10, {\h1A})
  BY <1>0, TextTags, SizedFormed
<1>11. WellFormed(P11, {\h14})
  BY FixedFormed DEF TagsOf
<1>12. WellFormed(P12, {\h18})
  BY <1>0, TextTags, SizedFormed
<1>13. AuthorizeVoice_req(x) = F12
  BY DEF AuthorizeVoice_req
<1> HIDE DEF P1, P2, P3, P4, P5, P6, P7, P8, P9, P10, P11, P12
<1>14. WellFormed(F2, {\h2C, \h2B})
BY <1>1, <1>2, UnionFormed
<1>15. WellFormed(F3, {\h2C, \h2B, \h42})
BY <1>14, <1>3, UnionFormed
<1>16. WellFormed(F4, {\h2C, \h2B, \h42, \h17, \h20, \h0A, \h0B})
BY <1>15, <1>4, UnionFormed
<1>17. WellFormed(F5, {\h2C, \h2B, \h42, \h17, \h20, \h0A, \h0B, \h2A})
BY <1>16, <1>5, UnionFormed
<1>18. WellFormed(F6, {\h2C, \h2B, \h42, \h17, \h20, \h0A, \h0B, \h2A, \h3F})
BY <1>17, <1>6, UnionFormed
<1>19. WellFormed(F7, {\h2C, \h2B, \h42, \h17, \h20, \h0A, \h0B, \h2A, \h3F, \h08})
BY <1>18, <1>7, UnionFormed
<1>20. WellFormed(F8, {\h2C, \h2B, \h42, \h17, \h20, \h0A, \h0B, \h2A, \h3F, \h08, \h09})
BY <1>19, <1>8, UnionFormed
<1>21. WellFormed(F9, {\h2C, \h2B, \h42, \h17, \h20, \h0A, \h0B, \h2A, \h3F, \h08, \h09, \h30})
BY <1>20, <1>9, UnionFormed
<1>22. WellFormed(F10, {\h2C, \h2B, \h42, \h17, \h20, \h0A, \h0B, \h2A, \h3F, \h08, \h09, \h30, \h1A})
BY <1>21, <1>10, UnionFormed
<1>23. WellFormed(F11, {\h2C, \h2B, \h42, \h17, \h20, \h0A, \h0B, \h2A, \h3F, \h08, \h09, \h30, \h1A, \h14})
BY <1>22, <1>11, UnionFormed
<1>24. WellFormed(F12, {\h2C, \h2B, \h42, \h17, \h20, \h0A, \h0B, \h2A, \h3F, \h08, \h09, \h30, \h1A, \h14, \h18})
BY <1>23, <1>12, UnionFormed
<1> QED
  BY <1>13, <1>24, EncodedInStep

LEMMA EndSMS_reqFormed ==
    InStep(Encoder(EndSMS_req))
<1> DEFINE P1 == Sized(\h2C, 16)
<1> DEFINE P2 == Fixed(\h3A, \h2B, 1)
<1> DEFINE P3 == Fixed(\h2F, \h2B, 1)
<1> DEFINE F1 == P1
<1> DEFINE F2 == F1 \cup P2
<1> DEFINE F3 == F2 \cup P3
<1>0. Small(16) /\ Small(19)
  BY DEF Small
<1>1. WellFormed(P1, {\h2C})
  BY <1>0, TextTags, SizedFormed
<1>2. WellFormed(P2, {\h3A})
  BY FixedFormed DEF TagsOf
<1>3. WellFormed(P3, {\h2F})
  BY FixedFormed DEF TagsOf
<1>4. EndSMS_req = F3
  BY DEF EndSMS_req
<1> HIDE DEF P1, P2, P3
<1>5. WellFormed(F2, {\h2C, \h3A})
BY <1>1, <1>2, UnionFormed
<1>6. WellFormed(F3, {\h2C, \h3A, \h2F})
BY <1>5, <1>3, UnionFormed
<1> QED
  BY <1>4, <1>6, EncodedInStep

LEMMA EndVoice_reqFormed ==
    InStep(Encoder(EndVoice_req))
<1> DEFINE P1 == Sized(\h2C, 16)
<1> DEFINE P2 == Fixed(\h3A, \h2B, 1)
<1> DEFINE P3 == Fixed(\h26, \h26, 4)
<1> DEFINE P4 == Fixed(\h04, \h04, 4)
<1> DEFINE P5 == Fixed(\h05, \h05, 4)
<1> DEFINE P6 == Sized(\h0E, 19)
<1> DEFINE F1 == P1
<1> DEFINE F2 == F1 \cup P2
<1> DEFINE F3 == F2 \cup P3
<1> DEFINE F4 == F3 \cup P4
<1> DEFINE F5 == F4 \cup P5
<1> DEFINE F6 == F5 \cup P6
<1>0. Small(16) /\ Small(19)
  BY DEF Small
<1>1. WellFormed(P1, {\h2C})
  BY <1>0, TextTags, SizedFormed
<1>2. WellFormed(P2, {\h3A})
  BY FixedFormed DEF TagsOf
<1>3. WellFormed(P3, {\h26})
  BY FixedFormed DEF TagsOf
<1>4. WellFormed(P4, {\h04})
  BY FixedFormed DEF TagsOf
<1>5. WellFormed(P5, {\h05})
  BY FixedFormed DEF TagsOf
<1>6. WellFormed(P6, {\h0E})
  BY <1>0, TextTags, SizedFormed
<1>7. EndVoice_req = F6
  BY DEF EndVoice_req
<1> HIDE DEF P1, P2, P3, P4, P5, P6
<1>8. WellFormed(F2, {\h2C, \h3A})
BY <1>1, <1>2, UnionFormed
<1>9. WellFormed(F3, {\h2C, \h3A, \h26})
BY <1>8, <1>3, UnionFormed
<1>10. WellFormed(F4, {\h2C, \h3A, \h26, \h04})
BY <1>9, <1>4, UnionFormed
<1>11. WellFormed(F5, {\h2C, \h3A, \h26, \h04, \h05})
BY <1>10, <1>5, UnionFormed
<1>12. WellFormed(F6, {\h2C, \h3A, \h26, \h04, \h05, \h0E})
BY <1>11, <1>6, UnionFormed
<1> QED
  BY <1>7, <1>12, EncodedInStep
-----------------------------------------------------------------------------
(* The length of the constant part of the location: FoldLeft takes the last     *)
(* place of a set of places away until none is left.                            *)
AppendEquation(seq, U, f) ==
    f = [s \in U |-> IF s = {} THEN [len |-> 0, cap |-> 0]
                     ELSE AppendBytes(f[s \ {Max(s)}], seq[Max(s)])]

LEMMA LastPlace ==
    ASSUME NEW n \in Nat, NEW s \in SUBSET (1 .. n), s # {}
    PROVE  Max(s) \in s /\ \A x \in s : x <= Max(s)
<1> DEFINE T == {k \in Nat : \A x \in s : x <= k}
<1>1. n \in T
  OBVIOUS
<1>2. PICK k \in T : \A m \in T : k <= m
  BY <1>1, Least, T \in SUBSET Nat
<1>3. k \in Nat /\ \A x \in s : x \in Nat /\ x > 0 /\ x <= k
  BY <1>2
<1>4. k \in s
  <2> SUFFICES ASSUME k \notin s PROVE FALSE
    OBVIOUS
  <2>1. PICK y : y \in s
    OBVIOUS
  <2>2. k - 1 \in Nat /\ \A x \in s : x <= k - 1
    BY <1>3, <2>1
  <2>3. k - 1 \in T
    BY <2>2
  <2> HIDE DEF T
  <2> QED
    BY <1>2, <1>3, <2>3
<1>5. \E m \in s : \A x \in s : m >= x
  BY <1>3, <1>4
<1>6. Max(s) \in s /\ \A x \in s : Max(s) >= x
  BY <1>5 DEF Max
<1> QED
  BY <1>3, <1>6

LEMMA AppendExists ==
    ASSUME NEW n \in Nat, NEW seq
    PROVE  \E f : AppendEquation(seq, SUBSET (1 .. n), f)
<1> DEFINE S == 1 .. n
<1> DEFINE Upto(m) == {s \in SUBSET S : Cardinality(s) <= m}
<1> DEFINE T == {m \in Nat : ~ \E f : AppendEquation(seq, Upto(m), f)}
<1>0. IsFiniteSet(S)
  BY FS_Interval
<1>1. T = {}
  <2> SUFFICES ASSUME T # {} PROVE FALSE
    OBVIOUS
  <2>1. PICK m \in T : \A k \in T : m <= k
    BY Least, T \in SUBSET Nat
  <2>2. CASE m = 0
    <3>1. \A s \in Upto(0) : s = {}
      <4> SUFFICES ASSUME NEW s \in SUBSET S, Cardinality(s) <= 0 PROVE s = {}
        OBVIOUS
      <4>1. IsFiniteSet(s) /\ Cardinality(s) \in Nat
        BY <1>0, FS_Subset, FS_CardinalityType
      <4> QED
        BY <4>1, FS_EmptySet
    <3>2. AppendEquation(seq, Upto(0), [s \in Upto(0) |-> [len |-> 0, cap |-> 0]])
      BY <3>1 DEF AppendEquation
    <3> QED
      BY <2>1, <2>2, <3>2
  <2>3. CASE m # 0
    <3>1. m - 1 \in Nat /\ m - 1 \notin T
      <4>1. m \in Nat
        OBVIOUS
      <4> HIDE DEF T
      <4> QED
        BY <2>1, <2>3, <4>1
    <3>2. PICK f : AppendEquation(seq, Upto(m - 1), f)
      BY <3>1
    <3> DEFINE h == [s \in Upto(m) |-> IF s = {} THEN [len |-> 0, cap |-> 0]
                                       ELSE AppendBytes(f[s \ {Max(s)}], seq[Max(s)])]
    <3>3. ASSUME NEW s \in Upto(m), s # {}
          PROVE  h[s \ {Max(s)}] = f[s \ {Max(s)}]
      <4> DEFINE t == s \ {Max(s)}
      <4>1. t \in Upto(m - 1) /\ t \in Upto(m)
        <5>1. Max(s) \in s
          BY <3>3, LastPlace
        <5>2. Cardinality(s) \in Nat /\ t \in SUBSET S /\ Cardinality(t) = Cardinality(s) - 1
          BY <1>0, <5>1, WithoutOne
        <5> QED
          BY <3>1, <5>2
      <4>2. f[t] = IF t = {} THEN [len |-> 0, cap |-> 0]
                   ELSE AppendBytes(f[t \ {Max(t)}], seq[Max(t)])
        BY <3>2, <4>1 DEF AppendEquation
      <4>3. h[t] = IF t = {} THEN [len |-> 0, cap |-> 0]
                   ELSE AppendBytes(f[t \ {Max(t)}], seq[Max(t)])
        BY <4>1
      <4> QED
        BY <4>2, <4>3
    <3>4. AppendEquation(seq, Upto(m), h)
      BY <3>3 DEF AppendEquation
    <3> QED
      BY <2>1, <3>4
  <2> QED
    BY <2>2, <2>3
<1>2. Cardinality(S) \in Nat /\ Upto(Cardinality(S)) = SUBSET S
  BY <1>0, FS_CardinalityType, FS_Subset
<1>3. \E f : AppendEquation(seq, Upto(Cardinality(S)), f)
  BY <1>1, <1>2
<1> QED
  BY <1>2, <1>3

LEMMA FoldIsAppend ==
    ASSUME NEW n \in Nat, NEW seq, DOMAIN seq = 1 .. n
    PROVE  \E f : /\ AppendEquation(seq, SUBSET (1 .. n), f)
                  /\ FoldLeft(AppendBytes, [len |-> 0, cap |-> 0], seq) = f[1 .. n]
<1> DEFINE E(f) == f = [s \in SUBSET (1 .. n) |->
                          IF s = {} THEN [len |-> 0, cap |-> 0]
                          ELSE AppendBytes(f[s \ {Max(s)}], seq[Max(s)])]
<1>1. \A f : AppendEquation(seq, SUBSET (1 .. n), f) <=> E(f)
  BY DEF AppendEquation
<1>2. \E f : E(f)
  <2> HIDE DEF E
  <2> QED
    BY <1>1, AppendExists
<1>3. E(CHOOSE f : E(f))
  <2> HIDE DEF E
  <2> QED
    BY <1>2
<1>4. FoldLeft(AppendBytes, [len |-> 0, cap |-> 0], seq) = (CHOOSE f : E(f))[1 .. n]
  BY DEF FoldLeft, MapThenFoldSet
<1> HIDE DEF E
<1> QED
  BY <1>1, <1>3, <1>4

(* The first places, one more at a time.                                        *)
LEMMA NoPlace ==
    ASSUME NEW n \in Nat, NEW seq, NEW f, AppendEquation(seq, SUBSET (1 .. n), f)
    PROVE  f[1 .. 0].len = 0
<1>1. 1 .. 0 = {} /\ {} \in SUBSET (1 .. n)
  OBVIOUS
<1>2. f[{}] = [len |-> 0, cap |-> 0]
  BY <1>1 DEF AppendEquation
<1> QED
  BY <1>1, <1>2

Grows(seq, n, f) == \A k \in 1 .. n : f[1 .. k] = AppendBytes(f[1 .. (k - 1)], seq[k])

LEMMA NextPlace ==
    ASSUME NEW n \in Nat, NEW seq, NEW f, AppendEquation(seq, SUBSET (1 .. n), f)
    PROVE  Grows(seq, n, f)
<1> SUFFICES ASSUME NEW k \in 1 .. n PROVE f[1 .. k] = AppendBytes(f[1 .. (k - 1)], seq[k])
  BY DEF Grows
<1>1. 1 .. k \in SUBSET (1 .. n) /\ 1 .. k # {} /\ k \in 1 .. k
  OBVIOUS
<1>2. Max(1 .. k) = k
  <2>1. Max(1 .. k) \in 1 .. k /\ \A x \in 1 .. k : x <= Max(1 .. k)
    BY <1>1, LastPlace
  <2> QED
    BY <1>1, <2>1
<1>3. (1 .. k) \ {k} = 1 .. (k - 1)
  OBVIOUS
<1>4. f[1 .. k] = AppendBytes(f[(1 .. k) \ {Max(1 .. k)}], seq[Max(1 .. k)])
  BY <1>1 DEF AppendEquation
<1> QED
  BY <1>2, <1>3, <1>4

LEMMA TwelvePlaces ==
    ASSUME NEW seq, DOMAIN seq = 1 .. 12, \A k \in 1 .. 12 : seq[k] \in Nat
    PROVE  FoldLeft(AppendBytes, [len |-> 0, cap |-> 0], seq).len
             = seq[1] + seq[2] + seq[3] + seq[4] + seq[5] + seq[6]
               + seq[7] + seq[8] + seq[9] + seq[10] + seq[11] + seq[12]
<1>1. PICK f : /\ AppendEquation(seq, SUBSET (1 .. 12), f)
               /\ FoldLeft(AppendBytes, [len |-> 0, cap |-> 0], seq) = f[1 .. 12]
  BY FoldIsAppend
<1> DEFINE L(k) == f[1 .. k].len
<1>2. L(0) = 0 /\ \A k \in 1 .. 12 : L(k) = L(k - 1) + seq[k]
  <2>1. f[1 .. 0].len = 0
    BY <1>1, NoPlace
  <2>2. \A k \in 1 .. 12 : f[1 .. k] = AppendBytes(f[1 .. (k - 1)], seq[k])
    <3>1. Grows(seq, 12, f)
      BY <1>1, NextPlace
    <3> QED
      BY <3>1 DEF Grows
  <2> QED
    BY <2>1, <2>2 DEF AppendBytes
<1> HIDE DEF L
<1>3. L(1) = seq[1] /\ L(2) = seq[1] + seq[2] /\ L(3) = seq[1] + seq[2] + seq[3]
  BY <1>2
<1> DEFINE a == seq[1] + seq[2] + seq[3]
<1>4. L(4) = a + seq[4] /\ L(5) = a + seq[4] + seq[5] /\ L(6) = a + seq[4] + seq[5] + seq[6]
  BY <1>2, <1>3
<1> DEFINE b == a + seq[4] + seq[5] + seq[6]
<1>5. L(7) = b + seq[7] /\ L(8) = b + seq[7] + seq[8] /\ L(9) = b + seq[7] + seq[8] + seq[9]
  BY <1>2, <1>4
<1> DEFINE d == b + seq[7] + seq[8] + seq[9]
<1>6. L(10) = d + seq[10] /\ L(11) = d + seq[10] + seq[11]
  BY <1>2, <1>5
<1>7. L(12) = d + seq[10] + seq[11] + seq[12]
  BY <1>2, <1>6
<1> QED
  BY <1>1, <1>7 DEF L

LEMMA LocationLength ==
    ASSUME NEW xvlr \in Nat, NEW country \in Nat, NEW operator \in Nat
    PROVE  LocationMSCbase(xvlr, country, operator).len
             = 9 + BytesOf(xvlr) + BytesOf(country) + BytesOf(operator)
<1> DEFINE seq == <<1, 1, 1, 1, 1, BytesOf(xvlr), 1, 1, 1, 1, BytesOf(country), BytesOf(operator)>>
<1>1. BytesOf(xvlr) \in Nat /\ BytesOf(country) \in Nat /\ BytesOf(operator) \in Nat
  BY DEF BytesOf
<1>2. /\ DOMAIN seq = 1 .. 12
      /\ seq[1] = 1 /\ seq[2] = 1 /\ seq[3] = 1 /\ seq[4] = 1 /\ seq[5] = 1
      /\ seq[6] = BytesOf(xvlr) /\ seq[7] = 1 /\ seq[8] = 1 /\ seq[9] = 1 /\ seq[10] = 1
      /\ seq[11] = BytesOf(country) /\ seq[12] = BytesOf(operator)
  OBVIOUS
<1>3. LocationMSCbase(xvlr, country, operator) = FoldLeft(AppendBytes, [len |-> 0, cap |-> 0], seq)
  BY DEF LocationMSCbase
<1> HIDE DEF seq
<1>4. \A k \in 1 .. 12 : seq[k] \in Nat
  BY <1>1, <1>2
<1>5. FoldLeft(AppendBytes, [len |-> 0, cap |-> 0], seq).len
        = seq[1] + seq[2] + seq[3] + seq[4] + seq[5] + seq[6]
          + seq[7] + seq[8] + seq[9] + seq[10] + seq[11] + seq[12]
  BY <1>2, <1>4, TwelvePlaces
<1> QED
  BY <1>1, <1>2, <1>3, <1>5
-----------------------------------------------------------------------------
(* What the messages hold, on their way from the thread to the BRT.             *)
Units == {"SPECIFIC", "SECONDS", "OCTETS"}

Made(m) ==
    /\ m.kind = "camel" => \E sub \in CreatePoolList :
                              m.frame \in {AuthorizeSMS_req(Digits(sub)), AuthorizeVoice_req(Digits(sub))}
    /\ m.kind = "diameter" => \E unit \in Units : m.message = CreateCCREventMessage(unit)

(* Numbers of up to three hundred digits: the length of a request has 16 bits.  *)
SmallSettings == {SmscDigits, XvlrDigits, CountryDigits, OperatorDigits} \subseteq 0 .. 300

MessagesInv ==
    /\ \A t \in Threads : Busy(t) => Made(composed[t])
    /\ \A kind \in Kinds : \A i \in 1 .. Len(Channel(kind)) : Made(Channel(kind)[i])
    /\ SmallSettings /\ camelWire # Nothing => \A wire \in {camelWire.wire} : InStep(wire)
    /\ diamWire # Nothing =>
          \E unit \in Units : diamWire.message = Addressed(CreateCCREventMessage(unit))

LEMMA HalfSmall == ASSUME NEW n \in 0 .. 300 PROVE BytesOf(n) \in 0 .. 150
BY DEF BytesOf

LEMMA LocationSmall ==
    ASSUME NEW x \in 0 .. 150, NEW y \in 0 .. 150, NEW z \in 0 .. 150
    PROVE  Small(9 + x + y + z + 4)
BY DEF Small

LEMMA SmallDigitsOf ==
    ASSUME SmallSettings, NEW sub \in CreatePoolList
    PROVE  SmallDigits(Digits(sub))
<1>1. sub.msisdn = 11 /\ sub.imsi = 15
  BY DEF CreatePoolList, checkRowTypes
<1>2. Small(RandomMSISDN)
  <2>1. RandomMSISDN = 0 \/ RandomMSISDN = 11
    BY DEF RandomMSISDN, generateRussianMSISDN
  <2>2. Small(0) /\ Small(11)
    BY DEF Small
  <2> QED
    BY <2>1, <2>2
<1>3. /\ XvlrDigits \in 0 .. 300 /\ CountryDigits \in 0 .. 300 /\ OperatorDigits \in 0 .. 300
      /\ SmscDigits \in 0 .. 300
  BY Zenon DEF SmallSettings
<1>4. /\ BytesOf(XvlrDigits) \in 0 .. 150 /\ BytesOf(CountryDigits) \in 0 .. 150
      /\ BytesOf(OperatorDigits) \in 0 .. 150
  BY <1>3, HalfSmall
<1>5. Base.len = 9 + BytesOf(XvlrDigits) + BytesOf(CountryDigits) + BytesOf(OperatorDigits)
  BY <1>3, LocationLength DEF Base
<1>6. Small(Base.len + 4)
  <2> DEFINE x == BytesOf(XvlrDigits)
  <2> DEFINE y == BytesOf(CountryDigits)
  <2> DEFINE z == BytesOf(OperatorDigits)
  <2>1. x \in 0 .. 150 /\ y \in 0 .. 150 /\ z \in 0 .. 150 /\ Base.len = 9 + x + y + z
    BY <1>4, <1>5, Zenon
  <2> HIDE DEF x, y, z
  <2>2. Small(9 + x + y + z + 4)
    BY <2>1, LocationSmall
  <2> QED
    BY <2>1, <2>2
<1>7. Small(11) /\ Small(15) /\ Small(SmscDigits)
  BY <1>3 DEF Small
<1>8. /\ Digits(sub).imsi = 15 /\ Digits(sub).msisdn = 11 /\ Digits(sub).dst = RandomMSISDN
      /\ Digits(sub).smsc = SmscDigits /\ Digits(sub).location = Base.len + 4
  BY <1>1 DEF Digits
<1> QED
  BY <1>2, <1>6, <1>7, <1>8 DEF SmallDigits

(* Any authorisation a thread composes is in step when it is encoded.           *)
LEMMA MadeInStep ==
    ASSUME SmallSettings, NEW m, m.kind = "camel", Made(m)
    PROVE  InStep(Encoder(m.frame))
<1>1. PICK sub \in CreatePoolList :
         m.frame \in {AuthorizeSMS_req(Digits(sub)), AuthorizeVoice_req(Digits(sub))}
  BY DEF Made
<1>2. SmallDigits(Digits(sub))
  BY SmallDigitsOf
<1> QED
  BY <1>1, <1>2, AuthorizeSMS_reqFormed, AuthorizeVoice_reqFormed

LEMMA MessageMade ==
    ASSUME NEW k, NEW s, NEW sub \in CreatePoolList, NEW at
    PROVE  LET m == MessageOf(k, s, Record(k, s, sub, at)) IN m = Nothing \/ Made(m)
<1> DEFINE rec == Record(k, s, sub, at)
<1>1. rec.sub = sub
  BY DEF Record
<1>2. \A type, frame : /\ Authorisation(k, rec, type, frame).kind = "camel"
                       /\ Authorisation(k, rec, type, frame).frame = frame
  BY DEF Authorisation
<1>3. \A measure : /\ CreditRequest(k, rec, measure).kind = "diameter"
                   /\ CreditRequest(k, rec, measure).message = CreateCCREventMessage(measure)
  BY DEF CreditRequest
<1>4. ASSUME NEW measure
      PROVE  \E unit \in Units : CreateCCREventMessage(measure) = CreateCCREventMessage(unit)
  <2>1. CASE measure \in {"SPECIFIC", "SECONDS"}
    BY <2>1 DEF Units
  <2>2. CASE measure \notin {"SPECIFIC", "SECONDS"}
    <3>1. Requested(measure) = Requested("OCTETS")
      BY <2>2 DEF Requested
    <3>2. Services(measure) = Services("OCTETS") /\ Information(measure) = Information("OCTETS")
      BY <2>2, <3>1 DEF Services, Information
    <3> QED
      BY <3>2 DEF CreateCCREventMessage, Units
  <2> QED
    BY <2>1, <2>2
<1> HIDE DEF rec
<1>5. \A type, frame : frame \in {AuthorizeSMS_req(Digits(sub)), AuthorizeVoice_req(Digits(sub))}
                          => Made(Authorisation(k, rec, type, frame))
  BY <1>2 DEF Made
<1>6. \A measure : Made(CreditRequest(k, rec, measure))
  BY <1>3, <1>4 DEF Made
<1>7. MessageOf(k, s, rec) = Nothing \/ Made(MessageOf(k, s, rec))
  BY <1>1, <1>5, <1>6 DEF MessageOf
<1> QED
  BY <1>7 DEF rec

LEMMA MessagesInit == CallsInit => MessagesInv
BY DEF CallsInit, MessagesInv, Busy, Channel, Kinds

LEMMA MessagesCompose ==
    ASSUME SessionsInv, MessagesInv, NEW t \in Threads, Compose(t)
    PROVE  MessagesInv'
<1>1. UNCHANGED <<camelChannel, camelWire, diamChannel, diamWire>>
  BY DEF Compose
<1>2. PICK m : composed' = [composed EXCEPT ![t] = m] /\ (m = Nothing \/ Made(m))
  <2>1. PICK sub \in CreatePoolList, i \in DOMAIN LACCELLpool :
           composed' = [composed EXCEPT ![t] =
              MessageOf(c + 1, Settings[RandomRecType(c)],
                        Record(c + 1, Settings[RandomRecType(c)], sub, LACCELLpool[i]))]
    BY DEF Compose
  <2> QED
    BY <2>1, MessageMade
<1>3. pc \in [Threads -> {"draw", "lac", "cell", "store", "queue"}] /\ DOMAIN composed = Threads
  BY DEF SessionsInv, ComposedInv
<1>4. pc' = [pc EXCEPT ![t] = FirstStep[composed'[t].kind]]
  BY DEF Compose
<1>5. composed'[t] = m /\ \A u \in Threads \ {t} : composed'[u] = composed[u] /\ pc'[u] = pc[u]
  BY <1>2, <1>3, <1>4
<1>6. m = Nothing => pc'[t] = "draw"
  BY <1>3, <1>4, <1>5, KindOfShape DEF FirstStep
<1>7. \A u \in Threads : Busy(u)' => Made(composed'[u])
  BY <1>2, <1>5, <1>6 DEF MessagesInv, Busy
<1>8. \A u \in Threads : Busy(u)' => Made(composed[u])'
  BY <1>7 DEF Made
<1> QED
  BY <1>1, <1>8 DEF MessagesInv, Channel, Made
LEMMA MessagesLocation ==
    ASSUME SessionsInv, MessagesInv, NEW t \in Threads, AppendLac(t) \/ AppendCell(t)
    PROVE  MessagesInv'
<1>1. /\ UNCHANGED <<camelChannel, camelWire, diamChannel, diamWire>>
      /\ pc[t] \in {"lac", "cell"}
      /\ composed' = composed \/ \E p : composed' = [composed EXCEPT ![t].place = p]
  BY DEF AppendLac, AppendCell
<1>2. pc' = [pc EXCEPT ![t] = "cell"] \/ pc' = [pc EXCEPT ![t] = "store"]
  BY DEF AppendLac, AppendCell
<1>3. pc \in [Threads -> {"draw", "lac", "cell", "store", "queue"}] /\ DOMAIN composed = Threads
  BY DEF SessionsInv, ComposedInv
<1>4. IsAuthorisation(composed[t]) /\ Made(composed[t])
  BY <1>1 DEF SessionsInv, ComposedInv, MessagesInv, Busy
<1>5. Made(composed'[t])
  <2>1. CASE composed' = composed
    BY <1>4, <2>1
  <2>2. CASE \E p : composed' = [composed EXCEPT ![t].place = p]
    <3>1. PICK p : composed' = [composed EXCEPT ![t].place = p]
      BY <2>2
    <3>2. composed'[t] = [composed[t] EXCEPT !.place = p]
      BY <1>3, <3>1
    <3>3. composed'[t].kind = composed[t].kind /\ composed'[t].frame = composed[t].frame
      BY <1>4, <3>2 DEF IsAuthorisation
    <3> QED
      BY <1>4, <3>3 DEF Made, IsAuthorisation
  <2> QED
    BY <1>1, <2>1, <2>2
<1>6. \A u \in Threads \ {t} : composed'[u] = composed[u] /\ pc'[u] = pc[u]
  BY <1>1, <1>2, <1>3
<1>7. \A u \in Threads : Busy(u)' => Made(composed'[u])
  BY <1>5, <1>6 DEF MessagesInv, Busy
<1>8. \A u \in Threads : Busy(u)' => Made(composed[u])'
  BY <1>7 DEF Made
<1> QED
  BY <1>1, <1>8 DEF MessagesInv, Channel, Made

LEMMA MessagesStored ==
    ASSUME SessionsInv, MessagesInv, NEW t \in Threads, StoreCall(t)
    PROVE  MessagesInv'
<1>1. /\ UNCHANGED <<composed, camelChannel, camelWire, diamChannel, diamWire>>
      /\ pc[t] = "store" /\ pc' = [pc EXCEPT ![t] = "queue"]
      /\ pc \in [Threads -> {"draw", "lac", "cell", "store", "queue"}]
  BY DEF StoreCall, SessionsInv, ComposedInv
<1>2. \A u \in Threads : Busy(u)' => Busy(u)
  BY <1>1 DEF Busy
<1> QED
  BY <1>1, <1>2 DEF MessagesInv, Channel, Made

LEMMA MessagesQueued ==
    ASSUME SessionsInv, MessagesInv, NEW t \in Threads, QueueCamel(t) \/ QueueDiam(t)
    PROVE  MessagesInv'
<1>1. /\ pc[t] = "queue" /\ pc' = [pc EXCEPT ![t] = "draw"]
      /\ composed' = [composed EXCEPT ![t] = Nothing] /\ UNCHANGED <<camelWire, diamWire>>
      /\ pc \in [Threads -> {"draw", "lac", "cell", "store", "queue"}] /\ DOMAIN composed = Threads
  BY DEF QueueCamel, QueueDiam, SessionsInv, ComposedInv
<1>2. \A u \in Threads : Busy(u)' => Busy(u) /\ composed'[u] = composed[u]
  BY <1>1 DEF Busy
<1>3. \A u \in Threads : Busy(u)' => Made(composed'[u])
  BY <1>2 DEF MessagesInv
<1>4. ASSUME NEW kind \in Kinds, NEW i \in 1 .. Len(Channel(kind)') PROVE Made(Channel(kind)'[i])
  <2>1. Channel(kind)' = Channel(kind) \/ Channel(kind)' = Append(Channel(kind), composed[t])
    BY DEF QueueCamel, QueueDiam, Channel, Kinds
  <2>2. IsSequence(Channel(kind)) /\ Made(composed[t])
    BY <1>1 DEF SessionsInv, Ahead, MessagesInv, Busy
  <2>3. CASE Channel(kind)' = Channel(kind)
    BY <1>4, <2>3 DEF MessagesInv
  <2>4. CASE Channel(kind)' = Append(Channel(kind), composed[t])
    <3>1. \/ i \in 1 .. Len(Channel(kind)) /\ Channel(kind)'[i] = Channel(kind)[i]
          \/ Channel(kind)'[i] = composed[t]
      BY <1>4, <2>2, <2>4, AppendSequence
    <3> QED
      BY <2>2, <3>1 DEF MessagesInv
  <2> QED
    BY <2>1, <2>3, <2>4
<1> QED
  BY <1>1, <1>3, <1>4 DEF MessagesInv, Made

LEMMA MessagesSent ==
    ASSUME SessionsInv, MessagesInv, SendCamel \/ SendDiam
    PROVE  MessagesInv'
<1>1. UNCHANGED <<pc, composed>>
  BY DEF SendCamel, SendDiam
<1>2. ASSUME NEW kind \in Kinds, Channel(kind) # <<>>, Channel(kind)' = Tail(Channel(kind))
      PROVE  /\ Made(Head(Channel(kind)))
             /\ \A i \in 1 .. Len(Channel(kind)') : Made(Channel(kind)'[i])
             /\ Head(Channel(kind)) = Channel(kind)[1] /\ 1 \in 1 .. Len(Channel(kind))
  <2>1. IsSequence(Channel(kind))
    BY DEF SessionsInv, Ahead
  <2>2. /\ Head(Channel(kind)) = Channel(kind)[1] /\ 1 \in 1 .. Len(Channel(kind))
        /\ \A i \in 1 .. Len(Channel(kind)') :
              Channel(kind)'[i] = Channel(kind)[i + 1] /\ i + 1 \in 1 .. Len(Channel(kind))
    BY <1>2, <2>1, TailSequence
  <2> QED
    BY <2>2 DEF MessagesInv
<1>3. CASE SendCamel
  <2> DEFINE m == Head(camelChannel)
  <2>1. /\ camelChannel # <<>> /\ camelChannel' = Tail(camelChannel)
        /\ camelWire' = OnWire(m, [m.sid EXCEPT ![13] = <<"brt">>])
        /\ UNCHANGED <<diamChannel, diamWire>>
    BY <1>3 DEF SendCamel
  <2>2. /\ Made(m) /\ \A i \in 1 .. Len(camelChannel') : Made(camelChannel'[i])
        /\ m = camelChannel[1] /\ 1 \in 1 .. Len(camelChannel)
    BY <1>2, <2>1 DEF Channel, Kinds
  <2>3. m.kind = "camel"
    BY <2>2 DEF SessionsInv, Shapes, IsAuthorisation
  <2>4. camelWire'.wire = Encoder(m.frame)
    BY <2>1 DEF OnWire
  <2>5. SmallSettings => InStep(camelWire'.wire)
    BY <2>2, <2>3, <2>4, MadeInStep
  <2> QED
    BY <1>1, <2>1, <2>2, <2>5 DEF MessagesInv, Made, Channel, Kinds, Busy, SmallSettings
<1>4. CASE SendDiam
  <2> DEFINE m == Head(diamChannel)
  <2>1. /\ diamChannel # <<>> /\ diamChannel' = Tail(diamChannel)
        /\ diamWire' = [m EXCEPT !.message = Addressed(@)]
        /\ UNCHANGED <<camelChannel, camelWire>>
    BY <1>4 DEF SendDiam
  <2>2. /\ Made(m) /\ \A i \in 1 .. Len(diamChannel') : Made(diamChannel'[i])
        /\ m = diamChannel[1] /\ 1 \in 1 .. Len(diamChannel)
    BY <1>2, <2>1 DEF Channel, Kinds
  <2>3. IsCredit(m)
    BY <2>2 DEF SessionsInv, Shapes
  <2>4. diamWire'.message = Addressed(m.message)
    BY <2>1, <2>3 DEF IsCredit
  <2>5. \E unit \in Units : diamWire'.message = Addressed(CreateCCREventMessage(unit))
    BY <2>2, <2>3, <2>4 DEF Made, IsCredit
  <2> QED
    BY <1>1, <2>1, <2>2, <2>5 DEF MessagesInv, Made, Channel, Kinds, Busy
<1> QED
  BY <1>3, <1>4

LEMMA MessagesAnswered ==
    ASSUME SessionsInv, MessagesInv, AnswerCharged \/ AnswerClosing \/ AnswerDiam
    PROVE  MessagesInv'
<1>1. UNCHANGED <<pc, composed, camelChannel, diamChannel>>
  BY DEF AnswerCharged, AnswerClosing, AnswerDiam
<1>2. \/ camelWire' = camelWire
      \/ camelWire' = Nothing
      \/ camelWire'.wire \in {Encoder(EndSMS_req), Encoder(EndVoice_req)}
  <2>1. CASE AnswerCharged
    <3>1. camelWire = [kind |-> "camel", call |-> camelWire.call, rec |-> camelWire.rec,
                       type |-> camelWire.type,
                       sid |-> [Session(camelWire.call) EXCEPT ![13] = <<"brt">>],
                       wire |-> camelWire.wire, lac |-> camelWire.lac, cell |-> camelWire.cell]
      BY <2>1 DEF AnswerCharged, SessionsInv, Shapes, IsOnWire
    <3>2. \E type, wire : /\ camelWire' = [camelWire EXCEPT !.type = type, !.wire = wire]
                          /\ wire \in {Encoder(EndSMS_req), Encoder(EndVoice_req)}
      BY <2>1 DEF AnswerCharged
    <3> QED
      BY <3>1, <3>2
  <2>2. CASE AnswerClosing \/ AnswerDiam
    BY <2>2 DEF AnswerClosing, AnswerDiam
  <2> QED
    BY <2>1, <2>2
<1>3. camelWire' # Nothing /\ SmallSettings => InStep(camelWire'.wire)
  <2>1. \A wire \in {Encoder(EndSMS_req), Encoder(EndVoice_req)} : InStep(wire)
    BY EndSMS_reqFormed, EndVoice_reqFormed
  <2>2. camelWire # Nothing /\ SmallSettings => InStep(camelWire.wire)
    BY DEF MessagesInv
  <2> QED
    BY <1>2, <2>1, <2>2
<1>4. diamWire' = diamWire \/ diamWire' = Nothing
  BY DEF AnswerCharged, AnswerClosing, AnswerDiam
<1> QED
  BY <1>1, <1>3, <1>4 DEF MessagesInv, Made, Channel, Kinds, Busy, SmallSettings

LEMMA MessagesStep == SessionsInv /\ MessagesInv /\ [CallsNext]_callVars => MessagesInv'
<1> SUFFICES ASSUME SessionsInv, MessagesInv, [CallsNext]_callVars PROVE MessagesInv'
  OBVIOUS
<1>1. ASSUME NEW t \in Threads,
             \/ Compose(t) \/ AppendLac(t) \/ AppendCell(t)
             \/ StoreCall(t) \/ QueueCamel(t) \/ QueueDiam(t)
      PROVE  MessagesInv'
  BY <1>1, MessagesCompose, MessagesLocation, MessagesStored, MessagesQueued
<1>2. CASE SendCamel \/ SendDiam \/ AnswerCharged \/ AnswerClosing \/ AnswerDiam
  BY <1>2, MessagesSent, MessagesAnswered
<1>3. CASE UNCHANGED callVars
  BY <1>3 DEF callVars, vars, pipeline, MessagesInv, Made, Channel, Kinds, Busy, SmallSettings
<1> QED
  BY <1>1, <1>2, <1>3 DEF CallsNext

(* Every CAMEL request a BRT gets, authorisations and end requests of both      *)
(* kinds, has each parameter with the bytes it declares and ends where its      *)
(* header says, for any subscribers and settings of up to three hundred digits. *)
THEOREM RequestsAreInStep ==
    ASSUME SmallSettings
    PROVE  CallsSpec => []RequestsInStep
<1>1. SessionsInv /\ MessagesInv => RequestsInStep
  BY DEF MessagesInv, RequestsInStep
<1>2. CallsInit => SessionsInv /\ MessagesInv
  BY SessionsInit, MessagesInit
<1>3. SessionsInv /\ MessagesInv /\ [CallsNext]_callVars => (SessionsInv /\ MessagesInv)'
  BY SessionsStep, MessagesStep
<1> QED
  BY <1>1, <1>2, <1>3, PTL DEF CallsSpec
-----------------------------------------------------------------------------
(* The Diameter requests and the dictionary: the types it gives to the names    *)
(* the client uses, table by table.                                             *)
CostTypes ==
    {<<"CC-Request-Type", "Enumerated">>, <<"CC-Request-Number", "Unsigned32">>,
     <<"CC-Service-Specific-Units", "Unsigned64">>, <<"CC-Time", "Unsigned32">>,
     <<"CC-Total-Octets", "Unsigned64">>}

UnitTypes ==
    {<<"Multiple-Services-Indicator", "Enumerated">>, <<"Requested-Action", "Enumerated">>,
     <<"Requested-Service-Unit", "Grouped">>, <<"Rating-Group", "Unsigned32">>,
     <<"Multiple-Services-Credit-Control", "Grouped">>}

ServiceTypes ==
    {<<"Service-Context-Id", "UTF8String">>, <<"Subscription-Id", "Grouped">>,
     <<"Subscription-Id-Type", "Enumerated">>, <<"Subscription-Id-Data", "UTF8String">>}

AccountingTypes ==
    {<<"Auth-Application-Id", "Unsigned32">>, <<"Acct-Application-Id", "Unsigned32">>}

PeerTypes ==
    {<<"Event-Timestamp", "Time">>, <<"Origin-Host", "DiameterIdentity">>,
     <<"Origin-Realm", "DiameterIdentity">>, <<"Destination-Realm", "DiameterIdentity">>,
     <<"Destination-Host", "DiameterIdentity">>, <<"Origin-State-Id", "Unsigned32">>,
     <<"Host-IP-Address", "Address">>, <<"Product-Name", "UTF8String">>,
     <<"Firmware-Revision", "Unsigned32">>}

SessionTypes ==
    {<<"Session-Id", "UTF8String">>, <<"User-Name", "UTF8String">>,
     <<"Vendor-Id", "Unsigned32">>, <<"Vendor-Specific-Application-Id", "Grouped">>}

TypeIs == CostTypes \cup UnitTypes \cup ServiceTypes \cup AccountingTypes \cup PeerTypes
          \cup SessionTypes

AllTypes == {CostTypes, UnitTypes, ServiceTypes, AccountingTypes, PeerTypes, SessionTypes}

(* Every name has its type in a table, and another in none.                     *)
LEMMA TypeFound ==
    ASSUME NEW n, NEW t, <<n, t>> \in TypeIs
    PROVE  \E d \in Tables : t \in TypesIn(d, n)
<1>1. <<n, t>> \in CostTypes => t \in TypesIn(CostAvps, n)
  BY DEF CostTypes, TypesIn, CostAvps
<1>2. <<n, t>> \in UnitTypes => t \in TypesIn(UnitAvps, n)
  BY DEF UnitTypes, TypesIn, UnitAvps, Names, Rule
<1>3. <<n, t>> \in ServiceTypes => t \in TypesIn(ServiceAvps, n)
  BY DEF ServiceTypes, TypesIn, ServiceAvps, Names, Rule
<1>4. <<n, t>> \in AccountingTypes => t \in TypesIn(AccountingAvps, n)
  BY DEF AccountingTypes, TypesIn, AccountingAvps
<1>5. <<n, t>> \in PeerTypes => t \in TypesIn(PeerAvps, n)
  BY DEF PeerTypes, TypesIn, PeerAvps
<1>6. <<n, t>> \in SessionTypes => t \in TypesIn(SessionAvps, n)
  BY DEF SessionTypes, TypesIn, SessionAvps, Names, Rule
<1> QED
  BY <1>1, <1>2, <1>3, <1>4, <1>5, <1>6 DEF TypeIs, Tables

LEMMA TypesAre ==
    ASSUME NEW d \in Tables, NEW n, NEW t, <<n, t>> \in TypeIs
    PROVE  TypesIn(d, n) \subseteq {t}
<1> USE DEF TypesIn, Names, Rule, TypeIs, CostTypes, UnitTypes, ServiceTypes, AccountingTypes,
            PeerTypes, SessionTypes
<1>1. CASE d = CostAvps
  BY <1>1 DEF CostAvps
<1>2. CASE d = UnitAvps
  BY <1>2 DEF UnitAvps
<1>3. CASE d = ServiceAvps
  BY <1>3 DEF ServiceAvps
<1>4. CASE d = AccountingAvps
  BY <1>4 DEF AccountingAvps
<1>5. CASE d = PeerAvps
  BY <1>5 DEF PeerAvps
<1>6. CASE d = SessionAvps
  BY <1>6 DEF SessionAvps
<1> QED
  BY <1>1, <1>2, <1>3, <1>4, <1>5, <1>6 DEF Tables

(* A name that is not grouped has no members.                                   *)
LEMMA NotGrouped ==
    ASSUME NEW n, NEW t, <<n, t>> \in TypeIs, t # "Grouped"
    PROVE  n \notin DOMAIN MembersOf
<1> SUFFICES ASSUME n \in DOMAIN MembersOf PROVE FALSE
  OBVIOUS
<1>1. PICK d \in Tables : \E g \in d.groups : g.name = n
  BY DEF MembersOf, Names
<1>2. "Grouped" \in TypesIn(d, n)
  BY <1>1 DEF TypesIn, Names
<1> QED
  BY <1>2, TypesAre

LEMMA TypeOfName ==
    ASSUME NEW n, NEW t, <<n, t>> \in TypeIs
    PROVE  TypesOf(n) = {t}
<1>1. PICK d \in Tables : t \in TypesIn(d, n)
  BY TypeFound
<1>2. n \in Known
  <2>1. CASE t \in DOMAIN d.types /\ n \in d.types[t]
    BY <2>1 DEF Known
  <2>2. CASE n \in Names(d.groups)
    BY <2>2 DEF Known
  <2> QED
    BY <1>1, <2>1, <2>2 DEF TypesIn
<1>3. TypesOf(n) = UNION {TypesIn(x, n) : x \in Tables}
  BY <1>2 DEF TypesOf, TypesOfKnown
<1>4. \A x \in Tables : TypesIn(x, n) \subseteq {t}
  BY TypesAre
<1> QED
  BY <1>1, <1>3, <1>4

(* The members of the groups.                                                   *)
LEMMA RuleFields ==
    \A name, required, optional :
        /\ Rule(name, required, optional).name = name
        /\ Rule(name, required, optional).required = required
        /\ Rule(name, required, optional).optional = optional
BY DEF Rule

MembersAre ==
    {<<"Subscription-Id", {"Subscription-Id-Type", "Subscription-Id-Data"}, {}>>,
     <<"Requested-Service-Unit", {}, Amounts>>,
     <<"Multiple-Services-Credit-Control", {},
       {"Granted-Service-Unit", "Requested-Service-Unit", "Used-Service-Unit",
        "Tariff-Change-Usage", "Service-Identifier", "Rating-Group",
        "G-S-U-Pool-Reference", "Validity-Time", "Result-Code", "Final-Unit-Indication"}>>,
     <<"Vendor-Specific-Application-Id", {"Auth-Application-Id", "Acct-Application-Id"},
       {"Vendor-Id"}>>}

LEMMA MembersOfName ==
    ASSUME NEW n, NEW required, NEW optional, <<n, required, optional>> \in MembersAre
    PROVE  n \in DOMAIN MembersOf /\ MembersOf[n] = Rule(n, required, optional)
<1> DEFINE groups == UNION {d.groups : d \in Tables}
<1> DEFINE r == Rule(n, required, optional)
<1>0. \/ /\ n = "Subscription-Id"
         /\ r = Rule("Subscription-Id", {"Subscription-Id-Type", "Subscription-Id-Data"}, {})
      \/ /\ n = "Requested-Service-Unit"
         /\ r = Rule("Requested-Service-Unit", {}, Amounts)
      \/ /\ n = "Multiple-Services-Credit-Control"
         /\ r = Rule("Multiple-Services-Credit-Control", {},
                    {"Granted-Service-Unit", "Requested-Service-Unit", "Used-Service-Unit",
                     "Tariff-Change-Usage", "Service-Identifier", "Rating-Group",
                     "G-S-U-Pool-Reference", "Validity-Time", "Result-Code",
                     "Final-Unit-Indication"})
      \/ /\ n = "Vendor-Specific-Application-Id"
         /\ r = Rule("Vendor-Specific-Application-Id",
                    {"Auth-Application-Id", "Acct-Application-Id"}, {"Vendor-Id"})
  BY DEF MembersAre
<1> HIDE DEF r
<1>1. ASSUME NEW d \in Tables PROVE \A g \in d.groups : g.name = n => g = r
  <2>1. \A g \in CostAvps.groups : g.name = n => g = r
    BY <1>0, RuleFields DEF CostAvps
  <2>2. \A g \in UnitAvps.groups : g.name = n => g = r
    BY <1>0, RuleFields DEF UnitAvps
  <2>3. \A g \in ServiceAvps.groups : g.name = n => g = r
    BY <1>0, RuleFields DEF ServiceAvps
  <2>4. \A g \in AccountingAvps.groups : g.name = n => g = r
    BY <1>0, RuleFields DEF AccountingAvps
  <2>5. \A g \in PeerAvps.groups : g.name = n => g = r
    BY <1>0, RuleFields DEF PeerAvps
  <2>6. \A g \in SessionAvps.groups : g.name = n => g = r
    BY <1>0, RuleFields DEF SessionAvps
  <2> QED
    BY <2>1, <2>2, <2>3, <2>4, <2>5, <2>6 DEF Tables
<1>2. r \in groups
  <2>1. n = "Subscription-Id" => r \in ServiceAvps.groups
    BY <1>0 DEF ServiceAvps
  <2>2. n \in {"Requested-Service-Unit", "Multiple-Services-Credit-Control"} => r \in UnitAvps.groups
    BY <1>0 DEF UnitAvps
  <2>3. n = "Vendor-Specific-Application-Id" => r \in SessionAvps.groups
    BY <1>0 DEF SessionAvps
  <2> QED
    BY <1>0, <2>1, <2>2, <2>3 DEF Tables
<1>3. r.name = n /\ \A g \in groups : g.name = n => g = r
  BY <1>1, RuleFields DEF r
<1>4. n \in Names(groups) /\ MembersOf = [name \in Names(groups) |-> CHOOSE g \in groups : g.name = name]
  BY <1>2, <1>3 DEF MembersOf, Names
<1> HIDE DEF groups
<1>5. (CHOOSE g \in groups : g.name = n) = r
  BY <1>2, <1>3
<1> QED
  BY <1>4, <1>5 DEF r

LEMMA LeafDefined ==
    ASSUME NEW n, NEW t, <<n, t>> \in TypeIs, t # "Grouped"
    PROVE  AsDefined(Leaf(n, t))
<1>1. TypesOf(n) = {t} /\ n \notin DOMAIN MembersOf
  BY TypeOfName, NotGrouped
<1> QED
  BY <1>1 DEF AsDefined, Leaf

LEMMA GroupDefined ==
    ASSUME NEW n, NEW required, NEW optional, <<n, required, optional>> \in MembersAre,
           NEW members, Names(members) \subseteq required \cup optional
    PROVE  AsDefined(Group(n, members))
<1>1. <<n, "Grouped">> \in TypeIs
  BY DEF MembersAre, TypeIs, UnitTypes, ServiceTypes, SessionTypes
<1>2. TypesOf(n) = {"Grouped"}
  BY <1>1, TypeOfName
<1>3. MembersOf[n] = Rule(n, required, optional)
  BY MembersOfName
<1>4. MembersOf[n].required = required /\ MembersOf[n].optional = optional
  BY <1>3, RuleFields
<1> QED
  BY <1>2, <1>4 DEF AsDefined, Group

-----------------------------------------------------------------------------
(* An AVP that is as defined, with all below it.                                *)
Sound(a) == AsDefined(a) /\ \A b \in a.members : AsDefined(b) /\ \A x \in b.members : AsDefined(x)

LEMMA LeafSound ==
    ASSUME NEW n, NEW t, <<n, t>> \in TypeIs, t # "Grouped"
    PROVE  Sound(Leaf(n, t))
<1>1. Leaf(n, t).members = {}
  BY DEF Leaf
<1> QED
  BY <1>1, LeafDefined DEF Sound

LEMMA SubscriptionSound == Sound(Subscription)
<1> DEFINE members == {Leaf("Subscription-Id-Type", "Enumerated"),
                       Leaf("Subscription-Id-Data", "UTF8String")}
<1>1. \A b \in members : AsDefined(b) /\ b.members = {}
  <2>1. /\ AsDefined(Leaf("Subscription-Id-Type", "Enumerated"))
        /\ AsDefined(Leaf("Subscription-Id-Data", "UTF8String"))
    BY LeafDefined DEF TypeIs, ServiceTypes
  <2> QED
    BY <2>1 DEF Leaf
<1>2. Names(members) \subseteq {"Subscription-Id-Type", "Subscription-Id-Data"} \cup {}
  BY DEF Names, Leaf
<1>3. AsDefined(Group("Subscription-Id", members))
  <2>1. <<"Subscription-Id", {"Subscription-Id-Type", "Subscription-Id-Data"}, {}>> \in MembersAre
    BY DEF MembersAre
  <2> HIDE DEF members
  <2> QED
    BY <1>2, <2>1, GroupDefined
<1>4. Group("Subscription-Id", members).members = members
  BY DEF Group
<1> QED
  BY <1>1, <1>3, <1>4 DEF Subscription, Sound

LEMMA ServicesSound == ASSUME NEW unit \in Units PROVE Sound(Services(unit))
<1> DEFINE asked == Group("Requested-Service-Unit", {Requested(unit)})
<1> DEFINE rating == Leaf("Rating-Group", "Unsigned32")
<1>1. /\ AsDefined(Requested(unit)) /\ Requested(unit).members = {}
      /\ Requested(unit).name \in Amounts
  BY LeafDefined DEF Requested, TypeIs, CostTypes, Leaf, Amounts, Units
<1>2. AsDefined(asked)
  <2>1. Names({Requested(unit)}) \subseteq {} \cup Amounts
    BY <1>1 DEF Names
  <2>2. <<"Requested-Service-Unit", {}, Amounts>> \in MembersAre
    BY DEF MembersAre
  <2> QED
    BY <2>1, <2>2, GroupDefined
<1>3. AsDefined(rating) /\ rating.members = {} /\ rating.name = "Rating-Group"
  BY LeafDefined DEF TypeIs, UnitTypes, Leaf
<1>4. asked.members = {Requested(unit)} /\ asked.name = "Requested-Service-Unit"
  BY DEF Group
<1> HIDE DEF asked, rating
<1>5. AsDefined(Services(unit))
  <2> DEFINE allowed == {"Granted-Service-Unit", "Requested-Service-Unit", "Used-Service-Unit",
                         "Tariff-Change-Usage", "Service-Identifier", "Rating-Group",
                         "G-S-U-Pool-Reference", "Validity-Time", "Result-Code",
                         "Final-Unit-Indication"}
  <2>1. Names({asked, rating}) \subseteq {} \cup allowed
    BY <1>3, <1>4 DEF Names
  <2>2. <<"Multiple-Services-Credit-Control", {}, allowed>> \in MembersAre
    BY DEF MembersAre
  <2>3. Services(unit) = Group("Multiple-Services-Credit-Control", {asked, rating})
    BY DEF Services, asked, rating
  <2> HIDE DEF allowed
  <2> QED
    BY <2>1, <2>2, <2>3, GroupDefined
<1>6. Services(unit).members = {asked, rating}
  BY DEF Services, Group, asked, rating
<1> QED
  BY <1>1, <1>2, <1>3, <1>4, <1>5, <1>6 DEF Sound

LEMMA BelowAre ==
    ASSUME NEW avps, NEW x \in Below(avps)
    PROVE  x \in avps \/ \E a \in avps : x \in a.members \/ \E b \in a.members : x \in b.members
BY DEF Below

LEMMA AllDefined ==
    ASSUME NEW message,
           \A a \in Avps(message) : a.name # "Service-Information" => Sound(a)
    PROVE  Defined(message)
BY BelowAre DEF Defined, Sound

-----------------------------------------------------------------------------
(* The credit-control request as the sender writes it.                          *)
RequestInOrder(unit) ==
    <<Leaf("Session-Id", "UTF8String"), Leaf("Auth-Application-Id", "Unsigned32"),
      Leaf("Service-Context-Id", "UTF8String"), Leaf("CC-Request-Type", "Enumerated"),
      Leaf("CC-Request-Number", "Unsigned32"), Subscription, Subscription,
      Leaf("User-Name", "UTF8String"), Leaf("Event-Timestamp", "Time"),
      Leaf("Multiple-Services-Indicator", "Enumerated"), Leaf("Requested-Action", "Enumerated"),
      Services(unit), Information(unit),
      Leaf("Origin-Host", "DiameterIdentity"), Leaf("Origin-Realm", "DiameterIdentity"),
      Leaf("Destination-Realm", "DiameterIdentity"),
      Leaf("Destination-Host", "DiameterIdentity")>>

NamesInOrder ==
    <<"Session-Id", "Auth-Application-Id", "Service-Context-Id", "CC-Request-Type",
      "CC-Request-Number", "Subscription-Id", "Subscription-Id", "User-Name", "Event-Timestamp",
      "Multiple-Services-Indicator", "Requested-Action", "Multiple-Services-Credit-Control",
      "Service-Information", "Origin-Host", "Origin-Realm", "Destination-Realm",
      "Destination-Host">>

LEMMA RequestIs ==
    ASSUME NEW unit
    PROVE  LET m == Addressed(CreateCCREventMessage(unit))
           IN  DOMAIN m = 1 .. 17 /\ \A i \in 1 .. 17 : m[i] = RequestInOrder(unit)[i]
BY DEF Addressed, CreateCCREventMessage, Head0, Event, RequestInOrder

LEMMA RequestNames ==
    ASSUME NEW unit, NEW i \in 1 .. 17
    PROVE  RequestInOrder(unit)[i].name = NamesInOrder[i]
<1>1. \A n, t : Leaf(n, t).name = n
  BY DEF Leaf
<1>2. /\ Subscription.name = "Subscription-Id"
      /\ Services(unit).name = "Multiple-Services-Credit-Control"
      /\ Information(unit).name = "Service-Information"
  BY DEF Subscription, Services, Information, Group
<1> QED
  BY <1>1, <1>2 DEF RequestInOrder, NamesInOrder

LEMMA RequestSound ==
    ASSUME NEW unit \in Units, NEW i \in 1 .. 17, i # 13
    PROVE  Sound(RequestInOrder(unit)[i])
<1>1. /\ Sound(Leaf("Session-Id", "UTF8String")) /\ Sound(Leaf("User-Name", "UTF8String"))
      /\ Sound(Leaf("Service-Context-Id", "UTF8String"))
      /\ Sound(Leaf("Auth-Application-Id", "Unsigned32"))
  BY LeafSound DEF TypeIs, SessionTypes, ServiceTypes, AccountingTypes
<1>2. /\ Sound(Leaf("CC-Request-Type", "Enumerated"))
      /\ Sound(Leaf("CC-Request-Number", "Unsigned32"))
      /\ Sound(Leaf("Multiple-Services-Indicator", "Enumerated"))
      /\ Sound(Leaf("Requested-Action", "Enumerated"))
  BY LeafSound DEF TypeIs, CostTypes, UnitTypes
<1>3. /\ Sound(Leaf("Event-Timestamp", "Time"))
      /\ Sound(Leaf("Origin-Host", "DiameterIdentity"))
      /\ Sound(Leaf("Origin-Realm", "DiameterIdentity"))
      /\ Sound(Leaf("Destination-Realm", "DiameterIdentity"))
      /\ Sound(Leaf("Destination-Host", "DiameterIdentity"))
  BY LeafSound DEF TypeIs, PeerTypes
<1> QED
  BY <1>1, <1>2, <1>3, SubscriptionSound, ServicesSound DEF RequestInOrder

(* The credit-control request as it is written.                                 *)
LEMMA RequestFollows ==
    ASSUME NEW unit \in Units
    PROVE  LET m == Addressed(CreateCCREventMessage(unit))
           IN  Complete(m, CCRequest) /\ Defined(m)
<1> DEFINE m == Addressed(CreateCCREventMessage(unit))
<1>1. /\ DOMAIN m = 1 .. 17
      /\ \A i \in 1 .. 17 : /\ m[i].name = NamesInOrder[i]
                            /\ i # 13 => Sound(m[i])
  BY RequestIs, RequestNames, RequestSound
<1> HIDE DEF m
<1>2. \A a \in Avps(m) : \E i \in 1 .. 17 : a = m[i]
  BY <1>1 DEF Avps
<1>3. \A i \in 1 .. 17 : m[i] \in Avps(m)
  BY <1>1 DEF Avps
<1>4. Defined(m)
  <2>1. NamesInOrder[13] = "Service-Information"
    BY DEF NamesInOrder
  <2> QED
    BY <1>1, <1>2, <2>1, AllDefined
<1>5. Names(Avps(m)) = {NamesInOrder[i] : i \in 1 .. 17}
  BY <1>1, <1>2, <1>3 DEF Names
<1>6. Complete(m, CCRequest)
  <2>1. \A i \in 1 .. 17 : NamesInOrder[i] \in CCRequest.required \cup CCRequest.optional
    BY DEF NamesInOrder, CCRequest, Rules
  <2>2. \A n \in CCRequest.required : \E i \in 1 .. 17 : n = NamesInOrder[i]
    BY DEF NamesInOrder, CCRequest, Rules
  <2> QED
    BY <1>5, <2>1, <2>2 DEF Complete
<1> QED
  BY <1>4, <1>6 DEF m

(* The watchdog and the capabilities exchange.                                  *)
LEMMA WatchdogFollows ==
    Complete(Watchdog, DWRequest) /\ Defined(Watchdog) /\ RepeatsAllowed(Watchdog, DWRequest)
<1> DEFINE m == Watchdog
<1>1. /\ DOMAIN m = {1, 2, 3}
      /\ m[1] = Leaf("Origin-Host", "DiameterIdentity")
      /\ m[2] = Leaf("Origin-Realm", "DiameterIdentity")
      /\ m[3] = Leaf("Origin-State-Id", "Unsigned32")
  BY DEF Watchdog
<1>2. m[1].name = "Origin-Host" /\ m[2].name = "Origin-Realm" /\ m[3].name = "Origin-State-Id"
  BY <1>1 DEF Leaf
<1>3. Sound(m[1]) /\ Sound(m[2]) /\ Sound(m[3])
  BY <1>1, LeafSound DEF TypeIs, PeerTypes
<1> HIDE DEF m
<1>4. Avps(m) = {m[1], m[2], m[3]}
  BY <1>1 DEF Avps
<1>5. Names(Avps(m)) = {"Origin-Host", "Origin-Realm", "Origin-State-Id"}
  BY <1>2, <1>4 DEF Names
<1>6. Defined(m)
  BY <1>3, <1>4, AllDefined
<1>7. Complete(m, DWRequest)
  BY <1>5 DEF Complete, DWRequest, Rules
<1>8. RepeatsAllowed(m, DWRequest)
  BY <1>1, <1>2 DEF RepeatsAllowed
<1> QED
  BY <1>6, <1>7, <1>8 DEF m

Vendor == Group("Vendor-Specific-Application-Id",
                {Leaf("Vendor-Id", "Unsigned32"), Leaf("Auth-Application-Id", "Unsigned32")})

LEMMA VendorSound == Sound(Vendor) /\ Vendor.name = "Vendor-Specific-Application-Id"
<1> DEFINE members == {Leaf("Vendor-Id", "Unsigned32"), Leaf("Auth-Application-Id", "Unsigned32")}
<1>1. \A b \in members : AsDefined(b) /\ b.members = {}
  <2>1. /\ AsDefined(Leaf("Vendor-Id", "Unsigned32"))
        /\ AsDefined(Leaf("Auth-Application-Id", "Unsigned32"))
    BY LeafDefined DEF TypeIs, SessionTypes, AccountingTypes
  <2> QED
    BY <2>1 DEF Leaf
<1>2. Names(members) \subseteq {"Auth-Application-Id", "Acct-Application-Id"} \cup {"Vendor-Id"}
  BY DEF Names, Leaf
<1>3. AsDefined(Vendor)
  <2>1. <<"Vendor-Specific-Application-Id", {"Auth-Application-Id", "Acct-Application-Id"},
          {"Vendor-Id"}>> \in MembersAre
    BY DEF MembersAre
  <2>2. Vendor = Group("Vendor-Specific-Application-Id", members)
    BY DEF Vendor
  <2> HIDE DEF members
  <2> QED
    BY <1>2, <2>1, <2>2, GroupDefined
<1>4. Vendor.members = members /\ Vendor.name = "Vendor-Specific-Application-Id"
  BY DEF Vendor, Group
<1> QED
  BY <1>1, <1>3, <1>4 DEF Sound

LEMMA CapabilitiesOrder ==
    ASSUME NEW S, NEW n \in Nat, NEW host \in S, NEW a \in S, NEW b \in S, NEW d \in S, NEW e \in S,
           NEW f \in S, NEW g \in S, NEW v \in S, NEW x \in S, NEW y \in S
    PROVE  LET m == (<<a, b>> \o [i \in 1 .. n |-> host] \o <<d, e, f, g>>) \o <<v, x, y, v>>
           IN  /\ DOMAIN m = 1 .. n + 10
               /\ m[1] = a /\ m[2] = b
               /\ \A i \in 3 .. n + 2 : m[i] = host
               /\ m[n + 3] = d /\ m[n + 4] = e /\ m[n + 5] = f /\ m[n + 6] = g
               /\ m[n + 7] = v /\ m[n + 8] = x /\ m[n + 9] = y /\ m[n + 10] = v
OBVIOUS

LEMMA CapabilitiesFollow ==
    ASSUME NEW brts \in Nat \ {0}, NEW local \in BOOLEAN
    PROVE  LET m == Capabilities(brts, local)
           IN  Complete(m, CERequest) /\ Defined(m) /\ RepeatsAllowed(m, CERequest)
<1> DEFINE m == Capabilities(brts, local)
<1> DEFINE n == Addresses(brts, local)
<1> DEFINE identity(name) == Leaf(name, "DiameterIdentity")
<1> DEFINE number(name) == Leaf(name, "Unsigned32")
<1> DEFINE host == Leaf("Host-IP-Address", "Address")
<1> DEFINE product == Leaf("Product-Name", "UTF8String")
<1>1. n \in Nat /\ n >= 2
  BY DEF Addresses
<1>2. m = (<<identity("Origin-Host"), identity("Origin-Realm")>> \o [i \in 1 .. n |-> host]
           \o <<number("Vendor-Id"), product, number("Origin-State-Id"), number("Firmware-Revision")>>)
          \o <<Vendor, number("Auth-Application-Id"), number("Acct-Application-Id"), Vendor>>
  BY DEF Capabilities, ClientSettings, Applications, Vendor
<1> HIDE DEF n
<1>3. /\ DOMAIN m = 1 .. n + 10
      /\ m[1] = identity("Origin-Host") /\ m[2] = identity("Origin-Realm")
      /\ \A i \in 3 .. n + 2 : m[i] = host
      /\ m[n + 3] = number("Vendor-Id") /\ m[n + 4] = product
      /\ m[n + 5] = number("Origin-State-Id") /\ m[n + 6] = number("Firmware-Revision")
      /\ m[n + 7] = Vendor /\ m[n + 8] = number("Auth-Application-Id")
      /\ m[n + 9] = number("Acct-Application-Id") /\ m[n + 10] = Vendor
  <2> DEFINE S == {identity("Origin-Host"), identity("Origin-Realm"), host, number("Vendor-Id"), product,
                   number("Origin-State-Id"), number("Firmware-Revision"), Vendor,
                   number("Auth-Application-Id"), number("Acct-Application-Id")}
  <2>1. /\ identity("Origin-Host") \in S /\ identity("Origin-Realm") \in S /\ host \in S
        /\ number("Vendor-Id") \in S /\ product \in S /\ number("Origin-State-Id") \in S
        /\ number("Firmware-Revision") \in S /\ Vendor \in S
        /\ number("Auth-Application-Id") \in S /\ number("Acct-Application-Id") \in S
    OBVIOUS
  <2> HIDE DEF S, m, identity, number, host, product
  <2> QED
    BY <1>1, <1>2, <2>1, CapabilitiesOrder
<1>4. /\ Sound(identity("Origin-Host")) /\ Sound(identity("Origin-Realm")) /\ Sound(host)
      /\ Sound(number("Vendor-Id")) /\ Sound(product) /\ Sound(number("Origin-State-Id"))
      /\ Sound(number("Firmware-Revision")) /\ Sound(number("Auth-Application-Id"))
      /\ Sound(number("Acct-Application-Id"))
  BY LeafSound DEF TypeIs, AccountingTypes, PeerTypes, SessionTypes
<1>5. /\ \A name : identity(name).name = name /\ number(name).name = name
      /\ host.name = "Host-IP-Address" /\ product.name = "Product-Name"
  BY DEF Leaf
<1> HIDE DEF m, identity, number, host, product
<1>6. \A i \in 1 .. n + 10 : \/ i \in {1, 2} \/ i \in 3 .. n + 2 \/ i = n + 3 \/ i = n + 4 \/ i = n + 5
                            \/ i = n + 6 \/ i = n + 7 \/ i = n + 8 \/ i = n + 9 \/ i = n + 10
  BY <1>1
<1>7. ASSUME NEW a \in Avps(m)
      PROVE  a \in {identity("Origin-Host"), identity("Origin-Realm"), host, number("Vendor-Id"), product,
                    number("Origin-State-Id"), number("Firmware-Revision"), Vendor,
                    number("Auth-Application-Id"), number("Acct-Application-Id")}
  <2>1. PICK i \in 1 .. n + 10 : a = m[i]
    BY <1>3 DEF Avps
  <2> QED
    BY <1>3, <1>6, <2>1
<1>8. /\ m[1] \in Avps(m) /\ m[2] \in Avps(m) /\ m[3] \in Avps(m) /\ m[n + 3] \in Avps(m)
      /\ m[n + 4] \in Avps(m) /\ m[n + 7] \in Avps(m)
  <2>1. \A i \in 1 .. n + 10 : m[i] \in Avps(m)
    BY <1>3 DEF Avps
  <2> QED
    BY <1>1, <2>1
<1>9. Defined(m)
  BY <1>4, <1>7, VendorSound, AllDefined
<1>10. Complete(m, CERequest)
  <2>1. \A name \in Names(Avps(m)) : name \in CERequest.required \cup CERequest.optional
    BY <1>5, <1>7, VendorSound DEF Names, CERequest, Rules
  <2>2. {"Origin-Host", "Origin-Realm", "Host-IP-Address", "Vendor-Id", "Product-Name"}
          \subseteq Names(Avps(m))
    <3>1. 3 \in 3 .. n + 2
      BY <1>1
    <3> QED
      BY <1>3, <1>5, <1>8, <3>1 DEF Names
  <2>3. CERequest.required
          = {"Origin-Host", "Origin-Realm", "Host-IP-Address", "Vendor-Id", "Product-Name"}
    BY DEF CERequest, Rules
  <2> QED
    BY <2>1, <2>2, <2>3 DEF Complete
<1>11. RepeatsAllowed(m, CERequest)
  <2> SUFFICES ASSUME NEW j \in 1 .. n + 10, NEW k \in 1 .. n + 10, m[j].name = m[k].name,
                      m[j].name \notin CERequest.many
               PROVE  j = k
    BY <1>3 DEF RepeatsAllowed
  <2>1. m[j].name \notin {"Host-IP-Address", "Auth-Application-Id", "Acct-Application-Id",
                          "Vendor-Specific-Application-Id"}
    BY DEF CERequest, Rules
  <2> DEFINE once == {1, 2, n + 3, n + 4, n + 5, n + 6}
  <2>2. j \in once /\ k \in once
    BY <1>3, <1>5, <1>6, <2>1, VendorSound
  <2>3. /\ m[1].name = "Origin-Host" /\ m[2].name = "Origin-Realm"
        /\ m[n + 3].name = "Vendor-Id" /\ m[n + 4].name = "Product-Name"
        /\ m[n + 5].name = "Origin-State-Id" /\ m[n + 6].name = "Firmware-Revision"
    BY <1>3, <1>5
  <2> QED
    BY <2>2, <2>3
<1> QED
  BY <1>9, <1>10, <1>11 DEF m


(* The credit-control request of every call, and the requests of the watchdog   *)
(* and the capabilities exchange, have what their command requires in the       *)
(* dictionary the client ships, nothing it does not list, and, Service-         *)
(* Information apart, only AVPs that are defined there with the type and the    *)
(* members they are given, whatever the record types measure.                   *)
THEOREM RequestsFollow == CallsSpec => []RequestFollowsDictionary
<1>1. SessionsInv /\ MessagesInv => RequestFollowsDictionary
  BY CapabilitiesFollow, WatchdogFollows, RequestFollows DEF MessagesInv, RequestFollowsDictionary
<1>2. CallsInit => SessionsInv /\ MessagesInv
  BY SessionsInit, MessagesInit
<1>3. SessionsInv /\ MessagesInv /\ [CallsNext]_callVars => (SessionsInv /\ MessagesInv)'
  BY SessionsStep, MessagesStep
<1> QED
  BY <1>1, <1>2, <1>3, PTL DEF CallsSpec
-----------------------------------------------------------------------------
(* The constant part of the location fills its array, or leaves a byte, so that *)
(* the LAC goes to an array of the message's own; and the places fit two bytes. *)
ArrayIsFull == SpareBytes(Base) \in 0 .. 1

FitsShort(at) == /\ at.lac \in Nat /\ at.lac < 65536
                 /\ at.cell \in Nat /\ at.cell < 65536

PlacesFit == \A i \in DOMAIN LACCELLpool : FitsShort(LACCELLpool[i])

Own(lac, cell) == [kind |-> "own", lac |-> lac, cell |-> cell]

(* What a message holds of its location when its thread stands at "at".         *)
PlacedAt(m, at) ==
    m.kind = "camel" =>
        /\ FitsShort(m.rec.at)
        /\ at = "cell" => m.place = Own(m.rec.at.lac, 0)
        /\ at \in {"store", "queue"} => m.place = Own(m.rec.at.lac, m.rec.at.cell)

Placed(m) == m.place = Own(m.rec.at.lac, m.rec.at.cell)

LocationInv ==
    /\ \A t \in Threads : Busy(t) => PlacedAt(composed[t], pc[t])
    /\ \A i \in 1 .. Len(camelChannel) : Placed(camelChannel[i])
    /\ LocationIsTheCalls

LEMMA LocationInit == CallsInit => LocationInv
BY DEF CallsInit, LocationInv, Busy, LocationIsTheCalls

(* A thread's step that leaves the channel and the wire: it is enough to look at *)
(* the thread's own message.                                                     *)
LEMMA LocationOfOne ==
    ASSUME SessionsInv, LocationInv, NEW t \in Threads,
           UNCHANGED <<camelChannel, camelWire>>,
           \A u \in Threads \ {t} : composed'[u] = composed[u] /\ pc'[u] = pc[u],
           pc'[t] # "draw" => PlacedAt(composed'[t], pc'[t])
    PROVE  LocationInv'
<1>1. \A u \in Threads : Busy(u)' => PlacedAt(composed'[u], pc'[u])
  BY DEF LocationInv, Busy
<1>2. \A u \in Threads : Busy(u)' => PlacedAt(composed[u], pc[u])'
  BY <1>1 DEF PlacedAt, FitsShort, Own
<1> QED
  BY <1>2 DEF LocationInv, Placed, Own, LocationIsTheCalls

LEMMA LocationCompose ==
    ASSUME PlacesFit, SessionsInv, LocationInv, NEW t \in Threads, Compose(t)
    PROVE  LocationInv'
<1>1. PICK sub \in CreatePoolList, i \in DOMAIN LACCELLpool :
         composed' = [composed EXCEPT ![t] =
            MessageOf(c + 1, Settings[RandomRecType(c)],
                      Record(c + 1, Settings[RandomRecType(c)], sub, LACCELLpool[i]))]
  BY DEF Compose
<1> DEFINE s == Settings[RandomRecType(c)]
           rec == Record(c + 1, s, sub, LACCELLpool[i])
           m == MessageOf(c + 1, s, rec)
<1>2. /\ pc' = [pc EXCEPT ![t] = FirstStep[composed'[t].kind]]
      /\ UNCHANGED <<camelChannel, camelWire>>
      /\ pc \in [Threads -> {"draw", "lac", "cell", "store", "queue"}] /\ DOMAIN composed = Threads
  BY DEF Compose, SessionsInv, ComposedInv
<1>3. /\ composed'[t] = m /\ pc'[t] = FirstStep[m.kind]
      /\ \A u \in Threads \ {t} : composed'[u] = composed[u] /\ pc'[u] = pc[u]
  BY <1>1, <1>2
<1>4. m.kind = "camel" => m.rec = rec
  <2>1. \A type, frame : Authorisation(c + 1, rec, type, frame).rec = rec
    BY DEF Authorisation
  <2>2. \A measure : CreditRequest(c + 1, rec, measure).kind # "camel"
    BY DEF CreditRequest
  <2>3. Nothing.kind # "camel"
    BY KindOfShape
  <2> HIDE DEF rec, s
  <2> QED
    BY <2>1, <2>2, <2>3 DEF MessageOf
<1>5. FitsShort(rec.at)
  BY <1>1 DEF PlacesFit, Record
<1>6. m.kind = "camel" => pc'[t] = "lac"
  BY <1>3 DEF FirstStep
<1>7. PlacedAt(m, pc'[t])
  <2> HIDE DEF m, rec
  <2> QED
    BY <1>4, <1>5, <1>6 DEF PlacedAt
<1> QED
  BY <1>2, <1>3, <1>7, LocationOfOne

(* No thread writes beside its message, and each two bytes hold the number.     *)
LEMMA LocationAppends ==
    ASSUME ArrayIsFull, SessionsInv, LocationInv, NEW t \in Threads, AppendLac(t) \/ AppendCell(t)
    PROVE  LocationInv'
<1>1. /\ pc[t] \in {"lac", "cell"} /\ UNCHANGED <<camelChannel, camelWire>>
      /\ pc \in [Threads -> {"draw", "lac", "cell", "store", "queue"}] /\ DOMAIN composed = Threads
  BY DEF AppendLac, AppendCell, SessionsInv, ComposedInv
<1>2. /\ IsAuthorisation(composed[t]) /\ composed[t].kind = "camel"
      /\ PlacedAt(composed[t], pc[t]) /\ FitsShort(composed[t].rec.at)
  BY <1>1, KindOfShape DEF SessionsInv, ComposedInv, LocationInv, Busy, PlacedAt
<1>3. ~(SpareBytes(Base) >= 2) /\ ~(SpareBytes(Base) >= 4)
  BY DEF ArrayIsFull
<1>4. /\ Short(composed[t].rec.at.lac) = composed[t].rec.at.lac
      /\ Short(composed[t].rec.at.cell) = composed[t].rec.at.cell
  BY <1>2 DEF Short, FitsShort
<1>5. ASSUME NEW p, composed' = [composed EXCEPT ![t].place = p]
      PROVE  /\ composed'[t].kind = "camel" /\ composed'[t].rec = composed[t].rec
             /\ composed'[t].place = p
             /\ \A u \in Threads \ {t} : composed'[u] = composed[u]
  <2>1. composed'[t] = [composed[t] EXCEPT !.place = p]
    BY <1>1, <1>5
  <2>2. composed[t] = [kind |-> "camel", call |-> composed[t].call, rec |-> composed[t].rec,
                       type |-> composed[t].type, frame |-> composed[t].frame,
                       sid |-> Session(composed[t].call), place |-> composed[t].place]
    BY <1>2 DEF IsAuthorisation
  <2> QED
    BY <1>1, <1>5, <2>1, <2>2
<1>6. CASE AppendLac(t)
  <2>1. /\ composed' = [composed EXCEPT ![t].place = Own(composed[t].rec.at.lac, 0)]
        /\ pc' = [pc EXCEPT ![t] = "cell"]
    BY <1>3, <1>4, <1>6 DEF AppendLac, Own
  <2>2. pc'[t] = "cell" /\ \A u \in Threads \ {t} : pc'[u] = pc[u]
    BY <1>1, <2>1
  <2>3. PlacedAt(composed'[t], pc'[t])
    BY <1>2, <1>5, <2>1, <2>2 DEF PlacedAt
  <2> QED
    BY <1>1, <1>5, <2>1, <2>2, <2>3, LocationOfOne
<1>7. CASE AppendCell(t)
  <2>1. pc[t] = "cell" /\ pc' = [pc EXCEPT ![t] = "store"]
    BY <1>7 DEF AppendCell
  <2>2. composed[t].place.lac = composed[t].rec.at.lac
    BY <1>2, <2>1 DEF PlacedAt, Own
  <2>3. composed' = [composed EXCEPT ![t].place =
                        Own(composed[t].rec.at.lac, composed[t].rec.at.cell)]
    BY <1>3, <1>4, <1>7, <2>2 DEF AppendCell, Own
  <2>4. pc'[t] = "store" /\ \A u \in Threads \ {t} : pc'[u] = pc[u]
    BY <1>1, <2>1
  <2>5. PlacedAt(composed'[t], pc'[t])
    BY <1>2, <1>5, <2>3, <2>4 DEF PlacedAt
  <2> QED
    BY <1>1, <1>5, <2>3, <2>4, <2>5, LocationOfOne
<1> QED
  BY <1>6, <1>7

LEMMA LocationStored ==
    ASSUME SessionsInv, LocationInv, NEW t \in Threads, StoreCall(t)
    PROVE  LocationInv'
<1>1. /\ UNCHANGED <<composed, camelChannel, camelWire>>
      /\ pc[t] = "store" /\ pc' = [pc EXCEPT ![t] = "queue"]
      /\ pc \in [Threads -> {"draw", "lac", "cell", "store", "queue"}]
  BY DEF StoreCall, SessionsInv, ComposedInv
<1>2. pc'[t] = "queue" /\ \A u \in Threads \ {t} : pc'[u] = pc[u]
  BY <1>1
<1>3. PlacedAt(composed[t], "store")
  BY <1>1 DEF LocationInv, Busy
<1>4. PlacedAt(composed'[t], pc'[t])
  BY <1>1, <1>2, <1>3 DEF PlacedAt
<1> QED
  BY <1>1, <1>2, <1>4, LocationOfOne

LEMMA LocationQueued ==
    ASSUME SessionsInv, LocationInv, NEW t \in Threads, QueueCamel(t) \/ QueueDiam(t)
    PROVE  LocationInv'
<1>1. /\ pc[t] = "queue" /\ pc' = [pc EXCEPT ![t] = "draw"]
      /\ composed' = [composed EXCEPT ![t] = Nothing] /\ camelWire' = camelWire
      /\ pc \in [Threads -> {"draw", "lac", "cell", "store", "queue"}] /\ DOMAIN composed = Threads
  BY DEF QueueCamel, QueueDiam, SessionsInv, ComposedInv
<1>2. \A u \in Threads : Busy(u)' => PlacedAt(composed'[u], pc'[u])
  BY <1>1 DEF LocationInv, Busy
<1>3. \A u \in Threads : Busy(u)' => PlacedAt(composed[u], pc[u])'
  BY <1>2 DEF PlacedAt, FitsShort, Own
<1>4. ASSUME NEW i \in 1 .. Len(camelChannel') PROVE Placed(camelChannel'[i])
  <2>1. CASE camelChannel' = camelChannel
    BY <1>4, <2>1 DEF LocationInv
  <2>2. CASE QueueCamel(t)
    <3>1. composed[t].kind = "camel" /\ camelChannel' = Append(camelChannel, composed[t])
      BY <2>2 DEF QueueCamel
    <3>2. Placed(composed[t])
      BY <1>1, <3>1 DEF LocationInv, Busy, PlacedAt, Placed
    <3>3. IsSequence(camelChannel)
      BY DEF SessionsInv, Ahead, Channel, Kinds
    <3>4. \/ i \in 1 .. Len(camelChannel) /\ camelChannel'[i] = camelChannel[i]
          \/ camelChannel'[i] = composed[t]
      BY <1>4, <3>1, <3>3, AppendSequence
    <3> QED
      BY <3>2, <3>4 DEF LocationInv
  <2> QED
    BY <2>1, <2>2 DEF QueueDiam
<1> QED
  BY <1>1, <1>3, <1>4 DEF LocationInv, Placed, Own, LocationIsTheCalls

(* The encoder copies the message's own bytes; an end request keeps the place.  *)
LEMMA LocationSent ==
    ASSUME SessionsInv, LocationInv, SendCamel
    PROVE  LocationInv'
<1> DEFINE m == Head(camelChannel)
<1>1. /\ camelChannel # <<>> /\ camelChannel' = Tail(camelChannel)
      /\ camelWire' = OnWire(m, [m.sid EXCEPT ![13] = <<"brt">>])
      /\ UNCHANGED <<pc, composed>>
  BY DEF SendCamel
<1>2. IsSequence(camelChannel)
  BY DEF SessionsInv, Ahead, Channel, Kinds
<1>3. /\ m = camelChannel[1] /\ 1 \in 1 .. Len(camelChannel)
      /\ \A i \in 1 .. Len(camelChannel') :
            camelChannel'[i] = camelChannel[i + 1] /\ i + 1 \in 1 .. Len(camelChannel)
  BY <1>1, <1>2, TailSequence
<1>4. Placed(m)
  BY <1>3 DEF LocationInv
<1>5. m.place.kind # "shared" /\ m.place.lac = m.rec.at.lac /\ m.place.cell = m.rec.at.cell
  BY <1>4 DEF Placed, Own
<1>6. /\ camelWire'.rec = m.rec /\ camelWire'.lac = m.rec.at.lac /\ camelWire'.cell = m.rec.at.cell
  <2> HIDE DEF m
  <2> QED
    BY <1>1, <1>5 DEF OnWire
<1>7. \A i \in 1 .. Len(camelChannel') : Placed(camelChannel'[i])
  BY <1>3 DEF LocationInv
<1> QED
  BY <1>1, <1>6, <1>7 DEF LocationInv, Placed, Own, LocationIsTheCalls, Busy, PlacedAt, FitsShort

LEMMA LocationAnswered ==
    ASSUME SessionsInv, LocationInv, AnswerCharged \/ AnswerClosing
    PROVE  LocationInv'
<1>1. UNCHANGED <<pc, composed, camelChannel>> /\ camelWire # Nothing
  BY DEF AnswerCharged, AnswerClosing
<1>2. camelWire = [kind |-> "camel", call |-> camelWire.call, rec |-> camelWire.rec,
                   type |-> camelWire.type, sid |-> [Session(camelWire.call) EXCEPT ![13] = <<"brt">>],
                   wire |-> camelWire.wire, lac |-> camelWire.lac, cell |-> camelWire.cell]
  BY <1>1 DEF SessionsInv, Shapes, IsOnWire
<1>3. \/ camelWire' = Nothing
      \/ \E type, wire : camelWire' = [camelWire EXCEPT !.type = type, !.wire = wire]
  BY DEF AnswerCharged, AnswerClosing
<1>4. \/ camelWire' = Nothing
      \/ /\ camelWire'.rec = camelWire.rec
         /\ camelWire'.lac = camelWire.lac /\ camelWire'.cell = camelWire.cell
  BY <1>2, <1>3
<1>5. LocationIsTheCalls'
  BY <1>1, <1>4 DEF LocationInv, LocationIsTheCalls
<1> QED
  BY <1>1, <1>5 DEF LocationInv, Placed, Own, Busy, PlacedAt, FitsShort

LEMMA LocationStep ==
    ASSUME ArrayIsFull, PlacesFit
    PROVE  SessionsInv /\ LocationInv /\ [CallsNext]_callVars => LocationInv'
<1> SUFFICES ASSUME SessionsInv, LocationInv, [CallsNext]_callVars PROVE LocationInv'
  OBVIOUS
<1>1. ASSUME NEW t \in Threads,
             \/ Compose(t) \/ AppendLac(t) \/ AppendCell(t)
             \/ StoreCall(t) \/ QueueCamel(t) \/ QueueDiam(t)
      PROVE  LocationInv'
  BY <1>1, LocationCompose, LocationAppends, LocationStored, LocationQueued
<1>2. CASE SendCamel \/ AnswerCharged \/ AnswerClosing
  BY <1>2, LocationSent, LocationAnswered
<1>3. CASE SendDiam \/ AnswerDiam \/ UNCHANGED callVars
  <2>1. UNCHANGED <<pc, composed, camelChannel, camelWire>>
    BY <1>3 DEF SendDiam, AnswerDiam, callVars, pipeline
  <2> QED
    BY <2>1 DEF LocationInv, Placed, Own, LocationIsTheCalls, Busy, PlacedAt, FitsShort
<1> QED
  BY <1>1, <1>2, <1>3 DEF CallsNext

(* A request carries the LAC and the CELL drawn for its own call, for any       *)
(* number of threads and any delay in the channel, when the constant part of    *)
(* the location leaves no room for a LAC in its array and no place needs more   *)
(* than two bytes (InitMSC, LocationMSC, as with the sample configuration):     *)
(* without the first, calls overwrite each other's bytes.                       *)
THEOREM LocationIsOwn ==
    ASSUME ArrayIsFull, PlacesFit
    PROVE  CallsSpec => []LocationIsTheCalls
<1>1. CallsInit => SessionsInv /\ LocationInv
  BY SessionsInit, LocationInit
<1>2. SessionsInv /\ LocationInv /\ [CallsNext]_callVars => (SessionsInv /\ LocationInv)'
  BY SessionsStep, LocationStep
<1>3. SessionsInv /\ LocationInv => LocationIsTheCalls
  BY DEF LocationInv
<1> QED
  BY <1>1, <1>2, <1>3, PTL DEF CallsSpec
================================================================================
