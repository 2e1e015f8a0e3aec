--------------------------- MODULE SubscriberPool_proofs ---------------------------
(* Proofs about SubscriberPool, for any number of threads, every length of pool  *)
(* and every largest count.                                                      *)
EXTENDS SubscriberPool, TLAPS

USE PoolAssumption
USE DEF Entries, PoolIndexMax, GenCallCount, At

-----------------------------------------------------------------------------
(* The types of the pool and of the passes.  A pass has not met more spent        *)
(* entries than entries; the count a thread is to write back one lower was not   *)
(* zero.                                                                         *)
PoolInv == /\ len \in PoolLens
           /\ pool \in [Entries -> GenCallCount]
           /\ quota \in [Entries -> GenCallCount]
           /\ calls \in [Entries -> 0 .. MaxCount + 1]

PassesInv == /\ idx \in [Threads -> Entries]
             /\ skeep \in [Threads -> 0 .. PoolIndexMax]
             /\ tmp \in [Threads -> GenCallCount]
             /\ tpc \in [Threads -> {"look", "write", "refill"}]
             /\ next \in [Threads -> Entries]
             /\ \A t \in Threads : /\ skeep[t] <= idx[t]
                                   /\ tpc[t] = "write" => tmp[t] # 0 /\ skeep[t] < idx[t]

TypeInv == started \subseteq Threads /\ PoolInv /\ PassesInv

LEMMA Lengths == PoolInv => len \in Nat /\ len > 0 /\ MaxCount \in Nat
  BY SMT DEF PoolInv

LEMMA TypeInit == Init => TypeInv
<1> SUFFICES ASSUME Init PROVE TypeInv
  OBVIOUS
<1>1. PoolInv
  BY SMT DEF Init, PoolInv
<1>2. PassesInv
  BY <1>1, Lengths, SMT DEF Init, PassesInv
<1> QED
  BY <1>1, <1>2 DEF Init, TypeInv

LEMMA Put ==
    ASSUME NEW S, NEW T, NEW f \in [S -> T], NEW x, NEW v \in T
    PROVE  [f EXCEPT ![x] = v] \in [S -> T]
  OBVIOUS

(* Where the next look goes, and what it has met until then.                     *)
LEMMA Indexes ==
    ASSUME TypeInv, NEW t \in Threads
    PROVE  /\ len \in Nat /\ len > 0
           /\ NextIndex(t) \in Nat /\ NextIndex(t) > 0
           /\ NextIndex(t) \in Entries <=> len > 1
           /\ Skeeped(t) \in Nat /\ Skeeped(t) < NextIndex(t)
           /\ ~(idx[t] >= PoolIndexMax) => NextIndex(t) = idx[t] + 1 /\ Skeeped(t) = skeep[t]
           /\ idx[t] >= PoolIndexMax => NextIndex(t) = 1 /\ Skeeped(t) = 0
<1>1. len \in Nat /\ len > 0 /\ idx[t] \in 0 .. len - 1 /\ skeep[t] \in Nat /\ skeep[t] <= idx[t]
  BY Lengths, SMT DEF TypeInv, PassesInv
<1> QED
  BY <1>1, SMT DEF NextIndex, Skeeped

LEMMA SamePool == PoolInv /\ UNCHANGED <<len, pool, quota, calls>> => PoolInv'
  BY SMT DEF PoolInv
LEMMA SamePasses == PassesInv /\ UNCHANGED <<len, idx, skeep, tmp, tpc, next>> => PassesInv'
  BY SMT DEF PassesInv

(* A look: the index moves to entry n, with s spent ones met so far.             *)
LEMMA LookMoves ==
    ASSUME PoolInv, PassesInv, NEW t \in Threads, NEW n \in Entries, NEW s \in 0 .. n,
           NEW pc \in {"look", "write", "refill"}, NEW v \in GenCallCount,
           pc = "write" => v # 0 /\ s < n,
           idx' = [idx EXCEPT ![t] = n], skeep' = [skeep EXCEPT ![t] = s],
           tmp' = [tmp EXCEPT ![t] = v], tpc' = [tpc EXCEPT ![t] = pc],
           UNCHANGED <<len, next>>
    PROVE  PassesInv'
<1>1. len \in Nat /\ len > 0
  BY Lengths
<1>2. s \in 0 .. PoolIndexMax
  BY <1>1, SMT
<1> QED
  BY <1>1, <1>2, SMT DEF PassesInv

LEMMA StepTypes ==
    ASSUME TypeInv, NEW t \in Threads, Step(t)
    PROVE  TypeInv'
<1> USE DEF TypeInv
<1>0. len \in Nat /\ len > 0 /\ started' = started
  BY Indexes DEF Step, LookPanics, LookFound, LookSpent, WriteBack, RefillEntry
<1>1. CASE LookPanics(t)
  BY <1>0, <1>1, SamePool, SamePasses DEF LookPanics
<1>2. CASE LookFound(t)
  <2>1. PoolInv'
    BY <1>2, SamePool DEF LookFound
  <2>2. NextIndex(t) \in Entries /\ Skeeped(t) \in 0 .. NextIndex(t) /\ Skeeped(t) < NextIndex(t)
    BY <1>2, Indexes, SMT DEF LookFound
  <2>3. pool[NextIndex(t)] \in GenCallCount /\ pool[NextIndex(t)] # 0
    BY <1>2, <2>2 DEF LookFound, PoolInv
  <2>4. PassesInv'
    BY <1>2, <2>2, <2>3, LookMoves DEF LookFound
  <2> QED
    BY <1>0, <2>1, <2>4
<1>3. CASE LookSpent(t)
  <2>1. PoolInv'
    BY <1>3, SamePool DEF LookSpent
  <2>2. NextIndex(t) \in Entries /\ Skeeped(t) + 1 \in 0 .. NextIndex(t)
    BY <1>3, Indexes, SMT DEF LookSpent
  <2>3. PICK pc \in {"refill", "look"} : tpc' = [tpc EXCEPT ![t] = pc]
    BY <1>3 DEF LookSpent
  <2>4. tmp' = [tmp EXCEPT ![t] = tmp[t]] /\ tmp[t] \in GenCallCount
    BY <1>3 DEF LookSpent, PassesInv
  <2>5. PassesInv'
    BY <1>3, <2>2, <2>3, <2>4, LookMoves DEF LookSpent
  <2> QED
    BY <1>0, <2>1, <2>5
<1>4. CASE WriteBack(t)
  <2>1. tmp[t] - 1 \in GenCallCount /\ idx[t] \in Entries
    BY <1>4, SMT DEF WriteBack, PassesInv
  <2>2. [pool EXCEPT ![idx[t]] = tmp[t] - 1] \in [Entries -> GenCallCount]
    BY <2>1, Put DEF PoolInv
  <2>5. calls[idx[t]] \in 0 .. MaxCount + 1
    BY <2>1 DEF PoolInv
  <2>6. (IF calls[idx[t]] <= MaxCount THEN calls[idx[t]] + 1 ELSE calls[idx[t]]) \in 0 .. MaxCount + 1
    BY <2>5, Lengths, SMT DEF PoolInv
  <2>7. calls' \in [Entries -> 0 .. MaxCount + 1]
    BY <1>4, <2>6, Put DEF WriteBack, PoolInv
  <2>3. PoolInv'
    BY <1>4, <2>2, <2>7 DEF WriteBack, PoolInv
  <2>4. PassesInv'
    BY <1>0, <1>4, SMT DEF WriteBack, PassesInv
  <2> QED
    BY <1>0, <2>3, <2>4
<1>5. CASE RefillEntry(t)
  <2>1. PICK n \in GenCallCount : /\ pool' = [pool EXCEPT ![next[t]] = n]
                                  /\ quota' = [quota EXCEPT ![next[t]] = n]
    BY <1>5 DEF RefillEntry
  <2>2. calls' = [calls EXCEPT ![next[t]] = 0] /\ len' = len
    BY <1>5 DEF RefillEntry
  <2>8. 0 \in 0 .. MaxCount + 1
    BY SMT
  <2>3. PoolInv'
    BY <2>1, <2>2, <2>8, Put DEF PoolInv
  <2>4. next' \in [Threads -> Entries]
    BY <1>0, <1>5, SMT DEF RefillEntry, PassesInv
  <2>5. /\ tpc' \in [Threads -> {"look", "write", "refill"}]
        /\ \A u \in Threads : tpc'[u] = "write" => tpc[u] = "write"
    BY <1>5, SMT DEF RefillEntry, PassesInv
  <2>6. UNCHANGED <<len, idx, skeep, tmp>>
    BY <1>5 DEF RefillEntry
  <2>7. PassesInv'
    BY <2>4, <2>5, <2>6 DEF PassesInv
  <2> QED
    BY <1>0, <2>3, <2>7
<1> QED
  BY <1>1, <1>2, <1>3, <1>4, <1>5 DEF Step

LEMMA TypeStep == TypeInv /\ [Next]_vars => TypeInv'
<1>1. ASSUME TypeInv, NEW t \in Threads, StartThread(t) PROVE TypeInv'
  BY <1>1, SamePool, SamePasses DEF TypeInv, StartThread
<1>2. ASSUME TypeInv, UNCHANGED vars PROVE TypeInv'
  BY <1>2, SamePool, SamePasses DEF TypeInv, vars
<1> QED
  BY <1>1, <1>2, StepTypes DEF Next

PanicInv == panic \in BOOLEAN

LEMMA PanicType == PanicInv /\ [Next]_vars => PanicInv'
<1> SUFFICES ASSUME PanicInv, [Next]_vars PROVE PanicInv'
  OBVIOUS
<1>1. panic' = TRUE \/ panic' = panic
  BY DEF Next, Step, StartThread, LookPanics, LookFound, LookSpent, WriteBack, RefillEntry, vars
<1> QED
  BY <1>1, Zenon DEF PanicInv

(* Every variable keeps its type: a count is never written back below zero, and  *)
(* no thread looks outside the pool, however they share it.                      *)
THEOREM TypeCorrect == Spec => []TypeOK
<1>1. TypeInv /\ PanicInv => TypeOK
  BY Zenon DEF PanicInv, TypeInv, PoolInv, PassesInv, TypeOK
<1>2. Init => PanicInv
  BY Zenon DEF Init, PanicInv
<1> QED
  BY <1>1, <1>2, TypeInit, TypeStep, PanicType, PTL DEF Spec

-----------------------------------------------------------------------------
(* A pass steps over the pool only if that holds one record.                     *)
THEOREM PanicCorrect == Spec => []PanicsOnlyOnOneRecord
<1>1. Init => PanicsOnlyOnOneRecord
  BY DEF Init, PanicsOnlyOnOneRecord
<1>2. TypeInv /\ PanicsOnlyOnOneRecord /\ [Next]_vars => PanicsOnlyOnOneRecord'
  <2> SUFFICES ASSUME TypeInv, PanicsOnlyOnOneRecord, [Next]_vars
               PROVE  PanicsOnlyOnOneRecord'
    OBVIOUS
  <2> USE DEF PanicsOnlyOnOneRecord
  <2>1. ASSUME NEW t \in Threads, LookPanics(t) PROVE PanicsOnlyOnOneRecord'
    <3>1. NextIndex(t) \notin Entries /\ len' = len
      BY <2>1 DEF LookPanics
    <3> QED
      BY <3>1, Indexes, SMT
  <2>2. ASSUME NEW t \in Threads,
               StartThread(t) \/ LookFound(t) \/ LookSpent(t) \/ WriteBack(t) \/ RefillEntry(t)
        PROVE  PanicsOnlyOnOneRecord'
    BY <2>2 DEF StartThread, LookFound, LookSpent, WriteBack, RefillEntry
  <2>3. CASE UNCHANGED vars
    BY <2>3 DEF vars
  <2> QED
    BY <2>1, <2>2, <2>3 DEF Next, Step
<1> QED
  BY <1>1, <1>2, TypeInit, TypeStep, PTL DEF Spec

-----------------------------------------------------------------------------
(* The first thread alone. *)

(* As long as it has met spent entries only, all up to its index are spent;      *)
(* it refills at the end of such a pass.                                         *)
PassInv == /\ idx[Main] = skeep[Main] /\ idx[Main] < PoolIndexMax =>
                 \A i \in 1 .. idx[Main] : pool[i] = 0
           /\ tpc[Main] = "refill" =>
                 /\ idx[Main] = PoolIndexMax
                 /\ next[Main] = 0 => \A i \in Used : pool[i] = 0

(* What it read is what the entry holds still.                                   *)
BooksInv == /\ \A i \in Used : calls[i] + pool[i] = quota[i]
            /\ tpc[Main] = "write" => tmp[Main] = pool[idx[Main]]

AloneInv == /\ Main \in started
            /\ started = {Main} => PassInv /\ BooksInv

LEMMA AloneInit == Init => AloneInv
<1> SUFFICES ASSUME Init PROVE AloneInv
  OBVIOUS
<1>1. len \in Nat /\ len > 0
  BY SMT DEF Init
<1>2. BooksInv
  BY <1>1, SMT DEF Init, BooksInv, Used
<1>3. PassInv
  BY <1>1, SMT DEF Init, PassInv, Used
<1> QED
  BY <1>2, <1>3 DEF AloneInv, Init

LEMMA PassStep ==
    ASSUME TypeInv, PassInv, Step(Main)
    PROVE  PassInv'
<1> USE DEF PassInv, Used
<1>0. /\ len \in Nat /\ len > 0 /\ idx \in [Threads -> Entries] /\ Main \in Threads
      /\ skeep \in [Threads -> 0 .. PoolIndexMax]
      /\ tpc \in [Threads -> {"look", "write", "refill"}]
      /\ pool \in [Entries -> GenCallCount] /\ next \in [Threads -> Entries]
  BY Lengths DEF TypeInv, PoolInv, PassesInv
<1> DEFINE n == NextIndex(Main)
           s == Skeeped(Main)
<1>n. /\ n \in Nat /\ n > 0 /\ s \in Nat /\ s < n
      /\ ~(idx[Main] >= PoolIndexMax) => n = idx[Main] + 1 /\ s = skeep[Main]
      /\ idx[Main] >= PoolIndexMax => n = 1 /\ s = 0
  BY Indexes
<1>1. CASE LookPanics(Main)
  BY <1>1, SMT DEF LookPanics
<1>2. CASE LookFound(Main)
  <2>1. idx'[Main] = n /\ skeep'[Main] = s /\ tpc'[Main] = "write"
    BY <1>2, <1>0 DEF LookFound
  <2> HIDE DEF n, s
  <2> QED
    BY <2>1, <1>n, SMT
<1>3. CASE LookSpent(Main)
  <2>1. /\ idx'[Main] = n /\ skeep'[Main] = s + 1 /\ pool[n] = 0 /\ n \in Entries
        /\ tpc'[Main] = "refill" => s + 1 = PoolIndexMax
        /\ UNCHANGED <<len, pool, next>>
    BY <1>3, <1>0 DEF LookSpent
  <2> HIDE DEF n, s
  <2>2. s + 1 = n => \A i \in 1 .. n : pool[i] = 0
    <3>1. CASE idx[Main] >= PoolIndexMax
      BY <3>1, <2>1, <1>n, <1>0, SMT
    <3>2. CASE ~(idx[Main] >= PoolIndexMax)
      BY <3>2, <2>1, <1>n, <1>0, SMT
    <3> QED
      BY <3>1, <3>2
  <2>3. tpc'[Main] = "refill" => n = PoolIndexMax /\ s + 1 = n
    BY <2>1, <1>n, <1>0, SMT
  <2> QED
    BY <2>1, <2>2, <2>3, SMT
<1>4. CASE WriteBack(Main)
  <2>1. skeep[Main] < idx[Main]
    BY <1>4 DEF WriteBack, TypeInv, PassesInv
  <2>2. tpc'[Main] = "look" /\ UNCHANGED <<len, idx, skeep>>
    BY <1>4, <1>0 DEF WriteBack
  <2> QED
    BY <2>1, <2>2, <1>0, SMT
<1>5. CASE RefillEntry(Main)
  <2>1. /\ idx[Main] = PoolIndexMax /\ UNCHANGED <<len, idx, skeep>>
        /\ tpc'[Main] = "refill" => next'[Main] = next[Main] + 1
    BY <1>5, <1>0 DEF RefillEntry
  <2> QED
    BY <2>1, <1>0, SMT
<1> QED
  BY <1>1, <1>2, <1>3, <1>4, <1>5 DEF Step

LEMMA BooksStep ==
    ASSUME TypeInv, BooksInv, Step(Main)
    PROVE  BooksInv'
<1> USE DEF BooksInv, Used
<1>0. /\ len \in Nat /\ len > 0 /\ idx \in [Threads -> Entries] /\ Main \in Threads
      /\ tmp \in [Threads -> GenCallCount] /\ tpc \in [Threads -> {"look", "write", "refill"}]
      /\ pool \in [Entries -> GenCallCount] /\ quota \in [Entries -> GenCallCount]
      /\ calls \in [Entries -> 0 .. MaxCount + 1] /\ next \in [Threads -> Entries]
      /\ MaxCount \in Nat
  BY Lengths DEF TypeInv, PoolInv, PassesInv
<1>1. CASE LookPanics(Main)
  BY <1>1, SMT DEF LookPanics
<1>2. CASE LookFound(Main)
  <2>1. /\ idx'[Main] = NextIndex(Main) /\ tmp'[Main] = pool[NextIndex(Main)]
        /\ UNCHANGED <<len, pool, quota, calls>>
    BY <1>2, <1>0 DEF LookFound
  <2> QED
    BY <2>1
<1>3. CASE LookSpent(Main)
  <2>1. tpc'[Main] # "write" /\ UNCHANGED <<len, pool, quota, calls>>
    BY <1>3, <1>0 DEF LookSpent
  <2> QED
    BY <2>1
<1>4. CASE WriteBack(Main)
  <2>1. PICK e : e = idx[Main]
    OBVIOUS
  <2>2. e \in Entries /\ pool[e] \in GenCallCount /\ quota[e] \in GenCallCount
    BY <2>1, <1>0
  <2>3. e > 0
    <3>1. skeep[Main] < e /\ skeep[Main] \in 0 .. PoolIndexMax
      BY <1>4, <2>1 DEF WriteBack, TypeInv, PassesInv
    <3> QED
      BY <3>1, <2>2, <1>0, SMT
  <2>4. tmp[Main] = pool[e] /\ pool[e] # 0
    BY <1>4, <2>1 DEF WriteBack, TypeInv, PassesInv
  <2>5. e \in Used /\ calls[e] \in 0 .. MaxCount + 1 /\ calls[e] + pool[e] = quota[e]
    BY <2>2, <2>3, <1>0, SMT
  <2>6. calls[e] <= MaxCount
    BY <2>2, <2>4, <2>5, <1>0, SMT
  <2>7. /\ pool' = [pool EXCEPT ![e] = pool[e] - 1]
        /\ calls' = [calls EXCEPT ![e] = calls[e] + 1]
        /\ tpc'[Main] = "look" /\ UNCHANGED <<len, quota>>
    BY <1>4, <2>1, <2>4, <2>6, <1>0 DEF WriteBack
  <2>8. ASSUME NEW i \in Used PROVE calls'[i] + pool'[i] = quota'[i]
    <3>1. i \in Entries
      BY <2>8, <1>0, SMT
    <3>2. CASE i = e
      <4>1. calls'[i] = calls[e] + 1 /\ pool'[i] = pool[e] - 1 /\ quota'[i] = quota[e]
        BY <2>7, <3>1, <3>2, <1>0
      <4> QED
        BY <4>1, <2>2, <2>5, <1>0, SMT
    <3>3. CASE i # e
      BY <2>7, <2>8, <3>1, <3>3, <1>0
    <3> QED
      BY <3>2, <3>3
  <2> QED
    BY <2>7, <2>8
<1>5. CASE RefillEntry(Main)
  <2>1. PICK n \in GenCallCount : /\ pool' = [pool EXCEPT ![next[Main]] = n]
                                  /\ quota' = [quota EXCEPT ![next[Main]] = n]
    BY <1>5 DEF RefillEntry
  <2>2. /\ calls' = [calls EXCEPT ![next[Main]] = 0] /\ len' = len
        /\ tpc'[Main] # "write"
    BY <1>5, <1>0 DEF RefillEntry
  <2> QED
    BY <2>1, <2>2, <1>0, SMT
<1> QED
  BY <1>1, <1>2, <1>3, <1>4, <1>5 DEF Step

LEMMA AloneStep == TypeInv /\ AloneInv /\ [Next]_vars => AloneInv'
<1> SUFFICES ASSUME TypeInv, AloneInv, [Next]_vars PROVE AloneInv'
  OBVIOUS
<1> USE DEF AloneInv
<1>1. ASSUME NEW t \in Threads, StartThread(t) PROVE AloneInv'
  <2>1. started' = started \cup {t} /\ t \notin started
    BY <1>1 DEF StartThread
  <2> QED
    BY <2>1
<1>2. ASSUME NEW t \in Threads, Step(t) PROVE AloneInv'
  <2>1. t \in started /\ started' = started
    BY <1>2 DEF Step, LookPanics, LookFound, LookSpent, WriteBack, RefillEntry
  <2>2. started = {Main} => t = Main
    BY <2>1
  <2> QED
    BY <1>2, <2>1, <2>2, PassStep, BooksStep
<1>3. CASE UNCHANGED vars
  BY <1>3 DEF vars, PassInv, BooksInv, Used
<1> QED
  BY <1>1, <1>2, <1>3 DEF Next

(* Without a second thread no call is lost to a subscriber or made twice from    *)
(* one count.                                                                    *)
THEOREM BooksCorrect == Spec => []CountsAddUp
<1>1. AloneInv => CountsAddUp
  BY DEF AloneInv, BooksInv, CountsAddUp
<1> QED
  BY <1>1, TypeInit, TypeStep, AloneInit, AloneStep, PTL DEF Spec

(* ... and counts are drawn anew only for subscribers that all are spent.        *)
THEOREM RefillCorrect == Spec => []RefillOnlyWhenSpent
<1>1. AloneInv => RefillOnlyWhenSpent
  BY DEF AloneInv, PassInv, RefillOnlyWhenSpent
<1> QED
  BY <1>1, TypeInit, TypeStep, AloneInit, AloneStep, PTL DEF Spec
================================================================================
