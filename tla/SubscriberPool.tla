------------------------------ MODULE SubscriberPool ------------------------------
(* The subscriber pool of a task and the passes the threads of StartTaskFile and *)
(* StartTaskDiam make over it.  The pool is one slice shared by every thread of  *)
(* the task without a lock: a thread reads an entry's CallsCount, and writes it  *)
(* back one lower in a step of its own.  A thread whose pass met spent entries   *)
(* only draws all counts anew (ReinitializationPoolList).                        *)
(*                                                                               *)
(* Abstracted: the rate (a thread may look at the next entry at any time) and    *)
(* the distribution GenCallCount draws from.                                     *)
EXTENDS Integers

CONSTANTS Threads,   \* the goroutines that may generate for the task
          Main,      \* the one StartSimpleMode starts (FirstStart)
          PoolLens,  \* the numbers of records a pool file may hold
          MaxCount   \* the largest count GenCallCount draws

ASSUME PoolAssumption == /\ Main \in Threads
                         /\ PoolLens \subseteq Nat \ {0}
                         /\ MaxCount \in Nat

VARIABLES len,     \* len(PoolList): StartSimpleMode skips a task with none
          started, \* the threads that run
          pool,    \* pool[i]: PoolList[i].CallsCount
          idx,     \* idx[t]: PoolIndex of thread t
          skeep,   \* skeep[t]: spent entries t met in this pass
          tmp,     \* tmp[t]: the count t read
          tpc,     \* tpc[t]: where t stands
          next,    \* next[t]: the entry t's refill draws next
          panic,   \* an index was out of range
          quota,   \* history: the count last drawn for an entry
          calls    \* history: calls made for an entry since (up to MaxCount + 1)

vars == <<len, started, pool, idx, skeep, tmp, tpc, next, panic, quota,
          calls>>

Entries == 0 .. len - 1

PoolIndexMax == len - 1

(* Entries a pass reaches: the index is incremented before it is used.          *)
Used == 1 .. PoolIndexMax

GenCallCount == 0 .. MaxCount

TypeOK == /\ len \in PoolLens
          /\ started \subseteq Threads
          /\ pool \in [Entries -> GenCallCount]
          /\ idx \in [Threads -> Entries]
          /\ skeep \in [Threads -> 0 .. PoolIndexMax]
          /\ tmp \in [Threads -> GenCallCount]
          /\ tpc \in [Threads -> {"look", "write", "refill"}]
          /\ next \in [Threads -> Entries]
          /\ panic \in BOOLEAN
          /\ quota \in [Entries -> GenCallCount]
          /\ calls \in [Entries -> 0 .. MaxCount + 1]

Init == /\ len \in PoolLens
        /\ started = {Main}
        /\ pool \in [Entries -> GenCallCount]
        /\ idx = [t \in Threads |-> 0]
        /\ skeep = [t \in Threads |-> 0]
        /\ tmp = [t \in Threads |-> 0]
        /\ tpc = [t \in Threads |-> "look"]
        /\ next = [t \in Threads |-> 0]
        /\ panic = FALSE
        /\ quota = pool
        /\ calls = [i \in Entries |-> 0]

-----------------------------------------------------------------------------
(* The first thread starts another one, with the same slice (see LoadControl).  *)
StartThread(t) ==
    /\ t \notin started
    /\ started' = started \cup {t}
    /\ UNCHANGED <<len, pool, idx, skeep, tmp, tpc, next, panic, quota, calls>>

At(t, pc) == t \in started /\ tpc[t] = pc

(* Mutant of NextIndex: the pass ends one entry late.                           *)
NextIndexLate(t) == IF idx[t] > PoolIndexMax THEN 1 ELSE idx[t] + 1

NextIndex(t) == IF idx[t] >= PoolIndexMax THEN 1 ELSE idx[t] + 1

(* Mutant of Skeeped: a new pass goes on with the count of the last.            *)
SkeepedKept(t) == skeep[t]

Skeeped(t) == IF idx[t] >= PoolIndexMax THEN 0 ELSE skeep[t]

(* A pool of one record has no entry 1: PoolList[PoolIndex] panics.             *)
LookPanics(t) ==
    /\ At(t, "look")
    /\ NextIndex(t) \notin Entries
    /\ panic' = TRUE
    /\ UNCHANGED <<len, started, pool, idx, skeep, tmp, tpc, next, quota, calls>>

(* Mutant of LookFound: a spent entry is not told.                              *)
LookAny(t) ==
    /\ At(t, "look")
    /\ NextIndex(t) \in Entries
    /\ idx' = [idx EXCEPT ![t] = NextIndex(t)]
    /\ skeep' = [skeep EXCEPT ![t] = Skeeped(t)]
    /\ tmp' = [tmp EXCEPT ![t] = pool[NextIndex(t)]]
    /\ tpc' = [tpc EXCEPT ![t] = "write"]
    /\ UNCHANGED <<len, started, pool, next, panic, quota, calls>>

(* Advance the index, starting a new pass at the end, and read the entry.       *)
LookFound(t) ==
    /\ At(t, "look")
    /\ NextIndex(t) \in Entries
    /\ pool[NextIndex(t)] # 0
    /\ idx' = [idx EXCEPT ![t] = NextIndex(t)]
    /\ skeep' = [skeep EXCEPT ![t] = Skeeped(t)]
    /\ tmp' = [tmp EXCEPT ![t] = pool[NextIndex(t)]]
    /\ tpc' = [tpc EXCEPT ![t] = "write"]
    /\ UNCHANGED <<len, started, pool, next, panic, quota, calls>>

(* Mutant of LookSpent: the refill waits for one spent entry too many.          *)
LookSpentLate(t) ==
    /\ At(t, "look")
    /\ NextIndex(t) \in Entries
    /\ pool[NextIndex(t)] = 0
    /\ idx' = [idx EXCEPT ![t] = NextIndex(t)]
    /\ skeep' = [skeep EXCEPT ![t] = Skeeped(t) + 1]
    /\ tpc' = [tpc EXCEPT ![t] = IF skeep'[t] = len THEN "refill" ELSE "look"]
    /\ UNCHANGED <<len, started, pool, tmp, next, panic, quota, calls>>

LookSpent(t) ==
    /\ At(t, "look")
    /\ NextIndex(t) \in Entries
    /\ pool[NextIndex(t)] = 0
    /\ idx' = [idx EXCEPT ![t] = NextIndex(t)]
    /\ skeep' = [skeep EXCEPT ![t] = Skeeped(t) + 1]
    /\ tpc' = [tpc EXCEPT ![t] = IF skeep'[t] = PoolIndexMax THEN "refill" ELSE "look"]
    /\ UNCHANGED <<len, started, pool, tmp, next, panic, quota, calls>>

(* Mutant of WriteBack: the count goes back as it was.                          *)
WriteBackSame(t) ==
    /\ At(t, "write")
    /\ pool' = [pool EXCEPT ![idx[t]] = tmp[t]]
    /\ calls' = [calls EXCEPT ![idx[t]] = IF @ <= MaxCount THEN @ + 1 ELSE @]
    /\ tmp' = [tmp EXCEPT ![t] = 0]
    /\ tpc' = [tpc EXCEPT ![t] = "look"]
    /\ UNCHANGED <<len, started, idx, skeep, next, panic, quota>>

(* The count goes back one lower, and a call is generated for the subscriber.   *)
WriteBack(t) ==
    /\ At(t, "write")
    /\ pool' = [pool EXCEPT ![idx[t]] = tmp[t] - 1]
    /\ calls' = [calls EXCEPT ![idx[t]] = IF @ <= MaxCount THEN @ + 1 ELSE @]
    /\ tmp' = [tmp EXCEPT ![t] = 0]
    /\ tpc' = [tpc EXCEPT ![t] = "look"]
    /\ UNCHANGED <<len, started, idx, skeep, next, panic, quota>>

(* ReinitializationPoolList, one entry a step.                                  *)
RefillEntry(t) ==
    /\ At(t, "refill")
    /\ \E n \in GenCallCount :
          /\ pool' = [pool EXCEPT ![next[t]] = n]
          /\ quota' = [quota EXCEPT ![next[t]] = n]
    /\ calls' = [calls EXCEPT ![next[t]] = 0]
    /\ IF next[t] = PoolIndexMax
       THEN /\ next' = [next EXCEPT ![t] = 0]
            /\ tpc' = [tpc EXCEPT ![t] = "look"]
       ELSE /\ next' = [next EXCEPT ![t] = @ + 1]
            /\ UNCHANGED tpc
    /\ UNCHANGED <<len, started, idx, skeep, tmp, panic>>

Step(t) == \/ LookPanics(t)
           \/ LookFound(t)
           \/ LookSpent(t)
           \/ WriteBack(t)
           \/ RefillEntry(t)

Next == ~panic /\ \E t \in Threads : StartThread(t) \/ Step(t)

Spec == Init /\ [][Next]_vars

(* Every thread of the task goes on looking while the rate lets it.             *)
FairSpec == Spec /\ \A t \in Threads : WF_vars(~panic /\ Step(t))

-----------------------------------------------------------------------------
(* While the first thread is alone, the counts of the pool account for the      *)
(* calls: what was drawn for a subscriber is what it has called and has left    *)
(* (StartTaskFile, StartTaskDiam).  A second thread breaks it: it writes back   *)
(* a count that the first has used meanwhile.                                   *)
CountsAddUp == started = {Main} => \A i \in Used : calls[i] + pool[i] = quota[i]

(* While the first thread is alone, counts are drawn anew only when every entry *)
(* a pass reaches is spent, so no subscriber loses calls drawn for it.          *)
RefillOnlyWhenSpent ==
    started = {Main} /\ tpc[Main] = "refill" /\ next[Main] = 0 =>
        \A i \in Used : pool[i] = 0

(* However the threads share the pool, a pass stays inside it - unless the pool *)
(* holds one record, which StartSimpleMode accepts and every pass steps over.   *)
PanicsOnlyOnOneRecord == panic => len = 1

(* A spent pool is found spent by some thread's pass, whatever the others have  *)
(* read of it before.                                                           *)
SpentPoolRefilled ==
    (len > 1 /\ \A i \in Used : pool[i] = 0)
        ~> \/ \E i \in Used : pool[i] # 0
           \/ \E t \in Threads : tpc[t] = "refill"
================================================================================
