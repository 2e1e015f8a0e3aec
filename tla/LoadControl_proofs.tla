---------------------------- MODULE LoadControl_proofs ----------------------------
(* Proofs about LoadControl, for any number of threads, calls_per_second, slow   *)
(* limit and options.                                                            *)
EXTENDS LoadControl, FiniteSetTheorems, TLAPS

USE DEF ThreadPcs, WriterPcs
USE LoadAssumption, NoneAssumption

-----------------------------------------------------------------------------
(* Type correctness; the writer holds a line exactly when it is to write one,   *)
(* and only online threads send messages and count calls themselves.            *)

TypeInv == /\ TypeOK
           /\ hold[Task] # None <=> wpc[Task] = "write"
           /\ \A t \in Threads : tpc[t] \in {"message", "count"} => Online

LEMMA TypeInit == Init => TypeInv
<1> SUFFICES ASSUME Init PROVE TypeInv
  OBVIOUS
<1>1. WriterTypeOK /\ (hold[Task] # None <=> wpc[Task] = "write")
  BY DEF Init, WriterInit, WriterTypeOK
<1>2. tpc \in [Threads -> ThreadPcs]
  BY DEF Init
<1>3. late \in [Threads -> 0 .. 2]
  BY DEF Init
<1> QED
  BY <1>1, <1>2, <1>3 DEF Init, TypeInv, TypeOK

LEMMA ThreadKeepsTypes ==
    ASSUME TypeInv, NEW t \in Threads, ThreadStep(t)
    PROVE  TypeInv'
<1> USE DEF TypeInv, TypeOK
<1>1. CASE LoadFlag(t)
  <2>1. \E to \in {"spawn", "stop"} : ThreadAt(t, "top", to)
    BY <1>1 DEF LoadFlag
  <2> QED
    BY <1>1, <2>1 DEF LoadFlag, ThreadAt, WriterTypeOK, writerVars, processVars, monitorVars
<1>2. CASE SpawnThread(t)
  BY <1>2 DEF SpawnThread, WriterTypeOK, writerVars, processVars, monitorVars
<1>3. CASE CheckGostop(t)
  <2>1. \E to \in {"ended", "rate"} : ThreadAt(t, "stop", to)
    BY <1>3 DEF CheckGostop
  <2> QED
    BY <1>3, <2>1 DEF CheckGostop, ThreadAt, WriterTypeOK, writerVars, processVars, monitorVars
<1>4. CASE TakeCall(t)
  <2>1. made' \in 0 .. MaxCalls /\ inSec' \in Nat
    BY <1>4 DEF TakeCall
  <2>2. late' \in [Threads -> 0 .. 2]
    BY <1>4 DEF TakeCall
  <2>3. tpc' \in [Threads -> ThreadPcs]
    BY <1>4 DEF TakeCall, ThreadAt, Kinds
  <2>4. \A u \in Threads : tpc'[u] \in {"message", "count"} => Online
    BY <1>4 DEF TakeCall, ThreadAt, Kinds
  <2> QED
    BY <1>4, <2>1, <2>2, <2>3, <2>4
       DEF TakeCall, WriterTypeOK, writerVars, processVars, monitorVars
<1>5. CASE SkipCall(t) \/ AwaitListener(t)
  BY <1>5 DEF SkipCall, AwaitListener, ThreadAt, WriterTypeOK, writerVars, processVars, monitorVars
<1>6. CASE SendLine(t)
  BY <1>6 DEF SendLine, ThreadAt, Receive, WriterAt, WriterTypeOK, processVars, monitorVars
<1>7. CASE SendMessage(t)
  <2>1. queued' \in 0 .. ChanCap
    BY <1>7 DEF SendMessage
  <2> QED
    BY <1>7, <2>1 DEF SendMessage, ThreadAt, WriterTypeOK, writerVars, processVars,
                      monitorVars
<1>8. CASE CountCall(t)
  BY <1>8 DEF CountCall, ThreadAt, WriterTypeOK, writerVars, processVars, monitorVars
<1> QED
  BY <1>1, <1>2, <1>3, <1>4, <1>5, <1>6, <1>7, <1>8 DEF ThreadStep


LEMMA OthersKeepTypes ==
    ASSUME TypeInv, Writer \/ TakeMessage \/ MonitorStep \/ EndStep
    PROVE  TypeInv'
<1> USE DEF TypeInv, TypeOK
<1>1. CASE Writer
  <2> USE DEF CountLine, WriterTypeOK, WriterAt, threadVars, monitorVars, processVars
  <2>1. CASE WriterWrites
    BY <1>1, <2>1 DEF Writer, WriterWrites, WriteLine
  <2>2. CASE WriterOther
    BY <1>1, <2>2 DEF Writer, WriterOther, OpenFirst, Rotate, AwaitLine, CreateFile,
                      PermissionError, NilFilePanic
  <2> QED
    BY <1>1, <2>1, <2>2 DEF Writer
<1>2. CASE MonitorLoad \/ MonitorReset \/ MonitorStop
  BY <1>2 DEF MonitorLoad, MonitorReset, MonitorStop, MonitorAt, WriterTypeOK,
              writerVars, processVars, threadVars
<1>3. CASE MonitorJudge
  <2>1. /\ flag' \in {0, 1}
        /\ checkstart' \in Nat
        /\ slow' \in 0 .. MaxSlow
    BY <1>3 DEF MonitorJudge, SlowSecond, FastSecond
  <2> QED
    BY <1>3, <2>1 DEF MonitorJudge, MonitorAt, WriterTypeOK, writerVars, processVars
<1>4. CASE EndStep
  BY <1>4 DEF EndStep, CancelContext, SetGostop, Exit, WriterTypeOK, writerVars,
              threadVars, monitorVars
<1>5. CASE TakeMessage
  <2>1. queued' \in 0 .. ChanCap
    BY <1>5 DEF TakeMessage
  <2> QED
    BY <1>5, <2>1 DEF TakeMessage, WriterTypeOK, writerVars, processVars, threadVars, monitorVars
<1> QED
  BY <1>1, <1>2, <1>3, <1>4, <1>5 DEF MonitorStep

LEMMA TypeStep == TypeInv /\ [Next]_vars => TypeInv'
<1>1. TypeInv /\ UNCHANGED vars => TypeInv'
  BY DEF TypeInv, TypeOK, WriterTypeOK, vars, writerVars, processVars, threadVars,
         monitorVars
<1> QED
  BY <1>1, ThreadKeepsTypes, OthersKeepTypes DEF Next

(* Every variable of the rate control keeps its type: the flag stays a flag and *)
(* the counters stay natural numbers.                                           *)
THEOREM TypeCorrect == Spec => []TypeOK
<1>1. TypeInv => TypeOK
  BY DEF TypeInv
<1> QED
  BY <1>1, TypeInit, TypeStep, PTL DEF Spec

-----------------------------------------------------------------------------
(* The rate. *)

LEMMA Sizes ==
    ASSUME TypeOK
    PROVE  /\ IsFiniteSet(Busy) /\ IsFiniteSet(Started)
           /\ Cardinality(Busy) \in Nat /\ Cardinality(Started) \in Nat
           /\ Cardinality(Busy) <= Cardinality(Started)
           /\ InHand \in {0, 1}
           /\ ~WriterCounts => InHand = 0
<1>1. Busy \subseteq Started /\ Started \subseteq Threads
  BY DEF Busy, Started
<1>2. IsFiniteSet(Started)
  BY <1>1, FS_Subset
<1>3. IsFiniteSet(Busy) /\ Cardinality(Busy) <= Cardinality(Started)
  BY <1>1, <1>2, FS_Subset
<1> QED
  BY <1>2, <1>3, FS_CardinalityType DEF InHand

(* What a step may do to the set of busy threads and to the started ones.       *)
LEMMA SameSizes ==
    ASSUME TypeOK, NEW t \in Threads, NEW from \in ThreadPcs, NEW to \in ThreadPcs,
           ThreadAt(t, from, to), from # "off", to # "off"
    PROVE  /\ Started' = Started
           /\ from \notin {"line", "message", "count"} /\ to \notin {"line", "message", "count"}
                => Busy' = Busy
           /\ from \in {"line", "message", "count"} /\ to \in {"line", "message", "count"}
                => Busy' = Busy
           /\ from \notin {"line", "message", "count"} /\ to \in {"line", "message", "count"}
                => Cardinality(Busy') = Cardinality(Busy) + 1
           /\ from \in {"line", "message", "count"} /\ to \notin {"line", "message", "count"}
                => Cardinality(Busy') = Cardinality(Busy) - 1
<1>1. Started' = Started
  BY DEF TypeOK, ThreadAt, Started
<1>2. to \in {"line", "message", "count"} => Busy' = Busy \cup {t}
  BY DEF TypeOK, ThreadAt, Busy
<1>3. to \notin {"line", "message", "count"} => Busy' = Busy \ {t}
  BY DEF TypeOK, ThreadAt, Busy
<1>4. t \in Busy <=> from \in {"line", "message", "count"}
  BY DEF TypeOK, ThreadAt, Busy
<1>5. from \notin {"line", "message", "count"} /\ to \in {"line", "message", "count"}
        => Cardinality(Busy') = Cardinality(Busy) + 1
  BY <1>2, <1>4, Sizes, FS_AddElement
<1>6. from \in {"line", "message", "count"} /\ to \notin {"line", "message", "count"}
        => Cardinality(Busy') = Cardinality(Busy) - 1
  BY <1>3, <1>4, Sizes, FS_RemoveElement
<1> QED
  BY <1>1, <1>2, <1>3, <1>4, <1>5, <1>6

(* CDRPerSec and the calls on their way to it, against the calls of this second *)
(* and of all seconds.  Every action changes these four numbers in step.        *)
RateInv == /\ perSec + Pending < CallsPerSecond + Cardinality(Started)
                                 + (IF WriterCounts THEN 1 ELSE 0)
           /\ inSec <= perSec + Pending

StatInv == /\ mpc \in {"judge", "reset"} => mcdr <= perSec
           /\ StatisticsNotInflated

(* What a thread's step does to these numbers: nothing, take a call, count it,  *)
(* or hand over a line that nobody will count.                                  *)
Moved == /\ UNCHANGED <<made, inSec, perSec>> /\ Pending' = Pending
         /\ Cardinality(Started') >= Cardinality(Started)

Taken == /\ perSec < CallsPerSecond
         /\ Cardinality(Busy') \in 0 .. Cardinality(Started')
         /\ Started' = Started /\ InHand' = InHand
         /\ made' = made + 1 /\ inSec' = inSec + 1 /\ perSec' = perSec
         /\ Pending' = Cardinality(Busy') + InHand' /\ Pending' = Pending + 1

Counted == /\ Started' = Started
           /\ made' = made /\ inSec' = inSec /\ perSec' = perSec + 1
           /\ Pending' = Pending - 1

Uncounted == /\ ~Online /\ ~WriterCounts /\ Started' = Started
             /\ UNCHANGED <<made, inSec, perSec>> /\ Pending' = Pending - 1

LEMMA ThreadCounts ==
    ASSUME TypeInv, NEW t \in Threads, ThreadStep(t)
    PROVE  UNCHANGED monitorVars /\ (Moved \/ Taken \/ Counted \/ Uncounted)
<1> USE DEF TypeInv
<1>1. UNCHANGED monitorVars
  BY DEF ThreadStep, LoadFlag, SpawnThread, CheckGostop, TakeCall, SkipCall, AwaitListener, SendLine,
         SendMessage, CountCall
<1>2. CASE LoadFlag(t) \/ CheckGostop(t) \/ SkipCall(t) \/ AwaitListener(t)
  <2>1. \E from, to \in ThreadPcs \ {"off", "line", "message", "count"} : ThreadAt(t, from, to)
    BY <1>2 DEF LoadFlag, CheckGostop, SkipCall, AwaitListener
  <2>2. Started' = Started /\ Busy' = Busy
    BY <2>1, SameSizes
  <2>3. UNCHANGED <<made, inSec, perSec, hold>>
    BY <1>2 DEF LoadFlag, CheckGostop, SkipCall, AwaitListener, writerVars
  <2> QED
    BY <1>1, <2>2, <2>3, Sizes DEF Moved, Pending, InHand
<1>3. CASE SpawnThread(t)
  <2>1. PICK u \in Threads \ Started :
            tpc' = [tpc EXCEPT ![t] = "stop", ![u] = "top"]
    BY <1>3 DEF SpawnThread
  <2>2. Started' = Started \cup {u} /\ Busy' = Busy
    BY <1>3, <2>1 DEF SpawnThread, TypeOK, Started, Busy
  <2>3. Cardinality(Started') = Cardinality(Started) + 1
    BY <2>1, <2>2, Sizes, FS_AddElement
  <2>4. UNCHANGED <<made, inSec, perSec, hold>>
    BY <1>3 DEF SpawnThread, writerVars
  <2> QED
    BY <1>1, <2>2, <2>3, <2>4, Sizes DEF Moved, Pending, InHand
<1>4. CASE TakeCall(t)
  <2>1. Started' = Started /\ Cardinality(Busy') = Cardinality(Busy) + 1
    <3>1. \E kind \in {"line", "message"} : ThreadAt(t, "rate", kind)
      BY <1>4 DEF TakeCall, Kinds
    <3> QED
      BY <3>1, SameSizes
  <2>2. Cardinality(Busy') <= Cardinality(Started')
    <3>1. Busy' \subseteq Started'
      BY DEF Busy, Started
    <3> QED
      BY <2>1, <3>1, Sizes, FS_Subset
  <2>3. InHand' = InHand
    BY <1>4 DEF TakeCall, InHand, writerVars
  <2> QED
    BY <1>1, <1>4, <2>1, <2>2, <2>3, Sizes DEF Taken, TakeCall, Pending
<1>5. CASE SendLine(t)
  <2>1. hold[Task] = None /\ hold'[Task] # None
    BY <1>5 DEF SendLine, Receive, WriterAt, TypeOK, WriterTypeOK
  <2>2. /\ WriterCounts => InHand = 0 /\ InHand' = 1
        /\ ~WriterCounts => InHand = 0 /\ InHand' = 0
    BY <2>1 DEF InHand
  <2>3. UNCHANGED <<made, inSec, perSec>>
    BY <1>5 DEF SendLine
  <2>4. CASE Online
    <3>1. ThreadAt(t, "line", "count")
      BY <1>5, <2>4 DEF SendLine
    <3>2. Started' = Started /\ Busy' = Busy
      BY <3>1, SameSizes
    <3>3. ~WriterCounts
      BY <2>4 DEF Online, WriterCounts
    <3> QED
      BY <1>1, <2>2, <2>3, <3>2, <3>3, Sizes DEF Moved, Pending
  <2>5. CASE ~Online
    <3>1. ThreadAt(t, "line", "top")
      BY <1>5, <2>5 DEF SendLine
    <3>2. Started' = Started /\ Cardinality(Busy') = Cardinality(Busy) - 1
      BY <3>1, SameSizes
    <3>3. CASE WriterCounts
      BY <1>1, <2>2, <2>3, <3>2, <3>3, Sizes DEF Moved, Pending
    <3>4. CASE ~WriterCounts
      BY <1>1, <2>2, <2>3, <2>5, <3>2, <3>4, Sizes DEF Uncounted, Pending
    <3> QED BY <3>3, <3>4
  <2> QED BY <2>4, <2>5
<1>6. CASE SendMessage(t)
  <2>1. Started' = Started /\ Busy' = Busy
    BY <1>6, SameSizes DEF SendMessage
  <2>2. UNCHANGED <<made, inSec, perSec, hold>>
    BY <1>6 DEF SendMessage, writerVars
  <2> QED
    BY <1>1, <2>1, <2>2, Sizes DEF Moved, Pending, InHand
<1>7. CASE CountCall(t)
  <2>1. Started' = Started /\ Cardinality(Busy') = Cardinality(Busy) - 1
    BY <1>7, SameSizes DEF CountCall
  <2>2. InHand' = InHand
    BY <1>7 DEF CountCall, InHand, writerVars
  <2>3. Online /\ UNCHANGED <<made, inSec>> /\ perSec' = perSec + 1
    BY <1>7 DEF CountCall, ThreadAt
  <2> QED
    BY <1>1, <2>1, <2>2, <2>3, Sizes DEF Counted, Pending
<1> QED
  BY <1>2, <1>3, <1>4, <1>5, <1>6, <1>7 DEF ThreadStep

(* ... and what a step of the others does: pass a count from the writer's hand  *)
(* to CDRPerSec, or one of Monitor's steps.                                     *)
Handed == /\ UNCHANGED <<inSec, mpc, mcdr, recCount>>
          /\ \/ perSec' = perSec /\ Pending' = Pending
             \/ perSec' = perSec + 1 /\ Pending' = Pending - 1

Loaded == /\ UNCHANGED <<inSec, perSec, recCount>> /\ Pending' = Pending
          /\ mpc = "wait"
          /\ \/ mpc' = "judge" /\ mcdr' = perSec
             \/ mpc' = "stopped"

Judged == /\ UNCHANGED <<inSec, perSec, mcdr>> /\ Pending' = Pending
          /\ mpc = "judge" /\ mpc' = "reset" /\ recCount' = recCount + mcdr

Reset == /\ recCount' = recCount /\ Pending' = Pending
         /\ mpc = "reset" /\ mpc' = "wait" /\ inSec' = 0 /\ perSec' = 0

LEMMA OtherCounts ==
    ASSUME TypeInv, Writer \/ TakeMessage \/ MonitorStep \/ EndStep \/ UNCHANGED vars
    PROVE  /\ Busy' = Busy /\ Started' = Started /\ UNCHANGED made
           /\ Handed \/ Loaded \/ Judged \/ Reset
<1> USE DEF TypeInv
<1>1. tpc' = tpc /\ made' = made
  BY DEF Writer, TakeMessage, MonitorStep, MonitorLoad, MonitorJudge, MonitorReset, MonitorStop, EndStep,
         CancelContext, SetGostop, Exit, vars, threadVars
<1>2. Busy' = Busy /\ Started' = Started
  BY <1>1 DEF Busy, Started
<1>3. CASE Writer
  <2>1. UNCHANGED <<inSec, mpc, mcdr, recCount>>
    BY <1>3 DEF Writer, threadVars, monitorVars
  <2>2. CASE WriterWrites
    <3>1. hold[Task] # None /\ hold'[Task] = None
      BY <2>2 DEF WriterWrites, WriteLine, WriterAt, TypeOK, WriterTypeOK
    <3>2. CASE WriterCounts
      <4>1. InHand = 1 /\ InHand' = 0 /\ perSec' = perSec + 1
        BY <2>2, <3>1, <3>2 DEF InHand, WriterWrites, CountLine
      <4> QED
        BY <1>1, <1>2, <2>1, <4>1, Sizes DEF Handed, Pending, TypeOK
    <3>3. CASE ~WriterCounts
      <4>1. InHand = 0 /\ InHand' = 0 /\ perSec' = perSec
        BY <2>2, <3>3 DEF InHand, WriterWrites, CountLine
      <4> QED
        BY <1>1, <1>2, <2>1, <4>1, Sizes DEF Handed, Pending, TypeOK
    <3> QED BY <3>2, <3>3
  <2>3. CASE WriterOther
    <3>1. hold' = hold /\ perSec' = perSec
      BY <2>3 DEF WriterOther, OpenFirst, Rotate, AwaitLine, CreateFile, CountLine
    <3> QED
      BY <1>1, <1>2, <2>1, <3>1, Sizes DEF Handed, Pending, InHand, TypeOK
  <2> QED BY <1>3, <2>2, <2>3 DEF Writer
<1>4. CASE MonitorStep
  <2>1. hold' = hold
    BY <1>4 DEF MonitorStep, MonitorLoad, MonitorJudge, MonitorReset, MonitorStop, writerVars
  <2>2. Pending' = Pending
    BY <1>2, <2>1 DEF Pending, InHand
  <2> QED
    BY <1>1, <1>2, <1>4, <2>2 DEF Loaded, Judged, Reset, MonitorStep, MonitorLoad, MonitorJudge, MonitorReset,
                                  MonitorStop, MonitorAt, threadVars
<1>5. CASE TakeMessage \/ EndStep \/ UNCHANGED vars
  <2>1. UNCHANGED <<hold, perSec, inSec, mpc, mcdr, recCount>>
    BY <1>5 DEF TakeMessage, EndStep, CancelContext, SetGostop, Exit, vars, writerVars, threadVars,
                monitorVars
  <2> QED
    BY <1>1, <1>2, <2>1, Sizes DEF Handed, Pending, InHand, TypeOK
<1> QED
  BY <1>3, <1>4, <1>5

LEMMA PendingType == TypeOK => Pending \in Nat
BY Sizes DEF Pending

LEMMA CountsInit == Init => RateInv /\ StatInv
<1> SUFFICES ASSUME Init PROVE RateInv /\ StatInv
  OBVIOUS
<1>1. Busy = {} /\ Started = {Main} /\ InHand = 0
  BY DEF Init, WriterInit, Busy, Started, InHand
<1>2. Cardinality(Busy) = 0 /\ Cardinality(Started) = 1
  BY <1>1, FS_EmptySet, FS_Singleton
<1>3. Pending = 0
  BY <1>1, <1>2 DEF Pending
<1> QED
  BY <1>2, <1>3 DEF Init, RateInv, StatInv, StatisticsNotInflated

LEMMA StatStep == TypeInv /\ StatInv /\ [Next]_vars => StatInv'
<1> SUFFICES ASSUME TypeInv, StatInv, [Next]_vars PROVE StatInv'
  OBVIOUS
<1> USE DEF TypeInv
<1>1. /\ perSec \in Nat /\ made \in Nat /\ recCount \in Nat
      /\ mcdr \in Nat /\ Pending \in Nat
      /\ recCount + perSec + Pending <= made + (IF mpc = "reset" THEN mcdr ELSE 0)
  BY PendingType DEF TypeOK, StatInv, StatisticsNotInflated
<1>2. ASSUME NEW t \in Threads, ThreadStep(t) PROVE StatInv'
  <2>1. UNCHANGED <<mpc, mcdr, recCount>> /\ (Moved \/ Taken \/ Counted \/ Uncounted)
    BY <1>2, ThreadCounts DEF monitorVars
  <2>2. /\ perSec' \in Nat /\ perSec' >= perSec
        /\ recCount + perSec' + Pending' <= made' + (IF mpc = "reset" THEN mcdr ELSE 0)
    <3>1. CASE Moved
      BY <1>1, <3>1 DEF Moved
    <3>2. CASE Taken
      BY <1>1, <3>2 DEF Taken
    <3>3. CASE Counted
      BY <1>1, <3>3 DEF Counted
    <3>4. CASE Uncounted
      BY <1>1, <3>4 DEF Uncounted
    <3> QED BY <2>1, <3>1, <3>2, <3>3, <3>4
  <2>3. mpc' \in {"judge", "reset"} => mcdr' <= perSec'
    BY <1>1, <2>1, <2>2 DEF StatInv
  <2> QED
    BY <2>1, <2>2, <2>3 DEF StatInv, StatisticsNotInflated
<1>3. CASE Writer \/ TakeMessage \/ MonitorStep \/ EndStep \/ UNCHANGED vars
  <2>1. CASE Handed
    <3>1. made' = made
      BY <1>3, OtherCounts
    <3>2. recCount + perSec' + Pending' <= recCount + perSec + Pending
      BY <1>1, <2>1 DEF Handed
    <3>3. mpc' \in {"judge", "reset"} => mcdr' <= perSec'
      BY <1>1, <2>1 DEF Handed, StatInv
    <3> QED
      BY <1>1, <2>1, <3>1, <3>2, <3>3 DEF StatInv, StatisticsNotInflated, Handed
  <2>2. CASE Loaded
    BY <1>1, <1>3, <2>2, OtherCounts DEF StatInv, StatisticsNotInflated, Loaded
  <2>3. CASE Judged
    BY <1>1, <1>3, <2>3, OtherCounts DEF StatInv, StatisticsNotInflated, Judged
  <2>4. CASE Reset
    BY <1>1, <1>3, <2>4, OtherCounts DEF StatInv, StatisticsNotInflated, Reset
  <2> QED BY <1>3, <2>1, <2>2, <2>3, <2>4, OtherCounts
<1> QED
  BY <1>2, <1>3 DEF Next

LEMMA RateStep ==
    ASSUME InBrtList => Brt \/ Camel
    PROVE  TypeInv /\ RateInv /\ [Next]_vars => RateInv'
<1> SUFFICES ASSUME TypeInv, RateInv, [Next]_vars PROVE RateInv'
  OBVIOUS
<1> USE DEF TypeInv
<1>1. /\ perSec \in Nat /\ inSec \in Nat /\ Pending \in Nat
      /\ Cardinality(Started) \in Nat /\ CallsPerSecond \in Nat
      /\ InHand \in Nat /\ InHand <= IF WriterCounts THEN 1 ELSE 0
  BY PendingType, Sizes DEF TypeOK
<1>2. ASSUME NEW t \in Threads, ThreadStep(t) PROVE RateInv'
  <2>1. CASE Moved
    <3>1. Cardinality(Started') \in Nat
      <4>1. Started' \subseteq Threads
        BY DEF Started
      <4> QED
        BY <4>1, FS_Subset, FS_CardinalityType
    <3> QED
      BY <1>1, <2>1, <3>1 DEF RateInv, Moved
  <2>2. CASE Taken
    BY <1>1, <2>2 DEF RateInv, Taken
  <2>3. CASE Counted
    BY <1>1, <2>3 DEF RateInv, Counted
  <2>4. ~Uncounted
    BY DEF Uncounted, Online, WriterCounts
  <2> QED
    BY <1>2, <2>1, <2>2, <2>3, <2>4, ThreadCounts
<1>3. CASE Writer \/ TakeMessage \/ MonitorStep \/ EndStep \/ UNCHANGED vars
  BY <1>1, <1>3, OtherCounts DEF RateInv, Handed, Loaded, Judged, Reset
<1> QED
  BY <1>2, <1>3 DEF Next

(* Between two resets of CDRPerSec no more calls are taken than calls_per_second*)
(* and one per thread, however the threads, the writer and Monitor interleave - *)
(* provided a task named in -brtlist runs with -brt or -camel.                  *)
THEOREM RateCorrect ==
    ASSUME InBrtList => Brt \/ Camel
    PROVE  Spec => []RateLimited
<1>1. TypeInv /\ RateInv => RateLimited
  BY Sizes, PendingType DEF TypeInv, TypeOK, RateInv, RateLimited
<1> QED
  BY <1>1, TypeInit, TypeStep, CountsInit, RateStep, PTL DEF Spec

(* Monitor never counts a call twice, nor a call that was not counted yet.      *)
THEOREM StatisticsCorrect == Spec => []StatisticsNotInflated
<1>1. StatInv => StatisticsNotInflated
  BY DEF StatInv
<1> QED
  BY <1>1, TypeInit, TypeStep, CountsInit, StatStep, PTL DEF Spec

-----------------------------------------------------------------------------
(* The end of an online task. *)

StopInv == \A t \in Threads :
              /\ late[t] <= 1
              /\ late[t] = 1 => gostop /\ tpc[t] # "rate"
              /\ tpc[t] = "off" => late[t] = 0

LEMMA StopInit == Init => StopInv
BY DEF Init, StopInv

LEMMA StopStep ==
    ASSUME Online
    PROVE  TypeOK /\ StopInv /\ [Next]_vars => StopInv'
<1> SUFFICES ASSUME TypeOK, StopInv, [Next]_vars PROVE StopInv'
  OBVIOUS
<1>1. ASSUME NEW t \in Threads, TakeCall(t) PROVE StopInv'
  BY <1>1 DEF TypeOK, StopInv, TakeCall, ThreadAt, Kinds, processVars
<1>2. ASSUME NEW t \in Threads, CheckGostop(t) PROVE StopInv'
  BY <1>2 DEF TypeOK, StopInv, CheckGostop, ThreadAt, processVars
<1>3. ASSUME NEW t \in Threads, SpawnThread(t) PROVE StopInv'
  BY <1>3 DEF TypeOK, StopInv, SpawnThread, Started, processVars
<1>4. ASSUME NEW t \in Threads,
             LoadFlag(t) \/ SkipCall(t) \/ AwaitListener(t) \/ SendLine(t) \/ SendMessage(t) \/ CountCall(t)
      PROVE  StopInv'
  <2>1. late' = late /\ gostop' = gostop
    BY <1>4 DEF LoadFlag, SkipCall, AwaitListener, SendLine, SendMessage, CountCall, processVars
  <2>2. \A u \in Threads : tpc'[u] \in {"rate", "off"} => tpc'[u] = tpc[u]
    BY <1>4 DEF TypeOK, LoadFlag, SkipCall, AwaitListener, SendLine, SendMessage, CountCall, ThreadAt
  <2> QED
    BY <2>1, <2>2 DEF StopInv
<1>5. CASE Writer \/ TakeMessage \/ MonitorStep \/ EndStep \/ UNCHANGED vars
  <2>1. tpc' = tpc /\ late' = late
    BY <1>5 DEF Writer, TakeMessage, MonitorStep, MonitorLoad, MonitorJudge, MonitorReset,
                MonitorStop, EndStep, CancelContext, SetGostop, Exit, vars, threadVars
  <2>2. gostop => gostop'
    BY <1>5 DEF Writer, WriterWrites, WriterOther, WriteLine, OpenFirst, Rotate, AwaitLine,
                CreateFile, PermissionError, NilFilePanic, TakeMessage, MonitorStep, MonitorLoad,
                MonitorJudge, MonitorReset, MonitorStop, EndStep, CancelContext, SetGostop,
                Exit, vars, processVars
  <2> QED
    BY <2>1, <2>2 DEF StopInv
<1> QED
  BY <1>1, <1>2, <1>3, <1>4, <1>5 DEF Next, ThreadStep

(* An online thread begins at most one call after gostop is set.                *)
THEOREM StopCorrect ==
    ASSUME Online
    PROVE  Spec => []StopsTaking
<1>1. StopInv => StopsTaking
  BY DEF StopInv, StopsTaking
<1> QED
  BY <1>1, TypeInit, TypeStep, StopInit, StopStep, PTL DEF Spec, TypeInv

-----------------------------------------------------------------------------
(* The threads that are added. *)

(* Threads added so far, with the one Monitor has asked for; and the slow        *)
(* seconds they take.                                                            *)
Added == (Cardinality(Started) - 1) + flag
Cost(a) == (SlowLimit + 1) * a

(* Only the first thread is about to add one, and the request is still raised.   *)
SpawnInv == \A t \in Threads : tpc[t] = "spawn" => t = Main /\ flag = 1

(* The slow seconds pay for the threads and for Monitor's present count, and the *)
(* second that raised the flag is one more than they cost.                       *)
PaidFor == slow < MaxSlow => /\ Cost(Added) + checkstart <= slow
                             /\ Added > 0 => Cost(Added) < slow

EarnInv == SpawnInv /\ PaidFor

LEMMA Costs == \A a \in Int : Cost(a) \in Int /\ Cost(a + 1) = Cost(a) + SlowLimit + 1
  BY SMT DEF Cost

LEMMA AddedType == TypeOK => Added \in Int
  BY Sizes DEF Added, TypeOK

LEMMA EarnInit == Init => EarnInv
<1> SUFFICES ASSUME Init PROVE EarnInv
  OBVIOUS
<1>1. Started = {Main}
  BY DEF Init, Started
<1>2. Added = 0
  <2>1. Cardinality(Started) = 1 /\ flag = 0
    BY <1>1, FS_Singleton DEF Init
  <2> QED
    BY <2>1 DEF Added
<1>3. Cost(0) = 0
  BY SMT DEF Cost
<1> QED
  BY <1>2, <1>3 DEF Init, EarnInv, SpawnInv, PaidFor

(* A step that leaves what is owed and what was paid alone.                      *)
LEMMA SamePaid ==
    ASSUME PaidFor, UNCHANGED <<slow, checkstart>>, Added' = Added
    PROVE  PaidFor'
  BY DEF PaidFor, Cost

LEMMA ThreadEarns ==
    ASSUME TypeOK, EarnInv, NEW t \in Threads, ThreadStep(t)
    PROVE  EarnInv'
<1> USE DEF EarnInv
<1>1. UNCHANGED <<slow, checkstart>>
  BY DEF ThreadStep, LoadFlag, SpawnThread, CheckGostop, TakeCall, SkipCall, AwaitListener, SendLine,
         SendMessage, CountCall, monitorVars
<1>2. CASE SpawnThread(t)
  <2>1. PICK u \in Threads \ Started :
            tpc' = [tpc EXCEPT ![t] = "stop", ![u] = "top"]
    BY <1>2 DEF SpawnThread
  <2>2. tpc[t] = "spawn" /\ t = Main /\ flag = 1 /\ flag' = 0
    BY <1>2 DEF SpawnThread, SpawnInv
  <2>3. Started' = Started \cup {u}
    BY <2>1, <2>2 DEF TypeOK, Started
  <2>4. Cardinality(Started') = Cardinality(Started) + 1
    BY <2>1, <2>3, Sizes, FS_AddElement
  <2>5. Added' = Added
    BY <2>2, <2>4, Sizes DEF Added
  <2>6. SpawnInv'
    BY <2>1, <2>2 DEF SpawnInv, TypeOK
  <2> QED
    BY <1>1, <2>5, <2>6, SamePaid
<1>3. CASE ~SpawnThread(t)
  <2>1. \E from, to \in ThreadPcs \ {"off"} :
            ThreadAt(t, from, to) /\ (to = "spawn" => t = Main /\ flag = 1)
    BY <1>3 DEF ThreadStep, LoadFlag, CheckGostop, TakeCall, Kinds, SkipCall, AwaitListener,
                SendLine, SendMessage, CountCall, ThreadAt
  <2>2. Started' = Started
    BY <2>1, SameSizes
  <2>3. flag' = flag
    BY <1>3 DEF ThreadStep, LoadFlag, CheckGostop, TakeCall, SkipCall, AwaitListener, SendLine,
                SendMessage, CountCall
  <2>4. SpawnInv'
    BY <2>1, <2>3 DEF SpawnInv, ThreadAt, TypeOK
  <2> QED
    BY <1>1, <2>2, <2>3, <2>4, SamePaid DEF Added
<1> QED
  BY <1>2, <1>3

LEMMA JudgeEarns ==
    ASSUME TypeOK, EarnInv, MonitorJudge
    PROVE  EarnInv'
<1> USE DEF EarnInv
<1>1. Started' = Started /\ tpc' = tpc
  BY DEF MonitorJudge, Started
<1>2. SpawnInv'
  BY <1>1 DEF SpawnInv, MonitorJudge, SlowSecond, FastSecond, TypeOK
<1> DEFINE c == Cost(Added)
<1>3. /\ Added \in Int /\ c \in Int /\ Cost(Added + 1) = c + SlowLimit + 1
      /\ slow \in Nat /\ checkstart \in Nat /\ SlowLimit \in Nat /\ MaxSlow \in Nat
  BY AddedType, Costs DEF TypeOK
<1>4. slow < MaxSlow => c + checkstart <= slow /\ (Added > 0 => c < slow)
  BY DEF PaidFor
<1>5. ASSUME SlowSecond PROVE slow' < MaxSlow => slow < MaxSlow /\ slow' = slow + 1
  BY <1>3, <1>5 DEF SlowSecond
<1>6. CASE FastSecond
  <2>1. Added' = Added /\ slow' = slow /\ checkstart' = 0
    BY <1>1, <1>6 DEF FastSecond, Added
  <2>2. Cost(Added') = c
    BY <2>1 DEF Cost
  <2> QED
    BY <1>2, <1>3, <1>4, <2>1, <2>2 DEF PaidFor
<1>7. CASE SlowSecond /\ ~RaiseFlag
  <2>1. Added' = Added /\ checkstart' = checkstart + 1
    BY <1>1, <1>7 DEF SlowSecond, Added
  <2>2. Cost(Added') = c
    BY <2>1 DEF Cost
  <2> QED
    BY <1>2, <1>3, <1>4, <1>5, <1>7, <2>1, <2>2 DEF PaidFor
<1>8. CASE SlowSecond /\ RaiseFlag
  <2>1. checkstart > SlowLimit /\ checkstart' = 1 /\ flag' = 1
    BY <1>8 DEF SlowSecond, RaiseFlag
  <2>2. Added' = Added \/ Added' = Added + 1
    BY <1>1, <2>1, Sizes DEF Added, TypeOK
  <2>3. Cost(Added') <= c + SlowLimit + 1 /\ Cost(Added') \in Int
    <3>1. CASE Added' = Added
      BY <1>3, <3>1 DEF Cost
    <3>2. CASE Added' = Added + 1
      <4>1. Cost(Added') = Cost(Added + 1)
        BY <3>2 DEF Cost
      <4> QED
        BY <4>1, <1>3
    <3> QED
      BY <2>2, <3>1, <3>2
  <2> QED
    BY <1>2, <1>3, <1>4, <1>5, <1>8, <2>1, <2>3 DEF PaidFor
<1> QED
  BY <1>6, <1>7, <1>8 DEF MonitorJudge

LEMMA EarnStep == TypeInv /\ EarnInv /\ [Next]_vars => EarnInv'
<1> SUFFICES ASSUME TypeOK, EarnInv, [Next]_vars PROVE EarnInv'
  BY DEF TypeInv
<1>1. ASSUME NEW t \in Threads, ThreadStep(t) PROVE EarnInv'
  BY <1>1, ThreadEarns
<1>2. CASE MonitorJudge
  BY <1>2, JudgeEarns
<1>3. CASE Writer \/ TakeMessage \/ MonitorLoad \/ MonitorReset \/ MonitorStop \/ EndStep \/ UNCHANGED vars
  <2>1. UNCHANGED <<tpc, flag, slow, checkstart>>
    BY <1>3 DEF Writer, TakeMessage, MonitorLoad, MonitorReset, MonitorStop, EndStep, CancelContext,
                SetGostop, Exit, vars, threadVars, monitorVars
  <2>2. Added' = Added
    BY <2>1 DEF Added, Started
  <2> QED
    BY <2>1, <2>2, SamePaid DEF EarnInv, SpawnInv
<1> QED
  BY <1>1, <1>2, <1>3 DEF Next, MonitorStep

(* Every thread was earned by its own slow seconds, for any limit and any number *)
(* of threads: a request is neither served twice nor by another than the first.  *)
THEOREM ThreadsCorrect == Spec => []ThreadsEarnedBySlowness
<1>1. EarnInv => ThreadsEarnedBySlowness
  BY DEF EarnInv, PaidFor, ThreadsEarnedBySlowness, Added, Cost
<1> QED
  BY <1>1, TypeInit, TypeStep, EarnInit, EarnStep, PTL DEF Spec
====================================================================================
