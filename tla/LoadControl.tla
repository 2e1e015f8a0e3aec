------------------------------- MODULE LoadControl -------------------------------
(* The rate control of one task: the threads of StartTaskFile, StartTaskDiam or  *)
(* StartTaskCamel, the file writer, and Monitor. A thread takes a call only      *)
(* while the counter CDRPerSec is below calls_per_second; the counter is         *)
(* incremented later, by the writer (files) or by the thread itself (the others, *)
(* Online here); Monitor reads the counter once a second, adds it to the         *)
(* statistics, resets it, and raises Flag after ten slow seconds so that the     *)
(* first thread starts another one.                                              *)
(*                                                                               *)
(* Abstracted: lines are not told apart (the writer's calls are the one value    *)
(* Line), a pool entry is spent or not by chance (SubscriberPool has the pool),  *)
(* and messages are not told apart: BrtDiamChannel or CamelChannel is the number *)
(* of them that wait in it, of which a sender may take one or not.               *)
EXTENDS CdrWriter, FiniteSets

CONSTANTS Task,            \* the task
          Line,            \* any CDR line of it
          Threads,         \* the goroutines that may generate for it
          Main,            \* the one StartSimpleMode starts (FirstStart)
          CallsPerSecond,  \* calls_per_second of the task
          SlowLimit,       \* slow seconds before a thread is added: 10
          Camel,           \* the -camel option
          Brt,             \* the -brt option
          InBrtList,       \* the task is named in -brtlist
          Secondary,       \* the -thread option
          ChanCap,         \* capacity of BrtDiamChannel and CamelChannel: 4000
          MaxCalls,        \* bound: the calls taken in a behaviour
          MaxSlow          \* bound: the history slow counts no further

ASSUME LoadAssumption == /\ Tasks = {Task}
                         /\ Calls = {Line}
                         /\ Main \in Threads
                         /\ IsFiniteSet(Threads)
                         /\ CallsPerSecond \in Nat \ {0}
                         /\ SlowLimit \in Nat
                         /\ {Camel, Brt, InBrtList, Secondary} \subseteq BOOLEAN
                         /\ ChanCap \in Nat
                         /\ MaxCalls \in Nat
                         /\ MaxSlow \in Nat

VARIABLES tpc,         \* tpc[t]: where thread t stands in its loop
          queued,      \* messages in the channel of the senders
          perSec,      \* CDRPerSec of the task
          recCount,    \* CDRRecCount of the task
          flag,        \* Flag of the task: a thread is to be added
          checkstart,  \* Monitor's count of slow seconds
          mpc,         \* where Monitor stands
          mcdr,        \* the CDRPerSec it loaded
          made,        \* history: calls taken
          inSec,       \* history: calls taken since Monitor's last reset
          slow,        \* history: seconds judged slow
          late         \* late[t]: history: calls t took after gostop

threadVars == <<tpc, flag, made, inSec, late>>
monitorVars == <<recCount, checkstart, mpc, mcdr, slow>>
vars == <<writerVars, processVars, threadVars, queued, perSec, monitorVars>>

(* Mutant of WriterCounts: CAMEL's lines are counted by the writer, too.        *)
WriterCountsCamel == ~InBrtList

(* The branch of StartSimpleMode, and the test by which the writer decides      *)
(* whether it counts a line in CDRPerSec.                                       *)
Online == Camel \/ (Brt /\ InBrtList)
WriterCounts == ~(InBrtList \/ Camel)

ThreadPcs == {"off", "top", "spawn", "stop", "rate", "line", "message", "count",
              "ended"}

TypeOK == /\ WriterTypeOK
          /\ tpc \in [Threads -> ThreadPcs]
          /\ queued \in 0 .. ChanCap
          /\ perSec \in Nat
          /\ recCount \in Nat
          /\ flag \in {0, 1}
          /\ checkstart \in Nat
          /\ mpc \in {"wait", "judge", "reset", "stopped"}
          /\ mcdr \in Nat
          /\ made \in 0 .. MaxCalls
          /\ inSec \in Nat
          /\ slow \in 0 .. MaxSlow
          /\ late \in [Threads -> 0 .. 2]

Init == /\ WriterInit
        /\ tpc = [t \in Threads |-> IF t = Main THEN "top" ELSE "off"]
        /\ queued = 0
        /\ perSec = 0
        /\ recCount = 0
        /\ flag = 0
        /\ checkstart = 0
        /\ mpc = "wait"
        /\ mcdr = 0
        /\ made = 0
        /\ inSec = 0
        /\ slow = 0
        /\ late = [t \in Threads |-> 0]

-----------------------------------------------------------------------------
(* The loop of StartTaskFile, StartTaskDiam and StartTaskCamel.                 *)
ThreadAt(t, from, to) == /\ tpc[t] = from
                         /\ tpc' = [tpc EXCEPT ![t] = to]

Started == {t \in Threads : tpc[t] # "off"}

(* Only the first thread looks at Flag.  The bound Threads: with no goroutine   *)
(* left to start, the flag is not looked at.                                    *)
LoadFlag(t) ==
    /\ ThreadAt(t, "top", IF t = Main /\ Secondary /\ flag = 1 /\ Started # Threads
                          THEN "spawn" ELSE "stop")
    /\ UNCHANGED <<writerVars, processVars, flag, made, inSec, late, queued, perSec,
                   monitorVars>>

(* Mutant of SpawnThread: the flag stays raised.                                *)
SpawnKeepsFlag(t) ==
    /\ tpc[t] = "spawn"
    /\ \E u \in Threads \ Started : tpc' = [tpc EXCEPT ![t] = "stop", ![u] = "top"]
    /\ UNCHANGED <<writerVars, processVars, flag, made, inSec, late, queued, perSec,
                   monitorVars>>

SpawnThread(t) ==
    /\ tpc[t] = "spawn"
    /\ \E u \in Threads \ Started : tpc' = [tpc EXCEPT ![t] = "stop", ![u] = "top"]
    /\ flag' = 0
    /\ UNCHANGED <<writerVars, processVars, made, inSec, late, queued, perSec,
                   monitorVars>>

(* Mutant of CheckGostop: gostop is not looked at.                              *)
IgnoreGostop(t) ==
    /\ ThreadAt(t, "stop", "rate")
    /\ UNCHANGED <<writerVars, processVars, flag, made, inSec, late, queued, perSec,
                   monitorVars>>

(* The online threads return when gostop is set; StartTaskFile does not look.   *)
CheckGostop(t) ==
    /\ ThreadAt(t, "stop", IF Online /\ gostop THEN "ended" ELSE "rate")
    /\ UNCHANGED <<writerVars, processVars, flag, made, inSec, late, queued, perSec,
                   monitorVars>>

(* What the thread makes of a call: a line for the file, or a message for the   *)
(* senders when the type and the connections allow it.                          *)
Kinds == IF Online THEN {"line", "message"} ELSE {"line"}

(* Mutant of TakeCall: a call is taken at the rate, too.                        *)
TakeCallAtRate(t) ==
    /\ perSec <= CallsPerSecond
    /\ made < MaxCalls
    /\ \E kind \in Kinds : ThreadAt(t, "rate", kind)
    /\ made' = made + 1
    /\ inSec' = inSec + 1
    /\ late' = [late EXCEPT ![t] = IF gostop /\ @ < 2 THEN @ + 1 ELSE @]
    /\ UNCHANGED <<writerVars, processVars, flag, queued, perSec, monitorVars>>

(* Below the rate the thread looks at the next pool entry and takes a call from *)
(* it ...                                                                       *)
TakeCall(t) ==
    /\ perSec < CallsPerSecond
    /\ made < MaxCalls
    /\ \E kind \in Kinds : ThreadAt(t, "rate", kind)
    /\ made' = made + 1
    /\ inSec' = inSec + 1
    /\ late' = [late EXCEPT ![t] = IF gostop /\ @ < 2 THEN @ + 1 ELSE @]
    /\ UNCHANGED <<writerVars, processVars, flag, queued, perSec, monitorVars>>

(* ... unless the entry is spent, or the rate is reached.                       *)
SkipCall(t) ==
    /\ ThreadAt(t, "rate", "top")
    /\ UNCHANGED <<writerVars, processVars, flag, made, inSec, late, queued, perSec,
                   monitorVars>>

(* StartTaskCamel waits five seconds when it finds no BRT connected.            *)
AwaitListener(t) ==
    /\ Camel
    /\ ThreadAt(t, "rate", "top")
    /\ UNCHANGED <<writerVars, processVars, flag, made, inSec, late, queued, perSec,
                   monitorVars>>

(* A line goes to the writer: StartTaskFile goes on, and the call of an online  *)
(* thread - the direct CDR of CreateDiamMessage, CreateCamelMessage or          *)
(* StartTaskCamel itself - is counted afterwards.                               *)
SendLine(t) ==
    /\ ThreadAt(t, "line", IF Online THEN "count" ELSE "top")
    /\ Receive(Task, Line)
    /\ UNCHANGED <<processVars, flag, made, inSec, late, queued, perSec, monitorVars>>

(* CreateDiamMessage and CreateCamelMessage put a message into the channel,     *)
(* which blocks while it is full; the call is counted afterwards.               *)
SendMessage(t) ==
    /\ queued < ChanCap
    /\ ThreadAt(t, "message", "count")
    /\ queued' = queued + 1
    /\ UNCHANGED <<writerVars, processVars, flag, made, inSec, late, perSec, monitorVars>>

CountCall(t) ==
    /\ ThreadAt(t, "count", "top")
    /\ perSec' = perSec + 1
    /\ UNCHANGED <<writerVars, processVars, flag, made, inSec, late, queued, monitorVars>>

-----------------------------------------------------------------------------
(* SendCCREvent or CamelSend takes a message off the channel - or does not: the  *)
(* senders come and go with their connections (DiameterClient, CamelServer).     *)
TakeMessage ==
    /\ queued > 0
    /\ queued' = queued - 1
    /\ UNCHANGED <<writerVars, processVars, threadVars, perSec, monitorVars>>

-----------------------------------------------------------------------------
(* StartFileCDR counts the line it writes, unless -brtlist names its task or    *)
(* CAMEL is on.                                                                 *)
CountLine(written) ==
    perSec' = IF written /\ WriterCounts THEN perSec + 1 ELSE perSec

WriterWrites == WriteLine(Task) /\ CountLine(TRUE)

WriterOther == /\ OpenFirst(Task) \/ Rotate(Task) \/ AwaitLine(Task)
               /\ CountLine(FALSE)

Writer == /\ WriterWrites \/ WriterOther
          /\ UNCHANGED <<threadVars, queued, monitorVars>>

-----------------------------------------------------------------------------
(* Monitor, once a second: load CDRPerSec, judge it, reset it.                  *)
MonitorAt(from, to) == mpc = from /\ mpc' = to

(* Mutant of MonitorLoad: only a slow task is looked at.                        *)
LoadSlowOnly ==
    /\ MonitorAt("wait", "judge")
    /\ perSec < CallsPerSecond
    /\ mcdr' = perSec
    /\ UNCHANGED <<writerVars, processVars, threadVars, queued, perSec, recCount,
                   checkstart, slow>>

MonitorLoad ==
    /\ MonitorAt("wait", "judge")
    /\ mcdr' = perSec
    /\ UNCHANGED <<writerVars, processVars, threadVars, queued, perSec, recCount,
                   checkstart, slow>>

(* A slow second raises the flag when more than SlowLimit came before it, and   *)
(* counts itself after that.                                                    *)
RaiseFlag == checkstart > SlowLimit

(* Mutant of SlowSecond: the flag counts the threads to add.                    *)
SlowSecondCounts ==
    /\ mcdr < CallsPerSecond
    /\ flag' = IF RaiseFlag THEN flag + 1 ELSE flag
    /\ checkstart' = IF RaiseFlag THEN 1 ELSE checkstart + 1
    /\ slow' = IF slow < MaxSlow THEN slow + 1 ELSE slow

SlowSecond ==
    /\ mcdr < CallsPerSecond
    /\ flag' = IF RaiseFlag THEN 1 ELSE flag
    /\ checkstart' = IF RaiseFlag THEN 1 ELSE checkstart + 1
    /\ slow' = IF slow < MaxSlow THEN slow + 1 ELSE slow

FastSecond ==
    /\ mcdr >= CallsPerSecond
    /\ checkstart' = 0
    /\ UNCHANGED <<flag, slow>>

MonitorJudge ==
    /\ MonitorAt("judge", "reset")
    /\ SlowSecond \/ FastSecond
    /\ recCount' = recCount + mcdr
    /\ UNCHANGED <<writerVars, processVars, tpc, made, inSec, late, queued, perSec, mcdr>>

(* What was counted since the load is lost to the statistics.                   *)
MonitorReset ==
    /\ MonitorAt("reset", "wait")
    /\ perSec' = 0
    /\ mcdr' = 0
    /\ inSec' = 0
    /\ UNCHANGED <<writerVars, processVars, tpc, flag, made, late, queued, recCount,
                   checkstart, slow>>

MonitorStop ==
    /\ ctxDone
    /\ MonitorAt("wait", "stopped")
    /\ UNCHANGED <<writerVars, processVars, threadVars, queued, perSec, recCount,
                   checkstart, mcdr, slow>>

-----------------------------------------------------------------------------
(* end(): the duration or a signal cancels the context, gostop is set, and some *)
(* seconds later main returns.                                                  *)
CancelContext ==
    /\ ~ctxDone
    /\ ctxDone' = TRUE
    /\ UNCHANGED <<writerVars, gostop, running, threadVars, queued, perSec, monitorVars>>

SetGostop ==
    /\ ctxDone /\ ~gostop
    /\ gostop' = TRUE
    /\ UNCHANGED <<writerVars, ctxDone, running, threadVars, queued, perSec, monitorVars>>

Exit ==
    /\ ctxDone /\ gostop
    /\ running' = FALSE
    /\ UNCHANGED <<writerVars, gostop, ctxDone, threadVars, queued, perSec, monitorVars>>

-----------------------------------------------------------------------------
ThreadStep(t) == \/ LoadFlag(t)
                 \/ SpawnThread(t)
                 \/ CheckGostop(t)
                 \/ TakeCall(t)
                 \/ SkipCall(t)
                 \/ AwaitListener(t)
                 \/ SendLine(t)
                 \/ SendMessage(t)
                 \/ CountCall(t)

MonitorStep == MonitorLoad \/ MonitorJudge \/ MonitorReset \/ MonitorStop

EndStep == CancelContext \/ SetGostop \/ Exit

Next == /\ running
        /\ \/ \E t \in Threads : ThreadStep(t)
           \/ Writer
           \/ TakeMessage
           \/ MonitorStep
           \/ EndStep

Spec == Init /\ [][Next]_vars

(* Every goroutine is scheduled, a ticker fires again and again, and a channel  *)
(* is FIFO among the goroutines that wait to send.  Nothing is assumed of the   *)
(* disk, of the pool, of the senders, or of the end of the run.                 *)
Fairness ==
    /\ \A t \in Threads : /\ WF_vars(running /\ (LoadFlag(t) \/ SpawnThread(t)
                                                 \/ CheckGostop(t) \/ CountCall(t)))
                          /\ WF_vars(running /\ (TakeCall(t) \/ SkipCall(t) \/ AwaitListener(t)))
                          /\ SF_vars(running /\ (SendLine(t) \/ SendMessage(t)))
    /\ WF_vars(running /\ WriterProgress(Task) /\ Writer)
    /\ WF_vars(running /\ (MonitorLoad \/ MonitorJudge \/ MonitorReset))

FairSpec == Spec /\ Fairness

-----------------------------------------------------------------------------
(* Calls that will still be counted in CDRPerSec: with a thread, or as the line *)
(* in the writer's hand.                                                        *)
Busy == {t \in Threads : tpc[t] \in {"line", "message", "count"}}

InHand == IF WriterCounts /\ hold[Task] # None THEN 1 ELSE 0

Pending == Cardinality(Busy) + InHand

(* calls_per_second is the number of calls in a second (READMECONF.md).  The     *)
(* check of the rate and the count of the call are apart, with a send on a      *)
(* channel and another goroutine between them, so the rate is overshot - but by *)
(* no more than a call per thread (StartTaskFile, StartTaskDiam, StartTaskCamel).*)
RateLimited == inSec <= CallsPerSecond + Cardinality(Started)

(* Why: the counter and the calls that are on their way to it stay in bounds,   *)
(* and a call of this second is in one of the two.                              *)
RateOvershoot ==
    /\ inSec <= perSec + Pending
    /\ perSec + Pending < CallsPerSecond + Cardinality(Started)
                           + (IF WriterCounts THEN 1 ELSE 0)

(* Monitor's three steps per second lose counts but never count a call twice:   *)
(* the statistics stay within the calls that were counted, each by the writer   *)
(* or by its thread, not by both.                                               *)
StatisticsNotInflated ==
    recCount + perSec + Pending <= made + (IF mpc = "reset" THEN mcdr ELSE 0)

(* A thread is added only for its own slow seconds, more than SlowLimit of      *)
(* them, although the flag is raised, read and cleared by different goroutines  *)
(* (Monitor: "only if the speed was lower 10 seconds running").                 *)
ThreadsEarnedBySlowness ==
    LET added == (Cardinality(Started) - 1) + flag
    IN  slow < MaxSlow /\ added > 0 => (SlowLimit + 1) * added < slow

(* After gostop a thread finishes the call it is at and takes at most one more  *)
(* (StartSimpleMode: "at the end of the time they stop their children and       *)
(* themselves").                                                                *)
StopsTaking == \A t \in Threads : late[t] <= 1

(* A task at its rate is released by Monitor, unless Monitor has stopped.       *)
RateReleased == perSec >= CallsPerSecond ~> perSec < CallsPerSecond \/ ctxDone \/ ~running

(* Where a thread may stay for good: at the channel of a writer that died, or   *)
(* at a channel that is full, and stays so only when no sender takes any more.  *)
StuckAtSend(t) == \/ tpc[t] = "line" /\ wpc[Task] = "dead"
                  \/ tpc[t] = "message" /\ queued = ChanCap

(* Once gostop is set every thread ends ("at the end of the time they stop      *)
(* their children and themselves", StartSimpleMode), but for one that the end   *)
(* finds in a send whose receiver is gone: it looks at gostop no more.          *)
ThreadsEnd ==
    \A t \in Threads : \/ []<>(~gostop \/ tpc[t] \in {"off", "ended"} \/ ~running)
                       \/ <>[]StuckAtSend(t)
================================================================================
