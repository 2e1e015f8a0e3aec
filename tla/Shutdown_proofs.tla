------------------------------ MODULE Shutdown_proofs ------------------------------
(* What holds of generator.pid for every number of runs and tasks and all options. *)
EXTENDS Shutdown, FiniteSetTheorems, TLAPS

NoPidYet == {"none", "log", "truncate"}

(* The process that runs was started, and main stands somewhere exactly while     *)
(* there is one.                                                                 *)
RunsInv == /\ runs \in Nat
           /\ self \in 0 .. runs
           /\ self = 0 <=> main = "none"

(* Once SetPID has opened the file, with no command and no other generator about, *)
(* only main itself changes it: a command finds it empty or reads the number of   *)
(* the living process, never one it would remove the file of.                     *)
PidInv ==
    (main \notin NoPidYet /\ undisputed) =>
        /\ pidFile = IF main = "write" THEN Empty ELSE self
        /\ main = "write" => self \in holders
        /\ other = "none"
        /\ cmd # "remove"
        /\ cmd = "signal" => cmdPid = self

IInv == RunsInv /\ PidInv

(* Absent, Empty and a number of a process are told apart.                       *)
LEMMA Marks == Empty # Absent /\ Empty \notin Pids
  BY ShutdownAssumption, SMT DEF Empty, Absent, Pids

LEMMA InitInv == Init => IInv
  BY SMT DEF Init, IInv, RunsInv, PidInv, NoPidYet

(* The process of the invariant may end at any step: nothing is claimed then.    *)
LEMMA EndKeeps ==
  ASSUME IInv, ProcessEnds, runs' = runs
  PROVE  IInv'
  BY SMT DEF IInv, RunsInv, PidInv, NoPidYet, ProcessEnds

(* A step that leaves the file and its commands alone keeps the invariant if     *)
(* main only goes on from behind SetPID.                                         *)
LEMMA GoesOn ==
  ASSUME IInv, UNCHANGED <<runs, self, fileVars>>,
         \/ main' = main
         \/ main \notin NoPidYet \cup {"write"} /\ main' \notin NoPidYet \cup {"write"}
  PROVE  IInv'
  BY SMT DEF IInv, RunsInv, PidInv, NoPidYet, fileVars

LEMMA MainKeeps == IInv /\ MainStep => IInv'
<1> SUFFICES ASSUME IInv, MainStep PROVE IInv'
  OBVIOUS
<1> USE DEF NoPidYet, MainAt
<1>1. CASE OpenLog
  <2>1. CASE ProcessEnds
    BY <1>1, <2>1, EndKeeps DEF OpenLog
  <2>2. CASE main' = "truncate" /\ UNCHANGED self
    BY <1>1, <2>2, SMT DEF OpenLog, IInv, RunsInv, PidInv, fileVars
  <2> QED
    BY <1>1, <2>1, <2>2 DEF OpenLog
<1>2. CASE TruncatePid
  <2>1. RunsInv'
    BY <1>2, SMT DEF TruncatePid, IInv, RunsInv
  <2>2. undisputed' => /\ cmd' = "none" /\ other' = "none" /\ main' = "write"
                       /\ pidFile' = Empty /\ self' \in holders'
    BY <1>2, Zenon DEF TruncatePid, OpenPid
  <2> QED
    BY <2>1, <2>2, SMT DEF IInv, PidInv
<1>3. CASE WritePid
  BY <1>3, Marks, SMT DEF WritePid, PutPid, IInv, RunsInv, PidInv
<1>4. CASE NotifyContext
  BY <1>4, GoesOn DEF NotifyContext
<1>5. CASE StartClient
  BY <1>5, EndKeeps, GoesOn DEF StartClient
<1>6. CASE Listen
  BY <1>6, GoesOn DEF Listen
<1>7. CASE AwaitBrt
  BY <1>7, GoesOn DEF AwaitBrt
<1>8. CASE LoadTask
  BY <1>8, GoesOn DEF LoadTask
<1>9. CASE TasksLoaded
  BY <1>9, GoesOn DEF TasksLoaded
<1>10. CASE AwaitContext
  BY <1>10, EndKeeps, GoesOn DEF AwaitContext
<1>11. CASE PrintBrtStats
  BY <1>11, GoesOn DEF PrintBrtStats
<1>12. CASE PrintCamelStats
  BY <1>12, GoesOn DEF PrintCamelStats
<1>13. CASE LookAtCache
  BY <1>13, GoesOn DEF LookAtCache
<1>14. CASE Random
  BY <1>14, EndKeeps, GoesOn DEF Random
<1>15. CASE RemovePid
  BY <1>15, EndKeeps DEF RemovePid
<1> QED
  BY <1>1, <1>2, <1>3, <1>4, <1>5, <1>6, <1>7, <1>8, <1>9, <1>10, <1>11, <1>12, <1>13,
     <1>14, <1>15 DEF MainStep

LEMMA SignalledKeeps ==
  ASSUME IInv, Signalled, runs' = runs,
         \/ UNCHANGED fileVars
         \/ UNCHANGED <<pidFile, holders, other, undisputed>> /\ cmd' = "none"
  PROVE  IInv'
<1>1. CASE ProcessEnds
  BY <1>1, EndKeeps
<1>2. CASE UNCHANGED <<self, main>>
  BY <1>2, SMT DEF IInv, RunsInv, PidInv, fileVars, NoPidYet
<1> QED
  BY <1>1, <1>2 DEF Signalled

LEMMA CmdKeeps == IInv /\ CmdStep => IInv'
<1> SUFFICES ASSUME IInv, CmdStep PROVE IInv'
  OBVIOUS
<1>1. CASE StopBegins
  BY <1>1, SMT DEF StopBegins, IInv, RunsInv, PidInv, NoPidYet
<1>2. CASE ReadPid
  BY <1>2, Marks, SMT DEF ReadPid, IInv, RunsInv, PidInv, NoPidYet
<1>3. CASE SignalPid
  <2>1. CASE cmdPid = self /\ Signalled /\ cmd' = "none"
    BY <1>3, <2>1, SignalledKeeps DEF SignalPid
  <2>2. CASE UNCHANGED <<self, main>> /\ (cmd' = "none" \/ cmdPid # self)
    BY <1>3, <2>2, SMT DEF SignalPid, IInv, RunsInv, PidInv, NoPidYet
  <2> QED
    BY <1>3, <2>1, <2>2 DEF SignalPid
<1>4. CASE RemoveStale
  BY <1>4, SMT DEF RemoveStale, IInv, RunsInv, PidInv, NoPidYet
<1> QED
  BY <1>1, <1>2, <1>3, <1>4 DEF CmdStep

LEMMA NextKeeps == IInv /\ [Next]_vars => IInv'
<1> SUFFICES ASSUME IInv, [Next]_vars PROVE IInv'
  OBVIOUS
<1>1. CASE Start
  BY <1>1, SMT DEF Start, IInv, RunsInv, PidInv, NoPidYet, fileVars
<1>2. CASE MainStep
  BY <1>2, MainKeeps
<1>3. CASE TimerFires \/ BrtConnects \/ StoreCall \/ DeleteAnswered
  BY <1>3, GoesOn DEF TimerFires, BrtConnects, StoreCall, DeleteAnswered
<1>4. CASE MonitorStep
  BY <1>4, GoesOn DEF MonitorStep, MonitorSpeed, Report, SpeedDone, MonitorResponses,
                      LockCounter, UnlockCounter, MonitorStops
<1>5. CASE ReporterStep
  BY <1>5, GoesOn DEF ReporterStep, PrepareRequest, ReceiveStat, PostStat
<1>6. CASE \E k \in Kinds : ResponseArrives(k) \/ CountResponse(k)
  BY <1>6, GoesOn DEF ResponseArrives, CountResponse
<1>7. CASE Signal
  BY <1>7, SignalledKeeps DEF Signal
<1>11. CASE OtherStep
  <2> USE DEF FirstUnchanged, IInv, RunsInv, PidInv
  <2>1. CASE StartBeside
    BY <1>11, <2>1, SMT DEF StartBeside
  <2>2. CASE OtherTruncates \/ OtherWrites \/ OtherEnds
    BY <1>11, <2>2, SMT DEF OtherTruncates, OtherWrites, OtherEnds
  <2> QED
    BY <1>11, <2>1, <2>2 DEF OtherStep
<1>8. CASE Kill
  BY <1>8, EndKeeps DEF Kill
<1>9. CASE CmdStep
  BY <1>9, CmdKeeps
<1>10. CASE UNCHANGED vars
  BY <1>10, GoesOn DEF vars
<1> QED
  BY <1>1, <1>2, <1>3, <1>4, <1>5, <1>6, <1>7, <1>8, <1>9, <1>10, <1>11 DEF Next

(* generator.pid names the process that runs from SetPID to RemovePID, however   *)
(* often generators were killed and started and whenever "-s" comes, if SetPID   *)
(* could open it with no command under way and no other generator beside, and    *)
(* none was started since.                                                       *)
THEOREM PidCorrect == Spec => []PidFileNamesProcess
<1>1. IInv => PidFileNamesProcess
  BY Zenon DEF IInv, PidInv, PidFileNamesProcess, NoPidYet
<1> QED
  BY <1>1, InitInv, NextKeeps, PTL DEF Spec

-----------------------------------------------------------------------------
Threads == {"camel", "brt", "file", "none", "skipped"}

(* The types, in the parts that different goroutines write.                       *)
ProcessInv == opts \in Options /\ runs \in 0 .. MaxRuns /\ self \in 0 .. runs
FlagsInv == /\ caught \in BOOLEAN /\ ctxDone \in BOOLEAN /\ timer \in BOOLEAN
            /\ peer \in BOOLEAN
FileInv == /\ pidFile \in {Absent, Empty} \cup Pids
           /\ holders \subseteq Pids
           /\ other \in {"none", "truncate", "write", "runs"}
           /\ otherPid \in 0 .. MaxRuns
           /\ other # "none" => otherPid \in Pids
           /\ cmd \in {"none", "read", "signal", "remove"}
           /\ cmdPid \in 0 .. MaxRuns
MonInv == /\ mon \in {"none", "select", "speed", "lock", "resp", "stopped"}
          /\ kind \in Kinds
          /\ owed \in 0 .. MaxCodes + 3 * Tasks
ReportInv == /\ stat \in 0 .. StatCap
             /\ rep \in {"none", "start", "receive", "post", "ended"}
             /\ ln \in {"nil", "open", "failed"}
TasksInv == started \in Seq(Threads) /\ Len(started) <= Tasks

(* A Diameter response that is under way has its call in the cache still, or the  *)
(* number of calls would fall below zero.                                         *)
CounterInv == /\ lock \in [Kinds -> {"free", "monitor"}]
              /\ codes \in [Kinds -> 0 .. MaxCodes]
              /\ ans \in [Kinds -> {"none", "count", "delete"}]
              /\ cached \in 0 .. CacheCap
              /\ ans["brt"] # "none" => cached > 0

TypeInv == /\ ProcessInv /\ main \in MainPcs /\ FlagsInv /\ undisputed \in BOOLEAN /\ FileInv
           /\ MonInv /\ ReportInv /\ TasksInv /\ CounterInv

LEMMA Bounds == /\ Tasks \in Nat /\ CacheCap \in Nat /\ StatCap \in Nat
                /\ MaxCodes \in Nat /\ MaxRuns \in Nat
  BY ShutdownAssumption

LEMMA NoThreads == <<>> \in Seq(Threads) /\ Len(<<>>) = 0
  BY SMT

LEMMA InitTypes == Init => TypeInv
<1> SUFFICES ASSUME Init PROVE TypeInv
  OBVIOUS
<1>1. ProcessInv /\ main \in MainPcs
  BY Bounds, SMT DEF Init, ProcessInv, MainPcs
<1>2. FlagsInv /\ undisputed \in BOOLEAN
  BY Zenon DEF Init, FlagsInv
<1>3. FileInv
  BY Bounds, SMT DEF Init, FileInv, Absent
<1>4. MonInv /\ ReportInv
  BY Bounds, SMT DEF Init, MonInv, ReportInv, Kinds
<1>5. TasksInv
  BY Bounds, NoThreads, SMT DEF Init, TasksInv
<1>6. CounterInv
  BY Bounds, SMT DEF Init, CounterInv, Kinds
<1> QED
  BY <1>1, <1>2, <1>3, <1>4, <1>5, <1>6 DEF TypeInv

(* The values the end of the process leaves behind.                               *)
LEMMA EndTypes ==
  ASSUME ProcessEnds
  PROVE  self' = 0 /\ main' \in MainPcs /\ MonInv' /\ ReportInv' /\ TasksInv' /\ CounterInv'
<1>1. self' = 0 /\ main' \in MainPcs
  BY SMT DEF ProcessEnds, MainPcs
<1>2. MonInv' /\ ReportInv'
  BY Bounds, SMT DEF MonInv, ReportInv, ProcessEnds, Kinds
<1>3. TasksInv'
  BY Bounds, NoThreads, SMT DEF TasksInv, ProcessEnds
<1>4. CounterInv'
  BY Bounds, SMT DEF CounterInv, ProcessEnds, Kinds
<1> QED
  BY <1>1, <1>2, <1>3, <1>4

(* Who writes which part of the state.                                            *)
WritesFlags == NotifyContext \/ TasksLoaded \/ TimerFires \/ BrtConnects \/ Signalled
WritesFile == TruncatePid \/ WritePid \/ RemovePid \/ OtherStep \/ CmdStep
WritesMon == NotifyContext \/ MonitorStep
WritesReport == NotifyContext \/ Listen \/ Report \/ ReporterStep
WritesCounters == \/ StoreCall \/ DeleteAnswered \/ LockCounter \/ UnlockCounter
                  \/ \E k \in Kinds : ResponseArrives(k) \/ CountResponse(k)

LEMMA Writers ==
  ASSUME [Next]_vars
  PROVE  /\ opts' = opts
         /\ Start \/ ProcessEnds \/ self' = self
         /\ Start \/ StartBeside \/ runs' = runs
         /\ ProcessEnds \/ WritesFlags \/ UNCHANGED <<processVars, peer>>
         /\ TruncatePid \/ StartBeside \/ undisputed' = undisputed
         /\ WritesFile \/ UNCHANGED <<pidFile, holders, other, otherPid, cmd, cmdPid>>
         /\ ProcessEnds \/ WritesMon \/ UNCHANGED monVars
         /\ ProcessEnds \/ WritesReport \/ UNCHANGED <<stat, rep, ln>>
         /\ ProcessEnds \/ LoadTask \/ UNCHANGED started
         /\ ProcessEnds \/ WritesCounters \/ UNCHANGED <<cached, counterVars>>
<1> USE DEF loadVars, serverVars, fileVars
<1>1. CASE Start
  BY <1>1 DEF Start
<1>2. CASE MainStep
  BY <1>2 DEF MainStep, OpenLog, TruncatePid, WritePid, NotifyContext, StartClient, Listen,
     AwaitBrt, LoadTask, TasksLoaded, AwaitContext, PrintBrtStats, PrintCamelStats,
     LookAtCache, Random, RemovePid, WritesFlags, WritesFile, WritesMon, WritesReport
<1>3. CASE TimerFires \/ BrtConnects
  BY <1>3 DEF TimerFires, BrtConnects, WritesFlags
<1>4. CASE StoreCall \/ DeleteAnswered
  BY <1>4 DEF StoreCall, DeleteAnswered, WritesCounters
<1>5. CASE MonitorStep
  BY <1>5 DEF MonitorStep, MonitorSpeed, Report, SpeedDone, MonitorResponses,
     LockCounter, UnlockCounter, MonitorStops, WritesMon, WritesReport, WritesCounters
<1>6. CASE ReporterStep
  BY <1>6 DEF ReporterStep, PrepareRequest, ReceiveStat, PostStat, WritesReport
<1>7. CASE \E k \in Kinds : ResponseArrives(k) \/ CountResponse(k)
  BY <1>7 DEF ResponseArrives, CountResponse, WritesCounters
<1>8. CASE Signal \/ Kill
  BY <1>8 DEF Signal, Kill, Signalled, WritesFlags
<1>9. CASE CmdStep
  BY <1>9 DEF CmdStep, StopBegins, ReadPid, SignalPid, RemoveStale, Signalled, WritesFlags, WritesFile
<1>10. CASE UNCHANGED vars
  BY <1>10 DEF vars
<1>11. CASE OtherStep
  BY <1>11 DEF OtherStep, StartBeside, OtherTruncates, OtherWrites, OtherEnds, FirstUnchanged,
     WritesFile
<1> QED
  BY <1>1, <1>2, <1>3, <1>4, <1>5, <1>6, <1>7, <1>8, <1>9, <1>10, <1>11 DEF Next

(* What a task's mode may start.                                                  *)
LEMMA Modes == \A i \in Nat : StartSimpleMode(i) \subseteq Threads /\ StartDaemonMode \subseteq Threads
  BY SMT DEF StartSimpleMode, StartDaemonMode, Threads

(* The strings of one second are at most three for each task.                     *)
LEMMA SpeedStrings ==
  ASSUME TypeInv, MonitorSpeed
  PROVE  owed' \in 0 .. 3 * Tasks
<1> DEFINE n == Cardinality(Loaded)
           b == Cardinality(Loaded \cap opts.brtlist)
<1>1. IsFiniteSet(1 .. Tasks) /\ Cardinality(1 .. Tasks) = Tasks
  BY ShutdownAssumption, FS_Interval, SMT
<1>2. Loaded \subseteq 1 .. Tasks
  BY ShutdownAssumption, SMT DEF Loaded, TypeInv, TasksInv
<1>3. n \in Nat /\ n <= Tasks
  BY <1>1, <1>2, FS_Subset, FS_CardinalityType
<1>4. b \in Nat /\ b <= Tasks
  <2>1. Loaded \cap opts.brtlist \subseteq 1 .. Tasks
    BY <1>2
  <2> QED
    BY <2>1, <1>1, FS_Subset, FS_CardinalityType
<1>5. owed' = n + (IF opts.camel THEN n ELSE 0) + (IF opts.brt THEN b ELSE 0)
  BY DEF MonitorSpeed
<1> HIDE DEF n, b
<1> QED
  BY <1>3, <1>4, <1>5, ShutdownAssumption, SMT

LEMMA ProcessKept == TypeInv /\ [Next]_vars => ProcessInv'
<1> SUFFICES ASSUME TypeInv, [Next]_vars PROVE ProcessInv'
  OBVIOUS
<1>1. CASE Start
  BY <1>1, Bounds, SMT DEF Start, TypeInv, ProcessInv
<1>2. CASE ~Start
  <2>1. opts' = opts /\ (self' = 0 \/ self' = self)
    BY <1>2, Writers, EndTypes
  <2>2. runs' = runs \/ (runs' = runs + 1 /\ runs < MaxRuns)
    BY <1>2, Writers DEF StartBeside
  <2> QED
    BY <2>1, <2>2, Bounds, SMT DEF TypeInv, ProcessInv
<1> QED
  BY <1>1, <1>2

LEMMA MainKept == main \in MainPcs /\ [Next]_vars => main' \in MainPcs
<1> SUFFICES ASSUME main \in MainPcs, [Next]_vars PROVE main' \in MainPcs
  OBVIOUS
<1>1. CASE UNCHANGED main
  BY <1>1
<1>2. CASE ProcessEnds
  BY <1>2, EndTypes
<1>3. CASE Start
  BY <1>3, SMT DEF Start, MainPcs
<1>4. CASE MainStep /\ ~ProcessEnds
  BY <1>4, SMT DEF MainStep, OpenLog, TruncatePid, WritePid, NotifyContext, StartClient, Listen,
     AwaitBrt, LoadTask, TasksLoaded, AwaitContext, PrintBrtStats, PrintCamelStats,
     LookAtCache, Random, RemovePid, MainAt, MainPcs
<1>5. \/ UNCHANGED main \/ ProcessEnds \/ Start \/ MainStep
  <2> USE DEF Signalled
  <2>1. CASE TimerFires \/ BrtConnects \/ StoreCall \/ DeleteAnswered
    BY <2>1 DEF TimerFires, BrtConnects, StoreCall, DeleteAnswered
  <2>2. CASE MonitorStep \/ ReporterStep
    BY <2>2 DEF MonitorStep, MonitorSpeed, Report, SpeedDone, MonitorResponses, LockCounter,
       UnlockCounter, MonitorStops, ReporterStep, PrepareRequest, ReceiveStat, PostStat
  <2>3. CASE \E k \in Kinds : ResponseArrives(k) \/ CountResponse(k)
    BY <2>3 DEF ResponseArrives, CountResponse
  <2>4. CASE Signal \/ Kill \/ CmdStep
    BY <2>4 DEF Signal, Kill, CmdStep, StopBegins, ReadPid, SignalPid, RemoveStale
  <2>6. CASE OtherStep
    BY <2>6 DEF OtherStep, StartBeside, OtherTruncates, OtherWrites, OtherEnds, FirstUnchanged
  <2>5. CASE UNCHANGED vars
    BY <2>5 DEF vars
  <2> QED
    BY <2>1, <2>2, <2>3, <2>4, <2>5, <2>6 DEF Next
<1> QED
  BY <1>1, <1>2, <1>3, <1>4, <1>5

LEMMA FlagsKept == FlagsInv /\ [Next]_vars => FlagsInv'
<1> SUFFICES ASSUME FlagsInv, [Next]_vars PROVE FlagsInv'
  OBVIOUS
<1> USE DEF FlagsInv, processVars, serverVars
<1>1. CASE NotifyContext
  BY <1>1, Zenon DEF NotifyContext
<1>2. CASE TasksLoaded
  BY <1>2, Zenon DEF TasksLoaded
<1>3. CASE TimerFires
  BY <1>3, Zenon DEF TimerFires
<1>4. CASE BrtConnects
  BY <1>4, Zenon DEF BrtConnects
<1>5. CASE Signalled
  BY <1>5, Zenon DEF Signalled, ProcessEnds
<1>6. CASE ProcessEnds
  BY <1>6, Zenon DEF ProcessEnds
<1>7. CASE UNCHANGED <<processVars, peer>>
  BY <1>7, Zenon
<1> HIDE DEF FlagsInv
<1> QED
  BY <1>1, <1>2, <1>3, <1>4, <1>5, <1>6, <1>7, Writers DEF WritesFlags

LEMMA UndisputedKept == undisputed \in BOOLEAN /\ [Next]_vars => undisputed' \in BOOLEAN
<1> SUFFICES ASSUME undisputed \in BOOLEAN, [Next]_vars PROVE undisputed' \in BOOLEAN
  OBVIOUS
<1>1. CASE TruncatePid
  BY <1>1, Zenon DEF TruncatePid
<1>2. CASE StartBeside
  BY <1>2, Zenon DEF StartBeside
<1>3. CASE undisputed' = undisputed
  BY <1>3, Zenon
<1> QED
  BY <1>1, <1>2, <1>3, Writers

LEMMA FileKept == TypeInv /\ RunsInv /\ [Next]_vars => FileInv'
<1> SUFFICES ASSUME TypeInv, RunsInv, [Next]_vars PROVE FileInv'
  OBVIOUS
<1> USE Bounds DEF TypeInv, FileInv
<1>1. CASE TruncatePid
  <2>1. self \in Pids
    BY <1>1, SMT DEF TruncatePid, ProcessInv, RunsInv, Pids
  <2> QED
    BY <1>1, <2>1, SMT DEF TruncatePid, OpenPid
<1>2. CASE WritePid
  BY <1>2, SMT DEF WritePid, PutPid
<1>3. CASE RemovePid
  BY <1>3, SMT DEF RemovePid, DropPid
<1>9. CASE StartBeside
  BY <1>9, SMT DEF StartBeside, FirstUnchanged, ProcessInv, Pids
<1>10. CASE OtherTruncates
  BY <1>10, SMT DEF OtherTruncates, OpenPid, FirstUnchanged
<1>11. CASE OtherWrites
  BY <1>11, SMT DEF OtherWrites, PutPid, FirstUnchanged
<1>12. CASE OtherEnds
  BY <1>12, SMT DEF OtherEnds, DropPid, FirstUnchanged
<1>4. CASE StopBegins
  BY <1>4, SMT DEF StopBegins
<1>5. CASE ReadPid
  BY <1>5, SMT DEF ReadPid, Pids
<1>6. CASE SignalPid
  BY <1>6, SMT DEF SignalPid
<1>7. CASE RemoveStale
  BY <1>7, SMT DEF RemoveStale, DropPid
<1>8. CASE UNCHANGED <<pidFile, holders, other, otherPid, cmd, cmdPid>>
  BY <1>8
<1> QED
  BY <1>1, <1>2, <1>3, <1>4, <1>5, <1>6, <1>7, <1>8, <1>9, <1>10, <1>11, <1>12, Writers
  DEF WritesFile, OtherStep, CmdStep

LEMMA MonKept == TypeInv /\ [Next]_vars => MonInv'
<1> SUFFICES ASSUME TypeInv, [Next]_vars PROVE MonInv'
  OBVIOUS
<1> USE Bounds DEF MonInv, monVars
<1>1. CASE NotifyContext
  BY <1>1, SMT DEF NotifyContext, TypeInv
<1>2. CASE MonitorSpeed
  <2>1. owed' \in 0 .. 3 * Tasks
    BY <1>2, SpeedStrings
  <2> QED
    BY <1>2, <2>1, SMT DEF MonitorSpeed, TypeInv
<1>3. CASE Report
  BY <1>3, SMT DEF Report, TypeInv
<1>4. CASE SpeedDone
  BY <1>4, SMT DEF SpeedDone, TypeInv
<1>5. CASE MonitorResponses
  BY <1>5, SMT DEF MonitorResponses, TypeInv, Kinds
<1>6. CASE LockCounter
  BY <1>6, SMT DEF LockCounter, TypeInv, CounterInv
<1>7. CASE UnlockCounter
  BY <1>7, SMT DEF UnlockCounter, TypeInv, Kinds
<1>8. CASE MonitorStops
  BY <1>8, SMT DEF MonitorStops, TypeInv
<1>9. CASE UNCHANGED monVars
  BY <1>9, SMT DEF TypeInv
<1> QED
  BY <1>1, <1>2, <1>3, <1>4, <1>5, <1>6, <1>7, <1>8, <1>9, EndTypes, Writers
  DEF WritesMon, MonitorStep

LEMMA ReportKept == ReportInv /\ [Next]_vars => ReportInv'
<1> SUFFICES ASSUME ReportInv, [Next]_vars PROVE ReportInv'
  OBVIOUS
<1> USE Bounds DEF ReportInv, serverVars
<1>1. CASE NotifyContext
  BY <1>1, SMT DEF NotifyContext
<1>2. CASE Listen
  BY <1>2, SMT DEF Listen
<1>3. CASE Report
  BY <1>3, SMT DEF Report
<1>4. CASE PrepareRequest
  BY <1>4, SMT DEF PrepareRequest
<1>5. CASE ReceiveStat
  BY <1>5, SMT DEF ReceiveStat
<1>6. CASE PostStat
  BY <1>6, SMT DEF PostStat
<1>7. CASE UNCHANGED <<stat, rep, ln>>
  BY <1>7, SMT
<1> QED
  BY <1>1, <1>2, <1>3, <1>4, <1>5, <1>6, <1>7, EndTypes, Writers DEF WritesReport, ReporterStep

LEMMA TasksKept == TasksInv /\ [Next]_vars => TasksInv'
<1> SUFFICES ASSUME TasksInv, [Next]_vars PROVE TasksInv'
  OBVIOUS
<1>1. CASE LoadTask
  <2>1. PICK threads \in Threads : started' = Append(started, threads)
    <3>1. Len(started) + 1 \in Nat
      BY SMT DEF TasksInv
    <3> QED
      BY <1>1, <3>1, Modes DEF LoadTask
  <2>2. Len(started) < Tasks
    BY <1>1 DEF LoadTask
  <2> QED
    BY <2>1, <2>2, Bounds, SMT DEF TasksInv
<1>2. CASE UNCHANGED started
  BY <1>2 DEF TasksInv
<1> QED
  BY <1>1, <1>2, EndTypes, Writers

LEMMA CounterKept == TypeInv /\ [Next]_vars => CounterInv'
<1> SUFFICES ASSUME CounterInv, MonInv, [Next]_vars PROVE CounterInv'
  BY DEF TypeInv
<1> USE Bounds DEF CounterInv, counterVars, Kinds
<1>1. CASE StoreCall
  BY <1>1, SMT DEF StoreCall
<1>2. CASE DeleteAnswered
  BY <1>2, SMT DEF DeleteAnswered
<1>3. CASE LockCounter
  BY <1>3, SMT DEF LockCounter, MonInv, loadVars
<1>4. CASE UnlockCounter
  BY <1>4, SMT DEF UnlockCounter, MonInv, loadVars
<1>5. ASSUME NEW k \in Kinds, ResponseArrives(k) PROVE CounterInv'
  BY <1>5, SMT DEF ResponseArrives, loadVars
<1>6. ASSUME NEW k \in Kinds, CountResponse(k) PROVE CounterInv'
  BY <1>6, SMT DEF CountResponse, loadVars
<1>7. CASE UNCHANGED <<cached, counterVars>>
  BY <1>7, SMT
<1> HIDE DEF CounterInv, Kinds
<1> QED
  BY <1>1, <1>2, <1>3, <1>4, <1>5, <1>6, <1>7, EndTypes, Writers DEF WritesCounters

(* A sequence of threads is a function on the tasks that have had their turn.     *)
LEMMA TypeInvTypes == TypeInv => TypeOK
<1> SUFFICES ASSUME TypeInv PROVE TypeOK
  OBVIOUS
<1>1. \E n \in 0 .. Tasks : started \in [1 .. n -> {"camel", "brt", "file", "none", "skipped"}]
  <2>1. Len(started) \in 0 .. Tasks
    BY Bounds, SMT DEF TypeInv, TasksInv
  <2>2. started \in [1 .. Len(started) -> Threads]
    BY SMT DEF TypeInv, TasksInv
  <2> QED
    BY <2>1, <2>2 DEF Threads
<1> QED
  BY <1>1, Zenon DEF TypeInv, TypeOK, ProcessInv, FlagsInv, FileInv, MonInv, ReportInv, CounterInv

(* Every variable has its type, the calls in the cache and the strings that are   *)
(* owed to the channel among them, whatever the options.                          *)
THEOREM ShutdownTypes == Spec => []TypeOK
<1>1. TypeInv /\ IInv /\ [Next]_vars => TypeInv' /\ IInv'
  BY NextKeeps, ProcessKept, MainKept, FlagsKept, UndisputedKept, FileKept, MonKept, ReportKept,
     TasksKept, CounterKept DEF TypeInv, IInv
<1> QED
  BY <1>1, InitInv, InitTypes, TypeInvTypes, PTL DEF Spec
================================================================================
