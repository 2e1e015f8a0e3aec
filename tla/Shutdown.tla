---------------------------------- MODULE Shutdown ----------------------------------
(* How the process starts and ends: main, StartClient, the tasks whose pools are  *)
(* loaded and whose threads start, and end() with its timer;                      *)
(* the signals signal.NotifyContext turns into a cancellation; the CAMEL port;    *)
(* Monitor, which reports to the InfluxDB writer over the channel ReportStat and  *)
(* holds the lock of a response counter while it does; the goroutines that count  *)
(* a response under that lock; the number of Diameter calls the offline cache     *)
(* has, which end() looks at; and the PID file with the command "-s" that reads   *)
(* it.  The process may be killed, and started again under another number; main   *)
(* looks for no other generator, so a second one may run beside it, of which the  *)
(* module has what it does to generator.pid.                                      *)
(*                                                                                *)
(* Abstracted: the load itself; all counters but those LoadMapSpeed reads; the    *)
(* lines of the logs, whose goroutines take the next one once their file is open; *)
(* process numbers, which do not come again and have as many digits each.         *)
EXTENDS Naturals, FiniteSets, Sequences

CONSTANTS Options,   \* the options and the reports it may run with
          Tasks,     \* the number of tasks in the configuration
          CacheCap,  \* Diameter calls that wait for an answer at once
          StatCap,   \* capacity of ReportStat
          MaxCodes,  \* distinct responses counted, per counter
          MaxRuns,   \* bound: the generators that are started
          Again      \* bound: the options under which another one is started

ASSUME ShutdownAssumption ==
    /\ Options \subseteq [daemon : BOOLEAN, brt : BOOLEAN, brtlist : SUBSET (1 .. Tasks),
                          camel : BOOLEAN, tofile : BOOLEAN, influx : BOOLEAN,
                          version : 0 .. 2]
    /\ Tasks \in Nat
    /\ CacheCap \in Nat
    /\ StatCap \in Nat \ {0}
    /\ MaxCodes \in Nat
    /\ MaxRuns \in Nat
    /\ Again \subseteq Options

VARIABLES opts,     \* the options of the command line and the configuration
          runs,     \* generators started so far; the PID of each is its number
          self,     \* PID of the process that runs, 0 if none does
          main,     \* where the main goroutine stands
          started,  \* started[i]: the threads of task i, once its turn has come
          cached,   \* Diameter calls in BrtOfflineCDR
          caught,   \* signals cancel the context instead of killing the process
          ctxDone,  \* the context is cancelled
          timer,    \* end() has started the goroutine that waits for Duration
          ln,       \* the server's listener: "nil", "open", "failed"
          peer,     \* a BRT is in the list of listeners
          mon,      \* where Monitor stands
          kind,     \* the counter Monitor's ten-second half is at
          owed,     \* strings it sends before it goes on
          stat,     \* strings in ReportStat
          rep,      \* where the InfluxDB writer stands
          lock,     \* lock[k]: who holds the lock of counter k
          codes,    \* codes[k]: distinct responses counted
          ans,      \* ans[k]: where a goroutine with a response stands
          pidFile,  \* what generator.pid holds
          holders,  \* PIDs that have the file of this name open
          other,    \* where the second generator stands
          otherPid, \* its PID, 0 if there is none
          cmd,      \* where a command "-s" stands
          cmdPid,   \* the PID it read
          undisputed \* history: the process has set its number, and nobody else
                     \* could claim the file when it did so, or was started since

loadVars == <<started, cached>>
processVars == <<caught, ctxDone, timer>>
serverVars == <<ln, peer>>
monVars == <<mon, kind, owed>>
counterVars == <<lock, codes, ans>>
fileVars == <<pidFile, holders, other, otherPid, cmd, cmdPid, undisputed>>
vars == <<opts, runs, self, main, loadVars, processVars, serverVars, monVars, stat, rep,
          counterVars, fileVars>>

Kinds == {"brt", "camel"}
Pids == 1 .. MaxRuns
Absent == 0
Empty == MaxRuns + 1
MainPcs == {"none", "log", "truncate", "write", "notify", "client", "awaitBrt", "load", "wait",
            "brtStats", "camelStats", "cache", "random", "remove"}

TypeOK == /\ opts \in Options
          /\ runs \in 0 .. MaxRuns
          /\ self \in 0 .. runs
          /\ main \in MainPcs
          /\ \E n \in 0 .. Tasks :
                started \in [1 .. n -> {"camel", "brt", "file", "none", "skipped"}]
          /\ cached \in 0 .. CacheCap
          /\ caught \in BOOLEAN /\ ctxDone \in BOOLEAN /\ timer \in BOOLEAN
          /\ ln \in {"nil", "open", "failed"}
          /\ peer \in BOOLEAN
          /\ mon \in {"none", "select", "speed", "lock", "resp", "stopped"}
          /\ kind \in Kinds
          /\ owed \in 0 .. MaxCodes + 3 * Tasks
          /\ stat \in 0 .. StatCap
          /\ rep \in {"none", "start", "receive", "post", "ended"}
          /\ lock \in [Kinds -> {"free", "monitor"}]
          /\ codes \in [Kinds -> 0 .. MaxCodes]
          /\ ans \in [Kinds -> {"none", "count", "delete"}]
          /\ pidFile \in {Absent, Empty} \cup Pids
          /\ holders \subseteq Pids
          /\ other \in {"none", "truncate", "write", "runs"}
          /\ otherPid \in 0 .. MaxRuns
          /\ cmd \in {"none", "read", "signal", "remove"}
          /\ cmdPid \in 0 .. MaxRuns
          /\ undisputed \in BOOLEAN

Init == /\ opts \in Options
        /\ runs = 0 /\ self = 0 /\ main = "none"
        /\ started = <<>> /\ cached = 0
        /\ caught = FALSE /\ ctxDone = FALSE /\ timer = FALSE
        /\ ln = "nil" /\ peer = FALSE
        /\ mon = "none" /\ kind = "brt" /\ owed = 0
        /\ stat = 0 /\ rep = "none"
        /\ lock = [k \in Kinds |-> "free"]
        /\ codes = [k \in Kinds |-> 0]
        /\ ans = [k \in Kinds |-> "none"]
        /\ pidFile = Absent /\ holders = {} /\ other = "none" /\ otherPid = 0
        /\ cmd = "none" /\ cmdPid = 0 /\ undisputed = FALSE

-----------------------------------------------------------------------------
MainAt(from, to) == main = from /\ main' = to

(* The process is gone, by return from main, a panic or a signal, and all its   *)
(* goroutines with it.                                                          *)
ProcessEnds == /\ self' = 0 /\ main' = "none"
               /\ started' = <<>> /\ cached' = 0
               /\ caught' = FALSE /\ ctxDone' = FALSE /\ timer' = FALSE
               /\ ln' = "nil" /\ peer' = FALSE
               /\ mon' = "none" /\ kind' = "brt" /\ owed' = 0
               /\ stat' = 0 /\ rep' = "none"
               /\ lock' = [k \in Kinds |-> "free"]
               /\ codes' = [k \in Kinds |-> 0]
               /\ ans' = [k \in Kinds |-> "none"]

-----------------------------------------------------------------------------
(* main: the options are read and the goroutine of the log is started.          *)
Start ==
    /\ self = 0 /\ runs < MaxRuns
    /\ runs > 0 => opts \in Again
    /\ runs' = runs + 1
    /\ self' = runs + 1
    /\ main' = "log"
    /\ UNCHANGED <<opts, loadVars, processVars, serverVars, monVars, stat, rep, counterVars, fileVars>>

(* The first line waits until that goroutine has its file; if it cannot be      *)
(* opened, log.Fatal ends the process before it touches generator.pid.          *)
OpenLog ==
    /\ main = "log"
    /\ \/ /\ main' = "truncate"
          /\ UNCHANGED <<self, loadVars, processVars, serverVars, monVars, stat, rep, counterVars>>
       \/ ProcessEnds
    /\ UNCHANGED <<opts, runs, fileVars>>

(* SetPID opens the file, which truncates it or makes it, and then writes: into   *)
(* the file it opened, which need not be the one of this name any more.           *)
OpenPid(p) == /\ pidFile' = Empty
              /\ holders' = holders \cup {p}

PutPid(p) == /\ pidFile' = IF p \in holders THEN p ELSE pidFile
             /\ holders' = holders \ {p}

(* os.Remove takes the name from whatever file has it.                            *)
DropPid == pidFile' = Absent /\ holders' = {}

(* A file that cannot be opened is logged, and main goes on without it.           *)
TruncatePid ==
    /\ main = "truncate"
    /\ \/ /\ main' = "write"
          /\ OpenPid(self)
          /\ undisputed' = (cmd = "none" /\ other = "none")
       \/ /\ main' = "notify"
          /\ undisputed' = FALSE
          /\ UNCHANGED <<pidFile, holders>>
    /\ UNCHANGED <<opts, runs, self, loadVars, processVars, serverVars, monVars, stat, rep,
                   counterVars, other, otherPid, cmd, cmdPid>>

WritePid ==
    /\ MainAt("write", "notify")
    /\ PutPid(self)
    /\ UNCHANGED <<opts, runs, self, loadVars, processVars, serverVars, monVars, stat, rep,
                   counterVars, other, otherPid, cmd, cmdPid, undisputed>>

(* From here on signals cancel the context.  Monitor and the writer start.      *)
NotifyContext ==
    /\ MainAt("notify", "client")
    /\ caught' = TRUE
    /\ mon' = "select"
    /\ rep' = IF opts.influx THEN "start" ELSE "none"
    /\ UNCHANGED <<opts, runs, self, loadVars, ctxDone, timer, serverVars, kind, owed, stat,
                   counterVars, fileVars>>

(* StartClient: the Diameter client starts and returns; the CAMEL server starts *)
(* with a log of its own, whose file must open, too ...                         *)
StartClient ==
    /\ main = "client"
    /\ \/ /\ main' = IF opts.camel THEN "awaitBrt" ELSE "load"
          /\ UNCHANGED <<self, loadVars, processVars, serverVars, monVars, stat, rep, counterVars>>
       \/ opts.camel /\ ProcessEnds
    /\ UNCHANGED <<opts, runs, fileVars>>

(* ... in a goroutine, whose Listen may fail ...                                *)
Listen ==
    /\ opts.camel /\ ln = "nil"
    /\ main \in MainPcs \ {"none", "log", "truncate", "write", "notify", "client"}
    /\ ln' \in {"open", "failed"}
    /\ UNCHANGED <<opts, runs, self, main, loadVars, processVars, peer, monVars, stat, rep,
                   counterVars, fileVars>>

BrtConnects ==
    /\ ln = "open" /\ ~peer /\ ~ctxDone
    /\ peer' = TRUE
    /\ UNCHANGED <<opts, runs, self, main, loadVars, processVars, ln, monVars, stat, rep,
                   counterVars, fileVars>>

(* ... and main waits for the first BRT or for the end of the context.          *)
AwaitBrt ==
    /\ MainAt("awaitBrt", "load")
    /\ peer \/ ctxDone
    /\ UNCHANGED <<opts, runs, self, loadVars, processVars, serverVars, monVars, stat, rep,
                   counterVars, fileVars>>

-----------------------------------------------------------------------------
(* A task without a pool file, or with one that cannot be read or has no          *)
(* subscriber, is passed over.  Of another the options tell the threads; any that *)
(* generates comes with a writer.                                                 *)
StartSimpleMode(i) ==
    {"skipped",
     CASE opts.camel -> "camel"
       [] ~opts.camel /\ opts.brt /\ i \in opts.brtlist -> "brt"
       [] ~opts.camel /\ ~(opts.brt /\ i \in opts.brtlist) /\ opts.tofile -> "file"
       [] OTHER -> "none"}

(* The daemon starts CAMEL threads only.                                          *)
StartDaemonMode == {"skipped", IF opts.camel THEN "camel" ELSE "none"}

(* main, by the option -d, goes through the tasks in one of these modes.          *)
LoadTask ==
    /\ main = "load" /\ Len(started) < Tasks
    /\ \E threads \in IF opts.daemon THEN StartDaemonMode ELSE StartSimpleMode(Len(started) + 1) :
          started' = Append(started, threads)
    /\ UNCHANGED <<opts, runs, self, main, cached, processVars, serverVars, monVars, stat,
                   rep, counterVars, fileVars>>

(* end(): only here the time of the run begins to count.                          *)
TasksLoaded ==
    /\ MainAt("load", "wait")
    /\ Len(started) = Tasks
    /\ timer' = TRUE
    /\ UNCHANGED <<opts, runs, self, loadVars, caught, ctxDone, serverVars, monVars, stat, rep,
                   counterVars, fileVars>>

CamelTasks == {i \in DOMAIN started : started[i] = "camel"}

(* Threads that send over Diameter: StartTaskDiam's, and StartTaskCamel's of a     *)
(* task in -brtlist, for the record types of that channel.                         *)
DiameterTasks == {i \in DOMAIN started : started[i] = "brt"}
                     \cup (IF opts.brt THEN CamelTasks \cap opts.brtlist ELSE {})

(* Such a thread stores a call in BrtOfflineCDR (see DiameterClient).              *)
StoreCall ==
    /\ DiameterTasks # {} /\ cached < CacheCap
    /\ cached' = cached + 1
    /\ UNCHANGED <<opts, runs, self, main, started, processVars, serverVars, monVars, stat,
                   rep, counterVars, fileVars>>

-----------------------------------------------------------------------------
(* The time is over: stop() cancels the context and gives the signals back.     *)
TimerFires ==
    /\ timer
    /\ timer' = FALSE
    /\ ctxDone' = TRUE
    /\ caught' = FALSE
    /\ UNCHANGED <<opts, runs, self, main, loadVars, serverVars, monVars, stat, rep,
                   counterVars, fileVars>>

(* The context is done: ServerStop, where a listener Listen did not give is a nil *)
(* pointer, then eleven seconds for late answers, then the counters are printed.  *)
AwaitContext ==
    /\ main = "wait" /\ ctxDone
    /\ \/ /\ opts.camel => ln = "open"
          /\ main' = IF opts.brt THEN "brtStats" ELSE IF opts.camel THEN "camelStats" ELSE "remove"
          /\ UNCHANGED <<self, loadVars, processVars, serverVars, monVars, stat, rep, counterVars>>
       \/ /\ opts.camel /\ ln # "open"
          /\ ProcessEnds
    /\ UNCHANGED <<opts, runs, fileVars>>

(* LoadRangeToLogFunc takes the counter's lock and gives it back.               *)
PrintBrtStats ==
    /\ main = "brtStats"
    /\ lock["brt"] = "free"
    /\ main' = IF opts.camel THEN "camelStats" ELSE "cache"
    /\ UNCHANGED <<opts, runs, self, loadVars, processVars, serverVars, monVars, stat, rep,
                   counterVars, fileVars>>

PrintCamelStats ==
    /\ MainAt("camelStats", "cache")
    /\ lock["camel"] = "free"
    /\ UNCHANGED <<opts, runs, self, loadVars, processVars, serverVars, monVars, stat, rep,
                   counterVars, fileVars>>

(* The cache is looked at without its lock ...                                    *)
LookAtCache ==
    /\ main = "cache"
    /\ main' = IF cached > 0 THEN "random" ELSE "remove"
    /\ UNCHANGED <<opts, runs, self, loadVars, processVars, serverVars, monVars, stat, rep,
                   counterVars, fileVars>>

(* ... and one of its calls is drawn under it: none is left if a late answer has  *)
(* deleted the last one meanwhile, and rand.Intn(0) panics.                       *)
Random ==
    /\ main = "random"
    /\ \/ /\ cached > 0
          /\ main' = "remove"
          /\ UNCHANGED <<self, loadVars, processVars, serverVars, monVars, stat, rep, counterVars>>
       \/ /\ cached = 0
          /\ ProcessEnds
    /\ UNCHANGED <<opts, runs, fileVars>>

(* RemovePID removes whatever file is there.                                    *)
RemovePid ==
    /\ main = "remove"
    /\ DropPid
    /\ ProcessEnds
    /\ UNCHANGED <<opts, runs, other, otherPid, cmd, cmdPid, undisputed>>

-----------------------------------------------------------------------------
(* The second generator: main does not ask whether one runs.  It sets its number,  *)
(* goes on with or without, and removes the file in the end, or dies.              *)
FirstUnchanged == UNCHANGED <<opts, self, main, loadVars, processVars, serverVars, monVars,
                              stat, rep, counterVars, cmd, cmdPid>>

StartBeside ==
    /\ self # 0 /\ other = "none" /\ runs < MaxRuns /\ opts \in Again
    /\ runs' = runs + 1
    /\ otherPid' = runs + 1
    /\ other' = "truncate"
    /\ undisputed' = FALSE
    /\ FirstUnchanged /\ UNCHANGED <<pidFile, holders>>

OtherTruncates ==
    /\ other = "truncate"
    /\ \/ other' = "write" /\ OpenPid(otherPid)
       \/ other' = "runs" /\ UNCHANGED <<pidFile, holders>>
    /\ FirstUnchanged /\ UNCHANGED <<runs, otherPid, undisputed>>

OtherWrites ==
    /\ other = "write" /\ other' = "runs"
    /\ PutPid(otherPid)
    /\ FirstUnchanged /\ UNCHANGED <<runs, otherPid, undisputed>>

OtherEnds ==
    /\ other # "none"
    /\ other' = "none" /\ otherPid' = 0
    /\ \/ other = "runs" /\ DropPid
       \/ UNCHANGED <<pidFile, holders>>
    /\ FirstUnchanged /\ UNCHANGED <<runs, undisputed>>

-----------------------------------------------------------------------------
Loaded == {i \in DOMAIN started : started[i] # "skipped"}

(* Monitor, every second: up to three strings for each task with a pool.        *)
MonitorSpeed ==
    /\ mon = "select" /\ opts.influx
    /\ mon' = "speed"
    /\ owed' = Cardinality(Loaded)
               + (IF opts.camel THEN Cardinality(Loaded) ELSE 0)
               + (IF opts.brt THEN Cardinality(Loaded \cap opts.brtlist) ELSE 0)
    /\ UNCHANGED <<opts, runs, self, main, loadVars, processVars, serverVars, kind, stat, rep,
                   counterVars, fileVars>>

Report ==
    /\ mon \in {"speed", "resp"} /\ owed > 0
    /\ stat < StatCap
    /\ stat' = stat + 1
    /\ owed' = owed - 1
    /\ UNCHANGED <<opts, runs, self, main, loadVars, processVars, serverVars, mon, kind, rep,
                   counterVars, fileVars>>

SpeedDone ==
    /\ mon = "speed" /\ owed = 0
    /\ mon' = "select"
    /\ UNCHANGED <<opts, runs, self, main, loadVars, processVars, serverVars, kind, owed, stat, rep,
                   counterVars, fileVars>>

(* Every ten seconds: LoadMapSpeed of each counter in use.                      *)
MonitorResponses ==
    /\ mon = "select" /\ opts.influx
    /\ \E k \in Kinds : opts[k]
    /\ mon' = "lock"
    /\ kind' = IF opts.brt THEN "brt" ELSE "camel"
    /\ UNCHANGED <<opts, runs, self, main, loadVars, processVars, serverVars, owed, stat, rep,
                   counterVars, fileVars>>

LockCounter ==
    /\ mon = "lock"
    /\ lock[kind] = "free"
    /\ lock' = [lock EXCEPT ![kind] = "monitor"]
    /\ owed' = codes[kind]
    /\ mon' = "resp"
    /\ UNCHANGED <<opts, runs, self, main, loadVars, processVars, serverVars, kind, stat, rep,
                   codes, ans, fileVars>>

(* Mutant of UnlockCounter: the deferred Unlock is missing.                     *)
KeepLock ==
    /\ mon = "resp" /\ owed = 0
    /\ \/ kind = "brt" /\ opts.camel /\ mon' = "lock" /\ kind' = "camel"
       \/ ~(kind = "brt" /\ opts.camel) /\ mon' = "select" /\ UNCHANGED kind
    /\ UNCHANGED <<opts, runs, self, main, loadVars, processVars, serverVars, owed, stat, rep,
                   counterVars, fileVars>>

UnlockCounter ==
    /\ mon = "resp" /\ owed = 0
    /\ lock' = [lock EXCEPT ![kind] = "free"]
    /\ \/ kind = "brt" /\ opts.camel /\ mon' = "lock" /\ kind' = "camel"
       \/ ~(kind = "brt" /\ opts.camel) /\ mon' = "select" /\ UNCHANGED kind
    /\ UNCHANGED <<opts, runs, self, main, loadVars, processVars, serverVars, owed, stat, rep,
                   codes, ans, fileVars>>

MonitorStops ==
    /\ mon = "select" /\ ctxDone
    /\ mon' = "stopped"
    /\ UNCHANGED <<opts, runs, self, main, loadVars, processVars, serverVars, kind, owed, stat, rep,
                   counterVars, fileVars>>

-----------------------------------------------------------------------------
(* StartHTTPWriter: without an address for the version it returns.              *)
PrepareRequest ==
    /\ rep = "start"
    /\ rep' = IF opts.version \in {1, 2} THEN "receive" ELSE "ended"
    /\ UNCHANGED <<opts, runs, self, main, loadVars, processVars, serverVars, monVars, stat,
                   counterVars, fileVars>>

ReceiveStat ==
    /\ rep = "receive" /\ stat > 0
    /\ stat' = stat - 1
    /\ rep' = "post"
    /\ UNCHANGED <<opts, runs, self, main, loadVars, processVars, serverVars, monVars,
                   counterVars, fileVars>>

(* Mutant of PostStat: an error ends the writer.                                *)
PostOnce ==
    /\ rep = "post"
    /\ rep' \in {"receive", "ended"}
    /\ UNCHANGED <<opts, runs, self, main, loadVars, processVars, serverVars, monVars, stat,
                   counterVars, fileVars>>

(* The POST succeeds, or fails within ten seconds and is logged.                *)
PostStat ==
    /\ rep = "post"
    /\ rep' = "receive"
    /\ UNCHANGED <<opts, runs, self, main, loadVars, processVars, serverVars, monVars, stat,
                   counterVars, fileVars>>

-----------------------------------------------------------------------------
(* A response to a call of a thread comes, and its goroutine counts it ...      *)
ResponseArrives(k) ==
    /\ ans[k] = "none"
    /\ IF k = "camel" THEN peer /\ CamelTasks # {} ELSE cached > 0
    /\ ans' = [ans EXCEPT ![k] = "count"]
    /\ UNCHANGED <<opts, runs, self, main, loadVars, processVars, serverVars, monVars, stat, rep,
                   lock, codes, fileVars>>

CountResponse(k) ==
    /\ ans[k] = "count" /\ lock[k] = "free"
    /\ ans' = [ans EXCEPT ![k] = IF k = "brt" THEN "delete" ELSE "none"]
    /\ \/ codes[k] < MaxCodes /\ codes' = [codes EXCEPT ![k] = @ + 1]
       \/ codes[k] > 0 /\ UNCHANGED codes
    /\ UNCHANGED <<opts, runs, self, main, loadVars, processVars, serverVars, monVars, stat, rep,
                   lock, fileVars>>

(* ... and, over Diameter, deletes the call from the cache in the end.          *)
DeleteAnswered ==
    /\ ans["brt"] = "delete"
    /\ ans' = [ans EXCEPT !["brt"] = "none"]
    /\ cached' = cached - 1
    /\ UNCHANGED <<opts, runs, self, main, started, processVars, serverVars, monVars, stat,
                   rep, lock, codes, fileVars>>

-----------------------------------------------------------------------------
(* SIGTERM or an interrupt: it cancels the context, or kills a process that     *)
(* does not catch it yet, or no longer.                                         *)
Signalled ==
    \/ /\ caught
       /\ ctxDone' = TRUE
       /\ UNCHANGED <<self, main, loadVars, caught, timer, serverVars, monVars, stat, rep, counterVars>>
    \/ /\ ~caught
       /\ ProcessEnds

Signal == self # 0 /\ Signalled /\ UNCHANGED <<opts, runs, fileVars>>

Kill == self # 0 /\ ProcessEnds /\ UNCHANGED <<opts, runs, fileVars>>

(* StopProcess: without a file there is nothing to do ...                       *)
StopBegins ==
    /\ cmd = "none" /\ pidFile # Absent
    /\ cmd' = "read"
    /\ UNCHANGED <<opts, runs, self, main, loadVars, processVars, serverVars, monVars, stat, rep,
                   counterVars, pidFile, holders, other, otherPid, cmdPid, undisputed>>

(* ... a file that vanished or is still empty is an error ...                   *)
ReadPid ==
    /\ cmd = "read"
    /\ IF pidFile \in Pids THEN cmd' = "signal" /\ cmdPid' = pidFile
                           ELSE cmd' = "none" /\ UNCHANGED cmdPid
    /\ UNCHANGED <<opts, runs, self, main, loadVars, processVars, serverVars, monVars, stat, rep,
                   counterVars, pidFile, holders, other, otherPid, undisputed>>

(* Mutant of SignalPid: the file is removed although the process lives.         *)
SignalAndRemove ==
    /\ cmd = "signal"
    /\ cmd' = "remove"
    /\ \/ cmdPid = self /\ Signalled
       \/ cmdPid # self /\ UNCHANGED <<self, main, loadVars, processVars, serverVars, monVars, stat,
                                       rep, counterVars>>
    /\ UNCHANGED <<opts, runs, pidFile, holders, other, otherPid, cmdPid, undisputed>>

(* ... a living process gets the signal, and the second generator may end by it   *)
(* (OtherEnds) ...                                                                *)
SignalPid ==
    /\ cmd = "signal"
    /\ \/ /\ cmdPid = self
          /\ Signalled
          /\ cmd' = "none" /\ cmdPid' = 0
       \/ /\ cmdPid = otherPid
          /\ cmd' = "none" /\ cmdPid' = 0
          /\ UNCHANGED <<self, main, loadVars, processVars, serverVars, monVars, stat, rep,
                         counterVars>>
       \/ /\ cmdPid \notin {self, otherPid}
          /\ cmd' = "remove"
          /\ UNCHANGED <<self, main, loadVars, processVars, serverVars, monVars, stat, rep,
                         counterVars, cmdPid>>
    /\ UNCHANGED <<opts, runs, pidFile, holders, other, otherPid, undisputed>>

(* ... and the file of a dead one is removed, whatever it holds by now.         *)
RemoveStale ==
    /\ cmd = "remove"
    /\ cmd' = "none" /\ cmdPid' = 0
    /\ DropPid
    /\ UNCHANGED <<opts, runs, self, main, loadVars, processVars, serverVars, monVars, stat, rep,
                   counterVars, other, otherPid, undisputed>>

-----------------------------------------------------------------------------
MainStep == \/ OpenLog \/ TruncatePid \/ WritePid \/ NotifyContext \/ StartClient \/ Listen
            \/ AwaitBrt \/ LoadTask \/ TasksLoaded \/ AwaitContext
            \/ PrintBrtStats \/ PrintCamelStats \/ LookAtCache \/ Random \/ RemovePid

MonitorStep == \/ MonitorSpeed \/ Report \/ SpeedDone \/ MonitorResponses
               \/ LockCounter \/ UnlockCounter \/ MonitorStops

ReporterStep == PrepareRequest \/ ReceiveStat \/ PostStat

OtherStep == StartBeside \/ OtherTruncates \/ OtherWrites \/ OtherEnds

CmdStep == StopBegins \/ ReadPid \/ SignalPid \/ RemoveStale

Next == \/ Start \/ MainStep \/ TimerFires
        \/ BrtConnects \/ StoreCall \/ DeleteAnswered
        \/ MonitorStep \/ ReporterStep
        \/ \E k \in Kinds : ResponseArrives(k) \/ CountResponse(k)
        \/ Signal \/ Kill \/ OtherStep \/ CmdStep

Spec == Init /\ [][Next]_vars

(* Goroutines are scheduled, a lock is handed to its waiters in turn, a timer   *)
(* fires, and a started command "-s" goes on.  Nothing is assumed of the BRTs,  *)
(* of signals or of Monitor's tickers beyond that a turn that began goes on.    *)
Fairness == /\ WF_vars(MainStep)
            /\ SF_vars(PrintBrtStats \/ PrintCamelStats)
            /\ WF_vars(TimerFires)
            /\ WF_vars(LockCounter \/ Report \/ SpeedDone \/ UnlockCounter)
            /\ WF_vars(ReporterStep)
            /\ \A k \in Kinds : SF_vars(CountResponse(k))
            /\ WF_vars(ReadPid \/ SignalPid \/ RemoveStale)

FairSpec == Spec /\ Fairness

-----------------------------------------------------------------------------
(* The writer goes on receiving: a supported version, or no reports at all.     *)
Reports == opts.influx => opts.version \in {1, 2}

(* A process that waits in end() ends, by its time or by a signal, although     *)
(* Monitor may hold a counter's lock while it waits for room in ReportStat, and *)
(* although every POST may fail.                                                *)
EndsWithReporter ==
    (main = "wait" /\ Reports) ~> (main = "none")

(* A response is counted, and its goroutine goes on to its offline CDR,         *)
(* although the counter is reported under its lock.                             *)
ResponsesCounted ==
    \A k \in Kinds : (ans[k] = "count" /\ Reports) ~> (ans[k] # "count")

(* The file names the process that runs, from SetPID to RemovePID, although     *)
(* earlier ones were killed and "-s" may come at any time - on the conditions   *)
(* undisputed names: SetPID could open it (an error is only logged), no command *)
(* was under way then, which may know a dead process and take the file away,    *)
(* and no other generator ran then or was started since, which main does not    *)
(* look for and which overwrites the file and removes it in the end.            *)
PidFileNamesProcess ==
    main \notin {"none", "log", "truncate", "write"} /\ undisputed => pidFile = self
================================================================================
