# Verification of go-cdrgenerator in TLA+

TLA+ models of the CDR generator (`src/cmd/generator`, `src/pkg`), the TLC runs
that check them and the TLAPS proofs about them. The generator produces calls
for a set of tasks at a configured rate and charges each call on one of three
ways: it writes a CDR line to a file, it asks a billing server (BRT) over
Diameter, or it is the SCP that BRTs connect to over CAMEL. When the billing
server answers that a call cannot be charged online, the generator writes that
call's CDR to the file after all ("offline CDR").

## 1. The system

### Components

| Component | Code | State | Operations |
|---|---|---|---|
| Load generator, thread manager | `generator.go` `StartSimpleMode`, `StartTaskFile`, `StartTaskDiam`, `StartTaskCamel`, `Monitor`; `pkg/data/counters.go`, `flag.go` | one goroutine per task and more on demand; `CDRPerSec`, `CDRRecCount`, `Flag`, `gostop`, `ctx` | check the rate, take a call, count it; once a second judge and reset; raise and clear the flag; start a thread |
| Subscriber pool | `pkg/data/poolsubs.go`, `data.go` | one slice per task, shared by its threads; index and skip count per thread | read an entry, write it back one lower, refill |
| Record type choice | `init.go`, `data.RandomRecType` | intervals of 0..100 per task | draw |
| Diameter client | `StartDiameterClient`, `SendCCREvent`, `AnswerCCAEvent`, `CreateDiamMessage`; `pkg/diameter`; `pkg/data/wg.go` | connections, `wgd`, `BrtDiamChannel`, one sender per peer, one goroutine per answer | dial, send, lose and reconnect, answer |
| Diameter dictionary | `pkg/diameter/Dictionary.go` | a constant text | look up a command's rules and an AVP's type |
| CAMEL server | `pkg/tlv/server.go`, `data.go`; `CamelSend`, `CamelResponse`, `CreateCamelMessage` | map of listeners, a handler and senders per connection, `CamelChannel`, `CamelOfflineCDR` | accept, read, start up, shut down, authorize, confirm, end, reject, unlist |
| TLV codec | `pkg/tlv/tlv.go`, `env.go` | read buffer per connection, frame per read, `LocationMSCbase` | cut the stream, decode and encode parameters, compose requests |
| Offline CDR cache | `pkg/data/cdroflline.go` | two maps from session id to call, under a lock each | Store, Load, Delete, Random |
| CDR file writer | `StartFileCDR` | current file, unbuffered channel per task | create, rotate, receive, write, count |
| MSISDN generation, LAC/CELL pools | `generatemsisdn.go`, `init.go` | lists read at the start | read, draw |
| Start and stop | `main`, `StartClient`, `StartSimpleMode`, `StartDaemonMode`, `end` | `ctx`, `gostop`, options | load tasks, start clients, cancel, wait, print, exit |
| Reporting | `pkg/influx`, `counters.LoadMapSpeed` | channel `ReportStat`, counters' locks | report, post |
| PID file | `pkg/pid` | one file | set, remove, stop another process |
| Logging | `pkg/logger` | a channel and a file per log | open, write |
| LAC/CELL utility | `cmd/utils` | | one query, written to a file |

### How they interact

* A thread and the file writer of its task: an unbuffered channel of lines. The
  writer also receives from the goroutines of Diameter answers and from the
  CAMEL handlers.
* Threads and Diameter senders: one buffered channel (`BrtDiamChannel`) shared
  by all tasks and all peers; threads and CAMEL senders: `CamelChannel`.
* Threads and answers: the offline caches, keyed by session id.
* The accepting goroutine, handlers, senders and threads: the map of listeners,
  without a lock.
* Threads, writer and Monitor: the counter `CDRPerSec`; Monitor and the first
  thread of a task: `Flag`; Monitor, the answers' goroutines and `end()`: the
  response counters, under locks; Monitor and the reporter: `ReportStat`.
* Everything and `end()`: the context and `gostop`. Two processes: the PID file
  and signals.

### What is hard about it

Interleavings of threads, senders, answers and writers over shared maps,
counters and channels; check-then-act on the rate and on the listeners;
load-send-delete on the caches; connections that break between any two steps;
reconnects that give up; a writer that may fail under those that wait for it; a
pool, a frame and a byte slice shared without a lock; a lock held during a
blocking send; a PID file written and removed by several processes; strict
interval bounds; lengths and AVPs composed by hand against tables nothing
compares them with. `PROJECT.json` lists each hazard at its line with the
properties that watch it, or with the reason that none does.

### What makes a component correct

* Diameter client and CAMEL server: whatever the interleaving, an answer finds
  the call it belongs to; a refused call gets its own CDR once, a charged one
  none; the count of connections and the list of listeners agree with the
  goroutines; the queue has a consumer while any peer is connected.
* Rate control: the rate is overshot by a bounded number of calls, statistics
  never count a call twice, threads are added only for slow seconds and end
  after `gostop`.
* Pool: passes stay in range; counts add up; a refill comes when the pool is
  spent, and only then.
* Record types: their shares are the configured rates. (They are not: section 3.)
* Messages: the stream is cut exactly as sent, handlers read the message they
  handle, requests carry the lengths the other side expects, the AVPs the
  dictionary asks for, and the session id, place and subscriber of their own call.
* Start and stop: the process ends, counts what comes late, and the PID file
  names the process that set it.

## 2. Modules

| Module | What it is |
|---|---|
| `OfflineLedger` | abstract specification: per call, asked / owed / closed, and the number of CDRs recorded |
| `CdrWriter` | `StartFileCDR`: state, actions and disk faults, extended by the next two |
| `DiameterClient` | the Diameter path, from a thread that takes a call to the line in a file; its refinement of `OfflineLedger` |
| `CamelServer` | the CAMEL path: listeners, handlers, senders, sessions; its refinement of `OfflineLedger` |
| `LoadControl` | the rate, its counter, Monitor and the threads of one task (file, Diameter or CAMEL) |
| `SubscriberPool` | the shared pool and the passes over it |
| `MessageStream` | abstract specification: messages sent and handled, once and in order |
| `TlvFraming` | how a connection's byte stream is cut into CAMEL messages; its refinement of `MessageStream` |
| `CamelFrames` | on that stream, the frame all messages of a read share |
| `Shutdown` | start, both modes, signals, `end()`, Monitor's reports, the reporter and the PID file |
| `RecTypeChoice` | intervals and choice of a record type |
| `CamelCodec` | the table of CAMEL parameters, the requests, the encoder, session ids, `LocationMSC` |
| `Dictionary` | the commands and AVPs of the two Diameter dictionaries the client loads |
| `CreditControl` | the Diameter requests, and what handlers read of answers |
| `CallMessages` | composes the last four: from the draw of a record type to the messages and back |
| `MC...` | instances for TLC |
| `..._proofs` | theorems |

Operators whose comment begins with "Mutant of" are variations of the operator
that follows them, the way a slip in the code would look. No specification uses
them: they serve to see that each property notices the slip it is meant for.

### DiameterClient (with CdrWriter)

A variable for each piece of shared state, and a program counter for each
goroutine, with one action per step between two operations another goroutine
can observe.

| Code | Model |
|---|---|
| `BrtDiamChannel`, `BrtOfflineCDR.CDROffline`, `wgd.count`, `brt`, `gostop`, `ctx.Done()` | `queue`, `cache`, `wg`, `brt`, `gostop`, `ctxDone` |
| `StartDiameterClient`: dial loop, result check | `DialPeer`, `EndDial`, `CheckStarted` |
| `StartTaskDiam` + `CreateDiamMessage` | `TakeCall`, then `StoreCall`, `EnqueueMessage`, or `DirectCdr` when the CCR cannot be built |
| `SendCCREvent`: the cases of its select | `SendMessage`, `CloseNotified` (with `wgd.Done`), `StopSender` |
| `Reconnect` | `Reconnected`, `ReconnectFails` |
| `AnswerCCAEvent`: Load, send, Delete | `LoadEntry`, `SendCdr`, `DeleteEntry` |
| `StartFileCDR` | `OpenFirst`, `Rotate`, `AwaitLine`, `Receive`, `WriteLine`, with `PermissionError` and `NilFilePanic` |
| `end` | `CancelContext`, `SetGostop`, `Exit` |
| the network and the BRT (external) | `BreakLink`, `BrtAnswers` |

An unbuffered send and its receive are one step, conjoined from both sides
(`SendCdr` conjoins `Receive`). A message is named by its call; an answer is the
class of its result code (`offline` for 4011, 4522, 4012; everything else only
deletes the entry, 5030 included). A lost connection loses the requests it
carried. A panic of `wgd` or of a nil file ends the process (`running`).

A session id is any of `Sids`, one another call has included, as nothing in
`CreateCCREventMessage` looks whether `rand.Uint32` returned it before. So the
cache may lose a call to another, an answer may form another call's CDR, and its
goroutine may block for good on the nil channel of a zero value (`stuck`). What
the properties promise they promise to a call whose id no other call has drawn
(`Own`), whatever happens to the calls that share theirs; `ImplementsLedger` says
that each change of such a call is a step of the ledger for it.

### CamelServer (with CdrWriter)

| Code | Model |
|---|---|
| `ListListener.List` (keyed by remote address), `Listener.BRTId`, `CamelChannel`, `CamelOfflineCDR` | `list`, `brtId`, `queue`, `cache` |
| `ServerStart`: the accept loop | `Accept` |
| `CamelResponse` of the server: STARTUP | `ReadStartup`, `SaveBRTId`, `StartSender`: the map is looked up in each of the last two |
| SHUTDOWN | `ReadShutdown` (panic) |
| `CamelResponse` of the generator: reject, confirm without charge | `ReadRefusal`, `LoadCall`, `SendCdr`, `DeleteCall` |
| confirm with charge, answer to the end request | `ReadConfirm`, `ReadEnd` then `DeleteCall` |
| `handleReadError`, `CamelHandler` | `ReadEof`, `HandlerUnlists`, `HandlerStops` |
| `CamelSend`, `CamelWrite` | `SendMessage`, `SenderUnlists`, `SenderStops` |
| `StartTaskCamel`: the cases of its switch | `TakeCall`, `RouteCall` with `RouteOf` |
| `CreateCamelMessage`; the direct CDR; `CreateDiamMessage` | `StoreCall`, `EnqueueMessage`; `DirectCdr`; `SendDiameter`, after which the call is `DiameterClient`'s |
| the runtime's check of concurrent map accesses | `MapRace` |
| `end` | `CancelContext`, `StopServer`, `Exit` |
| the network (external) | `BreakLink` |

SMS and voice sessions differ in the types of messages only and are one kind
here. A handler reads one message after the other, so while it waits for a
writer it answers nothing; a message read from a connection that broke is still
handled. `AddrOf` lets a later connection use an earlier one's address: the map
knows connections by address only. What the list and the senders promise needs
addresses that are not used twice (`AddrOf` injective in the run, a named
assumption in the theorem): a sender that meets an old connection's closed
socket would unlist the new one.

### LoadControl

One task. `TakeCall` is the check of the rate with what follows up to the send;
the count follows later: by the writer after it received the line (files,
`CountLine`), or by the thread after its send (`CountCall`; Diameter and CAMEL,
`Online`). A call becomes a line or a message (`Kinds`). A line is taken by the
writer, unless that died; a message needs a free place in the channel
(`SendMessage`, `queued`), which a sender may or may not make (`TakeMessage`, of
which nothing is assumed). A CAMEL thread also waits for a listener
(`AwaitListener`). Monitor's load, judgement and reset are three steps. `Online` is the branch of
`StartSimpleMode`, `WriterCounts` the test of the writer, which is not the same.
`made`, `inSec`, `slow` and `late` are history variables: they are never read by
a guard other than the bound `MaxCalls`.

### SubscriberPool

The look at an entry and the write of its count are two steps, the refill is one
step per entry; `quota` and `calls` are history variables. The number of records
is chosen in the initial state.

### TlvFraming and CamelFrames

One connection. A byte is its offset in the stream, so `buffer_tmp` is the
interval `pos .. got - 1`, and a message is its sequence number and its length
field. `ReadChunk` is `conn.Read` with the append that follows; `AwaitMore`,
`CutFirst` and `CutLast` are the results -1, 1 and 0 of `DecoderBuffer` with
what `readNetConn` does for each (a cut message is handled at once). A read
that meets its deadline changes nothing and is not an action. The peer is taken
to write whole, well-formed messages whose length counts the 8 bytes of header;
the connection stays open.

`CamelFrames` adds what the messages are (`Kinds`, external) and the `Frame`
that `readNetConn` makes once for a read: `DecoderChunk` puts the parameters of
each message into it, those of earlier messages stay, and `seen` remembers what
each handler found.

### Shutdown

| Code | Model |
|---|---|
| `main` up to the mode | `Start`, `OpenLog`, `TruncatePid`, `WritePid`, `NotifyContext` |
| a second generator | `StartBeside`, `OtherTruncates`, `OtherWrites`, `OtherEnds` |
| `StartClient`, `StartCamelServer`, `ServerStart` | `StartClient`, `Listen`, `BrtConnects`, `AwaitBrt` |
| `StartSimpleMode`, `StartDaemonMode`: the loop over the tasks | `LoadTask`, which picks the kind of threads from the operator of that name |
| `end` | `TasksLoaded`, `TimerFires`, `AwaitContext` (the nil listener panics), `PrintBrtStats`, `PrintCamelStats`, `LookAtCache`, `Random` (the empty cache panics), `RemovePid` |
| `Monitor` | `MonitorSpeed`, `Report`, `SpeedDone`; `MonitorResponses`, `LockCounter`, `UnlockCounter`; `MonitorStops` |
| `influx` | `PrepareRequest`, `ReceiveStat`, `PostStat` |
| answers' goroutines | `ResponseArrives`, `CountResponse` (under the counter's lock), `DeleteAnswered` |
| `pid.StopProcess` in a process of its own (`-s`) | `StopBegins`, `ReadPid`, `SignalPid`, `RemoveStale` |
| signals, kills | `Signal`, `Kill` |

The process is one number per run; `ProcessEnds` resets all of its state and
leaves the PID file. A signal before `signal.NotifyContext`, or after `stop()`,
kills it.

`SetPID` may fail to open the file, which `main` only logs: the process then runs
without one. `main` does not look for a generator that runs already, so a second
one may start beside the first (`StartBeside`) and does with the file what the
first does: truncate, write and, at its end, remove it (`OtherTruncates`,
`OtherWrites`, `OtherEnds`; the file it has open need not be the one of that name
any more, `holders`). Of the second one only this is modelled. Two things are
assumed of process numbers: they do not come again, and they have equally many
digits, since `SetPID` overwrites from the beginning of the file.

`PidFileNamesProcess` is a promise to a process that is `undisputed`: `SetPID`
could open the file, no command `-s` was under way then, no other generator ran
then, and none has been started since. In the other cases the code loses the
file, as TLC shows when the condition is dropped.

### CallMessages (with RecTypeChoice, CamelCodec, Dictionary, CreditControl)

One CAMEL connection and one Diameter peer, a request on the wire of each; the
other modules have the connections, this one has the contents.

| Code | Model |
|---|---|
| `InitVariables`, `RandomRecType` | `RangeMin`, `RangeMax`, `Draw`; the hundred numbers of `rand.Intn(100)` are swept, so each type's share is exact |
| `checkRowTypes`, `CreatePoolList`, the LAC/CELL file | `checkRowTypes`, `CreatePoolList`, `LACCELLpool` |
| `StartTaskCamel`, `CreateCamelMessage`, `CreateDiamMessage` | `Compose`, `AppendLac`, `AppendCell`, `StoreCall`, `QueueCamel`, `QueueDiam` |
| `LocationMSC`: append to a copy of `LocationMSCbase` | the spare capacity decides whether the bytes are `shared` or the message's own; `AppendBytes` is Go's rule for growing a slice |
| `CamelSend`, `Encoder` | `SendCamel`, `OnWire` |
| `TypeBrtOfflineCdr`, `CreateCDRRecord` | `Record`, `CreateCDRRecord`, `OfflineCdrs` |
| `CreateCCREventMessage`, `SendCCREvent`, `ResponseDiamHandler`, `ConvertType` | the operators of these names in `CreditControl`, `Addressed` |
| the dictionaries `baseXML_easy` and `creditcontrolXML` | `Dictionary`: `CCRequest`, `CERequest`, ... and the AVPs by type and group |

A call is the number of its draw, a phone number the number of its digits, a
parameter of a frame its tag, its declared length and its real one. A Go map has no
order, so a request on the wire is a set of units; `InStep` says that a reader
finds them all whatever the order.

Requests are made with go-diameter's `dict.Default` (`generator.go:777`, `:1166`),
not with the repository's dictionary. That decides nothing of them: each AVP is
given by its code and by data of a Go type. `RequestFollowsDictionary` therefore
compares two texts of the repository: the code that composes the requests and the
dictionary that says what they should be. The client's own parser, which does have
the repository's dictionary (`Diameter.go:29`), reads the answers by it, and
`ConvertType` depends on the types it finds there (`AnswerNamesCall`).

## 3. Runs

| Run | Asks | Result |
|---|---|---|
| `diameter_safety` | three calls that draw two session ids, so that two may have one; two threads and two peers, a channel of one, all disk faults: for a call whose id is its own, is it cached while it is pending, is its offline answer served, does only its own answer remove it, does the client implement `OfflineLedger`; is `wgd` exact | holds, 2,536,894 states |
| `diameter_liveness` | two calls that may share an id and one without Service-Context-Id, for one writer; a dial that fails twice: does an owed CDR get written, is a queued message taken | holds, 156,578 states |
| `load_files` | file threads: overshoot of the rate, added threads | holds, 2,202,692 states |
| `load_liveness` | CAMEL threads (a Diameter thread is one that never waits for a listener), a channel that may stay full, a writer that may die: a call counted once, release by Monitor, calls after `gostop`, end of threads | holds, 627,927 states |
| `pool_passes` | bookkeeping and refill of the pool, by one thread and by two | holds, 36,975 states |
| `camel_frames` | is every message cut out and handled once, in order, as soon as it is there, and by its own parameters | holds, 39,716 states |
| `camel_safety` | two BRTs, three calls (one without a CAMEL request, one for Diameter), a disk that may refuse a line: cache, double charge, list of listeners, senders; does the server implement `OfflineLedger` | holds, 560,722 states |
| `camel_liveness` | two calls over a BRT, and a third whose CDR the thread sends to the writer the handler waits for: does a refused call get its CDR, is a broken connection forgotten | holds, 133,562 states |
| `shutdown` | does the process end, is a response counted, does the PID file name the process that set it | holds, 127,334 states |
| `call_messages` | lengths on the wire, AVPs against the dictionary, session ids | holds, 108,596 states |
| `camel_shutdown` | is a SHUTDOWN confirmed | **violated**: the nil map panics and the generator ends |
| `camel_location` | does a request carry its own call's LAC and CELL | **violated**: the next call's |

The passing runs fire every action of their modules. Deadlock is not checked:
the generator ends (every goroutine returned or the process gone), and that is
a proper end.

### Known divergences that properties name instead of hiding

* `ExpectAtLeast(0)` (`generator.go:661`) holds for every count, so `brt` stays
  set when no peer could be dialled and threads fill a channel nobody reads;
  `CheckStarted` is modelled as written.
* A session id is `rand.Uint32` without a check (`Diameter.go:86`): a repeated one
  overwrites a pending call. The run draws repeated ids, and the properties hold,
  and are proved, of the calls whose id is their own (`Own`); without that
  condition TLC finds each of them violated.
* With `-brtlist` but without `-brt` and `-camel` the writer counts a task's lines under
  another name and the rate is never reached: `RateLimited` is proved for
  `InBrtList => Brt \/ Camel`.
* `READMECONF.md:51` calls a type's rate its share in percent, and the comment at
  `init.go:57-59` says that the number drawn must fall into one of the intervals.
  Neither is so: both bounds of `RandomRecType` are strict, so a number on a bound
  falls into none and goes to the first type. Every other type gets one percent
  less than its rate (one of rate 1 is never drawn) and the first one all of
  these. `SharesButOnePercent` states these shares; it is no property of a run,
  since it is the departure and not the promise, but it is proved for every
  configuration (`Shares`, `CallsShares`).
* `StartSimpleMode` is commented (`generator.go:236`) that at the end of the time
  the threads stop. A file thread does not look at `gostop` at all, and an online
  one may be in a send whose receiver is gone, for good: a channel no sender
  empties any more, or a writer that met a permission error. `ThreadsEnd` says
  that there is no other case.
* The requests depart from the repository's dictionary in these points, of which
  `RequestFollowsDictionary` does not speak: Service-Information, which the
  request's command allows, and the four AVPs below it (SMS-Information, SMS-Node,
  PS-Information, Calling-Station-Id) are defined in neither dictionary the client
  loads; the request has two of Subscription-Id, of which its command allows one;
  its CC-Request-Type 4 is not among the listed values; and the
  Vendor-Specific-Application-Id of the capabilities exchange has no
  Acct-Application-Id, which that group requires.
* The PID file may name another process or be missing while a generator runs: when
  it could not be opened, or when a second generator was started, or when a
  command `-s` that had found an older process dead removes it
  (`PidFileNamesProcess`, section 2).
* `Stringtobyte` drops the last digit of an odd number: with the README's
  `Camel_SCP_id` of `"1"` the SCP's byte in a session id is 0. `SessionNamesCall`
  is about ids of two digits.
* An unsupported InfluxDB version ends the reporter at once; then Monitor fills
  `ReportStat` and stops with a counter's lock in its hand, so `end()` never
  returns. `Reports` excludes it.

### Bounds, and why they are enough

* Three calls in the runs of both online paths, threads (2, or 1), peers or BRTs
  (2, or 1): the hazards need two calls that compete for a session id, a session, a
  writer or a channel place, and a third that is on another path at the same time
  or that must not suffer from the two; two connections, so that a sender of one
  meets the list of the other. `diameter_safety` has two ids for three calls.
* `ChanCap` 1 instead of 1000 and 4000: full and empty are both reached at once.
* `MaxRetry` 0 (1 for liveness) instead of 5: a reconnect that succeeds or gives
  up. The theorems hold for any number.
* `MaxStartups` 1: a second STARTUP starts a second sender, which the theorems
  cover; in the run the second sender belongs to the second BRT.
* One task in each run: tasks share channels and caches only, and the theorems
  hold for any tasks, each with its own writer.
* `CallsPerSecond` 1, `SlowLimit` 1 (0 for liveness) instead of 10, `MaxCalls`
  and `MaxSlow` up to 4: the overshoot needs two threads past the check and a
  line in the writer's hand; a second thread is started after three slow
  seconds.
* Pools of one and three records, counts up to two: a one-record pool has no
  entry to use, three records give a pass of two.
* Rates in two configurations of eight types that sum to 100 and two that do not:
  every setting is drawn, and so is the first type for want of an interval.
* CAMEL messages of the four lengths the kinds have (8, 13, 28, 33 bytes), up to
  three of them; a read takes 1 to 40 bytes. So a read may end inside a header,
  inside a message, at its last byte, or bring all three; a real read takes at
  most 16048 bytes.
* `Shutdown`: five sets of options (Diameter and files with reports; CAMEL with
  reports over both kinds of response; a CAMEL task that sends over Diameter, too;
  files alone; a daemon without threads), two generators, one after the other or
  beside each other, one task, one string in `ReportStat`, one response code per
  counter: a full `ReportStat` under a held lock is reached at once, and the second
  generator meets the first one's PID file. A second generator is started under the
  options without reports only (`Again`): it meets the first in its file alone.
* `CallMessages`: one thread, a channel of one message, eight record types (one
  for every way a call can go), a pool file with a line for each reason to
  refuse one, two places.

### Fairness

* Every goroutine is scheduled: weak fairness of the steps that do not wait.
* A goroutine that waits to send on a channel stands in the channel's FIFO
  queue, so a send that is possible again and again happens: strong fairness of
  `SendCdr`, `SendLine`, `SendMessage`. A mutex hands itself to a waiter that
  waits long: strong fairness of `CountResponse` and of the statistics `end()`
  prints.
* `select` picks at random among its ready cases: strong fairness of a sender's
  `SendMessage` and `SenderStops`.
* The tickers and the timer of `end()` fire: weak fairness of Monitor's steps in
  `LoadControl` and of `TimerFires`. In `Shutdown` Monitor need not begin a
  turn, but a turn it began goes on; a POST ends within its timeout of ten
  seconds. The writer's rotation needs nothing.
* What was written to a CAMEL connection is delivered while it is open, and its
  handler reads again after each deadline: weak fairness of `ReadChunk` and
  `Decode`. A handler that reads a broken connection again and again sees its
  end: strong fairness of `ReadEof`.
* Nothing else is assumed of the network, of the BRTs' answers, of a dial's
  success, of the disk, of signals or of the end of the run.

## 4. What is proved

For every value of the constants, under the named assumptions of the modules.

| Theorem | Statement | Assumes |
|---|---|---|
| `DiameterClient_proofs!TypeCorrect` | `Spec => []TypeOK` | |
| `DiameterClient_proofs!WgCorrect` | `Spec => []WgCountsConnections` | |
| `DiameterLedger_proofs!CacheCorrect` | `[]PendingCallsCached`, `[]NoAnswerStuck` | |
| `DiameterLedger_proofs!CdrsCorrect` | `[]AtMostOneCdr`, `[]CdrOnlyIfOwed`, `[]OfflineAnswerServed` | |
| `DiameterLedger_proofs!CacheKeepsCalls` | `OnlyOwnAnswerDeletes` | |
| `DiameterLedger_proofs!Refinement` | `Spec => ImplementsLedger` | |
| `DiameterLedger_proofs!LedgerRefinement` | `Spec /\ []SidsDistinct => Ledger!LSpec` | `SidsDistinct`, in the statement |
| `CamelServer_proofs!TypeCorrect` | `Spec => []TypeOK` | |
| `CamelServer_proofs!CacheCorrect` | `Spec => []PendingCallsCached` | |
| `CamelServer_proofs!ChargedOnce` | `Spec => []NoDoubleCharge` | |
| `CamelServer_proofs!ListCorrect` | `[]ListMatchesHandlers` | own addresses |
| `CamelServer_proofs!SendersCorrect` | `[]SendersInitialised` | own addresses |
| `CamelServer_proofs!Refinement` | `Spec => ImplementsLedger` | |
| `LoadControl_proofs!TypeCorrect` | `Spec => []TypeOK` | |
| `LoadControl_proofs!RateCorrect` | `Spec => []RateLimited` | `InBrtList => Brt \/ Camel` |
| `LoadControl_proofs!StatisticsCorrect` | `Spec => []StatisticsNotInflated` | |
| `LoadControl_proofs!StopCorrect` | `Spec => []StopsTaking` | `Online` |
| `LoadControl_proofs!ThreadsCorrect` | `Spec => []ThreadsEarnedBySlowness` | |
| `SubscriberPool_proofs!TypeCorrect` | `Spec => []TypeOK` | |
| `SubscriberPool_proofs!PanicCorrect` | `Spec => []PanicsOnlyOnOneRecord` | |
| `SubscriberPool_proofs!BooksCorrect` | `Spec => []CountsAddUp` | |
| `SubscriberPool_proofs!RefillCorrect` | `Spec => []RefillOnlyWhenSpent` | |
| `TlvFraming_proofs!TypeCorrect` | `Spec => []TypeOK` | lengths of at least 8 |
| `TlvFraming_proofs!StepCorrect` | `Spec => []BufferInStep` | lengths of at least 8 |
| `TlvFraming_proofs!ArrivalCorrect` | `Spec => []HandledWhatArrived` | lengths of at least 8 |
| `TlvFraming_proofs!Refinement` | `Spec => ImplementsStream` | lengths of at least 8 |
| `TlvFraming_proofs!FramesCorrect` | `FramesSpec => []ReadsOwnParameters` | the kinds of `CamelFrames` |
| `CallMessages_proofs!Shares` | `Spec => []SharesButOnePercent` | |
| `CallMessages_proofs!CallsShares` | `CallsSpec => []SharesButOnePercent` | |
| `CallMessages_proofs!SessionNames` | `CallsSpec => []SessionNamesCall` | |
| `CallMessages_proofs!AnswerNames` | `CallsSpec => []AnswerNamesCall` | |
| `CallMessages_proofs!RequestsAreInStep` | `CallsSpec => []RequestsInStep` | `SmallSettings` |
| `CallMessages_proofs!RequestsFollow` | `CallsSpec => []RequestFollowsDictionary` | |
| `CallMessages_proofs!LocationIsOwn` | `CallsSpec => []LocationIsTheCalls` | `ArrayIsFull`, `PlacesFit` |
| `Shutdown_proofs!ShutdownTypes` | `Spec => []TypeOK` | |
| `Shutdown_proofs!PidCorrect` | `Spec => []PidFileNamesProcess` | |

"Own addresses" is the hypothesis that no two connections come from the same
remote address; CAMEL session ids are taken not to repeat, since a call is its
own id in `CamelServer`.

The argument for the Diameter ledger. The safety properties say where a call
may not be; the induction needs to know where it is. `IInv` says it in parts: a
thread owns the call it works on (`ThreadsOwnCalls`); what is cached or loaded
under a session id is a call that drew it (`SidsNameCalls`); a message is in the channel once or at one peer, and not
answered then (`MessagesInOnePlace`); an answer's goroutine holds its own call
(`AnswersOwnCalls`); a line is owed and in one hand (`LinesOwed`). Each action
moves one call from one place to the next, so each part follows from the parts
before the step. No part assumes that ids differ. A call can lose its id to a
later draw (`Own` may become false) but never get it back, and while it has it no
`Store`, `Load` or `Delete` of another call meets its entry: so what `IInv` says
of the calls with an id of their own follows from the same for the step before.
The refinement maps a call to its place (`Status`) and shows that a step changes
such a call as a step of the ledger does, or not at all. If all ids differ that is
the ledger itself (`LedgerRefinement`).

The argument for the CAMEL ledger is the same in other places: a thread, the
channel once (`QueuedOnce`), one BRT, as an authorisation or as an end request
(`SentOnce`), one handler (`HandlersOwnCalls`), one line. The verdict of the
BRT is part of the place: a charged call may only wait for its end, so no
handler can be about to form its CDR. `StatusSame` and the lemmas after it say
which steps keep a call's status; the others move exactly one.

The argument for the list. The properties speak of the map and of the handlers'
program counters; what connects them is the socket (`ListInv`): it is closed by
its own handler only, on the way to `HandlerUnlists`, so a sender that unlists a
closed connection only does what that handler is about to do. With two
connections from one address this fails, since the entry may be the other one's.

The argument for the rate. `RateLimited` is not inductive: it speaks of calls
already taken. `RateOvershoot` adds those on their way to the counter: the calls
of this second are at most the counter plus the pending calls, and the counter
plus the pending calls stays below the rate plus one per started thread (plus
the line in the writer's hand), because a thread takes a call only below the
rate and holds at most one.

The argument for the framing. Whoever cuts at the wrong byte once reads data as
a length ever after, so everything rests on `BufferInStep`. Its induction needs
the layout of the stream: each message begins where the one before it ends, and
the last ends at `written`. Then only one message can begin at `pos`, it is the
next one to handle, and cutting it moves `pos` to the beginning of its
successor. That a message waits for nothing but its own bytes follows from the
order of the ends of messages.

The argument for the frame. A message's handler is the one that ran last, so it
is enough that what it saw came from its own message (`FramesInv`): decoding
overwrites the parameters the message carries, and a kind carries all its
handler reads; what earlier messages left is looked at by no handler.

The argument for the added threads. Each is paid for by slow seconds: while a
thread is asked for or runs, `SlowLimit + 1` seconds of the history are its own
(`PaidFor`), and those counted in `checkstart` belong to no thread yet. Only the
first thread serves a request, and the request stays raised until it has
(`SpawnInv`).

The argument for the pool. The look and the write are two steps, so what a
thread carries between them matters: alone, it carries the count of its own
entry (`PassInv`), and the entries a pass skipped are the spent ones before its
index, so `skeep` reaches the last index over a spent pool only. The second
thread breaks exactly that, which is why these two theorems end at its start;
the types and the indexes (`PoolInv`, `PassesInv`) do not need it.

The argument for the PID file. While a process is undisputed nobody opens or
removes the file between its `SetPID` and its end but itself, and a command `-s`.
A command was not under way at `SetPID`, so whatever number it read since is in
the file by this process: it found the file empty, or read the number of a process
that lives, and removes nothing. A number that somebody else writes later goes into
a file he opened, and there is nobody else (`PidInv`, `RunsInv`).

The argument for the shares. After `c` draws a type other than the first has
exactly the numbers strictly inside its interval, and the first has all up to
its bound and one for every bound passed since (`SharesInv`). At `c = 100` that
is the property. It needs that the bounds are the running sums of the rates and
grow when the rates are positive, and that the type drawn is the one whose
interval the number is in (`RangeMaxAdds`, `DrawnType`).

The argument for the session ids. An entry of a cache is stored before its
message is queued and removed by the answer to it, so along the way the cache
must have, under the message's key, its record and nothing else (`Ahead`): for
every message in a channel and on the wire. Keys of two calls differ
(`CallKeyDiffers`: the id of the BRT, written last, is not part of the key), and
a thread's call is in no channel yet (`ComposedInv`), so neither a store nor a
deletion touches another call's entry. `SessionsInv` is the conjunction.

The argument for the lengths. `MessagesInv` says of what a message was made: a
request of one of the two kinds, for a subscriber of the pool. What is left is
arithmetic over a set of parameters, with a length that is computed by summing
over the set in some order (`MapThenSumSet`) and taken modulo 65536. A request is
`WellFormed` when no tag occurs twice, each parameter declares the bytes it has
and each is of a type the encoder knows; then the encoder's units match its
parameters one to one, and a one-to-one renaming keeps a sum (`SumRenamed`). The
sum is below 65536 because there is at most one parameter for each of 103 tags,
of at most 600 bytes with its header (`SumBounded`), which needs settings of at
most 300 digits: `SmallSettings`. A number of over 65,000 digits would overflow
the two bytes of the length.

The argument for the dictionary. The requests are fixed but for the unit a
record type measures and the number of BRTs, so this is an evaluation of the
dictionary's rules, done once for an arbitrary unit. An AVP is `Sound` when it and
all below it are `AsDefined`. `TypeOfName` gives the type of each name that a
request has, `TypesAre` carries it from the table of a type to `TypesOf`, and
`LeafDefined` and `GroupDefined` build soundness up from the leaves; `AllDefined`
takes it from the AVPs of a message to all AVPs below them. What is left is
whether a command's rule has the names at the top, and how often.

The argument for the location. The finding of `camel_location` has a converse:
if the constant part of the location leaves room for less than a LAC
(`ArrayIsFull`), each `append` moves to an array of the message's own, and the
message holds its own call's LAC, then its CELL, through channel and encoder
(`LocationInv`). The configuration in the repository's README is such a case: an
eleven-digit VLR and no codes make 15 bytes in an array of 16. It takes the two
codes `READMECONF.md` documents to reach the finding, which is why the run has
them and only the theorem speaks of the other case. `PlacesFit` keeps places
within the two bytes each gets.

Induction over data. The library's induction theorems take the hypothesis as an
operator, which the provers at hand cannot instantiate. Where a recursive
function or a fold has to be understood for all inputs (`RangeMax`, sums over
finite sets, `FoldLeft` in `LocationMSCbase`), the induction is written out: the
set of the counterexamples' sizes has a least element (`Least`, from
`WFMin`), and it cannot be there. For the same reason a recursive function is
characterised by its equation over a bounded domain (`IsSum`, `Bounds`,
`AppendEquation`), shown to have a solution, and only then identified with the
`CHOOSE` of its definition.

## 5. What is only model-checked

The liveness properties (`OfflineAnswerWritten`, `QueueDrains`, `RateReleased`,
`ThreadsEnd`, `SpentPoolRefilled`, `EveryMessageHandled`, `RefusalRecorded`,
`BrokenLinkForgotten`, `EndsWithReporter`, `ResponsesCounted`): liveness under
fairness is out of the prover's reach. Every invariant and every action property
of the passing runs, and the three refinements, are theorems. The size classes
of the allocator (`SizeClasses`) go up to the 128 bytes that settings of usual
lengths need; for a longer location the capacity is left open, and `LocationIsOwn`
depends on it by its hypothesis only.

## 6. Plan

1. `OfflineLedger`, the abstract promise. Done.
2. `CdrWriter`, `DiameterClient`, refinement and proofs. Done.
3. `LoadControl` and `SubscriberPool` with proofs. Done.
4. `RecTypeChoice`. Done.
5. `CamelServer`, refinement and proofs. Done.
6. `TlvFraming` with proofs, `CamelFrames`. Done.
7. `CamelCodec`, `Dictionary`, `CreditControl`, `CallMessages`. Done.
8. `Shutdown` with the PID file. Done.
9. Proofs about `CallMessages`: all of its invariants. Done.
10. Left to prove: invariants behind the liveness properties that need no
    fairness, such as who may hold a counter's lock or a channel's last place in
    `Shutdown`, and what two threads may do to a subscriber's count at most.
11. Left to model: an instance of `Shutdown` with two tasks; the rate together
    with the listeners (`LoadControl` leaves it open when a BRT is connected).

## 7. What is not modelled, and why

* Wording and layout: log lines, prefixes and levels, the text of CDR patterns
  beyond the values put into them, the line protocol of InfluxDB, the names of
  files and directories.
* Pure I/O: reading the command line, the configuration and the CSV files (what
  is accepted of them is modelled), the HTTP request, `cmd/utils`.
* Code nothing calls or loads: `DiamAnswer`, `CamelWriteGorutine`,
  `WriteChannel`, `CamelHandler1`, `readNetConnLenght`, `StartTransferCDR`,
  `StartUDPWriter`, `pkg/tlv/unused.go`, the generators of roaming numbers, and
  the dictionaries of `Dictionary.go` other than `baseXML_easy` and
  `creditcontrolXML` (lines 308 to 836 and 1291 to 6902).
* Keep-alives, those the handler writes too: they change the sequence number `s.Sec` only, which every handler
  writes and every thread reads without a lock, and which no answer is matched by.
* Which prefix a second number gets, and the distribution of calls per
  subscriber: random choices no property tells apart.
* Data races on plain variables (`gostop`, `brt`) are modelled as atomic
  accesses: on the supported platforms a bool is read or written whole. The race
  on the map of listeners is modelled (`MapRace`).
