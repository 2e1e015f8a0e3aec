------------------------------ MODULE DiameterClient ------------------------------
(* The online charging path: threads of StartTaskDiam turn calls into CCR        *)
(* messages, remember each call in the BrtOfflineCDR cache under its session id, *)
(* and queue the message on BrtDiamChannel.  One SendCCREvent goroutine per BRT  *)
(* peer takes messages off the channel and writes them to its connection,        *)
(* reconnecting when the connection closes.  Every CCA starts a goroutine        *)
(* (AnswerCCAEvent) that looks the call up in the cache and, for the codes 4011, *)
(* 4522 and 4012, sends an offline CDR to the task's file writer.                *)
(*                                                                               *)
(* Abstracted: message bodies, the log counters, the rate control of a task      *)
(* (a thread may take a call whenever gostop is unset: it was below its rate),   *)
(* and the DWR heartbeat, which changes no state of the program.                 *)
EXTENDS CdrWriter, Integers, Sequences, FiniteSets

CONSTANTS Threads,     \* goroutines of StartTaskDiam
          Peers,       \* the BRT addresses of the configuration
          Sids,        \* session ids: the values of rand.Uint32
          TaskOf,      \* TaskOf[c]: the task whose pool call c comes from
          ThreadTask,  \* ThreadTask[t]: the task thread t generates for
          NoContext,   \* calls whose type has no Service-Context-Id
          ChanCap,     \* capacity of BrtDiamChannel
          MaxRetry     \* failed dials tolerated by Reconnect

ASSUME TaskAssumption == /\ TaskOf \in [Calls -> Tasks]
                         /\ ThreadTask \in [Threads -> Tasks]
                         /\ NoContext \subseteq Calls
                         /\ None \notin Sids
ASSUME PeersAssumption == IsFiniteSet(Peers)
ASSUME BoundsAssumption == /\ ChanCap \in Nat \ {0}
                           /\ MaxRetry \in Nat

VARIABLES phase,   \* StartDiameterClient: "dial", then "check", then "run"
          brt,     \* the -brt flag
          sender,  \* sender[p]: the SendCCREvent goroutine of peer p
          retry,   \* retry[p]: failed dials of the current Reconnect
          link,    \* link[p]: is the connection open
          wg,      \* wgd.count
          tpc,     \* tpc[t]: where thread t stands in CreateDiamMessage
          tcall,   \* tcall[t]: the call thread t works on
          taken,   \* calls taken from the pools
          sidOf,   \* sidOf[c]: session id in the CCR of call c
          cache,   \* BrtOfflineCDR: cache[s] is the call stored under s
          queue,   \* BrtDiamChannel
          atBrt,   \* atBrt[p]: calls whose CCR reached p, not answered yet
          apc,     \* apc[c]: the goroutine handling the answer to call c
          code,    \* code[c]: class of the answer's result code
          val      \* val[c]: what that goroutine loaded from the cache

startVars == <<phase, brt>>
senderVars == <<sender, retry, link, wg>>
threadVars == <<tpc, tcall, taken, sidOf>>
answerVars == <<apc, code, val>>
vars == <<writerVars, processVars, startVars, senderVars, threadVars,
          cache, queue, atBrt, answerVars>>

SenderPcs == {"undialed", "failed", "select", "reconnect", "ended", "stopped"}
ThreadPcs == {"idle", "store", "enqueue", "direct"}
AnswerPcs == {"none", "load", "send", "delete", "done", "stuck"}
Codes == {"none", "offline", "other"}

InQueue(c) == \E i \in 1 .. Len(queue) : queue[i] = c

TypeOK == /\ WriterTypeOK
          /\ phase \in {"dial", "check", "run"}
          /\ brt \in BOOLEAN
          /\ sender \in [Peers -> SenderPcs]
          /\ retry \in [Peers -> 0 .. MaxRetry]
          /\ link \in [Peers -> BOOLEAN]
          /\ wg \in Int
          /\ tpc \in [Threads -> ThreadPcs]
          /\ tcall \in [Threads -> Calls \cup {None}]
          /\ taken \subseteq Calls
          /\ sidOf \in [Calls -> Sids \cup {None}]
          /\ cache \in [Sids -> Calls \cup {None}]
          /\ queue \in Seq(Calls)
          /\ Len(queue) <= ChanCap
          /\ atBrt \in [Peers -> SUBSET Calls]
          /\ apc \in [Calls -> AnswerPcs]
          /\ code \in [Calls -> Codes]
          /\ val \in [Calls -> Calls \cup {None}]

Init == /\ WriterInit
        /\ phase = "dial"
        /\ brt = TRUE
        /\ sender = [p \in Peers |-> "undialed"]
        /\ retry = [p \in Peers |-> 0]
        /\ link = [p \in Peers |-> FALSE]
        /\ wg = 0
        /\ tpc = [t \in Threads |-> "idle"]
        /\ tcall = [t \in Threads |-> None]
        /\ taken = {}
        /\ sidOf = [c \in Calls |-> None]
        /\ cache = [s \in Sids |-> None]
        /\ queue = <<>>
        /\ atBrt = [p \in Peers |-> {}]
        /\ apc = [c \in Calls |-> "none"]
        /\ code = [c \in Calls |-> "none"]
        /\ val = [c \in Calls |-> None]

-----------------------------------------------------------------------------
(* CheckedWaitGroup: Add and Done panic, which ends the process, when the count *)
(* would leave its range; ExpectAtLeast compares it.                            *)
WgAdd(delta) == /\ wg' = wg + delta
                /\ running' = (running /\ wg + delta >= 1)

WgDone == /\ wg' = wg - 1
          /\ running' = (running /\ wg - 1 >= 0)

ExpectAtLeast(n) == wg >= n

SenderAt(p, from, to) == /\ sender[p] = from
                         /\ sender' = [sender EXCEPT ![p] = to]

-----------------------------------------------------------------------------
(* StartDiameterClient: every peer is dialled once; a sender goroutine starts   *)
(* for each connection, and the result is checked.                              *)
DialPeer(p) ==
    /\ phase = "dial"
    /\ \/ /\ SenderAt(p, "undialed", "select")
          /\ link' = [link EXCEPT ![p] = TRUE]
          /\ WgAdd(1)
       \/ /\ SenderAt(p, "undialed", "failed")
          /\ UNCHANGED <<link, wg, running>>
    /\ UNCHANGED <<writerVars, gostop, ctxDone, startVars, retry, threadVars,
                   cache, queue, atBrt, answerVars>>

EndDial ==
    /\ phase = "dial"
    /\ \A p \in Peers : sender[p] # "undialed"
    /\ phase' = "check"
    /\ UNCHANGED <<writerVars, processVars, brt, senderVars, threadVars,
                   cache, queue, atBrt, answerVars>>

CheckStarted ==
    /\ phase = "check"
    /\ phase' = "run"
    /\ brt' = (brt /\ ExpectAtLeast(0))
    /\ UNCHANGED <<writerVars, processVars, senderVars, threadVars,
                   cache, queue, atBrt, answerVars>>

-----------------------------------------------------------------------------
(* StartTaskDiam: the thread takes the next call of its task's pool and builds  *)
(* its CCR, which fails when the call has no Service-Context-Id.  The session   *)
(* id is any value of rand.Uint32, one that another call carries included.      *)
ThreadAt(t, from, to) == /\ tpc[t] = from
                         /\ tpc' = [tpc EXCEPT ![t] = to]

TakeCall(t, c) ==
    /\ phase = "run" /\ brt /\ ~gostop
    /\ c \notin taken
    /\ TaskOf[c] = ThreadTask[t]
    /\ taken' = taken \cup {c}
    /\ tcall' = [tcall EXCEPT ![t] = c]
    /\ \/ /\ c \in NoContext
          /\ ThreadAt(t, "idle", "direct")
          /\ UNCHANGED sidOf
       \/ /\ c \notin NoContext
          /\ ThreadAt(t, "idle", "store")
          /\ \E s \in Sids : sidOf' = [sidOf EXCEPT ![c] = s]
    /\ UNCHANGED <<writerVars, processVars, startVars, senderVars,
                   cache, queue, atBrt, answerVars>>

(* CreateDiamMessage: the call enters the cache first ...                       *)
StoreCall(t) ==
    /\ ThreadAt(t, "store", "enqueue")
    /\ cache' = [cache EXCEPT ![sidOf[tcall[t]]] = tcall[t]]
    /\ UNCHANGED <<writerVars, processVars, startVars, senderVars, tcall, taken,
                   sidOf, queue, atBrt, answerVars>>

(* ... and its message the channel after that, when there is room.              *)
EnqueueMessage(t) ==
    /\ ThreadAt(t, "enqueue", "idle")
    /\ Len(queue) < ChanCap
    /\ queue' = Append(queue, tcall[t])
    /\ tcall' = [tcall EXCEPT ![t] = None]
    /\ UNCHANGED <<writerVars, processVars, startVars, senderVars, taken, sidOf,
                   cache, atBrt, answerVars>>

(* Without a CCR the CDR goes to the file at once.                              *)
DirectCdr(t) ==
    /\ ThreadAt(t, "direct", "idle")
    /\ Receive(ThreadTask[t], tcall[t])
    /\ tcall' = [tcall EXCEPT ![t] = None]
    /\ UNCHANGED <<processVars, startVars, senderVars, taken, sidOf,
                   cache, queue, atBrt, answerVars>>

-----------------------------------------------------------------------------
(* SendCCREvent: the select of a sender chooses among its ready cases, so a     *)
(* message can be taken although the connection has closed: it is lost then.    *)
SendMessage(p) ==
    /\ sender[p] = "select"
    /\ queue # <<>>
    /\ queue' = Tail(queue)
    /\ atBrt' = IF link[p] THEN [atBrt EXCEPT ![p] = @ \cup {Head(queue)}] ELSE atBrt
    /\ UNCHANGED <<writerVars, processVars, startVars, senderVars, threadVars,
                   cache, answerVars>>

(* Mutant of CloseNotified: Done is missing.                                    *)
CloseWithoutDone(p) ==
    /\ SenderAt(p, "select", "reconnect")
    /\ ~link[p]
    /\ UNCHANGED <<writerVars, processVars, startVars, retry, link, wg, threadVars,
                   cache, queue, atBrt, answerVars>>

CloseNotified(p) ==
    /\ SenderAt(p, "select", "reconnect")
    /\ ~link[p]
    /\ WgDone
    /\ UNCHANGED <<writerVars, gostop, ctxDone, startVars, retry, link, threadVars,
                   cache, queue, atBrt, answerVars>>

(* Reconnect returns a connection, or nil after MaxRetry + 1 failed dials.      *)
Reconnected(p) ==
    /\ SenderAt(p, "reconnect", "select")
    /\ link' = [link EXCEPT ![p] = TRUE]
    /\ WgAdd(1)
    /\ retry' = [retry EXCEPT ![p] = 0]
    /\ UNCHANGED <<writerVars, gostop, ctxDone, startVars, threadVars,
                   cache, queue, atBrt, answerVars>>

(* Mutants of ReconnectFails: one dial too many; dials without end.             *)
ReconnectFailsLate(p) ==
    /\ sender[p] = "reconnect"
    /\ IF retry[p] > MaxRetry
       THEN /\ SenderAt(p, "reconnect", "ended")
            /\ retry' = [retry EXCEPT ![p] = 0]
       ELSE retry' = [retry EXCEPT ![p] = @ + 1] /\ UNCHANGED sender
    /\ UNCHANGED <<writerVars, processVars, startVars, link, wg, threadVars,
                   cache, queue, atBrt, answerVars>>

ReconnectForever(p) ==
    /\ sender[p] = "reconnect"
    /\ retry' = [retry EXCEPT ![p] = (@ + 1) % 2]
    /\ UNCHANGED <<writerVars, processVars, startVars, sender, link, wg, threadVars,
                   cache, queue, atBrt, answerVars>>

ReconnectFails(p) ==
    /\ sender[p] = "reconnect"
    /\ IF retry[p] + 1 > MaxRetry
       THEN /\ SenderAt(p, "reconnect", "ended")
            /\ retry' = [retry EXCEPT ![p] = 0]
       ELSE retry' = [retry EXCEPT ![p] = @ + 1] /\ UNCHANGED sender
    /\ UNCHANGED <<writerVars, processVars, startVars, link, wg, threadVars,
                   cache, queue, atBrt, answerVars>>

StopSender(p) ==
    /\ ctxDone
    /\ SenderAt(p, "select", "stopped")
    /\ UNCHANGED <<writerVars, processVars, startVars, retry, link, wg,
                   threadVars, cache, queue, atBrt, answerVars>>

-----------------------------------------------------------------------------
(* The network and the BRT (external): a connection breaks and takes the        *)
(* unanswered requests with it; an answer comes on the connection of its        *)
(* request, in any order and with any code.                                     *)
BreakLink(p) ==
    /\ link[p]
    /\ link' = [link EXCEPT ![p] = FALSE]
    /\ atBrt' = [atBrt EXCEPT ![p] = {}]
    /\ UNCHANGED <<writerVars, processVars, startVars, sender, retry, wg,
                   threadVars, cache, queue, answerVars>>

(* Mutant of BrtAnswers: no code forms a CDR.                                   *)
AnswersOnlyDelete(p, c, k) ==
    /\ link[p]
    /\ c \in atBrt[p]
    /\ atBrt' = [atBrt EXCEPT ![p] = @ \ {c}]
    /\ code' = [code EXCEPT ![c] = k]
    /\ apc' = [apc EXCEPT ![c] = "delete"]
    /\ UNCHANGED <<writerVars, processVars, startVars, senderVars, threadVars,
                   cache, queue, val>>

(* Mutant of BrtAnswers: every code forms a CDR.                                *)
AnswersAllLoad(p, c, k) ==
    /\ link[p]
    /\ c \in atBrt[p]
    /\ atBrt' = [atBrt EXCEPT ![p] = @ \ {c}]
    /\ code' = [code EXCEPT ![c] = k]
    /\ apc' = [apc EXCEPT ![c] = "load"]
    /\ UNCHANGED <<writerVars, processVars, startVars, senderVars, threadVars,
                   cache, queue, val>>

(* The answer starts a goroutine.  ResponseDiamHandler hands it the result code *)
(* (the last Result-Code of the message) and the session id of the request.     *)
(* 4011, 4522 and 4012 are "offline"; 5030 and the rest only delete the entry.  *)
BrtAnswers(p, c, k) ==
    /\ link[p]
    /\ c \in atBrt[p]
    /\ atBrt' = [atBrt EXCEPT ![p] = @ \ {c}]
    /\ code' = [code EXCEPT ![c] = k]
    /\ apc' = [apc EXCEPT ![c] = IF k = "offline" THEN "load" ELSE "delete"]
    /\ UNCHANGED <<writerVars, processVars, startVars, senderVars, threadVars,
                   cache, queue, val>>

-----------------------------------------------------------------------------
(* AnswerCCAEvent: Load, send to the file channel of the loaded task, Delete.   *)
AnswerAt(c, from, to) == /\ apc[c] = from
                         /\ apc' = [apc EXCEPT ![c] = to]

(* Mutant of LoadEntry: the entry is deleted when it is loaded.                 *)
LoadAndDelete(c) ==
    /\ AnswerAt(c, "load", IF cache[sidOf[c]] = None THEN "stuck" ELSE "send")
    /\ val' = [val EXCEPT ![c] = cache[sidOf[c]]]
    /\ cache' = [cache EXCEPT ![sidOf[c]] = None]
    /\ UNCHANGED <<writerVars, processVars, startVars, senderVars, threadVars,
                   queue, atBrt, code>>

(* A session id the cache does not know gives a zero value: its TaskName names  *)
(* no channel, and the send on the nil channel blocks for good.                 *)
LoadEntry(c) ==
    /\ apc[c] = "load"
    /\ apc' = [apc EXCEPT ![c] = IF cache[sidOf[c]] = None THEN "stuck" ELSE "send"]
    /\ val' = [val EXCEPT ![c] = cache[sidOf[c]]]
    /\ UNCHANGED <<writerVars, processVars, startVars, senderVars, threadVars,
                   cache, queue, atBrt, code>>

SendCdr(c) ==
    /\ AnswerAt(c, "send", "delete")
    /\ Receive(TaskOf[val[c]], val[c])
    /\ UNCHANGED <<processVars, startVars, senderVars, threadVars,
                   cache, queue, atBrt, code, val>>

(* Mutant of DeleteEntry: Delete is called with the key of any call.            *)
DeleteAnyEntry(c) ==
    /\ AnswerAt(c, "delete", "done")
    /\ \E s \in Sids : cache' = [cache EXCEPT ![s] = None]
    /\ UNCHANGED <<writerVars, processVars, startVars, senderVars, threadVars,
                   queue, atBrt, code, val>>

DeleteEntry(c) ==
    /\ AnswerAt(c, "delete", "done")
    /\ cache' = [cache EXCEPT ![sidOf[c]] = None]
    /\ UNCHANGED <<writerVars, processVars, startVars, senderVars, threadVars,
                   queue, atBrt, code, val>>

-----------------------------------------------------------------------------
(* The writers run once StartSimpleMode has started them.                       *)
WriterFrame == /\ phase = "run" /\ brt
               /\ UNCHANGED <<startVars, senderVars, threadVars, cache, queue,
                              atBrt, answerVars>>

Writer(t) == WriterFrame /\ WriterStep(t)

(* The timer of end() or a signal, which may come while peers are dialled,      *)
(* cancels the context; end() then sets gostop and, some seconds later, main    *)
(* returns.                                                                     *)
CancelContext ==
    /\ ~ctxDone
    /\ ctxDone' = TRUE
    /\ UNCHANGED <<writerVars, gostop, running, startVars, senderVars, threadVars,
                   cache, queue, atBrt, answerVars>>

SetGostop ==
    /\ phase = "run" /\ ctxDone /\ ~gostop
    /\ gostop' = TRUE
    /\ UNCHANGED <<writerVars, ctxDone, running, startVars, senderVars, threadVars,
                   cache, queue, atBrt, answerVars>>

Exit ==
    /\ ctxDone /\ gostop
    /\ running' = FALSE
    /\ UNCHANGED <<writerVars, gostop, ctxDone, startVars, senderVars, threadVars,
                   cache, queue, atBrt, answerVars>>

-----------------------------------------------------------------------------
ThreadStep(t) == \/ \E c \in Calls : TakeCall(t, c)
                 \/ StoreCall(t)
                 \/ EnqueueMessage(t)
                 \/ DirectCdr(t)

SenderStep(p) == \/ DialPeer(p)
                 \/ SendMessage(p)
                 \/ CloseNotified(p)
                 \/ Reconnected(p)
                 \/ ReconnectFails(p)
                 \/ StopSender(p)

NetworkStep(p) == \/ BreakLink(p)
                  \/ \E c \in Calls, k \in Codes \ {"none"} : BrtAnswers(p, c, k)

AnswerStep(c) == LoadEntry(c) \/ SendCdr(c) \/ DeleteEntry(c)

EndStep == CancelContext \/ SetGostop \/ Exit

Next == /\ running
        /\ \/ EndDial \/ CheckStarted
           \/ \E t \in Threads : ThreadStep(t)
           \/ \E p \in Peers : SenderStep(p) \/ NetworkStep(p)
           \/ \E c \in Calls : AnswerStep(c)
           \/ \E t \in Tasks : Writer(t)
           \/ EndStep

Spec == Init /\ [][Next]_vars

-----------------------------------------------------------------------------
(* Fairness.  Every goroutine is eventually scheduled; a goroutine waiting to   *)
(* send on a channel waits in the channel's FIFO queue, so a send that is       *)
(* possible again and again happens (strong fairness); select chooses uniformly *)
(* among its ready cases, so a sender does not ignore the channel for ever.     *)
(* Nothing is assumed of the network, of the BRT or of the end of the run.      *)
Fairness == /\ \A c \in Calls : /\ WF_vars(running /\ LoadEntry(c))
                                /\ SF_vars(running /\ SendCdr(c))
                                /\ WF_vars(running /\ DeleteEntry(c))
            /\ \A p \in Peers : /\ SF_vars(running /\ SendMessage(p))
                                /\ WF_vars(running /\ (Reconnected(p) \/ ReconnectFails(p)))
            /\ \A t \in Tasks : WF_vars(running /\ WriterFrame /\ WriterProgress(t))

FairSpec == Spec /\ Fairness

-----------------------------------------------------------------------------
Connected == {p \in Peers : sender[p] \in {"select", "stopped"}}

Recorded(c) == file[c] > 0 \/ c \in dropped

HandedOver(c) == Recorded(c) \/ \E t \in Tasks : hold[t] = c

(* The count of wgd is the number of senders that own a connection, through     *)
(* dials, lost connections, failed and successful reconnects: Add and Done      *)
(* never panic (wg.go) and ExpectAtLeast tells the connections.                 *)
WgCountsConnections == /\ wg = Cardinality(Connected)
                       /\ wg >= 0

(* Nothing in the program keeps two calls from carrying the same id, and the    *)
(* later one replaces the earlier in the cache.  What the client promises it    *)
(* promises to a call whose id no other call has drawn, whatever happens to the *)
(* calls that share theirs.                                                     *)
Own(c) == \A d \in Calls : sidOf[c] # None /\ sidOf[d] = sidOf[c] => d = c

SidsDistinct == \A c \in Calls : Own(c)

(* CreateDiamMessage stores before it sends and the answer's goroutine deletes  *)
(* last, so a call whose message is in the channel, at a BRT or being answered  *)
(* is always found under its session id, whatever the other goroutines do, and  *)
(* as long as no call draws the same id.                                        *)
PendingCallsCached ==
    \A c \in Calls :
        Own(c) /\ (InQueue(c) \/ (\E p \in Peers : c \in atBrt[p])
                              \/ apc[c] \in {"load", "send", "delete"})
            => cache[sidOf[c]] = c

(* No answer's goroutine finds the zero value in the cache and blocks on the    *)
(* nil channel of CDRChanneltoFileUni[""], unless another call has drawn the id *)
(* of its call: then the answer to the one deletes what the other looks for.    *)
NoAnswerStuck == \A c \in Calls : Own(c) => apc[c] # "stuck"

(* One answer, one CDR: no call with an id of its own is handed to a writer     *)
(* twice, by whatever mix of direct CDRs, answers of several peers and writers. *)
AtMostOneCdr ==
    \A c \in Calls : Own(c) =>
        /\ file[c] <= 1
        /\ file[c] > 0 => c \notin dropped
        /\ \A t \in Tasks : hold[t] = c => ~Recorded(c)
        /\ \A t, u \in Tasks : hold[t] = c /\ hold[u] = c => t = u

(* A CDR is written for a call with an id of its own only if the BRT answered   *)
(* 4011, 4522 or 4012 to that call, or the call could not be asked online.      *)
CdrOnlyIfOwed ==
    \A c \in Calls : Own(c) /\ HandedOver(c) => (c \in taken /\ c \in NoContext)
                                                \/ code[c] = "offline"

(* Once the goroutine of an answer 4011, 4522 or 4012 is through, the CDR of    *)
(* that very call has been handed to a writer ("after code 4011 an offline CDR  *)
(* is formed", CreateDiamMessage), unless another call drew its id: the CDR is  *)
(* that call's then.                                                            *)
OfflineAnswerServed ==
    \A c \in Calls :
        Own(c) /\ apc[c] = "done" /\ code[c] = "offline" => HandedOver(c)

(* A stored call with an id of its own leaves the cache only by the answer to   *)
(* that call: no other call's thread or answer overwrites or deletes it.        *)
OnlyOwnAnswerDeletes ==
    [][\A c \in Calls : Own(c) /\ sidOf[c] # None /\ cache[sidOf[c]] = c
                            => cache'[sidOf[c]] = c \/ apc[c] = "delete"]_vars

(* An answer that owes a CDR gets it written while the process lives, although  *)
(* goroutines compete for one writer that also rotates its file, unless another *)
(* call draws the id before the answer's goroutine has looked the call up.      *)
OfflineAnswerWritten ==
    \A c \in Calls : apc[c] = "load" ~> (Recorded(c) \/ ~Own(c) \/ ~running)

(* A queued message is taken off the channel unless every sender is gone.       *)
QueueDrains ==
    \A c \in Calls : InQueue(c) ~>
        \/ ~InQueue(c)
        \/ \A p \in Peers : sender[p] \in {"failed", "ended", "stopped"}
        \/ ~running

-----------------------------------------------------------------------------
(* The inductive invariant behind the safety properties: where a call may be.   *)

(* A thread owns the call it works on.                                          *)
ThreadsOwnCalls ==
    /\ \A t \in Threads :
          /\ tpc[t] = "idle" <=> tcall[t] = None
          /\ tpc[t] \in {"store", "enqueue"} =>
                /\ tcall[t] \in taken \ NoContext
                /\ apc[tcall[t]] = "none"
                /\ ~InQueue(tcall[t])
                /\ \A p \in Peers : tcall[t] \notin atBrt[p]
          /\ tpc[t] = "direct" => /\ tcall[t] \in taken \cap NoContext
                                  /\ ~HandedOver(tcall[t])
    /\ \A t, u \in Threads : tcall[t] # None /\ tcall[t] = tcall[u] => t = u
    /\ \A t \in Threads, c \in Calls :
          Own(c) /\ tpc[t] = "enqueue" /\ tcall[t] = c => cache[sidOf[c]] = c

(* What is cached under a session id, or was loaded by one, is a call that drew *)
(* this id.                                                                     *)
SidsNameCalls ==
    /\ \A c \in Calls : sidOf[c] # None <=> c \in taken \ NoContext
    /\ \A s \in Sids : cache[s] # None => sidOf[cache[s]] = s
    /\ \A c \in Calls : apc[c] = "send" => sidOf[val[c]] = sidOf[c]

(* A message is in the channel once, or at one BRT, and then not answered.      *)
MessagesInOnePlace ==
    /\ \A i, j \in 1 .. Len(queue) : queue[i] = queue[j] => i = j
    /\ \A c \in Calls : InQueue(c) => /\ c \in taken \ NoContext
                                      /\ apc[c] = "none"
                                      /\ \A p \in Peers : c \notin atBrt[p]
    /\ \A p \in Peers : \A c \in atBrt[p] :
          /\ c \in taken \ NoContext
          /\ apc[c] = "none"
          /\ \A q \in Peers : c \in atBrt[q] => p = q

(* An answer's goroutine serves the call it answers.                            *)
AnswersOwnCalls ==
    \A c \in Calls :
        /\ apc[c] # "none" => c \in taken \ NoContext
        /\ apc[c] = "none" <=> code[c] = "none"
        /\ apc[c] \in {"load", "send"} => code[c] = "offline"
        /\ Own(c) /\ apc[c] \in {"load", "send"} => ~HandedOver(c)
        /\ Own(c) /\ apc[c] = "delete" /\ code[c] = "offline" => HandedOver(c)

(* A line belongs to a call that owes it, and is in one hand.                   *)
LinesOwed ==
    /\ \A t \in Tasks : hold[t] # None <=> wpc[t] = "write"
    /\ CdrOnlyIfOwed
    /\ AtMostOneCdr

IInv == /\ TypeOK
        /\ ThreadsOwnCalls
        /\ SidsNameCalls
        /\ MessagesInOnePlace
        /\ AnswersOwnCalls
        /\ LinesOwed
        /\ PendingCallsCached
        /\ NoAnswerStuck
        /\ OfflineAnswerServed

-----------------------------------------------------------------------------
(* The ledger this component keeps, read off its state.                         *)
BeforeStore(c) == \E t \in Threads : tpc[t] = "store" /\ tcall[t] = c

Status(c) == CASE Recorded(c) -> "closed"
               [] ~Recorded(c) /\ code[c] = "offline" -> "owed"
               [] ~Recorded(c) /\ code[c] = "other" -> "closed"
               [] ~Recorded(c) /\ code[c] = "none" /\ c \in NoContext ->
                      IF c \in taken THEN "owed" ELSE "new"
               [] OTHER -> IF c \in taken /\ ~BeforeStore(c) THEN "asked" ELSE "new"

Ledger == INSTANCE OfflineLedger WITH status <- [c \in Calls |-> Status(c)],
                                      cdr <- file

LedgerStep == \A c \in Calls :
    Own(c)' /\ <<Status(c), file[c]>>' # <<Status(c), file[c]>> => Ledger!CallStep(c)

(* To a call with an id of its own the client keeps the ledger's promise: what  *)
(* a step changes of the call is a step of the ledger for this call.  As long   *)
(* as no two ids are equal, the client implements the ledger as a whole.        *)
ImplementsLedger == Ledger!LInit /\ [][LedgerStep]_vars
================================================================================
