-------------------------------- MODULE CamelServer --------------------------------
(* The CAMEL side: the generator is an SCP that listens for BRTs.  Each accepted  *)
(* connection gets a Listener in the shared map, a handler goroutine that reads   *)
(* its messages one after the other, and, at each STARTUP, a sender goroutine.    *)
(* All senders take from one CamelChannel.  Threads of StartTaskCamel remember a  *)
(* call in the CamelOfflineCDR cache and queue its authorisation.  A BRT rejects  *)
(* it or confirms it without charge, and the handler forms the offline CDR; or it *)
(* confirms with charge, and the handler asks to end the session.                 *)
(*                                                                                *)
(* Abstracted: SMS and voice sessions, which differ in the message types only;    *)
(* message bodies (module CamelCodec); chunks (module TlvFraming); keep-alives,   *)
(* which change no state but the sequence number; the rate of a thread.           *)
(* A call is its own session id: twelve bytes with the subscriber's number and    *)
(* four random ones, taken not to repeat.                                         *)
EXTENDS CdrWriter, Sequences, FiniteSets

CONSTANTS Threads,     \* goroutines of StartTaskCamel
          Conns,       \* the connections BRTs may open during the run
          Addrs,       \* the remote addresses they come from
          Senders,     \* goroutines of CamelSend
          AddrOf,      \* AddrOf[k]: remote address of connection k, the key of the map
          TaskOf,      \* TaskOf[c]: the task whose pool call c comes from
          ThreadTask,  \* ThreadTask[t]: the task thread t generates for
          NoRequest,   \* calls whose record type is none of 01, 02, 08 and 09, or
                       \* of another channel
          DiameterCalls, \* calls of channel diameter and a task in -brtlist
          ChanCap,     \* capacity of CamelChannel
          MaxStartups  \* STARTUP messages a BRT sends on a connection

ASSUME CamelAssumption == /\ TaskOf \in [Calls -> Tasks]
                          /\ ThreadTask \in [Threads -> Tasks]
                          /\ AddrOf \in [Conns -> Addrs]
                          /\ NoRequest \subseteq Calls
                          /\ DiameterCalls \subseteq Calls
                          /\ None \notin Conns \cup Senders
                          /\ Conns \cap Senders = {}
ASSUME CamelBoundsAssumption == /\ ChanCap \in Nat \ {0}
                                /\ MaxStartups \in Nat

VARIABLES accepting,  \* ServerStart is in its accept loop
          link,       \* link[k]: the TCP connection of k
          list,       \* ListListener.List: list[a] is the connection stored under a
          hpc,        \* hpc[k]: the CamelHandler of connection k
          hcall,      \* hcall[k]: the call of the message it handles
          brtId,      \* brtId[k]: the connection whose STARTUP set the BRTId of k
          startups,   \* startups[k]: STARTUP messages read on k
          spc,        \* spc[s]: where sender s stands
          sconn,      \* sconn[s]: the connection it sends on
          tpc,        \* tpc[t]: where thread t stands in StartTaskCamel
          tcall,      \* tcall[t]: the call thread t works on
          taken,      \* calls taken from the pools
          cache,      \* CamelOfflineCDR
          queue,      \* CamelChannel
          atBrt,      \* atBrt[k]: authorisations that reached the BRT of k
          atEnd,      \* atEnd[k]: end requests that reached it
          verdict     \* verdict[c]: how the BRT answered the authorisation of c

serverVars == <<accepting, link, list>>
handlerVars == <<hpc, hcall, brtId, startups>>
senderVars == <<spc, sconn>>
threadVars == <<tpc, tcall, taken>>
brtVars == <<atBrt, atEnd, verdict>>
camelVars == <<serverVars, handlerVars, senderVars, threadVars, cache, queue, brtVars>>
vars == <<writerVars, processVars, camelVars>>

Links == {"none", "open", "broken", "closed"}
HandlerPcs == {"none", "read", "startup", "spawn", "load", "send", "delete",
               "unlist", "gone", "stuck", "shutdown"}
SenderPcs == {"none", "select", "unlist", "ended"}
ThreadPcs == {"idle", "route", "store", "enqueue", "diameter", "direct"}
Verdicts == {"none", "offline", "charged"}

InQueue(c) == \E i \in 1 .. Len(queue) : queue[i] = c

TypeOK == /\ WriterTypeOK
          /\ accepting \in BOOLEAN
          /\ link \in [Conns -> Links]
          /\ list \in [Addrs -> Conns \cup {None}]
          /\ hpc \in [Conns -> HandlerPcs]
          /\ hcall \in [Conns -> Calls \cup {None}]
          /\ brtId \in [Conns -> Conns \cup {None}]
          /\ startups \in [Conns -> 0 .. MaxStartups]
          /\ spc \in [Senders -> SenderPcs]
          /\ sconn \in [Senders -> Conns \cup {None}]
          /\ tpc \in [Threads -> ThreadPcs]
          /\ tcall \in [Threads -> Calls \cup {None}]
          /\ taken \subseteq Calls
          /\ cache \subseteq Calls
          /\ queue \in Seq(Calls)
          /\ Len(queue) <= ChanCap
          /\ atBrt \in [Conns -> SUBSET Calls]
          /\ atEnd \in [Conns -> SUBSET Calls]
          /\ verdict \in [Calls -> Verdicts]

Init == /\ WriterInit
        /\ accepting = TRUE
        /\ link = [k \in Conns |-> "none"]
        /\ list = [a \in Addrs |-> None]
        /\ hpc = [k \in Conns |-> "none"]
        /\ hcall = [k \in Conns |-> None]
        /\ brtId = [k \in Conns |-> None]
        /\ startups = [k \in Conns |-> 0]
        /\ spc = [s \in Senders |-> "none"]
        /\ sconn = [s \in Senders |-> None]
        /\ tpc = [t \in Threads |-> "idle"]
        /\ tcall = [t \in Threads |-> None]
        /\ taken = {}
        /\ cache = {}
        /\ queue = <<>>
        /\ atBrt = [k \in Conns |-> {}]
        /\ atEnd = [k \in Conns |-> {}]
        /\ verdict = [c \in Calls |-> "none"]

-----------------------------------------------------------------------------
HandlerAt(k, from, to) == /\ hpc[k] = from
                          /\ hpc' = [hpc EXCEPT ![k] = to]

SenderAt(s, from, to) == /\ spc[s] = from
                         /\ spc' = [spc EXCEPT ![s] = to]

ThreadAt(t, from, to) == /\ tpc[t] = from
                         /\ tpc' = [tpc EXCEPT ![t] = to]

Listeners == {a \in Addrs : list[a] # None}

(* DeleteCloseConn: the map knows a connection by its remote address only.      *)
Unlist(k) == list' = [list EXCEPT ![AddrOf[k]] = None]

(* Close: the socket is closed and the context of the Listener is cancelled.    *)
Close(k) == link' = [link EXCEPT ![k] = "closed"]

Cancelled(k) == ctxDone \/ link[k] = "closed"

-----------------------------------------------------------------------------
(* ServerStart: a BRT connects from an address no live connection uses; its     *)
(* Listener is stored and its handler started.  After the cancellation the loop *)
(* ends at the next turn.                                                       *)
Accept(k) ==
    /\ accepting
    /\ link[k] = "none"
    /\ \A j \in Conns : AddrOf[j] = AddrOf[k] => link[j] # "open"
    /\ link' = [link EXCEPT ![k] = "open"]
    /\ list' = [list EXCEPT ![AddrOf[k]] = k]
    /\ HandlerAt(k, "none", "read")
    /\ accepting' = ~ctxDone
    /\ UNCHANGED <<writerVars, processVars, hcall, brtId, startups, senderVars,
                   threadVars, cache, queue, brtVars>>

(* The connection is closed or reset by the BRT, or dies.                       *)
BreakLink(k) ==
    /\ link[k] = "open"
    /\ link' = [link EXCEPT ![k] = "broken"]
    /\ UNCHANGED <<writerVars, processVars, accepting, list, handlerVars, senderVars,
                   threadVars, cache, queue, brtVars>>

-----------------------------------------------------------------------------
(* CamelResponse of the server: STARTUP sets the BRTId of the Listener the map  *)
(* has under the address; without one the nil pointer ends the process ...      *)
ReadStartup(k) ==
    /\ link[k] = "open" /\ startups[k] < MaxStartups
    /\ HandlerAt(k, "read", "startup")
    /\ startups' = [startups EXCEPT ![k] = @ + 1]
    /\ UNCHANGED <<writerVars, processVars, serverVars, hcall, brtId, senderVars,
                   threadVars, cache, queue, brtVars>>

(* Mutant of SaveBRTId: the number of the BRT is not saved.                     *)
SaveNothing(k) ==
    /\ HandlerAt(k, "startup", "spawn")
    /\ UNCHANGED <<writerVars, processVars, serverVars, hcall, brtId, startups,
                   senderVars, threadVars, cache, queue, brtVars>>

SaveBRTId(k) ==
    /\ HandlerAt(k, "startup", "spawn")
    /\ LET l == list[AddrOf[k]]
       IN  \/ /\ l # None
              /\ brtId' = [brtId EXCEPT ![l] = k]
              /\ UNCHANGED running
           \/ /\ l = None
              /\ running' = FALSE
              /\ UNCHANGED brtId
    /\ UNCHANGED <<writerVars, gostop, ctxDone, serverVars, hcall, startups,
                   senderVars, threadVars, cache, queue, brtVars>>

(* ... and then starts a sender for it, looked up once more.                    *)
StartSender(k, s) ==
    /\ HandlerAt(k, "spawn", "read")
    /\ LET l == list[AddrOf[k]]
       IN  \/ /\ l # None
              /\ SenderAt(s, "none", "select")
              /\ sconn' = [sconn EXCEPT ![s] = l]
              /\ UNCHANGED running
           \/ /\ l = None
              /\ running' = FALSE
              /\ UNCHANGED senderVars
    /\ UNCHANGED <<writerVars, gostop, ctxDone, serverVars, hcall, brtId, startups,
                   threadVars, cache, queue, brtVars>>

(* SHUTDOWN: the answer's parameter is put into a nil map, which panics.        *)
ReadShutdown(k) ==
    /\ link[k] = "open"
    /\ HandlerAt(k, "read", "shutdown")
    /\ running' = FALSE
    /\ UNCHANGED <<writerVars, gostop, ctxDone, serverVars, hcall, brtId, startups,
                   senderVars, threadVars, cache, queue, brtVars>>

-----------------------------------------------------------------------------
(* CamelResponse of the generator.  A REJECT, and a CONFIRM with Charge 0: Load,*)
(* send the CDR to the file channel of the loaded task, Delete.  The handler    *)
(* reads nothing else meanwhile.                                                *)
ReadRefusal(k, c) ==
    /\ link[k] \in {"open", "broken"}
    /\ c \in atBrt[k]
    /\ HandlerAt(k, "read", "load")
    /\ hcall' = [hcall EXCEPT ![k] = c]
    /\ atBrt' = [atBrt EXCEPT ![k] = @ \ {c}]
    /\ verdict' = [verdict EXCEPT ![c] = "offline"]
    /\ UNCHANGED <<writerVars, processVars, serverVars, brtId, startups, senderVars,
                   threadVars, cache, queue, atEnd>>

(* A session the cache does not know has no task: the send on the nil channel   *)
(* blocks the handler for good.                                                 *)
LoadCall(k) ==
    /\ hpc[k] = "load"
    /\ hpc' = [hpc EXCEPT ![k] = IF hcall[k] \in cache THEN "send" ELSE "stuck"]
    /\ UNCHANGED <<writerVars, processVars, serverVars, hcall, brtId, startups,
                   senderVars, threadVars, cache, queue, brtVars>>

(* Mutant of SendCdr: the CDR of a refused call is not sent.                    *)
SendNoCdr(k) ==
    /\ HandlerAt(k, "send", "delete")
    /\ UNCHANGED <<writerVars, processVars, serverVars, hcall, brtId, startups,
                   senderVars, threadVars, cache, queue, brtVars>>

SendCdr(k) ==
    /\ HandlerAt(k, "send", "delete")
    /\ Receive(TaskOf[hcall[k]], hcall[k])
    /\ UNCHANGED <<processVars, serverVars, hcall, brtId, startups,
                   senderVars, threadVars, cache, queue, brtVars>>

DeleteCall(k) ==
    /\ HandlerAt(k, "delete", "read")
    /\ cache' = cache \ {hcall[k]}
    /\ hcall' = [hcall EXCEPT ![k] = None]
    /\ UNCHANGED <<writerVars, processVars, serverVars, brtId, startups,
                   senderVars, threadVars, queue, brtVars>>

(* Mutants of ReadConfirm: the session is closed before its end is asked for;   *)
(* a confirmed call gets its CDR, too.                                          *)
ConfirmDeletes(k, c) ==
    /\ link[k] \in {"open", "broken"}
    /\ c \in atBrt[k]
    /\ hpc[k] = "read"
    /\ atBrt' = [atBrt EXCEPT ![k] = @ \ {c}]
    /\ atEnd' = IF link[k] = "open" THEN [atEnd EXCEPT ![k] = @ \cup {c}] ELSE atEnd
    /\ verdict' = [verdict EXCEPT ![c] = "charged"]
    /\ cache' = cache \ {c}
    /\ UNCHANGED <<writerVars, processVars, serverVars, handlerVars, senderVars,
                   threadVars, queue>>

ConfirmRecords(k, c) ==
    /\ link[k] \in {"open", "broken"}
    /\ c \in atBrt[k]
    /\ HandlerAt(k, "read", "load")
    /\ hcall' = [hcall EXCEPT ![k] = c]
    /\ atBrt' = [atBrt EXCEPT ![k] = @ \ {c}]
    /\ verdict' = [verdict EXCEPT ![c] = "charged"]
    /\ UNCHANGED <<writerVars, processVars, serverVars, brtId, startups, senderVars,
                   threadVars, cache, queue, atEnd>>

(* A CONFIRM with another Charge: the end request goes out on the connection    *)
(* the answer came on; it is lost when the connection has broken meanwhile.     *)
ReadConfirm(k, c) ==
    /\ link[k] \in {"open", "broken"}
    /\ c \in atBrt[k]
    /\ hpc[k] = "read"
    /\ atBrt' = [atBrt EXCEPT ![k] = @ \ {c}]
    /\ atEnd' = IF link[k] = "open" THEN [atEnd EXCEPT ![k] = @ \cup {c}] ELSE atEnd
    /\ verdict' = [verdict EXCEPT ![c] = "charged"]
    /\ UNCHANGED <<writerVars, processVars, serverVars, handlerVars, senderVars,
                   threadVars, cache, queue>>

(* Mutant of ReadEnd: the answer is taken for a refusal.                        *)
EndRecords(k, c) ==
    /\ link[k] \in {"open", "broken"}
    /\ c \in atEnd[k]
    /\ HandlerAt(k, "read", "load")
    /\ hcall' = [hcall EXCEPT ![k] = c]
    /\ atEnd' = [atEnd EXCEPT ![k] = @ \ {c}]
    /\ UNCHANGED <<writerVars, processVars, serverVars, brtId, startups, senderVars,
                   threadVars, cache, queue, atBrt, verdict>>

(* The answer to the end request: the session is deleted.                       *)
ReadEnd(k, c) ==
    /\ link[k] \in {"open", "broken"}
    /\ c \in atEnd[k]
    /\ HandlerAt(k, "read", "delete")
    /\ hcall' = [hcall EXCEPT ![k] = c]
    /\ atEnd' = [atEnd EXCEPT ![k] = @ \ {c}]
    /\ UNCHANGED <<writerVars, processVars, serverVars, brtId, startups, senderVars,
                   threadVars, cache, queue, atBrt, verdict>>

-----------------------------------------------------------------------------
(* readNetConn and handleReadError: a timeout or a reset is an error net has    *)
(* wrapped, it is logged and the handler reads again; the end of the stream     *)
(* closes the Listener ...                                                      *)
ReadEof(k) ==
    /\ link[k] = "broken"
    /\ HandlerAt(k, "read", "unlist")
    /\ Close(k)
    /\ atBrt' = [atBrt EXCEPT ![k] = {}]
    /\ atEnd' = [atEnd EXCEPT ![k] = {}]
    /\ UNCHANGED <<writerVars, processVars, accepting, list, hcall, brtId, startups,
                   senderVars, threadVars, cache, queue, verdict>>

(* Mutant of HandlerUnlists: the handler returns without deleting the entry.    *)
HandlerLeaves(k) ==
    /\ HandlerAt(k, "unlist", "gone")
    /\ UNCHANGED <<writerVars, processVars, serverVars, hcall, brtId, startups,
                   senderVars, threadVars, cache, queue, brtVars>>

(* ... and deletes whatever the map has under its address.                      *)
HandlerUnlists(k) ==
    /\ HandlerAt(k, "unlist", "gone")
    /\ Unlist(k)
    /\ UNCHANGED <<writerVars, processVars, accepting, link, hcall, brtId, startups,
                   senderVars, threadVars, cache, queue, brtVars>>

(* At the end of the run the handler closes its connection and leaves the entry.*)
HandlerStops(k) ==
    /\ ctxDone
    /\ HandlerAt(k, "read", "gone")
    /\ Close(k)
    /\ UNCHANGED <<writerVars, processVars, accepting, list, hcall, brtId, startups,
                   senderVars, threadVars, cache, queue, brtVars>>

-----------------------------------------------------------------------------
(* CamelSend: select may take a message although its context is cancelled.  A   *)
(* write to a broken connection loses it, and the sender goes on; only a write  *)
(* to a closed one makes it close the Listener once more and unlist it.         *)
SendMessage(s) ==
    /\ spc[s] = "select"
    /\ queue # <<>>
    /\ queue' = Tail(queue)
    /\ LET k == sconn[s]
       IN  /\ spc' = [spc EXCEPT ![s] = IF link[k] = "closed" THEN "unlist" ELSE @]
           /\ atBrt' = IF link[k] = "open"
                       THEN [atBrt EXCEPT ![k] = @ \cup {Head(queue)}] ELSE atBrt
    /\ UNCHANGED <<writerVars, processVars, serverVars, handlerVars, sconn, threadVars,
                   cache, atEnd, verdict>>

SenderUnlists(s) ==
    /\ SenderAt(s, "unlist", "select")
    /\ Unlist(sconn[s])
    /\ UNCHANGED <<writerVars, processVars, accepting, link, handlerVars, sconn,
                   threadVars, cache, queue, brtVars>>

(* Mutant of SenderStops: the sender ends with the run only.                    *)
SenderStopsAtEnd(s) ==
    /\ ctxDone
    /\ SenderAt(s, "select", "ended")
    /\ UNCHANGED <<writerVars, processVars, serverVars, handlerVars, sconn, threadVars,
                   cache, queue, brtVars>>

SenderStops(s) ==
    /\ spc[s] = "select" /\ Cancelled(sconn[s])
    /\ spc' = [spc EXCEPT ![s] = "ended"]
    /\ UNCHANGED <<writerVars, processVars, serverVars, handlerVars, sconn, threadVars,
                   cache, queue, brtVars>>

-----------------------------------------------------------------------------
(* StartTaskCamel: a thread waits while no listener exists, takes a call ...    *)
TakeCall(t, c) ==
    /\ ~gostop
    /\ Listeners # {}
    /\ c \notin taken
    /\ TaskOf[c] = ThreadTask[t]
    /\ ThreadAt(t, "idle", "route")
    /\ tcall' = [tcall EXCEPT ![t] = c]
    /\ taken' = taken \cup {c}
    /\ UNCHANGED <<writerVars, processVars, serverVars, handlerVars, senderVars,
                   cache, queue, brtVars>>

(* ... looks again whether one exists, and goes on with a message to the one     *)
(* system or to the other, or with a CDR.                                        *)
RouteOf(c) == IF c \in DiameterCalls THEN "diameter"
              ELSE IF Listeners = {} \/ c \in NoRequest THEN "direct" ELSE "store"

RouteCall(t) ==
    /\ ThreadAt(t, "route", RouteOf(tcall[t]))
    /\ UNCHANGED <<writerVars, processVars, serverVars, handlerVars, senderVars,
                   tcall, taken, cache, queue, brtVars>>

(* CreateDiamMessage: what becomes of the call is told by DiameterClient.        *)
SendDiameter(t) ==
    /\ ThreadAt(t, "diameter", "idle")
    /\ tcall' = [tcall EXCEPT ![t] = None]
    /\ UNCHANGED <<writerVars, processVars, serverVars, handlerVars, senderVars,
                   taken, cache, queue, brtVars>>

(* CreateCamelMessage: Store, then the message to the channel.                  *)
StoreCall(t) ==
    /\ ThreadAt(t, "store", "enqueue")
    /\ cache' = cache \cup {tcall[t]}
    /\ UNCHANGED <<writerVars, processVars, serverVars, handlerVars, senderVars,
                   tcall, taken, queue, brtVars>>

EnqueueMessage(t) ==
    /\ ThreadAt(t, "enqueue", "idle")
    /\ Len(queue) < ChanCap
    /\ queue' = Append(queue, tcall[t])
    /\ tcall' = [tcall EXCEPT ![t] = None]
    /\ UNCHANGED <<writerVars, processVars, serverVars, handlerVars, senderVars,
                   taken, cache, brtVars>>

DirectCdr(t) ==
    /\ ThreadAt(t, "direct", "idle")
    /\ Receive(ThreadTask[t], tcall[t])
    /\ tcall' = [tcall EXCEPT ![t] = None]
    /\ UNCHANGED <<processVars, serverVars, handlerVars, senderVars, taken,
                   cache, queue, brtVars>>

-----------------------------------------------------------------------------
WriterFrame == UNCHANGED camelVars

Writer(t) == WriterFrame /\ WriterStep(t)

(* The list is a plain map: a write by one goroutine while another one is in    *)
(* the map makes the runtime end the process.                                   *)
MapWriters == {k \in Conns : hpc[k] \in {"startup", "unlist"}}
                  \cup {s \in Senders : spc[s] = "unlist"}
                  \cup {x \in {None} : accepting /\ \E k \in Conns : link[k] = "none"}

MapRace ==
    /\ \E x \in MapWriters : \/ \E y \in MapWriters : x # y
                             \/ \E k \in Conns : hpc[k] = "spawn"
    /\ running' = FALSE
    /\ UNCHANGED <<writerVars, gostop, ctxDone, camelVars>>

(* end(): the context is cancelled, then gostop set and the port closed, and    *)
(* some seconds later main returns.                                             *)
CancelContext ==
    /\ ~ctxDone
    /\ ctxDone' = TRUE
    /\ UNCHANGED <<writerVars, gostop, running, camelVars>>

StopServer ==
    /\ ctxDone
    /\ ~gostop \/ accepting
    /\ gostop' = TRUE
    /\ accepting' = FALSE
    /\ UNCHANGED <<writerVars, ctxDone, running, link, list, handlerVars, senderVars,
                   threadVars, cache, queue, brtVars>>

Exit ==
    /\ ctxDone /\ gostop /\ ~accepting
    /\ running' = FALSE
    /\ UNCHANGED <<writerVars, gostop, ctxDone, camelVars>>

-----------------------------------------------------------------------------
HandlerStep(k) == \/ ReadStartup(k) \/ SaveBRTId(k)
                  \/ \E s \in Senders : StartSender(k, s)
                  \/ ReadShutdown(k)
                  \/ \E c \in Calls : \/ ReadRefusal(k, c)
                                      \/ ReadConfirm(k, c)
                                      \/ ReadEnd(k, c)
                  \/ LoadCall(k) \/ SendCdr(k) \/ DeleteCall(k)
                  \/ ReadEof(k) \/ HandlerUnlists(k) \/ HandlerStops(k)

SenderStep(s) == SendMessage(s) \/ SenderUnlists(s) \/ SenderStops(s)

ThreadStep(t) == \/ \E c \in Calls : TakeCall(t, c)
                 \/ RouteCall(t) \/ SendDiameter(t) \/ StoreCall(t)
                 \/ EnqueueMessage(t) \/ DirectCdr(t)

EndStep == CancelContext \/ StopServer \/ Exit

Next == /\ running
        /\ \/ \E k \in Conns : Accept(k) \/ BreakLink(k) \/ HandlerStep(k)
           \/ \E s \in Senders : SenderStep(s)
           \/ \E t \in Threads : ThreadStep(t)
           \/ \E t \in Tasks : Writer(t)
           \/ MapRace
           \/ EndStep

Spec == Init /\ [][Next]_vars

-----------------------------------------------------------------------------
(* Fairness.  Every goroutine is eventually scheduled, a send that is possible  *)
(* again and again happens (channels queue their senders), and select chooses   *)
(* uniformly among its ready cases.  A handler in its read loop sees the end of *)
(* a broken connection: the stream ends for a connection that was closed or     *)
(* reset, and the keep-alives the handler writes make a dead one fail.  Nothing *)
(* is assumed of the BRTs or of the end of the run.                             *)
Fairness == /\ \A k \in Conns : /\ WF_vars(running /\ LoadCall(k))
                                /\ SF_vars(running /\ SendCdr(k))
                                /\ WF_vars(running /\ DeleteCall(k))
                                /\ WF_vars(running /\ SaveBRTId(k))
                                /\ WF_vars(running /\ \E s \in Senders : StartSender(k, s))
                                /\ SF_vars(running /\ ReadEof(k))
                                /\ WF_vars(running /\ HandlerUnlists(k))
            /\ \A s \in Senders : /\ SF_vars(running /\ SendMessage(s))
                                  /\ WF_vars(running /\ SenderUnlists(s))
                                  /\ SF_vars(running /\ SenderStops(s))
            /\ \A t \in Tasks : WF_vars(running /\ WriterFrame /\ WriterProgress(t))

FairSpec == Spec /\ Fairness

-----------------------------------------------------------------------------
Recorded(c) == file[c] > 0 \/ c \in dropped

HandedOver(c) == Recorded(c) \/ \E t \in Tasks : hold[t] = c

(* The places a session can be in after its call was stored and before it ends. *)
Pending(c) == \/ InQueue(c)
              \/ \E k \in Conns : \/ c \in atBrt[k] \cup atEnd[k]
                                  \/ hcall[k] = c

(* A session whose authorisation is queued, at a BRT or answered, up to the     *)
(* handler's Delete, is in the cache, over all threads, senders and handlers,   *)
(* so no handler loads a zero value and blocks on the channel of no task.       *)
PendingCallsCached == /\ \A c \in Calls : Pending(c) => c \in cache
                      /\ \A k \in Conns : hpc[k] # "stuck"

(* Nobody pays twice: a call the BRT charged (CONFIRM with Charge) gets no CDR, *)
(* and a call gets one CDR at most, whichever connections, handlers and threads *)
(* it went through.                                                             *)
NoDoubleCharge ==
    \A c \in Calls : /\ HandedOver(c) => verdict[c] # "charged"
                     /\ file[c] <= 1
                     /\ \A t \in Tasks : hold[t] = c => ~Recorded(c)

(* The map agrees with the goroutines: a connection is listed from its accept   *)
(* until its handler ends, so the STARTUP of a live connection finds its own    *)
(* Listener (and no nil pointer), and threads wait when no handler is left.     *)
(* It needs remote addresses that are not used again while an old connection's  *)
(* sender may still write.                                                      *)
ListMatchesHandlers ==
    \A k \in Conns : /\ hpc[k] \in {"startup", "spawn", "read"} => list[AddrOf[k]] = k
                     /\ hpc[k] = "gone" /\ ~ctxDone => list[AddrOf[k]] # k

(* "The stream starts after the initialisation only" (ServerStart): a sender    *)
(* works on a connection that has had its own STARTUP, so the BRT number it     *)
(* writes into the session id is the one this BRT gave.                         *)
SendersInitialised ==
    \A s \in Senders : spc[s] # "none" => /\ startups[sconn[s]] > 0
                                         /\ brtId[sconn[s]] = sconn[s]

(* A SHUTDOWN request is confirmed (TYPE_SHUTDOWN_RESP), the connection closed  *)
(* and the generator goes on with its other BRTs.                               *)
ShutdownIsConfirmed == \A k \in Conns : hpc[k] = "shutdown" => running

(* A handler that owes a CDR gets it to the file, although a thread may compete *)
(* for the writer with the CDR of a call it asked nobody about.                 *)
RefusalRecorded ==
    \A c \in Calls : (verdict[c] = "offline" ~> (Recorded(c) \/ ~running))

(* A connection that breaks leaves the list, and its senders end, although its  *)
(* handler may be busy with a CDR and its senders with messages: no thread      *)
(* believes in it for ever.                                                     *)
BrokenLinkForgotten ==
    \A k \in Conns : link[k] = "broken" ~>
        \/ ~running \/ ctxDone
        \/ /\ list[AddrOf[k]] # k
           /\ \A s \in Senders : sconn[s] = k => spc[s] = "ended"

-----------------------------------------------------------------------------
(* The inductive invariant behind the cache and the CDRs: where a call may be.  *)

(* A thread owns the call it works on, which is nowhere else yet.               *)
ThreadsOwnCalls ==
    /\ \A t \in Threads :
          /\ tcall[t] = None <=> tpc[t] = "idle"
          /\ tcall[t] # None => /\ tcall[t] \in taken
                                /\ ~Pending(tcall[t])
                                /\ verdict[tcall[t]] = "none"
                                /\ ~HandedOver(tcall[t])
          /\ tpc[t] = "enqueue" => tcall[t] \in cache
    /\ \A t, u \in Threads : tcall[t] # None /\ tcall[t] = tcall[u] => t = u

(* A message is in the channel once, and its call nowhere else ...              *)
QueuedOnce ==
    /\ \A i, j \in 1 .. Len(queue) : queue[i] = queue[j] => i = j
    /\ \A c \in Calls : InQueue(c) => /\ verdict[c] = "none"
                                      /\ ~HandedOver(c)
                                      /\ \A k \in Conns : c \notin atBrt[k]

(* ... or at one BRT, or answered, its end asked for, and with no handler.      *)
SentOnce ==
    /\ \A k \in Conns :
          /\ \A c \in atBrt[k] : /\ verdict[c] = "none"
                                 /\ ~HandedOver(c)
                                 /\ \A j \in Conns : c \in atBrt[j] => j = k
          /\ \A c \in atEnd[k] : /\ verdict[c] = "charged"
                                 /\ \A j \in Conns : c \in atEnd[j] => j = k
                                 /\ \A j \in Conns : hcall[j] # c
    /\ \A c \in Calls : Pending(c) \/ verdict[c] # "none" => c \in taken

(* A handler owns the answered call it works on.                                *)
HandlersOwnCalls ==
    /\ \A k \in Conns :
          /\ hcall[k] = None <=> hpc[k] \notin {"load", "send", "delete"}
          /\ hcall[k] # None => verdict[hcall[k]] # "none"
          /\ hpc[k] \in {"load", "send"} => /\ verdict[hcall[k]] = "offline"
                                           /\ ~HandedOver(hcall[k])
    /\ \A k, j \in Conns : hcall[k] # None /\ hcall[k] = hcall[j] => k = j

(* A line is in one hand, and its call was taken.                               *)
LinesOwed ==
    /\ \A t \in Tasks : hold[t] # None <=> wpc[t] = "write"
    /\ \A t, u \in Tasks : hold[t] # None /\ hold[t] = hold[u] => t = u
    /\ \A c \in Calls : HandedOver(c) => c \in taken
    /\ NoDoubleCharge

IInv == /\ TypeOK
        /\ ThreadsOwnCalls
        /\ QueuedOnce
        /\ SentOnce
        /\ HandlersOwnCalls
        /\ LinesOwed
        /\ PendingCallsCached

(* What the map and the senders rest on, when no two connections come from one  *)
(* address: a connection is closed by its own handler, and a sender that meets  *)
(* the closed socket finds the entry that handler is about to delete.           *)
ListInv ==
    /\ \A k \in Conns :
          /\ list[AddrOf[k]] \in {k, None}
          /\ link[k] = "none" <=> hpc[k] = "none"
          /\ link[k] = "closed" <=> hpc[k] \in {"unlist", "gone"}
          /\ hpc[k] \notin {"none", "unlist", "gone"} => list[AddrOf[k]] = k
          /\ hpc[k] \in {"startup", "spawn"} => startups[k] > 0
          /\ hpc[k] = "spawn" => brtId[k] = k
          /\ brtId[k] \in {k, None}
    /\ \A s \in Senders : /\ spc[s] # "none" => sconn[s] \in Conns
                          /\ spc[s] = "unlist" => link[sconn[s]] = "closed"
    /\ ListMatchesHandlers
    /\ SendersInitialised

-----------------------------------------------------------------------------
(* The ledger of offline CDRs this component keeps, read off its state.         *)
BeforeStore(c) == \E t \in Threads : tcall[t] = c /\ tpc[t] \in {"route", "diameter", "store"}

ToFile(c) == \E t \in Threads : tcall[t] = c /\ tpc[t] = "direct"

Status(c) == CASE Recorded(c) -> "closed"
               [] ~Recorded(c) /\ verdict[c] = "charged" -> "closed"
               [] ~Recorded(c) /\ (verdict[c] = "offline" \/ ToFile(c)
                                   \/ \E t \in Tasks : hold[t] = c) -> "owed"
               [] OTHER -> IF c \in taken /\ ~BeforeStore(c) THEN "asked" ELSE "new"

Ledger == INSTANCE OfflineLedger WITH status <- [c \in Calls |-> Status(c)],
                                      cdr <- file

(* Every behaviour of the server, its connections and its threads is one of the *)
(* ledger: a refused or unasked call is recorded once or dropped by the disk,   *)
(* any other never, and nothing returns from the end.                           *)
ImplementsLedger == Ledger!LSpec
================================================================================
