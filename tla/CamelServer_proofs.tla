------------------------------ MODULE CamelServer_proofs ------------------------------
(* Proofs about CamelServer, for any calls, tasks, threads, connections, addresses,  *)
(* senders, channel capacity, number of STARTUP messages and disk failures.          *)
EXTENDS CamelServer, TLAPS

USE DEF HandlerPcs, SenderPcs, ThreadPcs, WriterPcs, Links, Verdicts
USE NoneAssumption, CamelAssumption, CamelBoundsAssumption

-----------------------------------------------------------------------------
(* Type correctness, which leans on the rest of IInv: nobody works on no call.  *)

LEMMA WriterTyped ==
    ASSUME WriterTypeOK, NEW t \in Tasks, WriterStep(t),
           wpc[t] = "write" => hold[t] \in Calls
    PROVE  WriterTypeOK'
<1>1. CASE WriterProgress(t) /\ ~WriteLine(t)
  BY <1>1 DEF WriterTypeOK, WriterProgress, OpenFirst, AwaitLine, CreateFile,
              PermissionError, NilFilePanic, WriterAt, processVars
<1>2. CASE Rotate(t)
  BY <1>2 DEF WriterTypeOK, Rotate, CreateFile, PermissionError, NilFilePanic,
              WriterAt, processVars
<1>3. CASE WriteLine(t)
  BY <1>3 DEF WriterTypeOK, WriteLine, WriterAt, processVars
<1> QED
  BY <1>1, <1>2, <1>3 DEF WriterStep

LEMMA ReceiveTyped ==
    ASSUME WriterTypeOK, NEW t \in Tasks, NEW c \in Calls, Receive(t, c),
           UNCHANGED processVars
    PROVE  WriterTypeOK'
BY DEF WriterTypeOK, Receive, WriterAt, processVars

(* The variables by who writes them.                                            *)
LEMMA HandlerTyped ==
    ASSUME IInv, NEW k \in Conns, HandlerStep(k)
    PROVE  TypeOK'
<1> USE DEF IInv, HandlerAt, writerVars, processVars, serverVars, handlerVars,
            senderVars, threadVars, brtVars
<1>1. CASE ReadStartup(k)
  <2>1. startups[k] < MaxStartups /\ startups[k] \in 0 .. MaxStartups
    BY <1>1 DEF TypeOK, ReadStartup
  <2>2. startups' \in [Conns -> 0 .. MaxStartups] /\ hpc' \in [Conns -> HandlerPcs]
    BY <1>1, <2>1 DEF TypeOK, ReadStartup
  <2> QED
    BY <1>1, <2>2 DEF TypeOK, WriterTypeOK, ReadStartup
<1>2. CASE SaveBRTId(k)
  <2>1. hpc' \in [Conns -> HandlerPcs]
    BY <1>2 DEF TypeOK, SaveBRTId
  <2>2. brtId' \in [Conns -> Conns \cup {None}]
    <3> DEFINE l == list[AddrOf[k]]
    <3>1. brtId' = [brtId EXCEPT ![l] = k] \/ brtId' = brtId
      BY <1>2 DEF SaveBRTId
    <3> QED
      BY <3>1 DEF TypeOK
  <2>4. running' \in BOOLEAN
    BY <1>2 DEF TypeOK, WriterTypeOK, SaveBRTId
  <2>3. UNCHANGED <<wpc, hold, file, dropped, gostop, ctxDone, accepting, link, list,
                    hcall, startups, spc, sconn, tpc, tcall, taken, cache, queue,
                    atBrt, atEnd, verdict>>
    BY <1>2 DEF SaveBRTId
  <2> QED
    BY <2>1, <2>2, <2>3, <2>4 DEF TypeOK, WriterTypeOK
<1>3. ASSUME NEW s \in Senders, StartSender(k, s) PROVE TypeOK'
  <2>1. hpc' \in [Conns -> HandlerPcs]
    BY <1>3 DEF TypeOK, StartSender
  <2>2. running' \in BOOLEAN
    BY <1>3 DEF TypeOK, WriterTypeOK, StartSender
  <2>3. spc' \in [Senders -> SenderPcs] /\ sconn' \in [Senders -> Conns \cup {None}]
    BY <1>3 DEF TypeOK, SenderAt, StartSender
  <2>4. UNCHANGED <<wpc, hold, file, dropped, gostop, ctxDone, accepting, link, list,
                    hcall, brtId, startups, tpc, tcall, taken, cache, queue,
                    atBrt, atEnd, verdict>>
    BY <1>3 DEF StartSender
  <2> QED
    BY <2>1, <2>2, <2>3, <2>4 DEF TypeOK, WriterTypeOK
<1>4. CASE ReadShutdown(k)
  BY <1>4 DEF TypeOK, WriterTypeOK, ReadShutdown
<1>5. ASSUME NEW c \in Calls, ReadRefusal(k, c) PROVE TypeOK'
  BY <1>5 DEF TypeOK, WriterTypeOK, ReadRefusal
<1>6. ASSUME NEW c \in Calls, ReadConfirm(k, c) PROVE TypeOK'
  <2>1. atEnd' \in [Conns -> SUBSET Calls]
    BY <1>6 DEF TypeOK, ReadConfirm
  <2> QED
    BY <1>6, <2>1 DEF TypeOK, WriterTypeOK, ReadConfirm
<1>7. ASSUME NEW c \in Calls, ReadEnd(k, c) PROVE TypeOK'
  BY <1>7 DEF TypeOK, WriterTypeOK, ReadEnd
<1>8. CASE LoadCall(k) \/ DeleteCall(k)
  BY <1>8 DEF TypeOK, WriterTypeOK, LoadCall, DeleteCall
<1>9. CASE SendCdr(k)
  <2>1. hcall[k] \in Calls /\ TaskOf[hcall[k]] \in Tasks
    BY <1>9 DEF TypeOK, HandlersOwnCalls, SendCdr
  <2>2. WriterTypeOK'
    BY <1>9, <2>1, ReceiveTyped DEF TypeOK, SendCdr
  <2> QED
    BY <1>9, <2>2 DEF TypeOK, SendCdr
<1>10. CASE ReadEof(k) \/ HandlerUnlists(k) \/ HandlerStops(k)
  BY <1>10 DEF TypeOK, WriterTypeOK, ReadEof, HandlerUnlists, HandlerStops, Close, Unlist
<1> QED
  BY <1>1, <1>2, <1>3, <1>4, <1>5, <1>6, <1>7, <1>8, <1>9, <1>10 DEF HandlerStep

LEMMA SenderTyped ==
    ASSUME IInv, NEW s \in Senders, SenderStep(s)
    PROVE  TypeOK'
<1> USE DEF IInv, writerVars, processVars, serverVars, handlerVars, senderVars,
            threadVars, brtVars
<1>1. CASE SendMessage(s)
  <2>1. WriterTypeOK'
    BY <1>1 DEF TypeOK, WriterTypeOK, SendMessage
  <2>2. /\ queue' \in Seq(Calls) /\ Len(queue') <= ChanCap
        /\ Head(queue) \in Calls
    BY <1>1 DEF TypeOK, SendMessage
  <2>3. spc' \in [Senders -> SenderPcs] /\ atBrt' \in [Conns -> SUBSET Calls]
    BY <1>1, <2>2 DEF TypeOK, SendMessage
  <2> QED
    BY <1>1, <2>1, <2>2, <2>3 DEF TypeOK, SendMessage
<1>2. CASE SenderUnlists(s)
  BY <1>2 DEF TypeOK, WriterTypeOK, SenderUnlists, SenderAt, Unlist
<1>3. CASE SenderStops(s)
  BY <1>3 DEF TypeOK, WriterTypeOK, SenderStops
<1> QED
  BY <1>1, <1>2, <1>3 DEF SenderStep

LEMMA ThreadTyped ==
    ASSUME IInv, NEW t \in Threads, ThreadStep(t)
    PROVE  TypeOK'
<1> USE DEF IInv, ThreadAt, writerVars, processVars, serverVars, handlerVars,
            senderVars, threadVars, brtVars
<1>1. tpc[t] # "idle" => tcall[t] \in Calls
  BY DEF TypeOK, ThreadsOwnCalls
<1>2. ASSUME NEW c \in Calls, TakeCall(t, c) PROVE TypeOK'
  BY <1>2 DEF TypeOK, WriterTypeOK, TakeCall
<1>3. CASE RouteCall(t) \/ SendDiameter(t) \/ StoreCall(t)
  BY <1>1, <1>3 DEF TypeOK, WriterTypeOK, RouteCall, RouteOf, SendDiameter, StoreCall
<1>4. CASE EnqueueMessage(t)
  <2>1. queue' \in Seq(Calls) /\ Len(queue') <= ChanCap
    BY <1>1, <1>4 DEF TypeOK, EnqueueMessage
  <2> QED
    BY <1>4, <2>1 DEF TypeOK, WriterTypeOK, EnqueueMessage
<1>5. CASE DirectCdr(t)
  <2>1. WriterTypeOK'
    BY <1>1, <1>5, ReceiveTyped DEF TypeOK, DirectCdr
  <2> QED
    BY <1>5, <2>1 DEF TypeOK, DirectCdr
<1> QED
  BY <1>2, <1>3, <1>4, <1>5 DEF ThreadStep

LEMMA TypeStep ==
    ASSUME IInv, [Next]_vars
    PROVE  TypeOK'
<1> USE DEF IInv, writerVars, processVars, camelVars, serverVars, handlerVars,
            senderVars, threadVars, brtVars
<1>1. CASE UNCHANGED vars
  BY <1>1 DEF vars, TypeOK, WriterTypeOK
<1>2. ASSUME NEW k \in Conns, Accept(k) PROVE TypeOK'
  <2>1. /\ list' \in [Addrs -> Conns \cup {None}]
        /\ link' \in [Conns -> Links]
        /\ hpc' \in [Conns -> HandlerPcs]
        /\ accepting' \in BOOLEAN
    BY <1>2 DEF TypeOK, WriterTypeOK, Accept, HandlerAt
  <2> QED
    BY <1>2, <2>1 DEF TypeOK, WriterTypeOK, Accept
<1>5. ASSUME NEW k \in Conns, BreakLink(k) PROVE TypeOK'
  BY <1>5 DEF TypeOK, WriterTypeOK, BreakLink
<1>3. ASSUME NEW t \in Tasks, Writer(t) PROVE TypeOK'
  <2>1. wpc[t] = "write" => hold[t] \in Calls
    BY DEF LinesOwed, TypeOK, WriterTypeOK
  <2>2. WriterTypeOK'
    BY <1>3, <2>1, WriterTyped DEF TypeOK, Writer
  <2> QED
    BY <1>3, <2>2 DEF TypeOK, Writer, WriterFrame
<1>4. CASE MapRace \/ EndStep
  BY <1>4 DEF TypeOK, WriterTypeOK, MapRace, EndStep, CancelContext, StopServer, Exit
<1> QED
  BY <1>1, <1>2, <1>3, <1>4, <1>5, HandlerTyped, SenderTyped, ThreadTyped DEF Next

-----------------------------------------------------------------------------
(* Where the calls are.  First the steps that move no call: a handler only goes *)
(* from a place without a call to another one.                                  *)
Busy == {"load", "send", "delete", "stuck"}

LEMMA FrameKeeps ==
    ASSUME IInv, TypeOK',
           UNCHANGED <<wpc, hold, file, dropped, hcall, threadVars, cache, queue, brtVars>>,
           \A k \in Conns : hpc'[k] = hpc[k] \/ (hpc[k] \notin Busy /\ hpc'[k] \notin Busy)
    PROVE  IInv'
<1> USE DEF IInv, Busy, threadVars, brtVars
<1>1. \A c \in Calls : /\ InQueue(c)' <=> InQueue(c)
                       /\ Pending(c)' <=> Pending(c)
                       /\ HandedOver(c)' <=> HandedOver(c)
                       /\ Recorded(c)' <=> Recorded(c)
  BY DEF InQueue, Pending, HandedOver, Recorded
<1>2. ThreadsOwnCalls'
  BY <1>1 DEF ThreadsOwnCalls, TypeOK
<1>3. QueuedOnce' /\ SentOnce'
  BY <1>1 DEF QueuedOnce, SentOnce, TypeOK
<1>4. HandlersOwnCalls'
  <2>1. \A k \in Conns : /\ hpc'[k] \in {"load", "send", "delete"} <=> hpc[k] \in {"load", "send", "delete"}
                         /\ hpc'[k] \in {"load", "send"} => hpc[k] \in {"load", "send"}
    OBVIOUS
  <2> QED
    BY <1>1, <2>1 DEF HandlersOwnCalls, TypeOK
<1>5. LinesOwed'
  BY <1>1 DEF LinesOwed, NoDoubleCharge
<1>6. PendingCallsCached'
  BY <1>1 DEF PendingCallsCached
<1> QED
  BY <1>2, <1>3, <1>4, <1>5, <1>6

(* A thread's own steps.                                                        *)
LEMMA TakeCallKeeps ==
    ASSUME IInv, TypeOK', NEW t \in Threads, NEW c \in Calls, TakeCall(t, c)
    PROVE  IInv'
<1> USE DEF IInv, ThreadAt, writerVars, handlerVars, brtVars
<1>1. /\ c \notin taken /\ taken' = taken \cup {c}
      /\ tcall' = [tcall EXCEPT ![t] = c] /\ tpc[t] = "idle"
      /\ tpc' = [tpc EXCEPT ![t] = "route"]
      /\ UNCHANGED <<wpc, hold, file, dropped, hpc, hcall, cache, queue, atBrt, atEnd, verdict>>
  BY DEF TakeCall
<1>2. \A d \in Calls : /\ InQueue(d)' <=> InQueue(d)
                       /\ Pending(d)' <=> Pending(d)
                       /\ HandedOver(d)' <=> HandedOver(d)
                       /\ Recorded(d)' <=> Recorded(d)
  BY <1>1 DEF InQueue, Pending, HandedOver, Recorded
<1>3. ~Pending(c) /\ verdict[c] = "none" /\ ~HandedOver(c)
  BY <1>1 DEF SentOnce, LinesOwed
<1>4. ThreadsOwnCalls'
  <2>1. \A u \in Threads : tcall[u] # c
    BY <1>1 DEF ThreadsOwnCalls
  <2>2. /\ tcall'[t] = c /\ tpc'[t] = "route"
        /\ \A u \in Threads \ {t} : tcall'[u] = tcall[u] /\ tpc'[u] = tpc[u]
    BY <1>1 DEF TypeOK
  <2>3. \A u \in Threads : tcall[u] # None => tcall[u] \in Calls
    BY DEF TypeOK
  <2> QED
    BY <1>1, <1>2, <1>3, <2>1, <2>2, <2>3 DEF ThreadsOwnCalls
<1>5. QueuedOnce' /\ SentOnce'
  BY <1>1, <1>2 DEF QueuedOnce, SentOnce, TypeOK
<1>6. HandlersOwnCalls'
  BY <1>1, <1>2 DEF HandlersOwnCalls, TypeOK
<1>7. LinesOwed'
  BY <1>1, <1>2 DEF LinesOwed, NoDoubleCharge
<1>8. PendingCallsCached'
  BY <1>1, <1>2 DEF PendingCallsCached
<1> QED
  BY <1>4, <1>5, <1>6, <1>7, <1>8

LEMMA RouteCallKeeps ==
    ASSUME IInv, TypeOK', NEW t \in Threads, RouteCall(t)
    PROVE  IInv'
<1> USE DEF IInv, writerVars, handlerVars, brtVars
<1>1. /\ tpc[t] = "route" /\ tpc'[t] \in {"direct", "diameter", "store"}
      /\ \A u \in Threads \ {t} : tpc'[u] = tpc[u]
      /\ UNCHANGED <<wpc, hold, file, dropped, hpc, hcall, tcall, taken, cache, queue,
                     atBrt, atEnd, verdict>>
  BY DEF RouteCall, RouteOf, ThreadAt, TypeOK
<1>2. \A d \in Calls : /\ InQueue(d)' <=> InQueue(d)
                       /\ Pending(d)' <=> Pending(d)
                       /\ HandedOver(d)' <=> HandedOver(d)
                       /\ Recorded(d)' <=> Recorded(d)
  BY <1>1 DEF InQueue, Pending, HandedOver, Recorded
<1>3. ThreadsOwnCalls'
  BY <1>1, <1>2 DEF ThreadsOwnCalls, TypeOK
<1>4. QueuedOnce' /\ SentOnce' /\ HandlersOwnCalls'
  BY <1>1, <1>2 DEF QueuedOnce, SentOnce, HandlersOwnCalls, TypeOK
<1>5. LinesOwed' /\ PendingCallsCached'
  BY <1>1, <1>2 DEF LinesOwed, NoDoubleCharge, PendingCallsCached
<1> QED
  BY <1>3, <1>4, <1>5

LEMMA SendDiameterKeeps ==
    ASSUME IInv, TypeOK', NEW t \in Threads, SendDiameter(t)
    PROVE  IInv'
<1> USE DEF IInv, ThreadAt, writerVars, handlerVars, brtVars
<1>1. /\ tpc[t] = "diameter" /\ tpc'[t] = "idle" /\ tcall'[t] = None
      /\ \A u \in Threads \ {t} : tpc'[u] = tpc[u] /\ tcall'[u] = tcall[u]
      /\ UNCHANGED <<wpc, hold, file, dropped, hpc, hcall, taken, cache, queue,
                     atBrt, atEnd, verdict>>
  BY DEF SendDiameter, TypeOK
<1>2. \A d \in Calls : /\ InQueue(d)' <=> InQueue(d)
                       /\ Pending(d)' <=> Pending(d)
                       /\ HandedOver(d)' <=> HandedOver(d)
                       /\ Recorded(d)' <=> Recorded(d)
  BY <1>1 DEF InQueue, Pending, HandedOver, Recorded
<1>3. ThreadsOwnCalls'
  <2>1. \A u \in Threads : tcall[u] # None => tcall[u] \in Calls
    BY DEF TypeOK
  <2> QED
    BY <1>1, <1>2, <2>1 DEF ThreadsOwnCalls
<1>4. QueuedOnce' /\ SentOnce' /\ HandlersOwnCalls'
  BY <1>1, <1>2 DEF QueuedOnce, SentOnce, HandlersOwnCalls, TypeOK
<1>5. LinesOwed' /\ PendingCallsCached'
  BY <1>1, <1>2 DEF LinesOwed, NoDoubleCharge, PendingCallsCached
<1> QED
  BY <1>3, <1>4, <1>5

LEMMA StoreCallKeeps ==
    ASSUME IInv, TypeOK', NEW t \in Threads, StoreCall(t)
    PROVE  IInv'
<1> USE DEF IInv, ThreadAt, writerVars, handlerVars, brtVars
<1>1. /\ tpc[t] = "store" /\ tpc'[t] = "enqueue"
      /\ \A u \in Threads \ {t} : tpc'[u] = tpc[u]
      /\ cache' = cache \cup {tcall[t]}
      /\ UNCHANGED <<wpc, hold, file, dropped, hpc, hcall, tcall, taken, queue,
                     atBrt, atEnd, verdict>>
  BY DEF StoreCall, TypeOK
<1>2. \A d \in Calls : /\ InQueue(d)' <=> InQueue(d)
                       /\ Pending(d)' <=> Pending(d)
                       /\ HandedOver(d)' <=> HandedOver(d)
                       /\ Recorded(d)' <=> Recorded(d)
  BY <1>1 DEF InQueue, Pending, HandedOver, Recorded
<1>3. ThreadsOwnCalls'
  BY <1>1, <1>2 DEF ThreadsOwnCalls, TypeOK
<1>4. QueuedOnce' /\ SentOnce' /\ HandlersOwnCalls'
  BY <1>1, <1>2 DEF QueuedOnce, SentOnce, HandlersOwnCalls, TypeOK
<1>5. LinesOwed' /\ PendingCallsCached'
  BY <1>1, <1>2 DEF LinesOwed, NoDoubleCharge, PendingCallsCached
<1> QED
  BY <1>3, <1>4, <1>5

LEMMA EnqueueMessageKeeps ==
    ASSUME IInv, TypeOK', NEW t \in Threads, EnqueueMessage(t)
    PROVE  IInv'
<1> USE DEF IInv, ThreadAt, writerVars, handlerVars, brtVars
<1> DEFINE c == tcall[t]
<1>1. /\ tpc[t] = "enqueue" /\ tpc'[t] = "idle" /\ tcall'[t] = None
      /\ \A u \in Threads \ {t} : tpc'[u] = tpc[u] /\ tcall'[u] = tcall[u]
      /\ queue' = Append(queue, c)
      /\ UNCHANGED <<wpc, hold, file, dropped, hpc, hcall, taken, cache,
                     atBrt, atEnd, verdict>>
  BY DEF EnqueueMessage, TypeOK
<1>2. /\ c \in Calls /\ c \in taken /\ c \in cache
      /\ ~Pending(c) /\ verdict[c] = "none" /\ ~HandedOver(c)
  BY <1>1 DEF ThreadsOwnCalls, TypeOK
<1>3. /\ \A d \in Calls : InQueue(d)' <=> InQueue(d) \/ d = c
      /\ \A i, j \in 1 .. Len(queue') : queue'[i] = queue'[j] => i = j
  <2>1. /\ Len(queue') = Len(queue) + 1 /\ Len(queue) \in Nat
        /\ queue'[Len(queue) + 1] = c
        /\ \A i \in 1 .. Len(queue) : queue'[i] = queue[i] /\ queue[i] # c
    BY <1>1, <1>2 DEF TypeOK, Pending, InQueue
  <2>2. \A i \in 1 .. Len(queue') : i \in 1 .. Len(queue) \/ i = Len(queue) + 1
    BY <2>1
  <2>3. \A i, j \in 1 .. Len(queue) : queue[i] = queue[j] => i = j
    BY DEF QueuedOnce
  <2>4. \A i \in 1 .. Len(queue) : i \in 1 .. Len(queue')
    BY <2>1
  <2>5. Len(queue) + 1 \in 1 .. Len(queue')
    BY <2>1
  <2> QED
    BY <2>1, <2>2, <2>3, <2>4, <2>5 DEF InQueue
<1>4. \A d \in Calls : /\ Pending(d)' <=> Pending(d) \/ d = c
                       /\ HandedOver(d)' <=> HandedOver(d)
                       /\ Recorded(d)' <=> Recorded(d)
  BY <1>1, <1>3 DEF Pending, HandedOver, Recorded
<1>5. ThreadsOwnCalls'
  <2>1. \A u \in Threads \ {t} : tcall[u] # None => tcall[u] \in Calls /\ tcall[u] # c
    BY <1>2 DEF ThreadsOwnCalls, TypeOK
  <2> QED
    BY <1>1, <1>4, <2>1 DEF ThreadsOwnCalls
<1>6. QueuedOnce'
  <2>1. \A k \in Conns : c \notin atBrt[k]
    BY <1>2 DEF Pending
  <2> QED
    BY <1>1, <1>2, <1>3, <1>4, <2>1 DEF QueuedOnce
<1>9. SentOnce'
  BY <1>1, <1>2, <1>4 DEF SentOnce, TypeOK
<1>7. HandlersOwnCalls'
  BY <1>1, <1>4 DEF HandlersOwnCalls, TypeOK
<1>8. LinesOwed' /\ PendingCallsCached'
  BY <1>1, <1>2, <1>4 DEF LinesOwed, NoDoubleCharge, PendingCallsCached
<1> QED
  BY <1>5, <1>6, <1>7, <1>8, <1>9

(* What a send to a writer does to the lines.                                   *)
LEMMA ReceiveLines ==
    ASSUME TypeOK, LinesOwed, NEW w \in Tasks, NEW c \in Calls, Receive(w, c)
    PROVE  /\ \A d \in Calls : /\ Recorded(d)' <=> Recorded(d)
                               /\ HandedOver(d)' <=> HandedOver(d) \/ d = c
           /\ \A u \in Tasks : hold'[u] # None <=> wpc'[u] = "write"
           /\ \A u \in Tasks : hold'[u] = IF u = w THEN c ELSE hold[u]
           /\ UNCHANGED <<file, dropped>>
<1>1. /\ hold[w] = None /\ hold'[w] = c /\ wpc'[w] = "write"
      /\ \A u \in Tasks \ {w} : hold'[u] = hold[u] /\ wpc'[u] = wpc[u]
      /\ UNCHANGED <<file, dropped>>
  BY DEF Receive, WriterAt, LinesOwed, TypeOK, WriterTypeOK
<1> QED
  BY <1>1 DEF HandedOver, Recorded, LinesOwed

LEMMA DirectCdrKeeps ==
    ASSUME IInv, TypeOK', NEW t \in Threads, DirectCdr(t)
    PROVE  IInv'
<1> USE DEF IInv, ThreadAt, handlerVars, brtVars
<1> DEFINE c == tcall[t]
<1>1. /\ tpc[t] = "direct" /\ tpc'[t] = "idle" /\ tcall'[t] = None
      /\ \A u \in Threads \ {t} : tpc'[u] = tpc[u] /\ tcall'[u] = tcall[u]
      /\ UNCHANGED <<hpc, hcall, taken, cache, queue, atBrt, atEnd, verdict>>
  BY DEF DirectCdr, TypeOK
<1>2. /\ c \in Calls /\ c \in taken
      /\ ~Pending(c) /\ verdict[c] = "none" /\ ~HandedOver(c)
  BY <1>1 DEF ThreadsOwnCalls, TypeOK
<1>3. PICK w \in Tasks : Receive(w, c)
  BY DEF DirectCdr
<1>4. /\ \A d \in Calls : /\ Recorded(d)' <=> Recorded(d)
                          /\ HandedOver(d)' <=> HandedOver(d) \/ d = c
      /\ \A u \in Tasks : hold'[u] # None <=> wpc'[u] = "write"
      /\ \A u \in Tasks : hold'[u] = IF u = w THEN c ELSE hold[u]
      /\ UNCHANGED <<file, dropped>>
  BY <1>2, <1>3, ReceiveLines
<1>5. \A d \in Calls : (InQueue(d)' <=> InQueue(d)) /\ (Pending(d)' <=> Pending(d))
  BY <1>1 DEF InQueue, Pending
<1>6. ThreadsOwnCalls'
  <2>1. \A u \in Threads \ {t} : tcall[u] # None => /\ tcall[u] \in Calls /\ tcall[u] # c
                                                  /\ ~HandedOver(tcall[u])
    BY <1>2 DEF ThreadsOwnCalls, TypeOK
  <2>2. \A u \in Threads \ {t} : tcall'[u] # None => ~HandedOver(tcall[u])' /\ ~Pending(tcall[u])'
    BY <1>1, <1>4, <1>5, <2>1 DEF ThreadsOwnCalls
  <2> QED
    BY <1>1, <2>1, <2>2 DEF ThreadsOwnCalls
<1>7. QueuedOnce' /\ SentOnce'
  <2>1. ~InQueue(c) /\ \A k \in Conns : c \notin atBrt[k]
    BY <1>2 DEF Pending
  <2>2. QueuedOnce'
    BY <1>1, <1>4, <1>5, <2>1 DEF QueuedOnce
  <2>3. SentOnce'
    BY <1>1, <1>4, <1>5, <2>1 DEF SentOnce, TypeOK
  <2> QED
    BY <2>2, <2>3
<1>8. HandlersOwnCalls'
  <2>1. \A k \in Conns : hcall[k] # c
    BY <1>2 DEF Pending
  <2> QED
    BY <1>1, <1>4, <2>1 DEF HandlersOwnCalls, TypeOK
<1>9. LinesOwed'
  <2>1. \A u, v \in Tasks : hold'[u] # None /\ hold'[u] = hold'[v] => u = v
    BY <1>2, <1>4 DEF LinesOwed, HandedOver
  <2>2. NoDoubleCharge'
    BY <1>1, <1>2, <1>4 DEF LinesOwed, NoDoubleCharge, HandedOver
  <2>3. \A d \in Calls : HandedOver(d)' => d \in taken'
    BY <1>1, <1>2, <1>4 DEF LinesOwed
  <2> QED
    BY <1>4, <2>1, <2>2, <2>3 DEF LinesOwed
<1>10. PendingCallsCached'
  BY <1>1, <1>5 DEF PendingCallsCached
<1> QED
  BY <1>6, <1>7, <1>8, <1>9, <1>10

-----------------------------------------------------------------------------
(* The steps of senders and handlers.                                           *)
LEMMA SendMessageKeeps ==
    ASSUME IInv, TypeOK', NEW s \in Senders, SendMessage(s)
    PROVE  IInv'
<1> USE DEF IInv, writerVars, handlerVars, threadVars, brtVars
<1> DEFINE h == Head(queue)
<1>1. /\ Len(queue) \in Nat \ {0} /\ h = queue[1] /\ h \in Calls
      /\ Len(queue') = Len(queue) - 1
      /\ \A i \in 1 .. Len(queue') : queue'[i] = queue[i + 1]
  BY DEF SendMessage, TypeOK
<1>2. /\ UNCHANGED <<wpc, hold, file, dropped, hpc, hcall, tpc, tcall, taken, cache,
                     atEnd, verdict>>
      /\ \A k \in Conns : \/ atBrt'[k] = atBrt[k]
                          \/ k = sconn[s] /\ atBrt'[k] = atBrt[k] \cup {h}
  BY DEF SendMessage, TypeOK
<1>3. \A i, j \in 1 .. Len(queue') : queue'[i] = queue'[j] => i = j
  <2>1. \A i \in 1 .. Len(queue') : i + 1 \in 1 .. Len(queue)
    BY <1>1
  <2> QED
    BY <1>1, <2>1 DEF QueuedOnce
<1>4. \A d \in Calls : InQueue(d)' => InQueue(d) /\ d # h
  <2>1. \A i \in 1 .. Len(queue') : i + 1 \in 1 .. Len(queue) /\ i + 1 # 1
    BY <1>1
  <2>2. 1 \in 1 .. Len(queue)
    BY <1>1
  <2> QED
    BY <1>1, <2>1, <2>2 DEF InQueue, QueuedOnce
<1>5. InQueue(h)
  BY <1>1 DEF InQueue
<1>6. /\ verdict[h] = "none" /\ ~HandedOver(h)
      /\ \A k \in Conns : h \notin atBrt[k]
  BY <1>1, <1>5 DEF QueuedOnce
<1>7. \A d \in Calls : /\ Pending(d)' => Pending(d)
                       /\ HandedOver(d)' <=> HandedOver(d)
                       /\ Recorded(d)' <=> Recorded(d)
  BY <1>2, <1>4, <1>5 DEF Pending, HandedOver, Recorded
<1>8. ThreadsOwnCalls'
  BY <1>2, <1>7 DEF ThreadsOwnCalls, TypeOK
<1>9. QueuedOnce'
  BY <1>2, <1>3, <1>4, <1>7 DEF QueuedOnce
<1>10. SentOnce'
  <2>1. \A k \in Conns : \A d \in atBrt'[k] : /\ verdict[d] = "none" /\ d \in Calls
                                             /\ ~HandedOver(d)
                                             /\ \A j \in Conns : d \in atBrt'[j] => j = k
    BY <1>1, <1>2, <1>6 DEF SentOnce, TypeOK
  <2> QED
    BY <1>2, <1>7, <2>1 DEF SentOnce
<1>11. HandlersOwnCalls'
  BY <1>2, <1>7 DEF HandlersOwnCalls, TypeOK
<1>12. LinesOwed' /\ PendingCallsCached'
  BY <1>2, <1>7 DEF LinesOwed, NoDoubleCharge, PendingCallsCached
<1> QED
  BY <1>8, <1>9, <1>10, <1>11, <1>12

LEMMA ReadEofKeeps ==
    ASSUME IInv, TypeOK', NEW k \in Conns, ReadEof(k)
    PROVE  IInv'
<1> USE DEF IInv, HandlerAt, writerVars, threadVars
<1>1. /\ UNCHANGED <<wpc, hold, file, dropped, hcall, tpc, tcall, taken, cache, queue, verdict>>
      /\ hpc[k] = "read" /\ hpc'[k] = "unlist"
      /\ \A j \in Conns \ {k} : hpc'[j] = hpc[j]
      /\ \A j \in Conns : atBrt'[j] \subseteq atBrt[j] /\ atEnd'[j] \subseteq atEnd[j]
  BY DEF ReadEof, TypeOK
<1>2. \A d \in Calls : /\ InQueue(d)' <=> InQueue(d)
                       /\ HandedOver(d)' <=> HandedOver(d)
                       /\ Recorded(d)' <=> Recorded(d)
  BY <1>1 DEF InQueue, HandedOver, Recorded
<1>3. \A d \in Calls : Pending(d)' => Pending(d)
  BY <1>1, <1>2 DEF Pending
<1>4. ThreadsOwnCalls'
  BY <1>1, <1>2, <1>3 DEF ThreadsOwnCalls, TypeOK
<1>5. QueuedOnce'
  BY <1>1, <1>2 DEF QueuedOnce
<1>6. SentOnce'
  <2>1. \A j \in Conns : atBrt[j] \subseteq Calls /\ atEnd[j] \subseteq Calls
    BY DEF TypeOK
  <2> QED
    BY <1>1, <1>2, <1>3, <2>1 DEF SentOnce
<1>7. HandlersOwnCalls'
  BY <1>1, <1>2 DEF HandlersOwnCalls, TypeOK
<1>8. LinesOwed'
  BY <1>1, <1>2 DEF LinesOwed, NoDoubleCharge
<1>9. PendingCallsCached'
  BY <1>1, <1>3 DEF PendingCallsCached
<1> QED
  BY <1>4, <1>5, <1>6, <1>7, <1>8, <1>9

LEMMA ReadRefusalKeeps ==
    ASSUME IInv, TypeOK', NEW k \in Conns, NEW c \in Calls, ReadRefusal(k, c)
    PROVE  IInv'
<1> USE DEF IInv, HandlerAt, writerVars, threadVars
<1>1. /\ UNCHANGED <<wpc, hold, file, dropped, tpc, tcall, taken, cache, queue, atEnd>>
      /\ hpc[k] = "read" /\ hpc'[k] = "load" /\ hcall'[k] = c
      /\ \A j \in Conns \ {k} : hpc'[j] = hpc[j] /\ hcall'[j] = hcall[j]
      /\ c \in atBrt[k] /\ c \notin atBrt'[k]
      /\ \A j \in Conns : atBrt'[j] \subseteq atBrt[j]
      /\ verdict'[c] = "offline" /\ \A d \in Calls \ {c} : verdict'[d] = verdict[d]
  BY DEF ReadRefusal, TypeOK
<1>2. \A d \in Calls : /\ InQueue(d)' <=> InQueue(d)
                       /\ HandedOver(d)' <=> HandedOver(d)
                       /\ Recorded(d)' <=> Recorded(d)
  BY <1>1 DEF InQueue, HandedOver, Recorded
<1>3. /\ verdict[c] = "none" /\ ~HandedOver(c) /\ Pending(c)
      /\ ~InQueue(c)
      /\ \A j \in Conns : c \notin atEnd[j] /\ c \notin atBrt'[j]
  BY <1>1 DEF SentOnce, QueuedOnce, Pending
<1>4. hcall[k] = None /\ \A j \in Conns : hcall[j] # c
  BY <1>1, <1>3 DEF HandlersOwnCalls
<1>5. \A d \in Calls : Pending(d)' => Pending(d)
  <2>1. ASSUME NEW d \in Calls, Pending(d)', d # c PROVE Pending(d)
    BY <1>1, <1>2, <2>1 DEF Pending
  <2> QED
    BY <1>3, <2>1
<1>6. ThreadsOwnCalls'
  <2>1. \A t \in Threads : tcall[t] # c
    BY <1>3 DEF ThreadsOwnCalls
  <2> QED
    BY <1>1, <1>2, <1>5, <2>1 DEF ThreadsOwnCalls, TypeOK
<1>7. QueuedOnce'
  BY <1>1, <1>2, <1>3 DEF QueuedOnce
<1>8. SentOnce'
  <2>1. \A j \in Conns : atBrt[j] \subseteq Calls /\ atEnd[j] \subseteq Calls
    BY DEF TypeOK
  <2>2. \A d \in Calls : Pending(d)' \/ verdict'[d] # "none" => d \in taken'
    BY <1>1, <1>3, <1>5 DEF SentOnce
  <2> QED
    BY <1>1, <1>2, <1>3, <2>1, <2>2 DEF SentOnce
<1>9. HandlersOwnCalls'
  <2>1. \A j \in Conns \ {k} : hcall[j] # None => hcall[j] \in Calls \ {c}
    BY <1>4 DEF TypeOK
  <2>2. \A j \in Conns \ {k} : hpc'[j] \in {"load", "send"} =>
            verdict'[hcall'[j]] = "offline" /\ ~HandedOver(hcall[j])'
    BY <1>1, <1>2, <2>1 DEF HandlersOwnCalls
  <2>3. verdict'[hcall'[k]] = "offline" /\ ~HandedOver(hcall[k])'
    BY <1>1, <1>2, <1>3
  <2>4. \A j \in Conns \ {k} : hcall'[j] # None => verdict'[hcall'[j]] # "none"
    BY <1>1, <2>1 DEF HandlersOwnCalls
  <2>5. \A i, j \in Conns : hcall'[i] # None /\ hcall'[i] = hcall'[j] => i = j
    BY <1>1, <2>1 DEF HandlersOwnCalls
  <2> QED
    BY <1>1, <2>2, <2>3, <2>4, <2>5 DEF HandlersOwnCalls
<1>10. LinesOwed'
  BY <1>1, <1>2 DEF LinesOwed, NoDoubleCharge
<1>11. PendingCallsCached'
  BY <1>1, <1>5 DEF PendingCallsCached
<1> QED
  BY <1>6, <1>7, <1>8, <1>9, <1>10, <1>11

LEMMA ReadConfirmKeeps ==
    ASSUME IInv, TypeOK', NEW k \in Conns, NEW c \in Calls, ReadConfirm(k, c)
    PROVE  IInv'
<1> USE DEF IInv, writerVars, handlerVars, threadVars
<1>1. /\ UNCHANGED <<wpc, hold, file, dropped, tpc, tcall, taken, cache, queue, hpc, hcall>>
      /\ c \in atBrt[k] /\ c \notin atBrt'[k]
      /\ \A j \in Conns : atBrt'[j] \subseteq atBrt[j]
      /\ verdict'[c] = "charged" /\ \A d \in Calls \ {c} : verdict'[d] = verdict[d]
      /\ \A j \in Conns : \/ atEnd'[j] = atEnd[j]
                          \/ j = k /\ atEnd'[j] = atEnd[j] \cup {c}
  BY DEF ReadConfirm, TypeOK
<1>2. \A d \in Calls : /\ InQueue(d)' <=> InQueue(d)
                       /\ HandedOver(d)' <=> HandedOver(d)
                       /\ Recorded(d)' <=> Recorded(d)
  BY <1>1 DEF InQueue, HandedOver, Recorded
<1>3. /\ verdict[c] = "none" /\ ~HandedOver(c) /\ Pending(c)
      /\ ~InQueue(c)
      /\ \A j \in Conns : c \notin atEnd[j] /\ c \notin atBrt'[j]
  BY <1>1 DEF SentOnce, QueuedOnce, Pending
<1>4. \A j \in Conns : hcall[j] # c
  BY <1>3 DEF HandlersOwnCalls
<1>5. \A d \in Calls : Pending(d)' => Pending(d)
  <2>1. ASSUME NEW d \in Calls, Pending(d)', d # c PROVE Pending(d)
    BY <1>1, <1>2, <2>1 DEF Pending
  <2> QED
    BY <1>3, <2>1
<1>6. ThreadsOwnCalls'
  <2>1. \A t \in Threads : tcall[t] # c
    BY <1>3 DEF ThreadsOwnCalls
  <2> QED
    BY <1>1, <1>2, <1>5, <2>1 DEF ThreadsOwnCalls, TypeOK
<1>7. QueuedOnce'
  BY <1>1, <1>2, <1>3 DEF QueuedOnce
<1>8. SentOnce'
  <2>1. \A j \in Conns : atBrt[j] \subseteq Calls /\ atEnd[j] \subseteq Calls
    BY DEF TypeOK
  <2>2. \A d \in Calls : Pending(d)' \/ verdict'[d] # "none" => d \in taken'
    BY <1>1, <1>3, <1>5 DEF SentOnce
  <2>3. \A j \in Conns : \A d \in atBrt'[j] : /\ verdict'[d] = "none"
                                             /\ ~HandedOver(d)'
                                             /\ \A i \in Conns : d \in atBrt'[i] => i = j
    BY <1>1, <1>2, <1>3, <2>1 DEF SentOnce
  <2>4. \A j \in Conns : \A d \in atEnd'[j] : /\ verdict'[d] = "charged"
                                             /\ \A i \in Conns : d \in atEnd'[i] => i = j
                                             /\ \A h \in Conns : hcall'[h] # d
    BY <1>1, <1>3, <1>4, <2>1 DEF SentOnce
  <2> QED
    BY <2>2, <2>3, <2>4 DEF SentOnce
<1>9. HandlersOwnCalls'
  BY <1>1, <1>2, <1>3, <1>4 DEF HandlersOwnCalls, TypeOK
<1>10. LinesOwed'
  BY <1>1, <1>2, <1>3 DEF LinesOwed, NoDoubleCharge
<1>11. PendingCallsCached'
  BY <1>1, <1>5 DEF PendingCallsCached
<1> QED
  BY <1>6, <1>7, <1>8, <1>9, <1>10, <1>11

LEMMA ReadEndKeeps ==
    ASSUME IInv, TypeOK', NEW k \in Conns, NEW c \in Calls, ReadEnd(k, c)
    PROVE  IInv'
<1> USE DEF IInv, HandlerAt, writerVars, threadVars
<1>1. /\ UNCHANGED <<wpc, hold, file, dropped, tpc, tcall, taken, cache, queue, atBrt, verdict>>
      /\ hpc[k] = "read" /\ hpc'[k] = "delete" /\ hcall'[k] = c
      /\ \A j \in Conns \ {k} : hpc'[j] = hpc[j] /\ hcall'[j] = hcall[j]
      /\ c \in atEnd[k] /\ c \notin atEnd'[k]
      /\ \A j \in Conns : atEnd'[j] \subseteq atEnd[j]
  BY DEF ReadEnd, TypeOK
<1>2. \A d \in Calls : /\ InQueue(d)' <=> InQueue(d)
                       /\ HandedOver(d)' <=> HandedOver(d)
                       /\ Recorded(d)' <=> Recorded(d)
  BY <1>1 DEF InQueue, HandedOver, Recorded
<1>3. /\ verdict[c] = "charged" /\ Pending(c)
      /\ \A j \in Conns : hcall[j] # c /\ c \notin atEnd'[j]
  BY <1>1 DEF SentOnce, Pending
<1>4. hcall[k] = None
  BY <1>1 DEF HandlersOwnCalls
<1>5. \A d \in Calls : Pending(d)' => Pending(d)
  <2>1. ASSUME NEW d \in Calls, Pending(d)', d # c PROVE Pending(d)
    BY <1>1, <1>2, <2>1 DEF Pending
  <2> QED
    BY <1>3, <2>1
<1>6. ThreadsOwnCalls'
  BY <1>1, <1>2, <1>5 DEF ThreadsOwnCalls, TypeOK
<1>7. QueuedOnce'
  BY <1>1, <1>2 DEF QueuedOnce
<1>8. SentOnce'
  <2>1. \A j \in Conns : atBrt[j] \subseteq Calls /\ atEnd[j] \subseteq Calls
    BY DEF TypeOK
  <2> QED
    BY <1>1, <1>2, <1>3, <1>5, <2>1 DEF SentOnce
<1>9. HandlersOwnCalls'
  <2>1. \A j \in Conns \ {k} : hcall[j] # None => hcall[j] \in Calls \ {c}
    BY <1>3 DEF TypeOK
  <2>2. \A j \in Conns \ {k} : hpc'[j] \in {"load", "send"} =>
            verdict'[hcall'[j]] = "offline" /\ ~HandedOver(hcall[j])'
    BY <1>1, <1>2, <2>1 DEF HandlersOwnCalls
  <2>3. verdict'[hcall'[k]] # "none"
    BY <1>1, <1>3
  <2>4. \A j \in Conns \ {k} : hcall'[j] # None => verdict'[hcall'[j]] # "none"
    BY <1>1, <2>1 DEF HandlersOwnCalls
  <2>5. \A i, j \in Conns : hcall'[i] # None /\ hcall'[i] = hcall'[j] => i = j
    BY <1>1, <2>1 DEF HandlersOwnCalls
  <2> QED
    BY <1>1, <2>2, <2>3, <2>4, <2>5 DEF HandlersOwnCalls
<1>10. LinesOwed'
  BY <1>1, <1>2 DEF LinesOwed, NoDoubleCharge
<1>11. PendingCallsCached'
  BY <1>1, <1>5 DEF PendingCallsCached
<1> QED
  BY <1>6, <1>7, <1>8, <1>9, <1>10, <1>11

LEMMA LoadCallKeeps ==
    ASSUME IInv, TypeOK', NEW k \in Conns, LoadCall(k)
    PROVE  IInv'
<1> USE DEF IInv, writerVars, threadVars, brtVars
<1>1. hcall[k] \in Calls /\ hcall[k] \in cache
  BY DEF LoadCall, HandlersOwnCalls, PendingCallsCached, Pending, TypeOK
<1>2. /\ UNCHANGED <<wpc, hold, file, dropped, hcall, tpc, tcall, taken, cache, queue,
                     atBrt, atEnd, verdict>>
      /\ hpc[k] = "load" /\ hpc'[k] = "send"
      /\ \A j \in Conns \ {k} : hpc'[j] = hpc[j]
  BY <1>1 DEF LoadCall, TypeOK
<1>3. \A d \in Calls : /\ InQueue(d)' <=> InQueue(d)
                       /\ Pending(d)' <=> Pending(d)
                       /\ HandedOver(d)' <=> HandedOver(d)
                       /\ Recorded(d)' <=> Recorded(d)
  BY <1>2 DEF InQueue, Pending, HandedOver, Recorded
<1>4. ThreadsOwnCalls'
  BY <1>2, <1>3 DEF ThreadsOwnCalls, TypeOK
<1>5. QueuedOnce' /\ SentOnce'
  BY <1>2, <1>3 DEF QueuedOnce, SentOnce, TypeOK
<1>6. HandlersOwnCalls'
  BY <1>2, <1>3 DEF HandlersOwnCalls, TypeOK
<1>7. LinesOwed' /\ PendingCallsCached'
  BY <1>2, <1>3 DEF LinesOwed, NoDoubleCharge, PendingCallsCached
<1> QED
  BY <1>4, <1>5, <1>6, <1>7

LEMMA SendCdrKeeps ==
    ASSUME IInv, TypeOK', NEW k \in Conns, SendCdr(k)
    PROVE  IInv'
<1> USE DEF IInv, HandlerAt, threadVars, brtVars
<1> DEFINE c == hcall[k]
<1>1. /\ UNCHANGED <<hcall, tpc, tcall, taken, cache, queue, atBrt, atEnd, verdict>>
      /\ hpc[k] = "send" /\ hpc'[k] = "delete"
      /\ \A j \in Conns \ {k} : hpc'[j] = hpc[j]
  BY DEF SendCdr, TypeOK
<1>2. /\ c \in Calls /\ verdict[c] = "offline" /\ ~HandedOver(c) /\ Pending(c)
      /\ \A j \in Conns : hcall[j] = c => j = k
  BY <1>1 DEF HandlersOwnCalls, Pending, TypeOK
<1>3. PICK w \in Tasks : Receive(w, c)
  BY <1>2 DEF SendCdr
<1>4. /\ \A d \in Calls : /\ Recorded(d)' <=> Recorded(d)
                          /\ HandedOver(d)' <=> HandedOver(d) \/ d = c
      /\ \A u \in Tasks : hold'[u] # None <=> wpc'[u] = "write"
      /\ \A u \in Tasks : hold'[u] = IF u = w THEN c ELSE hold[u]
      /\ UNCHANGED <<file, dropped>>
  BY <1>2, <1>3, ReceiveLines
<1>5. \A d \in Calls : (InQueue(d)' <=> InQueue(d)) /\ (Pending(d)' <=> Pending(d))
  BY <1>1 DEF InQueue, Pending
<1>6. ThreadsOwnCalls'
  <2>1. \A u \in Threads : tcall[u] # None => /\ tcall[u] \in Calls /\ tcall[u] # c
                                            /\ ~HandedOver(tcall[u])
    BY <1>2 DEF ThreadsOwnCalls, TypeOK
  <2>2. \A u \in Threads : tcall'[u] # None => ~HandedOver(tcall[u])' /\ ~Pending(tcall[u])'
    BY <1>1, <1>4, <1>5, <2>1 DEF ThreadsOwnCalls
  <2> QED
    BY <1>1, <2>1, <2>2 DEF ThreadsOwnCalls
<1>7. QueuedOnce' /\ SentOnce'
  <2>1. ~InQueue(c) /\ \A j \in Conns : c \notin atBrt[j]
    BY <1>2 DEF QueuedOnce, SentOnce
  <2>2. QueuedOnce'
    BY <1>1, <1>4, <1>5, <2>1 DEF QueuedOnce
  <2>3. SentOnce'
    BY <1>1, <1>4, <1>5, <2>1 DEF SentOnce, TypeOK
  <2> QED
    BY <2>2, <2>3
<1>8. HandlersOwnCalls'
  BY <1>1, <1>2, <1>4 DEF HandlersOwnCalls, TypeOK
<1>9. LinesOwed'
  <2>1. \A u, v \in Tasks : hold'[u] # None /\ hold'[u] = hold'[v] => u = v
    BY <1>2, <1>4 DEF LinesOwed, HandedOver
  <2>2. NoDoubleCharge'
    BY <1>1, <1>2, <1>4 DEF LinesOwed, NoDoubleCharge, HandedOver
  <2>3. \A d \in Calls : HandedOver(d)' => d \in taken'
    BY <1>1, <1>2, <1>4 DEF LinesOwed, SentOnce
  <2> QED
    BY <1>4, <2>1, <2>2, <2>3 DEF LinesOwed
<1>10. PendingCallsCached'
  BY <1>1, <1>5 DEF PendingCallsCached
<1> QED
  BY <1>6, <1>7, <1>8, <1>9, <1>10

LEMMA DeleteCallKeeps ==
    ASSUME IInv, TypeOK', NEW k \in Conns, DeleteCall(k)
    PROVE  IInv'
<1> USE DEF IInv, HandlerAt, writerVars, threadVars, brtVars
<1> DEFINE c == hcall[k]
<1>1. /\ UNCHANGED <<wpc, hold, file, dropped, tpc, tcall, taken, queue, atBrt, atEnd, verdict>>
      /\ hpc[k] = "delete" /\ hpc'[k] = "read" /\ hcall'[k] = None
      /\ \A j \in Conns \ {k} : hpc'[j] = hpc[j] /\ hcall'[j] = hcall[j]
      /\ cache' = cache \ {c}
  BY DEF DeleteCall, TypeOK
<1>2. \A d \in Calls : /\ InQueue(d)' <=> InQueue(d)
                       /\ HandedOver(d)' <=> HandedOver(d)
                       /\ Recorded(d)' <=> Recorded(d)
  BY <1>1 DEF InQueue, HandedOver, Recorded
<1>3. /\ c \in Calls /\ verdict[c] # "none" /\ Pending(c)
      /\ \A j \in Conns : hcall[j] = c => j = k
  BY <1>1 DEF HandlersOwnCalls, Pending, TypeOK
<1>4. ~InQueue(c) /\ \A j \in Conns : c \notin atBrt[j] /\ c \notin atEnd[j]
  BY <1>3 DEF QueuedOnce, SentOnce
<1>5. \A d \in Calls : Pending(d)' => Pending(d) /\ d # c
  <2>1. \A d \in Calls : d = c => ~Pending(d)'
    BY <1>1, <1>2, <1>3, <1>4 DEF Pending
  <2>2. ASSUME NEW d \in Calls, Pending(d)' PROVE Pending(d)
    BY <1>1, <1>2, <2>2 DEF Pending
  <2> QED
    BY <2>1, <2>2
<1>6. ThreadsOwnCalls'
  <2>1. \A u \in Threads : tcall[u] # None => tcall[u] # c
    BY <1>3 DEF ThreadsOwnCalls
  <2> QED
    BY <1>1, <1>2, <1>5, <2>1 DEF ThreadsOwnCalls, TypeOK
<1>7. QueuedOnce'
  BY <1>1, <1>2 DEF QueuedOnce
<1>8. SentOnce'
  <2>1. \A j \in Conns : atBrt[j] \subseteq Calls /\ atEnd[j] \subseteq Calls
    BY DEF TypeOK
  <2> QED
    BY <1>1, <1>2, <1>5, <2>1 DEF SentOnce
<1>9. HandlersOwnCalls'
  <2>1. \A j \in Conns \ {k} : hcall[j] # None => hcall[j] \in Calls
    BY DEF TypeOK
  <2>2. \A j \in Conns \ {k} : hpc'[j] \in {"load", "send"} =>
            verdict'[hcall'[j]] = "offline" /\ ~HandedOver(hcall[j])'
    BY <1>1, <1>2, <2>1 DEF HandlersOwnCalls
  <2> QED
    BY <1>1, <2>1, <2>2 DEF HandlersOwnCalls
<1>10. LinesOwed'
  BY <1>1, <1>2 DEF LinesOwed, NoDoubleCharge
<1>11. PendingCallsCached'
  BY <1>1, <1>5 DEF PendingCallsCached
<1> QED
  BY <1>6, <1>7, <1>8, <1>9, <1>10, <1>11

(* The writers.                                                                 *)
LEMMA WriterKeeps ==
    ASSUME IInv, TypeOK', NEW w \in Tasks, Writer(w)
    PROVE  IInv'
<1> USE DEF IInv, Writer, WriterFrame, camelVars, handlerVars, threadVars, brtVars
<1>1. UNCHANGED <<hpc, hcall, tpc, tcall, taken, cache, queue, atBrt, atEnd, verdict>>
  OBVIOUS
<1>2. \A d \in Calls : (InQueue(d)' <=> InQueue(d)) /\ (Pending(d)' <=> Pending(d))
  BY <1>1 DEF InQueue, Pending
<1>3. (\A d \in Calls : HandedOver(d)' => HandedOver(d)) /\ LinesOwed'
  <2>1. CASE WriteLine(w)
    <3> DEFINE c == hold[w]
    <3>1. /\ c \in Calls /\ ~Recorded(c) /\ hold'[w] = None /\ wpc'[w] = "select"
          /\ \A u \in Tasks \ {w} : hold'[u] = hold[u] /\ wpc'[u] = wpc[u] /\ hold[u] # c
      BY <2>1 DEF LinesOwed, NoDoubleCharge, WriteLine, WriterAt, TypeOK, WriterTypeOK
    <3>2. /\ file'[c] <= 1
          /\ \A d \in Calls \ {c} : file'[d] = file[d] /\ (d \in dropped' <=> d \in dropped)
      BY <2>1, <3>1 DEF LinesOwed, NoDoubleCharge, WriteLine, Recorded, TypeOK, WriterTypeOK
    <3>3. \A d \in Calls \ {c} : Recorded(d)' <=> Recorded(d)
      BY <3>2 DEF Recorded
    <3>4. \A d \in Calls : HandedOver(d)' => HandedOver(d)
      BY <3>1, <3>3 DEF HandedOver
    <3>5. NoDoubleCharge'
      <4>1. \A d \in Calls : HandedOver(d)' => verdict'[d] # "charged"
        BY <1>1, <3>4 DEF LinesOwed, NoDoubleCharge
      <4>2. \A d \in Calls : file'[d] <= 1
        BY <3>2 DEF LinesOwed, NoDoubleCharge
      <4>3. \A d \in Calls : \A u \in Tasks : hold'[u] = d => ~Recorded(d)'
        BY <3>1, <3>3 DEF LinesOwed, NoDoubleCharge
      <4> QED
        BY <4>1, <4>2, <4>3 DEF NoDoubleCharge
    <3> QED
      BY <1>1, <3>1, <3>4, <3>5 DEF LinesOwed
  <2>2. CASE ~WriteLine(w)
    <3>1. /\ UNCHANGED <<hold, file, dropped>>
          /\ \A u \in Tasks : wpc'[u] = "write" <=> wpc[u] = "write"
      BY <2>2 DEF TypeOK, WriterTypeOK, WriterStep, WriterProgress, OpenFirst, Rotate,
         AwaitLine, CreateFile, PermissionError, NilFilePanic, WriterAt
    <3>2. \A d \in Calls : (HandedOver(d)' <=> HandedOver(d)) /\ (Recorded(d)' <=> Recorded(d))
      BY <3>1 DEF HandedOver, Recorded
    <3> QED
      BY <1>1, <3>1, <3>2 DEF LinesOwed, NoDoubleCharge
  <2> QED
    BY <2>1, <2>2
<1>4. ThreadsOwnCalls'
  BY <1>1, <1>2, <1>3 DEF ThreadsOwnCalls, TypeOK
<1>5. QueuedOnce'
  BY <1>1, <1>2, <1>3 DEF QueuedOnce
<1>6. SentOnce'
  BY <1>1, <1>2, <1>3 DEF SentOnce, TypeOK
<1>7. HandlersOwnCalls'
  <2>1. \A k \in Conns : /\ hpc'[k] \in {"load", "send"} => hcall'[k] \in Calls /\ ~HandedOver(hcall[k])'
    BY <1>1, <1>3 DEF HandlersOwnCalls, TypeOK
  <2> QED
    BY <1>1, <2>1 DEF HandlersOwnCalls
<1>8. PendingCallsCached'
  BY <1>1, <1>2 DEF PendingCallsCached
<1> QED
  BY <1>3, <1>4, <1>5, <1>6, <1>7, <1>8

-----------------------------------------------------------------------------
LEMMA IInvInit == Init => IInv
<1> SUFFICES ASSUME Init PROVE IInv
  OBVIOUS
<1>1. WriterTypeOK
  BY DEF Init, WriterInit, WriterTypeOK
<1>2. TypeOK
  BY <1>1 DEF Init, TypeOK
<1>3. /\ \A c \in Calls : ~InQueue(c) /\ ~HandedOver(c) /\ ~Pending(c)
      /\ Len(queue) = 0
  BY DEF Init, WriterInit, InQueue, HandedOver, Recorded, Pending
<1>4. ThreadsOwnCalls /\ QueuedOnce /\ SentOnce /\ HandlersOwnCalls
  BY <1>3 DEF Init, ThreadsOwnCalls, QueuedOnce, SentOnce, HandlersOwnCalls
<1>5. LinesOwed /\ PendingCallsCached
  BY <1>3 DEF Init, WriterInit, LinesOwed, NoDoubleCharge, PendingCallsCached
<1> QED
  BY <1>2, <1>4, <1>5 DEF IInv

(* The steps that move no call, by FrameKeeps.                                  *)
LEMMA QuietKeeps ==
    ASSUME IInv, TypeOK', NEW k \in Conns,
           \/ Accept(k) \/ BreakLink(k) \/ ReadStartup(k) \/ SaveBRTId(k)
           \/ \E s \in Senders : StartSender(k, s)
           \/ ReadShutdown(k) \/ HandlerUnlists(k) \/ HandlerStops(k)
    PROVE  IInv'
<1>1. UNCHANGED <<wpc, hold, file, dropped, hcall, threadVars, cache, queue, brtVars>>
  BY DEF Accept, BreakLink, ReadStartup, SaveBRTId, StartSender, ReadShutdown,
     HandlerUnlists, HandlerStops, writerVars, handlerVars
<1>2. hpc \in [Conns -> HandlerPcs]
  BY DEF IInv, TypeOK
<1>3. \A j \in Conns : hpc'[j] = hpc[j] \/ (hpc[j] \notin Busy /\ hpc'[j] \notin Busy)
  <2>1. CASE BreakLink(k)
    BY <2>1 DEF BreakLink, handlerVars
  <2>2. CASE ~BreakLink(k)
    <3>1. PICK from \in HandlerPcs \ Busy, to \in HandlerPcs \ Busy : HandlerAt(k, from, to)
      BY <2>2 DEF Accept, ReadStartup, SaveBRTId, StartSender, ReadShutdown,
         HandlerUnlists, HandlerStops, HandlerPcs, Busy, HandlerAt
    <3> QED
      BY <1>2, <3>1 DEF HandlerAt
  <2> QED
    BY <2>1, <2>2
<1> QED
  BY <1>1, <1>3, FrameKeeps

LEMMA IInvStep == IInv /\ [Next]_vars => IInv'
<1> SUFFICES ASSUME IInv, [Next]_vars PROVE IInv'
  OBVIOUS
<1>1. TypeOK'
  BY TypeStep
<1>2. CASE UNCHANGED vars
  BY <1>1, <1>2, FrameKeeps DEF vars, writerVars, camelVars, handlerVars, threadVars,
     brtVars
<1>3. ASSUME NEW k \in Conns, Accept(k) \/ BreakLink(k) PROVE IInv'
  BY <1>1, <1>3, QuietKeeps
<1>4. ASSUME NEW k \in Conns, HandlerStep(k) PROVE IInv'
  BY <1>1, <1>4, QuietKeeps, ReadRefusalKeeps, ReadConfirmKeeps, ReadEndKeeps,
     LoadCallKeeps, SendCdrKeeps, DeleteCallKeeps, ReadEofKeeps DEF HandlerStep
<1>5. ASSUME NEW s \in Senders, SenderStep(s) PROVE IInv'
  <2>1. CASE SenderUnlists(s) \/ SenderStops(s)
    BY <1>1, <2>1, FrameKeeps DEF SenderUnlists, SenderStops, writerVars, handlerVars,
       threadVars, brtVars
  <2> QED
    BY <1>1, <1>5, <2>1, SendMessageKeeps DEF SenderStep
<1>6. ASSUME NEW t \in Threads, ThreadStep(t) PROVE IInv'
  BY <1>1, <1>6, TakeCallKeeps, RouteCallKeeps, SendDiameterKeeps, StoreCallKeeps,
     EnqueueMessageKeeps, DirectCdrKeeps DEF ThreadStep
<1>7. ASSUME NEW t \in Tasks, Writer(t) PROVE IInv'
  BY <1>1, <1>7, WriterKeeps
<1>8. CASE MapRace \/ EndStep
  BY <1>1, <1>8, FrameKeeps DEF MapRace, EndStep, CancelContext, StopServer, Exit,
     writerVars, camelVars, handlerVars, threadVars, brtVars
<1> QED
  BY <1>2, <1>3, <1>4, <1>5, <1>6, <1>7, <1>8 DEF Next

(* Every variable of the CAMEL side keeps to its type, whatever the BRTs do.    *)
THEOREM TypeCorrect == Spec => []TypeOK
<1>1. IInv => TypeOK
  BY DEF IInv
<1> QED
  BY <1>1, IInvInit, IInvStep, PTL DEF Spec

(* A session that is queued, at a BRT or answered is in the cache, and no       *)
(* handler blocks on the channel of no task (CamelResponse, CreateCamelMessage).*)
THEOREM CacheCorrect == Spec => []PendingCallsCached
<1>1. IInv => PendingCallsCached
  BY DEF IInv
<1> QED
  BY <1>1, IInvInit, IInvStep, PTL DEF Spec

(* No call is both charged online and written to a file, and none is written    *)
(* twice, with any number of BRTs, senders and threads.                         *)
THEOREM ChargedOnce == Spec => []NoDoubleCharge
<1>1. IInv => NoDoubleCharge
  BY DEF IInv, LinesOwed
<1> QED
  BY <1>1, IInvInit, IInvStep, PTL DEF Spec

-----------------------------------------------------------------------------
(* The map of listeners, when no address is used by two connections.            *)
OwnAddresses == \A k, j \in Conns : AddrOf[k] = AddrOf[j] => k = j

LEMMA ListInit == Init => ListInv
BY DEF Init, ListInv, ListMatchesHandlers, SendersInitialised

LEMMA ListAccept ==
    ASSUME OwnAddresses, IInv, ListInv, NEW k \in Conns, Accept(k)
    PROVE  ListInv'
<1>1. /\ UNCHANGED <<brtId, startups, spc, sconn, ctxDone>>
      /\ link[k] = "none" /\ hpc[k] = "none"
      /\ link'[k] = "open" /\ hpc'[k] = "read" /\ list'[AddrOf[k]] = k
      /\ \A j \in Conns \ {k} : /\ link'[j] = link[j] /\ hpc'[j] = hpc[j]
                               /\ list'[AddrOf[j]] = list[AddrOf[j]]
  BY DEF Accept, HandlerAt, senderVars, processVars, OwnAddresses, IInv, TypeOK
<1> QED
  BY <1>1 DEF ListInv, ListMatchesHandlers, SendersInitialised

LEMMA ListHandler ==
    ASSUME OwnAddresses, IInv, ListInv, TypeOK', NEW k \in Conns, HandlerStep(k)
    PROVE  ListInv'
<1> USE DEF HandlerAt, serverVars, handlerVars, senderVars, processVars
<1>1. CASE ReadStartup(k)
  <2>1. /\ UNCHANGED <<link, list, brtId, spc, sconn, ctxDone>>
        /\ hpc[k] = "read" /\ hpc'[k] = "startup" /\ startups'[k] > 0
        /\ link[k] = "open"
        /\ \A j \in Conns \ {k} : hpc'[j] = hpc[j] /\ startups'[j] = startups[j]
        /\ startups[k] \in Nat
    BY <1>1 DEF ReadStartup, IInv, TypeOK
  <2> QED
    BY <2>1 DEF ListInv, ListMatchesHandlers, SendersInitialised
<1>2. CASE SaveBRTId(k)
  <2>1. hpc[k] = "startup" /\ list[AddrOf[k]] = k
    BY <1>2 DEF SaveBRTId, ListInv
  <2>2. /\ UNCHANGED <<link, list, startups, spc, sconn, ctxDone>>
        /\ hpc'[k] = "spawn" /\ brtId'[k] = k
        /\ \A j \in Conns \ {k} : hpc'[j] = hpc[j] /\ brtId'[j] = brtId[j]
    BY <1>2, <2>1 DEF SaveBRTId, IInv, TypeOK
  <2> QED
    BY <2>1, <2>2 DEF ListInv, ListMatchesHandlers, SendersInitialised
<1>3. ASSUME NEW s \in Senders, StartSender(k, s) PROVE ListInv'
  <2>1. hpc[k] = "spawn" /\ list[AddrOf[k]] = k /\ brtId[k] = k /\ startups[k] > 0
    BY <1>3 DEF StartSender, ListInv
  <2>2. /\ UNCHANGED <<link, list, startups, brtId, ctxDone>>
        /\ hpc'[k] = "read" /\ spc'[s] = "select" /\ sconn'[s] = k
        /\ \A j \in Conns \ {k} : hpc'[j] = hpc[j]
        /\ \A u \in Senders \ {s} : spc'[u] = spc[u] /\ sconn'[u] = sconn[u]
    BY <1>3, <2>1 DEF StartSender, SenderAt, IInv, TypeOK
  <2> QED
    BY <2>1, <2>2 DEF ListInv, ListMatchesHandlers, SendersInitialised
<1>4. ASSUME UNCHANGED <<link, list, startups, brtId, spc, sconn, ctxDone>>,
             hpc[k] \in {"read", "load", "send", "delete"},
             hpc'[k] \in HandlerPcs \ {"none", "unlist", "gone", "startup", "spawn"},
             \A j \in Conns \ {k} : hpc'[j] = hpc[j]
      PROVE  ListInv'
  BY <1>4 DEF ListInv, ListMatchesHandlers, SendersInitialised
<1>5. CASE \/ ReadShutdown(k) \/ LoadCall(k) \/ SendCdr(k) \/ DeleteCall(k)
           \/ \E c \in Calls : ReadRefusal(k, c) \/ ReadConfirm(k, c) \/ ReadEnd(k, c)
  <2>1. hpc \in [Conns -> HandlerPcs]
    BY DEF IInv, TypeOK
  <2> QED
    BY <1>4, <1>5, <2>1 DEF ReadShutdown, LoadCall, SendCdr, DeleteCall, ReadRefusal,
       ReadConfirm, ReadEnd
<1>6. CASE ReadEof(k)
  <2>1. /\ UNCHANGED <<list, startups, brtId, spc, sconn, ctxDone>>
        /\ hpc[k] = "read" /\ hpc'[k] = "unlist" /\ link'[k] = "closed"
        /\ \A j \in Conns \ {k} : hpc'[j] = hpc[j] /\ link'[j] = link[j]
    BY <1>6 DEF ReadEof, Close, IInv, TypeOK
  <2> QED
    BY <2>1 DEF ListInv, ListMatchesHandlers, SendersInitialised
<1>7. CASE HandlerUnlists(k)
  <2>1. /\ UNCHANGED <<link, startups, brtId, spc, sconn, ctxDone>>
        /\ hpc[k] = "unlist" /\ hpc'[k] = "gone" /\ list'[AddrOf[k]] = None
        /\ \A j \in Conns \ {k} : /\ hpc'[j] = hpc[j]
                                 /\ list'[AddrOf[j]] = list[AddrOf[j]]
    BY <1>7 DEF HandlerUnlists, Unlist, OwnAddresses, IInv, TypeOK
  <2> QED
    BY <2>1 DEF ListInv, ListMatchesHandlers, SendersInitialised
<1>8. CASE HandlerStops(k)
  <2>1. /\ UNCHANGED <<list, startups, brtId, spc, sconn, ctxDone>>
        /\ hpc[k] = "read" /\ hpc'[k] = "gone" /\ link'[k] = "closed" /\ ctxDone
        /\ \A j \in Conns \ {k} : hpc'[j] = hpc[j] /\ link'[j] = link[j]
    BY <1>8 DEF HandlerStops, Close, IInv, TypeOK
  <2> QED
    BY <2>1 DEF ListInv, ListMatchesHandlers, SendersInitialised
<1> QED
  BY <1>1, <1>2, <1>3, <1>5, <1>6, <1>7, <1>8 DEF HandlerStep

LEMMA ListSender ==
    ASSUME OwnAddresses, IInv, ListInv, NEW s \in Senders, SenderStep(s)
    PROVE  ListInv'
<1> USE DEF SenderAt, serverVars, handlerVars, senderVars, processVars
<1> DEFINE k == sconn[s]
<1>1. CASE SendMessage(s) \/ SenderStops(s)
  <2>1. /\ UNCHANGED <<link, list, startups, brtId, hpc, sconn, ctxDone>>
        /\ spc[s] = "select" /\ spc'[s] = "unlist" => link[k] = "closed"
        /\ spc[s] # "none"
        /\ \A u \in Senders \ {s} : spc'[u] = spc[u]
    BY <1>1 DEF SendMessage, SenderStops, IInv, TypeOK
  <2> QED
    BY <1>1, <2>1 DEF ListInv, ListMatchesHandlers, SendersInitialised, SendMessage, SenderStops
<1>2. CASE SenderUnlists(s)
  <2>1. k \in Conns /\ hpc[k] \in {"unlist", "gone"}
    BY <1>2 DEF SenderUnlists, ListInv
  <2>2. /\ UNCHANGED <<link, startups, brtId, hpc, sconn, ctxDone>>
        /\ list'[AddrOf[k]] = None
        /\ \A j \in Conns \ {k} : list'[AddrOf[j]] = list[AddrOf[j]]
        /\ spc[s] = "unlist" /\ spc'[s] = "select"
        /\ \A u \in Senders \ {s} : spc'[u] = spc[u]
    BY <1>2, <2>1 DEF SenderUnlists, Unlist, OwnAddresses, IInv, TypeOK
  <2> QED
    BY <2>1, <2>2 DEF ListInv, ListMatchesHandlers, SendersInitialised
<1> QED
  BY <1>1, <1>2 DEF SenderStep

LEMMA ListStep ==
    ASSUME OwnAddresses
    PROVE  IInv /\ ListInv /\ [Next]_vars => ListInv'
<1> SUFFICES ASSUME IInv, ListInv, [Next]_vars PROVE ListInv'
  OBVIOUS
<1> USE DEF serverVars, handlerVars, senderVars, processVars
<1>1. ASSUME UNCHANGED <<link, list, hpc, startups, brtId, spc, sconn>>, ctxDone => ctxDone'
      PROVE  ListInv'
  BY <1>1 DEF ListInv, ListMatchesHandlers, SendersInitialised
<1>2. CASE UNCHANGED vars
  BY <1>1, <1>2 DEF vars, camelVars
<1>3. ASSUME NEW k \in Conns, BreakLink(k) PROVE ListInv'
  <2>1. /\ UNCHANGED <<list, hpc, startups, brtId, spc, sconn, ctxDone>>
        /\ link[k] = "open" /\ link'[k] = "broken"
        /\ \A j \in Conns \ {k} : link'[j] = link[j]
    BY <1>3 DEF BreakLink, IInv, TypeOK
  <2> QED
    BY <2>1 DEF ListInv, ListMatchesHandlers, SendersInitialised
<1>4. ASSUME NEW t \in Threads, ThreadStep(t) PROVE ListInv'
  BY <1>1, <1>4 DEF ThreadStep, TakeCall, RouteCall, SendDiameter, StoreCall,
     EnqueueMessage, DirectCdr
<1>5. ASSUME NEW t \in Tasks, Writer(t) PROVE ListInv'
  BY <1>1, <1>5 DEF Writer, WriterFrame, WriterStep, WriterProgress, OpenFirst, Rotate,
     AwaitLine, WriteLine, CreateFile, PermissionError, NilFilePanic, camelVars
<1>6. CASE MapRace \/ EndStep
  BY <1>1, <1>6 DEF MapRace, EndStep, CancelContext, StopServer, Exit, camelVars
<1> QED
  BY <1>2, <1>3, <1>4, <1>5, <1>6, TypeStep, ListAccept, ListHandler, ListSender DEF Next

LEMMA ListInvariance ==
    ASSUME OwnAddresses
    PROVE  Spec => []ListInv
BY IInvInit, IInvStep, ListInit, ListStep, PTL DEF Spec

(* The map of listeners agrees with the handlers, over any sequence of accepts, *)
(* lost connections and late senders (ServerStart, CamelHandler, CamelSend).    *)
THEOREM ListCorrect ==
    ASSUME OwnAddresses
    PROVE  Spec => []ListMatchesHandlers
<1>1. ListInv => ListMatchesHandlers
  BY DEF ListInv
<1> QED
  BY <1>1, ListInvariance, PTL

(* A sender never works for a BRT that has not given its number.                *)
THEOREM SendersCorrect ==
    ASSUME OwnAddresses
    PROVE  Spec => []SendersInitialised
<1>1. ListInv => SendersInitialised
  BY DEF ListInv
<1> QED
  BY <1>1, ListInvariance, PTL

-----------------------------------------------------------------------------
(* CamelServer implements OfflineLedger, whatever the BRTs, the connections and   *)
(* the disk do: the same promise as the Diameter client's, by the same argument.  *)

(* What the ledger's status of a call depends on.                               *)
LEMMA StatusSame ==
    ASSUME NEW c \in Calls,
           Recorded(c)' <=> Recorded(c),
           HandedOver(c)' <=> HandedOver(c),
           verdict'[c] = verdict[c],
           c \in taken' <=> c \in taken,
           BeforeStore(c)' <=> BeforeStore(c),
           HandedOver(c) \/ (ToFile(c)' <=> ToFile(c))
    PROVE  Status(c)' = Status(c)
BY DEF Status, HandedOver

LEMMA LedgerStutters ==
    ASSUME file' = file, \A c \in Calls : Status(c)' = Status(c)
    PROVE  UNCHANGED Ledger!lvars
BY DEF Ledger!lvars

LEMMA LedgerMoves ==
    ASSUME NEW c \in Calls, NEW from, NEW to,
           Status(c) = from, Status(c)' = to,
           \A d \in Calls \ {c} : Status(d)' = Status(d)
    PROVE  Ledger!Move(c, from, to)
<1>1. [d \in Calls |-> Status(d)]' = [[d \in Calls |-> Status(d)] EXCEPT ![c] = to]
  OBVIOUS
<1> QED
  BY <1>1 DEF Ledger!Move

(* A step that leaves alone what the ledger reads.                              *)
LEMMA OthersRefine ==
    ASSUME UNCHANGED <<file, dropped, hold, verdict, taken, tpc, tcall>>
    PROVE  [Ledger!LNext]_(Ledger!lvars)
<1>1. \A c \in Calls : /\ Recorded(c)' <=> Recorded(c)
                       /\ HandedOver(c)' <=> HandedOver(c)
                       /\ BeforeStore(c)' <=> BeforeStore(c)
                       /\ ToFile(c)' <=> ToFile(c)
  BY DEF Recorded, HandedOver, BeforeStore, ToFile
<1> QED
  BY <1>1, StatusSame, LedgerStutters

-----------------------------------------------------------------------------
LEMMA RefinementInit == Init => Ledger!LInit
<1> SUFFICES ASSUME Init PROVE Ledger!LInit
  OBVIOUS
<1>1. \A c \in Calls : Status(c) = "new"
  <2>1. ASSUME NEW c \in Calls
        PROVE  /\ ~Recorded(c) /\ verdict[c] = "none" /\ c \notin taken
               /\ ~ToFile(c) /\ \A t \in Tasks : hold[t] # c
    BY NoneAssumption DEF Init, WriterInit, Recorded, ToFile
  <2> QED
    BY <2>1 DEF Status
<1> QED
  BY <1>1 DEF Init, WriterInit, Ledger!LInit

(* A thread's call is new until it is stored or routed to the file.             *)
LEMMA ThreadCallStatus ==
    ASSUME IInv, NEW t \in Threads, tpc[t] # "idle"
    PROVE  /\ tcall[t] \in Calls /\ tcall[t] \in taken
           /\ verdict[tcall[t]] = "none" /\ ~HandedOver(tcall[t])
           /\ tpc[t] \in {"route", "diameter", "store"} => Status(tcall[t]) = "new"
           /\ tpc[t] = "direct" => Status(tcall[t]) = "owed"
<1> USE NoneAssumption DEF IInv
<1> DEFINE c == tcall[t]
<1>1. /\ c \in Calls /\ c \in taken
      /\ verdict[c] = "none" /\ ~HandedOver(c)
  BY DEF ThreadsOwnCalls, TypeOK
<1>2. ~Recorded(c) /\ \A u \in Tasks : hold[u] # c
  BY <1>1 DEF HandedOver
<1>3. CASE tpc[t] \in {"route", "diameter", "store"}
  <2>1. BeforeStore(c) /\ ~ToFile(c)
    BY <1>1, <1>3 DEF BeforeStore, ToFile, ThreadsOwnCalls
  <2> QED
    BY <1>1, <1>2, <1>3, <2>1 DEF Status
<1>4. CASE tpc[t] = "direct"
  <2>1. ToFile(c)
    BY <1>1, <1>4 DEF ToFile
  <2> QED
    BY <1>1, <1>2, <1>4, <2>1 DEF Status
<1> QED
  BY <1>1, <1>3, <1>4

LEMMA TakeCallRefines ==
    ASSUME IInv, NEW t \in Threads, NEW c \in Calls, TakeCall(t, c)
    PROVE  [Ledger!LNext]_(Ledger!lvars)
<1> USE NoneAssumption DEF IInv
<1>1. /\ c \notin taken /\ taken' = taken \cup {c}
      /\ tpc[t] = "idle" /\ tpc'[t] = "route" /\ tcall'[t] = c /\ tcall[t] = None
      /\ \A u \in Threads \ {t} : tpc'[u] = tpc[u] /\ tcall'[u] = tcall[u]
      /\ UNCHANGED <<file, dropped, hold, verdict>>
  BY DEF TakeCall, ThreadAt, writerVars, brtVars, ThreadsOwnCalls, TypeOK
<1>2. ~HandedOver(c) /\ verdict[c] = "none" /\ \A u \in Threads : tcall[u] # c
  BY <1>1 DEF LinesOwed, SentOnce, ThreadsOwnCalls
<1>3. \A d \in Calls : /\ Recorded(d)' <=> Recorded(d)
                       /\ HandedOver(d)' <=> HandedOver(d)
  BY <1>1 DEF Recorded, HandedOver
<1>4. \A d \in Calls \ {c} : /\ BeforeStore(d)' <=> BeforeStore(d)
                             /\ ToFile(d)' <=> ToFile(d)
  BY <1>1 DEF BeforeStore, ToFile
<1>5. Status(c) = "new"
  BY <1>1, <1>2 DEF Status, ToFile, HandedOver
<1>6. Status(c)' = "new"
  <2>1. BeforeStore(c)' /\ ~ToFile(c)'
    BY <1>1, <1>2 DEF BeforeStore, ToFile
  <2>2. /\ ~Recorded(c)' /\ verdict'[c] = "none" /\ \A u \in Tasks : hold'[u] # c
    BY <1>1, <1>2, <1>3 DEF HandedOver
  <2> QED
    BY <2>1, <2>2 DEF Status
<1>7. \A d \in Calls : Status(d)' = Status(d)
  BY <1>1, <1>3, <1>4, <1>5, <1>6, StatusSame
<1> QED
  BY <1>1, <1>7, LedgerStutters

(* The thread looks again for a listener: it owes the CDR, or asks later.       *)
LEMMA RouteCallRefines ==
    ASSUME IInv, NEW t \in Threads, RouteCall(t)
    PROVE  [Ledger!LNext]_(Ledger!lvars)
<1> USE NoneAssumption DEF IInv
<1> DEFINE c == tcall[t]
<1>1. /\ tpc[t] = "route" /\ tpc'[t] \in {"direct", "diameter", "store"}
      /\ \A u \in Threads \ {t} : tpc'[u] = tpc[u]
      /\ UNCHANGED <<file, dropped, hold, verdict, tcall, taken>>
  BY DEF RouteCall, RouteOf, ThreadAt, writerVars, brtVars, TypeOK
<1>2. /\ c \in Calls /\ c \in taken /\ verdict[c] = "none" /\ ~HandedOver(c)
      /\ Status(c) = "new"
  BY <1>1, ThreadCallStatus
<1>3. \A d \in Calls : /\ Recorded(d)' <=> Recorded(d)
                       /\ HandedOver(d)' <=> HandedOver(d)
  BY <1>1 DEF Recorded, HandedOver
<1>4. \A d \in Calls \ {c} : Status(d)' = Status(d)
  <2>1. \A d \in Calls \ {c} : /\ BeforeStore(d)' <=> BeforeStore(d)
                               /\ ToFile(d)' <=> ToFile(d)
    BY <1>1 DEF BeforeStore, ToFile
  <2> QED
    BY <1>1, <1>3, <2>1, StatusSame
<1>5. ~Recorded(c)' /\ ~Recorded(c) /\ \A u \in Tasks : hold'[u] # c
  BY <1>1, <1>2, <1>3 DEF HandedOver
<1>6. CASE tpc'[t] = "direct"
  <2>1. ToFile(c)'
    BY <1>1, <1>2, <1>6 DEF ToFile
  <2>2. Status(c)' = "owed"
    BY <1>1, <1>2, <1>5, <2>1 DEF Status
  <2>3. Ledger!OweAtOnce(c)
    BY <1>1, <1>2, <1>4, <2>2, LedgerMoves DEF Ledger!OweAtOnce
  <2> QED
    BY <1>2, <2>3 DEF Ledger!LNext, Ledger!CallStep
<1>7. CASE tpc'[t] \in {"diameter", "store"}
  <2>1. BeforeStore(c)' /\ ~ToFile(c)'
    BY <1>1, <1>2, <1>7 DEF BeforeStore, ToFile, ThreadsOwnCalls
  <2>2. Status(c)' = "new"
    BY <1>1, <1>2, <1>5, <2>1 DEF Status
  <2>3. \A d \in Calls : Status(d)' = Status(d)
    BY <1>1, <1>2, <1>4, <2>2
  <2> QED
    BY <1>1, <2>3, LedgerStutters
<1> QED
  BY <1>1, <1>6, <1>7

(* A call handed over to Diameter is asked there.                               *)
LEMMA SendDiameterRefines ==
    ASSUME IInv, NEW t \in Threads, SendDiameter(t)
    PROVE  [Ledger!LNext]_(Ledger!lvars)
<1> USE NoneAssumption DEF IInv
<1>0. PICK c \in Calls : c = tcall[t]
  BY ThreadCallStatus DEF SendDiameter, ThreadAt
<1>1. /\ tpc[t] = "diameter" /\ tpc'[t] = "idle"
      /\ tcall'[t] = None
      /\ \A u \in Threads \ {t} : tpc'[u] = tpc[u] /\ tcall'[u] = tcall[u]
      /\ UNCHANGED <<file, dropped, hold, verdict, taken>>
  BY DEF SendDiameter, ThreadAt, writerVars, brtVars, TypeOK
<1>2. /\ c \in Calls /\ c \in taken /\ verdict[c] = "none" /\ ~HandedOver(c)
      /\ Status(c) = "new"
  BY <1>0, <1>1, ThreadCallStatus
<1>3. \A d \in Calls : /\ Recorded(d)' <=> Recorded(d)
                       /\ HandedOver(d)' <=> HandedOver(d)
  BY <1>1 DEF Recorded, HandedOver
<1>4. \A d \in Calls \ {c} : Status(d)' = Status(d)
  <2>1. \A d \in Calls \ {c} : /\ BeforeStore(d)' <=> BeforeStore(d)
                               /\ ToFile(d)' <=> ToFile(d)
    BY <1>0, <1>1 DEF BeforeStore, ToFile
  <2> QED
    BY <1>1, <1>3, <2>1, StatusSame
<1>5. Status(c)' = "asked"
  <2>1. ~Recorded(c)' /\ \A u \in Tasks : hold'[u] # c
    BY <1>1, <1>2, <1>3 DEF HandedOver
  <2>2. ~BeforeStore(c)' /\ ~ToFile(c)'
    BY <1>0, <1>1, <1>2 DEF BeforeStore, ToFile, ThreadsOwnCalls
  <2> QED
    BY <1>1, <1>2, <2>1, <2>2 DEF Status
<1>6. Ledger!Ask(c)
  BY <1>1, <1>2, <1>4, <1>5, LedgerMoves DEF Ledger!Ask
<1> QED
  BY <1>2, <1>6 DEF Ledger!LNext, Ledger!CallStep

LEMMA StoreCallRefines ==
    ASSUME IInv, NEW t \in Threads, StoreCall(t)
    PROVE  [Ledger!LNext]_(Ledger!lvars)
<1> USE NoneAssumption DEF IInv
<1> DEFINE c == tcall[t]
<1>1. /\ tpc[t] = "store" /\ tpc'[t] = "enqueue"
      /\ \A u \in Threads \ {t} : tpc'[u] = tpc[u]
      /\ UNCHANGED <<file, dropped, hold, verdict, tcall, taken>>
  BY DEF StoreCall, ThreadAt, writerVars, brtVars, TypeOK
<1>2. /\ c \in Calls /\ c \in taken /\ verdict[c] = "none" /\ ~HandedOver(c)
      /\ Status(c) = "new"
  BY <1>1, ThreadCallStatus
<1>3. \A d \in Calls : /\ Recorded(d)' <=> Recorded(d)
                       /\ HandedOver(d)' <=> HandedOver(d)
  BY <1>1 DEF Recorded, HandedOver
<1>4. \A d \in Calls \ {c} : Status(d)' = Status(d)
  <2>1. \A d \in Calls \ {c} : /\ BeforeStore(d)' <=> BeforeStore(d)
                               /\ ToFile(d)' <=> ToFile(d)
    BY <1>1 DEF BeforeStore, ToFile
  <2> QED
    BY <1>1, <1>3, <2>1, StatusSame
<1>5. Status(c)' = "asked"
  <2>1. ~Recorded(c)' /\ \A u \in Tasks : hold'[u] # c
    BY <1>1, <1>2, <1>3 DEF HandedOver
  <2>2. ~BeforeStore(c)' /\ ~ToFile(c)'
    BY <1>1, <1>2 DEF BeforeStore, ToFile, ThreadsOwnCalls
  <2> QED
    BY <1>1, <1>2, <2>1, <2>2 DEF Status
<1>6. Ledger!Ask(c)
  BY <1>1, <1>2, <1>4, <1>5, LedgerMoves DEF Ledger!Ask
<1> QED
  BY <1>2, <1>6 DEF Ledger!LNext, Ledger!CallStep

(* A message in the channel leaves its call asked.                              *)
LEMMA EnqueueMessageRefines ==
    ASSUME IInv, NEW t \in Threads, EnqueueMessage(t)
    PROVE  [Ledger!LNext]_(Ledger!lvars)
<1> USE NoneAssumption DEF IInv
<1>1. /\ tpc[t] = "enqueue" /\ tpc'[t] = "idle"
      /\ \A u \in Threads \ {t} : tpc'[u] = tpc[u] /\ tcall'[u] = tcall[u]
      /\ UNCHANGED <<file, dropped, hold, verdict, taken>>
  BY DEF EnqueueMessage, ThreadAt, writerVars, brtVars, TypeOK
<1>2. \A d \in Calls : /\ Recorded(d)' <=> Recorded(d)
                       /\ HandedOver(d)' <=> HandedOver(d)
                       /\ BeforeStore(d)' <=> BeforeStore(d)
                       /\ ToFile(d)' <=> ToFile(d)
  BY <1>1 DEF Recorded, HandedOver, BeforeStore, ToFile
<1> QED
  BY <1>1, <1>2, StatusSame, LedgerStutters

(* A CDR that changes hands is still owed.                                      *)
LEMMA DirectCdrRefines ==
    ASSUME IInv, NEW t \in Threads, DirectCdr(t)
    PROVE  [Ledger!LNext]_(Ledger!lvars)
<1> USE NoneAssumption, CamelAssumption DEF IInv
<1> DEFINE w == ThreadTask[t]
<1>0. PICK c \in Calls : c = tcall[t]
  BY ThreadCallStatus DEF DirectCdr, ThreadAt
<1>1. /\ tpc[t] = "direct" /\ tpc'[t] = "idle" /\ tcall'[t] = None
      /\ \A u \in Threads \ {t} : tpc'[u] = tpc[u] /\ tcall'[u] = tcall[u]
      /\ UNCHANGED <<file, dropped, verdict, taken>>
      /\ w \in Tasks /\ hold'[w] = c /\ wpc[w] = "recv"
      /\ \A v \in Tasks \ {w} : hold'[v] = hold[v]
  BY <1>0 DEF DirectCdr, ThreadAt, Receive, brtVars, TypeOK, WriterTypeOK, WriterAt
<1>2. /\ verdict[c] = "none" /\ ~HandedOver(c)
      /\ Status(c) = "owed" /\ hold[w] = None
  BY <1>0, <1>1, ThreadCallStatus DEF LinesOwed
<1>3. \A d \in Calls : Recorded(d)' <=> Recorded(d)
  BY <1>1 DEF Recorded
<1>4. \A d \in Calls \ {c} : Status(d)' = Status(d)
  <2>1. \A d \in Calls \ {c} : /\ HandedOver(d)' <=> HandedOver(d)
                               /\ BeforeStore(d)' <=> BeforeStore(d)
                               /\ ToFile(d)' <=> ToFile(d)
    BY <1>0, <1>1, <1>2, <1>3 DEF HandedOver, BeforeStore, ToFile
  <2> QED
    BY <1>1, <1>3, <2>1, StatusSame
<1>5. Status(c)' = "owed"
  BY <1>1, <1>2, <1>3 DEF Status, HandedOver
<1>6. \A d \in Calls : Status(d)' = Status(d)
  BY <1>2, <1>4, <1>5
<1> QED
  BY <1>1, <1>6, LedgerStutters

-----------------------------------------------------------------------------
(* A session at a BRT is asked.                                                 *)
LEMMA AskedAtBrt ==
    ASSUME IInv, NEW k \in Conns, NEW c \in Calls, c \in atBrt[k]
    PROVE  /\ Status(c) = "asked" /\ verdict[c] = "none" /\ c \in taken
           /\ ~HandedOver(c) /\ ~BeforeStore(c) /\ ~ToFile(c)
<1> USE NoneAssumption DEF IInv
<1>1. /\ verdict[c] = "none" /\ c \in taken /\ ~HandedOver(c) /\ Pending(c)
  BY DEF SentOnce, Pending
<1>2. ~BeforeStore(c) /\ ~ToFile(c)
  BY <1>1 DEF BeforeStore, ToFile, ThreadsOwnCalls
<1> QED
  BY <1>1, <1>2 DEF Status, HandedOver

(* An answer moves the session it is for.                                       *)
LEMMA AnswerRefines ==
    ASSUME IInv, NEW k \in Conns, NEW c \in Calls,
           ReadRefusal(k, c) \/ ReadConfirm(k, c)
    PROVE  [Ledger!LNext]_(Ledger!lvars)
<1> USE NoneAssumption DEF IInv
<1>1. /\ c \in atBrt[k]
      /\ UNCHANGED <<file, dropped, hold, tpc, tcall, taken>>
  BY DEF ReadRefusal, ReadConfirm, writerVars, threadVars
<1>2. /\ Status(c) = "asked" /\ c \in taken
      /\ ~HandedOver(c) /\ ~BeforeStore(c) /\ ~ToFile(c)
  BY <1>1, AskedAtBrt
<1>3. \A d \in Calls : /\ Recorded(d)' <=> Recorded(d)
                       /\ HandedOver(d)' <=> HandedOver(d)
                       /\ BeforeStore(d)' <=> BeforeStore(d)
                       /\ ToFile(d)' <=> ToFile(d)
  BY <1>1 DEF Recorded, HandedOver, BeforeStore, ToFile
<1>4. \A d \in Calls \ {c} : Status(d)' = Status(d)
  <2>1. \A d \in Calls \ {c} : verdict'[d] = verdict[d]
    <3>1. \E v \in Verdicts : verdict' = [verdict EXCEPT ![c] = v]
      BY DEF ReadRefusal, ReadConfirm, Verdicts
    <3> QED
      BY <3>1 DEF TypeOK
  <2> QED
    BY <1>1, <1>3, <2>1, StatusSame
<1>5. ~Recorded(c)'
  BY <1>2, <1>3 DEF HandedOver
<1>6. CASE verdict'[c] = "offline"
  <2>1. Status(c)' = "owed"
    BY <1>5, <1>6 DEF Status
  <2>2. Ledger!AnswerOffline(c)
    BY <1>1, <1>2, <1>4, <2>1, LedgerMoves DEF Ledger!AnswerOffline
  <2> QED
    BY <2>2 DEF Ledger!LNext, Ledger!CallStep
<1>7. CASE verdict'[c] = "charged"
  <2>1. Status(c)' = "closed"
    BY <1>2, <1>3, <1>5, <1>7 DEF Status, HandedOver
  <2>2. Ledger!AnswerCharged(c)
    BY <1>1, <1>2, <1>4, <2>1, LedgerMoves DEF Ledger!AnswerCharged
  <2> QED
    BY <2>2 DEF Ledger!LNext, Ledger!CallStep
<1>8. verdict'[c] \in {"offline", "charged"}
  BY DEF ReadRefusal, ReadConfirm, TypeOK
<1> QED
  BY <1>6, <1>7, <1>8

(* The refused call's CDR goes from the handler to the writer: still owed.      *)
LEMMA SendCdrRefines ==
    ASSUME IInv, NEW k \in Conns, SendCdr(k)
    PROVE  [Ledger!LNext]_(Ledger!lvars)
<1> USE NoneAssumption, CamelAssumption DEF IInv
<1>1. PICK c \in Calls : c = hcall[k] /\ verdict[c] = "offline" /\ ~HandedOver(c)
  BY DEF SendCdr, HandlerAt, HandlersOwnCalls, TypeOK
<1>2. PICK w \in Tasks : Receive(w, c)
  BY <1>1 DEF SendCdr
<1>3. UNCHANGED <<file, dropped, verdict, taken, tpc, tcall>>
  BY <1>2 DEF SendCdr, Receive, threadVars, brtVars
<1>4. hold[w] = None /\ hold' = [hold EXCEPT ![w] = c]
  BY <1>2 DEF Receive, WriterAt, LinesOwed, TypeOK, WriterTypeOK
<1>5. \A d \in Calls : /\ Recorded(d)' <=> Recorded(d)
                       /\ BeforeStore(d)' <=> BeforeStore(d)
                       /\ ToFile(d)' <=> ToFile(d)
  BY <1>3 DEF Recorded, BeforeStore, ToFile
<1>6. \A d \in Calls \ {c} : HandedOver(d)' <=> HandedOver(d)
  BY <1>4, <1>5 DEF HandedOver, TypeOK, WriterTypeOK
<1>7. \A d \in Calls \ {c} : Status(d)' = Status(d)
  BY <1>3, <1>5, <1>6, StatusSame
<1>8. Status(c) = "owed" /\ Status(c)' = "owed"
  BY <1>1, <1>3, <1>5 DEF Status, HandedOver
<1>9. \A d \in Calls : Status(d)' = Status(d)
  BY <1>7, <1>8
<1> QED
  BY <1>3, <1>9, LedgerStutters

(* The writer records an owed CDR or drops it.                                  *)
LEMMA WriterRefines ==
    ASSUME IInv, NEW w \in Tasks, Writer(w)
    PROVE  [Ledger!LNext]_(Ledger!lvars)
<1> USE NoneAssumption DEF IInv
<1>1. UNCHANGED <<tpc, tcall, taken, verdict>>
  BY DEF Writer, WriterFrame, camelVars, threadVars, brtVars
<1>2. \A d \in Calls : (BeforeStore(d)' <=> BeforeStore(d)) /\ (ToFile(d)' <=> ToFile(d))
  BY <1>1 DEF BeforeStore, ToFile
<1>3. CASE WriteLine(w)
  <2>1. PICK c \in Calls : c = hold[w] /\ ~Recorded(c)
    BY <1>3 DEF LinesOwed, NoDoubleCharge, WriteLine, WriterAt, TypeOK, WriterTypeOK
  <2>2. Status(c) = "owed"
    BY <2>1 DEF LinesOwed, NoDoubleCharge, HandedOver, Status
  <2>3. /\ \A d \in Calls \ {c} : file'[d] = file[d] /\ (d \in dropped' <=> d \in dropped)
        /\ \A d \in Calls \ {c} : \A u \in Tasks : hold'[u] = d <=> hold[u] = d
    BY <1>3, <2>1 DEF WriteLine, TypeOK, WriterTypeOK
  <2>4. \A d \in Calls \ {c} : Status(d)' = Status(d)
    <3>1. \A d \in Calls \ {c} : (Recorded(d)' <=> Recorded(d))
                                 /\ (HandedOver(d)' <=> HandedOver(d))
      BY <2>3 DEF Recorded, HandedOver
    <3> QED
      BY <1>1, <1>2, <3>1, StatusSame
  <2>5. CASE file' = [file EXCEPT ![c] = @ + 1] /\ UNCHANGED dropped
    <3>1. Recorded(c)'
      BY <2>1, <2>5 DEF Recorded, TypeOK, WriterTypeOK
    <3>2. Status(c)' = "closed"
      BY <3>1 DEF Status
    <3>3. Ledger!Record(c)
      BY <2>1, <2>2, <2>4, <2>5, <3>2, LedgerMoves DEF Ledger!Record
    <3> QED
      BY <2>1, <3>3 DEF Ledger!LNext, Ledger!CallStep
  <2>6. CASE dropped' = dropped \cup {c} /\ UNCHANGED file
    <3>1. Recorded(c)'
      BY <2>6 DEF Recorded
    <3>2. Status(c)' = "closed"
      BY <3>1 DEF Status
    <3>3. Ledger!Drop(c)
      BY <2>1, <2>2, <2>4, <2>6, <3>2, LedgerMoves DEF Ledger!Drop
    <3> QED
      BY <2>1, <3>3 DEF Ledger!LNext, Ledger!CallStep
  <2> QED
    BY <1>3, <2>1, <2>5, <2>6 DEF WriteLine
<1>4. CASE ~WriteLine(w)
  <2>1. UNCHANGED <<file, dropped, hold>>
    BY <1>4 DEF Writer, WriterStep, WriterProgress, OpenFirst, Rotate, AwaitLine,
       CreateFile, PermissionError, NilFilePanic
  <2> QED
    BY <1>1, <2>1, OthersRefine
<1> QED
  BY <1>3, <1>4

-----------------------------------------------------------------------------
LEMMA RefinementStep == IInv /\ [Next]_vars => [Ledger!LNext]_(Ledger!lvars)
<1> SUFFICES ASSUME IInv, [Next]_vars PROVE [Ledger!LNext]_(Ledger!lvars)
  OBVIOUS
<1> USE DEF writerVars, threadVars, brtVars
<1>1. CASE UNCHANGED vars
  BY <1>1, OthersRefine DEF vars, camelVars
<1>2. ASSUME NEW k \in Conns, Accept(k) \/ BreakLink(k)
      PROVE  [Ledger!LNext]_(Ledger!lvars)
  BY <1>2, OthersRefine DEF Accept, BreakLink
<1>3. ASSUME NEW k \in Conns, HandlerStep(k)
      PROVE  [Ledger!LNext]_(Ledger!lvars)
  <2>1. CASE \/ ReadStartup(k) \/ SaveBRTId(k)
             \/ \E s \in Senders : StartSender(k, s)
             \/ ReadShutdown(k) \/ LoadCall(k) \/ DeleteCall(k)
             \/ \E c \in Calls : ReadEnd(k, c)
             \/ ReadEof(k) \/ HandlerUnlists(k) \/ HandlerStops(k)
    <3>1. UNCHANGED <<file, dropped, hold, verdict, taken, tpc, tcall>>
      BY <2>1 DEF ReadStartup, SaveBRTId, StartSender, ReadShutdown, LoadCall,
         DeleteCall, ReadEnd, ReadEof, HandlerUnlists, HandlerStops
    <3> QED
      BY <3>1, OthersRefine
  <2> QED
    BY <1>3, <2>1, AnswerRefines, SendCdrRefines DEF HandlerStep
<1>4. ASSUME NEW s \in Senders, SenderStep(s)
      PROVE  [Ledger!LNext]_(Ledger!lvars)
  BY <1>4, OthersRefine DEF SenderStep, SendMessage, SenderUnlists, SenderStops
<1>5. ASSUME NEW t \in Threads, ThreadStep(t)
      PROVE  [Ledger!LNext]_(Ledger!lvars)
  BY <1>5, TakeCallRefines, RouteCallRefines, SendDiameterRefines, StoreCallRefines,
     EnqueueMessageRefines, DirectCdrRefines DEF ThreadStep
<1>6. ASSUME NEW t \in Tasks, Writer(t)
      PROVE  [Ledger!LNext]_(Ledger!lvars)
  BY <1>6, WriterRefines
<1>7. CASE MapRace \/ EndStep
  BY <1>7, OthersRefine DEF MapRace, EndStep, CancelContext, StopServer, Exit, camelVars
<1> QED
  BY <1>1, <1>2, <1>3, <1>4, <1>5, <1>6, <1>7 DEF Next

(* Every behaviour of the CAMEL side is a behaviour of the ledger: with any     *)
(* number of BRTs, connections, threads and writers, and any losses between     *)
(* them, a refused call is recorded at most once and no charged one is.         *)
THEOREM Refinement == Spec => ImplementsLedger
BY RefinementInit, RefinementStep, IInvInit, IInvStep, PTL
   DEF Spec, ImplementsLedger, Ledger!LSpec
================================================================================
