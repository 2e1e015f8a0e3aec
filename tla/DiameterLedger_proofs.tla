--------------------------- MODULE DiameterLedger_proofs ---------------------------
(* Proofs that DiameterClient keeps a call apart from the others as long as no   *)
(* other call draws its session id: the inductive invariant IInv and what        *)
(* follows, and that it implements OfflineLedger for such a call.                *)
EXTENDS DiameterClient_proofs

-----------------------------------------------------------------------------
(* One lemma per action that touches the state IInv speaks of; the parts of     *)
(* IInv an action can disturb have a step of their own.                         *)

(* An id is drawn once and for all, so a call that has an id of its own had one *)
(* before.                                                                      *)
LEMMA OwnSame ==
    ASSUME UNCHANGED sidOf
    PROVE  \A c \in Calls : Own(c)' <=> Own(c)
BY DEF Own

LEMMA OwnBefore ==
    ASSUME TypeOK, NEW c \in Calls, sidOf[c] = None,
           NEW s \in Sids, sidOf' = [sidOf EXCEPT ![c] = s]
    PROVE  /\ \A d \in Calls : Own(d)' => Own(d)
           /\ \A d \in Calls \ {c} : Own(d)' => sidOf[d] # s
BY NoneAssumption, TaskAssumption DEF Own, TypeOK

(* Two calls with one id are the same call when one of them owns it.            *)
LEMMA OwnNames ==
    ASSUME NEW c \in Calls, NEW d \in Calls, Own(c), sidOf[c] # None, sidOf[d] = sidOf[c]
    PROVE  d = c
BY DEF Own

LEMMA TakeCallKeeps ==
    ASSUME TypeInv, TypeOK', IInv, NEW t \in Threads, NEW c \in Calls, TakeCall(t, c)
    PROVE  IInv'
<1> USE NoneAssumption, TaskAssumption DEF IInv
<1>1. ThreadsOwnCalls'
  <2>1. /\ c \in taken' /\ c \notin taken /\ tpc[t] = "idle"
        /\ tcall' = [tcall EXCEPT ![t] = c]
        /\ taken' = taken \cup {c}
        /\ UNCHANGED <<writerVars, cache, queue, atBrt, answerVars>>
    BY DEF TakeCall, ThreadAt
  <2>2. apc[c] = "none" /\ ~InQueue(c) /\ ~HandedOver(c)
        /\ (\A p \in Peers : c \notin atBrt[p])
    <3>1. Own(c)
      BY <2>1 DEF SidsNameCalls, Own
    <3> QED
      BY <2>1, <3>1 DEF MessagesInOnePlace, AnswersOwnCalls, LinesOwed, CdrOnlyIfOwed
  <2>3. \A u \in Threads : u # t => tcall[u] # c
    BY <2>1 DEF ThreadsOwnCalls, TypeOK, ThreadPcs
  <2>6. sidOf[c] = None
    BY <2>1 DEF SidsNameCalls
  <2>4. CASE c \in NoContext /\ tpc' = [tpc EXCEPT ![t] = "direct"] /\ sidOf' = sidOf
    BY <2>1, <2>2, <2>3, <2>4, OwnSame DEF ThreadsOwnCalls, TypeOK, InQueue, HandedOver,
       Recorded, writerVars, answerVars
  <2>5. ASSUME c \notin NoContext, tpc' = [tpc EXCEPT ![t] = "store"],
               NEW s \in Sids, sidOf' = [sidOf EXCEPT ![c] = s]
        PROVE  ThreadsOwnCalls'
    <3>1. \A u \in Threads : tcall[u] # None => tcall[u] # c
      BY <2>1, <2>3 DEF ThreadsOwnCalls
    <3>2. \A d \in Calls \ {c} : sidOf'[d] = sidOf[d]
      BY <2>5 DEF TypeOK
    <3>3. tcall' = [tcall EXCEPT ![t] = c] /\ tcall'[t] = c /\ tpc'[t] = "store"
          /\ \A u \in Threads \ {t} : tcall'[u] = tcall[u] /\ tpc'[u] = tpc[u]
      BY <2>1, <2>5 DEF TypeOK
    <3>4. \A d \in Calls : (InQueue(d)' <=> InQueue(d)) /\ (HandedOver(d)' <=> HandedOver(d))
      BY <2>1 DEF InQueue, HandedOver, Recorded, writerVars
    <3>5. \A u \in Threads \ {t} : tpc[u] # "idle" => tcall[u] \in Calls \ {c}
      BY <3>1 DEF ThreadsOwnCalls, TypeOK
    <3>6. \A u \in Threads \ {t} :
          /\ tpc'[u] = "idle" <=> tcall'[u] = None
          /\ tpc'[u] \in {"store", "enqueue"} =>
                /\ tcall'[u] \in taken' \ NoContext
                /\ apc'[tcall'[u]] = "none"
                /\ ~InQueue(tcall[u])'
                /\ \A p \in Peers : tcall'[u] \notin atBrt'[p]
          /\ tpc'[u] = "direct" => /\ tcall'[u] \in taken' \cap NoContext
                                   /\ ~HandedOver(tcall[u])'
      BY <2>1, <3>2, <3>3, <3>4, <3>5 DEF ThreadsOwnCalls, answerVars
    <3>7. /\ tcall'[t] \in taken' \ NoContext
          /\ apc'[tcall'[t]] = "none"
          /\ ~InQueue(tcall[t])'
          /\ \A p \in Peers : tcall'[t] \notin atBrt'[p]
      BY <2>1, <2>2, <2>5, <3>3, <3>4 DEF answerVars
    <3>8. \A u, v \in Threads : tcall'[u] # None /\ tcall'[u] = tcall'[v] => u = v
      BY <3>1, <3>3 DEF ThreadsOwnCalls
    <3>9. \A u \in Threads, d \in Calls :
             Own(d)' /\ tpc'[u] = "enqueue" /\ tcall'[u] = d => cache'[sidOf'[d]] = d
      <4>1. \A d \in Calls : Own(d)' => Own(d)
        BY <2>5, <2>6, OwnBefore
      <4> QED
        BY <2>1, <3>1, <3>2, <3>3, <4>1 DEF ThreadsOwnCalls
    <3> QED
      BY <3>3, <3>6, <3>7, <3>8, <3>9 DEF ThreadsOwnCalls
  <2> QED
    BY <2>4, <2>5 DEF TakeCall, ThreadAt
<1>0. /\ \A d \in Calls : Own(d)' => Own(d)
      /\ sidOf[c] = None
      /\ \A d \in Calls \ {c} : sidOf'[d] = sidOf[d]
  <2>1. sidOf[c] = None
    BY DEF TakeCall, SidsNameCalls
  <2>2. CASE sidOf' = sidOf
    BY <2>1, <2>2, OwnSame
  <2>3. ASSUME NEW s \in Sids, sidOf' = [sidOf EXCEPT ![c] = s]
        PROVE  /\ \A d \in Calls : Own(d)' => Own(d)
               /\ \A d \in Calls \ {c} : sidOf'[d] = sidOf[d]
    BY <2>1, <2>3, OwnBefore DEF TypeOK
  <2> QED
    BY <2>1, <2>2, <2>3 DEF TakeCall
<1>2. SidsNameCalls'
  <2>1. /\ c \notin taken /\ taken' = taken \cup {c} /\ cache' = cache /\ apc[c] = "none"
        /\ UNCHANGED <<apc, val>>
    BY DEF TakeCall, AnswersOwnCalls, answerVars
  <2>2. CASE c \in NoContext /\ sidOf' = sidOf
    BY <2>1, <2>2 DEF SidsNameCalls
  <2>3. ASSUME c \notin NoContext, NEW s \in Sids, sidOf' = [sidOf EXCEPT ![c] = s]
        PROVE  SidsNameCalls'
    <3>1. \A d \in Calls : sidOf'[d] # None <=> d \in taken' \ NoContext
      BY <1>0, <2>1, <2>3 DEF SidsNameCalls, TypeOK
    <3>2. \A r \in Sids : cache'[r] # None => sidOf'[cache'[r]] = r
      BY <1>0, <2>1 DEF SidsNameCalls, TypeOK
    <3>3. ASSUME NEW d \in Calls, apc'[d] = "send"
          PROVE  sidOf'[val'[d]] = sidOf'[d]
      <4>1. d # c /\ val[d] \in Calls /\ sidOf[val[d]] = sidOf[d] /\ sidOf[d] # None
        BY <2>1, <3>3 DEF SidsNameCalls, TypeInv, HoldsCalls
      <4> QED
        BY <1>0, <2>1, <4>1
    <3> QED
      BY <3>1, <3>2, <3>3 DEF SidsNameCalls
  <2> QED
    BY <2>2, <2>3 DEF TakeCall
<1>3. MessagesInOnePlace'
  BY DEF MessagesInOnePlace, InQueue, TakeCall, answerVars
<1>4. AnswersOwnCalls'
  BY <1>0 DEF AnswersOwnCalls, HandedOver, Recorded, TakeCall, writerVars, answerVars
<1>5. LinesOwed'
  BY <1>0 DEF LinesOwed, CdrOnlyIfOwed, AtMostOneCdr, HandedOver, Recorded, TakeCall,
     writerVars, answerVars
<1>6. PendingCallsCached'
  BY <1>0 DEF MessagesInOnePlace, PendingCallsCached, TypeOK, TypeInv, HoldsCalls,
     InQueue, TakeCall, answerVars
<1>7. NoAnswerStuck' /\ OfflineAnswerServed'
  BY <1>0 DEF NoAnswerStuck, OfflineAnswerServed, HandedOver, Recorded, TakeCall,
     writerVars, answerVars
<1> QED
  BY <1>1, <1>2, <1>3, <1>4, <1>5, <1>6, <1>7

LEMMA StoreCallKeeps ==
    ASSUME TypeInv, TypeOK', IInv, NEW t \in Threads, StoreCall(t)
    PROVE  IInv'
<1> USE NoneAssumption, TaskAssumption DEF IInv
<1>0. \A d \in Calls : Own(d)' <=> Own(d)
  BY OwnSame DEF StoreCall, threadVars
<1> USE <1>0
<1> DEFINE d == tcall[t]
<1>1. /\ tpc[t] = "store" /\ tpc' = [tpc EXCEPT ![t] = "enqueue"]
      /\ cache' = [cache EXCEPT ![sidOf[d]] = d]
      /\ d \in Calls /\ d \in taken \ NoContext /\ sidOf[d] \in Sids
      /\ UNCHANGED <<tcall, taken, sidOf, queue, atBrt, apc, val>>
  BY DEF StoreCall, ThreadAt, TypeInv, HoldsCalls, TypeOK, answerVars
<1>2. \A c \in Calls \ {d} : Own(c) /\ sidOf[c] \in Sids => cache'[sidOf[c]] = cache[sidOf[c]]
  BY <1>1, OwnNames DEF TypeOK
<1>3. cache'[sidOf[d]] = d
  BY <1>1 DEF TypeOK
<1>4. ThreadsOwnCalls'
  <2>1. \A c \in Calls : (InQueue(c)' <=> InQueue(c)) /\ (HandedOver(c)' <=> HandedOver(c))
    BY <1>1 DEF InQueue, HandedOver, Recorded, StoreCall, writerVars
  <2>2. \A u \in Threads : tpc[u] # "idle" => tcall[u] \in Calls
    BY DEF TypeInv, HoldsCalls
  <2>3. \A u \in Threads : tpc'[u] = IF u = t THEN "enqueue" ELSE tpc[u]
    BY <1>1 DEF TypeOK
  <2>4. \A u \in Threads, c \in Calls :
           Own(c)' /\ tpc'[u] = "enqueue" /\ tcall'[u] = c => cache'[sidOf'[c]] = c
    <3>1. ASSUME NEW u \in Threads, NEW c \in Calls, Own(c), tpc'[u] = "enqueue", tcall[u] = c,
                 c # d
          PROVE  cache'[sidOf[c]] = c
      <4>1. u # t /\ tpc[u] = "enqueue" /\ sidOf[c] \in Sids
        BY <1>1, <2>3, <3>1 DEF TypeInv, HoldsCalls, TypeOK
      <4> QED
        BY <1>2, <3>1, <4>1 DEF ThreadsOwnCalls
    <3> QED
      BY <1>1, <1>3, <3>1
  <2> QED
    BY <1>1, <2>1, <2>2, <2>3, <2>4 DEF ThreadsOwnCalls
<1>5. SidsNameCalls'
  BY <1>1 DEF SidsNameCalls, TypeOK
<1>6. PendingCallsCached'
  <2>1. ASSUME NEW c \in Calls, Own(c),
               InQueue(c) \/ (\E p \in Peers : c \in atBrt[p])
                          \/ apc[c] \in {"load", "send", "delete"}
        PROVE  cache'[sidOf[c]] = c
    <3>1. cache[sidOf[c]] = c /\ c \in taken \ NoContext
      BY <2>1 DEF PendingCallsCached, MessagesInOnePlace, AnswersOwnCalls
    <3>2. sidOf[c] \in Sids
      BY <3>1 DEF TypeInv, HoldsCalls
    <3> QED
      BY <1>2, <1>3, <2>1, <3>1, <3>2
  <2> QED
    BY <1>1, <2>1 DEF PendingCallsCached, InQueue
<1>7. /\ MessagesInOnePlace'
      /\ AnswersOwnCalls'
      /\ LinesOwed'
      /\ NoAnswerStuck'
      /\ OfflineAnswerServed'
  BY DEF MessagesInOnePlace, AnswersOwnCalls, LinesOwed, CdrOnlyIfOwed,
     AtMostOneCdr, NoAnswerStuck, OfflineAnswerServed, InQueue, HandedOver,
     Recorded, StoreCall, writerVars, answerVars
<1> QED
  BY <1>4, <1>5, <1>6, <1>7

LEMMA EnqueueMessageKeeps ==
    ASSUME TypeInv, TypeOK', IInv, NEW t \in Threads, EnqueueMessage(t)
    PROVE  IInv'
<1> USE NoneAssumption, TaskAssumption DEF IInv
<1>0. \A d \in Calls : Own(d)' <=> Own(d)
  BY OwnSame DEF EnqueueMessage, threadVars
<1> USE <1>0
<1>1. ThreadsOwnCalls'
  BY DEF ThreadsOwnCalls, TypeOK, InQueue, HandedOver, Recorded, EnqueueMessage,
     ThreadAt, writerVars, answerVars
<1>2. MessagesInOnePlace'
  BY SMTT(20) DEF ThreadsOwnCalls, MessagesInOnePlace, InQueue, EnqueueMessage, ThreadAt,
     answerVars
<1>3. PendingCallsCached'
  BY SMTT(20) DEF ThreadsOwnCalls, PendingCallsCached, InQueue, EnqueueMessage, ThreadAt,
     answerVars
<1>4. /\ SidsNameCalls'
      /\ AnswersOwnCalls'
      /\ LinesOwed'
      /\ NoAnswerStuck'
      /\ OfflineAnswerServed'
  BY DEF SidsNameCalls, AnswersOwnCalls, LinesOwed, CdrOnlyIfOwed, AtMostOneCdr,
     NoAnswerStuck, OfflineAnswerServed, HandedOver, Recorded, EnqueueMessage,
     writerVars, answerVars
<1> QED
  BY <1>1, <1>2, <1>3, <1>4

LEMMA DirectCdrKeeps ==
    ASSUME TypeInv, TypeOK', IInv, NEW t \in Threads, DirectCdr(t)
    PROVE  IInv'
<1> USE NoneAssumption, TaskAssumption DEF IInv
<1>0. \A d \in Calls : Own(d)' <=> Own(d)
  BY OwnSame DEF DirectCdr, threadVars
<1> USE <1>0
<1>1. ThreadsOwnCalls'
  BY DEF ThreadsOwnCalls, TypeOK, InQueue, HandedOver, Recorded, DirectCdr,
     ThreadAt, Receive, answerVars
<1>2. AnswersOwnCalls'
  BY DEF ThreadsOwnCalls, AnswersOwnCalls, LinesOwed, HandedOver, Recorded,
     DirectCdr, ThreadAt, Receive, WriterAt, answerVars
<1>3. LinesOwed'
  BY DEF ThreadsOwnCalls, LinesOwed, CdrOnlyIfOwed, AtMostOneCdr, TypeOK,
     WriterTypeOK, HandedOver, Recorded, DirectCdr, ThreadAt, Receive, WriterAt,
     answerVars
<1>4. OfflineAnswerServed'
  BY DEF OfflineAnswerServed, LinesOwed, HandedOver, Recorded, DirectCdr, Receive,
     WriterAt, answerVars
<1>5. /\ SidsNameCalls'
      /\ MessagesInOnePlace'
      /\ PendingCallsCached'
      /\ NoAnswerStuck'
  BY DEF SidsNameCalls, MessagesInOnePlace, PendingCallsCached, NoAnswerStuck,
     InQueue, DirectCdr, answerVars
<1> QED
  BY <1>1, <1>2, <1>3, <1>4, <1>5

LEMMA SendMessageKeeps ==
    ASSUME TypeInv, TypeOK', IInv, NEW p \in Peers, SendMessage(p)
    PROVE  IInv'
<1> USE NoneAssumption, TaskAssumption DEF IInv
<1>0. \A d \in Calls : Own(d)' <=> Own(d)
  BY OwnSame DEF SendMessage, threadVars
<1> USE <1>0
<1>1. ThreadsOwnCalls'
  BY DEF ThreadsOwnCalls, InQueue, HandedOver, Recorded, SendMessage, writerVars,
     threadVars, answerVars
<1>2. MessagesInOnePlace'
  <2> DEFINE h == Head(queue)
  <2>1. /\ Len(queue) \in Nat \ {0} /\ h = queue[1] /\ h \in Calls
        /\ Len(queue') = Len(queue) - 1
        /\ \A i \in 1 .. Len(queue') : queue'[i] = queue[i + 1]
    BY DEF SendMessage, TypeOK
  <2>2. /\ UNCHANGED <<taken, apc>>
        /\ \A q \in Peers : atBrt'[q] = atBrt[q] \/ (q = p /\ atBrt'[q] = atBrt[q] \cup {h})
    BY DEF SendMessage, threadVars, answerVars
  <2>3. \A i, j \in 1 .. Len(queue') : queue'[i] = queue'[j] => i = j
    <3>1. \A i \in 1 .. Len(queue') : i + 1 \in 1 .. Len(queue)
      BY <2>1
    <3> QED
      BY <2>1, <3>1 DEF MessagesInOnePlace
  <2>4. \A d \in Calls : InQueue(d)' => InQueue(d) /\ d # h
    <3>1. \A i \in 1 .. Len(queue') : i + 1 \in 1 .. Len(queue) /\ i + 1 # 1
      BY <2>1
    <3>2. 1 \in 1 .. Len(queue)
      BY <2>1
    <3> QED
      BY <2>1, <3>1, <3>2 DEF InQueue, MessagesInOnePlace
  <2>5. InQueue(h)
    BY <2>1 DEF InQueue
  <2> QED
    <3>1. h \in taken \ NoContext /\ apc[h] = "none" /\ \A q \in Peers : h \notin atBrt[q]
      BY <2>1, <2>5 DEF MessagesInOnePlace
    <3>2. \A d \in Calls : InQueue(d)' => /\ d \in taken \ NoContext
                                      /\ apc[d] = "none"
                                      /\ \A q \in Peers : d \notin atBrt'[q]
      BY <2>2, <2>4 DEF MessagesInOnePlace
    <3>3. \A q \in Peers : \A d \in atBrt'[q] :
             /\ d \in taken \ NoContext
             /\ apc[d] = "none"
             /\ \A r \in Peers : d \in atBrt'[r] => q = r
      BY <2>2, <3>1 DEF MessagesInOnePlace
    <3> QED
      BY <2>2, <2>3, <3>2, <3>3 DEF MessagesInOnePlace
<1>3. PendingCallsCached'
  BY DEF PendingCallsCached, InQueue, SendMessage, threadVars, answerVars
<1>4. /\ SidsNameCalls'
      /\ AnswersOwnCalls'
      /\ LinesOwed'
      /\ NoAnswerStuck'
      /\ OfflineAnswerServed'
  BY DEF SidsNameCalls, AnswersOwnCalls, LinesOwed, CdrOnlyIfOwed, AtMostOneCdr,
     NoAnswerStuck, OfflineAnswerServed, HandedOver, Recorded, SendMessage,
     writerVars, threadVars, answerVars
<1> QED
  BY <1>1, <1>2, <1>3, <1>4

LEMMA BreakLinkKeeps ==
    ASSUME TypeInv, TypeOK', IInv, NEW p \in Peers, BreakLink(p)
    PROVE  IInv'
<1> USE NoneAssumption, TaskAssumption DEF IInv
<1>0. \A d \in Calls : Own(d)' <=> Own(d)
  BY OwnSame DEF BreakLink, threadVars
<1> USE <1>0
<1>1. ThreadsOwnCalls'
  BY DEF ThreadsOwnCalls, InQueue, HandedOver, Recorded, BreakLink, writerVars,
     threadVars, answerVars
<1>2. MessagesInOnePlace'
  <2>1. /\ queue' = queue /\ taken' = taken /\ apc' = apc
        /\ \A q \in Peers : atBrt'[q] \subseteq atBrt[q]
    BY DEF BreakLink, threadVars, answerVars
  <2>2. \A i, j \in 1 .. Len(queue') : queue'[i] = queue'[j] => i = j
    BY <2>1 DEF MessagesInOnePlace
  <2>3. \A d \in Calls : InQueue(d)' <=> InQueue(d)
    BY <2>1 DEF InQueue
  <2> QED
    BY <2>1, <2>2, <2>3 DEF MessagesInOnePlace
<1>3. PendingCallsCached'
  BY DEF PendingCallsCached, InQueue, BreakLink, threadVars, answerVars
<1>4. /\ SidsNameCalls'
      /\ AnswersOwnCalls'
      /\ LinesOwed'
      /\ NoAnswerStuck'
      /\ OfflineAnswerServed'
  BY DEF SidsNameCalls, AnswersOwnCalls, LinesOwed, CdrOnlyIfOwed, AtMostOneCdr,
     NoAnswerStuck, OfflineAnswerServed, HandedOver, Recorded, BreakLink,
     writerVars, threadVars, answerVars
<1> QED
  BY <1>1, <1>2, <1>3, <1>4

LEMMA BrtAnswersKeeps ==
    ASSUME TypeInv, TypeOK', IInv, NEW p \in Peers, NEW c \in Calls,
           NEW k \in Codes \ {"none"}, BrtAnswers(p, c, k)
    PROVE  IInv'
<1> USE NoneAssumption, TaskAssumption DEF IInv
<1>0. \A d \in Calls : Own(d)' <=> Own(d)
  BY OwnSame DEF BrtAnswers, threadVars
<1> USE <1>0
<1>1. ThreadsOwnCalls'
  BY DEF ThreadsOwnCalls, InQueue, HandedOver, Recorded, BrtAnswers, writerVars,
     threadVars
<1>2. MessagesInOnePlace'
  <2>1. /\ queue' = queue /\ taken' = taken /\ c \in atBrt[p]
        /\ (\A d \in Calls \ {c} : apc'[d] = apc[d])
        /\ \A q \in Peers : atBrt'[q] \subseteq atBrt[q] /\ c \notin atBrt'[p]
    BY DEF TypeOK, BrtAnswers, threadVars
  <2>2. \A i, j \in 1 .. Len(queue') : queue'[i] = queue'[j] => i = j
    BY <2>1 DEF MessagesInOnePlace
  <2>3. \A d \in Calls : InQueue(d)' <=> InQueue(d)
    BY <2>1 DEF InQueue
  <2> QED
    BY <2>1, <2>2, <2>3 DEF MessagesInOnePlace, TypeOK
<1>3. AnswersOwnCalls'
  BY DEF MessagesInOnePlace, AnswersOwnCalls, LinesOwed, CdrOnlyIfOwed, TypeOK,
     HandedOver, Recorded, BrtAnswers, writerVars, threadVars
<1>4. LinesOwed'
  <2>1. c \in atBrt[p] /\ apc[c] = "none" /\ code[c] = "none" /\ c \notin NoContext
    BY DEF BrtAnswers, MessagesInOnePlace, AnswersOwnCalls
  <2>2. /\ \A d \in Calls \ {c} : code'[d] = code[d]
        /\ UNCHANGED <<wpc, hold, file, dropped, taken>>
    BY DEF BrtAnswers, writerVars, threadVars
  <2> QED
    BY <2>1, <2>2 DEF LinesOwed, CdrOnlyIfOwed, AtMostOneCdr, HandedOver, Recorded
<1>5. PendingCallsCached'
  BY DEF PendingCallsCached, InQueue, BrtAnswers, threadVars
<1>6. NoAnswerStuck'
  BY DEF NoAnswerStuck, BrtAnswers
<1>7. OfflineAnswerServed'
  BY DEF OfflineAnswerServed, TypeOK, HandedOver, Recorded, BrtAnswers, writerVars
<1>8. SidsNameCalls'
  BY DEF SidsNameCalls, BrtAnswers, threadVars
<1> QED
  BY <1>1, <1>2, <1>3, <1>4, <1>5, <1>6, <1>7, <1>8

LEMMA LoadEntryKeeps ==
    ASSUME TypeInv, TypeOK', IInv, NEW c \in Calls, LoadEntry(c)
    PROVE  IInv'
<1> USE NoneAssumption, TaskAssumption DEF IInv
<1>0. \A d \in Calls : Own(d)' <=> Own(d)
  BY OwnSame DEF LoadEntry, threadVars
<1> USE <1>0
<1>1. ThreadsOwnCalls'
  BY DEF ThreadsOwnCalls, InQueue, HandedOver, Recorded, LoadEntry, writerVars,
     threadVars
<1>2. MessagesInOnePlace'
  <2>1. /\ queue' = queue /\ taken' = taken /\ apc[c] # "none" /\ atBrt' = atBrt
        /\ \A d \in Calls \ {c} : apc'[d] = apc[d]
    BY DEF LoadEntry, threadVars
  <2>2. \A i, j \in 1 .. Len(queue') : queue'[i] = queue'[j] => i = j
    BY <2>1 DEF MessagesInOnePlace
  <2>3. \A d \in Calls : InQueue(d)' <=> InQueue(d)
    BY <2>1 DEF InQueue
  <2> QED
    BY <2>1, <2>2, <2>3 DEF MessagesInOnePlace, TypeOK
<1>3. AnswersOwnCalls'
  BY DEF AnswersOwnCalls, PendingCallsCached, TypeOK, HandedOver, Recorded,
     LoadEntry, writerVars, threadVars
<1>4. PendingCallsCached'
  BY DEF PendingCallsCached, InQueue, LoadEntry, threadVars
<1>5. NoAnswerStuck'
  BY DEF NoAnswerStuck, PendingCallsCached, LoadEntry
<1>6. OfflineAnswerServed'
  BY DEF OfflineAnswerServed, HandedOver, Recorded, LoadEntry, writerVars
<1>7. SidsNameCalls'
  <2>1. /\ apc[c] = "load" /\ UNCHANGED <<taken, sidOf, cache>>
        /\ apc' = [apc EXCEPT ![c] = IF cache[sidOf[c]] = None THEN "stuck" ELSE "send"]
        /\ val' = [val EXCEPT ![c] = cache[sidOf[c]]]
    BY DEF LoadEntry, threadVars
  <2>2. sidOf[c] \in Sids
    BY <2>1 DEF TypeInv, HoldsCalls
  <2>3. apc'[c] = "send" => val'[c] = cache[sidOf[c]] /\ cache[sidOf[c]] # None
    BY <2>1 DEF TypeOK
  <2>4. \A d \in Calls \ {c} : apc'[d] = apc[d] /\ val'[d] = val[d]
    BY <2>1 DEF TypeOK
  <2> QED
    BY <2>1, <2>2, <2>3, <2>4 DEF SidsNameCalls
<1>8. LinesOwed'
  BY DEF LinesOwed, CdrOnlyIfOwed, AtMostOneCdr, HandedOver, Recorded, LoadEntry,
     writerVars, threadVars
<1> QED
  BY <1>1, <1>2, <1>3, <1>4, <1>5, <1>6, <1>7, <1>8

LEMMA SendCdrKeeps ==
    ASSUME TypeInv, TypeOK', IInv, NEW c \in Calls, SendCdr(c)
    PROVE  IInv'
<1> USE NoneAssumption, TaskAssumption DEF IInv
<1>0. \A d \in Calls : Own(d)' <=> Own(d)
  BY OwnSame DEF SendCdr, threadVars
<1> USE <1>0
<1> DEFINE v == val[c]
           w == TaskOf[val[c]]
<1>9. /\ apc[c] = "send" /\ apc' = [apc EXCEPT ![c] = "delete"]
      /\ wpc[w] = "recv" /\ wpc' = [wpc EXCEPT ![w] = "write"]
      /\ hold' = [hold EXCEPT ![w] = v]
      /\ UNCHANGED <<file, dropped, code, val, tpc, tcall, taken, sidOf, cache, queue, atBrt>>
      /\ v \in Calls /\ w \in Tasks /\ hold[w] = None
  BY DEF SendCdr, AnswerAt, Receive, WriterAt, TypeInv, HoldsCalls, TypeOK, LinesOwed, threadVars
<1>10. /\ v \in taken \ NoContext /\ sidOf[v] = sidOf[c] /\ sidOf[c] # None
       /\ \A d \in Calls : Own(d) /\ (d = v \/ d = c) => v = c
  <2>1. sidOf[v] = sidOf[c] /\ sidOf[c] # None
    BY <1>9 DEF AnswersOwnCalls, SidsNameCalls
  <2> QED
    BY <1>9, <2>1, OwnNames DEF SidsNameCalls
<1>11. \A d \in Calls \ {v} : HandedOver(d)' <=> HandedOver(d)
  BY <1>9 DEF HandedOver, Recorded, TypeOK, WriterTypeOK
<1>12. /\ \A d \in Calls : d = v => HandedOver(d)'
       /\ \A d \in Calls : Recorded(d)' <=> Recorded(d)
  BY <1>9 DEF HandedOver, Recorded, TypeOK, WriterTypeOK
<1>1. ThreadsOwnCalls'
  <2>1. \A d \in Calls : InQueue(d)' <=> InQueue(d)
    BY <1>9 DEF InQueue
  <2>2. \A u \in Threads : tpc[u] # "idle" => tcall[u] \in Calls
    BY DEF TypeInv, HoldsCalls
  <2>3. \A u \in Threads : tpc[u] = "direct" => tcall[u] # v
    BY <1>10 DEF ThreadsOwnCalls
  <2>4. \A d \in Calls : apc[d] = "none" => apc'[d] = "none"
    BY <1>9 DEF TypeOK
  <2> QED
    BY <1>9, <1>11, <2>1, <2>2, <2>3, <2>4 DEF ThreadsOwnCalls
<1>2. MessagesInOnePlace'
  <2>1. /\ queue' = queue /\ taken' = taken /\ apc[c] # "none" /\ atBrt' = atBrt
        /\ \A d \in Calls \ {c} : apc'[d] = apc[d]
    BY DEF SendCdr, AnswerAt, threadVars
  <2>2. \A i, j \in 1 .. Len(queue') : queue'[i] = queue'[j] => i = j
    BY <2>1 DEF MessagesInOnePlace
  <2>3. \A d \in Calls : InQueue(d)' <=> InQueue(d)
    BY <2>1 DEF InQueue
  <2> QED
    BY <2>1, <2>2, <2>3 DEF MessagesInOnePlace, TypeOK
<1>3. AnswersOwnCalls'
  <2>1. \A d \in Calls \ {c} : apc'[d] = apc[d]
    BY <1>9 DEF TypeOK
  <2>2. apc'[c] = "delete"
    BY <1>9 DEF TypeOK
  <2>3. \A d \in Calls \ {c} : Own(d) => (HandedOver(d)' <=> HandedOver(d))
    BY <1>10, <1>11
  <2>4. Own(c) => HandedOver(c)'
    BY <1>10, <1>12
  <2> QED
    BY <1>9, <2>1, <2>2, <2>3, <2>4 DEF AnswersOwnCalls
<1>4. LinesOwed'
  <2>1. \A u \in Tasks : hold'[u] # None <=> wpc'[u] = "write"
    BY <1>9 DEF LinesOwed, TypeOK, WriterTypeOK
  <2>2. CdrOnlyIfOwed'
    <3>1. Own(v) => code[v] = "offline"
      BY <1>9, <1>10 DEF AnswersOwnCalls
    <3> QED
      BY <1>9, <1>11, <3>1 DEF LinesOwed, CdrOnlyIfOwed
  <2>3. AtMostOneCdr'
    <3>1. ASSUME NEW d \in Calls, Own(d)
          PROVE  /\ \A u \in Tasks : hold'[u] = d => ~Recorded(d)'
                 /\ \A u, x \in Tasks : hold'[u] = d /\ hold'[x] = d => u = x
      <4>1. CASE d = v
        <5>1. ~HandedOver(d)
          BY <1>9, <1>10, <3>1, <4>1 DEF AnswersOwnCalls
        <5>2. ~Recorded(d) /\ \A u \in Tasks : hold[u] # d
          BY <5>1 DEF HandedOver
        <5>3. \A u \in Tasks : hold'[u] = d => u = w
          BY <1>9, <5>2 DEF TypeOK, WriterTypeOK
        <5> QED
          BY <1>12, <5>2, <5>3
      <4>2. CASE d # v
        <5>1. \A u \in Tasks : hold'[u] = d => hold[u] = d
          BY <1>9, <4>2 DEF TypeOK, WriterTypeOK
        <5> QED
          BY <1>12, <3>1, <5>1 DEF LinesOwed, AtMostOneCdr
      <4> QED
        BY <4>1, <4>2
    <3> QED
      BY <1>9, <3>1 DEF LinesOwed, AtMostOneCdr
  <2> QED
    BY <2>1, <2>2, <2>3 DEF LinesOwed
<1>5. PendingCallsCached'
  BY DEF PendingCallsCached, InQueue, SendCdr, AnswerAt, threadVars
<1>6. NoAnswerStuck'
  BY DEF NoAnswerStuck, SendCdr, AnswerAt
<1>7. OfflineAnswerServed'
  BY DEF OfflineAnswerServed, LinesOwed, HandedOver, Recorded, SendCdr, AnswerAt,
     Receive, WriterAt
<1>8. SidsNameCalls'
  <2>1. \A d \in Calls : apc'[d] = "send" => apc[d] = "send"
    BY <1>9 DEF TypeOK
  <2> QED
    BY <1>9, <2>1 DEF SidsNameCalls
<1> QED
  BY <1>1, <1>2, <1>3, <1>4, <1>5, <1>6, <1>7, <1>8

LEMMA DeleteEntryKeeps ==
    ASSUME TypeInv, TypeOK', IInv, NEW c \in Calls, DeleteEntry(c)
    PROVE  IInv'
<1> USE NoneAssumption, TaskAssumption DEF IInv
<1>0. \A d \in Calls : Own(d)' <=> Own(d)
  BY OwnSame DEF DeleteEntry, threadVars
<1> USE <1>0
<1>9. /\ apc[c] = "delete" /\ apc' = [apc EXCEPT ![c] = "done"]
      /\ cache' = [cache EXCEPT ![sidOf[c]] = None]
      /\ UNCHANGED <<writerVars, tpc, tcall, taken, sidOf, queue, atBrt, code, val>>
      /\ c \in taken \ NoContext /\ sidOf[c] \in Sids
  BY DEF DeleteEntry, AnswerAt, AnswersOwnCalls, TypeInv, HoldsCalls, threadVars
<1>10. \A d \in Calls \ {c} : Own(d) /\ sidOf[d] \in Sids => cache'[sidOf[d]] = cache[sidOf[d]]
  BY <1>9, OwnNames DEF TypeOK
<1>11. \A d \in Calls \ {c} : apc'[d] = apc[d]
  BY <1>9 DEF TypeOK
<1>1. ThreadsOwnCalls'
  <2>1. \A d \in Calls : (InQueue(d)' <=> InQueue(d)) /\ (HandedOver(d)' <=> HandedOver(d))
    BY <1>9 DEF InQueue, HandedOver, Recorded, writerVars
  <2>2. \A u \in Threads : tpc[u] # "idle" => tcall[u] \in Calls
    BY DEF TypeInv, HoldsCalls
  <2>3. \A u \in Threads : tpc[u] \in {"store", "enqueue"} => tcall[u] # c
    BY <1>9 DEF ThreadsOwnCalls
  <2>4. \A u \in Threads, d \in Calls :
           Own(d)' /\ tpc'[u] = "enqueue" /\ tcall'[u] = d => cache'[sidOf'[d]] = d
    <3>1. ASSUME NEW u \in Threads, NEW d \in Calls, Own(d), tpc[u] = "enqueue", tcall[u] = d
          PROVE  cache'[sidOf[d]] = d
      <4>1. d # c /\ sidOf[d] \in Sids
        BY <2>3, <3>1 DEF TypeInv, HoldsCalls
      <4> QED
        BY <1>10, <3>1, <4>1 DEF ThreadsOwnCalls
    <3> QED
      BY <1>9, <3>1
  <2> QED
    BY <1>9, <1>11, <2>1, <2>2, <2>3, <2>4 DEF ThreadsOwnCalls
<1>2. SidsNameCalls'
  <2>1. \A d \in Calls : apc'[d] = "send" => apc[d] = "send"
    BY <1>9 DEF TypeOK
  <2> QED
    BY <1>9, <2>1 DEF SidsNameCalls, TypeOK
<1>3. MessagesInOnePlace'
  <2>1. /\ queue' = queue /\ taken' = taken /\ apc[c] # "none" /\ atBrt' = atBrt
        /\ (\A d \in Calls \ {c} : apc'[d] = apc[d]) /\ apc'[c] # "none"
    BY DEF DeleteEntry, AnswerAt, threadVars
  <2>2. \A i, j \in 1 .. Len(queue') : queue'[i] = queue'[j] => i = j
    BY <2>1 DEF MessagesInOnePlace
  <2>3. \A d \in Calls : InQueue(d)' <=> InQueue(d)
    BY <2>1 DEF InQueue
  <2> QED
    BY <2>1, <2>2, <2>3 DEF MessagesInOnePlace, TypeOK
<1>4. AnswersOwnCalls'
  BY DEF AnswersOwnCalls, HandedOver, Recorded, DeleteEntry, AnswerAt, writerVars,
     threadVars
<1>5. PendingCallsCached'
  <2>1. ASSUME NEW d \in Calls, Own(d),
               InQueue(d) \/ (\E p \in Peers : d \in atBrt[p])
                          \/ apc'[d] \in {"load", "send", "delete"}
        PROVE  cache'[sidOf[d]] = d
    <3>1. d # c
      BY <1>9, <2>1 DEF MessagesInOnePlace, TypeOK
    <3>2. cache[sidOf[d]] = d /\ d \in taken \ NoContext
      BY <1>11, <2>1, <3>1 DEF PendingCallsCached, MessagesInOnePlace, AnswersOwnCalls
    <3>3. sidOf[d] \in Sids
      BY <3>2 DEF TypeInv, HoldsCalls
    <3> QED
      BY <1>10, <2>1, <3>1, <3>2, <3>3
  <2> QED
    BY <1>9, <2>1 DEF PendingCallsCached, InQueue
<1>6. NoAnswerStuck'
  BY DEF NoAnswerStuck, DeleteEntry, AnswerAt
<1>7. OfflineAnswerServed'
  BY DEF OfflineAnswerServed, AnswersOwnCalls, HandedOver, Recorded, DeleteEntry,
     AnswerAt, writerVars
<1>8. LinesOwed'
  BY DEF LinesOwed, CdrOnlyIfOwed, AtMostOneCdr, HandedOver, Recorded, DeleteEntry,
     writerVars, threadVars
<1> QED
  BY <1>1, <1>2, <1>3, <1>4, <1>5, <1>6, <1>7, <1>8

LEMMA WriterKeeps ==
    ASSUME TypeInv, TypeOK', IInv, NEW t \in Tasks, Writer(t)
    PROVE  IInv'
<1> USE NoneAssumption, TaskAssumption DEF IInv
<1>0. \A d \in Calls : Own(d)' <=> Own(d)
  BY OwnSame DEF Writer, WriterFrame, threadVars
<1> USE <1>0
<1>1. ThreadsOwnCalls'
  BY DEF ThreadsOwnCalls, TypeOK, WriterTypeOK, InQueue, HandedOver, Recorded,
     Writer, WriterFrame, WriterStep, WriterProgress, OpenFirst, Rotate, AwaitLine,
     WriteLine, CreateFile, threadVars, answerVars
<1>2. AnswersOwnCalls'
  <2>1. \A d \in Calls : HandedOver(d)' <=> HandedOver(d)
    <3>1. CASE WriteLine(t)
      <4>1. hold[t] \in Calls
        BY <3>1 DEF WriteLine, WriterAt, TypeInv, HoldsCalls
      <4> QED
        BY <3>1, <4>1 DEF WriteLine, HandedOver, Recorded, TypeOK, WriterTypeOK
    <3>2. CASE ~WriteLine(t)
      BY <3>2 DEF HandedOver, Recorded, Writer, WriterStep, WriterProgress, OpenFirst, Rotate,
         AwaitLine, CreateFile
    <3> QED
      BY <3>1, <3>2
  <2>2. UNCHANGED <<apc, code, taken>>
    BY DEF Writer, WriterFrame, threadVars, answerVars
  <2> QED
    BY <2>1, <2>2 DEF AnswersOwnCalls
<1>3. LinesOwed'
  <2>1. CASE WriteLine(t)
    <3> DEFINE c == hold[t]
    <3>1. c \in Calls /\ (Own(c) => ~Recorded(c)) /\ hold' = [hold EXCEPT ![t] = None]
          /\ wpc[t] = "write" /\ wpc' = [wpc EXCEPT ![t] = "select"]
      BY <2>1 DEF LinesOwed, AtMostOneCdr, WriteLine, WriterAt, TypeInv, HoldsCalls
    <3>2. /\ \A d \in Calls : HandedOver(d)' => HandedOver(d)
          /\ \A d \in Calls \ {c} : file'[d] = file[d] /\ (d \in dropped' <=> d \in dropped)
      BY <2>1, <3>1 DEF WriteLine, HandedOver, Recorded, TypeOK, WriterTypeOK
    <3>6. Own(c) => /\ \A u \in Tasks : hold'[u] # c
                    /\ file'[c] <= 1 /\ (file'[c] > 0 => c \notin dropped')
      BY <2>1, <3>1 DEF LinesOwed, AtMostOneCdr, WriteLine, Recorded, TypeOK, WriterTypeOK
    <3>3. AtMostOneCdr'
      <4>1. ASSUME NEW d \in Calls, d # c, NEW u \in Tasks
            PROVE  /\ (hold'[u] = d => hold[u] = d)
                   /\ Recorded(d)' <=> Recorded(d)
        BY <3>1, <3>2, <4>1 DEF Recorded
      <4>2. ASSUME NEW d \in Calls, Own(d)
            PROVE  /\ file'[d] <= 1
                   /\ file'[d] > 0 => d \notin dropped'
                   /\ \A u \in Tasks : hold'[u] = d => ~Recorded(d)'
                   /\ \A u, v \in Tasks : hold'[u] = d /\ hold'[v] = d => u = v
        <5>1. CASE d = c
          BY <3>6, <4>2, <5>1
        <5>2. CASE d # c
          BY <3>2, <4>1, <4>2, <5>2 DEF LinesOwed, AtMostOneCdr
        <5> QED
          BY <5>1, <5>2
      <4> QED
        BY <4>2 DEF AtMostOneCdr
    <3>4. CdrOnlyIfOwed'
      BY <3>2 DEF LinesOwed, CdrOnlyIfOwed, Writer, WriterFrame, threadVars,
         answerVars
    <3>5. \A u \in Tasks : hold'[u] # None <=> wpc'[u] = "write"
      BY <3>1 DEF LinesOwed, TypeOK, WriterTypeOK
    <3> QED
      BY <3>3, <3>4, <3>5 DEF LinesOwed
  <2>2. CASE ~WriteLine(t)
    <3>1. /\ UNCHANGED <<hold, file, dropped, taken, code>>
          /\ \A u \in Tasks : wpc'[u] = "write" <=> wpc[u] = "write"
      BY <2>2 DEF TypeOK, WriterTypeOK, Writer, WriterFrame, WriterStep,
         WriterProgress, OpenFirst, Rotate, AwaitLine, CreateFile, PermissionError,
         NilFilePanic, WriterAt, threadVars, answerVars
    <3> QED
      BY <3>1 DEF LinesOwed, CdrOnlyIfOwed, AtMostOneCdr, HandedOver, Recorded
  <2> QED BY <2>1, <2>2
<1>4. OfflineAnswerServed'
  BY DEF OfflineAnswerServed, LinesOwed, TypeOK, WriterTypeOK, TypeInv, HoldsCalls,
     HandedOver, Recorded, Writer, WriterFrame, WriterStep, WriterProgress,
     OpenFirst, Rotate, AwaitLine, WriteLine, CreateFile, PermissionError,
     NilFilePanic, answerVars
<1>5. /\ SidsNameCalls'
      /\ MessagesInOnePlace'
      /\ PendingCallsCached'
      /\ NoAnswerStuck'
  BY DEF SidsNameCalls, MessagesInOnePlace, PendingCallsCached, NoAnswerStuck,
     InQueue, Writer, WriterFrame, threadVars, answerVars
<1> QED
  BY <1>1, <1>2, <1>3, <1>4, <1>5

(* The other actions move none of the state that IInv speaks of.                *)
LEMMA FrameKeeps ==
    ASSUME TypeOK', IInv, UNCHANGED <<writerVars, threadVars, cache, queue, atBrt, answerVars>>
    PROVE  IInv'
<1> USE DEF IInv, writerVars, threadVars, answerVars, InQueue, HandedOver, Recorded
<1>0. \A d \in Calls : Own(d)' <=> Own(d)
  BY OwnSame
<1> USE <1>0
<1>1. ThreadsOwnCalls' /\ SidsNameCalls'
  BY DEF ThreadsOwnCalls, SidsNameCalls
<1>2. MessagesInOnePlace' /\ AnswersOwnCalls'
  BY DEF MessagesInOnePlace, AnswersOwnCalls
<1>3. LinesOwed'
  BY DEF LinesOwed, CdrOnlyIfOwed, AtMostOneCdr
<1>4. PendingCallsCached' /\ NoAnswerStuck' /\ OfflineAnswerServed'
  BY DEF PendingCallsCached, NoAnswerStuck, OfflineAnswerServed
<1> QED
  BY <1>1, <1>2, <1>3, <1>4

-----------------------------------------------------------------------------
LEMMA IInvInit == Init => IInv
<1> SUFFICES ASSUME Init PROVE IInv
  OBVIOUS
<1>1. TypeOK
  BY TypeInit DEF TypeInv
<1>2. /\ \A c \in Calls : ~InQueue(c) /\ ~HandedOver(c)
      /\ Len(queue) = 0
  BY NoneAssumption DEF Init, WriterInit, InQueue, HandedOver, Recorded
<1>3. ThreadsOwnCalls /\ SidsNameCalls
  BY DEF Init, ThreadsOwnCalls, SidsNameCalls
<1>4. MessagesInOnePlace /\ AnswersOwnCalls
  BY <1>2 DEF Init, MessagesInOnePlace, AnswersOwnCalls
<1>5. LinesOwed
  BY <1>2, NoneAssumption DEF Init, WriterInit, LinesOwed, CdrOnlyIfOwed, AtMostOneCdr
<1>6. PendingCallsCached /\ NoAnswerStuck /\ OfflineAnswerServed
  BY <1>2 DEF Init, PendingCallsCached, NoAnswerStuck, OfflineAnswerServed
<1> QED
  BY <1>1, <1>3, <1>4, <1>5, <1>6 DEF IInv

LEMMA IInvStep == TypeInv /\ IInv /\ [Next]_vars => IInv'
<1> SUFFICES ASSUME TypeInv, IInv, [Next]_vars
             PROVE  IInv'
  OBVIOUS
<1>1. TypeOK'
  BY TypeStep DEF TypeInv
<1>2. CASE UNCHANGED vars
  BY <1>1, <1>2, FrameKeeps DEF vars
<1>3. CASE EndDial \/ CheckStarted \/ EndStep
  BY <1>1, <1>3, FrameKeeps DEF EndDial, CheckStarted, EndStep, CancelContext, SetGostop, Exit
<1>4. ASSUME NEW t \in Threads, ThreadStep(t) PROVE IInv'
  BY <1>1, <1>4, TakeCallKeeps, StoreCallKeeps, EnqueueMessageKeeps, DirectCdrKeeps
     DEF ThreadStep
<1>5. ASSUME NEW p \in Peers, SenderStep(p) PROVE IInv'
  <2>1. CASE SendMessage(p)
    BY <1>1, <2>1, SendMessageKeeps
  <2>2. CASE DialPeer(p) \/ CloseNotified(p) \/ Reconnected(p) \/ ReconnectFails(p)
             \/ StopSender(p)
    BY <1>1, <2>2, FrameKeeps DEF DialPeer, CloseNotified, Reconnected, ReconnectFails,
       StopSender
  <2> QED BY <1>5, <2>1, <2>2 DEF SenderStep
<1>6. ASSUME NEW p \in Peers, NetworkStep(p) PROVE IInv'
  BY <1>1, <1>6, BreakLinkKeeps, BrtAnswersKeeps DEF NetworkStep
<1>7. ASSUME NEW c \in Calls, AnswerStep(c) PROVE IInv'
  BY <1>1, <1>7, LoadEntryKeeps, SendCdrKeeps, DeleteEntryKeeps DEF AnswerStep
<1>8. ASSUME NEW t \in Tasks, Writer(t) PROVE IInv'
  BY <1>1, <1>8, WriterKeeps
<1> QED
  BY <1>2, <1>3, <1>4, <1>5, <1>6, <1>7, <1>8 DEF Next

LEMMA Invariance == Spec => [](TypeInv /\ IInv)
BY TypeInit, TypeStep, IInvInit, IInvStep, PTL DEF Spec

(* A pending call stays in the cache, and no answer blocks for good on a        *)
(* missing channel, unless another call drew the session id.                    *)
THEOREM CacheCorrect == Spec => [](PendingCallsCached /\ NoAnswerStuck)
<1>1. IInv => PendingCallsCached /\ NoAnswerStuck
  BY DEF IInv
<1> QED
  BY <1>1, Invariance, PTL

(* Every CDR of a call whose session id no other call drew is owed, none is     *)
(* written twice, and every answer that asks for a CDR gets that of its call.   *)
THEOREM CdrsCorrect == Spec => [](AtMostOneCdr /\ CdrOnlyIfOwed /\ OfflineAnswerServed)
<1>1. IInv => AtMostOneCdr /\ CdrOnlyIfOwed /\ OfflineAnswerServed
  BY DEF IInv, LinesOwed
<1> QED
  BY <1>1, Invariance, PTL

-----------------------------------------------------------------------------
(* A stored call leaves the cache by its own answer only.                       *)
LEMMA CacheChanges ==
    ASSUME Next
    PROVE  \/ UNCHANGED cache
           \/ \E t \in Threads : StoreCall(t)
           \/ \E c \in Calls : DeleteEntry(c)
<1>1. ASSUME NEW p \in Peers, SenderStep(p) PROVE UNCHANGED cache
  BY <1>1 DEF SenderStep, DialPeer, SendMessage, CloseNotified, Reconnected,
              ReconnectFails, StopSender
<1>2. ASSUME NEW p \in Peers, NetworkStep(p) PROVE UNCHANGED cache
  BY <1>2 DEF NetworkStep, BreakLink, BrtAnswers
<1>3. ASSUME NEW c \in Calls, LoadEntry(c) \/ SendCdr(c) PROVE UNCHANGED cache
  BY <1>3 DEF LoadEntry, SendCdr
<1>4. ASSUME NEW t \in Threads, ThreadStep(t), ~StoreCall(t) PROVE UNCHANGED cache
  BY <1>4 DEF ThreadStep, TakeCall, EnqueueMessage, DirectCdr
<1>5. CASE EndDial \/ CheckStarted \/ EndStep
  BY <1>5 DEF EndDial, CheckStarted, EndStep, CancelContext, SetGostop, Exit
<1>6. ASSUME NEW t \in Tasks, Writer(t) PROVE UNCHANGED cache
  BY <1>6 DEF Writer, WriterFrame
<1> QED
  BY <1>1, <1>2, <1>3, <1>4, <1>5, <1>6 DEF Next, AnswerStep

CacheStep == \A c \in Calls : Own(c) /\ sidOf[c] # None /\ cache[sidOf[c]] = c
                                  => cache'[sidOf[c]] = c \/ apc[c] = "delete"

LEMMA CacheStepHolds ==
    ASSUME TypeInv, IInv, [Next]_vars
    PROVE  [CacheStep]_vars
<1> USE NoneAssumption DEF IInv
<1>1. CASE UNCHANGED vars
  BY <1>1
<1>2. CASE Next
  <2>1. CASE UNCHANGED cache
    BY <2>1 DEF CacheStep
  <2>2. ASSUME NEW t \in Threads, StoreCall(t) PROVE CacheStep
    <3>1. tcall[t] \in taken \ NoContext /\ tcall[t] \in Calls
      BY <2>2 DEF StoreCall, ThreadAt, ThreadsOwnCalls, TypeOK
    <3>2. \A c \in Calls : Own(c) /\ sidOf[c] # None /\ c # tcall[t]
                               => sidOf[c] # sidOf[tcall[t]]
      BY <3>1, OwnNames
    <3> QED
      BY <2>2, <3>1, <3>2 DEF CacheStep, StoreCall, TypeOK
  <2>3. ASSUME NEW c \in Calls, DeleteEntry(c) PROVE CacheStep
    <3>1. apc[c] = "delete"
      BY <2>3 DEF DeleteEntry, AnswerAt
    <3>2. \A d \in Calls : Own(d) /\ sidOf[d] # None /\ d # c => sidOf[d] # sidOf[c]
      BY OwnNames
    <3> QED
      BY <2>3, <3>1, <3>2 DEF CacheStep, DeleteEntry, TypeOK
  <2> QED
    BY <1>2, <2>1, <2>2, <2>3, CacheChanges
<1> QED
  BY <1>1, <1>2

(* The cache never loses a call to another call or to another call's answer,    *)
(* unless that other call drew the same session id.                             *)
THEOREM CacheKeepsCalls == Spec => OnlyOwnAnswerDeletes
<1>1. TypeInv /\ IInv /\ [Next]_vars => [CacheStep]_vars
  BY CacheStepHolds
<1>2. Spec => [][CacheStep]_vars
  BY <1>1, Invariance, PTL DEF Spec
<1> QED
  BY <1>2 DEF OnlyOwnAnswerDeletes, CacheStep

-----------------------------------------------------------------------------
(* DiameterClient implements OfflineLedger for a call with a session id of its   *)
(* own: each step moves one call at most, and if that call has, by a step of     *)
(* the ledger.                                                                   *)

(* What the ledger's status of a call depends on.                               *)
LEMMA StatusSame ==
    ASSUME NEW c \in Calls,
           Recorded(c)' <=> Recorded(c),
           code'[c] = code[c],
           c \in taken' <=> c \in taken,
           BeforeStore(c)' <=> BeforeStore(c)
    PROVE  Status(c)' = Status(c)
BY DEF Status

LEMMA LedgerStutters ==
    ASSUME file' = file, \A c \in Calls : Status(c)' = Status(c)
    PROVE  LedgerStep
BY DEF LedgerStep

(* A step that moves call c alone.                                              *)
LEMMA LedgerAdvances ==
    ASSUME NEW c \in Calls,
           \A d \in Calls \ {c} : Status(d)' = Status(d) /\ file'[d] = file[d],
           Own(c)' => Ledger!CallStep(c)
    PROVE  LedgerStep
BY DEF LedgerStep

LEMMA LedgerMoves ==
    ASSUME NEW c \in Calls, NEW from, NEW to,
           Status(c) = from, Status(c)' = to,
           \A d \in Calls \ {c} : Status(d)' = Status(d)
    PROVE  Ledger!Move(c, from, to)
<1>1. [d \in Calls |-> Status(d)]' = [[d \in Calls |-> Status(d)] EXCEPT ![c] = to]
  OBVIOUS
<1> QED
  BY <1>1 DEF Ledger!Move

-----------------------------------------------------------------------------
LEMMA RefinementInit == Init => Ledger!LInit
<1> SUFFICES ASSUME Init PROVE Ledger!LInit
  OBVIOUS
<1>1. \A c \in Calls : ~Recorded(c) /\ Status(c) = "new"
  <2>1. ASSUME NEW c \in Calls
        PROVE  ~Recorded(c) /\ code[c] = "none" /\ c \notin taken
    <3>1. file[c] = 0 /\ c \notin dropped
      BY DEF Init, WriterInit
    <3>2. ~Recorded(c)
      BY <3>1 DEF Recorded
    <3> QED
      BY <3>2 DEF Init
  <2> QED
    BY <2>1 DEF Status
<1> QED
  BY <1>1 DEF Init, WriterInit, Ledger!LInit

(* A call without Service-Context-Id owes its CDR when it is taken; the others  *)
(* are asked only once they are in the cache.                                   *)
LEMMA TakeCallRefines ==
    ASSUME TypeInv, IInv, NEW t \in Threads, NEW c \in Calls, TakeCall(t, c)
    PROVE  LedgerStep
<1> USE NoneAssumption, TaskAssumption DEF IInv
<1>1. /\ c \notin taken /\ taken' = taken \cup {c}
      /\ tpc[t] = "idle" /\ tcall' = [tcall EXCEPT ![t] = c]
      /\ UNCHANGED <<file, dropped, code>>
  BY DEF TakeCall, ThreadAt, writerVars, answerVars
<1>2. ~Recorded(c) /\ code[c] = "none" /\ Status(c) = "new"
  <2>1. Own(c)
    BY <1>1 DEF SidsNameCalls, Own
  <2> QED
    BY <1>1, <2>1 DEF AnswersOwnCalls, LinesOwed, CdrOnlyIfOwed, HandedOver, Status
<1>3. \A d \in Calls : Recorded(d)' <=> Recorded(d)
  BY <1>1 DEF Recorded
<1>4. \A d \in Calls \ {c} : Status(d)' = Status(d)
  <2>1. \A d \in Calls \ {c} : BeforeStore(d)' <=> BeforeStore(d)
    <3>1. /\ tpc[t] = "idle" /\ tcall'[t] = c
          /\ \A u \in Threads \ {t} : tpc'[u] = tpc[u] /\ tcall'[u] = tcall[u]
      BY <1>1 DEF TypeOK, TakeCall, ThreadAt
    <3>2. QED
      BY <3>1 DEF BeforeStore
  <2> QED
    BY <1>1, <1>3, <2>1, StatusSame
<1>5. CASE c \in NoContext
  <2>1. Status(c)' = "owed"
    BY <1>1, <1>2, <1>3, <1>5 DEF Status
  <2>2. Ledger!OweAtOnce(c)
    BY <1>1, <1>2, <1>4, <2>1, LedgerMoves DEF Ledger!OweAtOnce
  <2> QED
    BY <1>1, <1>4, <2>2, LedgerAdvances DEF Ledger!CallStep
<1>6. CASE c \notin NoContext
  <2>1. tpc'[t] = "store" /\ tcall'[t] = c
    BY <1>1, <1>6 DEF TakeCall, ThreadAt, TypeOK
  <2>2. BeforeStore(c)'
    BY <2>1 DEF BeforeStore
  <2>3. Status(c)' = "new"
    BY <1>1, <1>2, <1>3, <1>6, <2>2 DEF Status
  <2> QED
    BY <1>1, <1>2, <1>4, <2>3, LedgerStutters
<1> QED
  BY <1>5, <1>6

LEMMA StoreCallRefines ==
    ASSUME TypeInv, IInv, NEW t \in Threads, StoreCall(t)
    PROVE  LedgerStep
<1> USE NoneAssumption DEF IInv
<1> DEFINE c == tcall[t]
<1>1. /\ tpc[t] = "store" /\ tpc' = [tpc EXCEPT ![t] = "enqueue"]
      /\ UNCHANGED <<tcall, taken, file, dropped, code>>
  BY DEF StoreCall, ThreadAt, writerVars, answerVars
<1>2. c \in Calls /\ c \in taken \ NoContext /\ code[c] = "none"
  BY <1>1 DEF ThreadsOwnCalls, AnswersOwnCalls, TypeOK
<1>3. \A d \in Calls : Recorded(d)' <=> Recorded(d)
  BY <1>1 DEF Recorded
<1>4. BeforeStore(c) /\ ~BeforeStore(c)'
  BY <1>1, <1>2 DEF BeforeStore, ThreadsOwnCalls, TypeOK
<1>5. Own(c) => Status(c) = "new" /\ Status(c)' = "asked"
  <2>1. Own(c) => ~Recorded(c)
    BY <1>2 DEF LinesOwed, CdrOnlyIfOwed, HandedOver
  <2> QED
    BY <1>1, <1>2, <1>3, <1>4, <2>1 DEF Status
<1>6. \A d \in Calls \ {c} : Status(d)' = Status(d)
  <2>1. \A d \in Calls \ {c} : BeforeStore(d)' <=> BeforeStore(d)
    BY <1>1 DEF BeforeStore, TypeOK
  <2> QED
    BY <1>1, <1>3, <2>1, StatusSame
<1>7. Own(c) => Ledger!Ask(c)
  BY <1>1, <1>2, <1>5, <1>6, LedgerMoves DEF Ledger!Ask
<1>8. Own(c)' <=> Own(c)
  BY <1>2, OwnSame DEF StoreCall
<1> QED
  BY <1>1, <1>2, <1>6, <1>7, <1>8, LedgerAdvances DEF Ledger!CallStep

LEMMA BrtAnswersRefines ==
    ASSUME TypeInv, IInv, NEW p \in Peers, NEW c \in Calls, NEW k \in Codes \ {"none"},
           BrtAnswers(p, c, k)
    PROVE  LedgerStep
<1> USE NoneAssumption DEF IInv
<1>1. /\ c \in atBrt[p] /\ code' = [code EXCEPT ![c] = k]
      /\ UNCHANGED <<tpc, tcall, taken, file, dropped>>
  BY DEF BrtAnswers, writerVars, threadVars
<1>2. /\ c \in taken \ NoContext /\ code[c] = "none"
      /\ Own(c) => ~Recorded(c)
  BY <1>1 DEF MessagesInOnePlace, AnswersOwnCalls, LinesOwed, CdrOnlyIfOwed, HandedOver
<1>3. ~BeforeStore(c)
  BY <1>1 DEF BeforeStore, ThreadsOwnCalls
<1>4. \A d \in Calls : (Recorded(d)' <=> Recorded(d)) /\ (BeforeStore(d)' <=> BeforeStore(d))
  BY <1>1 DEF Recorded, BeforeStore
<1>5. (Own(c) => Status(c) = "asked") /\ code'[c] = k
  BY <1>1, <1>2, <1>3 DEF Status, TypeOK
<1>6. \A d \in Calls \ {c} : Status(d)' = Status(d)
  BY <1>1, <1>4, StatusSame DEF TypeOK
<1>7. ASSUME Own(c)
      PROVE  Ledger!CallStep(c)
  <2>1. CASE k = "offline"
    <3>1. Status(c)' = "owed"
      BY <1>2, <1>4, <1>5, <1>7, <2>1 DEF Status
    <3>2. Ledger!AnswerOffline(c)
      BY <1>1, <1>5, <1>6, <1>7, <3>1, LedgerMoves DEF Ledger!AnswerOffline
    <3> QED
      BY <3>2 DEF Ledger!CallStep
  <2>2. CASE k = "other"
    <3>1. Status(c)' = "closed"
      BY <1>2, <1>4, <1>5, <1>7, <2>2 DEF Status
    <3>2. Ledger!AnswerCharged(c)
      BY <1>1, <1>5, <1>6, <1>7, <3>1, LedgerMoves DEF Ledger!AnswerCharged
    <3> QED
      BY <3>2 DEF Ledger!CallStep
  <2> QED
    BY <2>1, <2>2 DEF Codes
<1>8. Own(c)' <=> Own(c)
  BY OwnSame DEF BrtAnswers, threadVars
<1> QED
  BY <1>1, <1>6, <1>7, <1>8, LedgerAdvances

LEMMA WriterRefines ==
    ASSUME TypeInv, IInv, NEW t \in Tasks, Writer(t)
    PROVE  LedgerStep
<1> USE NoneAssumption DEF IInv
<1>1. UNCHANGED <<tpc, tcall, taken, code>>
  BY DEF Writer, WriterFrame, threadVars, answerVars
<1>2. \A d \in Calls : BeforeStore(d)' <=> BeforeStore(d)
  BY <1>1 DEF BeforeStore
<1>3. CASE WriteLine(t)
  <2>1. PICK c \in Calls : c = hold[t] /\ HandedOver(c) /\ (Own(c) => ~Recorded(c))
    BY <1>3 DEF TypeInv, HoldsCalls, WriteLine, WriterAt, LinesOwed, AtMostOneCdr, HandedOver
  <2>2. Own(c) => Status(c) = "owed"
    BY <2>1 DEF LinesOwed, CdrOnlyIfOwed, AnswersOwnCalls, Status
  <2>3. \A d \in Calls \ {c} : file'[d] = file[d] /\ (d \in dropped' <=> d \in dropped)
    BY <1>3, <2>1 DEF WriteLine, TypeOK, WriterTypeOK
  <2>4. \A d \in Calls \ {c} : Status(d)' = Status(d)
    BY <1>1, <1>2, <2>3, StatusSame DEF Recorded
  <2>5. ASSUME Own(c), file' = [file EXCEPT ![c] = @ + 1], UNCHANGED dropped
        PROVE  Ledger!CallStep(c)
    <3>1. Recorded(c)'
      BY <2>1, <2>5 DEF Recorded, TypeOK, WriterTypeOK
    <3>2. Status(c)' = "closed"
      BY <3>1 DEF Status
    <3>3. Ledger!Record(c)
      BY <2>1, <2>2, <2>4, <2>5, <3>2, LedgerMoves DEF Ledger!Record
    <3> QED
      BY <3>3 DEF Ledger!CallStep
  <2>6. ASSUME Own(c), dropped' = dropped \cup {c}, UNCHANGED file
        PROVE  Ledger!CallStep(c)
    <3>1. Recorded(c)'
      BY <2>6 DEF Recorded
    <3>2. Status(c)' = "closed"
      BY <3>1 DEF Status
    <3>3. Ledger!Drop(c)
      BY <2>1, <2>2, <2>4, <2>6, <3>2, LedgerMoves DEF Ledger!Drop
    <3> QED
      BY <3>3 DEF Ledger!CallStep
  <2>7. Own(c)' <=> Own(c)
    BY OwnSame DEF Writer, WriterFrame, threadVars
  <2>8. Own(c)' => Ledger!CallStep(c)
    BY <1>3, <2>1, <2>5, <2>6, <2>7 DEF WriteLine
  <2> QED
    BY <2>1, <2>3, <2>4, <2>8, LedgerAdvances
<1>4. CASE ~WriteLine(t)
  <2>1. UNCHANGED <<file, dropped>>
    BY <1>4 DEF Writer, WriterStep, WriterProgress, OpenFirst, Rotate, AwaitLine, CreateFile
  <2> QED
    BY <1>1, <1>2, <2>1, StatusSame, LedgerStutters DEF Recorded
<1> QED
  BY <1>3, <1>4

(* A step that leaves alone what the ledger reads.                              *)
LEMMA OthersRefine ==
    ASSUME UNCHANGED <<file, dropped, code, taken>>,
           \A c \in Calls : BeforeStore(c)' <=> BeforeStore(c)
    PROVE  LedgerStep
<1>1. \A c \in Calls : Recorded(c)' <=> Recorded(c)
  BY DEF Recorded
<1> QED
  BY <1>1, StatusSame, LedgerStutters

LEMMA RefinementStep ==
    TypeInv /\ IInv /\ [Next]_vars => LedgerStep
<1> SUFFICES ASSUME TypeInv, IInv, [Next]_vars
             PROVE  LedgerStep
  OBVIOUS
<1>1. CASE UNCHANGED <<file, dropped, code, taken, tpc, tcall>>
  BY <1>1, OthersRefine DEF BeforeStore
<1>2. CASE UNCHANGED vars
  BY <1>1, <1>2 DEF vars, writerVars, threadVars, answerVars
<1>3. CASE EndDial \/ CheckStarted \/ EndStep
  BY <1>1, <1>3 DEF EndDial, CheckStarted, EndStep, CancelContext, SetGostop, Exit,
     writerVars, threadVars, answerVars
<1>4. ASSUME NEW t \in Threads, ThreadStep(t)
      PROVE  LedgerStep
  <2>1. CASE EnqueueMessage(t) \/ DirectCdr(t)
    <3>1. tpc[t] # "store" /\ tpc' = [tpc EXCEPT ![t] = "idle"]
          /\ tcall' = [tcall EXCEPT ![t] = None]
      BY <2>1 DEF EnqueueMessage, DirectCdr, ThreadAt
    <3>2. \A c \in Calls : BeforeStore(c)' <=> BeforeStore(c)
      BY <3>1 DEF BeforeStore, TypeInv, TypeOK
    <3>3. UNCHANGED <<file, dropped, code, taken>>
      BY <2>1 DEF EnqueueMessage, DirectCdr, Receive, writerVars, answerVars
    <3> QED
      BY <3>2, <3>3, OthersRefine
  <2> QED
    BY <1>4, <2>1, TakeCallRefines, StoreCallRefines DEF ThreadStep
<1>5. ASSUME NEW p \in Peers, SenderStep(p)
      PROVE  LedgerStep
  BY <1>1, <1>5 DEF SenderStep, DialPeer, SendMessage, CloseNotified, Reconnected,
     ReconnectFails, StopSender, writerVars, threadVars, answerVars
<1>6. ASSUME NEW p \in Peers, NetworkStep(p)
      PROVE  LedgerStep
  <2>1. CASE BreakLink(p)
    BY <1>1, <2>1 DEF BreakLink, writerVars, threadVars, answerVars
  <2> QED
    BY <1>6, <2>1, BrtAnswersRefines DEF NetworkStep
<1>7. ASSUME NEW c \in Calls, AnswerStep(c)
      PROVE  LedgerStep
  BY <1>1, <1>7 DEF AnswerStep, LoadEntry, SendCdr, DeleteEntry, Receive, writerVars,
     threadVars
<1>8. ASSUME NEW t \in Tasks, Writer(t)
      PROVE  LedgerStep
  BY <1>8, WriterRefines
<1> QED
  BY <1>2, <1>3, <1>4, <1>5, <1>6, <1>7, <1>8 DEF Next

(* The client keeps the ledger's promise to every call whose session id no      *)
(* other call drew.                                                             *)
THEOREM Refinement == Spec => ImplementsLedger
<1>1. TypeInv /\ IInv /\ [Next]_vars => [LedgerStep]_vars
  BY RefinementStep
<1> QED
  BY <1>1, RefinementInit, Invariance, PTL DEF Spec, ImplementsLedger

LEMMA LedgerNext ==
    TypeOK /\ TypeOK' /\ SidsDistinct' /\ LedgerStep => [Ledger!LNext]_(Ledger!lvars)
<1> SUFFICES ASSUME TypeOK, TypeOK', SidsDistinct', LedgerStep
             PROVE  [Ledger!LNext]_(Ledger!lvars)
  OBVIOUS
<1>1. ASSUME NEW c \in Calls, Ledger!CallStep(c)
      PROVE  Ledger!LNext
  BY <1>1 DEF Ledger!LNext
<1>2. CASE \A c \in Calls : Status(c)' = Status(c) /\ file'[c] = file[c]
  <2>1. [c \in Calls |-> Status(c)]' = [c \in Calls |-> Status(c)]
    BY <1>2
  <2>2. file' = file
    BY <1>2 DEF TypeOK, WriterTypeOK
  <2> QED
    BY <2>1, <2>2 DEF Ledger!lvars
<1> QED
  BY <1>1, <1>2 DEF LedgerStep, SidsDistinct

(* As long as no two calls have one session id, every behaviour of the client   *)
(* is a behaviour of the ledger.                                                *)
THEOREM LedgerRefinement == Spec /\ []SidsDistinct => Ledger!LSpec
<1>1. TypeInv /\ IInv /\ [Next]_vars => LedgerStep
  BY RefinementStep
<1> QED
  BY <1>1, TypeCorrect, LedgerNext, RefinementInit, Invariance, PTL DEF Spec, Ledger!LSpec
================================================================================
