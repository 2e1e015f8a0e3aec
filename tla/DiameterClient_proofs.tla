--------------------------- MODULE DiameterClient_proofs ---------------------------
(* Proofs about DiameterClient, for any calls, threads, peers, tasks, session    *)
(* ids, channel capacity and number of retries.                                  *)
EXTENDS DiameterClient, FiniteSetTheorems, TLAPS

USE DEF SenderPcs, ThreadPcs, AnswerPcs, Codes, WriterPcs

-----------------------------------------------------------------------------
(* Type correctness. *)

LEMMA WriterTyped ==
    ASSUME WriterTypeOK, NEW t \in Tasks, WriterStep(t),
           wpc[t] = "write" => hold[t] \in Calls
    PROVE  WriterTypeOK'
<1>1. CASE WriterProgress(t) /\ ~WriteLine(t)
  BY <1>1 DEF WriterTypeOK, WriterProgress, OpenFirst, AwaitLine, CreateFile,
              PermissionError, NilFilePanic, WriterAt, processVars
<1>2. CASE Rotate(t)
  BY <1>2 DEF WriterTypeOK, Rotate, CreateFile, PermissionError, NilFilePanic,
              WriterAt, processVars
<1>3. CASE WriteLine(t)
  BY <1>3 DEF WriterTypeOK, WriteLine, WriterAt, processVars
<1> QED
  BY <1>1, <1>2, <1>3 DEF WriterStep

LEMMA ReceiveTyped ==
    ASSUME WriterTypeOK, NEW t \in Tasks, NEW c \in Calls \cup {None}, Receive(t, c),
           UNCHANGED processVars
    PROVE  WriterTypeOK'
BY DEF WriterTypeOK, Receive, WriterAt, processVars

(* What the types need beyond themselves: nobody works on "no call".            *)
HoldsCalls == /\ \A t \in Tasks : wpc[t] = "write" => hold[t] \in Calls
              /\ \A t \in Threads : tpc[t] # "idle" => tcall[t] \in Calls
              /\ \A c \in Calls : apc[c] = "send" => val[c] \in Calls
              /\ \A c \in taken \ NoContext : sidOf[c] \in Sids
              /\ \A t \in Threads : tpc[t] \in {"store", "enqueue"} =>
                                      tcall[t] \in taken \ NoContext
              /\ \A i \in 1 .. Len(queue) : queue[i] \in taken \ NoContext
              /\ \A p \in Peers : atBrt[p] \subseteq taken \ NoContext
              /\ \A c \in Calls : apc[c] # "none" => c \in taken \ NoContext

TypeInv == TypeOK /\ HoldsCalls

LEMMA TypeInit == Init => TypeInv
<1> SUFFICES ASSUME Init PROVE TypeOK /\ HoldsCalls
  BY DEF TypeInv
<1>1. WriterTypeOK
  BY DEF Init, WriterInit, WriterTypeOK
<1>2. queue \in Seq(Calls) /\ Len(queue) = 0
  BY DEF Init
<1>3. TypeOK
  BY <1>1, <1>2, BoundsAssumption DEF Init, TypeOK
<1>4. HoldsCalls
  BY <1>2 DEF Init, WriterInit, HoldsCalls
<1> QED BY <1>3, <1>4

LEMMA TypeStep == TypeInv /\ [Next]_vars => TypeInv'
<1> SUFFICES ASSUME TypeInv, [Next]_vars
             PROVE  TypeInv'
  OBVIOUS
<1> USE TaskAssumption, BoundsAssumption, NoneAssumption
<1>1. CASE EndDial \/ CheckStarted \/ EndStep
  <2> USE <1>1 DEF TypeInv, EndDial, CheckStarted, EndStep, CancelContext, SetGostop, Exit
  <2>1. WriterTypeOK'
    BY DEF TypeOK, WriterTypeOK, writerVars, processVars
  <2>2. phase' \in {"dial", "check", "run"}
    BY DEF TypeOK, startVars
  <2>5. brt' \in BOOLEAN
    BY Zenon DEF TypeOK, ExpectAtLeast, startVars
  <2>3. TypeOK'
    BY <2>1, <2>2, <2>5 DEF TypeOK, senderVars, threadVars, answerVars
  <2>4. HoldsCalls'
    BY DEF HoldsCalls, writerVars, threadVars, answerVars
  <2> QED BY <2>3, <2>4
<1>2. ASSUME NEW t \in Threads, NEW c \in Calls, TakeCall(t, c)
      PROVE  TypeInv'
  <2> USE <1>2 DEF TypeInv
  <2>1. WriterTypeOK'
    BY DEF TypeOK, WriterTypeOK, TakeCall, writerVars, processVars
  <2>2. /\ tpc' \in [Threads -> ThreadPcs]
        /\ tcall' \in [Threads -> Calls \cup {None}]
        /\ taken' \subseteq Calls
        /\ sidOf' \in [Calls -> Sids \cup {None}]
    <3>1. CASE c \in NoContext /\ ThreadAt(t, "idle", "direct") /\ UNCHANGED sidOf
      BY <3>1 DEF TypeOK, TakeCall, ThreadAt
    <3>2. ASSUME ThreadAt(t, "idle", "store"),
                 NEW s \in Sids, sidOf' = [sidOf EXCEPT ![c] = s]
          PROVE  /\ tpc' \in [Threads -> ThreadPcs]
                 /\ sidOf' \in [Calls -> Sids \cup {None}]
      BY <3>2 DEF TypeOK, ThreadAt
    <3>3. tcall' \in [Threads -> Calls \cup {None}] /\ taken' \subseteq Calls
      BY DEF TypeOK, TakeCall
    <3> QED BY <3>1, <3>2, <3>3 DEF TakeCall
  <2>3. TypeOK'
    BY <2>1, <2>2 DEF TypeOK, TakeCall, senderVars, answerVars, startVars
  <2>4. HoldsCalls'
    BY DEF TypeOK, HoldsCalls, TakeCall, ThreadAt, writerVars, answerVars
  <2> QED BY <2>3, <2>4
<1>3. ASSUME NEW t \in Threads, StoreCall(t)
      PROVE  TypeInv'
  <2> USE <1>3 DEF TypeInv, StoreCall
  <2>1. WriterTypeOK'
    BY DEF TypeOK, WriterTypeOK, writerVars, processVars
  <2>2. tpc' \in [Threads -> ThreadPcs] /\ cache' \in [Sids -> Calls \cup {None}]
    BY DEF TypeOK, HoldsCalls, ThreadAt
  <2>3. TypeOK'
    BY <2>1, <2>2 DEF TypeOK, senderVars, answerVars, startVars
  <2>4. HoldsCalls'
    BY DEF TypeOK, HoldsCalls, ThreadAt, writerVars, answerVars
  <2> QED BY <2>3, <2>4
<1>4. ASSUME NEW t \in Threads, EnqueueMessage(t)
      PROVE  TypeInv'
  <2> USE <1>4 DEF TypeInv
  <2>1. queue' \in Seq(Calls) /\ Len(queue') <= ChanCap
    BY DEF TypeOK, HoldsCalls, EnqueueMessage, ThreadAt
  <2>2. TypeOK'
    BY <2>1 DEF TypeOK, WriterTypeOK, EnqueueMessage, ThreadAt, writerVars,
                processVars, senderVars, answerVars, startVars
  <2>3. HoldsCalls'
    BY DEF TypeOK, HoldsCalls, EnqueueMessage, ThreadAt, writerVars, answerVars
  <2> QED BY <2>2, <2>3
<1>5. ASSUME NEW t \in Threads, DirectCdr(t)
      PROVE  TypeInv'
  <2> USE <1>5 DEF TypeInv
  <2>1. ThreadTask[t] \in Tasks /\ tcall[t] \in Calls
    BY DEF TypeOK, HoldsCalls, DirectCdr, ThreadAt
  <2>2. WriterTypeOK'
    BY <2>1, ReceiveTyped DEF TypeOK, DirectCdr
  <2>3. TypeOK'
    BY <2>2 DEF TypeOK, DirectCdr, ThreadAt, senderVars, answerVars, startVars
  <2>4. HoldsCalls'
    BY <2>1 DEF TypeOK, WriterTypeOK, HoldsCalls, DirectCdr, ThreadAt, Receive, WriterAt,
           answerVars
  <2> QED BY <2>3, <2>4
<1>6. ASSUME NEW p \in Peers, SenderStep(p)
      PROVE  TypeInv'
  <2> USE <1>6 DEF TypeInv
  <2>1. CASE SendMessage(p)
    <3>1. queue' \in Seq(Calls) /\ Len(queue') <= ChanCap /\ Head(queue) \in Calls
      BY <2>1 DEF TypeOK, SendMessage
    <3> QED
      BY <2>1, <3>1 DEF TypeOK, WriterTypeOK, HoldsCalls, SendMessage, writerVars,
                        processVars, senderVars, threadVars, answerVars, startVars
  <2>2. CASE ReconnectFails(p)
    <3>1. sender' \in [Peers -> SenderPcs]
      <4>1. CASE retry[p] + 1 > MaxRetry
        <5>1. sender' = [sender EXCEPT ![p] = "ended"]
          BY <2>2, <4>1 DEF ReconnectFails, SenderAt
        <5> QED
          BY <5>1 DEF TypeOK
      <4>2. CASE ~(retry[p] + 1 > MaxRetry)
        BY <2>2, <4>2 DEF TypeOK, ReconnectFails
      <4> QED BY <4>1, <4>2
    <3>2. retry[p] + 1 <= MaxRetry => retry[p] + 1 \in 0 .. MaxRetry
      BY DEF TypeOK
    <3>3. retry' \in [Peers -> 0 .. MaxRetry]
      <4>1. CASE retry[p] + 1 > MaxRetry
        BY <2>2, <4>1 DEF TypeOK, ReconnectFails
      <4>2. CASE ~(retry[p] + 1 > MaxRetry)
        <5>1. retry' = [retry EXCEPT ![p] = retry[p] + 1]
          BY <2>2, <4>2 DEF ReconnectFails
        <5>2. retry[p] + 1 \in 0 .. MaxRetry
          BY <3>2, <4>2 DEF TypeOK
        <5> QED
          BY <5>1, <5>2 DEF TypeOK
      <4> QED BY <4>1, <4>2
    <3> QED
      BY <2>2, <3>1, <3>3 DEF TypeOK, WriterTypeOK, HoldsCalls, ReconnectFails, writerVars,
                        processVars, threadVars, answerVars, startVars
  <2>3. CASE DialPeer(p)
    <3>5. running' \in BOOLEAN
      BY <2>3, Zenon DEF TypeOK, WriterTypeOK, DialPeer, WgAdd
    <3>1. WriterTypeOK'
      BY <2>3, <3>5 DEF TypeOK, WriterTypeOK, DialPeer, writerVars
    <3>2. /\ sender' \in [Peers -> SenderPcs]
          /\ retry' \in [Peers -> 0 .. MaxRetry]
          /\ link' \in [Peers -> BOOLEAN]
          /\ wg' \in Int
      <4>1. CASE /\ SenderAt(p, "undialed", "select")
                 /\ link' = [link EXCEPT ![p] = TRUE]
                 /\ wg' = wg + 1
        <5>1. retry' = retry
          BY <2>3 DEF DialPeer
        <5> QED
          BY <4>1, <5>1 DEF TypeOK, SenderAt
      <4>2. CASE SenderAt(p, "undialed", "failed") /\ UNCHANGED <<link, wg>>
        BY <2>3, <4>2 DEF TypeOK, DialPeer, SenderAt
      <4> QED BY <2>3, <4>1, <4>2 DEF DialPeer, WgAdd
    <3>3. TypeOK'
      BY <2>3, <3>1, <3>2 DEF TypeOK, DialPeer, threadVars, answerVars, startVars
    <3>4. HoldsCalls'
      BY <2>3 DEF HoldsCalls, DialPeer, writerVars, threadVars, answerVars
    <3> QED BY <3>3, <3>4
  <2>4. CASE CloseNotified(p)
    <3>5. running' \in BOOLEAN
      BY <2>4, Zenon DEF TypeOK, WriterTypeOK, CloseNotified, WgDone
    <3>1. WriterTypeOK'
      BY <2>4, <3>5 DEF TypeOK, WriterTypeOK, CloseNotified, writerVars
    <3>2. /\ sender' \in [Peers -> SenderPcs]
          /\ retry' \in [Peers -> 0 .. MaxRetry]
          /\ link' \in [Peers -> BOOLEAN]
          /\ wg' \in Int
      BY <2>4 DEF TypeOK, CloseNotified, SenderAt, WgDone
    <3>3. TypeOK'
      BY <2>4, <3>1, <3>2 DEF TypeOK, CloseNotified, threadVars, answerVars, startVars
    <3>4. HoldsCalls'
      BY <2>4 DEF HoldsCalls, CloseNotified, writerVars, threadVars, answerVars
    <3> QED BY <3>3, <3>4
  <2>5. CASE Reconnected(p)
    <3>5. running' \in BOOLEAN
      BY <2>5, Zenon DEF TypeOK, WriterTypeOK, Reconnected, WgAdd
    <3>1. WriterTypeOK'
      BY <2>5, <3>5 DEF TypeOK, WriterTypeOK, Reconnected, writerVars
    <3>2. /\ sender' \in [Peers -> SenderPcs]
          /\ retry' \in [Peers -> 0 .. MaxRetry]
          /\ link' \in [Peers -> BOOLEAN]
          /\ wg' \in Int
      BY <2>5 DEF TypeOK, Reconnected, SenderAt, WgAdd
    <3>3. TypeOK'
      BY <2>5, <3>1, <3>2 DEF TypeOK, Reconnected, threadVars, answerVars, startVars
    <3>4. HoldsCalls'
      BY <2>5 DEF HoldsCalls, Reconnected, writerVars, threadVars, answerVars
    <3> QED BY <3>3, <3>4
  <2>6. CASE StopSender(p)
    <3>1. WriterTypeOK'
      BY <2>6 DEF TypeOK, WriterTypeOK, StopSender, SenderAt, writerVars, processVars
    <3>2. /\ sender' \in [Peers -> SenderPcs]
          /\ retry' \in [Peers -> 0 .. MaxRetry]
          /\ link' \in [Peers -> BOOLEAN]
          /\ wg' \in Int
      BY <2>6 DEF TypeOK, StopSender, SenderAt
    <3>3. TypeOK'
      BY <2>6, <3>1, <3>2 DEF TypeOK, StopSender, threadVars, answerVars, startVars
    <3>4. HoldsCalls'
      BY <2>6 DEF HoldsCalls, StopSender, writerVars, threadVars, answerVars
    <3> QED BY <3>3, <3>4
  <2> QED BY <1>6, <2>1, <2>2, <2>3, <2>4, <2>5, <2>6 DEF SenderStep
<1>7. ASSUME NEW p \in Peers, NetworkStep(p)
      PROVE  TypeInv'
  <2> USE DEF TypeInv
  <2>1. CASE BreakLink(p)
    BY <2>1 DEF TypeOK, WriterTypeOK, HoldsCalls, BreakLink, writerVars, processVars,
                threadVars, answerVars, startVars
  <2>2. ASSUME NEW c \in Calls, NEW k \in Codes \ {"none"}, BrtAnswers(p, c, k)
        PROVE  TypeInv'
    <3> USE <2>2 DEF BrtAnswers
    <3>1. WriterTypeOK'
      BY DEF TypeOK, WriterTypeOK, writerVars, processVars
    <3>2. /\ atBrt' \in [Peers -> SUBSET Calls]
          /\ apc' \in [Calls -> AnswerPcs]
          /\ code' \in [Calls -> Codes]
      BY DEF TypeOK
    <3>3. TypeOK'
      BY <3>1, <3>2 DEF TypeOK, senderVars, threadVars, startVars
    <3>4. HoldsCalls'
      BY DEF TypeOK, HoldsCalls, writerVars, threadVars
    <3> QED BY <3>3, <3>4
  <2> QED BY <1>7, <2>1, <2>2 DEF NetworkStep
<1>8. ASSUME NEW c \in Calls, LoadEntry(c) \/ DeleteEntry(c)
      PROVE  TypeInv'
  <2> USE <1>8 DEF TypeInv
  <2>1. CASE LoadEntry(c)
    <3>1. cache[sidOf[c]] \in Calls \cup {None}
      BY <2>1 DEF TypeOK, HoldsCalls, LoadEntry
    <3> QED
      BY <2>1, <3>1 DEF TypeOK, WriterTypeOK, HoldsCalls, LoadEntry,
              writerVars, processVars, senderVars, threadVars, startVars
  <2>2. CASE DeleteEntry(c)
    BY <2>2 DEF TypeOK, WriterTypeOK, HoldsCalls, DeleteEntry, AnswerAt,
              writerVars, processVars, senderVars, threadVars, answerVars, startVars
  <2> QED BY <1>8, <2>1, <2>2
<1>9. ASSUME NEW c \in Calls, SendCdr(c)
      PROVE  TypeInv'
  <2> USE <1>9 DEF TypeInv
  <2>1. TaskOf[val[c]] \in Tasks /\ val[c] \in Calls
    BY DEF TypeOK, HoldsCalls, SendCdr, AnswerAt
  <2>2. WriterTypeOK'
    BY <2>1, ReceiveTyped DEF TypeOK, SendCdr
  <2>3. TypeOK'
    BY <2>2 DEF TypeOK, SendCdr, AnswerAt, senderVars, threadVars, startVars
  <2>4. HoldsCalls'
    BY <2>1 DEF TypeOK, WriterTypeOK, HoldsCalls, SendCdr, AnswerAt, Receive, WriterAt,
           threadVars
  <2> QED BY <2>3, <2>4
<1>10. ASSUME NEW t \in Tasks, Writer(t)
       PROVE  TypeInv'
  <2> USE <1>10 DEF TypeInv
  <2>1. WriterTypeOK'
    BY WriterTyped DEF TypeOK, HoldsCalls, Writer
  <2>2. TypeOK'
    BY <2>1 DEF TypeOK, Writer, WriterFrame, senderVars, threadVars, answerVars, startVars
  <2>3. HoldsCalls'
    BY DEF TypeOK, WriterTypeOK, HoldsCalls, Writer, WriterFrame, WriterStep, WriterProgress,
           OpenFirst, Rotate, AwaitLine, WriteLine, CreateFile, PermissionError,
           NilFilePanic, WriterAt, threadVars, answerVars
  <2> QED BY <2>2, <2>3
<1>11. CASE UNCHANGED vars
  BY <1>11 DEF TypeInv, TypeOK, WriterTypeOK, HoldsCalls, vars, writerVars, processVars,
               senderVars, threadVars, answerVars, startVars
<1> QED
  BY <1>1, <1>2, <1>3, <1>4, <1>5, <1>6, <1>7, <1>8, <1>9, <1>10, <1>11
     DEF Next, ThreadStep, AnswerStep

(* Every variable keeps its type, and no goroutine handles the zero value.      *)
THEOREM TypeCorrect == Spec => []TypeOK
<1>1. TypeInv => TypeOK
  BY DEF TypeInv
<1> QED
  BY <1>1, TypeInit, TypeStep, PTL DEF Spec

-----------------------------------------------------------------------------
(* The count of wgd. *)

WgInv == wg = Cardinality(Connected)

LEMMA ConnectedFinite ==
    /\ IsFiniteSet(Connected)
    /\ Cardinality(Connected) \in Nat
<1>1. Connected \subseteq Peers
  BY DEF Connected
<1> QED
  BY <1>1, PeersAssumption, FS_Subset, FS_CardinalityType

(* Where one sender changes, the set of connections changes by that sender.     *)
LEMMA ConnectedStep ==
    ASSUME TypeOK, NEW p \in Peers, NEW from, NEW to \in SenderPcs, SenderAt(p, from, to)
    PROVE  /\ to \in {"select", "stopped"} => Connected' = Connected \cup {p}
           /\ to \notin {"select", "stopped"} => Connected' = Connected \ {p}
           /\ p \in Connected <=> from \in {"select", "stopped"}
BY DEF TypeOK, SenderAt, Connected

LEMMA WgStep == TypeOK /\ WgInv /\ [Next]_vars => WgInv'
<1> SUFFICES ASSUME TypeOK, WgInv, [Next]_vars
             PROVE  WgInv'
  OBVIOUS
<1>1. CASE UNCHANGED <<sender, wg>>
  BY <1>1 DEF WgInv, Connected
<1>2. ASSUME NEW p \in Peers, NEW from \in {"undialed", "reconnect"},
             SenderAt(p, from, "select"), wg' = wg + 1
      PROVE  WgInv'
  <2>1. Connected' = Connected \cup {p} /\ p \notin Connected
    BY <1>2, ConnectedStep
  <2> QED
    BY <1>2, <2>1, ConnectedFinite, FS_AddElement DEF WgInv
<1>3. ASSUME NEW p \in Peers, CloseNotified(p)
      PROVE  WgInv'
  <2>1. Connected' = Connected \ {p} /\ p \in Connected
    BY <1>3, ConnectedStep DEF CloseNotified
  <2>2. wg' = wg - 1
    BY <1>3 DEF CloseNotified, WgDone
  <2> QED
    BY <2>1, <2>2, ConnectedFinite, FS_RemoveElement DEF WgInv
<1>4. ASSUME NEW p \in Peers, NEW from \in SenderPcs, NEW to \in SenderPcs,
             SenderAt(p, from, to), UNCHANGED wg,
             from \in {"select", "stopped"} <=> to \in {"select", "stopped"}
      PROVE  WgInv'
  <2>1. Connected' = Connected
    BY <1>4, ConnectedStep
  <2> QED
    BY <1>4, <2>1 DEF WgInv
<1>5. ASSUME NEW p \in Peers, SenderStep(p)
      PROVE  WgInv'
  <2>1. CASE DialPeer(p)
    BY <2>1, <1>2, <1>4 DEF DialPeer, WgAdd
  <2>2. CASE SendMessage(p)
    BY <2>2, <1>1 DEF SendMessage, senderVars
  <2>3. CASE Reconnected(p)
    BY <2>3, <1>2 DEF Reconnected, WgAdd
  <2>4. CASE ReconnectFails(p)
    BY <2>4, <1>1, <1>4 DEF ReconnectFails
  <2>5. CASE StopSender(p)
    BY <2>5, <1>4 DEF StopSender
  <2> QED
    BY <1>5, <2>1, <2>2, <1>3, <2>3, <2>4, <2>5 DEF SenderStep
<1>6. ASSUME ~ \E p \in Peers : SenderStep(p)
      PROVE  UNCHANGED <<sender, wg>>
  <2>1. CASE UNCHANGED vars
    BY <2>1 DEF vars, senderVars
  <2>2. CASE EndDial \/ CheckStarted \/ EndStep
    BY <2>2 DEF EndDial, CheckStarted, EndStep, CancelContext, SetGostop, Exit, senderVars
  <2>3. ASSUME NEW t \in Threads, ThreadStep(t)
        PROVE  UNCHANGED <<sender, wg>>
    BY <2>3 DEF ThreadStep, TakeCall, StoreCall, EnqueueMessage, DirectCdr, senderVars
  <2>4. ASSUME NEW p \in Peers, NetworkStep(p)
        PROVE  UNCHANGED <<sender, wg>>
    BY <2>4 DEF NetworkStep, BreakLink, BrtAnswers, senderVars
  <2>5. ASSUME NEW c \in Calls, AnswerStep(c)
        PROVE  UNCHANGED <<sender, wg>>
    BY <2>5 DEF AnswerStep, LoadEntry, SendCdr, DeleteEntry, senderVars
  <2>6. ASSUME NEW t \in Tasks, Writer(t)
        PROVE  UNCHANGED <<sender, wg>>
    BY <2>6 DEF Writer, WriterFrame, senderVars
  <2> QED
    BY <1>6, <2>1, <2>2, <2>3, <2>4, <2>5, <2>6 DEF Next
<1> QED
  BY <1>1, <1>5, <1>6

(* wgd counts the connections at every moment, so neither Add nor Done panics.  *)
THEOREM WgCorrect == Spec => []WgCountsConnections
<1>1. Init => WgInv
  <2> SUFFICES ASSUME Init PROVE Connected = {} /\ wg = 0
    BY FS_EmptySet DEF WgInv
  <2> QED
    BY DEF Init, Connected
<1>2. WgInv => WgCountsConnections
  BY ConnectedFinite DEF WgInv, WgCountsConnections
<1> QED
  BY <1>1, <1>2, WgStep, TypeCorrect, PTL DEF Spec
================================================================================
