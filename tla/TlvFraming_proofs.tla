----------------------------- MODULE TlvFraming_proofs -----------------------------
(* Proofs about TlvFraming, for all message lengths of at least a header, any     *)
(* size of a read and any number of messages; and about CamelFrames on it.        *)
EXTENDS CamelFrames, TLAPS

(* Messages lie one after the other in the stream.                              *)
Laid == /\ \A k \in 1 .. Len(sent) : start[k] + sent[k].len <= written
        /\ \A j, k \in 1 .. Len(sent) : j < k => start[j] + sent[j].len <= start[k]
        /\ \A k \in 1 .. Len(sent) - 1 : start[k + 1] = start[k] + sent[k].len
        /\ Len(sent) = 0 => written = 0
        /\ Len(sent) > 0 => /\ start[1] = 0
                            /\ written = start[Len(sent)] + sent[Len(sent)].len

(* What was handled is what was sent, so far.                                   *)
HandledPrefix == /\ Len(handled) <= Len(sent)
                 /\ \A k \in 1 .. Len(handled) : handled[k] = sent[k]

IInv == /\ TypeOK
        /\ Laid
        /\ HandledPrefix
        /\ BufferInStep
        /\ HandledWhatArrived

-----------------------------------------------------------------------------
LEMMA LengthType ==
    ASSUME IInv, NEW k \in 1 .. Len(sent)
    PROVE  /\ sent[k] \in Messages
           /\ sent[k].len \in Nat /\ sent[k].len >= Header
           /\ start[k] \in Nat
<1>1. sent \in Seq(Messages) /\ start \in Seq(Nat) /\ Len(start) = Len(sent)
  BY DEF IInv, TypeOK
<1>2. sent[k] \in Messages /\ start[k] \in Nat
  BY <1>1
<1>3. sent[k].len \in Lengths
  BY <1>2 DEF Messages
<1>4. QED
  BY <1>2, <1>3, FramingAssumption

LEMMA CountType ==
    ASSUME IInv
    PROVE  /\ Len(sent) \in Nat /\ Len(handled) \in Nat
           /\ handled \in Seq(Messages)
           /\ Len(handled) <= Len(sent)
           /\ written \in Nat /\ got \in Nat /\ pos \in Nat
           /\ pos <= got /\ got <= written
  BY DEF IInv, TypeOK, HandledPrefix

(* The message at the front of the buffer is the first one not handled.         *)
LEMMA FrontIsNext ==
    ASSUME IInv, NEW k \in 1 .. Len(sent), AtFront(k)
    PROVE  k = Len(handled) + 1
<1>1. /\ \A j \in 1 .. Len(sent) : sent[j].len \in Nat /\ sent[j].len >= Header /\ start[j] \in Nat
      /\ Len(sent) \in Nat /\ Len(handled) \in Nat /\ Len(handled) <= Len(sent)
      /\ written \in Nat
  BY LengthType, CountType
<1>2. start[k] = pos
  BY DEF AtFront
<1>3. start[k] + sent[k].len <= written
  BY DEF IInv, Laid
<1>4. Len(handled) # Len(sent)
  BY <1>1, <1>2, <1>3 DEF IInv, BufferInStep, Header
<1>5. start[Len(handled) + 1] = pos /\ Len(handled) + 1 \in 1 .. Len(sent)
  BY <1>1, <1>4 DEF IInv, BufferInStep
<1>6. \A i, j \in 1 .. Len(sent) : i < j => start[i] + sent[i].len <= start[j]
  BY DEF IInv, Laid
<1>7. ~(k < Len(handled) + 1)
  BY <1>1, <1>2, <1>5, <1>6 DEF Header
<1>8. ~(Len(handled) + 1 < k)
  BY <1>1, <1>2, <1>5, <1>6 DEF Header
<1>9. QED
  BY <1>1, <1>7, <1>8

(* A message ends where or before a later one begins, and so ends before it.    *)
LEMMA LaterEndsLater ==
    ASSUME IInv, NEW j \in 1 .. Len(sent), NEW k \in 1 .. Len(sent), j < k
    PROVE  /\ EndOf(j) \in Nat /\ EndOf(k) \in Nat
           /\ EndOf(j) <= start[k] /\ EndOf(j) < EndOf(k)
<1>1. EndOf(j) <= start[k]
  BY DEF IInv, Laid, EndOf
<1>2. EndOf(j) \in Nat
  BY LengthType DEF EndOf
<1>3. /\ sent[k].len \in Nat /\ sent[k].len >= Header
      /\ start[k] \in Nat
  BY LengthType
<1>4. EndOf(k) \in Nat /\ start[k] < EndOf(k)
  BY <1>3 DEF EndOf, Header
<1>5. QED
  BY <1>1, <1>2, <1>3, <1>4

(* When the bytes end before message k does, no later message has arrived.      *)
LEMMA NoLaterArrived ==
    ASSUME IInv, NEW k \in 1 .. Len(sent), got <= EndOf(k),
           NEW j \in 1 .. Len(sent), EndOf(j) <= got
    PROVE  j <= k
<1>1. Len(sent) \in Nat /\ got \in Nat
  BY CountType
<1>2. SUFFICES ASSUME k < j PROVE FALSE
  BY <1>1
<1>3. EndOf(k) < EndOf(j) /\ EndOf(k) \in Nat /\ EndOf(j) \in Nat
  BY <1>2, LaterEndsLater
<1>4. QED
  BY <1>1, <1>3

(* Cutting the message at the front moves the buffer to the next one.           *)
CutStep(k) == /\ AtFront(k)
              /\ Held >= sent[k].len
              /\ pos' = pos + sent[k].len
              /\ handled' = Append(handled, sent[k])
              /\ hpc' = IF Held > sent[k].len THEN "decode" ELSE "read"
              /\ UNCHANGED <<peerVars, got>>

LEMMA CutKeepsIInv ==
    ASSUME IInv, NEW k \in 1 .. Len(sent), CutStep(k)
    PROVE  IInv'
<1>1. k = Len(handled) + 1 /\ k <= Len(sent) /\ Len(sent) \in Nat /\ Len(handled) \in Nat
  BY FrontIsNext, CountType DEF CutStep
<1>2. /\ sent[k].len \in Nat /\ start[k] \in Nat /\ start[k] = pos
      /\ got \in Nat /\ pos \in Nat
  BY LengthType, CountType DEF AtFront, CutStep
<1>3. handled \in Seq(Messages) /\ sent[k] \in Messages
  BY LengthType, CountType
<1>4. Len(handled') = k /\ handled' \in Seq(Messages)
  BY <1>1, <1>3 DEF CutStep
<1>5. \A j \in 1 .. k : handled'[j] = IF j = k THEN sent[k] ELSE handled[j]
  BY <1>1, <1>3 DEF CutStep
<1>6. /\ sent' = sent /\ start' = start /\ written' = written /\ got' = got
      /\ hpc' \in {"read", "decode"}
  BY DEF CutStep, peerVars
<1>7. pos' = EndOf(k) /\ pos' \in Nat /\ EndOf(k) <= got
  <2>1. pos' = pos + sent[k].len /\ got - pos >= sent[k].len
    BY DEF CutStep, Held
  <2>2. QED
    BY <1>2, <2>1 DEF EndOf
<1>8. TypeOK'
  BY <1>4, <1>6, <1>7 DEF IInv, TypeOK
<1>9. Laid'
  BY <1>6 DEF IInv, Laid
<1>10. HandledPrefix'
  BY <1>1, <1>4, <1>5, <1>6 DEF IInv, HandledPrefix
<1>11. BufferInStep'
  <2>1. CASE k = Len(sent)
    <3>1. written = EndOf(k)
      BY <1>1, <2>1 DEF IInv, Laid, EndOf
    <3>2. QED
      BY <1>4, <1>6, <1>7, <2>1, <3>1 DEF BufferInStep
  <2>2. CASE k < Len(sent)
    <3>1. start[k + 1] = EndOf(k)
      BY <1>1, <2>2 DEF IInv, Laid, EndOf
    <3>2. k # Len(sent)
      BY <1>1, <2>2
    <3>3. QED
      BY <1>4, <1>6, <1>7, <3>1, <3>2 DEF BufferInStep
  <2>3. QED
    BY <1>1, <2>1, <2>2
<1>12. HandledWhatArrived'
  <2>1. ASSUME NEW j \in 1 .. Len(sent), j <= k
        PROVE  EndOf(j) <= got
    <3>1. CASE j = k
      BY <1>7, <3>1
    <3>2. CASE j < k
      <4>1. j <= Len(handled)
        BY <1>1, <3>2
      <4>2. QED
        BY <4>1 DEF IInv, HandledWhatArrived
    <3>3. QED
      BY <1>1, <2>1, <3>1, <3>2
  <2>2. ASSUME NEW j \in 1 .. Len(sent), hpc' = "read", EndOf(j) <= got
        PROVE  j <= k
    <3>1. ~(got - pos > sent[k].len)
      BY <2>2 DEF CutStep, Held
    <3>2. got <= EndOf(k)
      BY <1>2, <3>1 DEF EndOf
    <3>3. QED
      BY <2>2, <3>2, NoLaterArrived
  <2>3. QED
    BY <1>1, <1>4, <1>6, <2>1, <2>2 DEF HandledWhatArrived, EndOf
<1>13. QED
  BY <1>8, <1>9, <1>10, <1>11, <1>12 DEF IInv

LEMMA CutFirstKeepsIInv ==
    ASSUME IInv, NEW k \in 1 .. Len(sent), CutFirst(k)
    PROVE  IInv'
<1>1. sent[k].len \in Nat /\ got \in Nat /\ pos \in Nat /\ pos <= got
  BY LengthType, CountType
<1>2. AtFront(k) /\ hpc = "decode" /\ Held > sent[k].len /\ Held >= sent[k].len
  BY <1>1 DEF CutFirst, Held
<1>3. hpc' = IF Held > sent[k].len THEN "decode" ELSE "read"
  BY <1>2 DEF CutFirst
<1>4. /\ pos' = pos + sent[k].len /\ handled' = Append(handled, sent[k])
      /\ UNCHANGED <<peerVars, got>>
  BY DEF CutFirst
<1>5. CutStep(k)
  BY <1>2, <1>3, <1>4 DEF CutStep
<1>6. QED
  BY <1>5, CutKeepsIInv

LEMMA CutLastKeepsIInv ==
    ASSUME IInv, NEW k \in 1 .. Len(sent), CutLast(k)
    PROVE  IInv'
<1>1. sent[k].len \in Nat /\ got \in Nat /\ pos \in Nat /\ pos <= got
  BY LengthType, CountType
<1>2. /\ AtFront(k) /\ hpc = "decode"
      /\ ~(Held > sent[k].len) /\ Held >= sent[k].len
      /\ pos' = pos + sent[k].len
  BY <1>1 DEF CutLast, Held
<1>3. hpc' = IF Held > sent[k].len THEN "decode" ELSE "read"
  BY <1>2 DEF CutLast
<1>4. handled' = Append(handled, sent[k]) /\ UNCHANGED <<peerVars, got>>
  BY DEF CutLast
<1>5. CutStep(k)
  BY <1>2, <1>3, <1>4 DEF CutStep
<1>6. QED
  BY <1>5, CutKeepsIInv

(* A handler that goes back to read has no whole message left.                  *)
LEMMA AwaitMoreKeepsIInv ==
    ASSUME IInv, AwaitMore
    PROVE  IInv'
<1>1. /\ hpc' = "read"
      /\ UNCHANGED <<sent, start, written, got, pos, handled>>
  BY DEF AwaitMore, peerVars
<1>2. TypeOK' /\ Laid' /\ HandledPrefix' /\ BufferInStep'
  BY <1>1 DEF IInv, TypeOK, Laid, HandledPrefix, BufferInStep
<1>3. ASSUME NEW j \in 1 .. Len(sent), EndOf(j) <= got
      PROVE  j <= Len(handled)
  <2> SUFFICES ASSUME ~(j <= Len(handled)) PROVE FALSE
    OBVIOUS
  <2> DEFINE n == Len(handled) + 1
  <2>1. n \in 1 .. Len(sent) /\ n <= j
    BY CountType
  <2>2. start[n] = pos
    BY <2>1, CountType DEF IInv, BufferInStep
  <2>3. /\ sent[n].len \in Nat /\ sent[n].len >= Header /\ start[n] \in Nat
        /\ got \in Nat /\ pos \in Nat
    BY <2>1, LengthType, CountType
  <2>4. got - pos < sent[n].len
    <3>1. CASE Held < Header
      BY <2>3, <3>1 DEF Held, Header
    <3>2. CASE \E k \in 1 .. Len(sent) : AtFront(k) /\ Held < sent[k].len
      BY <3>2, FrontIsNext DEF Held
    <3>3. QED
      BY <3>1, <3>2 DEF AwaitMore
  <2>5. got < EndOf(n) /\ EndOf(n) \in Nat
    BY <2>2, <2>3, <2>4 DEF EndOf
  <2>6. j <= n
    BY <1>3, <2>1, <2>3, <2>5, NoLaterArrived
  <2>7. QED
    <3>1. j = n
      BY <2>1, <2>6, CountType
    <3>2. QED
      BY <1>3, <2>3, <2>5, <3>1
<1>4. HandledWhatArrived'
  BY <1>1, <1>3 DEF IInv, HandledWhatArrived, EndOf
<1>5. QED
  BY <1>2, <1>4 DEF IInv

LEMMA ReadChunkKeepsIInv ==
    ASSUME IInv, ReadChunk
    PROVE  IInv'
<1>1. PICK n \in 1 .. BuffSize : got + n <= written /\ got' = got + n
  BY DEF ReadChunk
<1>2. /\ hpc' = "decode"
      /\ UNCHANGED <<sent, start, written, pos, handled>>
  BY DEF ReadChunk, peerVars
<1>3. n \in Nat /\ got' \in Nat /\ got <= got' /\ got' <= written /\ pos <= got'
  BY <1>1, CountType
<1>4. TypeOK' /\ Laid' /\ HandledPrefix' /\ BufferInStep'
  BY <1>2, <1>3 DEF IInv, TypeOK, Laid, HandledPrefix, BufferInStep
<1>5. ASSUME NEW k \in 1 .. Len(sent), k <= Len(handled)
      PROVE  EndOf(k) <= got'
  <2>1. EndOf(k) <= got
    BY <1>5 DEF IInv, HandledWhatArrived
  <2>2. EndOf(k) \in Nat
    BY LengthType DEF EndOf
  <2>3. QED
    BY <1>3, <2>1, <2>2, CountType
<1>6. HandledWhatArrived'
  BY <1>2, <1>5 DEF IInv, HandledWhatArrived, EndOf
<1>7. QED
  BY <1>4, <1>6 DEF IInv

(* A message written lies behind all others and has not arrived.                *)
LEMMA PeerWritesKeepsIInv ==
    ASSUME IInv, PeerWrites
    PROVE  IInv'
<1> DEFINE N == Len(sent)
<1>0. N \in Nat /\ written \in Nat
  BY CountType
<1>1. PICK n \in Lengths : /\ sent' = Append(sent, [seq |-> N + 1, len |-> n])
                           /\ start' = Append(start, written)
                           /\ written' = written + n
  BY DEF PeerWrites
<1>a. written' = written + n
  BY <1>1
<1>2. UNCHANGED <<got, pos, hpc, handled>> /\ N < MaxMessages
  BY DEF PeerWrites
<1>3. n \in Nat /\ n >= Header /\ MaxMessages \in Nat
  BY FramingAssumption
<1>4. /\ sent \in Seq(Messages) /\ start \in Seq(Nat) /\ Len(start) = N /\ N \in Nat
      /\ written \in Nat /\ got \in Nat /\ pos \in Nat /\ Len(handled) \in Nat
      /\ pos <= got /\ got <= written /\ Len(handled) <= N
  BY CountType DEF IInv, TypeOK
<1>5. [seq |-> N + 1, len |-> n] \in Messages
  BY <1>2, <1>3, <1>4 DEF Messages
<1>6. /\ Len(sent') = N + 1 /\ Len(start') = N + 1
      /\ sent'[N + 1].len = n /\ start'[N + 1] = written
      /\ \A k \in 1 .. N : sent'[k] = sent[k] /\ start'[k] = start[k]
  BY <1>1, <1>4, <1>5
<1>7. TypeOK'
  <2>1. sent' \in Seq(Messages)
    BY <1>1, <1>4, <1>5
  <2>2. start' \in Seq(Nat) /\ Len(start') = Len(sent')
    BY <1>1, <1>4, <1>6
  <2>3. written' \in Nat /\ got <= written'
    BY <1>1, <1>3, <1>4
  <2>4. QED
    BY <1>2, <2>1, <2>2, <2>3 DEF IInv, TypeOK
<1>8. \A k \in 1 .. N : /\ sent[k].len \in Nat /\ sent[k].len >= Header /\ start[k] \in Nat
                        /\ start[k] + sent[k].len <= written
  BY LengthType DEF IInv, Laid
<1>9. Laid'
  <2>1. ASSUME NEW k \in 1 .. N + 1
        PROVE  start'[k] + sent'[k].len <= written'
    <3>1. CASE k \in 1 .. N
      <4>1. start[k] + sent[k].len \in Nat /\ start[k] + sent[k].len <= written
        BY <1>8, <3>1
      <4>2. start[k] + sent[k].len <= written + n
        BY <1>0, <1>3, <4>1
      <4>3. QED
        BY <1>a, <1>6, <3>1, <4>2
    <3>2. CASE k = N + 1
      <4>1. start'[k] + sent'[k].len = written + n
        BY <1>6, <3>2
      <4>2. QED
        BY <1>0, <1>a, <1>3, <4>1
    <3>3. QED
      BY <1>0, <3>1, <3>2
  <2>2. ASSUME NEW j \in 1 .. N + 1, NEW k \in 1 .. N + 1, j < k
        PROVE  start'[j] + sent'[j].len <= start'[k]
    <3>1. j \in 1 .. N
      BY <1>4, <2>2
    <3>2. CASE k = N + 1
      BY <1>6, <1>8, <3>1, <3>2
    <3>3. CASE k \in 1 .. N
      BY <1>6, <2>2, <3>1, <3>3 DEF IInv, Laid
    <3>4. QED
      BY <1>4, <3>2, <3>3
  <2>3. ASSUME NEW k \in 1 .. N
        PROVE  start'[k + 1] = start'[k] + sent'[k].len
    <3>1. CASE k = N
      BY <1>4, <1>6, <3>1 DEF IInv, Laid
    <3>2. CASE k < N
      <4>1. k + 1 \in 1 .. N /\ k \in 1 .. N - 1
        BY <1>0, <3>2
      <4>2. start[k + 1] = start[k] + sent[k].len
        BY <4>1 DEF IInv, Laid
      <4>3. QED
        BY <1>6, <4>1, <4>2
    <3>3. QED
      BY <1>0, <3>1, <3>2
  <2>4. start'[1] = 0
    BY <1>4, <1>6 DEF IInv, Laid
  <2>5. written' = start'[N + 1] + sent'[N + 1].len
    BY <1>1, <1>6
  <2>6. QED
    BY <1>4, <1>6, <2>1, <2>2, <2>3, <2>4, <2>5 DEF Laid
<1>10. HandledPrefix'
  BY <1>2, <1>4, <1>6 DEF IInv, HandledPrefix
<1>11. BufferInStep'
  <2>1. pos = IF Len(handled) = N THEN written ELSE start[Len(handled) + 1]
    BY DEF IInv, BufferInStep
  <2>2. CASE Len(handled) = N
    <3>1. pos = start'[N + 1]
      BY <1>6, <2>1, <2>2
    <3>2. Len(handled) # N + 1
      BY <1>4, <2>2
    <3>3. QED
      BY <1>2, <1>6, <2>2, <3>1, <3>2 DEF BufferInStep
  <2>3. CASE Len(handled) < N
    <3>1. Len(handled) + 1 \in 1 .. N /\ Len(handled) # N + 1
      BY <1>4, <2>3
    <3>2. start'[Len(handled) + 1] = start[Len(handled) + 1]
      BY <1>6, <3>1
    <3>3. pos = start'[Len(handled) + 1]
      BY <1>4, <2>1, <2>3, <3>2
    <3>4. QED
      BY <1>2, <1>6, <3>1, <3>3 DEF BufferInStep
  <2>4. QED
    BY <1>4, <2>2, <2>3
<1>12. HandledWhatArrived'
  <2>1. ASSUME NEW k \in 1 .. N + 1
        PROVE  /\ k <= Len(handled) => start'[k] + sent'[k].len <= got
               /\ hpc = "read" /\ start'[k] + sent'[k].len <= got => k <= Len(handled)
    <3>1. CASE k \in 1 .. N
      BY <1>6, <3>1 DEF IInv, HandledWhatArrived, EndOf
    <3>2. CASE k = N + 1
      <4>1. start'[k] + sent'[k].len = written + n
        BY <1>6, <3>2
      <4>2. ~(written + n <= got)
        BY <1>3, <1>4 DEF Header
      <4>3. ~(k <= Len(handled))
        BY <1>4, <3>2
      <4>4. QED
        BY <4>1, <4>2, <4>3
    <3>3. QED
      BY <1>0, <3>1, <3>2
  <2>2. QED
    BY <1>2, <1>4, <1>6, <2>1 DEF HandledWhatArrived, EndOf
<1>13. QED
  BY <1>7, <1>9, <1>10, <1>11, <1>12 DEF IInv

-----------------------------------------------------------------------------
LEMMA InitIInv ==
    ASSUME Init
    PROVE  IInv
BY DEF Init, IInv, TypeOK, Laid, HandledPrefix, BufferInStep, HandledWhatArrived

LEMMA StepIInv ==
    ASSUME IInv, [Next]_vars
    PROVE  IInv'
<1>1. CASE PeerWrites
  BY <1>1, PeerWritesKeepsIInv
<1>2. CASE ReadChunk
  BY <1>2, ReadChunkKeepsIInv
<1>3. CASE AwaitMore
  BY <1>3, AwaitMoreKeepsIInv
<1>4. ASSUME NEW k \in 1 .. Len(sent), CutFirst(k) \/ CutLast(k)
      PROVE  IInv'
  BY <1>4, CutFirstKeepsIInv, CutLastKeepsIInv
<1>5. CASE UNCHANGED vars
  BY <1>5 DEF vars, peerVars, IInv, TypeOK, Laid, HandledPrefix, BufferInStep,
              HandledWhatArrived, EndOf
<1>6. QED
  BY <1>1, <1>2, <1>3, <1>4, <1>5 DEF Next, Decode

LEMMA Invariance == Spec => []IInv
<1>1. Init => IInv
  BY InitIInv
<1>2. IInv /\ [Next]_vars => IInv'
  BY StepIInv
<1>3. QED
  BY <1>1, <1>2, PTL DEF Spec

(* Every state of the handler is well typed (readNetConn, DecoderBuffer).       *)
THEOREM TypeCorrect == Spec => []TypeOK
<1>1. IInv => TypeOK
  BY DEF IInv
<1>2. QED
  BY <1>1, Invariance, PTL

(* The buffer always begins with the first message not handled.                 *)
THEOREM StepCorrect == Spec => []BufferInStep
<1>1. IInv => BufferInStep
  BY DEF IInv
<1>2. QED
  BY <1>1, Invariance, PTL

(* A handler that reads has handled exactly the messages that arrived in full,  *)
(* for any lengths and any chunks.                                              *)
THEOREM ArrivalCorrect == Spec => []HandledWhatArrived
<1>1. IInv => HandledWhatArrived
  BY DEF IInv
<1>2. QED
  BY <1>1, Invariance, PTL

-----------------------------------------------------------------------------
(* A cut hands over the next message of the stream, every other step is a send  *)
(* or a stutter.                                                                *)
LEMMA CutIsHandle ==
    ASSUME IInv, NEW k \in 1 .. Len(sent), CutFirst(k) \/ CutLast(k)
    PROVE  Stream!Handle
<1>1. AtFront(k) /\ handled' = Append(handled, sent[k]) /\ sent' = sent
  BY DEF CutFirst, CutLast, peerVars
<1>2. k = Len(handled) + 1
  BY <1>1, FrontIsNext
<1>3. QED
  BY <1>1, <1>2, CountType DEF Stream!Handle

LEMMA PeerWritesIsSend ==
    ASSUME IInv, PeerWrites
    PROVE  Stream!Send
<1>1. PICK n \in Lengths : sent' = Append(sent, [seq |-> Len(sent) + 1, len |-> n])
  BY DEF PeerWrites
<1>2. [seq |-> Len(sent) + 1, len |-> n] \in Messages
  BY CountType, FramingAssumption DEF PeerWrites, Messages
<1>3. handled' = handled
  BY DEF PeerWrites
<1>4. QED
  BY <1>1, <1>2, <1>3 DEF Stream!Send

(* The handler implements the stream of messages: each message is handled once, *)
(* in the order sent, whatever the chunks (readNetConn).                        *)
THEOREM Refinement == Spec => ImplementsStream
<1>1. Init => Stream!SInit
  BY DEF Init, Stream!SInit
<1>2. IInv /\ [Next]_vars => [Stream!Send \/ Stream!Handle]_Stream!svars
  <2> SUFFICES ASSUME IInv, [Next]_vars
               PROVE  [Stream!Send \/ Stream!Handle]_Stream!svars
    OBVIOUS
  <2>1. CASE PeerWrites
    BY <2>1, PeerWritesIsSend
  <2>2. ASSUME NEW k \in 1 .. Len(sent), CutFirst(k) \/ CutLast(k)
        PROVE  Stream!Handle
    BY <2>2, CutIsHandle
  <2>3. CASE ReadChunk \/ AwaitMore \/ UNCHANGED vars
    BY <2>3 DEF ReadChunk, AwaitMore, vars, peerVars, Stream!svars
  <2>4. QED
    BY <2>1, <2>2, <2>3 DEF Next, Decode
<1>3. QED
  BY <1>1, <1>2, Invariance, PTL DEF Spec, ImplementsStream, Stream!SSpec

-----------------------------------------------------------------------------
(* The frame of a read.  *)

(* Each kind carries what is looked up when a message of it is handled.          *)
LEMMA KindsCarry == \A x \in Kinds : Reads[x.name] \subseteq x.tags /\ x.tags \subseteq Tags
  BY SMT DEF Kinds, Reads, Tags

(* What may be read of a message.                                                *)
Readings == UNION {[tags -> Nat] : tags \in SUBSET Tags}

FramesInv == /\ kind \in Seq(Kinds) /\ Len(kind) = Len(sent)
             /\ frame \in [Tags -> Nat]
             /\ seen \in Seq(Readings) /\ Len(seen) = Len(handled)
             /\ ReadsOwnParameters

LEMMA FramesInitInv == FramesInit => IInv /\ FramesInv
<1> SUFFICES ASSUME FramesInit PROVE IInv /\ FramesInv
  OBVIOUS
<1>1. IInv
  BY InitIInv DEF FramesInit
<1>2. FramesInv
  BY DEF FramesInit, Init, FramesInv, ReadsOwnParameters
<1> QED
  BY <1>1, <1>2

(* The stream goes on as TlvFraming has it.                                      *)
LEMMA FramesOnStream == [FramesNext]_framesVars => [Next]_vars
<1> SUFFICES ASSUME [FramesNext]_framesVars PROVE [Next]_vars
  OBVIOUS
<1>1. CASE PeerWritesKind \/ ReadFresh \/ Await \/ HandleNext
  BY <1>1 DEF PeerWritesKind, ReadFresh, Await, HandleNext, Next, Decode
<1>2. CASE UNCHANGED framesVars
  BY <1>2 DEF framesVars
<1> QED
  BY <1>1, <1>2 DEF FramesNext

LEMMA HandleNextKeeps ==
    ASSUME IInv, FramesInv, HandleNext
    PROVE  FramesInv'
<1>1. PICK k \in 1 .. Len(sent) :
          /\ CutFirst(k) \/ CutLast(k)
          /\ DecoderChunk(k)
          /\ seen' = Append(seen, [tag \in Reads[kind[k].name] |-> frame'[tag]])
  BY DEF HandleNext
<1>2. AtFront(k) /\ handled' = Append(handled, sent[k]) /\ sent' = sent /\ kind' = kind
  BY <1>1 DEF HandleNext, CutFirst, CutLast, peerVars
<1>3. k = Len(handled) + 1 /\ k = Len(seen) + 1 /\ Len(seen) \in Nat
  BY <1>2, FrontIsNext, CountType DEF FramesInv
<1>4. Len(handled') = k
  BY <1>2, <1>3, LengthType, CountType
<1>5. kind[k] \in Kinds
  BY DEF FramesInv
<1> DEFINE tags == Reads[kind[k].name]
           o == [tag \in tags |-> frame'[tag]]
<1>6. tags \subseteq kind[k].tags /\ tags \subseteq Tags
  BY <1>5, KindsCarry
<1>7. frame' \in [Tags -> Nat]
  BY <1>1, <1>3 DEF DecoderChunk, FramesInv
<1>8. \A tag \in tags : o[tag] = k
  BY <1>1, <1>6 DEF DecoderChunk
<1>9. o \in Readings
  <2>1. o \in [tags -> Nat]
    BY <1>6, <1>7
  <2> QED
    BY <2>1, <1>6 DEF Readings
<1>10. DOMAIN o = tags
  OBVIOUS
<1> HIDE DEF o, tags
<1>11. seen' = Append(seen, o) /\ seen \in Seq(Readings)
  BY <1>1 DEF o, tags, FramesInv
<1>12. /\ seen' \in Seq(Readings) /\ Len(seen') = k /\ seen'[k] = o
       /\ \A j \in 1 .. Len(seen) : seen'[j] = seen[j]
  BY <1>3, <1>9, <1>11
<1>13. ASSUME NEW j \in 1 .. Len(seen'), NEW tag \in DOMAIN seen'[j]
       PROVE  seen'[j][tag] = j
  <2>1. CASE j = k
    BY <2>1, <1>8, <1>10, <1>12, <1>13
  <2>2. CASE j # k
    <3>1. j \in 1 .. Len(seen)
      BY <2>2, <1>3, <1>12
    <3>2. seen'[j] = seen[j]
      BY <3>1, <1>12
    <3> QED
      BY <3>1, <3>2, <1>13 DEF FramesInv, ReadsOwnParameters
  <2> QED
    BY <2>1, <2>2
<1> QED
  BY <1>2, <1>4, <1>7, <1>12, <1>13 DEF FramesInv, ReadsOwnParameters

LEMMA FramesStepInv == IInv /\ FramesInv /\ [FramesNext]_framesVars => FramesInv'
<1> SUFFICES ASSUME IInv, FramesInv, [FramesNext]_framesVars PROVE FramesInv'
  OBVIOUS
<1>1. CASE PeerWritesKind
  <2>1. PICK x \in Kinds : kind' = Append(kind, x)
    BY <1>1 DEF PeerWritesKind
  <2>2. PICK n \in Lengths : sent' = Append(sent, [seq |-> Len(sent) + 1, len |-> n])
    BY <1>1 DEF PeerWritesKind, PeerWrites
  <2>3. Len(sent') = Len(sent) + 1
    <3>1. sent \in Seq(Messages)
      BY DEF IInv, TypeOK
    <3> QED
      BY <2>2, <3>1
  <2>4. kind' \in Seq(Kinds) /\ Len(kind') = Len(kind) + 1
    BY <2>1 DEF FramesInv
  <2>5. UNCHANGED <<frame, seen, handled>>
    BY <1>1 DEF PeerWritesKind, PeerWrites
  <2> QED
    BY <2>3, <2>4, <2>5 DEF FramesInv, ReadsOwnParameters
<1>2. CASE ReadFresh
  <2>1. UNCHANGED <<sent, handled, kind, seen>>
    BY <1>2 DEF ReadFresh, ReadChunk, peerVars
  <2>2. frame' \in [Tags -> Nat]
    BY <1>2 DEF ReadFresh
  <2> QED
    BY <2>1, <2>2 DEF FramesInv, ReadsOwnParameters
<1>3. CASE Await
  BY <1>3 DEF Await, AwaitMore, peerVars, FramesInv, ReadsOwnParameters
<1>4. CASE HandleNext
  BY <1>4, HandleNextKeeps
<1>5. CASE UNCHANGED framesVars
  BY <1>5 DEF framesVars, vars, peerVars, FramesInv, ReadsOwnParameters
<1> QED
  BY <1>1, <1>2, <1>3, <1>4, <1>5 DEF FramesNext

(* A handler reads its own message's parameters though the frame keeps those of  *)
(* the messages before, however many a read brings.                              *)
THEOREM FramesCorrect == FramesSpec => []ReadsOwnParameters
<1>1. FramesInv => ReadsOwnParameters
  BY DEF FramesInv
<1>2. IInv /\ [FramesNext]_framesVars => IInv'
  BY StepIInv, FramesOnStream
<1>3. FramesInit /\ [][FramesNext]_framesVars => []ReadsOwnParameters
  BY <1>1, <1>2, FramesInitInv, FramesStepInv, PTL
<1> QED
  BY <1>3, PTL DEF FramesSpec
====================================================================================
