------------------------------- MODULE CallMessages -------------------------------
(* From a drawn record type to the messages of the call: a thread composes the    *)
(* CAMEL request or the credit-control request, remembers the call under its      *)
(* session id and queues the message; a sender completes and writes it; the       *)
(* answer leads back to the call.  Modules CamelServer and DiameterClient have    *)
(* the connections and all their interleavings; here is one of each kind, with    *)
(* one request on the wire, and what the messages hold.                           *)
(*                                                                                *)
(* A call is the number of the draw it comes from, which tells the random part of *)
(* its session id, too; a phone number or an IMSI is the number of its digits.    *)
EXTENDS RecTypeChoice, CamelCodec, CreditControl

CONSTANTS Threads,    \* the threads of the task
          Settings,   \* Settings[i]: the configuration of the i-th record type
          Roaming,    \* the task is named "roam"
          PoolFile,   \* the subscribers of DatapoolCsvFile, after its header
          LacFile,    \* the lines of DatapoolCsvLac, none if it cannot be read
          DefaultPlace, \* DefaultLAC and DefaultCELL
          DefaultB,   \* DefaultMSISDN_B
          ScpId,      \* the digits of Camel_SCP_id
          SmscDigits, XvlrDigits, CountryDigits, OperatorDigits,
                      \* lengths of the CAMEL settings of those names
          QueueCap    \* capacity of CamelChannel (4000) and of BrtDiamChannel (1000)

Places == [lac : Nat, cell : Nat]

ASSUME MessagesAssumption ==
    /\ PoolFile \subseteq [msisdn : Nat, imsi : Nat, numeric : BOOLEAN]
    /\ DefaultPlace \in Places
    /\ DefaultB \in Nat
    /\ ScpId \in Seq(0 .. 9) \ {<<>>}
    /\ \A i \in 2 .. Len(LacFile) : LacFile[i] \in Places
    /\ \A i \in DOMAIN Settings :
          /\ Settings[i].chan \in {"camel", "diameter", "file"}
          /\ Settings[i].context \in BOOLEAN
    /\ {SmscDigits, XvlrDigits, CountryDigits, OperatorDigits, QueueCap} \subseteq Nat

VARIABLES pc,           \* pc[t]: where thread t stands
          composed,     \* composed[t]: the message it works on
          shared,       \* what the spare bytes of LocationMSCbase hold
          sessions,     \* CamelOfflineCDR (camel) and BrtOfflineCDR (diameter): keys and calls
          camelChannel, \* CamelChannel
          camelWire,    \* the CAMEL request the BRT has not answered
          diamChannel,  \* BrtDiamChannel
          diamWire      \* the credit-control request it has not answered

pipeline == <<pc, composed, shared, sessions, camelChannel, camelWire, diamChannel, diamWire>>
callVars == <<vars, pipeline>>

Nothing == [kind |-> "nothing"]

CallsInit == /\ Init
             /\ pc = [t \in Threads |-> "draw"]
             /\ composed = [t \in Threads |-> Nothing]
             /\ shared = [lac |-> 0, cell |-> 0]
             /\ sessions = [camel |-> {}, diameter |-> {}]
             /\ camelChannel = <<>> /\ camelWire = Nothing
             /\ diamChannel = <<>> /\ diamWire = Nothing

-----------------------------------------------------------------------------
(* InitVariables: the places of the task, at least the default one.               *)
LACCELLpool == IF Len(LacFile) > 1 THEN Tail(LacFile) ELSE <<DefaultPlace>>

(* The pool takes ten digits and fifteen, and puts a 7 before the ten.            *)
checkRowTypes(row) == row.numeric /\ row.msisdn = 10 /\ row.imsi = 15

CreatePoolList == {[msisdn |-> 1 + row.msisdn, imsi |-> row.imsi] :
                      row \in {r \in PoolFile : checkRowTypes(r)}}

(* The second number of a call: none when roaming, else a 7, the prefix of an     *)
(* operator and seven digits.                                                     *)
generateRussianMSISDN == 1 + 3 + 7

RandomMSISDN == IF Roaming THEN 0 ELSE generateRussianMSISDN

(* InitMSC's result, and the parameters of a request.                             *)
Base == LocationMSCbase(XvlrDigits, CountryDigits, OperatorDigits)

Digits(sub) == [imsi |-> sub.imsi, msisdn |-> sub.msisdn, dst |-> RandomMSISDN,
                smsc |-> SmscDigits, location |-> Base.len + 4]

Session(call) == NewCamelSessionID(call, call, Stringtobyte(ScpId)[1])

(* What a call is about: TypeBrtOfflineCdr without its task.                      *)
Record(call, s, sub, at) == [cdrTime |-> call, type |-> s.record, sub |-> sub,
                             dst |-> RandomMSISDN, at |-> at]

(* The placeholders of the pattern, each replaced.                                *)
CreateCDRRecord(r) ==
    [rec_type |-> r.type, imsi |-> r.sub.imsi, msisdn |-> r.sub.msisdn, datetime |-> r.cdrTime,
     msisdnB  |-> IF r.dst # 0 THEN r.dst ELSE DefaultB,
     lac_a    |-> r.at.lac, cell_a |-> r.at.cell]

Authorisation(call, rec, type, frame) ==
    [kind |-> "camel", call |-> call, rec |-> rec, type |-> type, frame |-> frame,
     sid |-> Session(call), place |-> Nothing]

CreditRequest(call, rec, measure) ==
    [kind |-> "diameter", call |-> call, rec |-> rec, message |-> CreateCCREventMessage(measure),
     sid |-> <<"session", call>>]

(* CreateCamelMessage and CreateDiamMessage: a record type of another number, or  *)
(* without a service context, gets an offline CDR, as does the channel "file".    *)
MessageOf(call, s, rec) ==
    CASE s.chan = "camel" /\ s.record \in {"08", "09"} ->
           Authorisation(call, rec, AUTHORIZESMS_REQ, AuthorizeSMS_req(Digits(rec.sub)))
      [] s.chan = "camel" /\ s.record \in {"01", "02"} ->
           Authorisation(call, rec, AUTHORIZEVOICE_REQ, AuthorizeVoice_req(Digits(rec.sub)))
      [] s.chan = "diameter" /\ s.context -> CreditRequest(call, rec, s.measure)
      [] OTHER -> Nothing

FirstStep == [camel |-> "lac", diameter |-> "store", nothing |-> "draw"]

(* The thread draws a record type and a place and begins the call's message.      *)
Compose(t) ==
    /\ pc[t] = "draw"
    /\ Draw
    /\ \E sub \in CreatePoolList, i \in DOMAIN LACCELLpool :
          LET s == Settings[RandomRecType(c)]
          IN  composed' = [composed EXCEPT ![t] =
                              MessageOf(c + 1, s, Record(c + 1, s, sub, LACCELLpool[i]))]
    /\ pc' = [pc EXCEPT ![t] = FirstStep[composed'[t].kind]]
    /\ UNCHANGED <<shared, sessions, camelChannel, camelWire, diamChannel, diamWire>>

Short(n) == n % 65536

(* LocationMSC appends the LAC to a copy of the slice LocationMSCbase: into the   *)
(* array behind both when it has room for two bytes, else into one of its own.    *)
(* Two bytes hold it modulo 65536.                                                *)
AppendLac(t) ==
    /\ pc[t] = "lac"
    /\ LET lac == Short(composed[t].rec.at.lac)
       IN  IF SpareBytes(Base) >= 2
           THEN /\ shared' = [shared EXCEPT !.lac = lac]
                /\ UNCHANGED composed
           ELSE /\ composed' = [composed EXCEPT ![t].place =
                                   [kind |-> "own", lac |-> lac, cell |-> 0]]
                /\ UNCHANGED shared
    /\ pc' = [pc EXCEPT ![t] = "cell"]
    /\ UNCHANGED <<vars, sessions, camelChannel, camelWire, diamChannel, diamWire>>

(* Then the CELL, with two bytes more; an array of its own gets a copy of what    *)
(* there is.                                                                      *)
AppendCell(t) ==
    /\ pc[t] = "cell"
    /\ LET cell == Short(composed[t].rec.at.cell)
           lac == IF SpareBytes(Base) >= 2 THEN shared.lac ELSE composed[t].place.lac
       IN  IF SpareBytes(Base) >= 4
           THEN /\ shared' = [shared EXCEPT !.cell = cell]
                /\ composed' = [composed EXCEPT ![t].place = [kind |-> "shared"]]
           ELSE /\ composed' = [composed EXCEPT ![t].place =
                                   [kind |-> "own", lac |-> lac, cell |-> cell]]
                /\ UNCHANGED shared
    /\ pc' = [pc EXCEPT ![t] = "store"]
    /\ UNCHANGED <<vars, sessions, camelChannel, camelWire, diamChannel, diamWire>>

(* The key of the call in its cache.                                              *)
Key(m) == IF m.kind = "camel" THEN SessionKey(m.sid) ELSE m.sid

StoreCall(t) ==
    /\ pc[t] = "store"
    /\ LET m == composed[t]
       IN  sessions' = [sessions EXCEPT ![m.kind] = {e \in @ : e.key # Key(m)}
                                                   \cup {[key |-> Key(m), rec |-> m.rec]}]
    /\ pc' = [pc EXCEPT ![t] = "queue"]
    /\ UNCHANGED <<vars, composed, shared, camelChannel, camelWire, diamChannel, diamWire>>

QueueCamel(t) ==
    /\ pc[t] = "queue" /\ composed[t].kind = "camel"
    /\ Len(camelChannel) < QueueCap
    /\ camelChannel' = Append(camelChannel, composed[t])
    /\ pc' = [pc EXCEPT ![t] = "draw"]
    /\ composed' = [composed EXCEPT ![t] = Nothing]
    /\ UNCHANGED <<vars, shared, sessions, camelWire, diamChannel, diamWire>>

QueueDiam(t) ==
    /\ pc[t] = "queue" /\ composed[t].kind = "diameter"
    /\ Len(diamChannel) < QueueCap
    /\ diamChannel' = Append(diamChannel, composed[t])
    /\ pc' = [pc EXCEPT ![t] = "draw"]
    /\ composed' = [composed EXCEPT ![t] = Nothing]
    /\ UNCHANGED <<vars, shared, sessions, camelChannel, camelWire, diamWire>>

-----------------------------------------------------------------------------
(* A request as the BRT gets it: the encoder copies the bytes the location has    *)
(* by then.                                                                       *)
OnWire(m, sid) ==
    [kind |-> "camel", call |-> m.call, rec |-> m.rec, type |-> m.type, sid |-> sid,
     wire |-> Encoder(m.frame),
     lac  |-> IF m.place.kind = "shared" THEN shared.lac ELSE m.place.lac,
     cell |-> IF m.place.kind = "shared" THEN shared.cell ELSE m.place.cell]

(* Mutant of SendCamel: the id of the BRT goes to the byte before the SCP's.      *)
SendNumbered == /\ camelChannel # <<>> /\ camelWire = Nothing
                /\ LET m == Head(camelChannel)
                   IN  camelWire' = OnWire(m, [m.sid EXCEPT ![11] = <<"brt">>])
                /\ camelChannel' = Tail(camelChannel)
                /\ UNCHANGED <<vars, pc, composed, shared, sessions, diamChannel, diamWire>>

(* CamelSend writes the id of its BRT into the session id and encodes.            *)
SendCamel == /\ camelChannel # <<>> /\ camelWire = Nothing
             /\ LET m == Head(camelChannel)
                IN  camelWire' = OnWire(m, [m.sid EXCEPT ![13] = <<"brt">>])
             /\ camelChannel' = Tail(camelChannel)
             /\ UNCHANGED <<vars, pc, composed, shared, sessions, diamChannel, diamWire>>

Forget(kind, key) == sessions' = [sessions EXCEPT ![kind] = {e \in @ : e.key # key}]

(* Load and CreateCDRRecord: what an answer that owes a CDR makes of its session id. *)
OfflineCdrs(kind, key) == {CreateCDRRecord(e.rec) : e \in {x \in sessions[kind] : x.key = key}}

(* The BRT confirms with charge: the end request of the same kind, with the       *)
(* session id of the answer, all sixteen bytes.                                   *)
AnswerCharged ==
    /\ camelWire # Nothing /\ camelWire.type \in {AUTHORIZESMS_REQ, AUTHORIZEVOICE_REQ}
    /\ camelWire' = IF camelWire.type = AUTHORIZESMS_REQ
                    THEN [camelWire EXCEPT !.type = ENDSMS_REQ, !.wire = Encoder(EndSMS_req)]
                    ELSE [camelWire EXCEPT !.type = ENDVOICE_REQ, !.wire = Encoder(EndVoice_req)]
    /\ UNCHANGED <<vars, pc, composed, shared, sessions, camelChannel, diamChannel, diamWire>>

(* It rejects or confirms without charge, or answers the end request: Delete.     *)
AnswerClosing ==
    /\ camelWire # Nothing
    /\ Forget("camel", SessionKey(camelWire.sid))
    /\ camelWire' = Nothing
    /\ UNCHANGED <<vars, pc, composed, shared, camelChannel, diamChannel, diamWire>>

SendDiam == /\ diamChannel # <<>> /\ diamWire = Nothing
            /\ diamWire' = [Head(diamChannel) EXCEPT !.message = Addressed(@)]
            /\ diamChannel' = Tail(diamChannel)
            /\ UNCHANGED <<vars, pc, composed, shared, sessions, camelChannel, camelWire>>

(* What the handler reads of the answer to the request on the wire.               *)
AnswerRead == ResponseDiamHandler([code |-> 2001, sid |-> diamWire.sid])

AnswerDiam == /\ diamWire # Nothing
              /\ Forget("diameter", AnswerRead.sid)
              /\ diamWire' = Nothing
              /\ UNCHANGED <<vars, pc, composed, shared, camelChannel, camelWire, diamChannel>>

CallsNext == \/ \E t \in Threads : \/ Compose(t) \/ AppendLac(t) \/ AppendCell(t)
                                   \/ StoreCall(t) \/ QueueCamel(t) \/ QueueDiam(t)
             \/ SendCamel \/ AnswerCharged \/ AnswerClosing
             \/ SendDiam \/ AnswerDiam

CallsSpec == CallsInit /\ [][CallsNext]_callVars

-----------------------------------------------------------------------------
(* A BRT finds every parameter of a CAMEL request and the request's end, in       *)
(* whatever order the encoder has taken the parameters; the lengths the requests  *)
(* are composed with are not all right (EndSMS_req), those on the wire are.       *)
RequestsInStep == camelWire # Nothing => InStep(camelWire.wire)

(* The session id of a request on the wire leads to the call's own offline CDR,   *)
(* and to nothing else's, though the id of the BRT is written only after the call *)
(* was stored; and it names the BRT and the SCP, if that is given in two digits.  *)
SessionNamesCall ==
    camelWire # Nothing =>
        /\ OfflineCdrs("camel", SessionKey(camelWire.sid)) = {CreateCDRRecord(camelWire.rec)}
        /\ camelWire.sid[13] = <<"brt">>
        /\ Len(ScpId) = 2 => camelWire.sid[12] = <<"scp", 16 * ScpId[1] + ScpId[2]>>

(* The requests the code composes and the dictionary it ships agree, though none  *)
(* is made with the other: a request has every AVP its command requires and none  *)
(* the command does not list; and each AVP, but Service-Information, at whatever  *)
(* depth, is defined, has the type its definition gives and holds only AVPs the   *)
(* group may have.  The watchdog and the capabilities exchange repeat only what   *)
(* they may; of the credit-control request, which has two of Subscription-Id,     *)
(* that is not said.  Nor is anything said of the values of enumerated AVPs, and  *)
(* of what a group must have.                                                     *)
RequestFollowsDictionary ==
    /\ \A brts \in 1 .. 2, local \in BOOLEAN :
          LET m == Capabilities(brts, local)
          IN  Complete(m, CERequest) /\ Defined(m) /\ RepeatsAllowed(m, CERequest)
    /\ Complete(Watchdog, DWRequest) /\ Defined(Watchdog) /\ RepeatsAllowed(Watchdog, DWRequest)
    /\ diamWire # Nothing => Complete(diamWire.message, CCRequest) /\ Defined(diamWire.message)

(* From the answer the handler gets the session id that leads to the call's own   *)
(* offline CDR: what the handlers (and go-diameter's, of the capabilities) read,  *)
(* every answer must have, and the dictionary gives the id a type whose text      *)
(* ConvertType unwraps.                                                           *)
AnswerNamesCall ==
    diamWire # Nothing =>
        /\ \A command \in DOMAIN Answers : AvpsRead(command) \subseteq Answers[command].required
        /\ OfflineCdrs("diameter", AnswerRead.sid) = {CreateCDRRecord(diamWire.rec)}

(* LocationInformation says where the mobile user is (tlv.go): the request of a   *)
(* call has the LAC and the CELL drawn for it.                                    *)
LocationIsTheCalls ==
    camelWire # Nothing => camelWire.lac = camelWire.rec.at.lac /\ camelWire.cell = camelWire.rec.at.cell
================================================================================
