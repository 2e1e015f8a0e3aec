------------------------------- MODULE CreditControl -------------------------------
(* The Diameter messages: the credit-control request of a call, the four AVPs the  *)
(* sender adds, the requests of the watchdog and of the capabilities exchange, and *)
(* what the handlers take from an answer.                                          *)
(*                                                                                 *)
(* The messages name every AVP by its code and give its data a type of Go, so the  *)
(* dictionary they are made with decides nothing of them; the client's own decides *)
(* how an answer is read (ConvertType).                                            *)
(*                                                                                 *)
(* Abstracted: codes and flags of AVPs, to their names; values, but for the        *)
(* session id and the result code of an answer.                                    *)
EXTENDS Naturals, Sequences, FiniteSets, Dictionary

Leaf(name, type) == [name |-> name, type |-> type, members |-> {}]
Group(name, members) == [name |-> name, type |-> "Grouped", members |-> members]

Avps(message) == {message[i] : i \in DOMAIN message}

-----------------------------------------------------------------------------
(* CreateCCREventMessage, for a record type with a Service-Context-Id.            *)
Head0 == <<Leaf("Session-Id", "UTF8String"), Leaf("Auth-Application-Id", "Unsigned32"),
           Leaf("Service-Context-Id", "UTF8String"), Leaf("CC-Request-Type", "Enumerated"),
           Leaf("CC-Request-Number", "Unsigned32")>>

(* The subscriber: the request has two of it, by number and by IMSI.              *)
Subscription == Group("Subscription-Id", {Leaf("Subscription-Id-Type", "Enumerated"),
                                          Leaf("Subscription-Id-Data", "UTF8String")})

Event == <<Leaf("User-Name", "UTF8String"), Leaf("Event-Timestamp", "Time"),
           Leaf("Multiple-Services-Indicator", "Enumerated"),
           Leaf("Requested-Action", "Enumerated")>>

(* One unit for an SMS, seconds for a call, octets for anything else.             *)
Requested(measure) == CASE measure = "SPECIFIC" -> Leaf("CC-Service-Specific-Units", "Unsigned64")
                        [] measure = "SECONDS" -> Leaf("CC-Time", "Unsigned32")
                        [] OTHER -> Leaf("CC-Total-Octets", "Unsigned64")

Services(measure) ==
    Group("Multiple-Services-Credit-Control",
          {Group("Requested-Service-Unit", {Requested(measure)}),
           Leaf("Rating-Group", "Unsigned32")})

Information(measure) ==
    Group("Service-Information",
          {IF measure = "SPECIFIC"
           THEN Group("SMS-Information", {Leaf("SMS-Node", "Enumerated")})
           ELSE Group("PS-Information", {Leaf("Calling-Station-Id", "UTF8String")})})

(* Mutant of CreateCCREventMessage: the rating group stands at the top, too.      *)
RatingGroupOnTop(measure) ==
    Head0 \o <<Subscription, Subscription>> \o Event
    \o <<Leaf("Rating-Group", "Unsigned32"), Services(measure), Information(measure)>>

CreateCCREventMessage(measure) ==
    Head0 \o <<Subscription, Subscription>> \o Event
    \o <<Services(measure), Information(measure)>>

(* SendCCREvent names the origin and the destination before it writes.            *)
Addressed(message) ==
    message \o <<Leaf("Origin-Host", "DiameterIdentity"), Leaf("Origin-Realm", "DiameterIdentity"),
                 Leaf("Destination-Realm", "DiameterIdentity"),
                 Leaf("Destination-Host", "DiameterIdentity")>>

(* The watchdog of SendCCREvent.                                                  *)
Watchdog == <<Leaf("Origin-Host", "DiameterIdentity"), Leaf("Origin-Realm", "DiameterIdentity"),
              Leaf("Origin-State-Id", "Unsigned32")>>

(* StartDiameterClient: the settings the client takes for its capabilities.  Its  *)
(* own addresses are those of the BRTs, a loopback before one that is local, and  *)
(* at the end its own.                                                            *)
Addresses(brts, local) == brts + (IF local THEN 2 ELSE 1)

ClientSettings(brts, local) ==
    <<Leaf("Origin-Host", "DiameterIdentity"), Leaf("Origin-Realm", "DiameterIdentity")>>
    \o [i \in 1 .. Addresses(brts, local) |-> Leaf("Host-IP-Address", "Address")]
    \o <<Leaf("Vendor-Id", "Unsigned32"), Leaf("Product-Name", "UTF8String"),
         Leaf("Origin-State-Id", "Unsigned32"), Leaf("Firmware-Revision", "Unsigned32")>>

(* Client: its applications.  The supported vendors are told by a second          *)
(* Vendor-Specific-Application-Id, of the same members.                           *)
Applications ==
    LET vendor == Group("Vendor-Specific-Application-Id",
                        {Leaf("Vendor-Id", "Unsigned32"), Leaf("Auth-Application-Id", "Unsigned32")})
    IN  <<vendor, Leaf("Auth-Application-Id", "Unsigned32"),
          Leaf("Acct-Application-Id", "Unsigned32"), vendor>>

(* The request go-diameter makes of both when a peer is dialled.                  *)
Capabilities(brts, local) == ClientSettings(brts, local) \o Applications

-----------------------------------------------------------------------------
(* ConvertType: the values of the two types the handler knows come out bare, of   *)
(* another with the name of the type around them.                                 *)
ConvertType(name, value) ==
    IF TypesOf(name) \subseteq {"Unsigned32", "UTF8String"} THEN value
    ELSE <<CHOOSE t \in TypesOf(name) : TRUE, value>>

(* What the handlers of the answers CCA and DWA read of them; go-diameter's own   *)
(* takes no CEA without a result and an origin.                                   *)
AvpsRead(command) == {"Result-Code"}
                     \cup (IF command = "CC" THEN {"Session-Id"} ELSE {})
                     \cup (IF command = "CE" THEN {"Origin-Host", "Origin-Realm"} ELSE {})

(* ResponseDiamHandler: the code and the session id of an answer.                 *)
ResponseDiamHandler(answer) ==
    [code |-> ConvertType("Result-Code", answer.code),
     sid  |-> ConvertType("Session-Id", answer.sid)]

-----------------------------------------------------------------------------
(* What the dictionary says of a message: the AVPs its command must and may have,  *)
(* those it may have once, and the type of each AVP and what may be in it.         *)
Below(avps) == avps \cup (UNION {a.members : a \in avps})
               \cup (UNION {UNION {b.members : b \in a.members} : a \in avps})

Complete(message, rules) ==
    /\ rules.required \subseteq Names(Avps(message))
    /\ Names(Avps(message)) \subseteq rules.required \cup rules.optional

RepeatsAllowed(message, rules) ==
    \A i, j \in DOMAIN message : message[i].name = message[j].name => i = j \/ message[i].name \in rules.many

AsDefined(a) ==
    /\ TypesOf(a.name) = {a.type}
    /\ a.name \in DOMAIN MembersOf =>
          Names(a.members) \subseteq MembersOf[a.name].required \cup MembersOf[a.name].optional

(* Service-Information is allowed in a request and defined nowhere.               *)
Defined(message) == \A a \in Below({x \in Avps(message) : x.name # "Service-Information"}) : AsDefined(a)
================================================================================
