--------------------------------- MODULE Dictionary ---------------------------------
(* The dictionary the Diameter client loads (baseXML_easy, creditcontrolXML): the  *)
(* rules of its commands, and its AVPs by the type of their data, with the rules   *)
(* of the grouped ones.  The client reads answers with it; requests are made with  *)
(* go-diameter's default dictionary.                                               *)
(*                                                                                 *)
(* Abstracted: codes, flags and enumerated values; the other dictionaries of the   *)
(* file, which nothing loads.                                                      *)
EXTENDS Naturals

Names(things) == {x.name : x \in things}

(* What must be there, what may, and which of it more than once (no max="1").      *)
Rules(required, optional, many) == [required |-> required, optional |-> optional, many |-> many]

Rule(name, required, optional) ==
    [name |-> name, required |-> required, optional |-> optional, many |-> {}]

-----------------------------------------------------------------------------
CCRequest ==
    Rules({"Session-Id", "Origin-Host", "Origin-Realm", "Destination-Realm",
           "Auth-Application-Id", "Service-Context-Id", "CC-Request-Type",
           "CC-Request-Number"},
          {"Destination-Host", "User-Name", "CC-Sub-Session-Id", "Acct-Multi-Session-Id",
           "Origin-State-Id", "Event-Timestamp", "Subscription-Id", "Service-Identifier",
           "Termination-Cause", "Requested-Service-Unit", "Requested-Action",
           "Used-Service-Unit", "Multiple-Services-Indicator",
           "Multiple-Services-Credit-Control", "Service-Parameter-Info",
           "CC-Correlation-Id", "User-Equipment-Info", "Proxy-Info", "Route-Record",
           "Service-Information"}, {})

CCAnswer ==
    Rules({"Session-Id", "Result-Code", "Origin-Host", "Origin-Realm", "CC-Request-Type",
           "CC-Request-Number"},
          {"User-Name", "CC-Session-Failover", "CC-Sub-Session-Id",
           "Acct-Multi-Session-Id", "Origin-State-Id", "Event-Timestamp",
           "Granted-Service-Unit", "Multiple-Services-Credit-Control",
           "Cost-Information", "Final-Unit-Indication", "Check-Balance-Result",
           "Credit-Control-Failure-Handling", "Direct-Debiting-Failure-Handling",
           "Validity-Time", "Redirect-Host", "Redirect-Host-Usage",
           "Redirect-Max-Cache-Time", "Proxy-Info", "Route-Record", "Failed-AVP"}, {})

CERequest ==
    LET listed == {"Supported-Vendor-Id", "Auth-Application-Id", "Inband-Security-Id",
                   "Acct-Application-Id", "Vendor-Specific-Application-Id"}
    IN  Rules({"Origin-Host", "Origin-Realm", "Host-IP-Address", "Vendor-Id", "Product-Name"},
              {"Origin-State-Id", "Firmware-Revision"} \cup listed,
              {"Host-IP-Address"} \cup listed)

CEAnswer ==
    LET listed == {"Supported-Vendor-Id", "Auth-Application-Id", "Inband-Security-Id",
                   "Acct-Application-Id", "Vendor-Specific-Application-Id"}
    IN  Rules({"Result-Code", "Origin-Host", "Origin-Realm", "Host-IP-Address", "Vendor-Id",
               "Product-Name"},
              {"Origin-State-Id", "Error-Message", "Failed-AVP", "Firmware-Revision"} \cup listed,
              {"Host-IP-Address"} \cup listed)

DWRequest == Rules({"Origin-Host", "Origin-Realm"}, {"Origin-State-Id"}, {})

DWAnswer == Rules({"Result-Code", "Origin-Host", "Origin-Realm"},
                  {"Error-Message", "Failed-AVP", "Origin-State-Id"}, {})

Answers == [CC |-> CCAnswer, CE |-> CEAnswer, DW |-> DWAnswer]

-----------------------------------------------------------------------------
(* The Credit-Control application, in the order of the file: amounts and costs ... *)
Amounts == {"CC-Time", "CC-Money", "CC-Total-Octets", "CC-Input-Octets",
            "CC-Output-Octets", "CC-Service-Specific-Units"}

CostAvps ==
    [types |-> [OctetString |-> {"CC-Correlation-Id"},
                Unsigned64 |-> {"CC-Input-Octets", "CC-Output-Octets", "CC-Total-Octets",
                                "CC-Service-Specific-Units", "CC-Sub-Session-Id"},
                Unsigned32 |-> {"CC-Request-Number", "CC-Time", "Currency-Code"},
                UTF8String |-> {"Cost-Unit"},
                Integer32 |-> {"Exponent"},
                Enumerated |-> {"CC-Request-Type", "CC-Session-Failover",
                                "CC-Unit-Type", "Check-Balance-Result",
                                "Credit-Control", "Credit-Control-Failure-Handling",
                                "Direct-Debiting-Failure-Handling"}],
     groups |-> {Rule("CC-Money", {"Unit-Value", "Currency-Code"}, {}),
                 Rule("Cost-Information", {"Unit-Value", "Currency-Code", "Cost-Unit"}, {})}]

(* ... units and what is asked for ...                                            *)
UnitAvps ==
    [types |-> [Unsigned32 |-> {"G-S-U-Pool-Identifier", "Rating-Group"},
                UTF8String |-> {"Redirect-Server-Address"},
                Enumerated |-> {"Final-Unit-Action", "Multiple-Services-Indicator",
                                "Redirect-Address-Type", "Requested-Action"}],
     groups |->
       {Rule("Final-Unit-Indication", {"Final-Unit-Action"},
             {"Restriction-Filter-Rule", "Filter-Id", "Redirect-Server"}),
        Rule("Granted-Service-Unit", {}, Amounts \cup {"Tariff-Time-Change"}),
        Rule("G-S-U-Pool-Reference", {"G-S-U-Pool-Identifier", "CC-Unit-Type", "Unit-Value"}, {}),
        Rule("Multiple-Services-Credit-Control", {},
             {"Granted-Service-Unit", "Requested-Service-Unit", "Used-Service-Unit",
              "Tariff-Change-Usage", "Service-Identifier", "Rating-Group",
              "G-S-U-Pool-Reference", "Validity-Time", "Result-Code",
              "Final-Unit-Indication"}),
        Rule("Redirect-Server", {"Redirect-Address-Type", "Redirect-Server-Address"}, {}),
        Rule("Requested-Service-Unit", {}, Amounts)}]

(* ... services, subscribers and their equipment.                                 *)
ServiceAvps ==
    [types |-> [IPFilterRule |-> {"Restriction-Filter-Rule"},
                UTF8String |-> {"Service-Context-Id", "Subscription-Id-Data"},
                Unsigned32 |-> {"Service-Identifier", "Service-Parameter-Type", "Validity-Time"},
                OctetString |-> {"Service-Parameter-Value", "User-Equipment-Info-Value"},
                Time |-> {"Tariff-Time-Change"},
                Integer64 |-> {"Value-Digits"},
                Enumerated |-> {"Subscription-Id-Type", "Tariff-Change-Usage",
                                "User-Equipment-Info-Type"}],
     groups |->
       {Rule("Service-Parameter-Info", {"Service-Parameter-Type", "Service-Parameter-Value"}, {}),
        Rule("Subscription-Id", {"Subscription-Id-Type", "Subscription-Id-Data"}, {}),
        Rule("Unit-Value", {"Value-Digits", "Exponent"}, {}),
        Rule("Used-Service-Unit", {}, Amounts \cup {"Tariff-Change-Usage"}),
        Rule("User-Equipment-Info", {"User-Equipment-Info-Type", "User-Equipment-Info-Value"}, {})}]

-----------------------------------------------------------------------------
(* The base protocol: accounting and authorization ...                            *)
AccountingAvps ==
    [types |-> [Unsigned32 |-> {"Acct-Interim-Interval", "Accounting-Record-Number",
                                "Acct-Application-Id", "Auth-Application-Id",
                                "Authorization-Lifetime", "Auth-Grace-Period"},
                UTF8String |-> {"Acct-Multi-Session-Id"},
                OctetString |-> {"Accounting-Session-Id"},
                Unsigned64 |-> {"Accounting-Sub-Session-Id"},
                Enumerated |-> {"Accounting-Realtime-Required",
                                "Accounting-Record-Type", "Auth-Request-Type",
                                "Auth-Session-State", "Re-Auth-Request-Type"}],
     groups |-> {}]

(* ... peers, errors and routing; Failed-AVP may hold anything ...                *)
PeerAvps ==
    [types |-> [OctetString |-> {"Class", "Proxy-State"},
                DiameterIdentity |-> {"Destination-Host", "Destination-Realm",
                                      "Error-Reporting-Host", "Origin-Host",
                                      "Origin-Realm", "Proxy-Host", "Route-Record"},
                UTF8String |-> {"Error-Message", "Product-Name"},
                Time |-> {"Event-Timestamp"},
                Grouped |-> {"Failed-AVP"},
                Unsigned32 |-> {"Experimental-Result-Code", "Firmware-Revision",
                                "Inband-Security-Id", "Multi-Round-Time-Out",
                                "Origin-State-Id", "Redirect-Max-Cache-Time", "Result-Code"},
                Address |-> {"Host-IP-Address"},
                DiameterURI |-> {"Redirect-Host"},
                Enumerated |-> {"Disconnect-Cause", "Redirect-Host-Usage"}],
     groups |-> {Rule("Experimental-Result", {"Vendor-Id", "Experimental-Result-Code"}, {}),
                 Rule("Proxy-Info", {"Proxy-Host", "Proxy-State"}, {})}]

(* ... sessions, vendors, overload control (RFC 7683) and priorities (RFC 7944).  *)
SessionAvps ==
    [types |-> [UTF8String |-> {"Session-Id", "User-Name"},
                Unsigned32 |-> {"Session-Timeout", "Session-Binding", "Supported-Vendor-Id",
                                "Vendor-Id", "OC-Validity-Duration",
                                "OC-Reduction-Percentage"},
                Unsigned64 |-> {"OC-Feature-Vector", "OC-Sequence-Number"},
                Enumerated |-> {"Session-Server-Failover", "Termination-Cause",
                                "OC-Report-Type", "DRMP"}],
     groups |->
       {Rule("Vendor-Specific-Application-Id",
             {"Auth-Application-Id", "Acct-Application-Id"}, {"Vendor-Id"}),
        Rule("OC-Supported-Features", {}, {"OC-Feature-Vector", "AVP"}),
        Rule("OC-OLR", {"OC-Sequence-Number", "OC-Report-Type"},
             {"OC-Reduction-Percentage", "OC-Validity-Duration", "AVP"})}]

-----------------------------------------------------------------------------
Tables == {CostAvps, UnitAvps, ServiceAvps, AccountingAvps, PeerAvps, SessionAvps}

MembersOf == LET groups == UNION {d.groups : d \in Tables}
             IN  [name \in Names(groups) |-> CHOOSE g \in groups : g.name = name]

(* FindAVP looks in the application of the message and then in the base protocol; *)
(* no name is in both.                                                            *)
TypesIn(d, name) == {t \in DOMAIN d.types : name \in d.types[t]}
                    \cup (IF name \in Names(d.groups) THEN {"Grouped"} ELSE {})

Known == UNION {(UNION {d.types[t] : t \in DOMAIN d.types}) \cup Names(d.groups) : d \in Tables}

TypesOfKnown == [name \in Known |-> UNION {TypesIn(d, name) : d \in Tables}]

(* Mutant of TypesOf: Session-Id is an OctetString, as in older dictionaries.     *)
OctetSession(name) == IF name = "Session-Id" THEN {"OctetString"}
                      ELSE IF name \in Known THEN TypesOfKnown[name] ELSE {}

TypesOf(name) == IF name \in Known THEN TypesOfKnown[name] ELSE {}
================================================================================
