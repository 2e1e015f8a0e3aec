------------------------------ MODULE MCCallMessages ------------------------------
(* Instances of CallMessages for TLC.                                             *)
EXTENDS CallMessages

Setting(chan, record, measure, context) ==
    [chan |-> chan, record |-> record, measure |-> measure, context |-> context]

(* A record type for every way a call can go.                                     *)
AllSettings == <<Setting("camel", "09", "SPECIFIC", TRUE), Setting("camel", "02", "SECONDS", TRUE),
                 Setting("diameter", "01", "SECONDS", TRUE), Setting("camel", "99", "OCTETS", TRUE),
                 Setting("diameter", "08", "SPECIFIC", TRUE), Setting("diameter", "99", "OCTETS", TRUE),
                 Setting("diameter", "99", "OCTETS", FALSE), Setting("file", "99", "OCTETS", FALSE)>>

(* Eight types of like shares; seven that are never drawn and the rest; and rates *)
(* that add up to more and to less than 100, so that the first type fills in.     *)
MixedConfigs == {<<12, 13, 12, 13, 12, 13, 12, 13>>, <<1, 1, 1, 1, 1, 1, 1, 93>>,
                 <<100, 50>>, <<1, 30, 0>>}

(* A pool file with a line for each reason to pass one over.                      *)
Line(msisdn, imsi, numeric) == [msisdn |-> msisdn, imsi |-> imsi, numeric |-> numeric]
SomeLines == {Line(10, 15, TRUE), Line(11, 15, TRUE), Line(10, 14, TRUE), Line(10, 15, FALSE)}

Place(l, d) == [lac |-> l, cell |-> d]
HomePlace == Place(1, 2)
TwoPlaces == <<"header", Place(10, 20), Place(11, 21)>>

(* The example configuration gives the SCP in two digits.                         *)
TwoDigits == <<0, 2>>

OnlyCamel == {<<100>>}
================================================================================
