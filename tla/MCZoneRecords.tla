--------------------------- MODULE MCZoneRecords ---------------------------
(* Model values for ZoneRecords.  Each name may list SOA records with two  *)
(* values, an IN A record and a CH A record with the same value.           *)
EXTENDS ZoneRecords

CONSTANTS n1, n2, v1, v2, TypeA, ClassIN, ClassCH

\* Two distinct owner names.
MCNames == {n1, n2}
MCOwner == [n \in MCNames |-> n]

MCRRs == {[Name |-> n, Type |-> t[1], Class |-> t[2], Value |-> t[3]] :
             n \in MCNames,
             t \in {<<SOA, ClassIN, v1>>, <<SOA, ClassIN, v2>>,
                   <<TypeA, ClassIN, v1>>, <<TypeA, ClassCH, v1>>}}
=============================================================================
