---------------------------- MODULE ZoneRecords ----------------------------
(***************************************************************************)
(* zoneRecords (src/lib/dns/zone_records.go): the owner-name index of a   *)
(* zone, a map from domain name to the ordered list of its resource        *)
(* records, with add and remove.  A resource record is abstracted to its  *)
(* Name, Type, Class and Value; Value equality stands for reflect.IsEqual. *)
(***************************************************************************)
EXTENDS Naturals, Sequences, FiniteSets, SequencesExt

CONSTANTS
    Names,     \* owner names, exactly as spelled in rr.Name (the map key)
    Owner,     \* [Names -> owner]: names equal when compared without case
    RRs,       \* the resource records the callers add and remove
    SOA,       \* RecordTypeSOA
    MaxRR      \* bound: records listed under one name

ASSUME
    /\ DOMAIN Owner = Names
    /\ \A rr \in RRs : rr.Name \in Names
    /\ MaxRR \in Nat \ {0}

VARIABLES
    zr,        \* zoneRecords: [name -> sequence of records]
    last       \* the last call and what it returned, as the caller sees it

vars == <<zr, last>>

NoCall == [op |-> "none", rr |-> CHOOSE rr \in RRs : TRUE, ok |-> FALSE]

Init ==
    /\ zr = [n \in Names |-> <<>>]
    /\ last = NoCall

\* remove that compares Type and Value but not Class.
MatchesNoClass(in, rr) ==
    /\ in.Type = rr.Type
    /\ in.Value = rr.Value

(* The remove loop's three "continue" tests: same Type, same Class, and    *)
(* deep-equal Value.                                                        *)
Matches(in, rr) ==
    /\ in.Type = rr.Type
    /\ in.Class = rr.Class
    /\ in.Value = rr.Value

-----------------------------------------------------------------------------
(* Mutants: plausible bugs of the definitions below.                       *)

\* add without the SOA replacement: every record is appended.
AddAlwaysAppend(rr) ==
    /\ Len(zr[rr.Name]) < MaxRR
    /\ zr' = [zr EXCEPT ![rr.Name] = Append(@, rr)]
    /\ last' = [op |-> "add", rr |-> rr, ok |-> TRUE]

\* The shift written as copy(listRR[x+1:], listRR[x+2:]): it starts one
\* slot late, so record x stays and record x+1 is the one overwritten.
shiftDownLate(s, x) ==
    [i \in 1..Len(s) |-> IF i > x /\ i < Len(s) THEN s[i + 1] ELSE s[i]]

\* The reslice forgotten: the cleared slot stays at the end of the list.
resliceNone(s) == s

-----------------------------------------------------------------------------
(* add: a SOA record replaces, in place, the first SOA already listed      *)
(* under its name; any other record, or a SOA with none listed, is         *)
(* appended.                                                               *)
add(rr) ==
    LET listRR == zr[rr.Name]
        soas   == {x \in 1..Len(listRR) : listRR[x].Type = SOA}
    IN  /\ IF rr.Type = SOA /\ soas # {}
           THEN zr' = [zr EXCEPT ![rr.Name] = ReplaceAt(listRR, Min(soas), rr)]
           ELSE /\ Len(listRR) < MaxRR
                /\ zr' = [zr EXCEPT ![rr.Name] = Append(listRR, rr)]
        /\ last' = [op |-> "add", rr |-> rr, ok |-> TRUE]

(* copy(listRR[x:], listRR[x+1:]): Go's copy moves min(len) elements     *)
(* with memmove semantics, so every slot from x on takes its successor's   *)
(* value and the last slot keeps its own.                                  *)
shiftDown(s, x) ==
    [i \in 1..Len(s) |-> IF i >= x /\ i < Len(s) THEN s[i + 1] ELSE s[i]]

(* listRR[len(listRR)-1] = nil: the last slot is cleared.                 *)
clearLast(s, nilRR) == [s EXCEPT ![Len(s)] = nilRR]

(* zr[rr.Name] = listRR[:len(listRR)-1]: the list loses its last slot.     *)
reslice(s) == SubSeq(s, 1, Len(s) - 1)

(* remove: the first record under rr.Name that matches rr is deleted by    *)
(* shifting the tail down over it, clearing the last slot and reslicing;   *)
(* the result reports whether one was found.                               *)
remove(rr) ==
    LET listRR == zr[rr.Name]
        hits   == {x \in 1..Len(listRR) : Matches(listRR[x], rr)}
        nilRR  == [Name |-> rr.Name, Type |-> "nil", Class |-> "nil", Value |-> "nil"]
    IN  /\ zr' = IF hits = {} THEN zr
                 ELSE [zr EXCEPT ![rr.Name] =
                          reslice(clearLast(shiftDown(listRR, Min(hits)), nilRR))]
        /\ last' = [op |-> "remove", rr |-> rr, ok |-> hits # {}]

Next == \E rr \in RRs : add(rr) \/ remove(rr)

Spec == Init /\ [][Next]_vars

-----------------------------------------------------------------------------
TypeOK ==
    /\ zr \in [Names -> Seq(RRs)]
    /\ \A n \in Names : Len(zr[n]) <= MaxRR /\ \A i \in 1..Len(zr[n]) : zr[n][i].Name = n
    /\ last \in [op : {"none", "add", "remove"}, rr : RRs, ok : BOOLEAN]

(* At most one SOA record per owner name in the store (spec, section 3),   *)
(* owner names compared without regard to case.                           *)
SingleSOA ==
    \A o \in Range(Owner) :
        Cardinality({<<n, i>> \in {n \in Names : Owner[n] = o} \X (1..MaxRR) :
                        i <= Len(zr[n]) /\ zr[n][i].Type = SOA}) <= 1

(* remove returns true exactly when the name lists a record equal to rr in *)
(* Type, Class and Value; the hand-written copy/clear/reslice then has the *)
(* effect of the reference deletion RemoveAt of one such record, keeping   *)
(* the others in their order, and otherwise leaves the list as it was.    *)
RemoveSemantics ==
    [][ last'.op = "remove" =>
        LET n == last'.rr.Name
            match(in) == /\ in.Type = last'.rr.Type
                         /\ in.Class = last'.rr.Class
                         /\ in.Value = last'.rr.Value
        IN  /\ last'.ok <=> \E i \in 1..Len(zr[n]) : match(zr[n][i])
            /\ last'.ok => \E i \in 1..Len(zr[n]) :
                              /\ match(zr[n][i])
                              /\ zr'[n] = RemoveAt(zr[n], i)
            /\ ~last'.ok => zr' = zr
      ]_vars
=============================================================================
