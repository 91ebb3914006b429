----------------------------- MODULE SaleLedger -----------------------------
(***************************************************************************)
(* What a pump card owes the station, told without a pump, a wire, a       *)
(* journal or a crash: every sale is metered, billed once for exactly what *)
(* was metered, credited to one shift in the same step, and its meter is   *)
(* given up only when nothing is left to bill.                             *)
(***************************************************************************)
EXTENDS Naturals

CONSTANTS
    Sale,    \* sales
    Shift    \* shifts, 0 standing for no shift

VARIABLES
    meter,   \* [Sale -> fuel delivered]
    bill,    \* [Sale -> fuel billed], 0 while not billed
    credit,  \* [shift -> fuel credited to it]
    gone     \* sales whose meter was given up

vars == <<meter, bill, credit, gone>>

Init ==
    /\ meter = [s \in Sale |-> 0]
    /\ bill = [s \in Sale |-> 0]
    /\ credit = [t \in Shift \ {0} |-> 0]
    /\ gone = {}

(* Fuel flows for a sale that is neither billed nor given up. *)
Deliver(s) ==
    /\ bill[s] = 0 /\ s \notin gone
    /\ meter' = [meter EXCEPT ![s] = @ + 1]
    /\ UNCHANGED <<bill, credit, gone>>

(* The sale is billed in full, and the shift credited with it. *)
Bill(s, t) ==
    /\ meter[s] > 0 /\ bill[s] = 0 /\ s \notin gone
    /\ bill' = [bill EXCEPT ![s] = meter[s]]
    /\ credit' = IF t = 0 THEN credit ELSE [credit EXCEPT ![t] = @ + meter[s]]
    /\ UNCHANGED <<meter, gone>>

(* The meter is given up only when it has nothing left to bill. *)
GiveUp(s) ==
    /\ bill[s] = meter[s]
    /\ gone' = gone \cup {s}
    /\ UNCHANGED <<meter, bill, credit>>

Next ==
    \E s \in Sale :
        \/ Deliver(s)
        \/ \E t \in Shift : Bill(s, t)
        \/ GiveUp(s)

Spec == Init /\ [][Next]_vars
=============================================================================
