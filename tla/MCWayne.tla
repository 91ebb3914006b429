------------------------------- MODULE MCWayne -------------------------------
(* Instances of WayneLane for TLC. *)
EXTENDS WayneLane

Quiet ==
    [lifts |-> 2, orders |-> 1, stops |-> 0, cancels |-> 0, resets |-> 0, closes |-> 0,
     crashes |-> 0, faults |-> 0, queue |-> 1, hasty |-> 0]

(* Two customers with two orders; with one order and a Stop that the operator  *)
(* closes, a cancelled order and a lost exchange, a reset lane, or a crash and *)
(* a lost exchange; one customer whose lift and the order for it miss each     *)
(* other.                                                                      *)
MCBudgets ==
    {[Quiet EXCEPT !.orders = 2],
     [Quiet EXCEPT !.stops = 1, !.closes = 1],
     [Quiet EXCEPT !.cancels = 1, !.faults = 1],
     [Quiet EXCEPT !.resets = 1],
     [Quiet EXCEPT !.crashes = 1, !.faults = 1],
     [Quiet EXCEPT !.lifts = 1, !.hasty = 1]}

(* One customer who is stopped twice. *)
MCStops == {[Quiet EXCEPT !.lifts = 1, !.stops = 2]}
=============================================================================
