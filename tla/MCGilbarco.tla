----------------------------- MODULE MCGilbarco -----------------------------
(* Instances of GilbarcoLane for TLC. *)
EXTENDS GilbarcoLane

Quiet ==
    [lifts |-> 2, orders |-> 1, cancels |-> 0, expires |-> 0, stops |-> 0, estops |-> 0,
     resets |-> 0, clears |-> 0, losses |-> 0, noise |-> 0, limits |-> 0, faults |-> 0,
     crashes |-> 0, touched |-> Nozzle, late |-> FALSE, early |-> FALSE]

(* Two customers with two orders and a lost answer, a refused sale, a crash or *)
(* an order that expires at any moment; with one order and a stop, cancelled   *)
(* or reset at any moment; one customer and a sale that is hard to close.      *)
MCBudgets ==
    {[Quiet EXCEPT !.orders = 2, !.losses = 1],
     [Quiet EXCEPT !.orders = 2, !.faults = 1],
     [Quiet EXCEPT !.orders = 2, !.crashes = 1],
     [Quiet EXCEPT !.orders = 2, !.expires = 1, !.late = TRUE, !.touched = {2}],
     [Quiet EXCEPT !.stops = 1, !.losses = 1, !.resets = 1],
     [Quiet EXCEPT !.estops = 1, !.clears = 1, !.faults = 1, !.noise = 1],
     [Quiet EXCEPT !.cancels = 1, !.late = TRUE],
     [Quiet EXCEPT !.resets = 1, !.clears = 1, !.late = TRUE],
     [Quiet EXCEPT !.lifts = 1, !.losses = 2, !.faults = 2],
     [Quiet EXCEPT !.lifts = 1, !.stops = 1, !.losses = 2, !.faults = 1, !.resets = 1]}

(* One customer of the second nozzle, whose order expires. *)
MCExpired == {[Quiet EXCEPT !.lifts = 1, !.expires = 1, !.late = TRUE, !.touched = {2}]}
=============================================================================
