------------------------------ MODULE MCShelf ------------------------------
(* Instances of ShelfLane for TLC. *)
EXTENDS ShelfLane

Quiet ==
    [named |-> 1, reactive |-> 0, keypad |-> 0, pauses |-> 0, stops |-> 0, estops |-> 0,
     resets |-> 0, losses |-> 0, deaf |-> 0, faults |-> 0, crashes |-> 0, touched |-> {1},
     gas |-> FALSE, retains |-> TRUE]

(* Two guns and a reset lane; a fill of the keypad that is stopped; gas with   *)
(* lost answers and an emergency stop, or a stop during the price write; an    *)
(* order for the lifted gun; two orders with a lost answer and a refused sale; *)
(* lost answers and a refused sale; a crash; a pause and a reset.  Some        *)
(* dispensers retain their last sale, the simulator does not.                  *)
MCBudgets ==
    {[Quiet EXCEPT !.resets = 1, !.touched = Gun],
     [Quiet EXCEPT !.named = 0, !.keypad = 1, !.pauses = 1, !.stops = 1],
     [Quiet EXCEPT !.estops = 1, !.losses = 1, !.deaf = 1, !.gas = TRUE],
     [Quiet EXCEPT !.stops = 1, !.touched = Gun, !.gas = TRUE],
     [Quiet EXCEPT !.named = 0, !.reactive = 1, !.stops = 1, !.losses = 1, !.deaf = 1,
                   !.retains = FALSE],
     [Quiet EXCEPT !.named = 2, !.losses = 1, !.faults = 1],
     [Quiet EXCEPT !.stops = 1, !.losses = 2, !.deaf = 1, !.faults = 1],
     [Quiet EXCEPT !.stops = 1, !.losses = 1, !.deaf = 1, !.crashes = 1, !.gas = TRUE,
                   !.retains = FALSE],
     [Quiet EXCEPT !.pauses = 1, !.resets = 1, !.losses = 1, !.deaf = 1, !.faults = 1,
                   !.retains = FALSE]}

=============================================================================
