------------------------------ MODULE MCBlueSky ------------------------------
(* Instances of BlueSkyLane for TLC. *)
EXTENDS BlueSkyLane

(* Two orders for a customer at one hose, with a stop and a refused commit, or *)
(* with a crash; two hoses in use, with an order, a stop and a crash; an order *)
(* and a fill of the keypad, the customer at either hose; a fill of the keypad *)
(* that is stopped while both hoses are in use, or followed by an order and a  *)
(* crash.                                                                      *)
MCBudgets ==
    {[orders |-> 2, keypad |-> 0, stops |-> 1, crashes |-> 0, faults |-> 1, touched |-> {1}],
     [orders |-> 2, keypad |-> 0, stops |-> 0, crashes |-> 1, faults |-> 0, touched |-> {1}],
     [orders |-> 1, keypad |-> 0, stops |-> 1, crashes |-> 1, faults |-> 0, touched |-> {1, 2}],
     [orders |-> 1, keypad |-> 1, stops |-> 0, crashes |-> 0, faults |-> 0, touched |-> {1}],
     [orders |-> 1, keypad |-> 1, stops |-> 0, crashes |-> 0, faults |-> 0, touched |-> {2}],
     [orders |-> 1, keypad |-> 1, stops |-> 0, crashes |-> 1, faults |-> 0, touched |-> {1}],
     [orders |-> 0, keypad |-> 1, stops |-> 1, crashes |-> 0, faults |-> 0, touched |-> {1, 2}]}
=============================================================================
