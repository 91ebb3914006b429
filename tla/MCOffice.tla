------------------------------ MODULE MCOffice ------------------------------
(* Instances of TankDesk for TLC. *)
EXTENDS TankDesk, TLC

MCTarget == ("t1" :> "u1") @@ ("t2" :> "u2")

Quiet ==
    [changes |-> 0, catalogs |-> 0, local |-> 0, plans |-> 0, cancels |-> 0, pulls |-> 0,
     edits |-> 0, errors |-> 0, crashes |-> 0, rounds |-> 0, rereads |-> FALSE]

(* Two prices set by hand, one after the other or at once; one beside the      *)
(* operator's route or a catalog; scheduled prices that are cancelled, cut     *)
(* short, fail unmarked or are due together, or meet a price of the backend;   *)
(* edits of the tank section during rounds, exports, restarts and a price      *)
(* change.                                                                     *)
MCBudgets ==
    {[Quiet EXCEPT !.changes = 2],
     [Quiet EXCEPT !.changes = 1, !.local = 1, !.errors = 1],
     [Quiet EXCEPT !.changes = 1, !.catalogs = 1, !.rereads = TRUE],
     [Quiet EXCEPT !.changes = 1, !.crashes = 1, !.rereads = TRUE],
     [Quiet EXCEPT !.catalogs = 1, !.crashes = 1, !.errors = 1],
     [Quiet EXCEPT !.changes = 1, !.pulls = 1],
     [Quiet EXCEPT !.changes = 1, !.plans = 1],
     [Quiet EXCEPT !.pulls = 1, !.crashes = 1],
     [Quiet EXCEPT !.pulls = 1, !.rereads = TRUE],
     [Quiet EXCEPT !.plans = 1, !.cancels = 1, !.crashes = 1, !.errors = 1],
     [Quiet EXCEPT !.plans = 2],
     [Quiet EXCEPT !.plans = 1, !.changes = 1, !.errors = 2],
     [Quiet EXCEPT !.plans = 1, !.pulls = 1, !.errors = 1],
     [Quiet EXCEPT !.changes = 1, !.edits = 1, !.rounds = 1],
     [Quiet EXCEPT !.edits = 2, !.rounds = 3, !.errors = 1],
     [Quiet EXCEPT !.edits = 1, !.rounds = 2, !.errors = 1, !.crashes = 1]}
=============================================================================
