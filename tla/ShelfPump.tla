------------------------------ MODULE ShelfPump ------------------------------
(***************************************************************************)
(* One gun of a SHELF V2.2 dispenser as the repository's simulator plays   *)
(* it (tools/simulators/shelf-sim/src/simulator.rs), and what a status     *)
(* request to it may be answered with (crates/shelf-v22).  The guns of a   *)
(* side share a controller, so the answer of one may describe another.     *)
(* Besides the simulator's behaviour there is that of real dispensers      *)
(* which the driver's comments and tests describe: a fill may be paused,   *)
(* the dispenser has a keypad, and it retains its last sale.               *)
(***************************************************************************)
EXTENDS Integers, FiniteSets

CONSTANTS
    Gun,        \* active guns of the side, in configuration order
    MaxVolume,  \* bound: units of fuel in one fill
    None        \* no gun, no dose, no sale

ASSUME GunAssumption == Gun \subseteq Nat /\ IsFiniteSet(Gun) /\ Gun # {}
ASSUME MaxVolumeAssumption == MaxVolume \in Nat
ASSUME NoneAssumption == None \notin Nat

Volume == 0 .. MaxVolume
Dose == (1 .. MaxVolume) \cup {None}

GunState ==
    [phase : {"Idle", "Keypad", "Armed", "Dispensing", "Synchronizing", "Final"},
     lifted : BOOLEAN, volume : Volume, dose : Dose, paused : BOOLEAN]

GunReset == [phase |-> "Idle", lifted |-> FALSE, volume |-> 0, dose |-> None, paused |-> FALSE]

Filling(p) == p.phase \in {"Armed", "Dispensing"}

(* finish *)
Finished(p) == [p EXCEPT !.phase = "Synchronizing", !.paused = FALSE]

GunLift(p) ==
    [p EXCEPT !.lifted = TRUE, !.phase = IF @ = "Armed" THEN "Dispensing" ELSE @]

GunHolster(p) ==
    LET q == [p EXCEPT !.lifted = FALSE] IN IF Filling(p) THEN Finished(q) ELSE q

(* tick *)
GunFlow(p) ==
    LET q == [p EXCEPT !.volume = @ + 1]
    IN  IF q.dose # None /\ q.volume >= q.dose THEN Finished(q) ELSE q

(* 0x05 and 0x09: a new fill, or one of the keypad. *)
TakesDose(p) == p.phase = "Idle"

GunDose(p, dose) ==
    [p EXCEPT !.volume = 0, !.dose = dose, !.phase = IF p.lifted THEN "Dispensing" ELSE "Armed"]

(* 0x0C *)
GunStop(p) == IF Filling(p) THEN Finished(p) ELSE p

(* A status request is answered: the end of a fill is told in two steps. *)
GunTold(p) ==
    CASE p.phase = "Synchronizing" -> [p EXCEPT !.phase = "Final"]
      [] p.phase = "Final"         -> [p EXCEPT !.phase = "Idle"]
      [] OTHER                     -> p

----------------------------------------------------------------------------
(* Answers to a status request: parse_live_status and parse_final_sale. *)

Reply ==
    [kind : {"Idle", "Keypad", "Dispensing", "Synchronizing", "Final"}, of : Gun \cup {None},
     lifts : SUBSET Gun, any : BOOLEAN, flow : BOOLEAN, paused : BOOLEAN, volume : Volume]

Lifted(pump) == {g \in Gun : pump[g].lifted}

OwnReply(pump, g) ==
    [kind   |-> IF pump[g].phase = "Armed" THEN "Dispensing" ELSE pump[g].phase,
     of     |-> IF pump[g].phase \in {"Idle", "Final"} THEN None ELSE g,
     lifts  |-> Lifted(pump), any |-> Lifted(pump) # {},
     flow   |-> pump[g].phase = "Dispensing", paused |-> pump[g].paused,
     volume |-> pump[g].volume]

(* Throughout another gun's delivery an idle gun answers 0x85 about that one. *)
SharedReplies(pump, g) ==
    {[OwnReply(pump, h) EXCEPT !.kind = "Synchronizing"] :
        h \in {o \in Gun \ {g} : pump[g].phase = "Idle" /\ pump[o].phase = "Dispensing"}}

(* Some controllers tell that a gun is lifted, and not which one. *)
Aggregate(r) == [r EXCEPT !.lifts = {}]

Answers(pump, g) ==
    LET full == {OwnReply(pump, g)} \cup SharedReplies(pump, g)
    IN  full \cup {Aggregate(r) : r \in full}

GunLifted(r, g) == IF r.lifts # {} THEN g \in r.lifts ELSE r.any
DescribesOther(r, g) == r.of # None /\ r.of # g
IsDispensing(r) == r.kind = "Dispensing" \/ r.flow
=============================================================================
