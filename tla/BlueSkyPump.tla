----------------------------- MODULE BlueSkyPump -----------------------------
(***************************************************************************)
(* One hose of a dispenser behind the TU_WB_KEY controller, as the driver  *)
(* of engine/protocols/texnouz_bluesky.rs uses it.  The repository has no  *)
(* simulator of it: everything here is an assumption about the device.     *)
(* Every operator maps a hose to the hose after the event, and a refused   *)
(* command leaves it as it is.                                             *)
(*                                                                         *)
(*   phase  - off, keyed (a dose entered at the keypad waits), dosed (a    *)
(*            dose was written), ready (Start accepted, no fuel yet), on,  *)
(*            held (the flow is interrupted and the status bits show       *)
(*            neither flow nor pause), ending (the valve is closing)       *)
(*   lifted - the nozzle                                                   *)
(*   remote - the controller, not the keypad, is in charge                 *)
(*   volume - the register of the last fill                                *)
(*   dose   - where the fill ends by itself; None is a full tank           *)
(***************************************************************************)
EXTENDS Naturals

CONSTANTS
    MaxVolume,  \* bound: the units that fit in a tank
    None        \* no dose, no nozzle, no reply

ASSUME MaxVolumeAssumption == MaxVolume \in Nat \ {0}
ASSUME NoneAssumption == None \notin Nat

Dose == (1 .. MaxVolume) \cup {None}

PumpState ==
    [phase : {"off", "keyed", "dosed", "ready", "on", "held", "ending"},
     lifted : BOOLEAN, remote : BOOLEAN, volume : 0 .. (MaxVolume + 1), dose : Dose]

PumpReset ==
    [phase |-> "off", lifted |-> FALSE, remote |-> FALSE, volume |-> 0, dose |-> None]

Filling(p) == p.phase \in {"on", "held"}

(* The status byte of D5, its pause bit counted as flow. *)
PumpStatus(p) ==
    [lifted |-> p.lifted, busy |-> p.phase = "on", keyed |-> p.phase = "keyed"]

TakesDose(p) == p.remote /\ p.phase \in {"off", "dosed"}

----------------------------------------------------------------------------
(* Commands of the driver. *)

PumpDose(p, dose) ==
    IF TakesDose(p) THEN [p EXCEPT !.phase = "dosed", !.volume = 0, !.dose = dose] ELSE p

PumpStart(p) ==
    IF p.phase = "dosed" /\ p.lifted THEN [p EXCEPT !.phase = "ready"] ELSE p

PumpStop(p) ==
    CASE p.phase = "ready" -> [p EXCEPT !.phase = "off"]
      [] Filling(p)        -> [p EXCEPT !.phase = "ending"]
      [] OTHER             -> p

PumpClearKeypad(p) == IF p.phase = "keyed" THEN [p EXCEPT !.phase = "off"] ELSE p

----------------------------------------------------------------------------
(* What the pump and the customer do on their own. *)

PumpHolster(p) == [PumpStop(p) EXCEPT !.lifted = FALSE]

(* A fill of the keypad, or of nobody, begins. *)
PumpOwnFill(p) == [p EXCEPT !.phase = "on", !.volume = 0, !.dose = None]

PumpFlow(p) ==
    [p EXCEPT !.volume = @ + 1, !.phase = IF p.volume + 1 = p.dose THEN "ending" ELSE @]

(* The last drops may still pass the meter before the valve is shut. *)
PumpShut(p, creep) == [p EXCEPT !.phase = "off", !.volume = @ + creep]
=============================================================================
