------------------------------- MODULE AztPump -------------------------------
(***************************************************************************)
(* One hose of an AZT 2.0 dispenser as the controller sees it: the status  *)
(* graph and the commands of tools/simulators/azt-sim/src/dispenser.rs.    *)
(* Every operator maps a hose record to the record after the command; a    *)
(* refused command (CAN on the wire) leaves the record as it is.           *)
(*                                                                         *)
(*   status  - what the status poll '1' answers                            *)
(*   lifted  - the nozzle switch                                           *)
(*   volume  - the sale register read by '5'                               *)
(*   serial  - the register that tells one sale from the next: the         *)
(*             transaction number 'Y' on a pump that has one (Numbered),   *)
(*             its lifetime counter '6' on one that answers NAK to 'Y'     *)
(***************************************************************************)
EXTENDS Naturals

CONSTANT
    MaxVolume,  \* the largest dose: the volume at which the pump stops itself
    Numbered    \* does the pump answer the transaction-number query?

ASSUME MaxVolumeAssumption == MaxVolume \in Nat \ {0}
ASSUME NumberedAssumption == Numbered \in BOOLEAN

PumpStatus ==
    {"OffHolstered", "OffLifted", "LocalPreset", "Authorized", "Dispensing", "Finished"}

PumpState ==
    [status : PumpStatus, lifted : BOOLEAN, volume : 0 .. MaxVolume, serial : Nat]

PumpReset == [status |-> "OffHolstered", lifted |-> FALSE, volume |-> 0, serial |-> 0]

PumpIdle(p) == p.status \in {"OffHolstered", "OffLifted"}

(* A dose entered at the pump's own keypad (status '8') waits to be accepted. *)
PumpReady(p) == PumpIdle(p) \/ p.status = "LocalPreset"

PumpArmed(p) == p.status \in {"Authorized", "Dispensing"}

PumpIdleStatus(p) == IF p.lifted THEN "OffLifted" ELSE "OffHolstered"

(* The sale ends where it stands and the lifetime counters take it in. *)
PumpFinish(p) ==
    [p EXCEPT !.status = "Finished",
              !.serial = IF Numbered THEN @ ELSE @ + p.volume]

(* The sale register is cleared; a new transaction number begins. *)
PumpRenew(p) ==
    [p EXCEPT !.volume = 0,
              !.serial = IF Numbered THEN @ + 1 ELSE @]

----------------------------------------------------------------------------
(* Commands of the controller. *)

(* 'Q': only from an idle status. *)
PumpSetPrice(p) == IF PumpIdle(p) THEN PumpRenew(p) ELSE p

(* '2': arms the pump and clears the sale register; a keypad dose gives way. *)
PumpAuthorize(p) ==
    IF PumpReady(p) THEN [PumpRenew(p) EXCEPT !.status = "Authorized"] ELSE p

(* 'V': an armed pump starts without waiting for the nozzle switch. *)
PumpStart(p) ==
    IF p.status = "Authorized" THEN [p EXCEPT !.status = "Dispensing"] ELSE p

(* '3': an armed or dispensing pump stops and keeps its registers; a keypad *)
(* dose is rejected.                                                        *)
PumpStop(p) ==
    CASE PumpArmed(p)              -> PumpFinish(p)
      [] p.status = "LocalPreset"  -> [p EXCEPT !.status = PumpIdleStatus(p)]
      [] OTHER                     -> p

(* '8': the sale is acknowledged; the pump is free for the next one. *)
PumpConfirm(p) ==
    IF p.status = "Finished" THEN [p EXCEPT !.status = PumpIdleStatus(p)] ELSE p

----------------------------------------------------------------------------
(* What the customer and the pump do on their own. *)

PumpLift(p) ==
    [p EXCEPT !.lifted = TRUE,
              !.status = IF @ = "OffHolstered" THEN "OffLifted" ELSE @]

(* A dose entered at the keypad. *)
PumpPreset(p) == IF PumpIdle(p) THEN [p EXCEPT !.status = "LocalPreset"] ELSE p

PumpHolster(p) ==
    LET down == [p EXCEPT !.lifted = FALSE]
    IN  CASE p.status = "Dispensing" -> PumpFinish(down)
          [] p.status = "OffLifted"  -> [down EXCEPT !.status = "OffHolstered"]
          [] OTHER                   -> down

(* Faulty: the dose does not stop the pump. *)
PumpFlowPastDose(p) == [p EXCEPT !.volume = @ + 1]

(* One unit of fuel; at the dose the pump switches off by itself. *)
PumpFlow(p) ==
    LET more == [p EXCEPT !.volume = @ + 1]
    IN  IF more.volume = MaxVolume THEN PumpFinish(more) ELSE more

(* The pump is cleared at its own panel or loses power. The registers *)
(* of the sale stay readable in every status.                         *)
PumpClear(p) ==
    LET done == IF PumpArmed(p) THEN PumpFinish(p) ELSE p
    IN  [done EXCEPT !.status = PumpIdleStatus(p)]
=============================================================================
