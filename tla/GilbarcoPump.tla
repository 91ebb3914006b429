---------------------------- MODULE GilbarcoPump ----------------------------
(***************************************************************************)
(* One pump of a Gilbarco two-wire line as the repository's simulator      *)
(* plays it (tools/simulators/gilbarco-sim/src/dispenser.rs).  The pump    *)
(* tells its phase when it is polled and moves on by itself after a number *)
(* of polls; a lift clears its register, which otherwise keeps the last    *)
(* sale.  Prices are left out: the pump charges what it was told last.     *)
(***************************************************************************)
EXTENDS Integers, FiniteSets

CONSTANTS
    Nozzle,     \* indices of the active nozzles, from 1
    MaxVolume,  \* bound: units of fuel in one fill
    None        \* no nozzle, no limit

ASSUME NozzleAssumption == Nozzle \subseteq Nat \ {0} /\ 1 \in Nozzle
ASSUME MaxVolumeAssumption == MaxVolume \in Nat
ASSUME NoneAssumption == None \notin Nat

Volume == 0 .. MaxVolume
Limit == (1 .. MaxVolume) \cup {None}

Phase == {"Idle", "Lifted", "Ready", "Delivering", "Complete", "Stopped"}

PumpState ==
    [phase : Phase, nozzle : Nozzle, volume : Volume, limit : Limit, polls : 0 .. 2]

FreshPump == [phase |-> "Idle", nozzle |-> 1, volume |-> 0, limit |-> None, polls |-> 0]

HoseOut(p) == p.phase \in {"Lifted", "Ready", "Delivering"}

(* lift_nozzle *)
PumpLift(p, n) == [FreshPump EXCEPT !.phase = "Lifted", !.nozzle = n]

Completed(p) == [p EXCEPT !.phase = "Complete", !.limit = None, !.polls = 2]

(* replace_nozzle *)
CanHolster(p) == HoseOut(p) \/ p.phase = "Stopped"

(* tick_volume: the limit ends the sale. *)
PumpFlow(p) ==
    LET q == [p EXCEPT !.volume = @ + 1] IN IF q.volume = q.limit THEN Completed(q) ELSE q

(* The bytes 0x1N, 0x3N and the frame of preset_amount. *)
PumpAuthorize(p) == IF p.phase = "Lifted" THEN [p EXCEPT !.phase = "Ready", !.polls = 2] ELSE p
PumpHalt(p) == IF HoseOut(p) THEN [p EXCEPT !.phase = "Stopped"] ELSE p
PumpPreset(p, limit) == [p EXCEPT !.limit = limit]

(* status_response: the phase it answers is the one it is in afterwards. *)
PumpTold(p) ==
    LET n    == IF p.polls > 0 THEN p.polls - 1 ELSE 0
        next == CASE p.phase = "Ready" /\ n = 0          -> "Delivering"
                  [] p.phase = "Complete" /\ p.polls = 0 -> "Idle"
                  [] OTHER                               -> p.phase
    IN  IF p.phase \in {"Ready", "Complete"} THEN [p EXCEPT !.phase = next, !.polls = n] ELSE p

(* get_all_response *)
NozzleTold(p) == IF HoseOut(p) THEN p.nozzle ELSE None
=============================================================================
