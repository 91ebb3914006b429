------------------------------ MODULE WaynePump ------------------------------
(***************************************************************************)
(* One side of a Wayne dispenser as the repository's simulator plays it    *)
(* (tools/simulators/wayne-sim/src/dispenser.rs), and the frames it may    *)
(* answer a poll with: the simulator's, and the variants of real pumps     *)
(* that engine/state.rs handles and its comments describe.  Every operator *)
(* maps a pump to the pump after the event.  GO_IDLE and BUSY change       *)
(* nothing here, because the simulator ignores GO_IDLE while a preset sale *)
(* waits for the nozzle.                                                   *)
(***************************************************************************)
EXTENDS Integers

CONSTANTS
    Nozzle,     \* configured hoses, by index
    MaxVolume,  \* bound: units that fit in a tank; unit 1 may be a ghost pulse
    None        \* no preset, no nozzle, no tag

ASSUME NozzleAssumption == Nozzle \subseteq Nat \ {0}
ASSUME MaxVolumeAssumption == MaxVolume \in Nat \ {0}
ASSUME NoneAssumption == None \notin Nat \cup {"up", "down"}

Volume == 0 .. MaxVolume
Dose == (1 .. MaxVolume) \cup {None}

PumpState ==
    [status : {"Idle", "NozzleUp", "NozzleDown", "Authorized", "Delivering", "Done", "Stopped"},
     nozzle : Nozzle, fromIdle : BOOLEAN, volume : Volume, limit : Dose, told : BOOLEAN]

PumpReset(h) ==
    [status |-> "Idle", nozzle |-> h, fromIdle |-> FALSE, volume |-> 0, limit |-> None,
     told |-> FALSE]

----------------------------------------------------------------------------
(* Commands of the driver: handle_command. *)

(* 0x08, STOP. *)
PumpStop(p) ==
    CASE p.status = "Authorized" -> [p EXCEPT !.status = "Idle", !.volume = 0, !.fromIdle = FALSE]
      [] p.status = "Delivering" -> [p EXCEPT !.status = "Stopped"]
      [] OTHER                   -> p

(* The long 0x05, CONFIG: a lifted hose delivers, a holstered one waits. *)
PumpConfig(p, limit) ==
    CASE p.status = "NozzleUp" \/ (p.status = "Authorized" /\ ~p.fromIdle) ->
             [p EXCEPT !.status = "Delivering", !.volume = 0, !.limit = limit]
      [] p.status \in {"Idle", "Done"} ->
             [p EXCEPT !.status = "Authorized", !.fromIdle = TRUE, !.volume = 0, !.limit = limit]
      [] OTHER -> [p EXCEPT !.limit = limit]

(* 0x04 01 01 05, AUTHORISE. *)
PumpAuthorise(p) ==
    CASE p.status = "Idle"     -> [p EXCEPT !.status = "Authorized", !.fromIdle = TRUE]
      [] p.status = "NozzleUp" -> [p EXCEPT !.status = "Authorized", !.fromIdle = FALSE]
      [] p.status = "Stopped"  ->
             [p EXCEPT !.status = "Authorized", !.fromIdle = FALSE, !.volume = 0]
      [] OTHER                 -> p

----------------------------------------------------------------------------
(* The customer: lift_nozzle, replace_nozzle, tick_volume. *)

PumpLift(p, h) ==
    LET q == [p EXCEPT !.nozzle = h, !.told = FALSE]
    IN  CASE p.status \in {"Idle", "NozzleDown"} -> [q EXCEPT !.status = "NozzleUp"]
          [] p.status = "Authorized"             -> [q EXCEPT !.status = "NozzleUp", !.volume = 0]
          [] p.status = "Done" ->
                 [q EXCEPT !.status = "NozzleUp", !.volume = 0, !.fromIdle = FALSE]
          [] p.status = "Stopped" -> [q EXCEPT !.status = "Delivering", !.fromIdle = FALSE]
          [] OTHER                -> q

PumpHolster(p) ==
    CASE p.status = "NozzleUp" /\ p.fromIdle -> [p EXCEPT !.status = "Authorized", !.volume = 0]
      [] (p.status = "NozzleUp" /\ ~p.fromIdle) \/ p.status \in {"Delivering", "Done"} ->
             [p EXCEPT !.status = "NozzleDown"]
      [] p.status = "Authorized" /\ ~p.fromIdle -> [p EXCEPT !.status = "Idle", !.volume = 0]
      [] p.status = "Stopped" -> [p EXCEPT !.status = "Idle", !.volume = 0]
      [] OTHER -> p

(* A real pump tells that the hose of a stopped sale is back. *)
PumpHolsterTold(p) == IF p.status = "Stopped" THEN [p EXCEPT !.status = "NozzleDown"] ELSE p

PumpFlows(p) == p.status = "Delivering" /\ p.volume < MaxVolume

PumpFlow(p) ==
    LET v == p.volume + 1
    IN  [p EXCEPT !.volume = v, !.status = IF p.limit # None /\ v >= p.limit THEN "Done" ELSE @]

----------------------------------------------------------------------------
(* What a poll does to the pump and what it may answer: handle_poll. *)

Frame ==
    [kind : {"Idle", "Holstered", "Returned", "NozzleUp", "DispenserIdle", "Complete",
             "Stopped", "Data"},
     hose : Nozzle, volume : Volume, tag : {None, "up", "down"}, ok : BOOLEAN,
     complete : BOOLEAN]

Plain(p, kind) ==
    [kind |-> kind, hose |-> p.nozzle, volume |-> 0, tag |-> None, ok |-> TRUE,
     complete |-> FALSE]

(* A meter frame, with the hose bytes that some firmware embeds in it. *)
Meter(p, tag, ok, complete) ==
    [Plain(p, "Data") EXCEPT !.volume = p.volume, !.tag = tag, !.ok = ok, !.complete = complete]

(* After a lift the pump of a pre-authorised side starts with the next poll. *)
PumpPolled(p) ==
    IF p.status = "Authorized" /\ ~p.fromIdle THEN [p EXCEPT !.status = "Delivering"] ELSE p

Answers(p) ==
    CASE p.status \in {"Idle", "Authorized"} -> {Plain(p, "Idle")}
      [] p.status = "NozzleUp" ->
             {Plain(p, "NozzleUp"), Plain(p, "Idle")}
                 \cup {[Meter(p, None, TRUE, FALSE) EXCEPT !.volume = 0] : t \in {TRUE} \cap {p.told}}
      [] p.status = "NozzleDown" ->
             {Plain(p, "Returned"), Plain(p, "Holstered")}
                 \cup {Meter(p, tag, TRUE, TRUE) : tag \in IF p.volume > 0 THEN {None, "down"} ELSE {}}
      [] p.status = "Delivering" ->
             {Meter(p, tag, ok, FALSE) : tag \in {None, "up", "down"}, ok \in BOOLEAN}
      [] p.status = "Done" ->
             {Meter(p, tag, TRUE, TRUE) : tag \in {None, "up"}}
                 \cup {Plain(p, kind) : kind \in {"DispenserIdle", "Complete", "Idle"}}
      [] p.status = "Stopped" ->
             {Plain(p, "Stopped"), Plain(p, "Idle"), Meter(p, None, TRUE, FALSE)}

(* The answer is out: a holster is told once, then the side is idle; the lift  *)
(* of a pre-authorised side is told once, then it is authorised.               *)
PumpTold(p, kind) ==
    CASE p.status = "NozzleDown" /\ kind # "Data" -> PumpReset(p.nozzle)
      [] p.status = "NozzleUp" /\ kind = "NozzleUp" /\ p.fromIdle ->
             [p EXCEPT !.status = "Authorized", !.fromIdle = FALSE]
      [] (p.status = "NozzleUp" /\ kind = "NozzleUp" /\ ~p.fromIdle) \/ p.status = "Idle" ->
             [p EXCEPT !.told = TRUE]
      [] OTHER -> p
=============================================================================
