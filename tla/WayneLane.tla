------------------------------ MODULE WayneLane ------------------------------
(***************************************************************************)
(* One fueling position polled by the Wayne Europump driver: the lane      *)
(* state machine of engine/state.rs (RuntimeFp::apply_frame and the        *)
(* commands) under the poll loop of engine/protocols/wayne.rs, with the    *)
(* pre-authorization timeout task and the order, stop and close handlers   *)
(* of api/routes.rs.  The loop applies one answered frame or one queued    *)
(* command at a time; what must go on the wire or into the database        *)
(* follows in a second step, so that the pump, the customer, the API and a *)
(* crash come in between.                                                  *)
(*                                                                         *)
(* Timers are choices made when a poll begins: a lift may be stale, the    *)
(* post-CONFIG window over, the settling polls of ghost recovery done.     *)
(***************************************************************************)
EXTENDS WaynePump, FiniteSets, Sequences

CONSTANTS
    Preset,       \* presets an order may ask for; None is a full tank
    MaxFills,     \* bound: fills the pump may begin
    DecelWindow,  \* ui.use_decel_window_on_stop
    Budgets       \* bounds: how often each of the events below may happen

ASSUME PresetAssumption == Preset \subseteq Dose
ASSUME MaxFillsAssumption == MaxFills \in Nat
ASSUME DecelWindowAssumption == DecelWindow \in BOOLEAN

(* lifts; orders; Stop and EStop; cancellations; lane resets; sales closed by  *)
(* the operator; crashes; lost writes and failed saves; how many commands may  *)
(* wait for the loop; and whether a sale is closed while its hose is up.       *)
Budget ==
    [{"lifts", "orders", "stops", "cancels", "resets", "closes", "crashes", "faults",
      "queue", "hasty"} -> Nat]

ASSUME BudgetsAssumption == Budgets \subseteq Budget

VARIABLES
    pump,   \* PumpState
    fill,   \* history: the fill in the pump's register, 0 for none
    fills,  \* history: fills so far
    lane,   \* RuntimeFp with its WayneRuntimeState, lost in a crash
    at,     \* the loop's next step
    job,    \* what the frame or command in progress still has to do
    queue,  \* DispatchCommands
    book,   \* [fill -> its rows in table transactions]
    left    \* what is left of the budget

vars == <<pump, fill, fills, lane, at, job, queue, book, left>>

Fill == 1 .. MaxFills
Status ==
    {"Offline", "Idle", "NozzleUp", "PreAuthorized", "Authorizing", "Delivering", "Done",
     "Stopped"}
Row == [volume : Volume, state : {"STOPPED", "COMPLETED", "ABORTED"}]
Command ==
    [kind : {"Authorize", "Preauthorize", "CancelPreauth", "Stop", "EStop", "ResetLane",
             "ResetAll"},
     hose : Nozzle \cup {None}, preset : Dose]

(* StoppedContext; key is the row it was inserted as, 0 before that. *)
StoppedContext ==
    [by : {"AppFinal", "External"}, key : Nat, fill : 0 .. MaxFills, volume : Volume]

(* fill is history: the fill whose reading the lane holds.  The lift code is   *)
(* up, stale four seconds later, or down.                                      *)
LaneState ==
    [status : Status, nozzle : Nozzle \cup {None}, volume : Volume, fill : 0 .. MaxFills,
     sale : BOOLEAN, cap : Dose, preset : Dose, stopped : StoppedContext \cup {None},
     pre : Nozzle \cup {None}, armed : BOOLEAN, session : BOOLEAN, latch : BOOLEAN,
     upStop : BOOLEAN, confirmed : BOOLEAN, cancelled : BOOLEAN, ghost : BOOLEAN,
     pending : BOOLEAN, repeat : BOOLEAN, wire : BOOLEAN, echo : BOOLEAN,
     hose : {"up", "stale", "down"}, holster : BOOLEAN, complete : BOOLEAN,
     decel : Volume \cup {None}, resent : BOOLEAN]

(* RuntimeFp::new *)
FreshLane ==
    [status |-> "Offline", nozzle |-> None, volume |-> 0, fill |-> 0,
     sale |-> FALSE, cap |-> None, preset |-> None, stopped |-> None,
     pre |-> None, armed |-> FALSE, session |-> FALSE, latch |-> FALSE,
     upStop |-> FALSE, confirmed |-> FALSE, cancelled |-> FALSE, ghost |-> FALSE,
     pending |-> FALSE, repeat |-> FALSE, wire |-> FALSE, echo |-> FALSE,
     hose |-> "down", holster |-> FALSE, complete |-> FALSE,
     decel |-> None, resent |-> FALSE]

----------------------------------------------------------------------------
(* Tests. *)

InSale(l) == l.status \in {"Authorizing", "Delivering"}
HoseUp(l) == l.hose = "up"
SessionArmed(l) == l.wire \/ l.repeat \/ l.armed
OwnsMeterData(l) == l.sale \/ l.pre # None \/ SessionArmed(l) \/ l.session
TargetMet(l) == l.preset = None \/ l.cap = None \/ l.volume >= l.cap
EndsEarly(l) == ~l.complete /\ l.volume > 0 /\ ~TargetMet(l)
Cancellable(l) == l.pre # None \/ l.wire \/ l.armed \/ l.status = "PreAuthorized"

----------------------------------------------------------------------------
(* Updates shared by the frames and the commands. *)

NoRow == [fill |-> 0, key |-> 0, volume |-> 0, state |-> "ABORTED"]
Out(l, do) == [lane |-> l, do |-> do, row |-> NoRow]
OutRow(l, do, row) == [lane |-> l, do |-> do, row |-> row]

(* TxStatus::resolve *)
Resolved(v, completed) ==
    CASE v = 0               -> "ABORTED"
      [] v > 0 /\ completed  -> "COMPLETED"
      [] v > 0 /\ ~completed -> "STOPPED"

Zeroed(l) == [l EXCEPT !.volume = 0, !.fill = 0]
Metered(l, v, f) == [l EXCEPT !.volume = v, !.fill = IF v = 0 THEN 0 ELSE f]

(* reset_to_idle *)
Reset(l) ==
    [FreshLane EXCEPT !.status = "Idle", !.latch = l.latch, !.confirmed = l.confirmed,
                      !.ghost = l.ghost, !.preset = l.preset]

(* cancel_pre_auth *)
Cancelled(l) ==
    [Zeroed(l) EXCEPT !.status = "Idle", !.nozzle = None, !.pre = None, !.confirmed = FALSE,
                      !.ghost = FALSE, !.cap = None, !.wire = FALSE, !.echo = FALSE,
                      !.pending = FALSE, !.repeat = FALSE, !.session = FALSE, !.sale = FALSE,
                      !.armed = FALSE, !.hose = "down"]

(* check_preauth_nozzle and cancel_pre_auth_after_nozzle_mismatch *)
Mismatch(l) == Out([Cancelled(l) EXCEPT !.ghost = TRUE], "stop")

(* cancel_zero_volume_session; its GO_IDLE changes nothing on the pump. *)
ZeroCancelled(l) == [Reset(l) EXCEPT !.ghost = TRUE]
GhostFill(l) == Out(ZeroCancelled(l), "none")

(* cancel_startup_ghost_keep_nozzle_up *)
GhostKept(l) ==
    [Zeroed(l) EXCEPT !.status = "NozzleUp", !.cap = None, !.decel = None, !.cancelled = FALSE,
                      !.sale = FALSE, !.pre = None, !.pending = FALSE, !.repeat = FALSE,
                      !.wire = FALSE, !.session = FALSE, !.holster = FALSE, !.complete = FALSE,
                      !.armed = FALSE, !.ghost = TRUE]

(* reset_for_operator *)
OperatorReset(l) ==
    [Zeroed(l) EXCEPT !.status = "Idle", !.nozzle = None, !.cap = None, !.decel = None,
                      !.sale = FALSE, !.stopped = None, !.latch = FALSE, !.cancelled = FALSE,
                      !.pre = None, !.armed = FALSE, !.ghost = FALSE]

(* set_last_preset *)
WithPreset(l, preset) == [l EXCEPT !.preset = preset, !.cap = preset]

(* begin_auth_session, or the session of a CONFIG that is already out. *)
Begun(l) == [l EXCEPT !.session = TRUE, !.pending = ~l.wire, !.repeat = FALSE]

(* start_delivery_from_pre_auth *)
Started(l) ==
    LET h == IF l.pre # None THEN l.pre ELSE IF l.nozzle # None THEN l.nozzle ELSE 1
    IN  [Begun(Zeroed(l)) EXCEPT !.status = "Authorizing", !.nozzle = h, !.pre = None,
                                 !.confirmed = FALSE, !.armed = TRUE, !.sale = TRUE]

(* finish_transaction_with_totals *)
Bill(l, state) == [fill |-> l.fill, key |-> 0, volume |-> l.volume, state |-> state]
Finished(l, state) ==
    [l EXCEPT !.status = "Done", !.cap = None, !.sale = FALSE,
              !.latch = @ \/ (l.volume > 0 /\ state # "STOPPED")]

(* end_sale_from_holster_early *)
EndEarly(l) ==
    LET state == Resolved(l.volume, FALSE)
    IN  OutRow([Finished(l, state) EXCEPT !.stopped = None, !.holster = FALSE], "done",
               Bill(l, state))

(* complete_sale_from_holster *)
CompleteSale(l) ==
    LET state == Resolved(l.volume, l.complete \/ TargetMet(l))
        l2    == [l EXCEPT !.holster = FALSE, !.complete = FALSE, !.decel = None]
    IN  OutRow(Finished(l2, state), "done", Bill(l, state))

(* enter_stopped_state; a pending deceleration window is left as it is. *)
EnterStopped(l, by) ==
    OutRow([l EXCEPT !.status = "Stopped", !.cap = None, !.resent = FALSE, !.sale = FALSE,
                     !.upStop = l.status \in {"Delivering", "Authorizing", "NozzleUp"} \/ HoseUp(l),
                     !.stopped = [by |-> by, key |-> 0, fill |-> l.fill, volume |-> l.volume]],
           "paused", Bill(l, "STOPPED"))

(* The window of a Stop ends: the sale is stopped now. *)
StopNow(l) == EnterStopped([l EXCEPT !.decel = None], "AppFinal")
StopNowUnlessDry(l) == IF l.volume = 0 THEN GhostFill(l) ELSE StopNow(l)

(* finalize_stopped_sale *)
FinalizeStopped(l, completed) ==
    LET sc == l.stopped
    IN  OutRow(Reset(l), "done",
               [fill |-> sc.fill, key |-> sc.key, volume |-> sc.volume,
                state |-> Resolved(sc.volume, completed)])

----------------------------------------------------------------------------
(* Frames that say the hose is back: NozzleReturned and embedded codes. *)

(* The sale of a holstered hose: the first report waits for the last reading.  *)
HolsteredSale(l) ==
    CASE l.volume = 0 ->
             IF (l.echo /\ l.status = "Authorizing") \/ HoseUp(l)
             THEN Out(l, "none") ELSE GhostFill(l)
      [] l.volume > 0 /\ EndsEarly(l) -> EndEarly(l)
      [] l.volume > 0 /\ ~EndsEarly(l) /\ l.holster -> CompleteSale(l)
      [] l.volume > 0 /\ ~EndsEarly(l) /\ ~l.holster ->
             Out([l EXCEPT !.holster = TRUE], "none")

HolsteredOrder(l) ==
    CASE l.confirmed            -> Out(Cancelled(l), "stop")
      [] ~l.confirmed /\ l.wire -> Out(l, "none")
      [] OTHER                  -> Out(ZeroCancelled(l), "stop")

(* apply_nozzle_holstered *)
NozzleHolstered(l) ==
    CASE l.ghost                              -> Out(l, "none")
      [] ~l.ghost /\ InSale(l) /\ l.decel # None -> StopNowUnlessDry(l)
      [] ~l.ghost /\ InSale(l) /\ l.decel = None -> HolsteredSale(l)
      [] ~l.ghost /\ l.status = "PreAuthorized"  -> HolsteredOrder(l)
      [] ~l.ghost /\ l.status = "Stopped" -> FinalizeStopped(l, l.stopped.by = "AppFinal")
      [] ~l.ghost /\ l.status = "Done"    -> Out(l, "none")
      [] OTHER                            -> Out(Reset(l), "none")

----------------------------------------------------------------------------
(* 70 FA: the pump is idle. *)

IdleAuthorizing(l) ==
    CASE l.repeat -> Out([l EXCEPT !.repeat = FALSE, !.wire = TRUE], "config")
      [] ~l.repeat /\ l.volume = 0 ->
             IF HoseUp(l) \/ SessionArmed(l) \/ ~l.sale THEN Out(l, "none") ELSE GhostFill(l)
      [] ~l.repeat /\ l.volume > 0 ->
             CASE HoseUp(l)                     -> Out(l, "none")
               [] ~HoseUp(l) /\ EndsEarly(l)    -> EndEarly(l)
               [] OTHER -> IF l.sale THEN CompleteSale(l) ELSE Out(Reset(l), "none")

IdleDelivering(l) ==
    CASE l.volume = 0 ->
             IF HoseUp(l) \/ SessionArmed(l) THEN Out(l, "none") ELSE GhostFill(l)
      [] l.volume > 0 /\ (HoseUp(l) \/ ~l.holster) -> Out(l, "none")
      [] OTHER -> IF EndsEarly(l) THEN EndEarly(l) ELSE CompleteSale(l)

(* apply_idle_response *)
IdleResponse(l) ==
    CASE l.status = "Offline" ->
             Out([l EXCEPT !.status = "Idle", !.armed = FALSE, !.cancelled = FALSE], "none")
      [] l.status = "Idle" -> Out([l EXCEPT !.cancelled = FALSE], "none")
      [] l.status = "Stopped" ->
             IF l.stopped.by = "AppFinal" /\ l.upStop THEN Out(l, "none")
             ELSE FinalizeStopped(l, l.stopped.by = "AppFinal")
      [] InSale(l) /\ l.decel # None -> StopNowUnlessDry(l)
      [] l.status = "Authorizing" /\ l.decel = None -> IdleAuthorizing(l)
      [] l.status = "Delivering" /\ l.decel = None  -> IdleDelivering(l)
      [] OTHER -> Out(l, "none")

(* Faulty: a holstered hose is taken for a fill that never began. *)
HolsterFrameDry(l0) ==
    LET l == [l0 EXCEPT !.upStop = FALSE]
    IN  CASE InSale(l)                    -> GhostFill(l)
          [] l.status = "PreAuthorized" -> HolsteredOrder(l)
          [] OTHER                      -> IdleResponse(l)

(* Frame::NozzleHolstered carries no hose code. *)
HolsterFrame(l0) ==
    LET l == [l0 EXCEPT !.upStop = FALSE]
    IN  CASE InSale(l) /\ l.volume = 0 ->
                 IF (l.echo /\ l.status = "Authorizing") \/ HoseUp(l)
                 THEN Out(l, "none") ELSE GhostFill(l)
          [] InSale(l) /\ l.volume > 0  -> NozzleHolstered(l)
          [] l.status = "PreAuthorized" -> HolsteredOrder(l)
          [] OTHER                      -> IdleResponse(l)

----------------------------------------------------------------------------
(* 01 01 05 and its composite forms: the pump says the sale is over. *)

(* A sale without fuel stays armed while the hose may be up. *)
DrySale(l) ==
    IF HoseUp(l) \/ (l.status = "Authorizing" /\ SessionArmed(l))
    THEN Out(l, "none") ELSE GhostFill(l)

(* apply_done_response *)
DoneResponse(l) ==
    CASE InSale(l) /\ l.volume = 0 -> DrySale(l)
      [] InSale(l) /\ l.volume > 0 /\ (HoseUp(l) \/ ~l.holster) -> Out(l, "none")
      [] InSale(l) /\ l.volume > 0 /\ ~HoseUp(l) /\ l.holster ->
             LET l2 == [l EXCEPT !.holster = FALSE]
             IN  IF EndsEarly(l2) THEN EndEarly(l2) ELSE CompleteSale(l2)
      [] l.status \in {"Idle", "NozzleUp"} /\ l.volume = 0 /\ ~l.ghost ->
             Out(Reset(l), "none")
      [] OTHER -> Out(l, "none")

(* apply_dispenser_idle *)
DispenserIdle(l) ==
    LET live == InSale(l) \/ l.status = "NozzleUp"
    IN  CASE InSale(l) /\ l.decel # None -> StopNow(l)
          [] live /\ ~(InSale(l) /\ l.decel # None) /\ l.volume = 0 -> DrySale(l)
          [] live /\ ~(InSale(l) /\ l.decel # None) /\ l.volume > 0 /\ HoseUp(l) ->
                 Out([l EXCEPT !.complete = TRUE], "none")
          [] l.status \in {"Idle", "PreAuthorized"} ->
                 Out(IF l.ghost THEN l ELSE Reset(l), "none")
          [] OTHER -> DoneResponse(l)

----------------------------------------------------------------------------
(* NozzleUp. *)

LiftFrame(l0, h) ==
    LET l == [l0 EXCEPT !.hose = "up"]
        u == [l EXCEPT !.ghost = FALSE]
    IN  CASE l.status = "Done" ->
                 Out([Zeroed(l) EXCEPT !.latch = FALSE, !.status = "NozzleUp", !.nozzle = h], "none")
          [] InSale(l) -> Out(u, "none")
          [] l.status # "Done" /\ ~InSale(l) /\ u.pre \notin {None, h} -> Mismatch(u)
          [] l.status # "Done" /\ ~InSale(l) /\ u.pre = h ->
                 Out([Zeroed(u) EXCEPT !.confirmed = TRUE, !.status = "NozzleUp"], "none")
          [] OTHER ->
                 IF u.stopped # None
                 THEN Out([u EXCEPT !.status = "Stopped", !.volume = u.stopped.volume,
                                    !.fill = u.stopped.fill], "none")
                 ELSE Out([Zeroed(u) EXCEPT !.status = "NozzleUp", !.nozzle = h], "none")

(* dispatch_poll_frames: after a confirmed lift the sale starts. *)
StartConfirmed(o) ==
    IF o.lane.confirmed /\ (o.lane.pre # None \/ o.lane.wire)
    THEN [o EXCEPT !.lane = Started(o.lane)] ELSE o

----------------------------------------------------------------------------
(* Data: a meter reading, perhaps with hose bytes, perhaps unverified. *)

(* Verified hose bytes say that the hose is down. *)
SaysDown(l, f) ==
    f.ok /\ f.tag = "down" /\ ~(l.status = "PreAuthorized" /\ ~l.confirmed)

(* An end of sale, a deceleration artifact, the echo of CONFIG, or a holster.  *)
DataDown(l, f, g) ==
    LET d == [l EXCEPT !.hose = "down"]
    IN  CASE f.complete /\ InSale(l) ->
                 CompleteSale([Metered(d, f.volume, g) EXCEPT !.complete = TRUE])
          [] ~f.complete /\ InSale(l) /\ l.volume > 0 /\ ~l.complete ->
                 Out([l EXCEPT !.hose = IF @ = "stale" THEN "up" ELSE @], "none")
          [] ~f.complete /\ l.status = "Authorizing" /\ l.volume = 0
                 /\ (l.wire \/ l.repeat) /\ l.echo -> Out(l, "none")
          [] OTHER -> NozzleHolstered(d)

(* Meter data on a lane that owns no authorization. *)
DataUnowned(l, f, g) ==
    CASE ~f.ok -> Out(l, "none")
      [] f.ok /\ l.status \in {"Idle", "Offline"} /\ ~l.ghost /\ ~f.complete
             /\ f.tag = "up" /\ ~l.cancelled ->
             Out([Metered(l, f.volume, g) EXCEPT !.status = "Delivering", !.nozzle = f.hose,
                                                 !.sale = TRUE, !.session = TRUE], "none")
      [] f.ok /\ l.status = "Idle" /\ ~l.ghost /\ ~f.complete
             /\ (f.tag # "up" \/ l.cancelled) -> Out(l, "stop")
      [] OTHER -> Out(l, "none")

(* Meter data outside a sale, on a lane that owns an authorization. *)
DataOwned(l, f, g, far) ==
    LET wired == IF f.tag = "up" THEN f.hose ELSE None
        first == IF SessionArmed(l) THEN l.nozzle ELSE wired
        other == IF SessionArmed(l) THEN wired ELSE l.nozzle
        clash == ~SessionArmed(l) /\ wired # None /\ l.nozzle # None /\ wired # l.nozzle
    IN  CASE clash -> Out(l, "none")
          [] ~clash /\ l.status = "Stopped" ->
                 IF f.ok /\ ~l.resent /\ f.volume > l.volume /\ far
                 THEN Out([l EXCEPT !.resent = TRUE], "stop") ELSE Out(l, "none")
          [] ~clash /\ (l.status = "Done" \/ (l.status # "Stopped" /\ l.latch)) -> Out(l, "none")
          [] OTHER ->
                 Out([Metered(l, f.volume, g) EXCEPT
                          !.status = "Delivering", !.sale = TRUE,
                          !.nozzle = IF first # None THEN first
                                     ELSE IF other # None THEN other ELSE 1], "none")

DataOutside(l, f, g, far) ==
    CASE f.volume = 0                       -> Out(l, "none")
      [] f.volume > 0 /\ ~OwnsMeterData(l) -> DataUnowned(l, f, g)
      [] f.volume > 0 /\ OwnsMeterData(l)  -> DataOwned(l, f, g, far)

(* The reading enters the sale; frozen is a tiny reading that has not moved    *)
(* for long.                                                                   *)
DataMetered(l0, f, g, frozen) ==
    LET m   == Metered(l0, f.volume, g)
        l   == IF m.status = "Authorizing" /\ f.volume > 0
               THEN [m EXCEPT !.status = "Delivering", !.sale = TRUE] ELSE m
        hit == l0.status = "Delivering" /\ f.ok /\ l.cap # None /\ l.volume >= l.cap
    IN  CASE hit -> Out([l EXCEPT !.cap = None], "none")
          [] ~hit /\ ~f.complete /\ l.sale /\ l.preset # None /\ frozen
                 /\ f.volume = 1 /\ l0.volume = 1 -> Out(GhostKept(l), "none")
          [] ~hit /\ f.complete /\ HoseUp(l) -> Out([l EXCEPT !.complete = TRUE], "none")
          [] ~hit /\ f.complete /\ ~HoseUp(l) /\ l.holster ->
                 CompleteSale([l EXCEPT !.complete = TRUE])
          [] OTHER -> Out(l, "none")

(* A Stop was sent: the counter decides whether the pump obeyed; expired is    *)
(* the frozen-frame threshold or the wall clock.                               *)
DataDecel(l, f, g, frozen, expired) ==
    CASE ~f.ok             -> Out(l, "none")
      [] f.ok /\ f.complete -> StopNow(l)
      [] f.ok /\ ~f.complete /\ f.volume > l.decel ->
             DataMetered([l EXCEPT !.cap = l.preset, !.decel = None], f, g, frozen)
      [] OTHER ->
             IF expired THEN StopNow(l) ELSE Out(Metered(l, f.volume, g), "none")

DataSale(l, f, g, c) ==
    CASE ~InSale(l)                    -> DataOutside(l, f, g, c.far)
      [] InSale(l) /\ l.decel # None -> DataDecel(l, f, g, c.frozen, c.expired)
      [] InSale(l) /\ l.decel = None -> DataMetered(l, f, g, c.frozen)

(* A pre-authorized lane starts on the lift it hears, and only then meters.    *)
DataOrdered(l, f, g, c) ==
    CASE f.ok /\ f.tag = "up" ->
             IF l.pre # None /\ l.pre # f.hose THEN Mismatch(l) ELSE Out(Started(l), "none")
      [] ~(f.ok /\ f.tag = "up") /\ ~l.confirmed -> Out(l, "none")
      [] ~(f.ok /\ f.tag = "up") /\ l.confirmed ->
             IF f.volume > 0 THEN DataSale(Started(l), f, g, c) ELSE Out(Started(l), "none")

DataFrame(l0, f, g, c) ==
    LET l1 == IF f.ok /\ f.tag # None THEN [l0 EXCEPT !.hose = f.tag] ELSE l0
        l  == IF l1.status = "Offline" /\ l1.pre # None
              THEN [l1 EXCEPT !.status = "PreAuthorized", !.armed = TRUE] ELSE l1
    IN  CASE SaysDown(l0, f) -> DataDown(l0, f, g)
          [] ~SaysDown(l0, f) /\ l.status = "Offline" /\ (f.volume = 0 \/ f.complete) ->
                 Out([l EXCEPT !.status = IF f.volume = 0 THEN "NozzleUp" ELSE "Idle"], "none")
          [] ~SaysDown(l0, f) /\ l.status = "Authorizing" /\ l.pending /\ ~l.wire ->
                 Out([l EXCEPT !.pending = FALSE], "config")
          [] ~SaysDown(l0, f) /\ l.status = "PreAuthorized" -> DataOrdered(l, f, g, c)
          [] OTHER -> DataSale(l, f, g, c)

(* Frame::Stopped *)
StoppedFrame(l) ==
    CASE InSale(l) /\ l.decel # None -> StopNow(l)
      [] InSale(l) /\ l.decel = None ->
             IF l.status = "Authorizing" /\ l.wire /\ l.volume = 0
             THEN Out(l, "none") ELSE EnterStopped(l, "External")
      [] ~InSale(l) -> Out(l, "none")

(* apply_frame *)
Applied(l, f, g, c) ==
    CASE f.kind = "Idle"          -> IdleResponse(l)
      [] f.kind = "Holstered"     -> HolsterFrame(l)
      [] f.kind = "Returned"      -> NozzleHolstered([l EXCEPT !.hose = "down"])
      [] f.kind = "NozzleUp"      -> LiftFrame(l, f.hose)
      [] f.kind = "DispenserIdle" -> DispenserIdle(l)
      [] f.kind = "Complete"      -> DoneResponse(l)
      [] f.kind = "Stopped"       -> StoppedFrame(l)
      [] f.kind = "Data"          -> DataFrame(l, f, g, c)

(* on_poll_success, on_poll_missed and note_dispenser_poll. *)
MayGoOffline(l) ==
    /\ l.status \in {"Idle", "Stopped"}
    /\ ~SessionArmed(l) /\ ~l.sale /\ ~l.latch

----------------------------------------------------------------------------
(* Steps. *)

Spend(what) == left[what] > 0 /\ left' = [left EXCEPT ![what] = @ - 1]
SpendIf(lost, what) == IF lost THEN Spend(what) ELSE UNCHANGED left

(* Bound: unless the budget is hasty, what the operator asks for finds the side *)
(* as the operator saw it.                                                      *)
Prompt(seen) == left.hasty = 0 => seen

NoJob == [do |-> "none", row |-> NoRow, kicks |-> FALSE]
Rest == at' = "rest" /\ job' = NoJob
After(o, kicks) ==
    /\ lane' = o.lane
    /\ at' = IF o.do # "none" THEN "act" ELSE IF kicks THEN "kick" ELSE "rest"
    /\ job' = IF o.do = "none" THEN NoJob ELSE [do |-> o.do, row |-> o.row, kicks |-> kicks]

(* The register is cleared when a dose is set up or the customer turns over.   *)
Register(p) ==
    /\ pump' = p
    /\ fill' = IF p.volume = 0 THEN 0 ELSE fill
    /\ UNCHANGED fills

Outside(p) == Register(p) /\ UNCHANGED <<lane, at, job, queue, book>>

----------------------------------------------------------------------------
(* Polls. *)

(* What time and the reading may have done by the time of a poll. *)
Maybe(b) == IF b THEN BOOLEAN ELSE {FALSE}
Circumstance(l) ==
    [far : Maybe(l.status = "Stopped"), frozen : Maybe(l.volume = 1 /\ l.sale),
     expired : Maybe(l.decel # None), stale : Maybe(l.hose = "up"), late : Maybe(l.echo)]

Aged(l, c) ==
    [l EXCEPT !.hose = IF c.stale THEN "stale" ELSE @, !.echo = @ /\ ~c.late]

(* One answered frame; the polls after an order do not start the sale.         *)
Poll(f, c) ==
    /\ at \in {"rest", "kick"}
    /\ LET o == Applied(Aged(lane, c), f, fill, c)
       IN  After(IF at = "rest" /\ f.kind = "NozzleUp" THEN StartConfirmed(o) ELSE o, at = "kick")
    /\ Register(PumpTold(PumpPolled(pump), f.kind))
    /\ UNCHANGED <<queue, book, left>>

(* The pump answers, and the answer is lost or ignored. *)
PollUnheard(f) ==
    /\ at \in {"rest", "kick"}
    /\ Spend("faults")
    /\ Register([PumpTold(PumpPolled(pump), f.kind) EXCEPT !.told = @ /\ pump.told])
    /\ UNCHANGED <<lane, at, job, queue, book>>

(* The pump does not answer, often enough to count as offline.                 *)
PollMissed ==
    /\ at = "rest"
    /\ MayGoOffline(lane)
    /\ lane' = [lane EXCEPT !.status = "Offline"]
    /\ UNCHANGED <<pump, fill, fills, at, job, queue, book, left>>

KickDone ==
    /\ at = "kick"
    /\ Rest
    /\ UNCHANGED <<pump, fill, fills, lane, queue, book, left>>

(* note_dispenser_poll: enough idle polls in a row end ghost recovery.         *)
GhostRecovered ==
    /\ at = "rest" /\ lane.ghost
    /\ \E f \in Answers(pump) : f.kind = "Idle"
    /\ lane' = [lane EXCEPT !.ghost = FALSE]
    /\ UNCHANGED <<pump, fill, fills, at, job, queue, book, left>>

(* The window of a Stop is over by the clock, whatever the lane does now.      *)
DecelExpires ==
    /\ at = "rest" /\ lane.decel # None
    /\ After(StopNow(lane), FALSE)
    /\ UNCHANGED <<pump, fill, fills, queue, book, left>>

----------------------------------------------------------------------------
(* process_parsed_frame: what a frame asked for, on the wire or in the         *)
(* database.                                                                   *)

ActDone(lost) ==
    /\ at = "act"
    /\ at' = IF job.kicks THEN "kick" ELSE "rest"
    /\ job' = NoJob
    /\ SpendIf(lost, "faults")
    /\ UNCHANGED queue

(* send_auth_pair and mark_preauth_config_on_wire *)
OnWire(l) == [l EXCEPT !.wire = TRUE, !.echo = TRUE, !.pending = FALSE, !.repeat = FALSE]

ActConfig(lost) ==
    /\ job.do = "config"
    /\ Register(IF lost THEN pump ELSE PumpConfig(pump, lane.preset))
    /\ lane' = OnWire(lane)
    /\ UNCHANGED book
    /\ ActDone(lost)

ActStop(lost) ==
    /\ job.do = "stop"
    /\ Register(IF lost THEN pump ELSE PumpStop(pump))
    /\ UNCHANGED <<lane, book>>
    /\ ActDone(lost)

(* A reading of no fill has no row worth following. *)
Insert(row) ==
    IF row.fill = 0 THEN book
    ELSE [book EXCEPT ![row.fill] = Append(@, [volume |-> row.volume, state |-> row.state])]

(* Paused: insert_transaction; the lane holds the key already. *)
ActPause(lost) ==
    /\ job.do = "paused"
    /\ book' = IF lost THEN book ELSE Insert(job.row)
    /\ lane' = IF lost \/ job.row.fill = 0 \/ lane.stopped = None THEN lane
               ELSE [lane EXCEPT !.stopped.key = Len(book[job.row.fill]) + 1]
    /\ UNCHANGED <<pump, fill, fills>>
    /\ ActDone(lost)

(* Faulty: the row of a paused sale is not looked for. *)
PersistedAnew(row) == Insert(row)

(* persist_closed_transaction: the paused row is updated in place, and a row   *)
(* that somebody closed meanwhile is left alone.                               *)
Persisted(row) ==
    IF row.key = 0 THEN Insert(row)
    ELSE IF book[row.fill][row.key].state = "STOPPED"
    THEN [book EXCEPT ![row.fill][row.key].state = row.state]
    ELSE book

(* commit_sale, whose failure is not looked at, and apply_done_ack.            *)
ActDoneSale(lost) ==
    /\ job.do = "done"
    /\ book' = IF lost THEN book ELSE Persisted(job.row)
    /\ lane' = [lane EXCEPT !.cap = None]
    /\ UNCHANGED <<pump, fill, fills>>
    /\ ActDone(lost)

----------------------------------------------------------------------------
(* The handlers of the API look at the lane and queue a command.               *)

Enqueue(kind, hose, preset) ==
    /\ Len(queue) < left.queue
    /\ queue' = Append(queue, [kind |-> kind, hose |-> hose, preset |-> preset])
    /\ UNCHANGED <<pump, fill, fills, lane, at, job, book>>

(* authorize and preauthorize *)
Order(h, preset) ==
    /\ lane.stopped = None
    /\ \/ lane.status = "Idle" /\ Enqueue("Preauthorize", h, preset)
       \/ lane.status = "NozzleUp" /\ lane.nozzle = h /\ Enqueue("Authorize", h, preset)
    /\ Spend("orders")

(* cancel_preauth *)
CancelOrder ==
    /\ Cancellable(lane)
    /\ Enqueue("CancelPreauth", None, None)
    /\ Spend("cancels")

(* spawn_preauth_timeout_task *)
OrderExpires ==
    /\ lane.status = "PreAuthorized"
    /\ ~\E i \in 1 .. Len(queue) : queue[i].kind = "CancelPreauth"
    /\ Enqueue("CancelPreauth", lane.nozzle, None)
    /\ Spend("cancels")

StopRequest(kind) == Enqueue(kind, None, None) /\ Spend("stops")
ResetRequest(kind) == Enqueue(kind, None, None) /\ Spend("resets")

(* close_stopped *)
Closed(l) ==
    [l EXCEPT !.stopped = None, !.sale = FALSE, !.cap = None, !.status = "Idle",
              !.volume = 0, !.fill = 0, !.armed = FALSE, !.pre = None]

(* close_stopped_tx with ensure_stopped_context: a lane without a stopped sale *)
(* takes the row from the database, whatever it does now.                      *)
CloseStopped(f, k) ==
    /\ k <= Len(book[f]) /\ book[f][k].state = "STOPPED"
    /\ Prompt(pump.status = "Idle")
    /\ lane.stopped # None => lane.stopped.fill = f /\ lane.stopped.key = k
    /\ lane' = Closed(lane)
    /\ book' = [book EXCEPT ![f][k].state = "COMPLETED"]
    /\ Spend("closes")
    /\ UNCHANGED <<pump, fill, fills, at, job, queue>>

----------------------------------------------------------------------------
(* apply_command. *)

Take(kind) ==
    /\ at = "rest"
    /\ queue # <<>> /\ Head(queue).kind = kind
    /\ queue' = Tail(queue)

(* apply_nozzle_lift_deferred_config *)
Deferred(l) ==
    [Zeroed(l) EXCEPT !.session = TRUE, !.pending = FALSE, !.repeat = TRUE, !.wire = FALSE,
                      !.status = "Authorizing"]

(* apply_authorize_sent *)
AuthorizeSent(l) ==
    CASE l.status = "Authorizing" -> l
      [] l.status \in {"NozzleUp", "Stopped"} ->
             [Zeroed(l) EXCEPT !.session = TRUE, !.pending = TRUE, !.repeat = FALSE,
                               !.status = "Authorizing"]
      [] OTHER -> l

AuthorizeCommand(lost) ==
    /\ Take("Authorize")
    /\ Prompt(lane.status = "NozzleUp")
    /\ LET preset == Head(queue).preset
       IN  IF lane.status = "NozzleUp"
           THEN /\ lane' = Deferred(WithPreset(lane, preset))
                /\ UNCHANGED <<pump, fill, fills, left>>
           ELSE /\ lane' = AuthorizeSent([WithPreset(lane, preset) EXCEPT !.armed = TRUE])
                /\ Register(IF lost THEN pump ELSE PumpAuthorise(pump))
                /\ SpendIf(lost, "faults")
    /\ UNCHANGED <<at, job, book>>

(* apply_preauthorize_sent *)
PreauthorizeSent(l, h, preset) ==
    [Zeroed(WithPreset(l, preset)) EXCEPT
         !.pre = h, !.confirmed = l.status = "NozzleUp" /\ l.nozzle = h, !.ghost = FALSE,
         !.status = "PreAuthorized", !.nozzle = h, !.armed = TRUE]

WrongHoseUp(l, h) == l.status = "NozzleUp" /\ l.nozzle # None /\ l.nozzle # h

(* Faulty: every order is programmed at once. *)
PreauthorizeCommandArmed(lost) ==
    /\ Take("Preauthorize")
    /\ lane' = OnWire(PreauthorizeSent(lane, Head(queue).hose, Head(queue).preset))
    /\ Register(IF lost THEN pump ELSE PumpConfig(pump, lane'.preset))
    /\ SpendIf(lost, "faults")
    /\ at' = "kick"
    /\ UNCHANGED <<job, book>>

(* A side whose hose is down is not armed before the lift. *)
PreauthorizeCommand(lost) ==
    /\ Take("Preauthorize")
    /\ LET h == Head(queue).hose
           l == PreauthorizeSent(lane, h, Head(queue).preset)
       IN  CASE WrongHoseUp(lane, h) ->
                    /\ lane' = [lane EXCEPT !.confirmed = FALSE]
                    /\ Register(IF lost THEN pump ELSE PumpStop(pump))
                    /\ SpendIf(lost, "faults")
                    /\ UNCHANGED at
             [] ~WrongHoseUp(lane, h) /\ l.confirmed ->
                    /\ lane' = Started(OnWire(l))
                    /\ Register(IF lost THEN pump ELSE PumpConfig(pump, l.preset))
                    /\ SpendIf(lost, "faults")
                    /\ at' = "kick"
             [] ~WrongHoseUp(lane, h) /\ ~l.confirmed ->
                    /\ lane' = l
                    /\ at' = "kick"
                    /\ UNCHANGED <<pump, fill, fills, left>>
    /\ UNCHANGED <<job, book>>

CancelCommand(lost) ==
    /\ Take("CancelPreauth")
    /\ Register(IF lost THEN pump ELSE PumpStop(pump))
    /\ SpendIf(lost, "faults")
    /\ lane' = [(IF Cancellable(lane) THEN Cancelled(lane) ELSE lane) EXCEPT !.cancelled = TRUE]
    /\ UNCHANGED <<at, job, book>>

(* apply_stop *)
StopApplied(l, window) ==
    CASE l.status = "PreAuthorized" -> Out(Cancelled(l), "none")
      [] l.status # "PreAuthorized" /\ ~l.status = "Stopped" /\ (InSale(l) \/ l.sale) ->
             IF ~window THEN EnterStopped(l, "AppFinal")
             ELSE IF l.decel # None THEN Out(l, "none")
             ELSE Out([l EXCEPT !.decel = l.volume, !.cap = None], "none")
      [] OTHER -> Out(l, "none")

(* A lane without a session is not sent the STOP. *)
StopCommand(lost) ==
    /\ Take("Stop")
    /\ LET active == lane.sale \/ InSale(lane) \/ lane.status \in {"NozzleUp", "PreAuthorized"}
       IN  Register(IF active /\ ~lost THEN PumpStop(pump) ELSE pump)
    /\ SpendIf(lost, "faults")
    /\ After(StopApplied(lane, DecelWindow), FALSE)
    /\ UNCHANGED book

EStopCommand(lost) ==
    /\ Take("EStop")
    /\ Register(IF lost THEN pump ELSE PumpStop(pump))
    /\ SpendIf(lost, "faults")
    /\ After(StopApplied(lane, FALSE), FALSE)
    /\ UNCHANGED book

(* ResetLane goes by operator_dismiss_display, ResetAll asks nothing.          *)
ResetCommand ==
    /\ Prompt(pump.status = "Idle")
    /\ \/ Take("ResetAll") /\ lane' = OperatorReset(lane)
       \/ Take("ResetLane")
          /\ lane' = IF lane.status \in {"Done", "Idle", "Offline"} THEN OperatorReset(lane)
                     ELSE lane
    /\ UNCHANGED <<pump, fill, fills, at, job, book, left>>

----------------------------------------------------------------------------
(* The surroundings. *)

(* In every other state the hose is up, or its return is not told yet.  Bound: *)
(* the next customer comes after the side was heard idle and the sale of the   *)
(* last one was closed.                                                        *)
CustomerLifts(h) ==
    /\ pump.status = "Authorized" \/ (pump.status = "Idle" /\ pump.told)
    /\ ~lane.sale
    /\ Spend("lifts")
    /\ Outside(PumpLift(pump, h))

CustomerHolsters ==
    /\ \E p \in {PumpHolster(pump), PumpHolsterTold(pump)} \ {pump} : Outside(p)
    /\ UNCHANGED left

FuelFlows ==
    /\ PumpFlows(pump)
    /\ pump.volume = 0 => fills < MaxFills
    /\ pump' = PumpFlow(pump)
    /\ IF pump.volume = 0
       THEN fills' = fills + 1 /\ fill' = fills + 1
       ELSE UNCHANGED <<fill, fills>>
    /\ UNCHANGED <<lane, at, job, queue, book, left>>

(* The service dies and starts again. *)
Crash ==
    /\ Spend("crashes")
    /\ lane' = FreshLane
    /\ Rest
    /\ queue' = <<>>
    /\ UNCHANGED <<pump, fill, fills, book>>

----------------------------------------------------------------------------
Init ==
    /\ pump \in {PumpReset(h) : h \in Nozzle}
    /\ fill = 0 /\ fills = 0
    /\ lane = FreshLane
    /\ at = "rest" /\ job = NoJob
    /\ queue = <<>>
    /\ book = [f \in Fill |-> <<>>]
    /\ left \in Budgets

(* A pump that delivers says that the hose is down as the echo of CONFIG, or   *)
(* when it slows down.                                                         *)
Plausible(f, c) ==
    PumpPolled(pump).status = "Delivering" /\ f.tag = "down" =>
        IF lane.volume = 0 THEN lane.echo /\ ~c.late ELSE TRUE

PollStep ==
    \/ \E f \in Answers(PumpPolled(pump)), c \in Circumstance(lane) :
           /\ Plausible(f, c)
           /\ Poll(f, c)
    \/ \E f \in Answers(PumpPolled(pump)) : PollUnheard(f)
    \/ PollMissed \/ KickDone \/ GhostRecovered \/ DecelExpires

ActStep ==
    \E lost \in BOOLEAN :
        ActConfig(lost) \/ ActStop(lost) \/ ActPause(lost) \/ ActDoneSale(lost)

ApiStep ==
    \/ \E h \in Nozzle, preset \in Preset : Order(h, preset)
    \/ CancelOrder \/ OrderExpires
    \/ \E kind \in {"Stop", "EStop"} : StopRequest(kind)
    \/ \E kind \in {"ResetLane", "ResetAll"} : ResetRequest(kind)
    \/ \E f \in Fill, k \in 1 .. MaxFills : CloseStopped(f, k)

CommandStep ==
    \/ \E lost \in BOOLEAN :
           \/ AuthorizeCommand(lost) \/ PreauthorizeCommand(lost) \/ CancelCommand(lost)
           \/ StopCommand(lost) \/ EStopCommand(lost)
    \/ ResetCommand

PumpStep ==
    (\E h \in Nozzle : CustomerLifts(h)) \/ CustomerHolsters \/ FuelFlows

Next == PollStep \/ ActStep \/ ApiStep \/ CommandStep \/ PumpStep \/ Crash

Spec == Init /\ [][Next]_vars

----------------------------------------------------------------------------
(* Properties. *)

(* The type of the state; a lane that shows STOPPED has the context of the     *)
(* stopped sale, and a lift is confirmed only in the polls after an order.     *)
TypeOK ==
    /\ pump \in PumpState
    /\ fill \in 0 .. MaxFills /\ fills \in 0 .. MaxFills
    /\ lane \in LaneState
    /\ at \in {"rest", "act", "kick"}
    /\ job.do \in {"none", "config", "stop", "done", "paused"}
    /\ \A i \in 1 .. Len(queue) : queue[i] \in Command
    /\ Len(queue) <= left.queue
    /\ \A f \in Fill : \A i \in 1 .. Len(book[f]) : book[f][i] \in Row
    /\ left \in Budget
    /\ lane.status = "Stopped" => lane.stopped # None

(* A reading beyond a ghost pulse stays in the lane or in the step in progress  *)
(* until it is in the database: no frame, whatever the pump repeats or leaves   *)
(* out, and no Stop makes the driver forget it.  An order cancelled, a lane     *)
(* reset or closed by the operator, a failed save and a crash do.               *)
Holds(f) ==
    \/ lane.fill = f /\ InSale(lane) /\ lane.volume > 1
    \/ lane.stopped # None /\ lane.stopped.fill = f /\ lane.stopped.volume > 1
    \/ job.row.fill = f
Recorded(f) == book[f] # <<>>

SaleKept ==
    [][\/ CommandStep /\ Head(queue).kind \in {"CancelPreauth", "ResetAll"}
       \/ left'.faults < left.faults \/ left'.crashes < left.crashes \/ left'.closes < left.closes
       \/ \A f \in Fill : Holds(f) => Holds(f)' \/ Recorded(f)']_vars

(* An order for a hose that is down arms nothing: until the lift there is      *)
(* nothing on the pump that a cancellation would have to take back.            *)
HolsteredArmsNothing ==
    lane.status = "PreAuthorized" => pump.status \notin {"Authorized", "Delivering"}

(* A fill is billed once: not again when the pump repeats its reading to a lane *)
(* that is done with it, to a restarted service or after a Stop.                *)
BilledOnce == \A f \in Fill : Len(book[f]) <= 1

(* Does not hold (MCStops): a sale that is stopped has one row, and no timer of *)
(* an earlier Stop saves it again.                                              *)
StoppedOnce == \A f \in Fill : lane.stopped # None => Len(book[f]) <= 1
=============================================================================
