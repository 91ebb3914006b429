---------------------------- MODULE GilbarcoLane ----------------------------
(***************************************************************************)
(* One Gilbarco lane and the driver that polls it:                         *)
(* engine/protocols/gilbarco.rs, with the routes of api/routes.rs and the  *)
(* task of engine/preauth_timeout.rs that queue its commands.  The driver  *)
(* is one task: it drains the queue, polls the pump once and acts on the   *)
(* answer, exchange after exchange.  Customers, operators, the timeout and *)
(* crashes come between any two exchanges.  An exchange may go without an  *)
(* answer; a frame that has none may not arrive.                           *)
(***************************************************************************)
EXTENDS GilbarcoPump, Sequences

CONSTANTS
    MaxFills,   \* bound: lifts of a nozzle
    MaxQueue,   \* bound: commands that wait for the loop
    Budgets     \* bounds: how often each of the events below may happen

ASSUME MaxFillsAssumption == MaxFills \in Nat
ASSUME MaxQueueAssumption == MaxQueue \in Nat

(* lifts; orders; cancels: presses of Cancel; expires: cancellations of the timeout   *)
(* task; stops, estops, resets, clears (reset_all); losses: exchanges without  *)
(* an answer; noise: writes that do not arrive, but for the limit; limits:     *)
(* limits that do not arrive; faults: sales the database refuses; touched:     *)
(* nozzles the customers lift.  late: a command may be asked for in the middle *)
(* of a poll, and customers lift while one waits.  early: lanes without a sale *)
(* are stopped, and a stopped lane is reset before its nozzle is hung up.      *)
Budget ==
    [lifts : Nat, orders : Nat, cancels : Nat, expires : Nat, stops : Nat, estops : Nat,
     resets : Nat, clears : Nat, losses : Nat, noise : Nat, limits : Nat, faults : Nat,
     crashes : Nat, touched : SUBSET Nozzle, late : BOOLEAN, early : BOOLEAN]

ASSUME BudgetsAssumption ==
    Budgets \subseteq Budget /\ \A b \in Budgets : b.lifts <= MaxFills

VARIABLES
    pump,      \* PumpState
    lane,      \* RuntimeFp, lost in a crash
    queue,     \* commands on their way to the loop
    at,        \* the loop's next exchange
    job,       \* locals of the poll or command in progress
    bill,      \* [fill -> rows in table transactions]
    fills,     \* history: lifts so far; the register belongs to the last
    order,     \* history: the order the loop applied last, until it is withdrawn
    served,    \* history: the order that this fill was authorized for
    forgotten, \* history: the driver lost its record of this fill's sale
    cleared,   \* history: other fills whose register was cleared before they were billed
    left       \* what is left of the budget

ghosts == <<fills, order, served, forgotten, cleared>>
vars == <<pump, lane, queue, at, job, bill, ghosts, left>>

Fill == 0 .. MaxFills   \* 0: before the first lift
Row == [volume : Volume, nozzle : Nozzle]
Order == [nozzle : Nozzle \cup {None}, dose : Limit]
NoOrder == [nozzle |-> 0, dose |-> None]
Command ==
    [kind : {"order", "cancel", "stop", "estop", "reset", "clear"},
     nozzle : Nozzle \cup {None}, dose : Limit]

Status ==
    {"Offline", "Idle", "NozzleUp", "PreAuthorized", "Authorizing", "Delivering", "Stopped",
     "Done"}

AnyNozzle == 0   \* pre_auth of an order that names none

(* pre: pre_auth; tx: current_tx; dose: last_preset; label: pre_auth_preset;   *)
(* shown: the volume on display; held: the volume of a stopped sale.           *)
LaneState ==
    [status : Status, nozzle : Nozzle \cup {None}, pre : Nozzle \cup {None, AnyNozzle},
     tx : Nozzle \cup {None}, dose : Limit, label : BOOLEAN, shown : Volume, held : Volume]

FreshLane ==
    [status |-> "Offline", nozzle |-> None, pre |-> None, tx |-> None, dose |-> None,
     label |-> FALSE, shown |-> 0, held |-> 0]

(* why: what follows a close that fails. *)
Job ==
    [nozzle : Nozzle \cup {None}, dose : Limit, reactive : BOOLEAN, tries : 0 .. 1,
     why : {"poll", "reset"}, attempt : 1 .. 5, volume : Volume, fill : Fill]

NoJob ==
    [nozzle |-> None, dose |-> None, reactive |-> FALSE, tries |-> 0, why |-> "poll",
     attempt |-> 1, volume |-> 0, fill |-> 0]

CloseRetries == 5   \* GBR_RESET_CLOSE_RETRIES

----------------------------------------------------------------------------
(* The lane's own tests and updates. *)

Given(l) == IF l.nozzle = None THEN 1 ELSE l.nozzle

(* The idle and the complete arm: what lingers is cleared. *)
Rested(l) ==
    IF l.status = "Stopped" THEN l
    ELSE [l EXCEPT !.status = "Idle", !.shown = 0, !.nozzle = None, !.label = FALSE,
                   !.tx = None, !.pre = None]

(* cancel_pre_auth *)
Cancelled(l) ==
    [l EXCEPT !.status = "Idle", !.shown = 0, !.nozzle = None, !.label = FALSE, !.tx = None,
              !.pre = None]

(* reset_for_operator *)
ResetLane(l) == Cancelled(l)

HasCancellablePreauth(l) == l.pre # None \/ l.label \/ l.status = "PreAuthorized"

(* on_poll_missed, at the threshold. *)
CanGoOffline(l) ==
    /\ l.status \in {"Idle", "Stopped"}
    /\ ~l.label /\ l.tx = None

Pending(l) == l.pre # None \/ l.status = "PreAuthorized"

(* A nozzle is up and nothing waits for it. *)
ShownUp(l, n) ==
    [l EXCEPT !.nozzle = n,
              !.status = IF @ \in {"Idle", "NozzleUp", "Offline"} THEN "NozzleUp" ELSE @]

Authorized(l, j) ==
    [l EXCEPT !.status = "Authorizing", !.tx = j.nozzle, !.nozzle = j.nozzle, !.dose = j.dose,
              !.pre = None, !.shown = IF j.reactive THEN @ ELSE 0]

Delivering(l) ==
    [l EXCEPT !.status = "Delivering", !.tx = IF @ = None THEN Given(l) ELSE @]

Held(l) == [l EXCEPT !.status = "Stopped", !.held = l.shown]
StoppedByApp(l) ==
    IF l.status = "Stopped" THEN l ELSE [Held(l) EXCEPT !.pre = None]

Closeable(l) == l.status \in {"Delivering", "Authorizing", "Stopped"}

(* Faulty: the lane is not done when its sale is stored. *)
ClosedOpen(l, volume) == [l EXCEPT !.shown = volume, !.tx = None, !.pre = None]

Closed(l, volume) ==
    [l EXCEPT !.status = "Done", !.shown = volume, !.tx = None, !.pre = None]

----------------------------------------------------------------------------
(* Steps of the loop. *)

Goto(step, j) == at' = step /\ job' = j
Rest == Goto("rest", NoJob)

Spend(what) == left[what] > 0 /\ left' = [left EXCEPT ![what] = @ - 1]
SpendIf(spent, what) == IF spent THEN Spend(what) ELSE UNCHANGED left

(* The queue is drained, and the pump is asked for its status. *)
Polling == at = "rest" /\ queue = <<>>

(* The answer is lost, or the pump did not hear. *)
StatusMissed(arrived, threshold) ==
    /\ Polling
    /\ Spend("losses")
    /\ pump' = IF arrived THEN PumpTold(pump) ELSE pump
    /\ threshold => CanGoOffline(lane)
    /\ lane' = [lane EXCEPT !.status = IF threshold THEN "Offline" ELSE @]
    /\ Rest
    /\ UNCHANGED <<queue, bill, ghosts>>

Heard(phase) ==
    /\ Polling
    /\ pump' = PumpTold(pump) /\ pump'.phase = phase
    /\ UNCHANGED <<queue, bill, fills, served, forgotten, cleared, left>>

(* Faulty: an idle pump has no sale to close. *)
StatusIdleRests ==
    /\ Heard("Idle")
    /\ lane' = Rested(lane) /\ order' = NoOrder
    /\ Rest

(* An idle pump: a sale that was under way is over; a waiting order stays, one *)
(* that names no nozzle does not.                                              *)
StatusIdle ==
    /\ Heard("Idle")
    /\ CASE lane.status \in {"Delivering", "Authorizing"} ->
                UNCHANGED <<lane, order>> /\ Goto("close", NoJob)
         [] lane.status = "PreAuthorized" /\ lane.pre # None ->
                UNCHANGED <<lane, order>> /\ Rest
         [] OTHER ->
                /\ lane' = Rested(lane)
                /\ order' = IF lane.status = "Stopped" THEN order ELSE NoOrder
                /\ Rest

(* The nozzle that is up is asked for. *)
StatusLifted ==
    /\ Heard("Lifted")
    /\ Goto("identify", NoJob)
    /\ UNCHANGED <<lane, order>>

StatusFlowing ==
    /\ Heard("Ready") \/ Heard("Delivering")
    /\ Goto("display", NoJob)
    /\ UNCHANGED <<lane, order>>

StatusComplete ==
    /\ Heard("Complete")
    /\ IF Closeable(lane) THEN UNCHANGED <<lane, order>> /\ Goto("close", NoJob)
       ELSE lane' = Rested(lane) /\ order' = NoOrder /\ Rest

StatusStopped ==
    /\ Heard("Stopped")
    /\ lane' = IF lane.status = "Stopped" THEN lane ELSE Held(lane)
    /\ Rest
    /\ UNCHANGED order

(* Faulty: a nozzle that is not identified is taken for the first. *)
IdentifyGuessed(heard) ==
    /\ at = "identify"
    /\ SpendIf(~heard, "losses")
    /\ LET n == IF heard THEN NozzleTold(pump) ELSE 1
       IN  IF n # None /\ Pending(lane)
           THEN /\ UNCHANGED <<lane, order>>
                /\ Goto("price", [NoJob EXCEPT !.nozzle = n, !.dose = lane.dose])
           ELSE /\ lane' = IF n = None THEN lane ELSE ShownUp(lane, n)
                /\ UNCHANGED order /\ Rest
    /\ UNCHANGED <<pump, queue, bill, fills, served, forgotten, cleared>>

(* gbr_query_nozzle_from_all: never guessed. An order for another nozzle is    *)
(* cancelled; an order for this one, or for any, goes on the wire.             *)
Identify(heard) ==
    /\ at = "identify"
    /\ SpendIf(~heard, "losses")
    /\ LET n == IF heard THEN NozzleTold(pump) ELSE None
       IN  CASE n = None -> UNCHANGED <<lane, order>> /\ Rest
             [] n # None /\ Pending(lane) /\ lane.pre \in Nozzle \ {n} ->
                    /\ lane' = [Cancelled(lane) EXCEPT !.status = "NozzleUp", !.nozzle = n]
                    /\ order' = NoOrder
                    /\ Rest
             [] n # None /\ Pending(lane) /\ lane.pre \notin Nozzle \ {n} ->
                    /\ UNCHANGED <<lane, order>>
                    /\ Goto("price", [NoJob EXCEPT !.nozzle = n, !.dose = lane.dose])
             [] n # None /\ ~Pending(lane) ->
                    lane' = ShownUp(lane, n) /\ UNCHANGED order /\ Rest
    /\ UNCHANGED <<pump, queue, bill, fills, served, forgotten, cleared>>

(* gbr_send_command_mode_frame: command mode is confirmed, the frame is not.   *)
SendFrame(step, heard, arrived, lost) ==
    /\ at = step
    /\ arrived => heard
    /\ CASE ~heard -> Spend("losses")
         [] heard /\ ~arrived -> Spend(lost)
         [] arrived -> UNCHANGED left

SendPrice(heard, arrived) ==
    /\ SendFrame("price", heard, arrived, "noise")
    /\ IF heard THEN Goto("preset", job) ELSE Rest
    /\ UNCHANGED <<pump, lane, queue, bill, ghosts>>

SendPreset(heard, arrived) ==
    /\ SendFrame("preset", heard, arrived, "limits")
    /\ pump' = IF arrived THEN PumpPreset(pump, job.dose) ELSE pump
    /\ IF heard THEN Goto("authorize", job) ELSE Rest
    /\ UNCHANGED <<lane, queue, bill, ghosts>>

(* The lane is Authorizing whether or not the byte arrives. *)
SendAuthorize(arrived) ==
    /\ at = "authorize"
    /\ SpendIf(~arrived, "noise")
    /\ pump' = IF arrived THEN PumpAuthorize(pump) ELSE pump
    /\ served' = IF pump' # pump THEN order ELSE served
    /\ lane' = Authorized(lane, job)
    /\ Rest
    /\ UNCHANGED <<queue, bill, fills, order, forgotten, cleared>>

GetDisplay(heard) ==
    /\ at = "display"
    /\ SpendIf(~heard, "losses")
    /\ lane' = [Delivering(lane) EXCEPT !.shown = IF heard THEN pump.volume ELSE @]
    /\ Rest
    /\ UNCHANGED <<pump, queue, bill, ghosts>>

----------------------------------------------------------------------------
(* gbr_close_transaction *)

(* The end of a close that failed; ResetLane tries again. *)
CloseFailed ==
    CASE job.why = "poll" -> UNCHANGED <<lane, order>> /\ Rest
      [] job.why = "reset" /\ lane.held > 0 /\ job.attempt < CloseRetries ->
             /\ UNCHANGED <<lane, order>>
             /\ Goto("close", [job EXCEPT !.attempt = @ + 1, !.tries = 0])
      [] job.why = "reset" /\ lane.held > 0 /\ job.attempt = CloseRetries ->
             UNCHANGED <<lane, order>> /\ Rest
      [] job.why = "reset" /\ lane.held = 0 ->
             lane' = ResetLane(lane) /\ order' = NoOrder /\ Rest

(* Faulty: the volume on display is that of the sale. *)
GetTransactionShown(heard) ==
    /\ at = "close"
    /\ SpendIf(~heard, "losses")
    /\ CASE heard ->
                /\ Goto("commit", [job EXCEPT !.volume = lane.shown, !.fill = fills])
                /\ UNCHANGED <<lane, order>>
         [] ~heard /\ job.tries = 0 ->
                Goto("close", [job EXCEPT !.tries = 1]) /\ UNCHANGED <<lane, order>>
         [] ~heard /\ job.tries = 1 -> CloseFailed
    /\ UNCHANGED <<pump, queue, bill, fills, served, forgotten, cleared>>

(* The final frame is asked for twice. *)
GetTransaction(heard) ==
    /\ at = "close"
    /\ SpendIf(~heard, "losses")
    /\ CASE heard ->
                /\ Goto("commit", [job EXCEPT !.volume = pump.volume, !.fill = fills])
                /\ UNCHANGED <<lane, order>>
         [] ~heard /\ job.tries = 0 ->
                Goto("close", [job EXCEPT !.tries = 1]) /\ UNCHANGED <<lane, order>>
         [] ~heard /\ job.tries = 1 -> CloseFailed
    /\ UNCHANGED <<pump, queue, bill, fills, served, forgotten, cleared>>

CommitSale ==
    /\ at = "commit"
    /\ LET n == IF lane.tx # None THEN lane.tx ELSE Given(lane)
       IN  bill' = [bill EXCEPT ![job.fill] = Append(@, [volume |-> job.volume, nozzle |-> n])]
    /\ lane' = Closed(lane, job.volume)
    /\ Rest
    /\ UNCHANGED <<pump, queue, ghosts, left>>

(* Faulty: a sale that was not stored is closed. *)
CommitFailsClosed ==
    /\ at = "commit"
    /\ Spend("faults")
    /\ lane' = Closed(lane, job.volume) /\ Rest
    /\ UNCHANGED <<pump, queue, bill, ghosts>>

CommitFails ==
    /\ at = "commit"
    /\ Spend("faults")
    /\ CloseFailed
    /\ UNCHANGED <<pump, queue, bill, fills, served, forgotten, cleared>>

----------------------------------------------------------------------------
(* Commands: gbr_apply_command, in the order they were queued. *)

Dequeued(kind) ==
    /\ at = "rest" /\ queue # <<>>
    /\ Head(queue).kind = kind
    /\ queue' = Tail(queue)
    /\ UNCHANGED <<bill, fills, served, cleared>>
    /\ forgotten' = (forgotten \/ (kind = "cancel" /\ lane.tx # None))

Ordered(c) == order' = [nozzle |-> c.nozzle, dose |-> c.dose]

(* Preauthorize: whatever the lane does by now. *)
PreauthorizeCommand ==
    /\ Dequeued("order") /\ Head(queue).nozzle # None
    /\ LET c == Head(queue)
           l == [lane EXCEPT !.pre = c.nozzle, !.label = TRUE, !.dose = c.dose]
       IN  /\ lane' = IF lane.status = "NozzleUp" THEN l
                      ELSE [l EXCEPT !.status = "PreAuthorized", !.nozzle = c.nozzle]
           /\ Ordered(c)
    /\ Rest
    /\ UNCHANGED <<pump, left>>

(* Authorize: the nozzle that is up is started; without one the order waits.   *)
AuthorizeCommand ==
    /\ Dequeued("order") /\ Head(queue).nozzle = None
    /\ LET c == Head(queue)
       IN  /\ IF lane.status = "NozzleUp"
              THEN /\ UNCHANGED lane
                   /\ Goto("price", [NoJob EXCEPT !.nozzle = lane.nozzle, !.dose = c.dose,
                                                  !.reactive = TRUE])
              ELSE /\ lane' = [lane EXCEPT !.pre = AnyNozzle, !.dose = c.dose]
                   /\ Rest
           /\ Ordered(c)
    /\ UNCHANGED <<pump, left>>

(* Stop and EStop: the halt is not confirmed. *)
StopCommand(arrived) ==
    /\ Dequeued("stop")
    /\ SpendIf(~arrived, "noise")
    /\ pump' = IF arrived THEN PumpHalt(pump) ELSE pump
    /\ lane' = StoppedByApp(lane)
    /\ Rest
    /\ UNCHANGED order

EStopCommand(arrived) ==
    /\ Dequeued("estop")
    /\ SpendIf(~arrived, "noise")
    /\ pump' = IF arrived THEN PumpHalt(pump) ELSE pump
    /\ lane' = [Held(lane) EXCEPT !.pre = None]
    /\ Rest
    /\ UNCHANGED order

(* ResetLane: a stopped lane is closed, another dismissed. *)
ResetCommand ==
    /\ Dequeued("reset")
    /\ CASE lane.status = "Stopped" ->
                UNCHANGED <<lane, order>> /\ Goto("close", [NoJob EXCEPT !.why = "reset"])
         [] lane.status \in {"Done", "Idle", "Offline"} ->
                lane' = ResetLane(lane) /\ order' = NoOrder /\ Rest
         [] OTHER -> UNCHANGED <<lane, order>> /\ Rest
    /\ UNCHANGED <<pump, left>>

(* ResetAll *)
ClearCommand ==
    /\ Dequeued("clear")
    /\ IF \/ lane.status \in {"Delivering", "Authorizing", "PreAuthorized"}
          \/ lane.status = "Stopped" /\ lane.held > 0
       THEN UNCHANGED <<lane, order>>
       ELSE lane' = ResetLane(lane) /\ order' = NoOrder
    /\ Rest
    /\ UNCHANGED <<pump, left>>

(* CancelPreauth: whatever the lane does by now. *)
CancelCommand ==
    /\ Dequeued("cancel")
    /\ lane' = Cancelled(lane) /\ order' = NoOrder
    /\ Rest
    /\ UNCHANGED <<pump, left>>

----------------------------------------------------------------------------
(* The routes and the timeout, from tasks of their own. *)

Queued(kind, n, dose) ==
    /\ left.late \/ Polling
    /\ Len(queue) < MaxQueue
    /\ queue' = Append(queue, [kind |-> kind, nozzle |-> n, dose |-> dose])
    /\ UNCHANGED <<pump, lane, at, job, bill, ghosts>>

(* preauthorize, of an idle lane or of the nozzle that is up, and authorize.   *)
RequestOrder(n, dose) ==
    /\ Spend("orders")
    /\ CASE lane.status = "Idle" -> Queued("order", n, dose)
         [] lane.status = "NozzleUp" -> n = lane.nozzle /\ Queued("order", None, dose)
         [] OTHER -> FALSE

RequestCancel ==
    /\ HasCancellablePreauth(lane)
    /\ left.late \/ lane.tx = None
    /\ Spend("cancels") /\ Queued("cancel", None, None)

PreauthTimeout ==
    /\ lane.status = "PreAuthorized"
    /\ Spend("expires") /\ Queued("cancel", None, None)

Underway == left.early \/ lane.tx # None

RequestStop == Underway /\ Spend("stops") /\ Queued("stop", None, None)
RequestEStop == Underway /\ Spend("estops") /\ Queued("estop", None, None)

HungUp == left.early \/ lane.status # "Stopped" \/ pump.phase = "Idle"

RequestReset == HungUp /\ Spend("resets") /\ Queued("reset", None, None)
RequestClear == HungUp /\ Spend("clears") /\ Queued("clear", None, None)

----------------------------------------------------------------------------
(* The customers and the pump. *)

CustomerLifts(n) ==
    /\ n \in left.touched /\ pump.phase = "Idle" /\ fills < left.lifts
    /\ left.late \/ queue = <<>>
    /\ pump' = PumpLift(pump, n)
    /\ fills' = fills + 1
    /\ served' = NoOrder
    /\ forgotten' = FALSE
    /\ cleared' = IF pump.volume > 0 /\ bill[fills] = <<>> /\ ~forgotten
                  THEN cleared \cup {fills} ELSE cleared
    /\ UNCHANGED <<lane, queue, at, job, bill, order, left>>

CustomerHolsters ==
    /\ CanHolster(pump)
    /\ pump' = Completed(pump)
    /\ UNCHANGED <<lane, queue, at, job, bill, ghosts, left>>

FuelFlows ==
    /\ pump.phase = "Delivering" /\ pump.volume < MaxVolume
    /\ pump' = PumpFlow(pump)
    /\ UNCHANGED <<lane, queue, at, job, bill, ghosts, left>>

(* The service dies and starts again; only the database and the pump remain.   *)
Crash ==
    /\ Spend("crashes")
    /\ lane' = FreshLane /\ queue' = <<>> /\ order' = NoOrder
    /\ Rest
    /\ forgotten' = TRUE
    /\ UNCHANGED <<pump, bill, fills, served, cleared>>

----------------------------------------------------------------------------
Init ==
    /\ pump = FreshPump
    /\ lane = FreshLane
    /\ queue = <<>>
    /\ at = "rest" /\ job = NoJob
    /\ bill = [f \in Fill |-> <<>>]
    /\ fills = 0 /\ order = NoOrder /\ served = NoOrder
    /\ forgotten = FALSE /\ cleared = {}
    /\ left \in Budgets

PollStep ==
    \/ \E arrived, threshold \in BOOLEAN : StatusMissed(arrived, threshold)
    \/ StatusIdle \/ StatusLifted \/ StatusFlowing \/ StatusComplete \/ StatusStopped
    \/ \E heard \in BOOLEAN : Identify(heard) \/ GetDisplay(heard) \/ GetTransaction(heard)
    \/ \E heard, arrived \in BOOLEAN : SendPrice(heard, arrived) \/ SendPreset(heard, arrived)
    \/ \E arrived \in BOOLEAN : SendAuthorize(arrived)
    \/ CommitSale \/ CommitFails

CommandStep ==
    \/ PreauthorizeCommand \/ AuthorizeCommand \/ ResetCommand \/ ClearCommand \/ CancelCommand
    \/ \E arrived \in BOOLEAN : StopCommand(arrived) \/ EStopCommand(arrived)

RequestStep ==
    \/ \E n \in Nozzle, dose \in Limit : RequestOrder(n, dose)
    \/ RequestCancel \/ PreauthTimeout \/ RequestStop \/ RequestEStop \/ RequestReset
    \/ RequestClear

PumpStep ==
    \/ \E n \in Nozzle : CustomerLifts(n)
    \/ CustomerHolsters \/ FuelFlows

Loop == PollStep \/ CommandStep

Next == Loop \/ RequestStep \/ PumpStep \/ Crash

Spec == Init /\ [][Next]_vars

(* The poll loop never sleeps for good. *)
FairSpec == Spec /\ WF_vars(Loop)

----------------------------------------------------------------------------
(* Properties. *)

(* The type of the state: what goes on the wire is for a nozzle, and a sale is *)
(* committed for a lane that has one.                                          *)
TypeOK ==
    /\ pump \in PumpState
    /\ lane \in LaneState
    /\ queue \in Seq(Command) /\ Len(queue) <= MaxQueue
    /\ at \in {"rest", "identify", "price", "preset", "authorize", "display", "close", "commit"}
    /\ job \in Job
    /\ at \in {"price", "preset", "authorize"} => job.nozzle \in Nozzle
    /\ at \in {"close", "commit"} => Closeable(lane)
    /\ \A f \in Fill : bill[f] \in Seq(Row)
    /\ fills \in Fill /\ {order, served} \subseteq Order \cup {NoOrder} /\ forgotten \in BOOLEAN /\ cleared \subseteq Fill
    /\ left \in Budget

(* The pump keeps its register until the next lift, and by then the driver has *)
(* billed it, through one lost answer or one refused sale, unless it lost its  *)
(* record of the sale to a crash during the fill or to a cancellation after    *)
(* the authorization (forgotten).                                              *)
SaleKept == cleared = {}

(* A fill is billed once: by the poll that closes it, by its repetition, or by *)
(* the reset of the stopped lane.                                              *)
BilledOnce == \A f \in Fill : Len(bill[f]) <= 1

(* What is billed is all that flowed, at the nozzle it flowed from, unless the *)
(* driver lost its record of the sale.                                         *)
BilledRight ==
    \A i \in DOMAIN bill[fills] :
        /\ bill[fills][i].volume = pump.volume
        /\ (pump.volume > 0 /\ ~forgotten) => bill[fills][i].nozzle = pump.nozzle
        /\ pump.phase \in {"Complete", "Idle"}

(* Does not hold (MCExpired): preauth_timeout.rs says "Only holstered pre-auth *)
(* should auto-cancel", so that a sale under way would keep its nozzle.        *)
BilledAtNozzle ==
    \A i \in DOMAIN bill[fills] :
        pump.volume > 0 => bill[fills][i].nozzle = pump.nozzle

(* Fuel is released only for an order that stands, at the nozzle it names and  *)
(* up to its dose.                                                             *)
ServedAsOrdered ==
    pump.phase \in {"Ready", "Delivering"} =>
        /\ served # NoOrder
        /\ served.nozzle \in {None, pump.nozzle}
        /\ pump.limit = served.dose

(* A sale that is over is billed, however often answers are lost and the       *)
(* database refuses it, if nobody lifts the nozzle again; or the lane stays    *)
(* stopped, for the operator to reset.                                         *)
Over == pump.phase = "Complete" /\ pump.volume > 0 /\ fills = left.lifts /\ ~forgotten

Settles == Over ~> (bill[fills] # <<>> \/ forgotten \/ lane.status = "Stopped")
=============================================================================
