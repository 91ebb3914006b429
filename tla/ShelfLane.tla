------------------------------ MODULE ShelfLane ------------------------------
(***************************************************************************)
(* One side of a SHELF V2.2 dispenser and the driver that polls it:        *)
(* engine/protocols/shelf.rs and shelf_state.rs, the cancellation routes   *)
(* of api/routes.rs and request_shelf_cancel of engine/state.rs.  The      *)
(* driver is one task; a request is repeated with the same packet index    *)
(* until it is answered, up to 20 times, so that a gun may obey a request  *)
(* whose answer is lost and then refuse its repetition.  Between two wire  *)
(* exchanges customers use the guns and the operator cancels: the flag of  *)
(* the cancellation is raised at once, its command waits in the queue.     *)
(* A reservation becomes a dose when its gun is lifted; a sale is          *)
(* committed from the final report of the gun, kept in memory until then.  *)
(***************************************************************************)
EXTENDS ShelfPump, Sequences

CONSTANTS
    MaxFills,     \* bound: orders and fills of the keypad, together
    MaxQueue,     \* bound: commands that wait for the loop
    Budgets       \* bounds: how often each of the events below may happen

ASSUME MaxFillsAssumption == MaxFills \in Nat
ASSUME MaxQueueAssumption == MaxQueue \in Nat

(* named: orders for a gun; reactive: orders for the lifted gun; keypad: fills *)
(* of the keypad; pauses; stops, estops, resets: commands; losses: exchanges   *)
(* without an answer; deaf: requests that do not arrive; faults: sales the     *)
(* database refuses; touched: guns the customers lift; gas: a price write      *)
(* precedes a dose; retains: an idle gun answers AMOUNT_INFO with its last     *)
(* sale, as real ones do, and the simulator does not.                          *)
Budget ==
    [named : Nat, reactive : Nat, keypad : Nat, pauses : Nat, stops : Nat, estops : Nat,
     resets : Nat, losses : Nat, deaf : Nat, faults : Nat, crashes : Nat,
     touched : SUBSET Gun, gas : BOOLEAN, retains : BOOLEAN]

ASSUME BudgetsAssumption ==
    Budgets \subseteq Budget
        /\ \A b \in Budgets : b.named + b.reactive + b.keypad <= MaxFills

VARIABLES
    pump,      \* [Gun -> GunState]
    lane,      \* RuntimeFp and ShelfRuntimeState, lost in a crash
    queue,     \* commands on their way to the loop
    at,        \* the loop's next step
    job,       \* locals of the poll or command in progress
    bill,      \* [fill -> rows in table transactions]
    fill,      \* history: which fill the register of a gun belongs to, 0 for none
    fills,     \* history: fills so far
    claim,     \* history: [fill -> the order it serves, or SeenOnly, or Unclaimed]
    orders,    \* history: the reservations made
    cleared,   \* history: owned fills whose register was cleared before they were billed
    left       \* what is left of the budget

ghosts == <<fill, fills, claim, orders, cleared>>
vars == <<pump, lane, queue, at, job, bill, ghosts, left>>

Fill == 1 .. MaxFills
Unclaimed == 0
SeenOnly == -1   \* the driver found it flowing, and did not start it
Sale == [fill : {0} \cup Fill, volume : Volume]
ASSUME NoneIsApart == None \notin Sale
Row == [volume : Volume, gun : Gun]
Order == [gun : Gun, named : BOOLEAN, dose : Dose, cancelled : BOOLEAN]
Command ==
    [kind : {"order", "stop", "estop", "reset"}, gun : Gun \cup {None}, for : Gun \cup {None}]

LaneState ==
    [status : {"Offline", "Idle", "NozzleUp", "PreAuthorized", "Authorizing", "Delivering",
               "Finalizing", "Done"},
     nozzle : Gun \cup {None}, pre : Gun \cup {None}, tx : Gun \cup {None}, order : {0} \cup Fill,
     dose : Dose, started : BOOLEAN, cancel : BOOLEAN, stop : BOOLEAN, paced : BOOLEAN,
     wire : Gun \cup {None}, final : Sale \cup {None}]

(* ShelfRuntimeState::default *)
Cleared(l) ==
    [l EXCEPT !.started = FALSE, !.cancel = FALSE, !.stop = FALSE, !.paced = FALSE,
              !.wire = None, !.final = None]

FreshLane ==
    [status |-> "Offline", nozzle |-> None, pre |-> None, tx |-> None, order |-> 0,
     dose |-> None, started |-> FALSE, cancel |-> FALSE, stop |-> FALSE, paced |-> FALSE,
     wire |-> None, final |-> None]

NoJob == [gun |-> None, todo |-> {}, retried |-> FALSE, next |-> "leave"]

First(S) == CHOOSE g \in S : \A h \in S : g <= h

----------------------------------------------------------------------------
(* The lane's own tests and updates. *)

(* cancel_pre_auth and the default state. *)
Cancelled(l) ==
    Cleared([l EXCEPT !.status = "Idle", !.nozzle = None, !.pre = None, !.tx = None, !.order = 0])

(* Nothing is owned: can_read_side_totals, ResetLane, reserve. *)
Unowned(l) ==
    l.pre = None /\ l.tx = None /\ ~l.started /\ ~l.cancel /\ l.final = None

CanReserve(l) == l.status \in {"Idle", "NozzleUp"} /\ Unowned(l)

Reserved(l, g, dose, id) ==
    [Cleared(l) EXCEPT !.wire = g, !.status = "PreAuthorized", !.nozzle = g, !.pre = g,
                       !.dose = dose, !.order = id]

(* expire_reservation *)
CanExpire(l) == l.pre # None /\ ~l.started /\ l.tx = None /\ ~l.cancel

Waiting(l) == l.pre # None /\ ~l.started /\ l.tx = None

(* request_cancel, but for the stop it sends. *)
CancelApplied(l) ==
    LET m == [l EXCEPT !.cancel = FALSE]
    IN  CASE ~m.started /\ m.tx = None /\ m.pre # None -> Cancelled(m)
          [] ~m.started /\ m.tx = None /\ m.pre = None -> m
          [] OTHER -> [m EXCEPT !.stop = TRUE, !.status = "Finalizing"]

(* emit_nozzle_up *)
ShownUp(l, g) ==
    IF l.status \in {"Delivering", "Done"} THEN l
    ELSE [l EXCEPT !.wire = g, !.status = "NozzleUp", !.nozzle = g]

(* update_live *)
Live(l, g) ==
    [l EXCEPT !.wire = g, !.status = IF l.stop THEN "Finalizing" ELSE "Delivering",
              !.nozzle = g, !.tx = IF @ = None THEN g ELSE @, !.pre = None]

(* idle_lane *)
Idled(l) ==
    IF l.pre # None \/ l.tx # None \/ l.started THEN l
    ELSE [l EXCEPT !.status = "Idle", !.nozzle = None]

(* The start is decided, before the first byte of it is sent. *)
Starting(l, g) == [l EXCEPT !.started = TRUE, !.wire = g, !.status = "Authorizing", !.tx = g]

(* A final report is pinned until it is committed. *)
Pinned(l, g, sale) ==
    [l EXCEPT !.wire = g, !.nozzle = g, !.status = "Finalizing", !.final = sale]

(* Faulty: the order that made the sale is still reserved. *)
ClosedKept(l, g) ==
    [Cleared(l) EXCEPT !.cancel = l.cancel, !.status = "Done", !.tx = None,
                       !.nozzle = IF l.tx # None THEN l.tx ELSE g]

(* close_transaction: the sale is durable. *)
Closed(l, g) ==
    [Cleared(l) EXCEPT !.cancel = l.cancel, !.status = "Done", !.tx = None, !.pre = None,
                       !.order = 0, !.nozzle = IF l.tx # None THEN l.tx ELSE g]

----------------------------------------------------------------------------
(* Steps of the loop. *)

Goto(step, j) == at' = step /\ job' = j
Rest == Goto("rest", NoJob)
Memory == UNCHANGED <<pump, queue, bill, ghosts, left>>

Spend(what) == left[what] > 0 /\ left' = [left EXCEPT ![what] = @ - 1]

(* poll_side: the next gun is polled while the side owns nothing. *)
Leave(l) ==
    IF l.nozzle = None /\ l.pre = None /\ l.tx = None /\ job.todo # {}
    THEN Goto("status", [NoJob EXCEPT !.gun = First(job.todo),
                                      !.todo = job.todo \ {First(job.todo)}])
    ELSE Rest

(* send_pending_stop: attempts are half a second apart. *)
StopDue(l) == l.stop /\ l.final = None /\ ~l.paced

(* Faulty: a stop that was sent once is not repeated. *)
StopThenOnce(l, next, Otherwise) ==
    IF StopDue(l)
    THEN /\ lane' = [l EXCEPT !.paced = TRUE, !.stop = FALSE]
         /\ Goto("stop", [job EXCEPT !.gun = l.wire, !.next = next, !.retried = FALSE])
    ELSE lane' = l /\ Otherwise

StopThen(l, next, Otherwise) ==
    IF StopDue(l)
    THEN /\ lane' = [l EXCEPT !.paced = TRUE]
         /\ Goto("stop", [job EXCEPT !.gun = l.wire, !.next = next, !.retried = FALSE])
    ELSE lane' = l /\ Otherwise

(* The end of poll_position. *)
PollEnds(l) == StopThen(l, "leave", Leave(l))

(* request_cancel within a poll. *)
Cancel(l) == StopThen(CancelApplied(l), "tail", Leave(CancelApplied(l)))

(* close_transaction: a report of no fuel without a sale is dropped. *)
Close(l, g) ==
    IF l.final.volume = 0 /\ l.tx = None
    THEN LET m == Idled([l EXCEPT !.final = None]) IN lane' = m /\ Leave(m)
    ELSE lane' = l /\ Goto("commit", [job EXCEPT !.gun = g, !.retried = FALSE])

(* The register of g is cleared for a new fill. *)
Unbilled(g) ==
    fill[g] # 0 /\ claim[fill[g]] # Unclaimed /\ pump[g].volume > 0 /\ bill[fill[g]] = <<>>

NewFill(g, by) ==
    /\ fills' = fills + 1
    /\ fill' = [fill EXCEPT ![g] = fills + 1]
    /\ claim' = [claim EXCEPT ![fills + 1] = by]
    /\ cleared' = IF Unbilled(g) THEN cleared \cup {fill[g]} ELSE cleared

Saw(g) ==
    claim' = IF fill[g] # 0 /\ claim[fill[g]] = Unclaimed
             THEN [claim EXCEPT ![fill[g]] = SeenOnly] ELSE claim

SaleOf(g) == [fill |-> fill[g], volume |-> pump[g].volume]

----------------------------------------------------------------------------
(* A wire exchange fails to be answered once more: the request may have been   *)
(* obeyed.  After 20 attempts the loop goes on without an answer (heard).      *)
Request(g, arrived) ==
    CASE at = "status" /\ arrived -> pump' = [pump EXCEPT ![g] = GunTold(@)]
      [] at \in {"stop", "each"} /\ arrived -> pump' = [pump EXCEPT ![g] = GunStop(@)]
      [] OTHER -> UNCHANGED pump

Spent(arrived) ==
    /\ left.losses > 0
    /\ ~arrived => left.deaf > 0
    /\ left' = [left EXCEPT !.losses = @ - 1, !.deaf = IF arrived THEN @ ELSE @ - 1]

LoseExchange(arrived) ==
    /\ at \in {"status", "price", "amount", "stop", "each"}
    /\ Spent(arrived)
    /\ Request(job.gun, arrived)
    /\ Goto(at, [job EXCEPT !.retried = TRUE])
    /\ UNCHANGED <<lane, queue, bill, ghosts>>

(* The dose arrives at its gun: a first request, or a repetition, or no more.  *)
LoseDose(arrived) ==
    /\ at = "dose"
    /\ Spent(arrived)
    /\ IF arrived /\ TakesDose(pump[job.gun])
       THEN /\ pump' = [pump EXCEPT ![job.gun] = GunDose(@, lane.dose)]
            /\ NewFill(job.gun, lane.order)
       ELSE UNCHANGED <<pump, fill, fills, claim, cleared>>
    /\ Goto(at, [job EXCEPT !.retried = TRUE])
    /\ UNCHANGED <<lane, queue, bill, orders>>

----------------------------------------------------------------------------
(* A poll of the side. *)

(* The queue is drained before the side is polled. *)
Drained ==
    /\ at = "rest" /\ queue = <<>>
    /\ Goto("poll", NoJob)
    /\ UNCHANGED lane
    /\ Memory

Polled == IF lane.nozzle = None THEN Gun ELSE {lane.nozzle}

(* A reservation may expire; a report in memory is committed; or the selected  *)
(* gun is asked for its status, or each gun until one is selected.             *)
BeginPoll(expired) ==
    /\ at = "poll"
    /\ expired => CanExpire(lane)
    /\ CASE expired -> lane' = Cancelled(lane) /\ Rest
         [] ~expired /\ lane.final # None ->
                Close(lane, First(Polled))
         [] ~expired /\ lane.final = None ->
                /\ UNCHANGED lane
                /\ Goto("status", [NoJob EXCEPT !.gun = First(Polled),
                                                !.todo = Polled \ {First(Polled)}])
    /\ Memory

(* mark_missed; what threshold says of the polls missed before, is open.       *)
StatusMissed(threshold) ==
    /\ at = "status" /\ job.retried
    /\ threshold => lane.status \in {"Idle", "Finalizing"} /\ lane.tx = None
    /\ PollEnds([lane EXCEPT !.status = IF threshold THEN "Offline" ELSE @])
    /\ Memory

(* The gun answered r. *)
Heard(r) ==
    /\ at = "status"
    /\ r \in Answers(pump, job.gun)
    /\ pump' = [pump EXCEPT ![job.gun] = GunTold(@)]
    /\ UNCHANGED <<queue, bill, left>>

HeardOnly(r) == Heard(r) /\ UNCHANGED ghosts

(* Faulty: the report of an acknowledged sale is a new one. *)
StatusFinalAgain(r) ==
    /\ HeardOnly(r)
    /\ r.kind = "Final"
    /\ Close(Pinned(lane, job.gun, SaleOf(job.gun)), job.gun)

(* 0x93: the final report, unless it was the last thing the side did.          *)
StatusFinal(r) ==
    /\ HeardOnly(r)
    /\ r.kind = "Final"
    /\ IF lane.status = "Done" /\ lane.tx = None
       THEN UNCHANGED lane /\ Leave(lane)
       ELSE Close(Pinned(lane, job.gun, SaleOf(job.gun)), job.gun)

(* cancel_reservation_on_wrong_lift: another gun of the side is up.            *)
Wrong(r) == IF Waiting(lane) /\ lane.final = None THEN r.lifts \ {lane.pre} ELSE {}

(* A gun that flows already is adopted and stopped.                            *)
StatusWrongLift(r) ==
    /\ Heard(r)
    /\ r.kind # "Final" /\ Wrong(r) # {}
    /\ LET flowing == IF r.of # None THEN r.of ELSE job.gun
       IN  IF IsDispensing(r)
           THEN Cancel(Live(Cancelled(lane), flowing)) /\ Saw(flowing)
           ELSE /\ lane' = ShownUp(Cancelled(lane), First(Wrong(r)))
                /\ Leave(lane') /\ UNCHANGED claim
    /\ UNCHANGED <<fill, fills, orders, cleared>>

(* An answer about this gun, and the right one.                                *)
About(r, kind) ==
    r.kind = kind /\ (r.kind # "Final" => Wrong(r) = {} /\ ~DescribesOther(r, job.gun))

StatusOther(r) ==
    /\ HeardOnly(r)
    /\ r.kind # "Final" /\ Wrong(r) = {} /\ DescribesOther(r, job.gun)
    /\ UNCHANGED lane /\ Leave(lane)

(* A fill that is paused, or that the driver did not start, is stopped.        *)
Foreign(r) == r.paused \/ (lane.pre # None /\ ~lane.started)

(* Faulty: a pause is taken for the end of the fill. *)
StatusPausedFinal(r) ==
    /\ HeardOnly(r)
    /\ About(r, "Dispensing") /\ Foreign(r)
    /\ Close(Pinned(lane, job.gun, SaleOf(job.gun)), job.gun)

(* It is stopped, and becomes the sale of the side.                            *)
StatusForeign(r) ==
    /\ Heard(r)
    /\ About(r, "Dispensing") /\ Foreign(r)
    /\ Cancel(Live(lane, job.gun)) /\ Saw(job.gun)
    /\ UNCHANGED <<fill, fills, orders, cleared>>

(* A dose that waits for its gun is left alone; a flowing one is the sale.     *)
Resting(r) == ~GunLifted(r, job.gun) /\ r.volume = 0 /\ lane.pre # None

StatusDispensing(r) ==
    /\ Heard(r)
    /\ About(r, "Dispensing") /\ ~Foreign(r)
    /\ IF Resting(r) THEN PollEnds(lane) /\ UNCHANGED claim
       ELSE PollEnds(Live(lane, job.gun)) /\ Saw(job.gun)
    /\ UNCHANGED <<fill, fills, orders, cleared>>

(* 0x85 changes the meter that is shown, 0x82 and 0x83 the nozzle.             *)
StatusSynchronizing(r) ==
    /\ HeardOnly(r)
    /\ About(r, "Synchronizing")
    /\ PollEnds(lane)

StatusKeypad(r) ==
    /\ HeardOnly(r)
    /\ About(r, "Keypad")
    /\ PollEnds(ShownUp(lane, job.gun))

(* 0x81 and a reservation: its lifted gun is started, when the answer tells    *)
(* that it is that gun.                                                        *)
Identified(r) == r.lifts # {} \/ Cardinality(Gun) = 1

Starts(r) == Identified(r) /\ GunLifted(r, job.gun) /\ ~lane.cancel

StatusReserved(r, expired) ==
    /\ HeardOnly(r)
    /\ About(r, "Idle") /\ Waiting(lane)
    /\ expired => Starts(r)
    /\ CASE ~Starts(r) -> PollEnds(lane)
         [] Starts(r) /\ expired -> PollEnds(Cancelled(lane))
         [] Starts(r) /\ ~expired /\ left.gas ->
                UNCHANGED lane /\ Goto("price", [job EXCEPT !.retried = FALSE])
         [] Starts(r) /\ ~expired /\ ~left.gas ->
                /\ lane' = Starting(lane, job.gun)
                /\ Goto("dose", [job EXCEPT !.retried = FALSE])

(* 0x81 without a reservation: the nozzle is up, or a sale has ended unseen,   *)
(* or the lane is idle.                                                        *)
StatusIdle(r) ==
    /\ HeardOnly(r)
    /\ About(r, "Idle") /\ ~Waiting(lane)
    /\ CASE lane.tx # None ->
                UNCHANGED lane /\ Goto("amount", [job EXCEPT !.retried = FALSE])
         [] lane.tx = None /\ GunLifted(r, job.gun) -> PollEnds(ShownUp(lane, job.gun))
         [] lane.tx = None /\ ~GunLifted(r, job.gun) -> PollEnds(Idled(lane))

(* AMOUNT_INFO: the final report is recovered, or the sale waits.              *)
AmountInfo(heard) ==
    /\ at = "amount"
    /\ ~heard => job.retried
    /\ IF heard /\ (pump[job.gun].phase = "Final" \/ left.retains)
       THEN Close([lane EXCEPT !.final = SaleOf(job.gun)], job.gun)
       ELSE PollEnds(lane)
    /\ Memory

(* commit_sale; when it fails the report stays and is committed again.         *)
CommitSale ==
    /\ at = "commit"
    /\ LET s == lane.final
           g == IF lane.tx # None THEN lane.tx ELSE job.gun
       IN  /\ bill' = IF s.fill = 0 THEN bill
                      ELSE [bill EXCEPT ![s.fill] = Append(@, [volume |-> s.volume, gun |-> g])]
           /\ lane' = Closed(lane, job.gun)
           /\ Leave(Closed(lane, job.gun))
    /\ UNCHANGED <<pump, queue, ghosts, left>>

CommitFails ==
    /\ at = "commit"
    /\ Spend("faults")
    /\ UNCHANGED lane /\ Leave(lane)
    /\ UNCHANGED <<pump, queue, bill, ghosts>>

----------------------------------------------------------------------------
(* The start of a reservation: authorize. *)

(* Faulty: a cancellation that came during the price write is not looked at. *)
PriceWrittenAnyway(heard, ok) ==
    /\ at = "price"
    /\ ~heard => job.retried
    /\ ok => heard
    /\ IF ok THEN lane' = Starting(lane, job.gun) /\ Goto("dose", [job EXCEPT !.retried = FALSE])
       ELSE Cancel(lane)
    /\ Memory

(* The price of gas is written first. Its refusal cancels the reservation; the *)
(* start is then decided under the lock that a cancellation takes.             *)
PriceWritten(heard, ok) ==
    /\ at = "price"
    /\ ~heard => job.retried
    /\ ok => heard
    /\ CASE ~ok -> Cancel(lane)
         [] ok /\ lane.cancel -> PollEnds(lane)
         [] ok /\ ~lane.cancel ->
                lane' = Starting(lane, job.gun) /\ Goto("dose", [job EXCEPT !.retried = FALSE])
    /\ Memory

(* The gun takes the dose and says so.                                         *)
DoseTaken ==
    /\ at = "dose"
    /\ TakesDose(pump[job.gun])
    /\ pump' = [pump EXCEPT ![job.gun] = GunDose(@, lane.dose)]
    /\ NewFill(job.gun, lane.order)
    /\ PollEnds(lane)
    /\ UNCHANGED <<queue, bill, orders, left>>

(* Faulty: a refusal of a repeated request means that nothing was started. *)
DoseRefusedAny ==
    /\ at = "dose"
    /\ PollEnds(Cancelled(lane))
    /\ Memory

(* A first request that is refused started nothing.                            *)
DoseRefused ==
    /\ at = "dose" /\ ~job.retried
    /\ PollEnds(Cancelled(lane))
    /\ Memory

(* A refusal of a repetition, or no answer, may follow a start: it is stopped. *)
DoseUnconfirmed ==
    /\ at = "dose" /\ job.retried
    /\ Cancel(lane)
    /\ Memory

----------------------------------------------------------------------------
(* Stops. *)

(* The answer may carry the final report of the sale it ends.                  *)
StopWire(heard, final) ==
    /\ at = "stop"
    /\ LET p == IF heard THEN GunStop(pump[job.gun]) ELSE pump[job.gun]
       IN  /\ ~heard => job.retried
           /\ final => heard /\ left.retains /\ p.phase = "Synchronizing"
           /\ pump' = [pump EXCEPT ![job.gun] = IF final THEN [p EXCEPT !.phase = "Final"] ELSE p]
           /\ LET l == IF final THEN [lane EXCEPT !.final = SaleOf(job.gun)] ELSE lane
              IN  CASE job.next = "tail"  -> PollEnds(l)
                    [] job.next = "leave" -> lane' = l /\ Leave(l)
                    [] job.next = "each"  ->
                           /\ lane' = l
                           /\ IF job.todo = {} THEN Rest
                              ELSE Goto("each", [NoJob EXCEPT
                                                     !.gun = First(job.todo),
                                                     !.todo = job.todo \ {First(job.todo)}])
    /\ UNCHANGED <<queue, bill, ghosts, left>>

(* EStop: every other gun of the side.                                         *)
StopEach(heard) ==
    /\ at = "each"
    /\ ~heard => job.retried
    /\ pump' = IF heard THEN [pump EXCEPT ![job.gun] = GunStop(@)] ELSE pump
    /\ IF job.todo = {} THEN Rest
       ELSE Goto("each", [job EXCEPT !.gun = First(job.todo), !.retried = FALSE,
                                     !.todo = job.todo \ {First(job.todo)}])
    /\ UNCHANGED <<lane, queue, bill, ghosts, left>>

(* Half a second has passed since the last stop. *)
Elapse ==
    /\ lane.paced
    /\ lane' = [lane EXCEPT !.paced = FALSE]
    /\ UNCHANGED <<pump, queue, at, job, bill, ghosts, left>>

----------------------------------------------------------------------------
(* Commands: apply_command, in the order they were queued. *)

Dequeued(kind) ==
    /\ at = "rest" /\ queue # <<>>
    /\ Head(queue).kind = kind
    /\ queue' = Tail(queue)
    /\ UNCHANGED <<pump, bill, fill, fills, claim, cleared, left>>

(* reserve: a reactive order is for the gun that is selected by now.           *)
OrderCommand(dose) ==
    /\ Dequeued("order")
    /\ LET named == Head(queue).gun # None
           g == IF named THEN Head(queue).gun
                ELSE IF lane.nozzle # None THEN lane.nozzle ELSE First(Gun)
       IN  IF CanReserve(lane)
           THEN /\ lane' = Reserved(lane, g, dose, Len(orders) + 1)
                /\ orders' = Append(orders, [gun |-> Head(queue).for, named |-> named,
                                             dose |-> dose, cancelled |-> FALSE])
           ELSE UNCHANGED <<lane, orders>>
    /\ Rest

StopCommand ==
    /\ Dequeued("stop")
    /\ StopThen(CancelApplied(lane), "leave", Rest)
    /\ UNCHANGED orders

EStopCommand ==
    /\ Dequeued("estop")
    /\ LET active == IF lane.started \/ lane.tx # None THEN lane.wire ELSE None
           others == Gun \ {active}
           l == CancelApplied(lane)
       IN  IF StopDue(l)
           THEN /\ lane' = [l EXCEPT !.paced = TRUE]
                /\ Goto("stop", [NoJob EXCEPT !.gun = l.wire, !.todo = others, !.next = "each"])
           ELSE /\ lane' = l
                /\ IF others = {} THEN Rest
                   ELSE Goto("each", [NoJob EXCEPT !.gun = First(others),
                                                   !.todo = others \ {First(others)}])
    /\ UNCHANGED orders

(* reset_for_operator, when the side owns nothing. *)
ResetCommand ==
    /\ Dequeued("reset")
    /\ lane' = IF Unowned(lane) THEN Cleared([lane EXCEPT !.status = "Idle", !.nozzle = None])
               ELSE lane
    /\ Rest
    /\ UNCHANGED orders

----------------------------------------------------------------------------
(* The routes, from tasks of their own. *)

Enqueue(c) == Len(queue) < MaxQueue /\ queue' = Append(queue, c)
Plain(kind) == [kind |-> kind, gun |-> None, for |-> None]

Outside == UNCHANGED <<at, job, bill, fill, fills, claim, cleared>>

(* authorize: an idle lane takes an order for a gun, one whose nozzle is up an *)
(* order for that nozzle, which travels without its name.                      *)
RequestOrder(g) ==
    /\ CASE lane.status = "Idle" ->
                Spend("named") /\ Enqueue([kind |-> "order", gun |-> g, for |-> g])
         [] lane.status = "NozzleUp" ->
                /\ g = lane.nozzle
                /\ Spend("reactive") /\ Enqueue([kind |-> "order", gun |-> None, for |-> g])
         [] OTHER -> FALSE
    /\ Outside /\ UNCHANGED <<pump, lane, orders>>

(* request_shelf_cancel, under the lock; an order that has not been started is *)
(* cancelled as far as the operator knows.                                     *)
CanCancel == lane.pre # None \/ lane.tx # None \/ lane.started

Flagged ==
    /\ lane' = IF CanCancel THEN [lane EXCEPT !.cancel = TRUE] ELSE lane
    /\ orders' = IF Waiting(lane) THEN [orders EXCEPT ![lane.order].cancelled = TRUE] ELSE orders

(* cancel_preauth, stop and emergency_stop *)
RequestCancel ==
    /\ CanCancel
    /\ Spend("stops") /\ Enqueue(Plain("stop"))
    /\ Flagged
    /\ Outside /\ UNCHANGED pump

RequestStop ==
    /\ ~CanCancel
    /\ Spend("stops") /\ Enqueue(Plain("stop"))
    /\ Outside /\ UNCHANGED <<pump, lane, orders>>

RequestEStop ==
    /\ Spend("estops") /\ Enqueue(Plain("estop"))
    /\ Flagged
    /\ Outside /\ UNCHANGED pump

RequestReset ==
    /\ Spend("resets") /\ Enqueue(Plain("reset"))
    /\ Outside /\ UNCHANGED <<pump, lane, orders>>

----------------------------------------------------------------------------
(* The dispenser and its customers. *)

Happens(g, p) ==
    /\ pump' = [pump EXCEPT ![g] = p]
    /\ UNCHANGED <<lane, queue, at, job, bill, orders>>

CustomerLifts(g) ==
    /\ g \in left.touched /\ ~pump[g].lifted
    /\ Happens(g, GunLift(pump[g]))
    /\ UNCHANGED <<fill, fills, claim, cleared, left>>

CustomerHolsters(g) ==
    /\ pump[g].lifted
    /\ Happens(g, GunHolster(pump[g]))
    /\ UNCHANGED <<fill, fills, claim, cleared, left>>

FuelFlows(g) ==
    /\ pump[g].phase = "Dispensing" /\ ~pump[g].paused /\ pump[g].volume < MaxVolume
    /\ Happens(g, GunFlow(pump[g]))
    /\ UNCHANGED <<fill, fills, claim, cleared, left>>

(* Fuel creeps on after a stop, until the end of the fill has been told. *)
FuelCreeps(g) ==
    /\ pump[g].phase = "Synchronizing" /\ pump[g].volume < MaxVolume
    /\ Happens(g, [pump[g] EXCEPT !.volume = @ + 1])
    /\ UNCHANGED <<fill, fills, claim, cleared, left>>

Pause(g) ==
    /\ pump[g].phase = "Dispensing" /\ ~pump[g].paused
    /\ Spend("pauses")
    /\ Happens(g, [pump[g] EXCEPT !.paused = TRUE])
    /\ UNCHANGED <<fill, fills, claim, cleared>>

KeypadBegins(g) ==
    /\ left.keypad > 0
    /\ pump[g].phase = "Idle"
    /\ Happens(g, [pump[g] EXCEPT !.phase = "Keypad"])
    /\ UNCHANGED <<fill, fills, claim, cleared, left>>

KeypadFills(g) ==
    /\ pump[g].phase = "Keypad"
    /\ Spend("keypad")
    /\ Happens(g, GunDose(pump[g], None))
    /\ NewFill(g, Unclaimed)

(* The service dies and starts again; only the database and the guns remain.   *)
Crash ==
    /\ Spend("crashes")
    /\ lane' = FreshLane /\ queue' = <<>>
    /\ Rest
    /\ claim' = [f \in Fill |-> Unclaimed]
    /\ cleared' = {}
    /\ UNCHANGED <<pump, bill, fill, fills, orders>>

----------------------------------------------------------------------------
Init ==
    /\ pump = [g \in Gun |-> GunReset]
    /\ lane = FreshLane
    /\ queue = <<>>
    /\ at = "rest" /\ job = NoJob
    /\ bill = [f \in Fill |-> <<>>]
    /\ fill = [g \in Gun |-> 0] /\ fills = 0
    /\ claim = [f \in Fill |-> Unclaimed]
    /\ orders = <<>> /\ cleared = {}
    /\ left \in Budgets

Replies == IF at = "status" THEN Answers(pump, job.gun) ELSE {}

PollStep ==
    \/ Drained
    \/ \E expired \in BOOLEAN : BeginPoll(expired)
    \/ \E threshold \in BOOLEAN : StatusMissed(threshold)
    \/ \E r \in Replies :
           \/ StatusFinal(r) \/ StatusWrongLift(r) \/ StatusOther(r) \/ StatusForeign(r)
           \/ StatusDispensing(r) \/ StatusSynchronizing(r) \/ StatusKeypad(r) \/ StatusIdle(r)
           \/ \E expired \in BOOLEAN : StatusReserved(r, expired)
    \/ \E heard \in BOOLEAN : AmountInfo(heard)
    \/ CommitSale \/ CommitFails

StartStep ==
    \/ \E heard, ok \in BOOLEAN : PriceWritten(heard, ok)
    \/ DoseTaken \/ DoseRefused \/ DoseUnconfirmed

StopStep ==
    \/ \E heard, final \in BOOLEAN : StopWire(heard, final)
    \/ \E heard \in BOOLEAN : StopEach(heard)
    \/ Elapse

CommandStep ==
    \/ \E dose \in Dose : OrderCommand(dose)
    \/ StopCommand \/ EStopCommand \/ ResetCommand

RouteStep ==
    \/ \E g \in Gun : RequestOrder(g)
    \/ RequestCancel \/ RequestStop \/ RequestEStop \/ RequestReset

PumpStep ==
    \E g \in Gun :
        \/ CustomerLifts(g) \/ CustomerHolsters(g) \/ FuelFlows(g) \/ FuelCreeps(g)
        \/ Pause(g) \/ KeypadBegins(g) \/ KeypadFills(g)

WireFails ==
    \E arrived \in BOOLEAN : LoseExchange(arrived) \/ LoseDose(arrived)

Next ==
    PollStep \/ StartStep \/ StopStep \/ CommandStep \/ RouteStep \/ PumpStep \/ WireFails \/ Crash

Spec == Init /\ [][Next]_vars

(* The loop never sleeps for good, the wire answers again, and time passes.    *)
Loop == PollStep \/ StartStep \/ StopStep \/ CommandStep
FairSpec == Spec /\ WF_vars(Loop) /\ WF_vars(Elapse)

----------------------------------------------------------------------------
(* Properties. *)

(* The type of the state: a dose is on the wire only for the sale of its gun.  *)
TypeOK ==
    /\ pump \in [Gun -> GunState]
    /\ lane \in LaneState
    /\ left \in Budget
    /\ queue \in Seq(Command) /\ Len(queue) <= MaxQueue
    /\ at \in {"rest", "poll", "status", "price", "dose", "amount", "commit", "stop", "each"}
    /\ fill \in [Gun -> {0} \cup Fill] /\ fills \in 0 .. MaxFills
    /\ claim \in [Fill -> {Unclaimed, SeenOnly} \cup Fill]
    /\ \A f \in Fill : bill[f] \in Seq(Row)
    /\ orders \in Seq(Order) /\ cleared \subseteq Fill
    /\ at = "dose" => lane.started /\ lane.tx = job.gun
    /\ at = "commit" => lane.final # None

(* A fill the driver started or adopted stays its sale until it is billed:     *)
(* through lost answers, refused commits, cancellations and resets the side    *)
(* holds the sale or its final report, and starts nothing over it.             *)
Open(g) ==
    /\ fill[g] # 0 /\ claim[fill[g]] # Unclaimed /\ bill[fill[g]] = <<>>
    /\ pump[g].phase # "Idle" \/ pump[g].volume > 0

Remembered(f) == lane.final # None /\ lane.final.fill = f

SaleKept ==
    /\ \A f \in cleared : bill[f] # <<>> \/ Remembered(f)
    /\ \A g \in Gun : Open(g) => lane.tx = g \/ Remembered(fill[g])
    /\ Cardinality({g \in Gun : Open(g)}) <= 1

(* No fill is billed twice: not from a repeated final report, and not from the *)
(* last sale a dispenser retains.                                              *)
BilledOnce == \A f \in Fill : Len(bill[f]) <= 1

(* What is billed is all that flowed, at the gun it flowed from.               *)
BilledFinal ==
    \A g \in Gun :
        fill[g] # 0 =>
            \A i \in DOMAIN bill[fill[g]] :
                /\ bill[fill[g]][i] = [volume |-> pump[g].volume, gun |-> g]
                /\ ~Filling(pump[g])

(* The operator is told at once that a waiting order is cancelled. A lift that *)
(* comes before the command is applied starts no fuel for it.                  *)
CancelWins ==
    \A f \in Fill : claim[f] \in Fill => ~orders[claim[f]].cancelled

(* An order for a gun is served there and nowhere else, once, however often    *)
(* its request is repeated.                                                    *)
ServedOnce ==
    /\ \A f, e \in Fill : claim[f] \in Fill /\ claim[f] = claim[e] => f = e
    /\ \A g \in Gun :
           fill[g] # 0 /\ claim[fill[g]] \in Fill /\ orders[claim[fill[g]]].named =>
               orders[claim[fill[g]]].gun = g /\ pump[g].dose = orders[claim[fill[g]]].dose

(* A sale that is cancelled ends with its bill, at a dispenser that retains    *)
(* its last sale: whatever was lost on the wire, and though the customer goes  *)
(* on pumping, the stop is repeated until the gun reports its final meter.     *)
CancelEnds == (left.retains /\ lane.cancel /\ lane.tx # None) ~> lane.tx = None
=============================================================================
