----------------------------- MODULE BlueSkyLane -----------------------------
(***************************************************************************)
(* One fueling position polled by the TexnoUz BlueSky driver:              *)
(* engine/protocols/texnouz_bluesky.rs and bluesky_state.rs.  The loop is  *)
(* one task that asks every hose for its status, decides, or applies one   *)
(* command; between its wire exchanges the hoses move on, requests and     *)
(* replies are lost, and the service dies.  An order is a reservation in   *)
(* memory until its hose is lifted; a sale ends on two equal final         *)
(* readings, because the pump has no status for a finished fill.           *)
(***************************************************************************)
EXTENDS BlueSkyPump, FiniteSets, Sequences

CONSTANTS
    Hose,         \* active hoses, in configuration order
    Target,       \* doses an order may ask for
    MaxFills,     \* bound: orders and fills the driver did not start, together
    Budgets       \* bounds: how often each of the events below may happen

ASSUME HoseAssumption == Hose \subseteq Nat /\ IsFiniteSet(Hose) /\ Hose # {}
ASSUME TargetAssumption == Target \subseteq Dose
ASSUME MaxFillsAssumption == MaxFills \in Nat

(* orders taken; fills of the keypad; Stop, CancelPreauth and EStop commands;  *)
(* crashes of the service; sales the database refuses; hoses customers touch.  *)
Budget ==
    [orders : Nat, keypad : Nat, stops : Nat, crashes : Nat, faults : Nat, touched : SUBSET Hose]

ASSUME BudgetsAssumption ==
    Budgets \subseteq Budget /\ \A b \in Budgets : b.orders + b.keypad <= MaxFills

VARIABLES
    pump,      \* [Hose -> PumpState]
    lane,      \* RuntimeFp and BlueSkyRuntimeState, lost in a crash
    at,        \* the loop's next step
    job,       \* locals of the poll or command in progress
    bill,      \* [fill -> volumes of its rows in table transactions]
    fill,      \* history: which fill the register of a hose belongs to, 0 for none
    fills,     \* history: fills so far
    claim,     \* history: [fill -> how the present process came to own it]
    lost,      \* history: owned fills cleared from a register before they were billed
    used,      \* history: hoses not holstered since their sale was billed
    outlived,  \* history: of them, those billed before the last restart
    left       \* what is left of the budget

ghosts == <<fill, fills, claim, lost>>
vars == <<pump, lane, at, job, bill, ghosts, used, outlived, left>>

Status ==
    {"Offline", "Idle", "NozzleUp", "PreAuthorized", "Authorizing", "Delivering",
     "Finalizing", "Done"}
Fill == 1 .. MaxFills
Reading == 0 .. (MaxVolume + 1)

LaneState ==
    [status : Status, nozzle : Hose \cup {None}, reserved : Hose \cup {None},
     tx : Hose \cup {None}, target : Dose, volume : Reading,
     stopReq : BOOLEAN, stopAck : BOOLEAN, paced : BOOLEAN, flowSeen : BOOLEAN,
     completed : Hose \cup {None}, candidate : Reading \cup {None}]

(* BlueSkyRuntimeState::default *)
Cleared(l) ==
    [l EXCEPT !.stopReq = FALSE, !.stopAck = FALSE, !.paced = FALSE, !.flowSeen = FALSE,
              !.completed = None, !.candidate = None]

FreshLane ==
    [status |-> "Offline", nozzle |-> None, reserved |-> None, tx |-> None,
     target |-> None, volume |-> 0, stopReq |-> FALSE, stopAck |-> FALSE,
     paced |-> FALSE, flowSeen |-> FALSE, completed |-> None, candidate |-> None]

NoSeen == [h \in Hose |-> None]
NoJob ==
    [hose |-> None, target |-> None, seen |-> NoSeen, todo |-> {}, volume |-> 0,
     settled |-> FALSE, all |-> FALSE]

First(S) == CHOOSE h \in S : \A g \in S : h <= g

----------------------------------------------------------------------------
(* The lane's own tests and updates. *)

(* can_authorize *)
CanAuthorize(l) ==
    /\ l.status \in {"Idle", "NozzleUp"}
    /\ l.tx = None /\ l.reserved = None /\ l.completed = None

(* cancel_reservation and RuntimeFp::cancel_pre_auth *)
Cancelled(l) ==
    Cleared([l EXCEPT !.status = "Idle", !.nozzle = None, !.reserved = None, !.volume = 0])

(* idle_lane *)
Idle(l) ==
    [l EXCEPT !.status = "Idle", !.nozzle = None, !.volume = 0,
              !.tx = None, !.reserved = None]

(* do_authorize: the reservation. *)
Reserved(l, h, target) ==
    [Cleared(l) EXCEPT !.status = "PreAuthorized", !.nozzle = h, !.reserved = h,
                       !.target = target, !.volume = 0]

(* begin_delivery *)
Begun(l, h) ==
    [l EXCEPT !.status = "Authorizing", !.nozzle = h, !.reserved = None, !.tx = h]

(* update_live; heard is whether D9 was answered, v its reading. *)
Live(l, h, heard, v) ==
    LET seen == [l EXCEPT !.status = "Delivering", !.nozzle = h, !.candidate = None,
                          !.paced = IF l.status = "Delivering" THEN @ ELSE FALSE,
                          !.flowSeen = @ \/ heard,
                          !.volume = IF heard THEN v ELSE @]
    IN  IF l.tx = None
        THEN [seen EXCEPT !.tx = h, !.reserved = None, !.stopReq = TRUE]
        ELSE seen

(* request_stop, when there is a sale to stop. *)
StopIntent(l) ==
    [l EXCEPT !.candidate = IF l.stopReq THEN @ ELSE None, !.stopReq = TRUE]

(* Faulty: the lane is free as soon as the sale is saved. *)
CompletedFree(l) ==
    [l EXCEPT !.status = "Idle", !.volume = 0, !.tx = None, !.candidate = None]

(* close_transaction: the sale is durable. *)
Completed(l) ==
    [l EXCEPT !.status = "Done", !.volume = l.candidate, !.tx = None, !.reserved = None,
              !.completed = l.tx, !.candidate = None]

(* preset_reached, once flow was observed. *)
TargetReached(l, v) == l.flowSeen /\ l.target # None /\ v >= l.target

(* Faulty: a sale without flow has ended. *)
TerminalQuiet(l, st, v) == ~st.busy

(* close_transaction: a status that may end the sale. *)
Terminal(l, st, v) ==
    ~st.busy /\ (~st.lifted \/ l.stopAck \/ TargetReached(l, v))

Regressed(l, v) == l.flowSeen /\ v < l.volume

(* poll_position: what the polled statuses say. *)
Answered(seen) == {h \in Hose : seen[h] # None}
Owner(l) ==
    CASE l.tx # None        -> l.tx
      [] l.reserved # None  -> l.reserved
      [] l.completed # None -> l.completed
      [] OTHER              -> l.nozzle
Owns(l) == l.tx # None \/ l.completed # None
Missed(l, seen) ==
    Answered(seen) = {} \/ (Owns(l) /\ Owner(l) \notin Answered(seen))
WrongLifts(l, seen) ==
    {h \in Answered(seen) : l.reserved # None /\ l.tx = None /\ h # l.reserved /\ seen[h].lifted}

(* The lane after a wrong lift cancelled its reservation, and the hose it shows. *)
Observed(l, seen) == IF WrongLifts(l, seen) = {} THEN l ELSE Cancelled(l)
Shown(l, seen) ==
    IF WrongLifts(l, seen) = {} THEN Owner(l) ELSE First(WrongLifts(l, seen))

ActiveHose(l, seen) ==
    LET here   == Answered(seen)
        busy   == {h \in here : seen[h].busy}
        lifted == {h \in here : seen[h].lifted}
    IN  CASE Owns(l)               -> Owner(l)
          [] ~Owns(l) /\ busy # {} -> First(busy)
          [] ~Owns(l) /\ busy = {} -> IF Shown(l, seen) \in here THEN Shown(l, seen)
                                     ELSE First(IF lifted # {} THEN lifted ELSE here)

Armed(l) == l.reserved # None /\ l.status = "PreAuthorized"

----------------------------------------------------------------------------
(* The registers. *)

Unbilled(h) ==
    /\ fill[h] # 0 /\ claim[fill[h]] \in {"ordered", "seen"}
    /\ pump[h].volume > 0 /\ bill[fill[h]] = <<>>

(* The register of h is cleared for a new fill. *)
NewFill(h) ==
    /\ fills' = fills + 1
    /\ fill' = [fill EXCEPT ![h] = fills + 1]
    /\ lost' = IF Unbilled(h) THEN lost \cup {fill[h]} ELSE lost

Own(h, how) == claim' = [claim EXCEPT ![fill[h]] = IF @ = "none" THEN how ELSE @]

Spend(what) == left[what] > 0 /\ left' = [left EXCEPT ![what] = @ - 1]

Goto(step, j) == at' = step /\ job' = j
Rest == Goto("rest", NoJob)

Memory == UNCHANGED <<pump, bill, ghosts, used, outlived, left>>
Wire(h, p) == pump' = [pump EXCEPT ![h] = p] /\ UNCHANGED <<bill, ghosts, used, outlived, left>>

----------------------------------------------------------------------------
(* A poll of the position. *)

(* The reservation expires first, then every hose is asked for its status. *)
BeginPoll(expired) ==
    /\ at = "rest"
    /\ expired => lane.reserved # None /\ lane.tx = None
    /\ lane' = IF expired THEN Cancelled(lane) ELSE lane
    /\ Goto("ask", [NoJob EXCEPT !.todo = Hose])
    /\ Memory

(* The statuses polled so far, with the reply of the hose asked now. *)
Heard(heard) ==
    LET h == First(job.todo)
    IN  [job.seen EXCEPT ![h] = IF heard THEN PumpStatus(pump[h]) ELSE None]

(* Another hose of the position is still to be asked. *)
Ask(heard) ==
    /\ at = "ask"
    /\ Cardinality(job.todo) > 1
    /\ Goto("ask", [job EXCEPT !.todo = @ \ {First(job.todo)}, !.seen = Heard(heard)])
    /\ UNCHANGED lane
    /\ Memory

(* The last hose has answered or not, and poll_position decides: no reply, or  *)
(* none of the hose that is owned (RuntimeFp::on_poll_missed);                 *)
Deciding == at = "ask" /\ Cardinality(job.todo) = 1

PollMissed(heard, threshold) ==
    /\ Deciding
    /\ Missed(lane, Heard(heard))
    /\ threshold => lane.status = "Idle" /\ lane.tx = None
    /\ lane' = [lane EXCEPT !.candidate = None,
                            !.status = IF threshold THEN "Offline" ELSE @]
    /\ Rest
    /\ Memory

(* or, after the check for a wrong lift, by the status of the active hose:     *)
Polled(heard) ==
    [hose |-> ActiveHose(lane, Heard(heard)), lane |-> Observed(lane, Heard(heard)),
     status |-> Heard(heard)[ActiveHose(lane, Heard(heard))]]

(* a completed sale holds the lane until its hose is holstered;                *)
Settle(l, st) == IF ~st.lifted /\ ~st.busy THEN Idle(Cleared(l)) ELSE l

PollCompleted(heard) ==
    /\ Deciding /\ ~Missed(lane, Heard(heard))
    /\ LET p == Polled(heard)
       IN  /\ p.lane.completed # None
           /\ lane' = Settle(p.lane, p.status)
    /\ Rest
    /\ Memory

(* flow is read;                                                               *)
PollFlow(heard) ==
    /\ Deciding /\ ~Missed(lane, Heard(heard))
    /\ LET p == Polled(heard)
       IN  /\ p.lane.completed = None /\ p.status.busy
           /\ lane' = p.lane
           /\ Goto("live", [NoJob EXCEPT !.hose = p.hose])
    /\ Memory

(* a sale without flow may have ended;                                         *)
PollSale(heard) ==
    /\ Deciding /\ ~Missed(lane, Heard(heard))
    /\ LET p == Polled(heard)
           end == ~p.status.lifted \/ p.lane.stopAck
       IN  /\ p.lane.completed = None /\ ~p.status.busy /\ p.lane.tx # None
           /\ lane' = [p.lane EXCEPT !.status = IF end THEN "Finalizing" ELSE @]
           /\ Goto("final", [NoJob EXCEPT !.hose = p.hose, !.seen[p.hose] = p.status])
    /\ Memory

(* a reservation waits for its lift;                                           *)
PollReserved(heard) ==
    /\ Deciding /\ ~Missed(lane, Heard(heard))
    /\ LET p == Polled(heard)
       IN  /\ p.lane.completed = None /\ ~p.status.busy /\ p.lane.tx = None /\ Armed(p.lane)
           /\ lane' = p.lane
           /\ IF p.hose = p.lane.reserved /\ p.status.lifted THEN Goto("prepare", NoJob) ELSE Rest
    /\ Memory

(* else the lane is idle or its nozzle is up, and a keypad dose is cleared.    *)
PollIdle(heard) ==
    /\ Deciding /\ ~Missed(lane, Heard(heard))
    /\ LET p == Polled(heard)
       IN  /\ p.lane.completed = None /\ ~p.status.busy /\ p.lane.tx = None /\ ~Armed(p.lane)
           /\ lane' = IF p.status.lifted
                      THEN [p.lane EXCEPT !.status = "NozzleUp", !.nozzle = p.hose]
                      ELSE Idle(p.lane)
           /\ IF p.status.keyed THEN Goto("clear", [NoJob EXCEPT !.hose = p.hose]) ELSE Rest
    /\ Memory

ClearKeypad(sent) ==
    /\ at = "clear"
    /\ Wire(job.hose, IF sent THEN PumpClearKeypad(pump[job.hose]) ELSE pump[job.hose])
    /\ Rest
    /\ UNCHANGED lane

(* update_live *)
ReadLive(heard) ==
    /\ at = "live"
    /\ LET h == job.hose
           l == Live(lane, h, heard, pump[h].volume)
       IN  /\ lane' = l
           /\ IF l.stopReq THEN Goto("stop", [NoJob EXCEPT !.hose = h]) ELSE Rest
           /\ IF lane.tx = None
              THEN Own(h, IF lane.target = None THEN "seen" ELSE "misjudged")
              ELSE UNCHANGED claim
    /\ UNCHANGED <<pump, bill, fill, fills, lost, used, outlived, left>>

----------------------------------------------------------------------------
(* The end of a sale: close_transaction. *)

(* D9. settled: the reading stands for FINISH_SETTLE_MS since it was first a   *)
(* candidate, in which time a closing valve shuts.                             *)
ReadFinal(heard, settled) ==
    /\ at = "final"
    /\ settled => heard /\ lane.candidate # None /\ pump[job.hose].phase # "ending"
    /\ IF heard
       THEN /\ Goto("after", [job EXCEPT !.volume = pump[job.hose].volume, !.settled = settled])
            /\ UNCHANGED lane
       ELSE /\ lane' = [lane EXCEPT !.candidate = None]
            /\ Rest
    /\ Memory

(* The status is asked again, and the reading confirmed. *)
StatusAfter(heard) ==
    /\ at = "after"
    /\ LET h   == job.hose
           v   == job.volume
           end == /\ Terminal(lane, job.seen[h], v)
                  /\ heard /\ Terminal(lane, PumpStatus(pump[h]), v)
                  /\ ~Regressed(lane, v)
       IN  /\ lane' = IF end
                      THEN [lane EXCEPT !.status = "Finalizing", !.candidate = v]
                      ELSE [lane EXCEPT !.candidate = None]
           /\ IF end /\ lane.candidate = v /\ job.settled
              THEN Goto("commit", [NoJob EXCEPT !.hose = h])
              ELSE Rest
    /\ Memory

(* commit_sale; when it fails the sale stays and its close is tried again. *)
CommitSale ==
    /\ at = "commit"
    /\ bill' = [bill EXCEPT ![fill[job.hose]] = Append(@, lane.candidate)]
    /\ lane' = Completed(lane)
    /\ IF pump[job.hose].lifted
       THEN used' = used \cup {job.hose} /\ outlived' = outlived \ {job.hose}
       ELSE UNCHANGED <<used, outlived>>
    /\ Rest
    /\ UNCHANGED <<pump, ghosts, left>>

CommitFails ==
    /\ at = "commit"
    /\ Spend("faults")
    /\ Rest
    /\ UNCHANGED <<pump, lane, bill, ghosts, used, outlived>>

----------------------------------------------------------------------------
(* Orders. *)

(* do_authorize: Authorize and Preauthorize, once they reach the loop. *)
OrderCommand(h, target) ==
    /\ at = "rest"
    /\ CanAuthorize(lane)
    /\ Spend("orders")
    /\ Goto("check", [NoJob EXCEPT !.hose = h, !.target = target])
    /\ UNCHANGED <<pump, lane, bill, ghosts, used, outlived>>

(* The hose must not be busy; a silent one counts on the rest of its side. *)
CheckHose(heard) ==
    /\ at = "check"
    /\ LET h  == job.hose
           st == PumpStatus(pump[h])
       IN  CASE heard /\ st.busy ->
                    UNCHANGED lane /\ Rest
             [] heard /\ ~st.busy ->
                    /\ lane' = Reserved(lane, h, job.target)
                    /\ IF st.lifted THEN Goto("prepare", NoJob) ELSE Rest
             [] ~heard ->
                    /\ UNCHANGED lane
                    /\ IF Hose = {h} THEN Rest ELSE Goto("side", [job EXCEPT !.todo = Hose \ {h}])
    /\ Memory

AskSide(heard) ==
    /\ at = "side"
    /\ LET g    == First(job.todo)
           seen == [job.seen EXCEPT ![g] = IF heard THEN PumpStatus(pump[g]) ELSE None]
           free == /\ Answered(seen) # {}
                   /\ \A o \in Answered(seen) : ~seen[o].busy /\ ~seen[o].keyed /\ ~seen[o].lifted
       IN  IF job.todo # {g}
           THEN Goto("side", [job EXCEPT !.todo = @ \ {g}, !.seen = seen]) /\ UNCHANGED lane
           ELSE /\ lane' = IF free THEN Reserved(lane, job.hose, job.target) ELSE lane
                /\ Rest
    /\ Memory

CancelOrder == lane' = Cancelled(lane) /\ Rest

(* start_reservation: expiry is looked at once more; the hose is selected and  *)
(* told to obey, an answer to which is not waited for.                         *)
Prepare(expired, selected, sent) ==
    /\ at = "prepare"
    /\ LET h == lane.reserved
       IN  IF expired \/ ~selected
           THEN CancelOrder /\ Memory
           ELSE /\ UNCHANGED lane
                /\ Goto("dose", [NoJob EXCEPT !.hose = h])
                /\ Wire(h, [pump[h] EXCEPT !.remote = @ \/ sent])

(* Faulty: setup goes on although the dose was not acknowledged. *)
SetDoseAnyway(priced, sent, acked) ==
    LET h     == job.hose
        taken == priced /\ sent /\ TakesDose(pump[h])
    IN  /\ at = "dose"
        /\ acked => taken
        /\ IF taken
           THEN pump' = [pump EXCEPT ![h] = PumpDose(@, lane.target)] /\ NewFill(h)
           ELSE UNCHANGED <<pump, fill, fills, lost>>
        /\ Goto("recheck", job) /\ UNCHANGED lane
        /\ UNCHANGED <<bill, claim, used, outlived, left>>

(* The price, which may be refused, and then the dose. *)
SetDose(priced, sent, acked) ==
    LET h     == job.hose
        taken == priced /\ sent /\ TakesDose(pump[h])
    IN  /\ at = "dose"
        /\ acked => taken
        /\ IF taken
           THEN pump' = [pump EXCEPT ![h] = PumpDose(@, lane.target)] /\ NewFill(h)
           ELSE UNCHANGED <<pump, fill, fills, lost>>
        /\ IF acked
           THEN Goto("recheck", job) /\ UNCHANGED lane
           ELSE CancelOrder
        /\ UNCHANGED <<bill, claim, used, outlived, left>>

(* The hose must still be lifted and idle; begin_delivery takes ownership.     *)
Recheck(heard) ==
    /\ at = "recheck"
    /\ LET h  == job.hose
           st == PumpStatus(pump[h])
       IN  CASE heard /\ st.busy ->
                    UNCHANGED <<lane, claim>> /\ Goto("live", job)
             [] heard /\ ~st.busy /\ st.lifted ->
                    /\ lane' = Begun(lane, h)
                    /\ Own(h, "ordered")
                    /\ Goto("start", job)
             [] OTHER -> CancelOrder /\ UNCHANGED claim
    /\ UNCHANGED <<pump, bill, fill, fills, lost, used, outlived, left>>

(* Faulty: a Start that is not acknowledged is taken for a refused one. *)
StartWireDropped(sent) ==
    /\ at = "start"
    /\ Wire(job.hose, IF sent THEN PumpStart(pump[job.hose]) ELSE pump[job.hose])
    /\ Rest
    /\ lane' \in {lane, Cancelled([lane EXCEPT !.tx = None])}

(* C3; its answer changes nothing. *)
StartWire(sent) ==
    /\ at = "start"
    /\ Wire(job.hose, IF sent THEN PumpStart(pump[job.hose]) ELSE pump[job.hose])
    /\ Rest
    /\ UNCHANGED lane

----------------------------------------------------------------------------
(* Stops. *)

(* Stop, CancelPreauth, EStop: an order that was not started is cancelled here, *)
(* a sale is stopped; EStop then stops every hose.                              *)
StopCommand(all) ==
    /\ at = "rest"
    /\ all \/ lane.reserved # None \/ lane.tx # None
    /\ Spend("stops")
    /\ CASE lane.tx # None ->
               /\ lane' = StopIntent(lane)
               /\ Goto("stop", [NoJob EXCEPT !.hose = lane.tx, !.all = all])
         [] lane.tx = None ->
               /\ lane' = IF lane.reserved # None THEN Cancelled(lane) ELSE lane
               /\ IF all THEN Goto("each", [NoJob EXCEPT !.todo = Hose]) ELSE Rest
    /\ UNCHANGED <<pump, bill, ghosts, used, outlived>>

(* CA on the wire. Before fuel flows the pump may refuse it. *)
Stopped(h, sent, refused) == IF sent /\ ~refused THEN PumpStop(pump[h]) ELSE pump[h]

(* stop_active_sale: attempts are a second apart. *)
StopWire(due, sent, refused, acked) ==
    /\ at = "stop"
    /\ ~lane.paced => due
    /\ sent => due
    /\ refused => pump[job.hose].phase = "ready"
    /\ acked => sent /\ ~refused
    /\ lane' = IF due THEN [lane EXCEPT !.paced = TRUE, !.stopAck = @ \/ acked] ELSE lane
    /\ IF job.all THEN Goto("each", [NoJob EXCEPT !.todo = Hose]) ELSE Rest
    /\ Wire(job.hose, Stopped(job.hose, sent, refused))

StopEach(sent, refused) ==
    /\ at = "each"
    /\ LET h == First(job.todo)
       IN  /\ refused => pump[h].phase = "ready"
           /\ Wire(h, Stopped(h, sent, refused))
           /\ IF job.todo = {h} THEN Rest ELSE Goto("each", [job EXCEPT !.todo = @ \ {h}])
    /\ UNCHANGED lane

----------------------------------------------------------------------------
(* The surroundings. *)

Outside(h, p) ==
    /\ pump' = [pump EXCEPT ![h] = p]
    /\ UNCHANGED <<lane, at, job, bill, left>>

CustomerLifts(h) ==
    /\ h \in left.touched
    /\ ~pump[h].lifted
    /\ Outside(h, [pump[h] EXCEPT !.lifted = TRUE])
    /\ UNCHANGED <<ghosts, used, outlived>>

CustomerHolsters(h) ==
    /\ pump[h].lifted
    /\ Outside(h, PumpHolster(pump[h]))
    /\ used' = used \ {h} /\ outlived' = outlived \ {h}
    /\ UNCHANGED ghosts

(* Fuel begins to flow, is interrupted, or flows again. *)
FlowBegins(h) ==
    /\ pump[h].phase \in {"ready", "held"}
    /\ Outside(h, [pump[h] EXCEPT !.phase = "on"])
    /\ UNCHANGED <<ghosts, used, outlived>>

FlowHeld(h) ==
    /\ pump[h].phase = "on"
    /\ Outside(h, [pump[h] EXCEPT !.phase = "held"])
    /\ UNCHANGED <<ghosts, used, outlived>>

FuelFlows(h) ==
    /\ pump[h].phase = "on" /\ pump[h].volume < MaxVolume
    /\ Outside(h, PumpFlow(pump[h]))
    /\ UNCHANGED <<ghosts, used, outlived>>

ValveShuts(h, creep) ==
    /\ pump[h].phase = "ending"
    /\ Outside(h, PumpShut(pump[h], creep))
    /\ UNCHANGED <<ghosts, used, outlived>>

(* A hose not under remote control may be used from its keypad. *)
KeypadDose(h) ==
    /\ left.keypad > 0
    /\ ~pump[h].remote /\ pump[h].phase = "off"
    /\ Outside(h, [pump[h] EXCEPT !.phase = "keyed"])
    /\ UNCHANGED <<ghosts, used, outlived>>

KeypadFill(h) ==
    /\ ~pump[h].remote /\ pump[h].phase = "keyed" /\ pump[h].lifted
    /\ Spend("keypad")
    /\ pump' = [pump EXCEPT ![h] = PumpOwnFill(@)]
    /\ NewFill(h)
    /\ UNCHANGED <<lane, at, job, bill, claim, used, outlived>>

(* The service dies and starts again; only the database and the pumps remain:  *)
(* which hose was billed and is still lifted, completed_nozzle, is forgotten.   *)
Crash ==
    /\ Spend("crashes")
    /\ lane' = FreshLane
    /\ Rest
    /\ claim' = [f \in Fill |-> IF claim[f] = "misjudged" THEN "misjudged" ELSE "none"]
    /\ outlived' = used
    /\ UNCHANGED <<pump, bill, fill, fills, lost, used>>

----------------------------------------------------------------------------
Init ==
    /\ pump = [h \in Hose |-> PumpReset]
    /\ lane = FreshLane
    /\ at = "rest" /\ job = NoJob
    /\ bill = [f \in Fill |-> <<>>]
    /\ fill = [h \in Hose |-> 0] /\ fills = 0
    /\ claim = [f \in Fill |-> "none"] /\ lost = {} /\ used = {} /\ outlived = {}
    /\ left \in Budgets

PollStep ==
    \/ \E expired \in BOOLEAN : BeginPoll(expired)
    \/ \E heard, threshold \in BOOLEAN : PollMissed(heard, threshold)
    \/ \E heard \in BOOLEAN :
           \/ Ask(heard) \/ PollCompleted(heard) \/ PollFlow(heard)
           \/ PollSale(heard) \/ PollReserved(heard) \/ PollIdle(heard)
    \/ \E sent \in BOOLEAN : ClearKeypad(sent)

SaleStep ==
    \/ \E heard \in BOOLEAN : ReadLive(heard) \/ StatusAfter(heard)
    \/ \E heard, settled \in BOOLEAN : ReadFinal(heard, settled)
    \/ CommitSale \/ CommitFails

OrderStep ==
    \/ \E h \in Hose, target \in Target : OrderCommand(h, target)
    \/ \E heard \in BOOLEAN : CheckHose(heard) \/ AskSide(heard) \/ Recheck(heard)
    \/ \E expired, selected, sent \in BOOLEAN : Prepare(expired, selected, sent)
    \/ \E priced, sent, acked \in BOOLEAN : SetDose(priced, sent, acked)
    \/ \E sent \in BOOLEAN : StartWire(sent)

StopStep ==
    \/ \E all \in BOOLEAN : StopCommand(all)
    \/ \E due, sent, refused, acked \in BOOLEAN : StopWire(due, sent, refused, acked)
    \/ \E sent, refused \in BOOLEAN : StopEach(sent, refused)

PumpStep ==
    \E h \in Hose :
        \/ CustomerLifts(h) \/ CustomerHolsters(h)
        \/ FlowBegins(h) \/ FlowHeld(h) \/ FuelFlows(h)
        \/ \E creep \in 0 .. 1 : ValveShuts(h, creep)
        \/ KeypadDose(h) \/ KeypadFill(h)

Next == PollStep \/ SaleStep \/ OrderStep \/ StopStep \/ PumpStep \/ Crash

Spec == Init /\ [][Next]_vars

----------------------------------------------------------------------------
(* Properties. *)

Step == {"rest", "ask", "clear", "live", "final", "after", "commit", "check",
         "side", "prepare", "dose", "recheck", "start", "stop", "each"}

(* The type of the state: a lane has a reservation or a sale, never both, and *)
(* a commit is under way only for the sale and the reading it confirmed.      *)
TypeOK ==
    /\ pump \in [Hose -> PumpState]
    /\ lane \in LaneState
    /\ left \in Budget
    /\ at \in Step
    /\ \A f \in Fill : bill[f] \in Seq(Reading)
    /\ fill \in [Hose -> {0} \cup Fill] /\ fills \in 0 .. MaxFills
    /\ claim \in [Fill -> {"none", "ordered", "seen", "misjudged"}]
    /\ lost \subseteq Fill /\ used \subseteq Hose /\ outlived \subseteq used
    /\ lane.reserved = None \/ lane.tx = None
    /\ at = "commit" => lane.tx = job.hose /\ lane.candidate # None

(* A fill this process started, or saw flowing, stays its sale until it is     *)
(* billed: nobody's reply, reset or new order makes the lane forget it, and    *)
(* its register is not cleared before.                                         *)
OwnedUntilBilled ==
    /\ lost = {}
    /\ \A h \in Hose :
           fill[h] # 0 /\ claim[fill[h]] \in {"ordered", "seen"} =>
               lane.tx = h \/ bill[fill[h]] # <<>>

(* A sale is billed once and with all its fuel: no drop passes the meter after *)
(* the reading that was billed (texnouz_bluesky.rs, close_transaction).        *)
BilledFinal ==
    /\ \A f \in Fill : claim[f] # "misjudged" => Len(bill[f]) <= 1
    /\ \A h \in Hose :
           fill[h] # 0 /\ claim[fill[h]] # "misjudged" /\ bill[fill[h]] # <<>> =>
               bill[fill[h]] = <<pump[h].volume>>

(* The same of every fill, those included that the driver found flowing while  *)
(* it remembered the dose of an earlier order.                                 *)
EveryBillFinal ==
    \A h \in Hose :
        fill[h] # 0 /\ bill[fill[h]] # <<>> => bill[fill[h]] = <<pump[h].volume>>

(* Billed hoses that the present process still knows to be lifted. *)
Held == used \ outlived

(* A sale on a hose ends the customer's turn: until the hose is holstered the  *)
(* lane takes no order and starts no sale, unless the service was restarted    *)
(* meanwhile.  completed_nozzle is kept in memory only, so a restart forgets    *)
(* that the hose was billed, and the lane sells again on the same lift.        *)
OneSalePerLift == Held # {} => lane.reserved = None /\ lane.tx = None

(* Fuel that the driver ordered runs to the dose of the order on the lane, and *)
(* on no other hose than the one of the sale.                                  *)
DoseOfOrder ==
    \A h \in Hose :
        fill[h] # 0 /\ claim[fill[h]] = "ordered" /\ (pump[h].phase = "ready" \/ Filling(pump[h]))
            => lane.tx = h /\ pump[h].dose = lane.target
=============================================================================
