------------------------------- MODULE AztLane -------------------------------
(***************************************************************************)
(* One pump card driven by the AZT 2.0 poll loop of the dispenser service: *)
(* engine/protocols/azt.rs, its recovery journal azt_journal.rs, and the   *)
(* atomic sale commit of shifts.rs.  The loop is one task: it polls the    *)
(* card or applies one command, one wire exchange or database write at a   *)
(* time, while the customer and the pump move on between the steps, the    *)
(* wire drops requests and replies, writes fail, and the service crashes.  *)
(***************************************************************************)
EXTENDS AztPump

CONSTANTS
    Hose,        \* RS-485 addresses of the card's hoses, in configuration order
    None,        \* no nozzle, no journal row, no sale identity
    MaxOrders,   \* bound: orders that reach the price command
    MaxForeign,  \* bound: keypad doses, and arms by another controller
    MaxShifts,   \* bound: shifts opened
    MaxCrashes,  \* bound: crashes of the service
    MaxClears,   \* bound: times a pump is cleared at its own panel
    MaxFaults    \* bound: failed or late writes to the database

(* The card has a first hose. *)
ASSUME HoseAssumption ==
    Hose \subseteq Nat /\ \E first \in Hose : \A h \in Hose : first <= h
ASSUME NoneAssumption == None \notin Nat
ASSUME BoundAssumption ==
    {MaxOrders, MaxForeign, MaxShifts, MaxCrashes, MaxClears, MaxFaults} \subseteq Nat

VARIABLES
    pump,      \* [Hose -> PumpState]
    lane,      \* the card's RuntimeFp and AztRuntimeState, lost in a crash
    loaded,    \* azt.journal_loaded
    cached,    \* azt.journal_json: the row as this process last saw it
    journal,   \* the row of table azt_recovery, or None
    recorded,  \* rows of table transactions
    credit,    \* [shift -> total_volume] of table shifts
    shift,     \* the active shift, 0 when there is none
    at,        \* the loop's next step
    job,       \* locals of the step in progress
    arm,       \* history: which arm's sale the registers of a hose belong to
    arms,      \* history: times any pump accepted an authorization
    orders,    \* history: [arm, shift] of every arm this service sent
    cleared,   \* history: [arm, volume] of sales whose registers this service gave up
    asked, foreign, crashes, clears, faults   \* counters for the bounds

pumpVars == <<pump, arm, arms, orders, cleared>>
diskVars == <<journal, recorded, credit>>
memVars  == <<lane, loaded, cached>>
counters == <<asked, foreign, crashes, clears, faults>>
vars == <<pumpVars, diskVars, memVars, shift, at, job, counters>>

Status == {"Offline", "Idle", "NozzleUp", "Armed", "Delivering", "Finalizing", "Done"}
Shift == 0 .. MaxShifts
Arm == 1 .. (MaxOrders + MaxForeign)
SaleId == Hose \X Nat \X (0 .. MaxVolume)

(* order is None without a current_tx, else the shift the sale is billed to.   *)
(* before is before_sale_id while authorize_uncertain holds, None otherwise.   *)
LaneState ==
    [status : Status, nozzle : Hose \cup {None}, order : Shift \cup {None},
     stopReq : BOOLEAN, cancelReq : BOOLEAN, stops : SUBSET Hose,
     pending : BOOLEAN, before : SaleId \cup {None}]

(* None is neither an identity nor a lane. *)
ASSUME NoneIsApart == None \notin SaleId /\ None \notin LaneState

FreshLane ==
    [status |-> "Offline", nozzle |-> None, order |-> None,
     stopReq |-> FALSE, cancelReq |-> FALSE, stops |-> {},
     pending |-> FALSE, before |-> None]

Owned(l) == l.order # None

NoJob == [net |-> None, settle |-> FALSE, volume |-> 0, id |-> None, arm |-> 0, todo |-> {}]

----------------------------------------------------------------------------
(* The lane's own tests and updates. *)

FirstHose == CHOOSE h \in Hose : \A g \in Hose : h <= g

(* azt_active_net: the selected hose, the first one when none is selected. *)
NetOf(nozzle) == IF nozzle = None THEN FirstHose ELSE nozzle

Active == {"Armed", "Delivering", "Finalizing"}

(* azt_resolve_active: the card stays on the hose of a sale in progress. *)
Locked(l) == (l.status \in Active \/ Owned(l) \/ l.pending) /\ l.nozzle # None

(* Faulty: a new order does not wait for the stops of the last one. *)
BusyExceptStops(l) == l.status \in Active \/ Owned(l) \/ l.pending

(* azt_do_authorize: lane_busy. *)
Busy(l) == l.status \in Active \/ Owned(l) \/ l.pending \/ l.stops # {}

(* RuntimeFp::cancel_pre_auth, as far as this driver reads the result. *)
CancelOrder(l) == [l EXCEPT !.order = None, !.status = "Idle", !.nozzle = None]

(* azt_request_stop: intent is recorded before anything is sent. *)
StopIntent(l, targets, cancel) ==
    [l EXCEPT !.stops = @ \cup targets,
              !.stopReq = TRUE,
              !.cancelReq = @ \/ cancel,
              !.status = IF Owned(l) \/ @ \in {"Armed", "Delivering"} THEN "Finalizing" ELSE @]

(* azt_do_authorize: default AZT state, then the new order. *)
OrderIntent(h, id, s) ==
    [FreshLane EXCEPT !.status = "Armed", !.nozzle = h, !.order = s, !.before = id]

(* azt_poll_card_inner, statuses '0' and '1': what an idle hose settles. *)
SettleIdle(l, h) ==
    LET stopped  == [l EXCEPT !.stops = @ \ {h}]
        acked    == IF Owned(stopped) THEN CancelOrder(stopped) ELSE stopped
        settled  == IF stopped.pending
                    THEN [acked EXCEPT !.pending = FALSE, !.stopReq = FALSE, !.cancelReq = FALSE]
                    ELSE stopped
    IN  IF Owned(settled)
        THEN settled
        ELSE [settled EXCEPT !.stopReq = FALSE, !.cancelReq = FALSE]

ShowIdle(l, h, lifted) ==
    IF lifted
    THEN [l EXCEPT !.nozzle = h,
                   !.status = IF @ \in {"Idle", "NozzleUp", "Offline"} THEN "NozzleUp" ELSE @]
    ELSE [l EXCEPT !.nozzle = None, !.status = "Idle"]

(* azt_confirm_sale: the pump has taken the confirmation. *)
Release(l, net) ==
    LET free == IF Owned(l) \/ l.status = "Finalizing" THEN CancelOrder(l) ELSE l
    IN  [free EXCEPT !.pending = FALSE, !.stopReq = FALSE, !.cancelReq = FALSE,
                     !.stops = @ \ {net}]

(* azt_close_transaction: the sale is durable, only '8' remains. *)
Durable(l) == [l EXCEPT !.status = "Done", !.order = None, !.pending = TRUE]

(* azt_dismiss *)
Dismissable(l) ==
    /\ ~Owned(l) /\ ~l.pending /\ l.stops = {}
    /\ l.status \in {"Idle", "Done", "Offline"}

Dismissed(l) == IF Dismissable(l) THEN [FreshLane EXCEPT !.status = "Idle"] ELSE l

----------------------------------------------------------------------------
(* The recovery journal. *)

Owns(l) == Owned(l) \/ l.pending \/ l.stops # {}

(* journal::save: the row to keep, or none when the lane owns nothing.  The    *)
(* displayed status is read back only with a confirmation pending.             *)
Snapshot(l) ==
    IF ~Owns(l) THEN None
    ELSE IF l.pending THEN l ELSE [l EXCEPT !.status = "Offline"]

(* Faulty: the journal's stops are dropped. *)
RestoredWithoutStops(l) == IF journal = None THEN l ELSE [journal EXCEPT !.stops = l.stops]

(* Faulty: a stop issued before the row could be read is dropped. *)
RestoredAlone(l) == IF journal = None THEN l ELSE journal

(* journal::restore: the saved intent, and any stop issued meanwhile. *)
Restored(l) ==
    IF journal = None
    THEN l
    ELSE [journal EXCEPT !.stops = @ \cup l.stops,
                         !.stopReq = @ \/ l.stopReq,
                         !.cancelReq = @ \/ l.cancelReq]

Known == IF loaded THEN lane ELSE Restored(lane)
KnownRow == IF loaded THEN cached ELSE journal

Fault == faults < MaxFaults /\ faults' = faults + 1

(* The first contact of this process with the journal. *)
Load == lane' = Known /\ cached' = KnownRow /\ loaded' = TRUE

(* journal::save succeeds; an unchanged row is not written again. *)
SaveOk ==
    /\ lane' = Known
    /\ loaded' = TRUE
    /\ cached' = Snapshot(Known)
    /\ journal' = IF Snapshot(Known) = KnownRow THEN journal ELSE Snapshot(Known)
    /\ UNCHANGED <<recorded, credit, faults>>

(* journal::save fails reading the row, or writing it. *)
SaveFails ==
    /\ Fault
    /\ \/ ~loaded /\ UNCHANGED memVars
       \/ Snapshot(Known) # KnownRow /\ Load
    /\ UNCHANGED diskVars

(* The 200 ms allowance of a stop runs out and the write lands afterwards. *)
SaveLate ==
    /\ Fault
    /\ Snapshot(Known) # KnownRow
    /\ Load
    /\ journal' = Snapshot(Known)
    /\ UNCHANGED <<recorded, credit>>

----------------------------------------------------------------------------
(* The registers of a hose change hands. *)

GiveUp(h) ==
    IF pump[h].volume > 0 THEN {[arm |-> arm[h], volume |-> pump[h].volume]} ELSE {}

(* A command that neither arms a hose nor gives up its registers. *)
Wire(h, p) ==
    /\ pump' = [pump EXCEPT ![h] = p]
    /\ UNCHANGED <<arm, arms, orders, cleared>>

(* A command that gives up the registers of hose h. *)
WireClearing(h, p) ==
    /\ pump' = [pump EXCEPT ![h] = p]
    /\ cleared' = cleared \cup GiveUp(h)
    /\ UNCHANGED <<arm, arms, orders>>

(* Hose h is armed, by an order of this service or by others. *)
ArmHose(h, sent) ==
    /\ pump' = [pump EXCEPT ![h] = PumpAuthorize(@)]
    /\ arms' = arms + 1
    /\ arm' = [arm EXCEPT ![h] = arms + 1]
    /\ orders' = orders \cup sent

(* Faulty: an identity made by the process, not by the pump. *)
SaleKeyOfProcess(h, volume) == <<h, crashes, volume>>

(* azt_sale_id: the same for a sale however often and by whichever process it  *)
(* is read.                                                                    *)
SaleKey(h, volume) == <<h, pump[h].serial, volume>>

----------------------------------------------------------------------------
Init ==
    /\ pump = [h \in Hose |-> PumpReset]
    /\ lane = FreshLane
    /\ loaded = FALSE
    /\ cached = None
    /\ journal = None
    /\ recorded = {}
    /\ credit = [s \in Shift \ {0} |-> 0]
    /\ shift \in {s \in Shift : s <= 1}
    /\ at = "rest"
    /\ job = NoJob
    /\ arm = [h \in Hose |-> 0]
    /\ arms = 0
    /\ orders = {}
    /\ cleared = {}
    /\ asked = 0 /\ foreign = 0 /\ crashes = 0 /\ clears = 0 /\ faults = 0

Goto(step) == at' = step /\ UNCHANGED job

(* Every poll and every command ends with a checkpoint. *)
Leave == at' = "save" /\ job' = NoJob

----------------------------------------------------------------------------
(* Polling the card. *)

(* azt_poll_card: restore, then the hoses with a stop outstanding (none while *)
(* the retry interval of the last attempt runs).                              *)
BeginPoll ==
    /\ at = "rest"
    /\ Load
    /\ \E todo \in {Known.stops, {}} : job' = [NoJob EXCEPT !.todo = todo]
    /\ at' = "stops"
    /\ UNCHANGED <<pumpVars, diskVars, shift, counters>>

(* A keypad dose proves nothing: it is still to be accepted. *)
StopProven(p) == PumpIdle(p) \/ p.status = "Finished"

(* azt_send_pending_stops, one hose: status '1', then reset '3' unless the    *)
(* status proves the stop.                                                    *)
ProbeStop(h, heard, sent) ==
    /\ at = "stops"
    /\ h \in job.todo
    /\ IF heard /\ StopProven(pump[h])
       THEN /\ lane' = [lane EXCEPT !.stops = @ \ {h}]
            /\ UNCHANGED pumpVars
       ELSE /\ Wire(h, IF sent THEN PumpStop(pump[h]) ELSE pump[h])
            /\ UNCHANGED lane
    /\ job' = [job EXCEPT !.todo = @ \ {h}]
    /\ UNCHANGED <<diskVars, loaded, cached, shift, at, counters>>

Rank(h) ==
    CASE pump[h].status = "Finished"     -> 6
      [] pump[h].status = "Dispensing"   -> 5
      [] pump[h].status = "Authorized"   -> 4
      [] pump[h].status = "LocalPreset"  -> 3
      [] pump[h].status = "OffLifted"    -> 2
      [] pump[h].status = "OffHolstered" -> 1

(* azt_resolve_active: h is the hose this poll acts on when the hoses of      *)
(* heard answer the status query.                                             *)
Resolves(h, heard) ==
    /\ h \in heard
    /\ IF Locked(lane)
       THEN h = lane.nozzle
       ELSE \A g \in heard : Rank(h) > Rank(g) \/ (Rank(h) = Rank(g) /\ h <= g)

Observing == at = "stops" /\ job.todo = {}

(* mark_missed: the lane may cross the offline threshold. *)
ShowMissed ==
    lane' \in {lane} \cup
        (IF Owned(lane) \/ lane.status \in {"NozzleUp", "Armed", "Delivering", "Done"}
         THEN {} ELSE {[lane EXCEPT !.status = "Offline"]})

ObserveNothing(heard) ==
    /\ Observing
    /\ IF Locked(lane) THEN lane.nozzle \notin heard ELSE heard = {}
    /\ ShowMissed
    /\ Leave
    /\ UNCHANGED <<pumpVars, diskVars, loaded, cached, shift, counters>>

(* An idle hose.  A sale this lane still owns is closed from its registers.   *)
ObserveIdle(h, heard) ==
    /\ Observing
    /\ Resolves(h, heard)
    /\ PumpIdle(pump[h])
    /\ LET settled == SettleIdle(lane, h)
       IN  IF Owned(settled)
           THEN /\ lane' = settled
                /\ at' = "registers"
                /\ job' = [NoJob EXCEPT !.net = NetOf(settled.nozzle)]
           ELSE /\ lane' = ShowIdle(settled, h, pump[h].status = "OffLifted")
                /\ Leave
    /\ UNCHANGED <<pumpVars, diskVars, loaded, cached, shift, counters>>

Orphan(l) == ~Owned(l) /\ ~l.pending /\ ~l.stopReq

(* An armed hose: stopped when nobody ordered it or when the order timed out. *)
ObserveArmed(h, heard, expired) ==
    /\ Observing
    /\ Resolves(h, heard)
    /\ pump[h].status = "Authorized"
    /\ LET seen   == [lane EXCEPT !.before = None]
           target == {NetOf(lane.nozzle)}
       IN  IF Orphan(lane) \/ (expired /\ Owned(lane) /\ ~lane.stopReq)
           THEN /\ lane' = StopIntent(IF Orphan(lane) THEN lane ELSE seen, target, TRUE)
                /\ at' = "stopSave"
                /\ job' = [NoJob EXCEPT !.todo = target]
           ELSE /\ lane' = [seen EXCEPT !.nozzle = h,
                                        !.status = IF lane.stopReq THEN "Finalizing" ELSE "Armed"]
                /\ Leave
    /\ UNCHANGED <<pumpVars, diskVars, loaded, cached, shift, counters>>

ObserveFlow(h, heard) ==
    /\ Observing
    /\ Resolves(h, heard)
    /\ pump[h].status = "Dispensing"
    /\ at' = "live"
    /\ job' = [NoJob EXCEPT !.net = h]
    /\ UNCHANGED <<pumpVars, diskVars, memVars, shift, counters>>

(* The live meter answers; a delivery nobody ordered is adopted. *)
LiveReading ==
    /\ at = "live"
    /\ LET stopping == lane.stopReq \/ job.net \in lane.stops
       IN  lane' = [lane EXCEPT !.before = None,
                                !.stopReq = stopping,
                                !.status = IF stopping THEN "Finalizing" ELSE "Delivering",
                                !.nozzle = job.net,
                                !.order = IF Owned(lane) THEN @ ELSE shift]
    /\ Leave
    /\ UNCHANGED <<pumpVars, diskVars, loaded, cached, shift, counters>>

LiveReadingLost ==
    /\ at = "live"
    /\ ShowMissed
    /\ Leave
    /\ UNCHANGED <<pumpVars, diskVars, loaded, cached, shift, counters>>

ObserveFinished(h, heard) ==
    /\ Observing
    /\ Resolves(h, heard)
    /\ pump[h].status = "Finished"
    /\ lane' = [lane EXCEPT !.nozzle = h,
                            !.status = IF lane.pending THEN @ ELSE "Finalizing"]
    /\ at' = IF lane.pending THEN "confirm" ELSE "registers"
    /\ job' = [NoJob EXCEPT !.net = h, !.settle = TRUE]
    /\ UNCHANGED <<pumpVars, diskVars, loaded, cached, shift, counters>>

(* A dose entered at the keypad is rejected. *)
ObserveLocalPreset(h, heard, sent) ==
    /\ Observing
    /\ Resolves(h, heard)
    /\ pump[h].status = "LocalPreset"
    /\ Wire(h, IF sent THEN PumpStop(pump[h]) ELSE pump[h])
    /\ Leave
    /\ UNCHANGED <<diskVars, memVars, shift, counters>>

----------------------------------------------------------------------------
(* Closing a sale: azt_close_transaction and azt_confirm_sale. *)

(* Faulty: a cancelled order is taken to have delivered nothing. *)
EmptyWhenCancelled(l, volume) == l.cancelReq \/ (volume = 0 /\ ~Owned(l))

(* No fuel and nothing to bill: only the confirmation remains. *)
Empty(l, volume) == volume = 0 /\ (l.cancelReq \/ ~Owned(l))

ReadRegisters ==
    /\ at = "registers"
    /\ LET p == pump[job.net]
       IN  IF Empty(lane, p.volume)
           THEN /\ lane' = [lane EXCEPT !.pending = TRUE]
                /\ Goto("confirm")
           ELSE /\ at' = "identify"
                /\ job' = [job EXCEPT !.volume = p.volume, !.arm = arm[job.net]]
                /\ UNCHANGED lane
    /\ UNCHANGED <<pumpVars, diskVars, loaded, cached, shift, counters>>

(* Faulty: a missing ACK alone is taken for a refusal. *)
NotAcceptedUnread(l, id, settle) == l.before # None /\ ~settle

(* The order whose authorization never reached the pump: the registers are    *)
(* still those read before arming.                                            *)
NotAccepted(l, id, settle) == l.before = id /\ ~settle

InBook(id) == \E r \in recorded : r.id = id

(* Faulty: the sale is not looked up. *)
NeverSaved(id) == FALSE

(* The lookup that keeps a saved sale from being credited again. *)
AlreadySaved(id) == InBook(id)

IdentifySale ==
    /\ at = "identify"
    /\ LET id == SaleKey(job.net, job.volume)
       IN  IF NotAccepted(lane, id, job.settle)
           THEN /\ lane' = [CancelOrder(lane) EXCEPT !.before = None]
                /\ Leave
           ELSE IF AlreadySaved(id)
           THEN /\ lane' = Durable(lane)
                /\ Goto("confirm")
           ELSE /\ at' = "commit"
                /\ job' = [job EXCEPT !.id = id]
                /\ UNCHANGED lane
    /\ UNCHANGED <<pumpVars, diskVars, loaded, cached, shift, counters>>

(* A register read, the identity query or the lookup in the book fails. *)
ReadFails ==
    /\ at \in {"registers", "identify"}
    /\ Leave
    /\ UNCHANGED <<pumpVars, diskVars, memVars, shift, counters>>

(* Faulty: whatever shift is active when the sale is saved. *)
SaleShiftNow == shift

SaleShift == IF Owned(lane) THEN lane.order ELSE shift

Credited(c, s, volume) == IF s = 0 THEN c ELSE [c EXCEPT ![s] = @ + volume]

(* ShiftCoordinator::commit_azt_sale: the row and the shift's credit together. *)
CommitSale ==
    /\ at = "commit"
    /\ ~InBook(job.id)
    /\ recorded' = recorded \cup
           {[id |-> job.id, arm |-> job.arm, volume |-> job.volume, shift |-> SaleShift]}
    /\ credit' = Credited(credit, SaleShift, job.volume)
    /\ lane' = Durable(lane)
    /\ Goto("confirm")
    /\ UNCHANGED <<pumpVars, journal, loaded, cached, shift, counters>>

(* The write fails; a row with the same primary key always makes it fail. *)
CommitFails ==
    /\ at = "commit"
    /\ Fault \/ (InBook(job.id) /\ UNCHANGED faults)
    /\ Leave
    /\ UNCHANGED <<pumpVars, diskVars, memVars, shift, asked, foreign, crashes, clears>>

(* The intent to confirm is durable before '8' may reach the pump. *)
ConfirmSaved ==
    /\ at = "confirm"
    /\ SaveOk
    /\ Goto("release")
    /\ UNCHANGED <<pumpVars, shift, asked, foreign, crashes, clears>>

ConfirmNotSaved ==
    /\ at = "confirm"
    /\ SaveFails
    /\ Leave
    /\ UNCHANGED <<pumpVars, shift, asked, foreign, crashes, clears>>

(* A hose already idle needs no '8'. *)
ReleaseIdle ==
    /\ at = "release"
    /\ ~job.settle
    /\ lane' = Release(lane, job.net)
    /\ Leave
    /\ UNCHANGED <<pumpVars, diskVars, loaded, cached, shift, counters>>

ConfirmWire(sent, acked) ==
    /\ at = "release"
    /\ job.settle
    /\ acked => sent /\ pump[job.net].status = "Finished"
    /\ IF sent /\ pump[job.net].status = "Finished"
       THEN WireClearing(job.net, PumpConfirm(pump[job.net]))
       ELSE UNCHANGED pumpVars
    /\ lane' = IF acked THEN Release(lane, job.net) ELSE lane
    /\ Leave
    /\ UNCHANGED <<diskVars, loaded, cached, shift, counters>>

(* The checkpoint that ends every poll and command. *)
Checkpoint ==
    /\ at = "save"
    /\ SaveOk \/ SaveFails
    /\ Goto("rest")
    /\ UNCHANGED <<pumpVars, shift, asked, foreign, crashes, clears>>

----------------------------------------------------------------------------
(* Commands from the queue: azt_apply_command. *)

(* Stop, CancelPreauth (cancel) and EStop (all hoses).  The intent is taken   *)
(* even when the journal cannot be read.                                      *)
StopCommand(all, cancel, readable) ==
    /\ at = "rest"
    /\ LET l == IF readable THEN Known ELSE lane
           targets == IF all THEN Hose ELSE {NetOf(l.nozzle)}
       IN  /\ lane' = StopIntent(l, targets, cancel)
           /\ job' = [NoJob EXCEPT !.todo = targets]
    /\ loaded' = (loaded \/ readable)
    /\ cached' = IF readable THEN KnownRow ELSE cached
    /\ at' = "stopSave"
    /\ UNCHANGED <<pumpVars, diskVars, shift, counters>>

StopSave ==
    /\ at = "stopSave"
    /\ SaveOk \/ SaveFails \/ SaveLate
    /\ Goto("stopWire")
    /\ UNCHANGED <<pumpVars, shift, asked, foreign, crashes, clears>>

(* Reset '3' to every target; its ACK proves nothing and changes nothing. *)
StopWire(h, sent) ==
    /\ at = "stopWire"
    /\ h \in job.todo
    /\ Wire(h, IF sent THEN PumpStop(pump[h]) ELSE pump[h])
    /\ IF job.todo = {h}
       THEN Leave
       ELSE at' = at /\ job' = [job EXCEPT !.todo = @ \ {h}]
    /\ UNCHANGED <<diskVars, memVars, shift, counters>>

(* ResetLane and ResetAll. *)
DismissCommand ==
    /\ at = "rest"
    /\ loaded' = TRUE
    /\ lane' = Dismissed(Known)
    /\ cached' = Snapshot(Known)
    /\ journal' = IF Snapshot(Known) = KnownRow THEN journal ELSE Snapshot(Known)
    /\ Leave
    /\ UNCHANGED <<pumpVars, recorded, credit, shift, counters>>

(* Authorize and Preauthorize of a lane that is not busy, once the journal is *)
(* readable and written.  job.settle tells a direct start of a lifted hose.   *)
OrderCommand(h, direct) ==
    /\ at = "rest"
    /\ asked < MaxOrders
    /\ ~Busy(Known)
    /\ direct => Known.status = "NozzleUp" /\ h = Known.nozzle
    /\ SaveOk
    /\ at' = "query"
    /\ job' = [NoJob EXCEPT !.net = h, !.settle = direct]
    /\ UNCHANGED <<pumpVars, shift, asked, foreign, crashes, clears>>

(* A fresh status must agree with the kind of order. *)
ReadyFor(p, direct) == p.status = IF direct THEN "OffLifted" ELSE "OffHolstered"

CheckReady(heard) ==
    /\ at = "query"
    /\ IF heard /\ ReadyFor(pump[job.net], job.settle) THEN Goto("price") ELSE Leave
    /\ UNCHANGED <<pumpVars, diskVars, memVars, shift, counters>>

(* Price 'Q' and dose 'T'/'S', each needing its ACK. *)
SetOrder(sent, acked) ==
    /\ at = "price"
    /\ acked => sent /\ PumpIdle(pump[job.net])
    /\ IF sent /\ PumpIdle(pump[job.net])
       THEN WireClearing(job.net, PumpSetPrice(pump[job.net]))
       ELSE UNCHANGED pumpVars
    /\ asked' = asked + 1
    /\ IF acked THEN Goto("before") ELSE Leave
    /\ UNCHANGED <<diskVars, memVars, shift, foreign, crashes, clears, faults>>

(* The identity of the registers before arming, then the order in memory. *)
TakeOrder ==
    /\ at = "before"
    /\ lane' = OrderIntent(job.net, SaleKey(job.net, pump[job.net].volume), shift)
    /\ Goto("armSave")
    /\ UNCHANGED <<pumpVars, diskVars, loaded, cached, shift, counters>>

TakeOrderFails ==
    /\ at = "before"
    /\ Leave
    /\ UNCHANGED <<pumpVars, diskVars, memVars, shift, counters>>

(* Faulty: authorize is sent before the order is saved. *)
ArmUnsaved ==
    /\ at = "armSave"
    /\ Goto("arm")
    /\ UNCHANGED <<pumpVars, diskVars, memVars, shift, counters>>

(* Ownership is durable before authorize can reach the pump. *)
ArmSaved ==
    /\ at = "armSave"
    /\ SaveOk
    /\ Goto("arm")
    /\ UNCHANGED <<pumpVars, shift, asked, foreign, crashes, clears>>

ArmNotSaved ==
    /\ at = "armSave"
    /\ Fault
    /\ Snapshot(lane) # cached
    /\ lane' = [CancelOrder(lane) EXCEPT !.before = None]
    /\ Leave
    /\ UNCHANGED <<pumpVars, diskVars, loaded, cached, shift, asked, foreign, crashes, clears>>

(* Authorize '2': ACK, refusal, or no answer. *)
ArmWire(sent, heard) ==
    /\ at = "arm"
    /\ heard => sent
    /\ LET accepted == sent /\ PumpReady(pump[job.net])
       IN  /\ IF accepted
              THEN /\ ArmHose(job.net, {[arm |-> arms + 1, shift |-> lane.order]})
                   /\ cleared' = cleared \cup GiveUp(job.net)
              ELSE UNCHANGED pumpVars
           /\ lane' = CASE heard /\ accepted  -> [lane EXCEPT !.before = None]
                        [] heard /\ ~accepted -> [CancelOrder(lane) EXCEPT !.before = None]
                        [] OTHER              -> [lane EXCEPT !.status = "Armed"]
           /\ IF heard /\ accepted /\ job.settle THEN Goto("start") ELSE Leave
    /\ UNCHANGED <<diskVars, loaded, cached, shift, counters>>

(* Unconditional start 'V' of a direct order. *)
StartWire(sent) ==
    /\ at = "start"
    /\ Wire(job.net, IF sent THEN PumpStart(pump[job.net]) ELSE pump[job.net])
    /\ Leave
    /\ UNCHANGED <<diskVars, memVars, shift, counters>>

----------------------------------------------------------------------------
(* The surroundings. *)

Others == <<diskVars, memVars, shift, at, job, asked, crashes, faults>>

CustomerLifts(h) ==
    /\ ~pump[h].lifted
    /\ Wire(h, PumpLift(pump[h]))
    /\ UNCHANGED <<Others, foreign, clears>>

CustomerHolsters(h) ==
    /\ pump[h].lifted
    /\ Wire(h, PumpHolster(pump[h]))
    /\ UNCHANGED <<Others, foreign, clears>>

PumpStarts(h) ==
    /\ pump[h].status = "Authorized" /\ pump[h].lifted
    /\ Wire(h, PumpStart(pump[h]))
    /\ UNCHANGED <<Others, foreign, clears>>

FuelFlows(h) ==
    /\ pump[h].status = "Dispensing"
    /\ Wire(h, PumpFlow(pump[h]))
    /\ UNCHANGED <<Others, foreign, clears>>

PumpCleared(h) ==
    /\ clears < MaxClears
    /\ ~PumpIdle(pump[h])
    /\ Wire(h, PumpClear(pump[h]))
    /\ clears' = clears + 1
    /\ UNCHANGED <<Others, foreign>>

KeypadPreset(h) ==
    /\ foreign < MaxForeign
    /\ PumpIdle(pump[h])
    /\ Wire(h, PumpPreset(pump[h]))
    /\ foreign' = foreign + 1
    /\ UNCHANGED <<Others, clears>>

(* Another controller, or the pump's keypad, arms an idle hose. *)
ForeignArm(h) ==
    /\ foreign < MaxForeign
    /\ PumpReady(pump[h])
    /\ ArmHose(h, {})
    /\ foreign' = foreign + 1
    /\ UNCHANGED <<Others, cleared, clears>>

(* A handover opens the next shift. *)
NextShift ==
    /\ shift < MaxShifts
    /\ shift' = shift + 1
    /\ UNCHANGED <<pumpVars, diskVars, memVars, at, job, counters>>

(* The process dies and starts again with an empty runtime. *)
Crash ==
    /\ crashes < MaxCrashes
    /\ crashes' = crashes + 1
    /\ lane' = FreshLane
    /\ loaded' = FALSE
    /\ cached' = None
    /\ at' = "rest"
    /\ job' = NoJob
    /\ UNCHANGED <<pumpVars, diskVars, shift, asked, foreign, clears, faults>>

----------------------------------------------------------------------------
Poll ==
    \/ BeginPoll
    \/ \E h \in Hose, heard, sent \in BOOLEAN : ProbeStop(h, heard, sent)
    \/ \E heard \in SUBSET Hose :
          \/ ObserveNothing(heard)
          \/ \E h \in heard :
                \/ ObserveIdle(h, heard)
                \/ \E expired \in BOOLEAN : ObserveArmed(h, heard, expired)
                \/ ObserveFlow(h, heard)
                \/ ObserveFinished(h, heard)
                \/ \E sent \in BOOLEAN : ObserveLocalPreset(h, heard, sent)
    \/ LiveReading \/ LiveReadingLost

Close ==
    \/ ReadRegisters \/ IdentifySale \/ ReadFails
    \/ CommitSale \/ CommitFails
    \/ ConfirmSaved \/ ConfirmNotSaved
    \/ ReleaseIdle
    \/ \E sent, acked \in BOOLEAN : ConfirmWire(sent, acked)
    \/ Checkpoint

Command ==
    \/ \E all, cancel, readable \in BOOLEAN :
          ~(all /\ cancel) /\ StopCommand(all, cancel, readable)
    \/ StopSave
    \/ \E h \in Hose, sent \in BOOLEAN : StopWire(h, sent)
    \/ DismissCommand
    \/ \E h \in Hose, direct \in BOOLEAN : OrderCommand(h, direct)
    \/ \E heard \in BOOLEAN : CheckReady(heard)
    \/ \E sent, acked \in BOOLEAN : SetOrder(sent, acked)
    \/ TakeOrder \/ TakeOrderFails \/ ArmSaved \/ ArmNotSaved
    \/ \E sent, heard \in BOOLEAN : ArmWire(sent, heard)
    \/ \E sent \in BOOLEAN : StartWire(sent)

Surroundings ==
    \/ \E h \in Hose :
          \/ CustomerLifts(h) \/ CustomerHolsters(h) \/ PumpStarts(h) \/ FuelFlows(h)
          \/ PumpCleared(h) \/ KeypadPreset(h) \/ ForeignArm(h)
    \/ NextShift
    \/ Crash

Next == Poll \/ Close \/ Command \/ Surroundings

Spec == Init /\ [][Next]_vars

(* Fairness.  The loop runs on between its steps; it polls again however many *)
(* commands arrive; the retry interval of a stop elapses; and every kind of   *)
(* exchange that is tried again and again gets through now and then.          *)
Observe ==
    \E h \in Hose :
        \/ ObserveIdle(h, Hose)
        \/ \E expired \in BOOLEAN : ObserveArmed(h, Hose, expired)
        \/ ObserveFlow(h, Hose)
        \/ ObserveFinished(h, Hose)
        \/ ObserveLocalPreset(h, Hose, TRUE)

Fairness ==
    /\ WF_vars(at # "rest" /\ (Poll \/ Close \/ Command))
    /\ SF_vars(BeginPoll /\ job'.todo = lane'.stops)
    /\ SF_vars(\E h \in Hose : ProbeStop(h, TRUE, TRUE))
    /\ SF_vars(Observe)
    /\ SF_vars(ReadRegisters)
    /\ SF_vars(IdentifySale)
    /\ SF_vars(ConfirmWire(TRUE, TRUE))

FairSpec == Spec /\ Fairness

----------------------------------------------------------------------------
(* Properties. *)

StepName ==
    {"rest", "stops", "live", "registers", "identify", "commit", "confirm", "release",
     "save", "stopSave", "stopWire", "query", "price", "before", "armSave", "arm", "start"}

(* Every variable keeps its type. *)
TypeOK ==
    /\ pump \in [Hose -> PumpState]
    /\ lane \in LaneState
    /\ loaded \in BOOLEAN
    /\ cached \in LaneState \cup {None}
    /\ journal \in LaneState \cup {None}
    /\ recorded \subseteq
          [id : SaleId, arm : Arm \cup {0}, volume : 0 .. MaxVolume, shift : Shift]
    /\ credit \in [Shift \ {0} -> Nat]
    /\ shift \in Shift
    /\ at \in StepName
    /\ job \in [net : Hose \cup {None}, settle : BOOLEAN, volume : 0 .. MaxVolume,
                id : SaleId \cup {None}, arm : Arm \cup {0}, todo : SUBSET Hose]
    /\ arm \in [Hose -> Arm \cup {0}]
    /\ arms \in Arm \cup {0}
    /\ orders \subseteq [arm : Arm, shift : Shift]
    /\ cleared \subseteq [arm : Arm, volume : 1 .. MaxVolume]
    /\ asked \in 0 .. MaxOrders
    /\ foreign \in 0 .. MaxForeign
    /\ crashes \in 0 .. MaxCrashes
    /\ clears \in 0 .. MaxClears
    /\ faults \in 0 .. MaxFaults

Ordered == {o.arm : o \in orders}

(* No fuel this service sold disappears: when it confirms or overwrites the registers
   of an ordered sale, the sale is already in the book with its volume. *)
NoSaleLost ==
    \A c \in cleared : c.arm \in Ordered =>
        \E r \in recorded : r.arm = c.arm /\ r.volume = c.volume

(* No ordered sale is billed twice, whatever acknowledgements and processes were
   lost and whatever was sold at the pump in between. (Another controller that arms a
   pump cleared at its panel while the driver reads it can break this: README.) *)
BilledOnce ==
    \A r, q \in recorded :
        r.arm = q.arm /\ r.arm \in Ordered /\ r.volume > 0 /\ q.volume > 0 => r = q

(* An ordered sale is billed to the shift that was active when it was ordered. *)
BilledToOrderShift ==
    \A r \in recorded, o \in orders : r.arm = o.arm /\ r.volume > 0 => r.shift = o.shift

(* While a pump armed by this service can still deliver, or holds fuel that is not
   in the book, a restarted service would find the order in its journal. *)
OrderSurvivesCrash ==
    \A h \in Hose :
        /\ arm[h] \in Ordered
        /\ PumpArmed(pump[h]) \/ (pump[h].volume > 0 /\ ~\E r \in recorded : r.arm = arm[h])
        => journal # None /\ Owned(journal) /\ journal.nozzle = h

(* A stop is forgotten only when its hose can no longer deliver. *)
StopHeld ==
    [][\A h \in lane.stops \ lane'.stops : crashes' # crashes \/ ~PumpArmed(pump[h])]_vars

(* Does not hold with another controller (MaxForeign = 1): every finished sale, *)
(* ordered or not, is in the book before it is given up.                        *)
EverySaleRead ==
    \A c \in cleared : \E r \in recorded : r.arm = c.arm /\ r.volume = c.volume

(* A finished sale is eventually in the book and its pump free again. *)
FinishedSaleSettled ==
    \A h \in Hose : pump[h].status = "Finished" ~> pump[h].status # "Finished"

(* A stop the journal holds, whoever crashes, eventually stops the pump. *)
StopCarriedOut ==
    \A h \in Hose :
        journal # None /\ h \in journal.stops /\ PumpArmed(pump[h]) ~> ~PumpArmed(pump[h])

(* Does not hold with two hoses: a pump armed without an order is stopped. *)
OrphanStopped ==
    \A h \in Hose :
        pump[h].status = "Authorized" /\ arm[h] \notin Ordered ~> pump[h].status # "Authorized"
=============================================================================
