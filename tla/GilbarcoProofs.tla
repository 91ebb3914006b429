--------------------------- MODULE GilbarcoProofs ---------------------------
(***************************************************************************)
(* What one Gilbarco lane keeps, for any nozzles, doses, fills and         *)
(* budgets: its types always; the orders it serves, on a line that loses   *)
(* little; and the sales it bills, through one mishap.                     *)
(***************************************************************************)
EXTENDS GilbarcoLane, TLAPS

Framing == at \in {"price", "preset", "authorize"}
Closing == at \in {"close", "commit"}

----------------------------------------------------------------------------
(* The operators of the pump and of the lane. *)

LEMMA Apart ==
    /\ Nozzle \subseteq Nat \ {0} /\ 1 \in Nozzle
    /\ None \notin Nozzle /\ None # AnyNozzle /\ AnyNozzle \notin Nozzle
    /\ MaxVolume \in Nat /\ MaxFills \in Nat
<1>1. Nozzle \subseteq Nat \ {0} /\ 1 \in Nozzle
  BY Zenon, NozzleAssumption
<1>2. None \notin Nat /\ MaxVolume \in Nat /\ MaxFills \in Nat
  BY Zenon, NoneAssumption, MaxVolumeAssumption, MaxFillsAssumption
<1>3. 0 \in Nat /\ 0 \notin Nozzle
  BY <1>1
<1>4. None \notin Nozzle
  BY <1>1, <1>2, Zenon
<1>5. None # 0
  BY <1>2, <1>3, Zenon
<1> QED BY <1>1, <1>2, <1>3, <1>4, <1>5 DEF AnyNozzle

(* An answer moves the pump on, and leaves its register alone. *)
LEMMA ToldPump ==
    ASSUME NEW p \in PumpState
    PROVE  /\ PumpTold(p) \in PumpState
           /\ PumpTold(p).nozzle = p.nozzle /\ PumpTold(p).volume = p.volume
           /\ PumpTold(p).limit = p.limit
           /\ p.phase = "Ready" =>
                IF p.polls = 2 THEN PumpTold(p).phase = "Ready" /\ PumpTold(p).polls = 1
                ELSE PumpTold(p).phase = "Delivering"
           /\ p.phase = "Complete" =>
                IF p.polls = 0 THEN PumpTold(p).phase = "Idle"
                ELSE PumpTold(p).phase = "Complete" /\ PumpTold(p).polls = p.polls - 1
           /\ p.phase \notin {"Ready", "Complete"} => PumpTold(p) = p
<1> DEFINE n == IF p.polls > 0 THEN p.polls - 1 ELSE 0
           next == CASE p.phase = "Ready" /\ n = 0          -> "Delivering"
                     [] p.phase = "Complete" /\ p.polls = 0 -> "Idle"
                     [] OTHER                               -> p.phase
<1>1. p.polls \in 0 .. 2 /\ n \in 0 .. 2 /\ p.phase \in Phase
  BY DEF PumpState
<1>2. CASE p.phase \notin {"Ready", "Complete"}
  BY <1>2 DEF PumpTold
<1>3. CASE p.phase \in {"Ready", "Complete"}
  <2>1. PumpTold(p) = [p EXCEPT !.phase = next, !.polls = n]
    BY <1>3 DEF PumpTold
  <2>2. /\ next \in Phase
        /\ p.phase = "Ready" => next = IF p.polls = 2 THEN "Ready" ELSE "Delivering"
        /\ p.phase = "Complete" => next = IF p.polls = 0 THEN "Idle" ELSE "Complete"
    BY <1>1, <1>3 DEF Phase
  <2> HIDE DEF next
  <2>3. /\ PumpTold(p) \in PumpState /\ PumpTold(p).phase = next /\ PumpTold(p).polls = n
        /\ PumpTold(p).nozzle = p.nozzle /\ PumpTold(p).volume = p.volume
        /\ PumpTold(p).limit = p.limit
    BY <1>1, <2>1, <2>2 DEF PumpState
  <2> QED BY <1>1, <1>3, <2>2, <2>3
<1> QED BY <1>2, <1>3

LEMMA LiftedPump ==
    ASSUME NEW p \in PumpState, NEW n \in Nozzle
    PROVE  /\ PumpLift(p, n) \in PumpState /\ PumpLift(p, n).phase = "Lifted"
           /\ PumpLift(p, n).nozzle = n /\ PumpLift(p, n).volume = 0 /\ FreshPump \in PumpState
<1>1. FreshPump \in PumpState
  BY Apart DEF FreshPump, PumpState, Phase, Volume, Limit
<1>2. PumpLift(p, n) = [FreshPump EXCEPT !.phase = "Lifted", !.nozzle = n]
  BY DEF PumpLift
<1>3. FreshPump.volume = 0
  BY DEF FreshPump
<1> QED BY <1>1, <1>2, <1>3 DEF PumpState, Phase

LEMMA CompletedPump ==
    ASSUME NEW p \in PumpState
    PROVE  /\ Completed(p) \in PumpState /\ Completed(p).phase = "Complete"
           /\ Completed(p).nozzle = p.nozzle /\ Completed(p).volume = p.volume
           /\ Completed(p).polls = 2
<1>1. None \in Limit /\ "Complete" \in Phase /\ 2 \in 0 .. 2
  BY DEF Limit, Phase
<1> DEFINE q == [p EXCEPT !.limit = None]
<1>2. q \in PumpState /\ q.nozzle = p.nozzle /\ q.volume = p.volume
  BY <1>1 DEF PumpState
<1>3. Completed(p) = [q EXCEPT !.phase = "Complete", !.polls = 2]
  BY <1>2 DEF Completed, PumpState
<1> HIDE DEF q
<1> QED BY <1>1, <1>2, <1>3 DEF PumpState

LEMMA FlowingPump ==
    ASSUME NEW p \in PumpState, p.phase = "Delivering", p.volume < MaxVolume
    PROVE  /\ PumpFlow(p) \in PumpState /\ PumpFlow(p).phase \in {"Delivering", "Complete"}
           /\ PumpFlow(p).nozzle = p.nozzle /\ PumpFlow(p).volume = p.volume + 1
           /\ PumpFlow(p).phase = "Delivering" => PumpFlow(p).limit = p.limit
           /\ PumpFlow(p).phase = "Complete" => PumpFlow(p).polls = 2
<1> DEFINE q == [p EXCEPT !.volume = @ + 1]
<1>1. /\ q \in PumpState /\ q.phase = "Delivering" /\ q.nozzle = p.nozzle /\ q.limit = p.limit
      /\ q.volume = p.volume + 1
  BY Apart DEF PumpState, Volume
<1>2. PumpFlow(p) = IF q.volume = q.limit THEN Completed(q) ELSE q
  BY DEF PumpFlow
<1> HIDE DEF q
<1> QED BY <1>1, <1>2, CompletedPump

LEMMA CommandedPump ==
    ASSUME NEW p \in PumpState, NEW d \in Limit
    PROVE  /\ PumpAuthorize(p) \in PumpState
           /\ p.phase = "Lifted" =>
                /\ PumpAuthorize(p).phase = "Ready" /\ PumpAuthorize(p).polls = 2
                /\ PumpAuthorize(p).nozzle = p.nozzle /\ PumpAuthorize(p).volume = p.volume
                /\ PumpAuthorize(p).limit = p.limit
           /\ p.phase # "Lifted" => PumpAuthorize(p) = p
           /\ PumpHalt(p) \in PumpState
           /\ PumpHalt(p).nozzle = p.nozzle /\ PumpHalt(p).volume = p.volume
           /\ PumpHalt(p).polls = p.polls /\ PumpHalt(p).limit = p.limit
           /\ PumpHalt(p).phase = IF HoseOut(p) THEN "Stopped" ELSE p.phase
           /\ PumpPreset(p, d) \in PumpState /\ PumpPreset(p, d).phase = p.phase
           /\ PumpPreset(p, d).nozzle = p.nozzle /\ PumpPreset(p, d).volume = p.volume
           /\ PumpPreset(p, d).polls = p.polls /\ PumpPreset(p, d).limit = d
<1>1. {"Ready", "Stopped"} \subseteq Phase /\ 2 \in 0 .. 2
  BY DEF Phase
<1>2. p.phase = "Lifted" =>
        PumpAuthorize(p) = [phase |-> "Ready", nozzle |-> p.nozzle, volume |-> p.volume,
                            limit |-> p.limit, polls |-> 2]
  BY DEF PumpAuthorize, PumpState
<1>3. p.phase # "Lifted" => PumpAuthorize(p) = p
  BY DEF PumpAuthorize
<1>4. HoseOut(p) =>
        PumpHalt(p) = [phase |-> "Stopped", nozzle |-> p.nozzle, volume |-> p.volume,
                       limit |-> p.limit, polls |-> p.polls]
  BY DEF PumpHalt, PumpState
<1>5. ~HoseOut(p) => PumpHalt(p) = p
  BY DEF PumpHalt
<1>6. PumpPreset(p, d) = [phase |-> p.phase, nozzle |-> p.nozzle, volume |-> p.volume,
                          limit |-> d, polls |-> p.polls]
  BY DEF PumpPreset, PumpState
<1>7. /\ p.phase \in Phase /\ p.nozzle \in Nozzle /\ p.volume \in Volume /\ p.limit \in Limit
      /\ p.polls \in 0 .. 2
  BY DEF PumpState
<1>8. PumpAuthorize(p) \in PumpState /\ PumpHalt(p) \in PumpState /\ PumpPreset(p, d) \in PumpState
  BY <1>1, <1>2, <1>3, <1>4, <1>5, <1>6, <1>7 DEF PumpState
<1> QED BY <1>1, <1>2, <1>3, <1>4, <1>5, <1>6, <1>8

(* The lane that rests, or whose order is cancelled, has no sale and no order. *)
Bare(l) ==
    /\ l \in LaneState /\ l.status = "Idle" /\ l.nozzle = None /\ l.pre = None /\ l.tx = None
    /\ l.label = FALSE

LEMMA CancelledLane ==
    ASSUME NEW l \in LaneState
    PROVE  Bare(Cancelled(l))
<1> DEFINE k == [l EXCEPT !.status = "Idle", !.shown = 0]
           m == [k EXCEPT !.label = FALSE]
<1>0. 0 \in Volume /\ "Idle" \in Status
  BY Apart DEF Status, Volume
<1>1. k \in LaneState /\ k.status = "Idle"
  BY <1>0 DEF LaneState
<1> HIDE DEF k
<1>2. m \in LaneState /\ m.status = "Idle" /\ m.label = FALSE
  BY <1>1 DEF LaneState
<1>3. m = [l EXCEPT !.status = "Idle", !.shown = 0, !.label = FALSE]
  BY <1>1 DEF LaneState, k
<1>4. Cancelled(l) = [m EXCEPT !.nozzle = None, !.tx = None, !.pre = None]
  BY <1>2, <1>3 DEF Cancelled, LaneState
<1> HIDE DEF m
<1> QED BY <1>2, <1>4 DEF Bare, LaneState

LEMMA RestedLane ==
    ASSUME NEW l \in LaneState
    PROVE  IF l.status = "Stopped" THEN Rested(l) = l ELSE Bare(Rested(l))
<1>1. l.status # "Stopped" => Rested(l) = Cancelled(l)
  BY DEF Rested, Cancelled
<1> QED BY <1>1, CancelledLane DEF Rested

LEMMA ResetLaneBare ==
    ASSUME NEW l \in LaneState
    PROVE  Bare(ResetLane(l))
BY CancelledLane DEF ResetLane

LEMMA ShownUpLane ==
    ASSUME NEW l \in LaneState, NEW n \in Nozzle
    PROVE  LET m == ShownUp(l, n)
           IN  /\ m \in LaneState /\ m.nozzle = n
               /\ m.status = IF l.status \in {"Idle", "NozzleUp", "Offline"} THEN "NozzleUp"
                             ELSE l.status
               /\ m.pre = l.pre /\ m.tx = l.tx /\ m.dose = l.dose
<1>1. l.status \in Status /\ "NozzleUp" \in Status
  BY DEF LaneState, Status
<1> QED BY <1>1 DEF ShownUp, LaneState

LEMMA AuthorizedLane ==
    ASSUME NEW l \in LaneState, NEW j \in Job, j.nozzle \in Nozzle
    PROVE  LET m == Authorized(l, j)
           IN  /\ m \in LaneState /\ m.status = "Authorizing" /\ m.tx = j.nozzle /\ m.pre = None
<1>0. "Authorizing" \in Status /\ j.dose \in Limit /\ 0 \in Volume
  BY Apart DEF Status, Job, Volume
<1> DEFINE k == [l EXCEPT !.status = "Authorizing", !.shown = IF j.reactive THEN @ ELSE 0]
           m == [k EXCEPT !.tx = j.nozzle, !.nozzle = j.nozzle]
<1>1. k \in LaneState /\ k.status = "Authorizing"
  BY <1>0 DEF LaneState
<1>2. Authorized(l, j) = [k EXCEPT !.tx = j.nozzle, !.nozzle = j.nozzle, !.dose = j.dose,
                                   !.pre = None]
  BY <1>1 DEF Authorized, LaneState
<1> HIDE DEF k
<1>3. m \in LaneState /\ m.status = "Authorizing" /\ m.tx = j.nozzle
  BY <1>1 DEF LaneState
<1>4. Authorized(l, j) = [m EXCEPT !.dose = j.dose, !.pre = None]
  BY <1>2, <1>3 DEF LaneState
<1> HIDE DEF m
<1> QED BY <1>0, <1>3, <1>4 DEF LaneState

LEMMA DeliveringLane ==
    ASSUME NEW l \in LaneState, NEW v \in Volume
    PROVE  LET m == [Delivering(l) EXCEPT !.shown = v]
           IN  /\ m \in LaneState /\ m.status = "Delivering" /\ m.pre = l.pre /\ m.dose = l.dose
               /\ m.tx = IF l.tx = None THEN Given(l) ELSE l.tx
               /\ m.tx \in Nozzle
<1> DEFINE t == IF l.tx = None THEN Given(l) ELSE l.tx
<1>1. t \in Nozzle /\ "Delivering" \in Status
  BY Apart DEF LaneState, Given, Status
<1>2. Delivering(l) = [l EXCEPT !.status = "Delivering", !.tx = t]
  BY DEF Delivering
<1> HIDE DEF t
<1>3. /\ Delivering(l) \in LaneState /\ Delivering(l).status = "Delivering"
      /\ Delivering(l).tx = t /\ Delivering(l).pre = l.pre /\ Delivering(l).dose = l.dose
  BY <1>1, <1>2 DEF LaneState
<1> QED BY <1>1, <1>3 DEF LaneState, t

LEMMA HeldLane ==
    ASSUME NEW l \in LaneState
    PROVE  /\ Held(l) \in LaneState /\ Held(l).status = "Stopped" /\ Held(l).tx = l.tx
           /\ Held(l).pre = l.pre /\ Held(l).dose = l.dose
           /\ LET m == [Held(l) EXCEPT !.pre = None]
              IN  m \in LaneState /\ m.status = "Stopped" /\ m.tx = l.tx /\ m.pre = None
<1>1. "Stopped" \in Status
  BY DEF Status
<1>2. /\ Held(l) \in LaneState /\ Held(l).status = "Stopped" /\ Held(l).tx = l.tx
      /\ Held(l).pre = l.pre /\ Held(l).dose = l.dose
  BY <1>1 DEF Held, LaneState
<1> QED BY <1>2 DEF LaneState

LEMMA StoppedLane ==
    ASSUME NEW l \in LaneState
    PROVE  LET m == StoppedByApp(l)
           IN  /\ m \in LaneState /\ m.status = "Stopped" /\ m.tx = l.tx
               /\ (m.pre = l.pre /\ m.dose = l.dose) \/ m.pre = None
BY HeldLane DEF StoppedByApp

LEMMA ClosedLane ==
    ASSUME NEW l \in LaneState, NEW v \in Volume
    PROVE  LET m == Closed(l, v)
           IN  m \in LaneState /\ m.status = "Done" /\ m.tx = None /\ m.pre = None
<1> DEFINE k == [l EXCEPT !.status = "Done", !.shown = v]
<1>1. k \in LaneState /\ k.status = "Done"
  BY DEF LaneState, Status
<1>2. Closed(l, v) = [k EXCEPT !.tx = None, !.pre = None]
  BY <1>1 DEF Closed, LaneState
<1> HIDE DEF k
<1> QED BY <1>1, <1>2 DEF LaneState

(* A lane that goes offline, or that learns which nozzle is up. *)
LEMMA OfflineLane ==
    ASSUME NEW l \in LaneState
    PROVE  LET m == [l EXCEPT !.status = "Offline"]
           IN  /\ m \in LaneState /\ m.status = "Offline" /\ m.tx = l.tx /\ m.pre = l.pre
               /\ m.dose = l.dose /\ m.nozzle = l.nozzle
BY DEF LaneState, Status

LEMMA FreshLaneBare == FreshLane \in LaneState /\ NoJob \in Job
<1>1. FreshLane \in LaneState
  BY Apart DEF FreshLane, LaneState, Status, Limit, Volume
<1>2. NoJob \in Job
  BY Apart DEF NoJob, Job, Limit, Volume, Fill
<1> QED BY <1>1, <1>2

LEMMA RenamedLane ==
    ASSUME NEW l \in LaneState, NEW n \in Nozzle
    PROVE  LET m == [Cancelled(l) EXCEPT !.status = "NozzleUp", !.nozzle = n]
           IN  /\ m \in LaneState /\ m.status = "NozzleUp" /\ m.nozzle = n /\ m.pre = None
               /\ m.tx = None
<1>1. Bare(Cancelled(l)) /\ "NozzleUp" \in Status
  BY CancelledLane DEF Status
<1> QED BY <1>1 DEF Bare, LaneState

----------------------------------------------------------------------------
(* The budget. *)

Counts == {"orders", "cancels", "expires", "stops", "estops", "resets", "clears", "losses",
           "noise", "limits", "faults", "crashes"}

(* What is spent of b leaves c: it is of one kind, and the rules stay. *)
Spares(b, c, what) ==
    /\ c \in Budget
    /\ c.lifts = b.lifts /\ c.late = b.late /\ c.early = b.early
    /\ c.losses = IF what = "losses" THEN b.losses - 1 ELSE b.losses
    /\ c.faults = IF what = "faults" THEN b.faults - 1 ELSE b.faults
    /\ c.limits = IF what = "limits" THEN b.limits - 1 ELSE b.limits
    /\ c.stops = IF what = "stops" THEN b.stops - 1 ELSE b.stops
    /\ c.estops = IF what = "estops" THEN b.estops - 1 ELSE b.estops

LEMMA BudgetParts ==
    ASSUME NEW b \in Budget
    PROVE  /\ b.lifts \in Nat /\ b.losses \in Nat /\ b.faults \in Nat /\ b.limits \in Nat
           /\ b.stops \in Nat /\ b.estops \in Nat
           /\ b.late \in BOOLEAN /\ b.early \in BOOLEAN
           /\ \A what \in Counts : b[what] \in Nat
BY DEF Budget, Counts

LEMMA LessSpares ==
    ASSUME NEW b \in Budget, NEW what \in Counts, b[what] > 0
    PROVE  Spares(b, [b EXCEPT ![what] = @ - 1], what)
<1>1. CASE what = "orders"
  <2>1. b.orders \in Nat /\ b.orders > 0
    BY <1>1 DEF Budget
  <2>2. Spares(b, [b EXCEPT !.orders = @ - 1], "orders")
    BY <2>1 DEF Budget, Spares
  <2> QED BY <1>1, <2>2
<1>2. CASE what = "cancels"
  <2>1. b.cancels \in Nat /\ b.cancels > 0
    BY <1>2 DEF Budget
  <2>2. Spares(b, [b EXCEPT !.cancels = @ - 1], "cancels")
    BY <2>1 DEF Budget, Spares
  <2> QED BY <1>2, <2>2
<1>3. CASE what = "expires"
  <2>1. b.expires \in Nat /\ b.expires > 0
    BY <1>3 DEF Budget
  <2>2. Spares(b, [b EXCEPT !.expires = @ - 1], "expires")
    BY <2>1 DEF Budget, Spares
  <2> QED BY <1>3, <2>2
<1>4. CASE what = "stops"
  <2>1. b.stops \in Nat /\ b.stops > 0
    BY <1>4 DEF Budget
  <2>2. Spares(b, [b EXCEPT !.stops = @ - 1], "stops")
    BY <2>1 DEF Budget, Spares
  <2> QED BY <1>4, <2>2
<1>5. CASE what = "estops"
  <2>1. b.estops \in Nat /\ b.estops > 0
    BY <1>5 DEF Budget
  <2>2. Spares(b, [b EXCEPT !.estops = @ - 1], "estops")
    BY <2>1 DEF Budget, Spares
  <2> QED BY <1>5, <2>2
<1>6. CASE what = "resets"
  <2>1. b.resets \in Nat /\ b.resets > 0
    BY <1>6 DEF Budget
  <2>2. Spares(b, [b EXCEPT !.resets = @ - 1], "resets")
    BY <2>1 DEF Budget, Spares
  <2> QED BY <1>6, <2>2
<1>7. CASE what = "clears"
  <2>1. b.clears \in Nat /\ b.clears > 0
    BY <1>7 DEF Budget
  <2>2. Spares(b, [b EXCEPT !.clears = @ - 1], "clears")
    BY <2>1 DEF Budget, Spares
  <2> QED BY <1>7, <2>2
<1>8. CASE what = "losses"
  <2>1. b.losses \in Nat /\ b.losses > 0
    BY <1>8 DEF Budget
  <2>2. Spares(b, [b EXCEPT !.losses = @ - 1], "losses")
    BY <2>1 DEF Budget, Spares
  <2> QED BY <1>8, <2>2
<1>9. CASE what = "noise"
  <2>1. b.noise \in Nat /\ b.noise > 0
    BY <1>9 DEF Budget
  <2>2. Spares(b, [b EXCEPT !.noise = @ - 1], "noise")
    BY <2>1 DEF Budget, Spares
  <2> QED BY <1>9, <2>2
<1>10. CASE what = "limits"
  <2>1. b.limits \in Nat /\ b.limits > 0
    BY <1>10 DEF Budget
  <2>2. Spares(b, [b EXCEPT !.limits = @ - 1], "limits")
    BY <2>1 DEF Budget, Spares
  <2> QED BY <1>10, <2>2
<1>11. CASE what = "faults"
  <2>1. b.faults \in Nat /\ b.faults > 0
    BY <1>11 DEF Budget
  <2>2. Spares(b, [b EXCEPT !.faults = @ - 1], "faults")
    BY <2>1 DEF Budget, Spares
  <2> QED BY <1>11, <2>2
<1>12. CASE what = "crashes"
  <2>1. b.crashes \in Nat /\ b.crashes > 0
    BY <1>12 DEF Budget
  <2>2. Spares(b, [b EXCEPT !.crashes = @ - 1], "crashes")
    BY <2>1 DEF Budget, Spares
  <2> QED BY <1>12, <2>2
<1> QED BY <1>1, <1>2, <1>3, <1>4, <1>5, <1>6, <1>7, <1>8, <1>9, <1>10, <1>11, <1>12 DEF Counts

LEMMA SpendSpares ==
    ASSUME left \in Budget, NEW what \in Counts, Spend(what)
    PROVE  left[what] > 0 /\ Spares(left, left', what)
<1>1. left[what] > 0 /\ left' = [left EXCEPT ![what] = @ - 1]
  BY DEF Spend
<1>2. PICK k : k = [left EXCEPT ![what] = @ - 1]
  OBVIOUS
<1>3. Spares(left, k, what)
  BY <1>1, <1>2, LessSpares
<1> QED BY Zenon, <1>1, <1>2, <1>3

(* Nothing is spent. *)
LEMMA SameSpares ==
    ASSUME left \in Budget, UNCHANGED left
    PROVE  Spares(left, left', "nothing")
BY DEF Spares

----------------------------------------------------------------------------
(* Types. *)

LaneTyped == lane \in LaneState /\ (lane.status = "NozzleUp" => lane.nozzle \in Nozzle)

QueueTyped == queue \in Seq(Command) /\ Len(queue) <= MaxQueue

JobTyped ==
    /\ at \in {"rest", "identify", "price", "preset", "authorize", "display", "close", "commit"}
    /\ job \in Job
    /\ Framing => job.nozzle \in Nozzle
    /\ Closing => Closeable(lane)

HistoryTyped ==
    /\ fills \in Fill /\ {order, served} \subseteq Order \cup {NoOrder} /\ forgotten \in BOOLEAN
    /\ cleared \subseteq Fill

Typed ==
    /\ pump \in PumpState /\ LaneTyped /\ QueueTyped /\ JobTyped
    /\ bill \in [Fill -> Seq(Row)] /\ HistoryTyped
    /\ left \in Budget /\ left.lifts <= MaxFills

(* The loop is at rest with a lane of its type. *)
LEMMA RestTyped ==
    ASSUME Rest
    PROVE  JobTyped' /\ at' = "rest" /\ job' = NoJob
BY FreshLaneBare DEF Rest, Goto, JobTyped, Framing, Closing

LEMMA SparesTyped ==
    ASSUME Typed, NEW what, Spares(left, left', what)
    PROVE  left' \in Budget /\ left'.lifts <= MaxFills
BY DEF Typed, Spares

LEMMA SpendIfSpares ==
    ASSUME Typed, NEW what \in Counts, NEW spent \in BOOLEAN, SpendIf(spent, what)
    PROVE  IF spent THEN left[what] > 0 /\ Spares(left, left', what) 
           ELSE Spares(left, left', "nothing") /\ UNCHANGED left
BY SpendSpares, SameSpares DEF Typed, SpendIf

LEMMA JobParts ==
    ASSUME NEW j \in Job
    PROVE  /\ j.nozzle \in Nozzle \cup {None} /\ j.dose \in Limit /\ j.tries \in 0 .. 1
           /\ j.why \in {"poll", "reset"} /\ j.attempt \in 1 .. 5 /\ j.volume \in Volume
           /\ j.fill \in Fill
BY DEF Job

LEMMA StatusMissedTyped ==
    ASSUME Typed, NEW arrived \in BOOLEAN, NEW threshold \in BOOLEAN,
           StatusMissed(arrived, threshold)
    PROVE  Typed'
<1>1. pump' \in PumpState
  BY ToldPump DEF Typed, StatusMissed
<1>2. LaneTyped'
  <2>1. CASE threshold
    <3>1. lane' = [lane EXCEPT !.status = "Offline"]
      BY <2>1 DEF StatusMissed
    <3> QED BY <3>1, OfflineLane DEF Typed, LaneTyped
  <2>2. CASE ~threshold
    <3>1. lane' = lane
      BY <2>2 DEF StatusMissed, Typed, LaneTyped, LaneState
    <3> QED BY <3>1 DEF Typed, LaneTyped
  <2> QED BY <2>1, <2>2
<1>3. Spares(left, left', "losses")
  BY SpendSpares DEF Typed, StatusMissed, Counts
<1> QED BY <1>1, <1>2, <1>3, SparesTyped, RestTyped
        DEF Typed, StatusMissed, QueueTyped, HistoryTyped, ghosts

LEMMA HeardTyped ==
    ASSUME Typed, NEW phase, Heard(phase), LaneTyped', JobTyped',
           order' \in Order \cup {NoOrder}
    PROVE  Typed'
BY ToldPump DEF Typed, Heard, QueueTyped, HistoryTyped

LEMMA RestedTyped ==
    ASSUME LaneTyped, lane' = Rested(lane)
    PROVE  LaneTyped'
BY RestedLane DEF LaneTyped, Bare

LEMMA NoOrderTyped ==
    ASSUME Typed, order' \in {order, NoOrder}
    PROVE  order' \in Order \cup {NoOrder}
BY DEF Typed, HistoryTyped

LEMMA StatusIdleTyped ==
    ASSUME Typed, StatusIdle
    PROVE  Typed'
<1>1. Heard("Idle") /\ LaneTyped
  BY DEF StatusIdle, Typed
<1>2. CASE lane.status \in {"Delivering", "Authorizing"}
  <2>1. UNCHANGED <<lane, order>> /\ at' = "close" /\ job' = NoJob
    BY <1>2 DEF StatusIdle, Goto
  <2>2. JobTyped'
    BY <1>2, <2>1, FreshLaneBare DEF JobTyped, Framing, Closing, Closeable
  <2> QED BY <1>1, <2>1, <2>2, NoOrderTyped, HeardTyped DEF LaneTyped
<1>3. CASE lane.status = "PreAuthorized" /\ lane.pre # None
  <2>1. UNCHANGED <<lane, order>> /\ Rest
    BY <1>3 DEF StatusIdle
  <2> QED BY <1>1, <2>1, RestTyped, NoOrderTyped, HeardTyped DEF LaneTyped
<1>4. CASE ~(lane.status \in {"Delivering", "Authorizing"})
           /\ ~(lane.status = "PreAuthorized" /\ lane.pre # None)
  <2>1. /\ lane' = Rested(lane) /\ Rest
        /\ order' = IF lane.status = "Stopped" THEN order ELSE NoOrder
    BY <1>4 DEF StatusIdle
  <2> QED BY <1>1, <2>1, RestTyped, RestedTyped, NoOrderTyped, HeardTyped
<1> QED BY <1>2, <1>3, <1>4

LEMMA GotoTyped ==
    ASSUME Typed, NEW step \in {"identify", "display"}, Goto(step, NoJob)
    PROVE  JobTyped' /\ at' = step
BY FreshLaneBare DEF Goto, JobTyped, Framing, Closing

LEMMA StatusAsksTyped ==
    ASSUME Typed, StatusLifted \/ StatusFlowing
    PROVE  Typed'
<1>1. PICK phase : Heard(phase)
  BY DEF StatusLifted, StatusFlowing
<1>2. UNCHANGED <<lane, order>> /\ \E step \in {"identify", "display"} : Goto(step, NoJob)
  BY DEF StatusLifted, StatusFlowing
<1>3. JobTyped' /\ LaneTyped'
  BY <1>2, GotoTyped DEF Typed, LaneTyped
<1> QED BY <1>1, <1>2, <1>3, NoOrderTyped, HeardTyped

LEMMA StatusCompleteTyped ==
    ASSUME Typed, StatusComplete
    PROVE  Typed'
<1>1. Heard("Complete") /\ LaneTyped
  BY DEF StatusComplete, Typed
<1>2. CASE Closeable(lane)
  <2>1. UNCHANGED <<lane, order>> /\ at' = "close" /\ job' = NoJob
    BY <1>2 DEF StatusComplete, Goto
  <2>2. JobTyped'
    BY <1>2, <2>1, FreshLaneBare DEF JobTyped, Framing, Closing
  <2> QED BY <1>1, <2>1, <2>2, NoOrderTyped, HeardTyped DEF LaneTyped
<1>3. CASE ~Closeable(lane)
  <2>1. lane' = Rested(lane) /\ order' = NoOrder /\ Rest
    BY <1>3 DEF StatusComplete
  <2> QED BY <1>1, <2>1, RestTyped, RestedTyped, NoOrderTyped, HeardTyped
<1> QED BY <1>2, <1>3

LEMMA StatusStoppedTyped ==
    ASSUME Typed, StatusStopped
    PROVE  Typed'
<1>1. Heard("Stopped") /\ Rest /\ order' = order
      /\ lane' = IF lane.status = "Stopped" THEN lane ELSE Held(lane)
  BY DEF StatusStopped
<1>2. LaneTyped'
  BY <1>1, HeldLane DEF Typed, LaneTyped
<1> QED BY <1>1, <1>2, RestTyped, NoOrderTyped, HeardTyped

(* What the loop does to the lane and its order at the end of an exchange. *)
LEMMA PlainTyped ==
    ASSUME Typed, UNCHANGED <<queue, fills, served, forgotten, cleared>>,
           pump' \in PumpState, LaneTyped', JobTyped', bill' \in [Fill -> Seq(Row)],
           order' \in {order, NoOrder},
           NEW what, Spares(left, left', what)
    PROVE  Typed'
BY NoOrderTyped, SparesTyped DEF Typed, QueueTyped, HistoryTyped

LEMMA LostSpares ==
    ASSUME Typed, NEW heard \in BOOLEAN, SpendIf(~heard, "losses")
    PROVE  IF heard THEN Spares(left, left', "nothing") /\ UNCHANGED left
           ELSE left.losses > 0 /\ Spares(left, left', "losses")
BY SpendIfSpares DEF Counts

(* The nozzle that is heard, and what follows. *)
LEMMA Identified ==
    ASSUME Typed, NEW heard \in BOOLEAN, Identify(heard)
    PROVE  /\ \/ Rest /\ UNCHANGED <<lane, order>>
              \/ /\ heard /\ HoseOut(pump) /\ Rest /\ order' = NoOrder
                 /\ Pending(lane) /\ lane.pre \in Nozzle \ {pump.nozzle}
                 /\ lane' = [Cancelled(lane) EXCEPT !.status = "NozzleUp", !.nozzle = pump.nozzle]
              \/ /\ heard /\ HoseOut(pump) /\ UNCHANGED <<lane, order>>
                 /\ Pending(lane) /\ lane.pre \notin Nozzle \ {pump.nozzle}
                 /\ at' = "price"
                 /\ job' = [NoJob EXCEPT !.nozzle = pump.nozzle, !.dose = lane.dose]
              \/ /\ heard /\ HoseOut(pump) /\ Rest /\ ~Pending(lane)
                 /\ lane' = ShownUp(lane, pump.nozzle) /\ UNCHANGED order
           /\ at = "identify"
           /\ IF heard THEN Spares(left, left', "nothing") /\ UNCHANGED left
              ELSE left.losses > 0 /\ Spares(left, left', "losses")
           /\ UNCHANGED <<pump, queue, bill, fills, served, forgotten, cleared>>
<1> DEFINE n == IF heard THEN NozzleTold(pump) ELSE None
<1>1. n # None => heard /\ HoseOut(pump) /\ n = pump.nozzle /\ n \in Nozzle
  BY DEF NozzleTold, Typed, PumpState
<1>2. at = "identify" /\ SpendIf(~heard, "losses")
      /\ UNCHANGED <<pump, queue, bill, fills, served, forgotten, cleared>>
  BY DEF Identify
<1>3. CASE n = None
  <2>1. UNCHANGED <<lane, order>> /\ Rest
    BY <1>3 DEF Identify
  <2> QED BY <1>2, <2>1, LostSpares
<1>4. CASE n # None /\ Pending(lane) /\ lane.pre \in Nozzle \ {n}
  <2>1. /\ lane' = [Cancelled(lane) EXCEPT !.status = "NozzleUp", !.nozzle = n]
        /\ order' = NoOrder /\ Rest
    BY <1>4 DEF Identify
  <2> QED BY <1>1, <1>2, <1>4, <2>1, LostSpares
<1>5. CASE n # None /\ Pending(lane) /\ lane.pre \notin Nozzle \ {n}
  <2>1. /\ UNCHANGED <<lane, order>>
        /\ Goto("price", [NoJob EXCEPT !.nozzle = n, !.dose = lane.dose])
    BY <1>5 DEF Identify
  <2> QED BY <1>1, <1>2, <1>5, <2>1, LostSpares DEF Goto
<1>6. CASE n # None /\ ~Pending(lane)
  <2>1. lane' = ShownUp(lane, n) /\ UNCHANGED order /\ Rest
    BY <1>6 DEF Identify
  <2> QED BY <1>1, <1>2, <1>6, <2>1, LostSpares
<1> QED BY <1>3, <1>4, <1>5, <1>6

LEMMA IdentifyTyped ==
    ASSUME Typed, NEW heard \in BOOLEAN, Identify(heard)
    PROVE  Typed'
<1>1. PICK what : Spares(left, left', what)
  BY Identified
<1>2. /\ UNCHANGED <<pump, queue, bill, fills, served, forgotten, cleared>>
      /\ order' \in {order, NoOrder} /\ pump \in PumpState /\ bill \in [Fill -> Seq(Row)]
      /\ lane \in LaneState /\ pump.nozzle \in Nozzle
  BY Identified DEF Typed, PumpState, LaneTyped
<1>3. LaneTyped' /\ JobTyped'
  <2>1. CASE UNCHANGED lane /\ Rest
    BY <2>1, RestTyped DEF Typed, LaneTyped
  <2>2. CASE lane' = [Cancelled(lane) EXCEPT !.status = "NozzleUp", !.nozzle = pump.nozzle] /\ Rest
    BY <1>2, <2>2, RestTyped, RenamedLane DEF LaneTyped
  <2>3. CASE UNCHANGED lane /\ at' = "price"
             /\ job' = [NoJob EXCEPT !.nozzle = pump.nozzle, !.dose = lane.dose]
    <3>1. job' \in Job /\ job'.nozzle = pump.nozzle
      BY <1>2, <2>3, FreshLaneBare DEF Job, LaneState
    <3> QED BY <1>2, <2>3, <3>1 DEF LaneTyped, JobTyped, Framing, Closing, Typed
  <2>4. CASE lane' = ShownUp(lane, pump.nozzle) /\ Rest
    BY <1>2, <2>4, RestTyped, ShownUpLane DEF LaneTyped
  <2> QED BY <2>1, <2>2, <2>3, <2>4, Identified
<1> QED BY <1>1, <1>2, <1>3, PlainTyped

(* A frame: command mode is not entered, or the frame is lost, or it arrives. *)
LEMMA FrameSent ==
    ASSUME Typed, NEW step, NEW heard \in BOOLEAN, NEW arrived \in BOOLEAN,
           NEW lost \in {"noise", "limits"}, SendFrame(step, heard, arrived, lost)
    PROVE  /\ at = step /\ (arrived => heard)
           /\ \/ ~heard /\ left.losses > 0 /\ Spares(left, left', "losses")
              \/ heard /\ ~arrived /\ left[lost] > 0 /\ Spares(left, left', lost)
              \/ heard /\ arrived /\ Spares(left, left', "nothing") /\ UNCHANGED left
<1>1. at = step /\ (arrived => heard) /\ left \in Budget /\ {"losses", lost} \subseteq Counts
  BY DEF SendFrame, Typed, Counts
<1>2. CASE ~heard
  BY <1>1, <1>2, SpendSpares DEF SendFrame
<1>3. CASE heard /\ ~arrived
  BY <1>1, <1>3, SpendSpares DEF SendFrame
<1>4. CASE heard /\ arrived
  BY <1>1, <1>4, SameSpares DEF SendFrame
<1> QED BY <1>1, <1>2, <1>3, <1>4

LEMMA SendPriceTyped ==
    ASSUME Typed, NEW heard \in BOOLEAN, NEW arrived \in BOOLEAN, SendPrice(heard, arrived)
    PROVE  Typed'
<1>1. PICK what : Spares(left, left', what)
  BY FrameSent DEF SendPrice
<1>2. UNCHANGED <<pump, lane, queue, bill, fills, order, served, forgotten, cleared>> /\ Framing
  BY FrameSent DEF SendPrice, ghosts, Framing
<1>3. JobTyped'
  <2>1. CASE heard
    BY <1>2, <2>1 DEF SendPrice, Goto, Typed, JobTyped, Framing, Closing
  <2>2. CASE ~heard
    BY <2>2, RestTyped DEF SendPrice
  <2> QED BY <2>1, <2>2
<1> QED BY <1>1, <1>2, <1>3, PlainTyped DEF Typed, LaneTyped

LEMMA SendPresetTyped ==
    ASSUME Typed, NEW heard \in BOOLEAN, NEW arrived \in BOOLEAN, SendPreset(heard, arrived)
    PROVE  Typed'
<1>1. PICK what : Spares(left, left', what)
  BY FrameSent DEF SendPreset
<1>2. UNCHANGED <<lane, queue, bill, fills, order, served, forgotten, cleared>> /\ Framing
  BY FrameSent DEF SendPreset, ghosts, Framing
<1>3. JobTyped'
  <2>1. CASE heard
    BY <1>2, <2>1 DEF SendPreset, Goto, Typed, JobTyped, Framing, Closing
  <2>2. CASE ~heard
    BY <2>2, RestTyped DEF SendPreset
  <2> QED BY <2>1, <2>2
<1>4. pump' \in PumpState
  BY CommandedPump, JobParts DEF SendPreset, Typed, JobTyped
<1> QED BY <1>1, <1>2, <1>3, <1>4, PlainTyped DEF Typed, LaneTyped

LEMMA AuthorizeSent ==
    ASSUME Typed, NEW arrived \in BOOLEAN, SendAuthorize(arrived)
    PROVE  /\ at = "authorize" /\ Rest /\ lane' = Authorized(lane, job)
           /\ pump' = IF arrived THEN PumpAuthorize(pump) ELSE pump
           /\ served' = IF pump' # pump THEN order ELSE served
           /\ lane' \in LaneState /\ lane'.status = "Authorizing" /\ lane'.tx = job.nozzle
           /\ lane'.pre = None /\ job.nozzle \in Nozzle
           /\ IF arrived THEN Spares(left, left', "nothing") /\ UNCHANGED left
              ELSE Spares(left, left', "noise")
           /\ UNCHANGED <<queue, bill, fills, order, forgotten, cleared>>
<1>1. job \in Job /\ job.nozzle \in Nozzle /\ lane \in LaneState
  BY DEF SendAuthorize, Typed, JobTyped, Framing, LaneTyped
<1>2. SpendIf(~arrived, "noise") /\ "noise" \in Counts
  BY DEF SendAuthorize, Counts
<1> QED BY <1>1, <1>2, SpendIfSpares, AuthorizedLane DEF SendAuthorize

LEMMA SendAuthorizeTyped ==
    ASSUME Typed, NEW arrived \in BOOLEAN, SendAuthorize(arrived)
    PROVE  Typed'
<1>1. PICK what : Spares(left, left', what)
  BY AuthorizeSent
<1>2. Rest /\ LaneTyped' /\ UNCHANGED <<queue, bill, fills, order, forgotten, cleared>>
      /\ served' \in {order, served}
  BY AuthorizeSent DEF LaneTyped
<1>3. pump' \in PumpState
  BY AuthorizeSent, CommandedPump, JobParts DEF Typed, JobTyped
<1> QED BY <1>1, <1>2, <1>3, SparesTyped, RestTyped DEF Typed, QueueTyped, HistoryTyped

LEMMA DisplayGot ==
    ASSUME Typed, NEW heard \in BOOLEAN, GetDisplay(heard)
    PROVE  /\ at = "display" /\ Rest
           /\ lane' \in LaneState /\ lane'.status = "Delivering" /\ lane'.pre = lane.pre
           /\ lane'.dose = lane.dose /\ lane'.tx \in Nozzle
           /\ lane.tx # None => lane'.tx = lane.tx
           /\ IF heard THEN Spares(left, left', "nothing") /\ UNCHANGED left
              ELSE left.losses > 0 /\ Spares(left, left', "losses")
           /\ UNCHANGED <<pump, queue, bill, ghosts>>
<1> DEFINE v == IF heard THEN pump.volume ELSE lane.shown
<1>1. lane \in LaneState /\ v \in Volume
  BY DEF Typed, LaneTyped, LaneState, PumpState
<1>2. lane' = [Delivering(lane) EXCEPT !.shown = v]
  <2>1. Delivering(lane).shown = lane.shown
    BY <1>1 DEF Delivering, LaneState
  <2> QED BY <2>1 DEF GetDisplay
<1> HIDE DEF v
<1> QED BY <1>1, <1>2, DeliveringLane, LostSpares DEF GetDisplay

LEMMA GetDisplayTyped ==
    ASSUME Typed, NEW heard \in BOOLEAN, GetDisplay(heard)
    PROVE  Typed'
<1>1. PICK what : Spares(left, left', what)
  BY DisplayGot
<1>2. UNCHANGED <<pump, queue, bill, ghosts>> /\ LaneTyped' /\ Rest
  BY DisplayGot DEF LaneTyped
<1> QED BY <1>1, <1>2, PlainTyped, RestTyped DEF Typed, ghosts

(* A close that fails leaves the lane as it is, or resets it, or tries again. *)
LEMMA FailedClose ==
    ASSUME Typed, Closing, CloseFailed
    PROVE  \/ UNCHANGED <<lane, order>> /\ Rest
           \/ /\ job.why = "reset" /\ UNCHANGED <<lane, order>> /\ at' = "close"
              /\ job' = [job EXCEPT !.attempt = @ + 1, !.tries = 0]
              /\ job' \in Job /\ job'.why = "reset"
           \/ job.why = "reset" /\ lane' = ResetLane(lane) /\ order' = NoOrder /\ Rest
<1>1. job \in Job /\ job.why \in {"poll", "reset"} /\ job.attempt \in 1 .. 5 /\ lane.held \in Volume
  BY JobParts DEF Typed, JobTyped, LaneTyped, LaneState
<1>2. CASE job.why = "poll"
  BY <1>2 DEF CloseFailed
<1>3. CASE job.why = "reset" /\ lane.held > 0 /\ job.attempt < CloseRetries
  <2>0. ~(job.attempt = CloseRetries) /\ ~(lane.held = 0) /\ ~(job.why = "poll")
    BY <1>1, <1>3, Apart DEF CloseRetries, Volume
  <2>1. UNCHANGED <<lane, order>> /\ at' = "close"
        /\ job' = [job EXCEPT !.attempt = @ + 1, !.tries = 0]
    BY <1>3, <2>0, Zenon DEF CloseFailed, Goto
  <2>2. job' \in Job /\ job'.why = "reset"
    <3>1. job.attempt + 1 \in 1 .. 5 /\ 0 \in 0 .. 1
      BY <1>1, <1>3 DEF CloseRetries
    <3> QED BY <1>1, <1>3, <2>1, <3>1 DEF Job
  <2> QED BY <1>3, <2>1, <2>2
<1>4. CASE job.why = "reset" /\ lane.held > 0 /\ job.attempt = CloseRetries
  <2>1. ~(job.attempt < CloseRetries) /\ ~(lane.held = 0) /\ ~(job.why = "poll")
    BY <1>1, <1>4, Apart DEF CloseRetries, Volume
  <2> QED BY <1>4, <2>1, Zenon DEF CloseFailed
<1>5. CASE job.why = "reset" /\ lane.held = 0
  BY <1>5 DEF CloseFailed
<1>6. lane.held > 0 \/ lane.held = 0
  BY <1>1, Apart DEF Volume
<1>7. job.attempt < CloseRetries \/ job.attempt = CloseRetries
  BY <1>1 DEF CloseRetries
<1> QED BY <1>1, <1>2, <1>3, <1>4, <1>5, <1>6, <1>7

LEMMA FailedCloseTyped ==
    ASSUME Typed, Closing, CloseFailed
    PROVE  LaneTyped' /\ JobTyped' /\ order' \in {order, NoOrder}
<1>1. LaneTyped /\ Closeable(lane)
  BY DEF Typed, JobTyped
<1>2. CASE UNCHANGED <<lane, order>> /\ Rest
  BY <1>1, <1>2, RestTyped DEF LaneTyped
<1>3. CASE UNCHANGED <<lane, order>> /\ at' = "close" /\ job' \in Job
  BY <1>1, <1>3 DEF LaneTyped, JobTyped, Framing, Closing
<1>4. CASE lane' = ResetLane(lane) /\ order' = NoOrder /\ Rest
  BY <1>1, <1>4, RestTyped, ResetLaneBare DEF LaneTyped, Bare
<1> QED BY <1>2, <1>3, <1>4, FailedClose

LEMMA TransactionGot ==
    ASSUME Typed, NEW heard \in BOOLEAN, GetTransaction(heard)
    PROVE  /\ at = "close" /\ Closing
           /\ UNCHANGED <<pump, queue, bill, fills, served, forgotten, cleared>>
           /\ IF heard THEN Spares(left, left', "nothing") /\ UNCHANGED left
              ELSE left.losses > 0 /\ Spares(left, left', "losses")
           /\ \/ /\ heard /\ at' = "commit" /\ job' \in Job /\ job'.volume = pump.volume
                 /\ job'.fill = fills /\ job'.why = job.why /\ UNCHANGED <<lane, order>>
              \/ /\ ~heard /\ at' = "close" /\ job' \in Job /\ job'.why = job.why
                 /\ UNCHANGED <<lane, order>>
              \/ ~heard /\ CloseFailed
<1>1. at = "close" /\ SpendIf(~heard, "losses")
      /\ UNCHANGED <<pump, queue, bill, fills, served, forgotten, cleared>>
  BY DEF GetTransaction
<1>2. job \in Job /\ job.tries \in 0 .. 1 /\ pump.volume \in Volume /\ fills \in Fill
  BY JobParts DEF Typed, JobTyped, PumpState, HistoryTyped
<1>3. CASE heard
  <2>1. /\ at' = "commit" /\ job' = [job EXCEPT !.volume = pump.volume, !.fill = fills]
        /\ UNCHANGED <<lane, order>>
    BY <1>3 DEF GetTransaction, Goto
  <2>2. job' \in Job /\ job'.volume = pump.volume /\ job'.fill = fills /\ job'.why = job.why
    BY <1>2, <2>1 DEF Job
  <2> QED BY <1>1, <1>3, <2>1, <2>2, LostSpares DEF Closing
<1>4. CASE ~heard /\ job.tries = 0
  <2>1. at' = "close" /\ job' = [job EXCEPT !.tries = 1] /\ UNCHANGED <<lane, order>>
    BY <1>4 DEF GetTransaction, Goto
  <2>2. job' \in Job /\ job'.why = job.why
    BY <1>2, <2>1 DEF Job
  <2> QED BY <1>1, <1>4, <2>1, <2>2, LostSpares DEF Closing
<1>5. CASE ~heard /\ job.tries = 1
  BY <1>1, <1>5, LostSpares DEF GetTransaction, Closing
<1> QED BY <1>2, <1>3, <1>4, <1>5

LEMMA GetTransactionTyped ==
    ASSUME Typed, NEW heard \in BOOLEAN, GetTransaction(heard)
    PROVE  Typed'
<1>1. PICK what : Spares(left, left', what)
  BY TransactionGot
<1>2. UNCHANGED <<pump, queue, bill, fills, served, forgotten, cleared>> /\ Closing
      /\ Closeable(lane) /\ LaneTyped
  BY TransactionGot DEF Typed, JobTyped
<1>3. LaneTyped' /\ JobTyped' /\ order' \in {order, NoOrder}
  <2>1. CASE CloseFailed
    BY <1>2, <2>1, FailedCloseTyped
  <2>2. CASE UNCHANGED <<lane, order>> /\ at' \in {"close", "commit"} /\ job' \in Job
    BY <1>2, <2>2 DEF LaneTyped, JobTyped, Framing, Closing
  <2> QED BY <2>1, <2>2, TransactionGot
<1> QED BY <1>1, <1>2, <1>3, PlainTyped DEF Typed

(* The nozzle of a bill. *)
Sold == IF lane.tx # None THEN lane.tx ELSE Given(lane)

LEMMA SaleCommitted ==
    ASSUME Typed, CommitSale
    PROVE  /\ at = "commit" /\ Rest /\ UNCHANGED <<pump, queue, ghosts, left>>
           /\ job \in Job /\ job.fill \in Fill /\ Sold \in Nozzle
           /\ bill' = [bill EXCEPT ![job.fill] = Append(@, [volume |-> job.volume, nozzle |-> Sold])]
           /\ bill' \in [Fill -> Seq(Row)]
           /\ lane' \in LaneState /\ lane'.status = "Done" /\ lane'.tx = None /\ lane'.pre = None
<1>1. lane \in LaneState /\ job \in Job /\ job.fill \in Fill /\ job.volume \in Volume
      /\ bill \in [Fill -> Seq(Row)]
  BY JobParts DEF Typed, JobTyped, LaneTyped
<1>2. Sold \in Nozzle
  BY <1>1, Apart DEF Sold, Given, LaneState
<1>3. /\ bill' = [bill EXCEPT ![job.fill] = Append(@, [volume |-> job.volume, nozzle |-> Sold])]
      /\ lane' = Closed(lane, job.volume)
  BY DEF CommitSale, Sold
<1>4. [volume |-> job.volume, nozzle |-> Sold] \in Row
  BY <1>1, <1>2 DEF Row
<1>5. Append(bill[job.fill], [volume |-> job.volume, nozzle |-> Sold]) \in Seq(Row)
  BY <1>1, <1>4
<1> DEFINE rows == Append(bill[job.fill], [volume |-> job.volume, nozzle |-> Sold])
<1>6. bill' \in [Fill -> Seq(Row)]
  <2>1. rows \in Seq(Row) /\ bill' = [bill EXCEPT ![job.fill] = rows]
    BY <1>3, <1>5
  <2> HIDE DEF rows
  <2> QED BY <1>1, <2>1
<1>7. at = "commit" /\ Rest /\ UNCHANGED <<pump, queue, ghosts, left>>
  BY DEF CommitSale
<1>8. lane' \in LaneState /\ lane'.status = "Done" /\ lane'.tx = None /\ lane'.pre = None
  BY <1>1, <1>3, ClosedLane
<1> HIDE DEF rows
<1> QED BY <1>1, <1>2, <1>3, <1>6, <1>7, <1>8

LEMMA CommitSaleTyped ==
    ASSUME Typed, CommitSale
    PROVE  Typed'
<1>1. LaneTyped' /\ Rest /\ bill' \in [Fill -> Seq(Row)] /\ UNCHANGED <<pump, queue, ghosts, left>>
  BY SaleCommitted DEF LaneTyped
<1>2. Spares(left, left', "nothing")
  BY <1>1, SameSpares DEF Typed
<1> QED BY <1>1, <1>2, PlainTyped, RestTyped DEF Typed, ghosts

LEMMA CommitFailsTyped ==
    ASSUME Typed, CommitFails
    PROVE  Typed'
<1>1. Spares(left, left', "faults")
  BY SpendSpares DEF CommitFails, Typed, Counts
<1>2. Closing /\ CloseFailed /\ UNCHANGED <<pump, queue, bill, fills, served, forgotten, cleared>>
  BY DEF CommitFails, Closing
<1> QED BY <1>1, <1>2, FailedCloseTyped, PlainTyped DEF Typed

LEMMA CommandParts ==
    ASSUME NEW c \in Command
    PROVE  /\ c.nozzle \in Nozzle \cup {None} /\ c.dose \in Limit
           /\ c.kind \in {"order", "cancel", "stop", "estop", "reset", "clear"}
BY DEF Command

LEMMA Taken ==
    ASSUME Typed, NEW kind, Dequeued(kind)
    PROVE  /\ at = "rest" /\ queue # <<>> /\ Head(queue) \in Command /\ Head(queue).kind = kind
           /\ Head(queue) = queue[1] /\ 1 \in DOMAIN queue
           /\ queue' = Tail(queue) /\ QueueTyped' /\ Len(queue') = Len(queue) - 1
           /\ \A i \in DOMAIN queue' : i + 1 \in DOMAIN queue /\ queue'[i] = queue[i + 1]
           /\ UNCHANGED <<bill, fills, served, cleared>>
           /\ forgotten' = (forgotten \/ (kind = "cancel" /\ lane.tx # None))
<1>1. /\ at = "rest" /\ queue # <<>> /\ queue' = Tail(queue) /\ Head(queue).kind = kind
      /\ UNCHANGED <<bill, fills, served, cleared>>
      /\ forgotten' = (forgotten \/ (kind = "cancel" /\ lane.tx # None))
  BY DEF Dequeued
<1>2. queue \in Seq(Command) /\ Len(queue) <= MaxQueue /\ MaxQueue \in Nat
  BY MaxQueueAssumption DEF Typed, QueueTyped
<1>3. /\ Head(queue) \in Command /\ Head(queue) = queue[1] /\ 1 \in DOMAIN queue
      /\ Tail(queue) \in Seq(Command) /\ Len(Tail(queue)) = Len(queue) - 1
      /\ \A i \in DOMAIN Tail(queue) : i + 1 \in DOMAIN queue /\ Tail(queue)[i] = queue[i + 1]
  BY <1>1, <1>2
<1> QED BY <1>1, <1>2, <1>3 DEF QueueTyped

(* What a command leaves of the lane. *)
LEMMA CommandTyped ==
    ASSUME Typed, NEW kind, Dequeued(kind), pump' \in PumpState, LaneTyped', JobTyped',
           order' \in Order \cup {NoOrder}, NEW what, Spares(left, left', what)
    PROVE  Typed'
<1>1. QueueTyped' /\ UNCHANGED <<bill, fills, served, cleared>> /\ forgotten' \in BOOLEAN
  BY Taken DEF Typed, HistoryTyped
<1> QED BY <1>1, SparesTyped DEF Typed, HistoryTyped

LEMMA OrderedTyped ==
    ASSUME NEW c \in Command, Ordered(c)
    PROVE  /\ order' \in Order /\ order'.nozzle = c.nozzle /\ order'.dose = c.dose
           /\ order' = [nozzle |-> c.nozzle, dose |-> c.dose]
BY CommandParts DEF Ordered, Order

(* The lane an order for its nozzle leaves. *)
LEMMA PreauthorizedLane ==
    ASSUME Typed, PreauthorizeCommand
    PROVE  LET c == Head(queue)
           IN  /\ c.nozzle \in Nozzle /\ c.dose \in Limit
               /\ lane' \in LaneState /\ lane'.pre = c.nozzle /\ lane'.dose = c.dose
               /\ lane'.tx = lane.tx
               /\ IF lane.status = "NozzleUp"
                  THEN lane'.status = "NozzleUp" /\ lane'.nozzle = lane.nozzle
                  ELSE lane'.status = "PreAuthorized"
               /\ Ordered(c) /\ Rest /\ UNCHANGED <<pump, left>>
<1> DEFINE c == Head(queue)
           k == [lane EXCEPT !.pre = c.nozzle, !.dose = c.dose]
           l == [k EXCEPT !.label = TRUE]
           m == [l EXCEPT !.nozzle = c.nozzle]
<1>1. c \in Command /\ Dequeued("order")
  BY Taken DEF PreauthorizeCommand
<1>2. c.nozzle \in Nozzle /\ c.dose \in Limit
  BY <1>1, CommandParts DEF PreauthorizeCommand
<1>3. lane \in LaneState /\ "PreAuthorized" \in Status
  BY DEF Typed, LaneTyped, Status
<1>4. /\ lane' = IF lane.status = "NozzleUp"
                 THEN [lane EXCEPT !.pre = c.nozzle, !.label = TRUE, !.dose = c.dose]
                 ELSE [[lane EXCEPT !.pre = c.nozzle, !.label = TRUE, !.dose = c.dose]
                          EXCEPT !.status = "PreAuthorized", !.nozzle = c.nozzle]
      /\ Ordered(c) /\ Rest /\ UNCHANGED <<pump, left>>
  BY DEF PreauthorizeCommand
<1> HIDE DEF c
<1>5. /\ k \in LaneState /\ k.pre = c.nozzle /\ k.dose = c.dose /\ k.tx = lane.tx
      /\ k.status = lane.status /\ k.nozzle = lane.nozzle
  BY <1>2, <1>3 DEF LaneState
<1>6. l = [lane EXCEPT !.pre = c.nozzle, !.label = TRUE, !.dose = c.dose]
  BY <1>2, <1>3, <1>5 DEF LaneState
<1> HIDE DEF k
<1>7. /\ l \in LaneState /\ l.pre = c.nozzle /\ l.dose = c.dose /\ l.tx = lane.tx
      /\ l.status = lane.status /\ l.nozzle = lane.nozzle
  BY <1>5 DEF LaneState
<1>8. lane' = IF lane.status = "NozzleUp" THEN l
              ELSE [l EXCEPT !.status = "PreAuthorized", !.nozzle = c.nozzle]
  BY <1>4, <1>6
<1> HIDE DEF l
<1>9. CASE lane.status = "NozzleUp"
  BY <1>2, <1>4, <1>7, <1>8, <1>9 DEF c
<1>10. CASE lane.status # "NozzleUp"
  <2>1. lane' = [l EXCEPT !.status = "PreAuthorized", !.nozzle = c.nozzle]
    BY <1>8, <1>10
  <2>2. /\ lane' \in LaneState /\ lane'.pre = c.nozzle /\ lane'.dose = c.dose
        /\ lane'.tx = lane.tx /\ lane'.status = "PreAuthorized"
    BY <1>2, <1>3, <1>7, <2>1 DEF LaneState
  <2> QED BY <1>2, <1>4, <1>10, <2>2 DEF c
<1> QED BY <1>9, <1>10

LEMMA PreauthorizeTyped ==
    ASSUME Typed, PreauthorizeCommand
    PROVE  Typed'
<1>1. Dequeued("order") /\ Head(queue) \in Command
  BY Taken DEF PreauthorizeCommand
<1>2. LaneTyped' /\ Rest /\ Ordered(Head(queue)) /\ UNCHANGED <<pump, left>>
  BY PreauthorizedLane DEF LaneTyped, Typed
<1>3. order' \in Order
  BY <1>1, <1>2, OrderedTyped
<1>4. Spares(left, left', "nothing")
  BY <1>2, SameSpares DEF Typed
<1> QED BY <1>1, <1>2, <1>3, <1>4, RestTyped, CommandTyped DEF Typed

(* The nozzle that is up is started, or the order waits. *)
LEMMA AuthorizeTaken ==
    ASSUME Typed, AuthorizeCommand
    PROVE  LET c == Head(queue)
           IN  /\ Dequeued("order") /\ c \in Command /\ c.nozzle = None /\ c.dose \in Limit
               /\ Ordered(c) /\ UNCHANGED <<pump, left>>
               /\ \/ /\ lane.status = "NozzleUp" /\ lane.nozzle \in Nozzle /\ UNCHANGED lane
                     /\ at' = "price" /\ job' \in Job /\ job'.nozzle = lane.nozzle
                     /\ job'.dose = c.dose /\ job'.reactive = TRUE
                  \/ /\ lane.status # "NozzleUp" /\ Rest
                     /\ lane' \in LaneState /\ lane'.pre = AnyNozzle /\ lane'.dose = c.dose
                     /\ lane'.tx = lane.tx /\ lane'.status = lane.status
                     /\ lane'.nozzle = lane.nozzle
<1> DEFINE c == Head(queue)
<1>1. Dequeued("order") /\ c.nozzle = None /\ Ordered(c) /\ UNCHANGED <<pump, left>>
  BY DEF AuthorizeCommand
<1>2. c \in Command /\ c.dose \in Limit
  BY <1>1, Taken, CommandParts
<1>3. LaneTyped
  BY DEF Typed
<1>4. CASE lane.status = "NozzleUp"
  <2>1. /\ UNCHANGED lane /\ at' = "price"
        /\ job' = [NoJob EXCEPT !.nozzle = lane.nozzle, !.dose = c.dose, !.reactive = TRUE]
    BY <1>4 DEF AuthorizeCommand, Goto
  <2>2. lane.nozzle \in Nozzle
    BY <1>3, <1>4 DEF LaneTyped
  <2> HIDE DEF c
  <2>3. /\ job' \in Job /\ job'.nozzle = lane.nozzle /\ job'.dose = c.dose
        /\ job'.reactive = TRUE
    <3> DEFINE k == [NoJob EXCEPT !.nozzle = lane.nozzle, !.dose = c.dose]
    <3>1. k \in Job /\ k.nozzle = lane.nozzle /\ k.dose = c.dose
      BY <1>2, <2>2, FreshLaneBare DEF Job
    <3>2. job' = [k EXCEPT !.reactive = TRUE]
      BY <2>1, FreshLaneBare DEF Job
    <3> HIDE DEF k
    <3> QED BY <3>1, <3>2 DEF Job
  <2> QED BY <1>1, <1>2, <1>4, <2>1, <2>2, <2>3 DEF c
<1>5. CASE lane.status # "NozzleUp"
  <2>1. lane' = [lane EXCEPT !.pre = AnyNozzle, !.dose = c.dose] /\ Rest
    BY <1>5 DEF AuthorizeCommand
  <2> HIDE DEF c
  <2> DEFINE k == [lane EXCEPT !.pre = AnyNozzle]
  <2>3. /\ k \in LaneState /\ k.pre = AnyNozzle /\ k.tx = lane.tx /\ k.status = lane.status
        /\ k.nozzle = lane.nozzle
    BY <1>3 DEF LaneTyped, LaneState
  <2>4. lane' = [k EXCEPT !.dose = c.dose]
    BY <1>3, <2>1, <2>3 DEF LaneTyped, LaneState
  <2> HIDE DEF k
  <2>2. /\ lane' \in LaneState /\ lane'.pre = AnyNozzle /\ lane'.dose = c.dose
        /\ lane'.tx = lane.tx /\ lane'.status = lane.status /\ lane'.nozzle = lane.nozzle
    BY <1>2, <2>3, <2>4 DEF LaneState
  <2> QED BY <1>1, <1>2, <1>5, <2>1, <2>2 DEF c
<1> QED BY <1>4, <1>5

LEMMA AuthorizeCommandTyped ==
    ASSUME Typed, AuthorizeCommand
    PROVE  Typed'
<1>1. Dequeued("order") /\ Head(queue) \in Command /\ Ordered(Head(queue)) /\ UNCHANGED <<pump, left>>
  BY AuthorizeTaken
<1>2. order' \in Order
  BY <1>1, OrderedTyped
<1>3. Spares(left, left', "nothing")
  BY <1>1, SameSpares DEF Typed
<1>4. LaneTyped' /\ JobTyped'
  <2>1. CASE lane.status = "NozzleUp"
    <3>1. UNCHANGED lane /\ at' = "price" /\ job' \in Job /\ job'.nozzle \in Nozzle
      BY <2>1, AuthorizeTaken
    <3> QED BY <3>1 DEF Typed, LaneTyped, JobTyped, Framing, Closing
  <2>2. CASE lane.status # "NozzleUp"
    <3>1. Rest /\ lane' \in LaneState /\ lane'.status = lane.status
      BY <2>2, AuthorizeTaken
    <3> QED BY <2>2, <3>1, RestTyped DEF LaneTyped
  <2> QED BY <2>1, <2>2
<1> QED BY <1>1, <1>2, <1>3, <1>4, CommandTyped DEF Typed

(* The pump is halted, or does not hear it. *)
LEMMA HaltTaken ==
    ASSUME Typed, NEW arrived \in BOOLEAN, StopCommand(arrived) \/ EStopCommand(arrived)
    PROVE  /\ \E kind \in {"stop", "estop"} : Dequeued(kind)
           /\ Rest /\ UNCHANGED order
           /\ pump' = IF arrived THEN PumpHalt(pump) ELSE pump
           /\ pump' \in PumpState /\ pump'.nozzle = pump.nozzle /\ pump'.volume = pump.volume
           /\ pump'.polls = pump.polls /\ pump'.limit = pump.limit
           /\ pump'.phase = IF arrived /\ HoseOut(pump) THEN "Stopped" ELSE pump.phase
           /\ lane' \in LaneState /\ lane'.status = "Stopped" /\ lane'.tx = lane.tx
           /\ (lane'.pre = lane.pre /\ lane'.dose = lane.dose) \/ lane'.pre = None
           /\ IF arrived THEN Spares(left, left', "nothing") /\ UNCHANGED left
              ELSE Spares(left, left', "noise")
<1>1. /\ \E kind \in {"stop", "estop"} : Dequeued(kind)
      /\ Rest /\ UNCHANGED order /\ pump' = IF arrived THEN PumpHalt(pump) ELSE pump
      /\ lane' \in {StoppedByApp(lane), [Held(lane) EXCEPT !.pre = None]}
      /\ SpendIf(~arrived, "noise") /\ "noise" \in Counts
  BY DEF StopCommand, EStopCommand, Counts
<1>2. lane \in LaneState /\ pump \in PumpState /\ None \in Limit
  BY DEF Typed, LaneTyped, Limit
<1>3. /\ lane' \in LaneState /\ lane'.status = "Stopped" /\ lane'.tx = lane.tx
      /\ (lane'.pre = lane.pre /\ lane'.dose = lane.dose) \/ lane'.pre = None
  BY <1>1, <1>2, HeldLane, StoppedLane
<1>4. /\ pump' \in PumpState /\ pump'.nozzle = pump.nozzle /\ pump'.volume = pump.volume
      /\ pump'.polls = pump.polls /\ pump'.limit = pump.limit
      /\ pump'.phase = IF arrived /\ HoseOut(pump) THEN "Stopped" ELSE pump.phase
  BY <1>1, <1>2, CommandedPump
<1>5. IF arrived THEN Spares(left, left', "nothing") /\ UNCHANGED left
      ELSE Spares(left, left', "noise")
  BY <1>1, SpendIfSpares
<1> QED BY <1>1, <1>3, <1>4, <1>5

LEMMA HaltTyped ==
    ASSUME Typed, NEW arrived \in BOOLEAN, StopCommand(arrived) \/ EStopCommand(arrived)
    PROVE  Typed'
<1>1. PICK kind \in {"stop", "estop"} : Dequeued(kind)
  BY HaltTaken
<1>2. PICK what : Spares(left, left', what)
  BY HaltTaken
<1>3. pump' \in PumpState /\ LaneTyped' /\ Rest /\ UNCHANGED order
  BY HaltTaken DEF LaneTyped
<1> QED BY <1>1, <1>2, <1>3, RestTyped, NoOrderTyped, CommandTyped

(* A reset, a clear and a cancel leave the lane, or leave it bare, or close it. *)
LEMMA DismissTaken ==
    ASSUME Typed, ResetCommand \/ ClearCommand \/ CancelCommand
    PROVE  /\ UNCHANGED <<pump, left>>
           /\ \/ /\ ResetCommand /\ Dequeued("reset") /\ lane.status = "Stopped"
                 /\ UNCHANGED <<lane, order>>
                 /\ at' = "close" /\ job' \in Job /\ job'.why = "reset"
              \/ /\ \E kind \in {"reset", "clear"} : Dequeued(kind)
                 /\ UNCHANGED <<lane, order>> /\ Rest
              \/ /\ Dequeued("reset") /\ lane.status \in {"Done", "Idle", "Offline"}
                 /\ Bare(lane') /\ order' = NoOrder /\ Rest
              \/ /\ Dequeued("clear")
                 /\ lane.status \notin {"Delivering", "Authorizing", "PreAuthorized"}
                 /\ Bare(lane') /\ order' = NoOrder /\ Rest
              \/ Dequeued("cancel") /\ Bare(lane') /\ order' = NoOrder /\ Rest
<1>1. lane \in LaneState
  BY DEF Typed, LaneTyped
<1>2. CASE ResetCommand
  <2>1. Dequeued("reset") /\ UNCHANGED <<pump, left>>
    BY <1>2 DEF ResetCommand
  <2>2. CASE lane.status = "Stopped"
    <3>1. /\ UNCHANGED <<lane, order>> /\ at' = "close"
          /\ job' = [NoJob EXCEPT !.why = "reset"]
      BY <1>2, <2>2 DEF ResetCommand, Goto
    <3>2. job' \in Job /\ job'.why = "reset"
      BY <3>1, FreshLaneBare DEF Job
    <3> QED BY <1>2, <2>1, <2>2, <3>1, <3>2
  <2>3. CASE lane.status \in {"Done", "Idle", "Offline"}
    <3>1. lane' = ResetLane(lane) /\ order' = NoOrder /\ Rest
      BY <1>2, <2>3 DEF ResetCommand
    <3> QED BY <1>1, <2>1, <2>3, <3>1, ResetLaneBare
  <2>4. CASE lane.status \notin {"Stopped", "Done", "Idle", "Offline"}
    <3>1. UNCHANGED <<lane, order>> /\ Rest
      BY <1>2, <2>4 DEF ResetCommand
    <3> QED BY <2>1, <3>1
  <2> QED BY <2>2, <2>3, <2>4
<1>3. CASE ClearCommand
  <2>1. Dequeued("clear") /\ Rest /\ UNCHANGED <<pump, left>>
    BY <1>3 DEF ClearCommand
  <2>2. \/ UNCHANGED <<lane, order>>
        \/ /\ lane.status \notin {"Delivering", "Authorizing", "PreAuthorized"}
           /\ lane' = ResetLane(lane) /\ order' = NoOrder
    BY <1>3 DEF ClearCommand
  <2> QED BY <1>1, <2>1, <2>2, ResetLaneBare
<1>4. CASE CancelCommand
  <2>1. /\ Dequeued("cancel") /\ lane' = Cancelled(lane) /\ order' = NoOrder /\ Rest
        /\ UNCHANGED <<pump, left>>
    BY <1>4 DEF CancelCommand
  <2> QED BY <1>1, <2>1, CancelledLane
<1> QED BY <1>2, <1>3, <1>4

LEMMA DismissTyped ==
    ASSUME Typed, ResetCommand \/ ClearCommand \/ CancelCommand
    PROVE  Typed'
<1>1. /\ UNCHANGED <<pump, left>> /\ order' \in {order, NoOrder}
      /\ \E kind \in {"reset", "clear", "cancel"} : Dequeued(kind)
  BY DismissTaken
<1>2. PICK kind \in {"reset", "clear", "cancel"} : Dequeued(kind)
  BY <1>1
<1>3. LaneTyped' /\ JobTyped'
  <2>1. CASE UNCHANGED lane /\ Rest
    BY <2>1, RestTyped DEF Typed, LaneTyped
  <2>2. CASE Bare(lane') /\ Rest
    BY <2>2, RestTyped DEF Bare, LaneTyped
  <2>3. CASE UNCHANGED lane /\ lane.status = "Stopped" /\ at' = "close" /\ job' \in Job
    BY <2>3 DEF Typed, LaneTyped, JobTyped, Framing, Closing, Closeable
  <2> QED BY <2>1, <2>2, <2>3, DismissTaken
<1>4. Spares(left, left', "nothing")
  BY <1>1, SameSpares DEF Typed
<1> QED BY <1>1, <1>2, <1>3, <1>4, NoOrderTyped, CommandTyped DEF Typed

(* A command that is asked for waits behind the others. *)
LEMMA Asked ==
    ASSUME Typed, NEW kind \in {"order", "cancel", "stop", "estop", "reset", "clear"},
           NEW n \in Nozzle \cup {None}, NEW d \in Limit, Queued(kind, n, d)
    PROVE  /\ left.late \/ Polling
           /\ QueueTyped' /\ Len(queue') = Len(queue) + 1
           /\ LET c == [kind |-> kind, nozzle |-> n, dose |-> d]
              IN  c \in Command /\ queue' = Append(queue, c) /\ queue'[Len(queue) + 1] = c
           /\ \A i \in DOMAIN queue' : i # Len(queue) + 1 =>
                 i \in DOMAIN queue /\ queue'[i] = queue[i]
           /\ UNCHANGED <<pump, lane, at, job, bill, ghosts>>
<1> DEFINE c == [kind |-> kind, nozzle |-> n, dose |-> d]
<1>1. c \in Command
  BY DEF Command
<1>2. /\ left.late \/ Polling
      /\ Len(queue) < MaxQueue /\ queue' = Append(queue, c)
      /\ UNCHANGED <<pump, lane, at, job, bill, ghosts>>
  BY DEF Queued
<1>3. queue \in Seq(Command) /\ MaxQueue \in Nat
  BY MaxQueueAssumption DEF Typed, QueueTyped
<1> HIDE DEF c
<1>4. /\ queue' \in Seq(Command) /\ Len(queue') = Len(queue) + 1
      /\ queue'[Len(queue) + 1] = c
      /\ \A i \in DOMAIN queue' : i # Len(queue) + 1 =>
            i \in DOMAIN queue /\ queue'[i] = queue[i]
  BY <1>1, <1>2, <1>3
<1> QED BY <1>1, <1>2, <1>3, <1>4 DEF QueueTyped, c

(* When the routes and the timeout ask for a command of this kind. *)
Due(kind, n) ==
    /\ kind = "order" => IF n = None THEN lane.status = "NozzleUp" ELSE lane.status = "Idle"
    /\ kind = "stop" => Underway /\ left.stops > 0
    /\ kind = "estop" => Underway /\ left.estops > 0
    /\ kind \in {"reset", "clear"} => HungUp

LEMMA Requested ==
    ASSUME Typed, RequestStep
    PROVE  \E kind \in {"order", "cancel", "stop", "estop", "reset", "clear"},
              n \in Nozzle \cup {None}, d \in Limit :
                Queued(kind, n, d) /\ Due(kind, n) /\ \E what : Spares(left, left', what)
<1>1. left \in Budget /\ None \in Limit /\ None \notin Nozzle
  BY Apart DEF Typed, Limit
<1>2. ASSUME NEW n \in Nozzle, NEW dose \in Limit, RequestOrder(n, dose)
      PROVE  \E m \in Nozzle \cup {None} :
                Queued("order", m, dose) /\ Due("order", m) /\ Spares(left, left', "orders")
  <2>1. Spares(left, left', "orders")
    BY <1>1, <1>2, SpendSpares DEF RequestOrder, Counts
  <2>2. CASE lane.status = "Idle"
    <3>1. Queued("order", n, dose)
      BY <1>2, <2>2 DEF RequestOrder
    <3> QED BY <1>1, <2>1, <2>2, <3>1 DEF Due
  <2>3. CASE lane.status = "NozzleUp"
    <3>1. Queued("order", None, dose)
      BY <1>2, <2>3 DEF RequestOrder
    <3> QED BY <2>1, <2>3, <3>1 DEF Due
  <2>4. lane.status \in {"Idle", "NozzleUp"}
    BY <1>2 DEF RequestOrder
  <2> QED BY <2>2, <2>3, <2>4
<1>3. CASE RequestCancel
  <2>1. Spend("cancels") /\ Queued("cancel", None, None)
    BY <1>3 DEF RequestCancel
  <2>2. Spares(left, left', "cancels")
    BY <1>1, <2>1, SpendSpares DEF Counts
  <2> QED BY <1>1, <2>1, <2>2 DEF Due
<1>4. CASE PreauthTimeout
  <2>1. Spend("expires") /\ Queued("cancel", None, None)
    BY <1>4 DEF PreauthTimeout
  <2>2. Spares(left, left', "expires")
    BY <1>1, <2>1, SpendSpares DEF Counts
  <2> QED BY <1>1, <2>1, <2>2 DEF Due
<1>5. CASE RequestStop
  <2>1. Underway /\ Spend("stops") /\ Queued("stop", None, None)
    BY <1>5 DEF RequestStop
  <2>2. Spares(left, left', "stops") /\ left.stops > 0
    BY <1>1, <2>1, SpendSpares DEF Counts
  <2> QED BY <1>1, <2>1, <2>2 DEF Due
<1>6. CASE RequestEStop
  <2>1. Underway /\ Spend("estops") /\ Queued("estop", None, None)
    BY <1>6 DEF RequestEStop
  <2>2. Spares(left, left', "estops") /\ left.estops > 0
    BY <1>1, <2>1, SpendSpares DEF Counts
  <2> QED BY <1>1, <2>1, <2>2 DEF Due
<1>7. CASE RequestReset
  <2>1. HungUp /\ Spend("resets") /\ Queued("reset", None, None)
    BY <1>7 DEF RequestReset
  <2>2. Spares(left, left', "resets")
    BY <1>1, <2>1, SpendSpares DEF Counts
  <2> QED BY <1>1, <2>1, <2>2 DEF Due
<1>8. CASE RequestClear
  <2>1. HungUp /\ Spend("clears") /\ Queued("clear", None, None)
    BY <1>8 DEF RequestClear
  <2>2. Spares(left, left', "clears")
    BY <1>1, <2>1, SpendSpares DEF Counts
  <2> QED BY <1>1, <2>1, <2>2 DEF Due
<1> QED BY <1>2, <1>3, <1>4, <1>5, <1>6, <1>7, <1>8 DEF RequestStep

LEMMA RequestTyped ==
    ASSUME Typed, RequestStep
    PROVE  Typed'
<1>1. PICK kind \in {"order", "cancel", "stop", "estop", "reset", "clear"},
           n \in Nozzle \cup {None}, d \in Limit :
             Queued(kind, n, d) /\ \E what : Spares(left, left', what)
  BY Requested
<1>2. PICK what : Spares(left, left', what)
  BY <1>1
<1>3. QueueTyped' /\ UNCHANGED <<pump, lane, at, job, bill, ghosts>>
  BY <1>1, Asked
<1> QED BY <1>2, <1>3, SparesTyped
        DEF Typed, LaneTyped, JobTyped, Framing, Closing, HistoryTyped, ghosts

LEMMA Lifts ==
    ASSUME Typed, NEW n \in Nozzle, CustomerLifts(n)
    PROVE  /\ pump.phase = "Idle" /\ fills < left.lifts /\ (left.late \/ queue = <<>>)
           /\ pump' \in PumpState /\ pump'.phase = "Lifted" /\ pump'.nozzle = n
           /\ pump'.volume = 0
           /\ fills' = fills + 1 /\ fills' \in Fill /\ fills \in Fill /\ fills' <= left.lifts
           /\ served' = NoOrder /\ forgotten' = FALSE
           /\ cleared' = IF pump.volume > 0 /\ bill[fills] = <<>> /\ ~forgotten
                         THEN cleared \cup {fills} ELSE cleared
           /\ UNCHANGED <<lane, queue, at, job, bill, order, left>>
<1>1. fills \in Nat /\ left.lifts \in Nat /\ left.lifts <= MaxFills /\ fills \in Fill
      /\ MaxFills \in Nat
  BY BudgetParts, Apart DEF Typed, HistoryTyped, Fill
<1>2. fills + 1 \in Fill /\ fills + 1 <= left.lifts
  BY <1>1 DEF CustomerLifts, Fill
<1> QED BY <1>1, <1>2, LiftedPump DEF CustomerLifts, Typed

LEMMA Flows ==
    ASSUME Typed, CustomerHolsters \/ FuelFlows
    PROVE  /\ UNCHANGED <<lane, queue, at, job, bill, ghosts, left>>
           /\ pump' \in PumpState /\ pump'.nozzle = pump.nozzle
           /\ \/ /\ pump.phase \in {"Lifted", "Ready", "Delivering", "Stopped"}
                 /\ pump'.phase = "Complete" /\ pump'.polls = 2
                 /\ pump'.volume = pump.volume
              \/ /\ pump.phase = "Delivering" /\ pump'.phase = "Complete" /\ pump'.polls = 2
              \/ /\ pump.phase = "Delivering" /\ pump'.phase = "Delivering"
                 /\ pump'.limit = pump.limit
<1>1. pump \in PumpState
  BY DEF Typed
<1>2. CASE CustomerHolsters
  BY <1>1, <1>2, CompletedPump DEF CustomerHolsters, CanHolster, HoseOut
<1>3. CASE FuelFlows
  BY <1>1, <1>3, FlowingPump DEF FuelFlows
<1> QED BY <1>2, <1>3

LEMMA PumpStepTyped ==
    ASSUME Typed, PumpStep
    PROVE  Typed'
<1>1. ASSUME NEW n \in Nozzle, CustomerLifts(n) PROVE Typed'
  <2>1. cleared' \subseteq Fill
    BY <1>1, Lifts DEF Typed, HistoryTyped
  <2>2. /\ pump' \in PumpState /\ fills' \in Fill /\ served' = NoOrder /\ forgotten' = FALSE
        /\ UNCHANGED <<lane, queue, at, job, bill, order, left>>
    BY <1>1, Lifts
  <2> QED BY <2>1, <2>2
          DEF Typed, LaneTyped, QueueTyped, JobTyped, Framing, Closing, HistoryTyped
<1>2. CASE CustomerHolsters \/ FuelFlows
  <2>1. pump' \in PumpState /\ UNCHANGED <<lane, queue, at, job, bill, ghosts, left>>
    BY <1>2, Flows
  <2> QED BY <2>1
          DEF Typed, LaneTyped, QueueTyped, JobTyped, Framing, Closing, HistoryTyped, ghosts
<1> QED BY <1>1, <1>2 DEF PumpStep

LEMMA Crashes ==
    ASSUME Typed, Crash
    PROVE  /\ Spares(left, left', "crashes") /\ Rest /\ order' = NoOrder /\ queue' = <<>>
           /\ lane' = FreshLane /\ lane' \in LaneState /\ lane'.status = "Offline"
           /\ lane'.tx = None /\ lane'.pre = None
           /\ forgotten' = TRUE /\ UNCHANGED <<pump, bill, fills, served, cleared>>
<1>1. Spend("crashes") /\ "crashes" \in Counts /\ left \in Budget
  BY DEF Crash, Typed, Counts
<1>2. FreshLane.status = "Offline" /\ FreshLane.tx = None /\ FreshLane.pre = None
  BY DEF FreshLane
<1> QED BY <1>1, <1>2, SpendSpares, FreshLaneBare DEF Crash

LEMMA CrashTyped ==
    ASSUME Typed, Crash
    PROVE  Typed'
<1>1. /\ Spares(left, left', "crashes") /\ Rest /\ order' = NoOrder /\ queue' = <<>>
      /\ lane' \in LaneState /\ lane'.status = "Offline"
      /\ forgotten' = TRUE /\ UNCHANGED <<pump, bill, fills, served, cleared>>
  BY Crashes
<1>2. QueueTyped'
  BY <1>1, MaxQueueAssumption DEF QueueTyped
<1> QED BY <1>1, <1>2, SparesTyped, RestTyped DEF Typed, LaneTyped, HistoryTyped

LEMMA InitTyped ==
    ASSUME Init
    PROVE  Typed
<1>1. /\ pump = FreshPump /\ lane = FreshLane /\ queue = <<>> /\ at = "rest" /\ job = NoJob
      /\ bill = [f \in Fill |-> <<>>] /\ fills = 0 /\ order = NoOrder /\ served = NoOrder
      /\ forgotten = FALSE /\ cleared = {} /\ left \in Budgets
  BY DEF Init
<1>2. left \in Budget /\ left.lifts <= MaxFills
  BY <1>1, BudgetsAssumption
<1>3. pump \in PumpState /\ QueueTyped
  BY <1>1, Apart, MaxQueueAssumption DEF QueueTyped, FreshPump, PumpState, Phase, Volume, Limit
<1>4. LaneTyped
  BY <1>1, FreshLaneBare DEF LaneTyped, FreshLane
<1>5. JobTyped
  BY <1>1, FreshLaneBare DEF JobTyped, Framing, Closing
<1>6. bill \in [Fill -> Seq(Row)]
  <2>1. <<>> \in Seq(Row)
    OBVIOUS
  <2> QED BY <1>1, <2>1
<1>7. HistoryTyped
  BY <1>1, Apart DEF HistoryTyped, Fill
<1> QED BY <1>2, <1>3, <1>4, <1>5, <1>6, <1>7 DEF Typed

LEMMA StutterTyped ==
    ASSUME Typed, UNCHANGED vars
    PROVE  Typed'
BY DEF vars, ghosts, Typed, LaneTyped, QueueTyped, JobTyped, Framing, Closing, HistoryTyped

LEMMA LoopTyped ==
    ASSUME Typed, Loop
    PROVE  Typed'
<1>1. CASE PollStep
  BY <1>1, StatusMissedTyped, StatusIdleTyped, StatusAsksTyped, StatusCompleteTyped,
     StatusStoppedTyped, IdentifyTyped, SendPriceTyped, SendPresetTyped, SendAuthorizeTyped,
     GetDisplayTyped, GetTransactionTyped, CommitSaleTyped, CommitFailsTyped DEF PollStep
<1>2. CASE CommandStep
  BY <1>2, PreauthorizeTyped, AuthorizeCommandTyped, HaltTyped, DismissTyped DEF CommandStep
<1> QED BY <1>1, <1>2 DEF Loop

LEMMA TypedAlways == Spec => []Typed
<1>1. ASSUME Typed, [Next]_vars PROVE Typed'
  BY <1>1, LoopTyped, RequestTyped, PumpStepTyped, CrashTyped, StutterTyped DEF Next
<1> QED BY <1>1, InitTyped, PTL DEF Spec

(* The state of the driver, the pump and the queue keeps its type: what goes   *)
(* on the wire is for a nozzle, and a sale is committed for a lane that has    *)
(* one (gilbarco.rs), whatever is lost, refused or asked for.                  *)
THEOREM GilbarcoTypes == Spec => []TypeOK
<1>1. Typed => TypeOK
  BY DEF Typed, LaneTyped, QueueTyped, JobTyped, Framing, Closing, HistoryTyped, TypeOK
<1> QED BY <1>1, TypedAlways, PTL

----------------------------------------------------------------------------
(* Orders. *)

(* An order that waits on the lane is the one that was applied last; while the *)
(* nozzle that is up is being started, its own order is.                       *)
Waits(n) == order \in Order /\ order.nozzle \in {None, n}

WaitingOrder ==
    Pending(lane) /\ ~(Framing /\ job.reactive /\ left.late) =>
        lane.pre # None /\ Waits(lane.pre) /\ order.dose = lane.dose

(* What is on the wire is for the nozzle that is up, or was a moment ago; the  *)
(* pump has its limit before it is authorized.                                 *)
OrderOnWire ==
    Framing =>
        /\ Waits(job.nozzle) /\ order.dose = job.dose
        /\ pump.phase \in {"Lifted", "Complete"}
        /\ order.nozzle # None => job.nozzle = pump.nozzle
        /\ (at = "authorize" /\ pump.phase = "Lifted") => pump.limit = job.dose

(* A nozzle that the lane shows is up, or is back for fewer polls than the pump *)
(* stays complete for: it is not another customer's.                           *)
ShownIsUp ==
    /\ at = "identify" => pump.phase \in {"Lifted", "Complete"}
    /\ lane.status = "NozzleUp" =>
          \/ pump.phase = "Lifted"
          \/ pump.phase = "Complete" /\ left.losses <= pump.polls

(* When commands come one at a time, between polls, they find the lane as it   *)
(* was when they were asked for.                                               *)
Unhurried ==
    ~left.late =>
        /\ Len(queue) <= 1
        /\ queue # <<>> =>
              /\ at = "rest"
              /\ Head(queue).kind = "order" =>
                    IF Head(queue).nozzle = None THEN lane.status = "NozzleUp"
                    ELSE lane.status = "Idle"
        /\ lane.status = "NozzleUp" => lane.pre = None

LittleLost == left.limits = 0 /\ left.losses <= 2 /\ (left.late => left.losses = 0)

OrdersKept ==
    WaitingOrder /\ OrderOnWire /\ ShownIsUp /\ Unhurried /\ LittleLost /\ ServedAsOrdered

LEMMA LittleLostKept ==
    ASSUME Typed, LittleLost, NEW what, Spares(left, left', what)
    PROVE  /\ LittleLost' /\ left'.late = left.late /\ left'.losses <= left.losses
           /\ what = "losses" => left'.losses = left.losses - 1 /\ ~left.late
           /\ what # "limits"
<1>1. left \in Budget /\ left' \in Budget
  BY DEF Typed, Spares
<1>2. left.losses \in Nat /\ left.limits \in Nat /\ left'.losses \in Nat /\ left'.limits \in Nat
  BY <1>1, BudgetParts
<1> QED BY <1>2 DEF LittleLost, Spares

(* In the middle of a poll, or when a command is taken, nothing waits. *)
LEMMA NothingWaits ==
    ASSUME Typed, Unhurried, ~left.late,
           \/ UNCHANGED queue /\ (queue = <<>> \/ at # "rest")
           \/ \E kind : Dequeued(kind)
    PROVE  queue' = <<>>
<1>1. CASE UNCHANGED queue /\ (queue = <<>> \/ at # "rest")
  BY <1>1 DEF Unhurried
<1>2. CASE \E kind : Dequeued(kind)
  <2>1. Len(queue') = Len(queue) - 1 /\ queue' \in Seq(Command) /\ queue \in Seq(Command)
    BY <1>2, Taken DEF QueueTyped, Typed
  <2>2. Len(queue) <= 1
    BY DEF Unhurried
  <2> QED BY <2>1, <2>2
<1> QED BY <1>1, <1>2

LEMMA UnhurriedKept ==
    ASSUME Typed, Unhurried, left'.late = left.late,
           \/ UNCHANGED queue /\ (queue = <<>> \/ at # "rest")
           \/ \E kind : Dequeued(kind),
           ~left.late /\ lane'.status = "NozzleUp" => lane'.pre = None
    PROVE  Unhurried'
<1>1. CASE left.late
  BY <1>1 DEF Unhurried
<1>2. CASE ~left.late
  <2>1. queue' = <<>> /\ (lane'.status = "NozzleUp" => lane'.pre = None)
    BY <1>2, NothingWaits
  <2> QED BY <2>1 DEF Unhurried
<1> QED BY <1>1, <1>2

(* The end of an exchange: what the orders need of it. *)
LEMMA RestOrders ==
    ASSUME Typed, OrdersKept, at' = "rest", NEW what, Spares(left, left', what),
           \/ UNCHANGED queue /\ (queue = <<>> \/ at # "rest")
           \/ \E kind : Dequeued(kind),
           Pending(lane') =>
              /\ lane'.pre # None /\ order' \in Order /\ order'.nozzle \in {None, lane'.pre}
              /\ order'.dose = lane'.dose,
           lane'.status = "NozzleUp" =>
              \/ pump'.phase = "Lifted"
              \/ pump'.phase = "Complete" /\ left'.losses <= pump'.polls,
           ~left.late /\ lane'.status = "NozzleUp" => lane'.pre = None,
           ServedAsOrdered'
    PROVE  OrdersKept'
<1>1. LittleLost' /\ left'.late = left.late
  BY LittleLostKept DEF OrdersKept
<1>2. Unhurried'
  BY <1>1, UnhurriedKept DEF OrdersKept
<1>3. WaitingOrder' /\ OrderOnWire' /\ ShownIsUp'
  BY DEF WaitingOrder, OrderOnWire, ShownIsUp, Framing, Waits
<1> QED BY <1>1, <1>2, <1>3 DEF OrdersKept

LEMMA ServedKept ==
    ASSUME ServedAsOrdered, UNCHANGED served, pump'.nozzle = pump.nozzle,
           pump'.phase \in {"Ready", "Delivering"} =>
              pump.phase \in {"Ready", "Delivering"} /\ pump'.limit = pump.limit
    PROVE  ServedAsOrdered'
BY DEF ServedAsOrdered

(* The order that waits on a lane that only its status leaves. *)
LEMMA WaitingKept ==
    ASSUME OrdersKept, ~Framing, UNCHANGED order, lane'.pre = lane.pre, lane'.dose = lane.dose,
           Pending(lane') => Pending(lane)
    PROVE  Pending(lane') =>
              /\ lane'.pre # None /\ order' \in Order /\ order'.nozzle \in {None, lane'.pre}
              /\ order'.dose = lane'.dose
BY DEF OrdersKept, WaitingOrder, Waits

LEMMA BareWaits ==
    ASSUME NEW l, Bare(l)
    PROVE  ~Pending(l) /\ l.status # "NozzleUp" /\ l.pre = None
BY DEF Bare, Pending

LEMMA StatusMissedOrders ==
    ASSUME Typed, OrdersKept, NEW arrived \in BOOLEAN, NEW threshold \in BOOLEAN,
           StatusMissed(arrived, threshold)
    PROVE  OrdersKept'
<1>1. Spares(left, left', "losses") /\ at = "rest" /\ queue = <<>> /\ at' = "rest"
      /\ UNCHANGED <<queue, order, served>> /\ ~Framing /\ left.losses > 0
  BY SpendSpares DEF Typed, StatusMissed, Counts, Polling, Rest, Goto, ghosts, Framing
<1>2. left'.losses = left.losses - 1 /\ left.losses \in Nat /\ left'.losses \in Nat
  BY <1>1, LittleLostKept, BudgetParts DEF OrdersKept, Spares, Typed
<1>3. /\ lane'.pre = lane.pre /\ lane'.dose = lane.dose
      /\ lane'.status \in {lane.status, "Offline"}
  <2>1. CASE threshold
    BY <2>1, OfflineLane DEF StatusMissed, Typed, LaneTyped
  <2>2. CASE ~threshold
    BY <2>2 DEF StatusMissed, Typed, LaneTyped, LaneState
  <2> QED BY <2>1, <2>2
<1>4. Pending(lane') => Pending(lane)
  BY <1>3 DEF Pending
<1>5. pump \in PumpState /\ pump' \in {pump, PumpTold(pump)} /\ pump.polls \in 0 .. 2
  BY DEF Typed, StatusMissed, PumpState
<1>6. /\ pump'.nozzle = pump.nozzle /\ pump'.limit = pump.limit
      /\ pump'.phase \in {"Ready", "Delivering"} => pump.phase \in {"Ready", "Delivering"}
      /\ pump.phase = "Lifted" => pump'.phase = "Lifted"
      /\ (pump.phase = "Complete" /\ pump.polls > 0) =>
            pump'.phase = "Complete" /\ pump'.polls >= pump.polls - 1
  BY <1>5, ToldPump
<1>7. lane'.status = "NozzleUp" =>
        \/ pump'.phase = "Lifted"
        \/ pump'.phase = "Complete" /\ left'.losses <= pump'.polls
  <2>1. lane'.status = "NozzleUp" => lane.status = "NozzleUp"
    BY <1>3
  <2>2. pump'.polls \in 0 .. 2
    BY <1>5, ToldPump DEF PumpState
  <2> QED BY <1>1, <1>2, <1>5, <1>6, <2>1, <2>2 DEF OrdersKept, ShownIsUp
<1>8. ServedAsOrdered'
  BY <1>1, <1>6, ServedKept DEF OrdersKept
<1>9. ~left.late /\ lane'.status = "NozzleUp" => lane'.pre = None
  BY <1>3 DEF OrdersKept, Unhurried
<1>10. Pending(lane') =>
              /\ lane'.pre # None /\ order' \in Order /\ order'.nozzle \in {None, lane'.pre}
              /\ order'.dose = lane'.dose
  BY <1>1, <1>3, <1>4, WaitingKept
<1> QED BY <1>1, <1>7, <1>8, <1>9, <1>10, RestOrders

(* An answer to a poll, and what the orders need of it. *)
LEMMA HeardOrders ==
    ASSUME Typed, OrdersKept, NEW phase, Heard(phase)
    PROVE  /\ at = "rest" /\ queue = <<>> /\ UNCHANGED <<queue, served, left>> /\ ~Framing
           /\ Spares(left, left', "nothing")
           /\ pump'.phase = phase /\ ServedAsOrdered'
           /\ phase = "Lifted" => pump.phase = "Lifted"
           /\ phase \in {"Ready", "Delivering"} => lane.status # "NozzleUp"
<1>1. /\ at = "rest" /\ queue = <<>> /\ UNCHANGED <<queue, served, left>>
      /\ pump' = PumpTold(pump) /\ pump'.phase = phase /\ pump \in PumpState
  BY DEF Heard, Polling, Typed
<1>2. /\ pump'.nozzle = pump.nozzle /\ pump'.limit = pump.limit
      /\ pump'.phase \in {"Ready", "Delivering"} => pump.phase \in {"Ready", "Delivering"}
      /\ pump'.phase = "Lifted" => pump.phase = "Lifted"
  BY <1>1, ToldPump
<1>3. ServedAsOrdered'
  BY <1>1, <1>2, ServedKept DEF OrdersKept
<1> QED BY <1>1, <1>2, <1>3, SameSpares DEF OrdersKept, ShownIsUp, Framing, Typed

LEMMA RestedOrders ==
    ASSUME Typed, OrdersKept, NEW phase, Heard(phase), Rest, lane.status # "Stopped",
           lane' = Rested(lane), order' = NoOrder
    PROVE  OrdersKept'
<1>1. Bare(lane')
  BY RestedLane DEF Typed, LaneTyped
<1> QED BY <1>1, BareWaits, HeardOrders, RestOrders DEF Rest, Goto

LEMMA KeptOrders ==
    ASSUME Typed, OrdersKept, NEW phase, Heard(phase), Rest, lane.status # "NozzleUp",
           UNCHANGED <<lane, order>>
    PROVE  OrdersKept'
<1>1. Pending(lane') =>
              /\ lane'.pre # None /\ order' \in Order /\ order'.nozzle \in {None, lane'.pre}
              /\ order'.dose = lane'.dose
  BY HeardOrders, WaitingKept
<1> QED BY <1>1, HeardOrders, RestOrders DEF Rest, Goto

(* A poll that goes on to another exchange. *)
LEMMA GoOnOrders ==
    ASSUME Typed, OrdersKept, NEW phase, Heard(phase), UNCHANGED <<lane, order>>,
           \/ at' = "identify" /\ phase = "Lifted"
           \/ at' \in {"display", "close"} /\ lane.status # "NozzleUp"
    PROVE  OrdersKept'
<1>1. /\ at = "rest" /\ queue = <<>> /\ UNCHANGED <<queue, served, left>> /\ ~Framing
      /\ pump'.phase = phase /\ ServedAsOrdered' /\ Spares(left, left', "nothing")
  BY HeardOrders
<1>2. ~Framing' /\ LittleLost'
  BY <1>1, LittleLostKept DEF Framing, OrdersKept
<1>3. WaitingOrder' /\ OrderOnWire'
  BY <1>1, <1>2 DEF OrdersKept, WaitingOrder, OrderOnWire, Waits
<1>4. ShownIsUp'
  BY <1>1 DEF ShownIsUp
<1>5. Unhurried'
  BY <1>1, UnhurriedKept DEF OrdersKept, Unhurried
<1> QED BY <1>1, <1>2, <1>3, <1>4, <1>5 DEF OrdersKept

LEMMA StatusOrders ==
    ASSUME Typed, OrdersKept,
           StatusIdle \/ StatusLifted \/ StatusFlowing \/ StatusComplete \/ StatusStopped
    PROVE  OrdersKept'
<1>1. CASE StatusIdle
  <2>1. Heard("Idle")
    BY <1>1 DEF StatusIdle
  <2>2. CASE lane.status \in {"Delivering", "Authorizing"}
    <3>1. UNCHANGED <<lane, order>> /\ at' = "close"
      BY <1>1, <2>2 DEF StatusIdle, Goto
    <3> QED BY <2>1, <2>2, <3>1, GoOnOrders
  <2>3. CASE lane.status = "PreAuthorized" /\ lane.pre # None
    <3>1. UNCHANGED <<lane, order>> /\ Rest
      BY <1>1, <2>3 DEF StatusIdle
    <3> QED BY <2>1, <2>3, <3>1, KeptOrders
  <2>4. CASE ~(lane.status \in {"Delivering", "Authorizing"})
             /\ ~(lane.status = "PreAuthorized" /\ lane.pre # None)
    <3>1. /\ lane' = Rested(lane) /\ Rest
          /\ order' = IF lane.status = "Stopped" THEN order ELSE NoOrder
      BY <1>1, <2>4 DEF StatusIdle
    <3>2. CASE lane.status = "Stopped"
      BY <2>1, <3>1, <3>2, KeptOrders DEF Rested
    <3>3. CASE lane.status # "Stopped"
      BY <2>1, <3>1, <3>3, RestedOrders
    <3> QED BY <3>2, <3>3
  <2> QED BY <2>2, <2>3, <2>4
<1>2. CASE StatusLifted
  BY <1>2, GoOnOrders DEF StatusLifted, Goto
<1>3. CASE StatusFlowing
  <2>1. PICK phase \in {"Ready", "Delivering"} : Heard(phase)
    BY <1>3 DEF StatusFlowing
  <2>2. lane.status # "NozzleUp"
    BY <2>1, HeardOrders
  <2> QED BY <1>3, <2>1, <2>2, GoOnOrders DEF StatusFlowing, Goto
<1>4. CASE StatusComplete
  <2>1. Heard("Complete")
    BY <1>4 DEF StatusComplete
  <2>2. CASE Closeable(lane)
    <3>1. UNCHANGED <<lane, order>> /\ at' = "close" /\ lane.status # "NozzleUp"
      BY <1>4, <2>2 DEF StatusComplete, Goto, Closeable
    <3> QED BY <2>1, <3>1, GoOnOrders
  <2>3. CASE ~Closeable(lane)
    <3>1. lane' = Rested(lane) /\ order' = NoOrder /\ Rest /\ lane.status # "Stopped"
      BY <1>4, <2>3 DEF StatusComplete, Closeable
    <3> QED BY <2>1, <3>1, RestedOrders
  <2> QED BY <2>2, <2>3
<1>5. CASE StatusStopped
  <2>1. Heard("Stopped") /\ Rest /\ UNCHANGED order
        /\ lane' = IF lane.status = "Stopped" THEN lane ELSE Held(lane)
    BY <1>5 DEF StatusStopped
  <2>2. lane'.status = "Stopped" /\ lane'.pre = lane.pre /\ lane'.dose = lane.dose
    BY <2>1, HeldLane DEF Typed, LaneTyped
  <2>3. ~Framing /\ (Pending(lane') => Pending(lane))
    BY <2>1, <2>2, HeardOrders DEF Pending
  <2>4. Pending(lane') =>
              /\ lane'.pre # None /\ order' \in Order /\ order'.nozzle \in {None, lane'.pre}
              /\ order'.dose = lane'.dose
    BY <2>1, <2>2, <2>3, WaitingKept
  <2> QED BY <2>1, <2>2, <2>4, HeardOrders, RestOrders DEF Rest, Goto
<1> QED BY <1>1, <1>2, <1>3, <1>4, <1>5

(* An order goes on the wire for the nozzle that was heard. *)
LEMMA IdentifyOrders ==
    ASSUME Typed, OrdersKept, NEW heard \in BOOLEAN, Identify(heard)
    PROVE  OrdersKept'
<1>1. /\ at = "identify" /\ UNCHANGED <<pump, queue, served>> /\ ~Framing
      /\ pump.phase \in {"Lifted", "Complete"} /\ ServedAsOrdered'
      /\ pump.nozzle \in Nozzle /\ lane \in LaneState
  BY Identified, ServedKept DEF OrdersKept, ShownIsUp, Framing, Typed, PumpState, LaneTyped
<1>2. PICK what : Spares(left, left', what)
  BY Identified
<1>3. left'.losses <= left.losses /\ left'.late = left.late /\ left'.losses \in Nat
      /\ left.losses \in Nat /\ pump.polls \in 0 .. 2
  BY <1>2, LittleLostKept, BudgetParts DEF OrdersKept, Spares, Typed, PumpState
<1>4. HoseOut(pump) => pump.phase = "Lifted"
  BY <1>1 DEF HoseOut
<1>5. CASE Rest /\ UNCHANGED <<lane, order>>
  <2>1. at' = "rest" /\ UNCHANGED <<lane, order>>
    BY <1>5 DEF Rest, Goto
  <2>2. lane'.status = "NozzleUp" =>
          \/ pump'.phase = "Lifted"
          \/ pump'.phase = "Complete" /\ left'.losses <= pump'.polls
    BY <1>1, <1>3, <2>1 DEF OrdersKept, ShownIsUp
  <2>3. Pending(lane') =>
              /\ lane'.pre # None /\ order' \in Order /\ order'.nozzle \in {None, lane'.pre}
              /\ order'.dose = lane'.dose
    BY <1>1, <2>1, WaitingKept
  <2>4. ~left.late /\ lane'.status = "NozzleUp" => lane'.pre = None
    BY <2>1 DEF OrdersKept, Unhurried
  <2> QED BY <1>1, <1>2, <2>1, <2>2, <2>3, <2>4, RestOrders
<1>6. CASE /\ HoseOut(pump) /\ Rest /\ order' = NoOrder
           /\ lane' = [Cancelled(lane) EXCEPT !.status = "NozzleUp", !.nozzle = pump.nozzle]
  <2>1. lane'.status = "NozzleUp" /\ lane'.pre = None
    BY <1>1, <1>6, RenamedLane
  <2>2. ~Pending(lane') /\ pump'.phase = "Lifted" /\ at' = "rest"
    BY <1>1, <1>4, <1>6, <2>1 DEF Pending, Rest, Goto
  <2> QED BY <1>1, <1>2, <2>1, <2>2, RestOrders
<1>7. CASE /\ HoseOut(pump) /\ Rest /\ ~Pending(lane)
           /\ lane' = ShownUp(lane, pump.nozzle) /\ UNCHANGED order
  <2>1. lane'.status \in {"NozzleUp", lane.status} /\ lane'.pre = None
    BY <1>1, <1>7, ShownUpLane DEF Pending
  <2>2. ~Pending(lane') /\ pump'.phase = "Lifted" /\ at' = "rest"
    BY <1>1, <1>4, <1>7, <2>1 DEF Pending, Rest, Goto
  <2> QED BY <1>1, <1>2, <2>1, <2>2, RestOrders
<1>8. CASE /\ HoseOut(pump) /\ UNCHANGED <<lane, order>>
           /\ Pending(lane) /\ lane.pre \notin Nozzle \ {pump.nozzle}
           /\ at' = "price"
           /\ job' = [NoJob EXCEPT !.nozzle = pump.nozzle, !.dose = lane.dose]
  <2>1. lane.pre # None /\ Waits(lane.pre) /\ order.dose = lane.dose
    BY <1>1, <1>8 DEF OrdersKept, WaitingOrder
  <2>2. lane.pre \in {pump.nozzle, AnyNozzle}
    BY <1>1, <1>8, <2>1 DEF LaneState
  <2>3. order.nozzle \in {None, pump.nozzle}
    BY <2>1, <2>2, Apart DEF Waits, Order
  <2>4. job'.nozzle = pump.nozzle /\ job'.dose = lane.dose
    BY <1>8, FreshLaneBare DEF Job
  <2>5. LittleLost' /\ left'.late = left.late
    BY <1>2, LittleLostKept DEF OrdersKept
  <2>6. WaitingOrder'
    BY <1>8, <2>1 DEF WaitingOrder, Waits
  <2>7. OrderOnWire'
    BY <1>1, <1>8, <2>1, <2>3, <2>4 DEF OrderOnWire, Waits
  <2>8. ShownIsUp'
    BY <1>1, <1>4, <1>8 DEF ShownIsUp
  <2>9. Unhurried'
    BY <1>1, <1>8, <2>5, UnhurriedKept DEF OrdersKept, Unhurried
  <2> QED BY <1>1, <2>5, <2>6, <2>7, <2>8, <2>9 DEF OrdersKept
<1> QED BY <1>5, <1>6, <1>7, <1>8, Identified

(* An exchange that is not answered leaves the order waiting. *)
LEMMA GivenUpOrders ==
    ASSUME Typed, OrdersKept, Framing, Rest, UNCHANGED <<pump, lane, queue, bill, ghosts>>,
           left.losses > 0, Spares(left, left', "losses")
    PROVE  OrdersKept'
<1>1. ~left.late /\ left'.losses <= left.losses /\ left'.losses \in Nat /\ left.losses \in Nat
  BY LittleLostKept, BudgetParts DEF OrdersKept, LittleLost, Typed, Spares
<1>2. at # "rest" /\ at' = "rest" /\ pump.polls \in 0 .. 2
  BY DEF Framing, Rest, Goto, Typed, PumpState
<1>3. lane'.status = "NozzleUp" =>
          \/ pump'.phase = "Lifted"
          \/ pump'.phase = "Complete" /\ left'.losses <= pump'.polls
  BY <1>1, <1>2 DEF OrdersKept, ShownIsUp
<1>4. Pending(lane') =>
              /\ lane'.pre # None /\ order' \in Order /\ order'.nozzle \in {None, lane'.pre}
              /\ order'.dose = lane'.dose
  BY <1>1 DEF OrdersKept, WaitingOrder, Waits, ghosts
<1>5. ServedAsOrdered' /\ (lane'.status = "NozzleUp" => lane'.pre = None)
  BY <1>1, ServedKept DEF OrdersKept, Unhurried, ghosts
<1> QED BY <1>2, <1>3, <1>4, <1>5, RestOrders

(* The price and then the limit are on the pump; what is next goes on the wire. *)
LEMMA FrameOrders ==
    ASSUME Typed, OrdersKept, Framing, UNCHANGED <<lane, queue, bill, ghosts, job>>,
           NEW what, Spares(left, left', what),
           pump'.phase = pump.phase, pump'.nozzle = pump.nozzle, pump'.polls = pump.polls,
           \/ at' = "preset"
           \/ at' = "authorize" /\ pump'.limit = job.dose
    PROVE  OrdersKept'
<1>1. LittleLost' /\ left'.late = left.late /\ left'.losses <= left.losses
  BY LittleLostKept DEF OrdersKept
<1>2. at # "rest" /\ Framing' /\ at' # "identify"
  BY DEF Framing
<1>3. left'.losses \in Nat /\ left.losses \in Nat /\ pump.polls \in 0 .. 2
  BY BudgetParts DEF Typed, PumpState, Spares
<1>4. WaitingOrder'
  BY <1>1, <1>2 DEF OrdersKept, WaitingOrder, Waits, ghosts
<1>5. OrderOnWire'
  BY <1>2 DEF OrdersKept, OrderOnWire, Waits, ghosts
<1>6. ShownIsUp'
  BY <1>1, <1>2, <1>3 DEF OrdersKept, ShownIsUp
<1>7. Unhurried'
  BY <1>1, <1>2, UnhurriedKept DEF OrdersKept, Unhurried
<1>8. ServedAsOrdered'
  BY <1>2 DEF OrdersKept, OrderOnWire, ServedAsOrdered
<1> QED BY <1>1, <1>4, <1>5, <1>6, <1>7, <1>8 DEF OrdersKept

LEMMA SendPriceOrders ==
    ASSUME Typed, OrdersKept, NEW heard \in BOOLEAN, NEW arrived \in BOOLEAN,
           SendPrice(heard, arrived)
    PROVE  OrdersKept'
<1>1. UNCHANGED <<pump, lane, queue, bill, ghosts>> /\ Framing
  BY FrameSent DEF SendPrice, Framing
<1>2. CASE heard
  <2>1. at' = "preset" /\ UNCHANGED job
    BY <1>2 DEF SendPrice, Goto
  <2>2. PICK what : Spares(left, left', what)
    BY FrameSent DEF SendPrice
  <2> QED BY <1>1, <2>1, <2>2, FrameOrders
<1>3. CASE ~heard
  <2>1. Rest /\ left.losses > 0 /\ Spares(left, left', "losses")
    BY <1>3, FrameSent DEF SendPrice
  <2> QED BY <1>1, <2>1, GivenUpOrders
<1> QED BY <1>2, <1>3

LEMMA SendPresetOrders ==
    ASSUME Typed, OrdersKept, NEW heard \in BOOLEAN, NEW arrived \in BOOLEAN,
           SendPreset(heard, arrived)
    PROVE  OrdersKept'
<1>1. UNCHANGED <<lane, queue, bill, ghosts>> /\ Framing
  BY FrameSent DEF SendPreset, Framing
<1>2. CASE heard /\ arrived
  <2>1. at' = "authorize" /\ UNCHANGED job /\ pump' = PumpPreset(pump, job.dose)
    BY <1>2 DEF SendPreset, Goto
  <2>2. /\ pump'.phase = pump.phase /\ pump'.nozzle = pump.nozzle /\ pump'.polls = pump.polls
        /\ pump'.limit = job.dose
    <3>1. pump \in PumpState /\ job.dose \in Limit
      BY JobParts DEF Typed, JobTyped
    <3> QED BY <2>1, <3>1, CommandedPump
  <2>3. Spares(left, left', "nothing")
    BY <1>2, FrameSent DEF SendPreset
  <2> QED BY <1>1, <2>1, <2>2, <2>3, FrameOrders
<1>3. CASE heard /\ ~arrived
  <2>1. Spares(left, left', "limits")
    BY <1>3, FrameSent DEF SendPreset
  <2> QED BY <2>1, LittleLostKept DEF OrdersKept
<1>4. CASE ~heard
  <2>1. /\ Rest /\ left.losses > 0 /\ Spares(left, left', "losses") /\ ~arrived
        /\ UNCHANGED pump
    BY <1>4, FrameSent DEF SendPreset
  <2> QED BY <1>1, <2>1, GivenUpOrders
<1> QED BY <1>2, <1>3, <1>4

(* The pump is released for the order it was told the limit of. *)
LEMMA SendAuthorizeOrders ==
    ASSUME Typed, OrdersKept, NEW arrived \in BOOLEAN, SendAuthorize(arrived)
    PROVE  OrdersKept'
<1>1. /\ at = "authorize" /\ at' = "rest" /\ Framing /\ UNCHANGED <<queue, order>>
      /\ lane'.status = "Authorizing" /\ lane'.pre = None
      /\ pump' = IF arrived THEN PumpAuthorize(pump) ELSE pump
      /\ served' = IF pump' # pump THEN order ELSE served
  BY AuthorizeSent DEF Rest, Goto, Framing
<1>2. PICK what : Spares(left, left', what)
  BY AuthorizeSent
<1>3. ~Pending(lane')
  BY <1>1 DEF Pending
<1>4. /\ order \in Order /\ order.nozzle \in {None, job.nozzle} /\ order.dose = job.dose
      /\ order.nozzle # None => job.nozzle = pump.nozzle
      /\ pump.phase \in {"Lifted", "Complete"}
      /\ pump.phase = "Lifted" => pump.limit = job.dose
  BY <1>1 DEF OrdersKept, OrderOnWire, Waits
<1>5. ServedAsOrdered'
  <2>1. CASE pump' = pump
    BY <1>4, <2>1 DEF ServedAsOrdered
  <2>2. CASE pump' # pump
    <3>1. pump' = PumpAuthorize(pump) /\ pump.phase = "Lifted"
      BY <1>1, <2>2 DEF PumpAuthorize
    <3>2. pump'.nozzle = pump.nozzle /\ pump'.limit = pump.limit
      BY <3>1, CommandedPump DEF Typed, Limit
    <3>3. order # NoOrder
      BY <1>4, Apart DEF Order, NoOrder, AnyNozzle
    <3> QED BY <1>1, <1>4, <2>2, <3>1, <3>2, <3>3 DEF ServedAsOrdered
  <2> QED BY <2>1, <2>2
<1> QED BY <1>1, <1>2, <1>3, <1>5, RestOrders

LEMMA DisplayOrders ==
    ASSUME Typed, OrdersKept, NEW heard \in BOOLEAN, GetDisplay(heard)
    PROVE  OrdersKept'
<1>1. /\ at = "display" /\ at' = "rest" /\ ~Framing /\ UNCHANGED <<pump, queue, order, served>>
      /\ lane'.status = "Delivering" /\ lane'.pre = lane.pre /\ lane'.dose = lane.dose
  BY DisplayGot DEF Rest, Goto, Framing, ghosts
<1>2. PICK what : Spares(left, left', what)
  BY DisplayGot
<1>3. Pending(lane') => Pending(lane)
  BY <1>1 DEF Pending
<1>4. Pending(lane') =>
              /\ lane'.pre # None /\ order' \in Order /\ order'.nozzle \in {None, lane'.pre}
              /\ order'.dose = lane'.dose
  BY <1>1, <1>3, WaitingKept
<1>5. ServedAsOrdered'
  BY <1>1, ServedKept DEF OrdersKept
<1> QED BY <1>1, <1>2, <1>4, <1>5, RestOrders

(* A close, whatever becomes of it, sends no order. *)
LEMMA CloseOrders ==
    ASSUME Typed, OrdersKept, Closing, UNCHANGED <<pump, queue, served>>,
           NEW what, Spares(left, left', what),
           \/ CloseFailed
           \/ UNCHANGED <<lane, order>> /\ at' \in {"close", "commit"}
           \/ at' = "rest" /\ lane'.status = "Done" /\ lane'.pre = None
    PROVE  OrdersKept'
<1>1. ~Framing /\ at # "rest" /\ ServedAsOrdered' /\ lane.status # "NozzleUp"
  BY ServedKept DEF OrdersKept, Closing, Framing, Typed, JobTyped, Closeable
<1>2. CASE UNCHANGED <<lane, order>> /\ at' = "rest"
  <2>1. Pending(lane') =>
              /\ lane'.pre # None /\ order' \in Order /\ order'.nozzle \in {None, lane'.pre}
              /\ order'.dose = lane'.dose
    BY <1>1, <1>2, WaitingKept
  <2> QED BY <1>1, <1>2, <2>1, RestOrders
<1>3. CASE UNCHANGED <<lane, order>> /\ at' \in {"close", "commit"}
  <2>1. LittleLost' /\ left'.late = left.late
    BY LittleLostKept DEF OrdersKept
  <2>2. WaitingOrder'
    BY <1>1, <1>3 DEF OrdersKept, WaitingOrder, Waits
  <2>3. OrderOnWire' /\ ShownIsUp'
    BY <1>1, <1>3 DEF OrderOnWire, ShownIsUp, Framing
  <2>4. Unhurried'
    BY <1>1, <1>3, <2>1, UnhurriedKept DEF OrdersKept
  <2> QED BY <1>1, <2>1, <2>2, <2>3, <2>4 DEF OrdersKept
<1>4. CASE Bare(lane') /\ at' = "rest"
  BY <1>1, <1>4, BareWaits, RestOrders
<1>5. CASE at' = "rest" /\ lane'.status = "Done" /\ lane'.pre = None
  <2>1. ~Pending(lane')
    BY <1>5 DEF Pending
  <2> QED BY <1>1, <1>5, <2>1, RestOrders
<1>6. CASE CloseFailed
  <2>1. lane \in LaneState
    BY DEF Typed, LaneTyped
  <2>2. \/ UNCHANGED <<lane, order>> /\ at' \in {"rest", "close"}
        \/ Bare(lane') /\ at' = "rest"
    BY <1>6, <2>1, FailedClose, ResetLaneBare DEF Rest, Goto
  <2> QED BY <1>2, <1>3, <1>4, <2>2
<1> QED BY <1>3, <1>5, <1>6

LEMMA SaleOrders ==
    ASSUME Typed, OrdersKept,
           (\E heard \in BOOLEAN : GetTransaction(heard)) \/ CommitSale \/ CommitFails
    PROVE  OrdersKept'
<1>1. ASSUME NEW heard \in BOOLEAN, GetTransaction(heard) PROVE OrdersKept'
  <2>1. PICK what : Spares(left, left', what)
    BY <1>1, TransactionGot
  <2>2. /\ Closing /\ UNCHANGED <<pump, queue, served>>
        /\ CloseFailed \/ (UNCHANGED <<lane, order>> /\ at' \in {"close", "commit"})
    BY <1>1, TransactionGot
  <2> QED BY <2>1, <2>2, CloseOrders
<1>2. CASE CommitSale
  <2>1. /\ Closing /\ UNCHANGED <<pump, queue, served, left>> /\ at' = "rest"
        /\ lane'.status = "Done" /\ lane'.pre = None
    BY <1>2, SaleCommitted DEF Rest, Goto, Closing, ghosts
  <2>2. Spares(left, left', "nothing")
    BY <2>1, SameSpares DEF Typed
  <2> QED BY <2>1, <2>2, CloseOrders
<1>3. CASE CommitFails
  <2>1. Spares(left, left', "faults")
    BY <1>3, SpendSpares DEF CommitFails, Typed, Counts
  <2>2. Closing /\ CloseFailed /\ UNCHANGED <<pump, queue, served>>
    BY <1>3 DEF CommitFails, Closing
  <2> QED BY <2>1, <2>2, CloseOrders
<1> QED BY <1>1, <1>2, <1>3

(* A command for an order: one that finds the nozzle up starts it. *)
LEMMA PreauthorizeOrders ==
    ASSUME Typed, OrdersKept, PreauthorizeCommand
    PROVE  OrdersKept'
<1> DEFINE c == Head(queue)
<1>1. Dequeued("order") /\ c \in Command /\ c.kind = "order" /\ queue # <<>> /\ UNCHANGED served
  BY Taken DEF PreauthorizeCommand
<1>2. /\ c.nozzle \in Nozzle /\ lane'.pre = c.nozzle /\ lane'.dose = c.dose
      /\ lane'.status = "NozzleUp" => lane.status = "NozzleUp"
      /\ Ordered(c) /\ at' = "rest" /\ UNCHANGED <<pump, left>>
  BY PreauthorizedLane DEF Rest, Goto
<1>3. order' \in Order /\ order'.nozzle = c.nozzle /\ order'.dose = c.dose
  BY <1>1, <1>2, OrderedTyped
<1>4. c.nozzle # None
  BY <1>2, Apart
<1>5. ~left.late => lane.status = "Idle"
  BY <1>1, <1>4 DEF OrdersKept, Unhurried
<1>6. lane'.status = "NozzleUp" =>
          \/ pump'.phase = "Lifted"
          \/ pump'.phase = "Complete" /\ left'.losses <= pump'.polls
  BY <1>2 DEF OrdersKept, ShownIsUp
<1>7. ServedAsOrdered' /\ Spares(left, left', "nothing")
  BY <1>1, <1>2, ServedKept, SameSpares DEF OrdersKept, Typed
<1>8. (\E kind : Dequeued(kind)) /\ (~left.late => lane'.status # "NozzleUp")
  BY <1>1, <1>2, <1>5
<1> QED BY <1>2, <1>3, <1>4, <1>6, <1>7, <1>8, RestOrders

LEMMA AuthorizeOrders ==
    ASSUME Typed, OrdersKept, AuthorizeCommand
    PROVE  OrdersKept'
<1> DEFINE c == Head(queue)
<1>1. /\ Dequeued("order") /\ c \in Command /\ c.nozzle = None /\ Ordered(c)
      /\ UNCHANGED <<pump, left>>
  BY AuthorizeTaken
<1>2. UNCHANGED served /\ order' \in Order /\ order'.nozzle = None /\ order'.dose = c.dose
  BY <1>1, Taken, OrderedTyped
<1>3. ServedAsOrdered' /\ Spares(left, left', "nothing") /\ (\E kind : Dequeued(kind))
  BY <1>1, <1>2, ServedKept, SameSpares DEF OrdersKept, Typed
<1>4. CASE lane.status = "NozzleUp"
  <2>1. /\ lane.nozzle \in Nozzle /\ UNCHANGED lane /\ at' = "price"
        /\ job'.nozzle = lane.nozzle /\ job'.dose = c.dose /\ job'.reactive = TRUE
    BY <1>4, AuthorizeTaken
  <2>2. pump.phase \in {"Lifted", "Complete"}
    BY <1>4 DEF OrdersKept, ShownIsUp
  <2>3. WaitingOrder'
    <3>1. ~left.late => ~Pending(lane')
      BY <1>4, <2>1 DEF OrdersKept, Unhurried, Pending
    <3> QED BY <1>1, <2>1, <3>1 DEF WaitingOrder, Framing
  <2>4. OrderOnWire'
    BY <1>1, <1>2, <2>1, <2>2 DEF OrderOnWire, Waits
  <2>5. ShownIsUp'
    BY <1>1, <2>1 DEF OrdersKept, ShownIsUp
  <2>6. LittleLost' /\ Unhurried'
    BY <1>1, <1>3, <2>1, LittleLostKept, UnhurriedKept DEF OrdersKept, Unhurried
  <2> QED BY <1>3, <2>3, <2>4, <2>5, <2>6 DEF OrdersKept
<1>5. CASE lane.status # "NozzleUp"
  <2>1. /\ at' = "rest" /\ lane'.pre = AnyNozzle /\ lane'.dose = c.dose
        /\ lane'.status # "NozzleUp"
    BY <1>5, AuthorizeTaken DEF Rest, Goto
  <2> QED BY <1>2, <1>3, <2>1, Apart, RestOrders
<1> QED BY <1>4, <1>5

LEMMA HaltOrders ==
    ASSUME Typed, OrdersKept, NEW arrived \in BOOLEAN,
           StopCommand(arrived) \/ EStopCommand(arrived)
    PROVE  OrdersKept'
<1>1. /\ \E kind : Dequeued(kind)
      /\ at' = "rest" /\ UNCHANGED order /\ lane'.status = "Stopped"
      /\ (lane'.pre = lane.pre /\ lane'.dose = lane.dose) \/ lane'.pre = None
      /\ pump'.nozzle = pump.nozzle /\ pump'.limit = pump.limit
      /\ pump'.phase = IF arrived /\ HoseOut(pump) THEN "Stopped" ELSE pump.phase
  BY HaltTaken DEF Rest, Goto
<1>2. PICK what : Spares(left, left', what)
  BY HaltTaken
<1>3. UNCHANGED served /\ ~Framing
  BY <1>1, Taken DEF Framing
<1>4. ServedAsOrdered'
  BY <1>1, <1>3, ServedKept DEF OrdersKept
<1>5. Pending(lane') =>
              /\ lane'.pre # None /\ order' \in Order /\ order'.nozzle \in {None, lane'.pre}
              /\ order'.dose = lane'.dose
  BY <1>1, <1>3 DEF Pending, OrdersKept, WaitingOrder, Waits
<1> QED BY <1>1, <1>2, <1>4, <1>5, RestOrders

LEMMA DismissOrders ==
    ASSUME Typed, OrdersKept, ResetCommand \/ ClearCommand \/ CancelCommand
    PROVE  OrdersKept'
<1>1. /\ UNCHANGED <<pump, left>> /\ \E kind : Dequeued(kind)
      /\ \/ UNCHANGED <<lane, order>> /\ at' = "rest"
         \/ Bare(lane') /\ at' = "rest"
         \/ UNCHANGED <<lane, order>> /\ lane.status = "Stopped" /\ at' = "close"
  BY DismissTaken DEF Rest, Goto
<1>2. UNCHANGED served /\ ~Framing
  BY <1>1, Taken DEF Framing
<1>3. ServedAsOrdered' /\ Spares(left, left', "nothing")
  BY <1>1, <1>2, ServedKept, SameSpares DEF OrdersKept, Typed
<1>4. CASE UNCHANGED <<lane, order>> /\ at' = "rest"
  <2>1. Pending(lane') =>
              /\ lane'.pre # None /\ order' \in Order /\ order'.nozzle \in {None, lane'.pre}
              /\ order'.dose = lane'.dose
    BY <1>2, <1>4, WaitingKept
  <2>2. ~left.late /\ lane'.status = "NozzleUp" => lane'.pre = None
    BY <1>4 DEF OrdersKept, Unhurried
  <2>3. lane'.status = "NozzleUp" =>
          \/ pump'.phase = "Lifted"
          \/ pump'.phase = "Complete" /\ left'.losses <= pump'.polls
    BY <1>1, <1>4 DEF OrdersKept, ShownIsUp
  <2> QED BY <1>1, <1>3, <1>4, <2>1, <2>2, <2>3, RestOrders
<1>5. CASE Bare(lane') /\ at' = "rest"
  BY <1>1, <1>3, <1>5, BareWaits, RestOrders
<1>6. CASE UNCHANGED <<lane, order>> /\ lane.status = "Stopped" /\ at' = "close"
  <2>1. LittleLost' /\ Unhurried'
    BY <1>1, <1>3, <1>6, LittleLostKept, UnhurriedKept DEF OrdersKept
  <2>2. WaitingOrder'
    BY <1>1, <1>2, <1>6 DEF OrdersKept, WaitingOrder, Waits
  <2>3. OrderOnWire' /\ ShownIsUp'
    BY <1>6 DEF OrderOnWire, ShownIsUp, Framing
  <2> QED BY <1>3, <2>1, <2>2, <2>3 DEF OrdersKept
<1> QED BY <1>1, <1>4, <1>5, <1>6

(* A request waits behind the others, or for the poll that is next. *)
LEMMA RequestOrders ==
    ASSUME Typed, OrdersKept, RequestStep
    PROVE  OrdersKept'
<1>1. PICK kind \in {"order", "cancel", "stop", "estop", "reset", "clear"},
           n \in Nozzle \cup {None}, d \in Limit :
             Queued(kind, n, d) /\ Due(kind, n) /\ \E what : Spares(left, left', what)
  BY Requested
<1>2. PICK what : Spares(left, left', what)
  BY <1>1
<1>3. LittleLost' /\ left'.late = left.late /\ left'.losses <= left.losses
  BY <1>2, LittleLostKept DEF OrdersKept
<1>4. left'.losses \in Nat /\ left.losses \in Nat /\ pump.polls \in 0 .. 2
  BY <1>2, BudgetParts DEF Typed, PumpState, Spares
<1>5. /\ UNCHANGED <<pump, lane, at, job, bill, ghosts>> /\ (left.late \/ Polling)
      /\ queue' = Append(queue, [kind |-> kind, nozzle |-> n, dose |-> d])
  BY <1>1, Asked
<1>6. WaitingOrder' /\ OrderOnWire' /\ ServedAsOrdered'
  BY <1>3, <1>5
     DEF OrdersKept, WaitingOrder, OrderOnWire, ServedAsOrdered, Waits, Framing, ghosts
<1>7. ShownIsUp'
  BY <1>3, <1>4, <1>5 DEF OrdersKept, ShownIsUp
<1>8. Unhurried'
  <2>1. CASE left.late
    BY <1>3, <2>1 DEF Unhurried
  <2>2. CASE ~left.late
    <3>1. at = "rest" /\ queue = <<>>
      BY <1>5, <2>2 DEF Polling
    <3> DEFINE c == [kind |-> kind, nozzle |-> n, dose |-> d]
    <3>2. c.kind = kind /\ c.nozzle = n /\ c \in Command
      BY DEF Command
    <3>3. queue' = Append(<<>>, c)
      BY <1>5, <3>1
    <3> HIDE DEF c
    <3>4. Len(queue') <= 1 /\ Head(queue') = c
      BY <3>2, <3>3
    <3>5. c.kind = "order" =>
            IF c.nozzle = None THEN lane'.status = "NozzleUp" ELSE lane'.status = "Idle"
      BY <1>1, <1>5, <3>2 DEF Due
    <3>6. at' = "rest" /\ (lane'.status = "NozzleUp" => lane'.pre = None)
      BY <1>5, <2>2, <3>1 DEF OrdersKept, Unhurried
    <3> QED BY <3>4, <3>5, <3>6 DEF Unhurried
  <2> QED BY <2>1, <2>2
<1> QED BY <1>3, <1>6, <1>7, <1>8 DEF OrdersKept

LEMMA LiftOrders ==
    ASSUME Typed, OrdersKept, NEW n \in Nozzle, CustomerLifts(n)
    PROVE  OrdersKept'
<1>1. /\ pump.phase = "Idle" /\ pump'.phase = "Lifted"
      /\ UNCHANGED <<lane, queue, at, job, order, left>>
  BY Lifts
<1>2. ~Framing /\ at # "identify" /\ lane.status # "NozzleUp"
  BY <1>1 DEF OrdersKept, OrderOnWire, ShownIsUp
<1>3. WaitingOrder' /\ OrderOnWire' /\ ShownIsUp'
  BY <1>1, <1>2 DEF OrdersKept, WaitingOrder, OrderOnWire, ShownIsUp, Framing, Waits
<1>4. Unhurried' /\ LittleLost' /\ ServedAsOrdered'
  BY <1>1 DEF OrdersKept, Unhurried, LittleLost, ServedAsOrdered
<1> QED BY <1>3, <1>4 DEF OrdersKept

LEMMA FlowOrders ==
    ASSUME Typed, OrdersKept, CustomerHolsters \/ FuelFlows
    PROVE  OrdersKept'
<1>1. /\ UNCHANGED <<lane, queue, at, job, order, served, left>>
      /\ pump'.nozzle = pump.nozzle
      /\ \/ pump'.phase = "Complete" /\ pump'.polls = 2
         \/ pump.phase = "Delivering" /\ pump'.phase = "Delivering" /\ pump'.limit = pump.limit
  BY Flows DEF ghosts
<1>2. CASE pump'.phase = "Complete" /\ pump'.polls = 2
  <2>1. left.losses <= 2
    BY DEF OrdersKept, LittleLost
  <2>2. WaitingOrder' /\ OrderOnWire' /\ ShownIsUp'
    BY <1>1, <1>2, <2>1 DEF OrdersKept, WaitingOrder, OrderOnWire, ShownIsUp, Framing, Waits
  <2>3. Unhurried' /\ LittleLost' /\ ServedAsOrdered'
    BY <1>1, <1>2 DEF OrdersKept, Unhurried, LittleLost, ServedAsOrdered
  <2> QED BY <2>2, <2>3 DEF OrdersKept
<1>3. CASE pump.phase = "Delivering" /\ pump'.phase = "Delivering" /\ pump'.limit = pump.limit
  <2>1. ~Framing /\ at # "identify" /\ lane.status # "NozzleUp"
    BY <1>3 DEF OrdersKept, OrderOnWire, ShownIsUp
  <2>2. WaitingOrder' /\ OrderOnWire' /\ ShownIsUp'
    BY <1>1, <2>1 DEF OrdersKept, WaitingOrder, OrderOnWire, ShownIsUp, Framing, Waits
  <2>3. Unhurried' /\ LittleLost' /\ ServedAsOrdered'
    BY <1>1, <1>3 DEF OrdersKept, Unhurried, LittleLost, ServedAsOrdered
  <2> QED BY <2>2, <2>3 DEF OrdersKept
<1> QED BY <1>1, <1>2, <1>3

LEMMA CrashOrders ==
    ASSUME Typed, OrdersKept, Crash
    PROVE  OrdersKept'
<1>1. /\ Spares(left, left', "crashes") /\ at' = "rest" /\ queue' = <<>>
      /\ lane'.status = "Offline" /\ lane'.pre = None /\ UNCHANGED <<pump, served>>
  BY Crashes DEF Rest, Goto
<1>2. LittleLost' /\ ServedAsOrdered'
  BY <1>1, LittleLostKept, ServedKept DEF OrdersKept
<1>3. WaitingOrder' /\ OrderOnWire' /\ ShownIsUp' /\ Unhurried'
  BY <1>1 DEF WaitingOrder, OrderOnWire, ShownIsUp, Unhurried, Framing, Pending
<1> QED BY <1>2, <1>3 DEF OrdersKept

LEMMA StutterOrders ==
    ASSUME OrdersKept, UNCHANGED vars
    PROVE  OrdersKept'
BY DEF vars, ghosts, OrdersKept, WaitingOrder, OrderOnWire, ShownIsUp, Unhurried, LittleLost,
   ServedAsOrdered, Framing, Waits

LEMMA LoopOrders ==
    ASSUME Typed, OrdersKept, Loop
    PROVE  OrdersKept'
<1>1. CASE PollStep
  BY <1>1, StatusMissedOrders, StatusOrders, IdentifyOrders, SendPriceOrders,
     SendPresetOrders, SendAuthorizeOrders, DisplayOrders, SaleOrders DEF PollStep
<1>2. CASE CommandStep
  BY <1>2, PreauthorizeOrders, AuthorizeOrders, HaltOrders, DismissOrders DEF CommandStep
<1> QED BY <1>1, <1>2 DEF Loop

(* The line on which a limit arrives, and on which two answers at most are     *)
(* lost; none, where commands are taken in the middle of a poll.               *)
FramesArrive ==
    \A b \in Budgets : b.limits = 0 /\ b.losses <= 2 /\ (b.late => b.losses = 0)

LEMMA InitOrders ==
    ASSUME FramesArrive, Init
    PROVE  OrdersKept
<1>1. /\ pump = FreshPump /\ lane = FreshLane /\ queue = <<>> /\ at = "rest"
      /\ left \in Budgets
  BY DEF Init
<1>2. LittleLost
  BY <1>1 DEF FramesArrive, LittleLost
<1>3. FreshLane.status = "Offline" /\ FreshLane.pre = None /\ FreshPump.phase = "Idle"
  BY DEF FreshLane, FreshPump
<1>4. WaitingOrder /\ OrderOnWire /\ ShownIsUp /\ Unhurried /\ ServedAsOrdered
  BY <1>1, <1>3 DEF WaitingOrder, OrderOnWire, ShownIsUp, Unhurried, ServedAsOrdered, Framing,
     Pending
<1> QED BY <1>2, <1>4 DEF OrdersKept

(* Fuel is released only for an order that stands, at the nozzle it names and  *)
(* up to its dose (gbr_query_nozzle_from_all, gbr_authorize), on a line whose  *)
(* limits arrive: whatever waits, is taken late, times out, stops or crashes.  *)
(* A limit that is lost goes unnoticed, a nozzle that stays unpolled may be    *)
(* another customer's by the time it is started.                               *)
THEOREM GilbarcoServes == ASSUME FramesArrive PROVE Spec => []ServedAsOrdered
<1>1. Init => OrdersKept
  BY InitOrders
<1>2. ASSUME Typed, OrdersKept, [Next]_vars PROVE OrdersKept'
  BY <1>2, LoopOrders, RequestOrders, LiftOrders, FlowOrders, CrashOrders, StutterOrders
     DEF Next, PumpStep
<1>3. OrdersKept => ServedAsOrdered
  BY DEF OrdersKept
<1> QED BY <1>1, <1>2, <1>3, TypedAlways, PTL DEF Spec

----------------------------------------------------------------------------
(* Sales. *)

(* Mishaps that may still come; a second customer; a sale that is still owed. *)
Chance == left.losses + left.faults
Again == left.lifts > 1
Owed == bill[fills] = <<>> /\ ~forgotten

OneChance ==
    ~left.early /\ (Again => Chance <= 1) /\ (left.late => left.stops = 0 /\ left.estops = 0)

(* The register is that of the last lift, and clear until fuel flows. *)
Register ==
    /\ fills <= left.lifts
    /\ fills = 0 => pump.phase = "Idle" /\ pump.volume = 0
    /\ pump.phase \in {"Lifted", "Ready"} => pump.volume = 0
    /\ lane.status = "NozzleUp" \/ at = "identify" \/ Framing => pump.volume = 0

(* The lane acts on a nozzle that was lifted. *)
AfterLift ==
    Closeable(lane) \/ lane.status = "NozzleUp" \/ at # "rest" \/ lane.tx # None => fills >= 1

(* Where the pump is when the loop is in the middle of a poll. *)
Steps ==
    /\ at = "identify" => pump.phase \in {"Lifted", "Complete"}
    /\ lane.status = "NozzleUp" \/ Framing => pump.phase \in {"Lifted", "Complete", "Idle"}
    /\ lane.status = "NozzleUp" => lane.nozzle = pump.nozzle
    /\ Framing => job.nozzle = pump.nozzle
    /\ at = "display" => pump.phase \in {"Ready", "Delivering", "Complete"}
    /\ Closing => pump.phase \in {"Complete", "Idle"}
    /\ Closing /\ job.why = "reset" => ~Again
    /\ at = "commit" => job.fill = fills /\ job.volume = pump.volume

(* While there may be another lift, the pump stays complete for more polls than *)
(* there are mishaps left: it is not idle before the lane is through with it.  *)
InTime ==
    Again =>
      /\ pump.phase = "Idle" =>
            at = "rest" /\ ~Closeable(lane) /\ lane.status # "NozzleUp"
      /\ pump.phase = "Complete" /\ (Closeable(lane) \/ lane.status = "NozzleUp" \/ at # "rest") =>
            Chance < pump.polls \/ (Closing /\ Chance = pump.polls)

(* A sale that is billed is over, for the pump and for the lane. *)
BilledOver ==
    bill[fills] # <<>> =>
        /\ at = "rest" /\ pump.phase \in {"Complete", "Idle"}
        /\ lane.status \in {"Idle", "Done", "PreAuthorized", "Offline"} /\ lane.tx = None
        /\ bill[fills][1].volume = pump.volume
        /\ (pump.volume > 0 /\ ~forgotten) => bill[fills][1].nozzle = pump.nozzle

BilledApart ==
    \A f \in Fill : Len(bill[f]) <= 1 /\ (f > fills => bill[f] = <<>>)

(* The lane has a sale under way for the fuel that flows, or will have one    *)
(* after the next poll that is answered.                                       *)
SaleHeld ==
    (\/ pump.phase \in {"Ready", "Delivering"}
     \/ pump.phase = "Stopped" /\ pump.volume > 0) /\ ~forgotten =>
       /\ lane.tx = pump.nozzle
       /\ Again => \/ Closeable(lane)
                   \/ lane.status = "PreAuthorized" /\
                        (at = "display" \/ (pump.phase = "Ready" /\ Chance < pump.polls))

SaleOwed ==
    pump.volume > 0 /\ Owed =>
        /\ Closeable(lane) \/ at = "display" => lane.tx = pump.nozzle
        /\ Again => Closeable(lane) \/ at = "display"

LaneOwns == lane.tx # None => Closeable(lane) \/ (left.late /\ lane.status = "PreAuthorized")

(* What waits for the loop: one command at a time, that finds the lane as it   *)
(* was; or orders among others, that come before fuel flows or find nothing.   *)
Calm ==
    /\ Len(queue) <= 1
    /\ queue # <<>> =>
        /\ at = "rest"
        /\ Head(queue).kind = "order" =>
              IF Head(queue).nozzle = None THEN lane.status = "NozzleUp"
              ELSE lane.status = "Idle"
        /\ Head(queue).kind \in {"stop", "estop"} => lane.tx # None
        /\ Head(queue).kind \in {"reset", "clear"} =>
              lane.status # "Stopped" \/ pump.phase = "Idle"

OrderWaits == \E i \in DOMAIN queue : queue[i].kind = "order"

OrderInTime ==
    IF at # "rest" THEN lane.status \in {"Idle", "NozzleUp"}
    ELSE \/ ~Closeable(lane) \/ forgotten
         \/ /\ pump.volume = 0 /\ pump.phase # "Delivering"
            /\ pump.phase = "Ready" => pump.polls = 2

Raced ==
    /\ \A i \in DOMAIN queue : queue[i].kind \notin {"stop", "estop"}
    /\ lane.status # "Stopped" /\ pump.phase # "Stopped"
    /\ OrderWaits => OrderInTime

Commands == IF left.late THEN Raced ELSE Calm

SalesKept ==
    /\ OneChance /\ Register /\ AfterLift /\ Steps /\ InTime /\ BilledOver /\ BilledApart
    /\ SaleHeld /\ SaleOwed /\ LaneOwns /\ Commands /\ SaleKept

LEMMA OneChanceKept ==
    ASSUME Typed, OneChance, NEW what, Spares(left, left', what)
    PROVE  /\ OneChance' /\ left'.late = left.late /\ left'.lifts = left.lifts
           /\ Again' = Again
           /\ Chance \in Nat /\ Chance' \in Nat
           /\ Chance' = IF what \in {"losses", "faults"} THEN Chance - 1 ELSE Chance
           /\ Again => Chance <= 1
<1>1. left \in Budget /\ left' \in Budget
  BY DEF Typed, Spares
<1>2. /\ left.losses \in Nat /\ left.faults \in Nat /\ left.stops \in Nat /\ left.estops \in Nat
      /\ left'.losses \in Nat /\ left'.faults \in Nat
      /\ left'.stops \in Nat /\ left'.estops \in Nat
  BY <1>1, BudgetParts
<1>3. Again' = Again
  BY DEF Spares, Again
<1>4. /\ Chance \in Nat /\ Chance' \in Nat
      /\ Chance' = IF what \in {"losses", "faults"} THEN Chance - 1 ELSE Chance
  BY <1>2 DEF Spares, Chance
<1>5. (left.stops = 0 => left'.stops = 0) /\ (left.estops = 0 => left'.estops = 0)
  BY <1>2 DEF Spares
<1>6. left'.late = left.late /\ left'.lifts = left.lifts /\ left'.early = left.early
  BY DEF Spares
<1>7. (Again => Chance <= 1) /\ ~left.early /\ (left.late => left.stops = 0 /\ left.estops = 0)
  BY DEF OneChance
<1> HIDE DEF Chance, Again
<1>8. Again' => Chance' <= 1
  BY <1>3, <1>4, <1>7
<1> QED BY <1>3, <1>4, <1>5, <1>6, <1>7, <1>8 DEF OneChance

(* In the middle of a poll, or as the last command is taken, nothing waits. *)
LEMMA CalmKept ==
    ASSUME Typed, Commands, ~left.late, ~left'.late,
           \/ UNCHANGED queue /\ (queue = <<>> \/ at # "rest")
           \/ \E kind : Dequeued(kind)
    PROVE  Commands'
<1>1. queue' = <<>>
  <2>1. CASE UNCHANGED queue /\ (queue = <<>> \/ at # "rest")
    BY <2>1 DEF Commands, Calm
  <2>2. CASE \E kind : Dequeued(kind)
    <3>1. Len(queue') = Len(queue) - 1 /\ queue' \in Seq(Command) /\ queue \in Seq(Command)
      BY <2>2, Taken DEF QueueTyped, Typed
    <3> QED BY <3>1 DEF Commands, Calm
  <2> QED BY <2>1, <2>2
<1> QED BY <1>1 DEF Commands, Calm

LEMMA RacedKept ==
    ASSUME Typed, Commands, left.late, left'.late,
           UNCHANGED queue \/ \E kind : Dequeued(kind),
           lane'.status # "Stopped", pump'.phase # "Stopped",
           OrderWaits => OrderInTime'
    PROVE  Commands'
<1>1. \A i \in DOMAIN queue' : \E k \in DOMAIN queue : queue'[i] = queue[k]
  <2>1. CASE UNCHANGED queue
    BY <2>1
  <2>2. CASE \E kind : Dequeued(kind)
    BY <2>2, Taken
  <2> QED BY <2>1, <2>2
<1>2. OrderWaits' => OrderWaits
  BY <1>1 DEF OrderWaits
<1>3. \A i \in DOMAIN queue' : queue'[i].kind \notin {"stop", "estop"}
  BY <1>1 DEF Commands, Raced
<1> QED BY <1>2, <1>3 DEF Commands, Raced

(* A poll finds an empty queue. *)
LEMMA PolledCommands ==
    ASSUME Typed, Commands, left'.late = left.late, queue = <<>>, UNCHANGED queue,
           left.late => lane'.status # "Stopped" /\ pump'.phase # "Stopped"
    PROVE  Commands'
<1>1. CASE left.late
  <2>1. ~OrderWaits
    BY DEF OrderWaits
  <2> QED BY <1>1, <2>1, RacedKept
<1>2. CASE ~left.late
  BY <1>2, CalmKept
<1> QED BY <1>1, <1>2

LEMMA BilledKept ==
    ASSUME BilledApart, BilledOver, UNCHANGED <<bill, fills>>,
           pump'.nozzle = pump.nozzle, pump'.volume = pump.volume, forgotten => forgotten',
           bill[fills] # <<>> =>
               /\ at' = "rest" /\ pump'.phase \in {"Complete", "Idle"}
               /\ lane'.status \in {"Idle", "Done", "PreAuthorized", "Offline"}
               /\ lane'.tx = None
    PROVE  BilledApart' /\ BilledOver'
BY DEF BilledApart, BilledOver

LEMMA StatusMissedSales ==
    ASSUME Typed, SalesKept, NEW arrived \in BOOLEAN, NEW threshold \in BOOLEAN,
           StatusMissed(arrived, threshold)
    PROVE  SalesKept'
<1>1. /\ Spares(left, left', "losses") /\ at = "rest" /\ queue = <<>> /\ at' = "rest"
      /\ UNCHANGED <<queue, bill, ghosts>>
  BY SpendSpares DEF Typed, StatusMissed, Counts, Polling, Rest, Goto
<1>2. UNCHANGED <<bill, fills, forgotten, cleared>>
  BY <1>1 DEF ghosts
<1>3. /\ OneChance' /\ left'.late = left.late /\ left'.lifts = left.lifts /\ Again' = Again
      /\ Chance \in Nat /\ Chance' \in Nat /\ Chance' = Chance - 1 /\ (Again => Chance <= 1)
  BY <1>1, OneChanceKept DEF SalesKept
<1>4. /\ lane'.tx = lane.tx /\ lane'.nozzle = lane.nozzle
      /\ \/ lane'.status = lane.status
         \/ lane'.status = "Offline" /\ lane.status \in {"Idle", "Stopped"} /\ lane.tx = None
  <2>1. CASE threshold
    BY <2>1, OfflineLane DEF StatusMissed, Typed, LaneTyped, CanGoOffline
  <2>2. CASE ~threshold
    BY <2>2 DEF StatusMissed, Typed, LaneTyped, LaneState
  <2> QED BY <2>1, <2>2
<1>5. pump \in PumpState /\ pump' \in {pump, PumpTold(pump)} /\ pump.polls \in 0 .. 2
      /\ pump.nozzle \in Nozzle /\ pump.volume \in Volume
  BY DEF Typed, StatusMissed, PumpState
<1>6. /\ pump'.nozzle = pump.nozzle /\ pump'.volume = pump.volume /\ pump'.polls \in 0 .. 2
      /\ pump'.phase = "Idle" => pump.phase = "Idle" \/ (pump.phase = "Complete" /\ pump.polls = 0)
      /\ pump'.phase = "Complete" => pump.phase = "Complete" /\ pump'.polls >= pump.polls - 1
      /\ pump'.phase = "Ready" => pump.phase = "Ready" /\ pump'.polls >= pump.polls - 1
      /\ pump'.phase = "Delivering" => pump.phase \in {"Ready", "Delivering"}
      /\ pump'.phase \in {"Lifted", "Stopped"} => pump.phase = pump'.phase
  <2>1. PumpTold(pump) \in PumpState
    BY <1>5, ToldPump
  <2>2. pump'.polls \in 0 .. 2
    BY <1>5, <2>1 DEF PumpState
  <2> QED BY <1>5, <2>2, ToldPump
<1>7. ~Framing /\ ~Framing' /\ ~Closing /\ ~Closing'
  BY <1>1 DEF Framing, Closing
<1>8. (pump.phase = "Idle" => pump'.phase = "Idle") /\ pump.nozzle # None
      /\ (pump.phase = "Complete" => pump'.phase \in {"Complete", "Idle"})
      /\ (pump.phase = "Lifted" => pump'.phase = "Lifted")
  BY <1>5, Apart, ToldPump
<1>9. Closeable(lane') => Closeable(lane) /\ lane'.status = lane.status
  BY <1>4 DEF Closeable
<1>10. Register'
  BY <1>1, <1>2, <1>3, <1>4, <1>6, <1>7, <1>8 DEF SalesKept, Register
<1>11. AfterLift' /\ Steps'
  BY <1>1, <1>2, <1>4, <1>6, <1>7, <1>8, <1>9 DEF SalesKept, AfterLift, Steps
<1>12. InTime'
  BY <1>1, <1>3, <1>4, <1>5, <1>6, <1>7, <1>9 DEF SalesKept, InTime
<1>13. BilledApart' /\ BilledOver'
  BY <1>1, <1>2, <1>4, <1>6, <1>8, BilledKept DEF SalesKept, BilledOver
<1>14. SaleHeld'
  <2>1. SUFFICES ASSUME (\/ pump'.phase \in {"Ready", "Delivering"}
                         \/ pump'.phase = "Stopped" /\ pump'.volume > 0) /\ ~forgotten'
                 PROVE  /\ lane'.tx = pump'.nozzle
                        /\ Again => \/ Closeable(lane')
                                    \/ lane'.status = "PreAuthorized" /\
                                         (pump'.phase = "Ready" /\ Chance' < pump'.polls)
    BY <1>3 DEF SaleHeld
  <2>2. /\ lane.tx = pump.nozzle
        /\ Again => \/ Closeable(lane)
                    \/ lane.status = "PreAuthorized" /\ pump.phase = "Ready" /\ Chance < pump.polls
    BY <1>1, <1>2, <1>6, <2>1 DEF SalesKept, SaleHeld
  <2>3. lane'.tx = pump'.nozzle /\ lane'.status = lane.status
    BY <1>4, <1>6, <1>8, <2>2
  <2>4. ASSUME pump.phase = "Ready", Chance < pump.polls, Again
        PROVE  pump'.phase = "Ready" /\ Chance' < pump'.polls
    <3>1. pump.polls = 2
      BY <1>3, <1>5, <2>4
    <3> QED BY <1>3, <1>5, <2>4, <3>1, ToldPump
  <2> QED BY <2>2, <2>3, <2>4 DEF Closeable
<1>15. SaleOwed'
  BY <1>1, <1>2, <1>3, <1>4, <1>6, <1>8, <1>9 DEF SalesKept, SaleOwed, Owed, Closeable
<1>16. LaneOwns'
  BY <1>3, <1>4 DEF SalesKept, LaneOwns, Closeable
<1>17. Commands'
  <2>1. left.late => lane'.status # "Stopped" /\ pump'.phase # "Stopped"
    BY <1>4, <1>6 DEF SalesKept, Commands, Raced
  <2> QED BY <1>1, <1>3, <2>1, PolledCommands DEF SalesKept
<1> QED BY <1>2, <1>3, <1>10, <1>11, <1>12, <1>13, <1>14, <1>15, <1>16, <1>17
        DEF SalesKept, SaleKept

(* An answer to a poll, and what the sales need of it. *)
LEMMA HeardSales ==
    ASSUME Typed, SalesKept, NEW phase, Heard(phase)
    PROVE  /\ at = "rest" /\ queue = <<>> /\ ~Framing /\ ~Closing
           /\ UNCHANGED <<queue, bill, fills, forgotten, cleared, left>>
           /\ pump'.phase = phase /\ pump'.nozzle = pump.nozzle /\ pump'.volume = pump.volume
           /\ pump.polls \in 0 .. 2 /\ Chance \in Nat
           /\ phase = "Idle" => pump.phase = "Idle" \/ (pump.phase = "Complete" /\ pump.polls = 0)
           /\ phase = "Complete" => pump.phase = "Complete" /\ pump'.polls = pump.polls - 1
           /\ phase = "Ready" => pump.phase = "Ready"
           /\ phase = "Delivering" => pump.phase \in {"Ready", "Delivering"}
           /\ phase \in {"Lifted", "Stopped"} => pump.phase = phase
           /\ (left.late => phase # "Stopped" /\ lane.status # "Stopped")
<1>1. /\ at = "rest" /\ queue = <<>>
      /\ UNCHANGED <<queue, bill, fills, forgotten, cleared, left>>
      /\ pump' = PumpTold(pump) /\ pump'.phase = phase /\ pump \in PumpState
  BY DEF Heard, Polling, Typed
<1>2. /\ pump'.nozzle = pump.nozzle /\ pump'.volume = pump.volume /\ pump.polls \in 0 .. 2
      /\ phase = "Idle" => pump.phase = "Idle" \/ (pump.phase = "Complete" /\ pump.polls = 0)
      /\ phase = "Complete" => pump.phase = "Complete" /\ pump'.polls = pump.polls - 1
      /\ phase = "Ready" => pump.phase = "Ready"
      /\ phase = "Delivering" => pump.phase \in {"Ready", "Delivering"}
      /\ phase \in {"Lifted", "Stopped"} => pump.phase = phase
  <2>1. pump.polls \in 0 .. 2
    BY <1>1 DEF PumpState
  <2> QED BY <1>1, <2>1, ToldPump
<1>3. Chance \in Nat
  BY <1>1, SameSpares, OneChanceKept DEF SalesKept, Typed
<1>4. left.late => phase # "Stopped" /\ lane.status # "Stopped"
  BY <1>2 DEF SalesKept, Commands, Raced
<1> QED BY <1>1, <1>2, <1>3, <1>4 DEF Framing, Closing

(* What the lane or the loop becomes of, after an answer. *)
LEMMA AnsweredSales ==
    ASSUME Typed, SalesKept, NEW phase, Heard(phase), Register', AfterLift', Steps', InTime',
           bill[fills] # <<>> =>
               /\ at' = "rest" /\ pump'.phase \in {"Complete", "Idle"}
               /\ lane'.status \in {"Idle", "Done", "PreAuthorized", "Offline"}
               /\ lane'.tx = None,
           SaleHeld', SaleOwed', LaneOwns', left.late => lane'.status # "Stopped"
    PROVE  SalesKept'
<1>1. /\ queue = <<>> /\ UNCHANGED <<queue, bill, fills, forgotten, cleared, left>>
      /\ pump'.nozzle = pump.nozzle /\ pump'.volume = pump.volume
      /\ left.late => pump'.phase # "Stopped"
  BY HeardSales
<1>2. BilledApart' /\ BilledOver'
  BY <1>1, BilledKept DEF SalesKept
<1>3. Commands'
  BY <1>1, PolledCommands DEF SalesKept
<1>4. OneChance' /\ SaleKept'
  BY <1>1 DEF SalesKept, OneChance, SaleKept, Chance, Again
<1> QED BY <1>2, <1>3, <1>4 DEF SalesKept

LEMMA BareSales ==
    ASSUME NEW l, Bare(l)
    PROVE  l.status = "Idle" /\ l.tx = None /\ ~Closeable(l)
BY DEF Bare, Closeable

(* A lane without a sale rests. *)
LEMMA RestedSales ==
    ASSUME Typed, SalesKept, NEW phase \in {"Idle", "Complete"}, Heard(phase), Rest,
           ~Closeable(lane), lane' = Rested(lane)
    PROVE  SalesKept'
<1>1. lane'.status = "Idle" /\ lane'.tx = None /\ ~Closeable(lane')
  BY RestedLane, BareSales DEF Typed, LaneTyped, Closeable
<1>2. /\ at = "rest" /\ UNCHANGED <<bill, fills, forgotten, cleared, left>>
      /\ pump'.phase = phase /\ pump'.nozzle = pump.nozzle /\ pump'.volume = pump.volume
      /\ phase = "Idle" => pump.phase = "Idle" \/ (pump.phase = "Complete" /\ pump.polls = 0)
      /\ phase = "Complete" => pump.phase = "Complete"
  BY HeardSales
<1>3. at' = "rest" /\ ~Framing' /\ ~Closing'
  BY DEF Rest, Goto, Framing, Closing
<1>4. Register'
  BY <1>1, <1>2, <1>3 DEF SalesKept, Register
<1>5. AfterLift' /\ Steps' /\ InTime'
  BY <1>1, <1>2, <1>3 DEF SalesKept, AfterLift, Steps, InTime
<1>6. SaleHeld' /\ LaneOwns'
  BY <1>1, <1>2 DEF SaleHeld, LaneOwns
<1>7. SaleOwed'
  BY <1>1, <1>2, <1>3 DEF SalesKept, SaleOwed, Owed, Again
<1> QED BY <1>1, <1>2, <1>3, <1>4, <1>5, <1>6, <1>7, AnsweredSales

(* A lane with a sale is closed once the pump is through with it. *)
LEMMA ClosedSales ==
    ASSUME Typed, SalesKept, NEW phase \in {"Idle", "Complete"}, Heard(phase),
           Goto("close", NoJob), Closeable(lane), UNCHANGED lane
    PROVE  SalesKept'
<1>1. /\ at = "rest" /\ ~Framing /\ ~Closing
      /\ UNCHANGED <<bill, fills, forgotten, cleared, left>>
      /\ pump'.phase = phase /\ pump'.nozzle = pump.nozzle /\ pump'.volume = pump.volume
      /\ pump.polls \in 0 .. 2 /\ Chance \in Nat
      /\ phase = "Idle" => pump.phase = "Idle" \/ (pump.phase = "Complete" /\ pump.polls = 0)
      /\ phase = "Complete" => pump.phase = "Complete" /\ pump'.polls = pump.polls - 1
      /\ left.late => lane.status # "Stopped"
  BY HeardSales
<1>2. at' = "close" /\ ~Framing' /\ Closing' /\ job'.why = "poll"
  BY DEF Goto, Framing, Closing, NoJob
<1>3. lane.status # "NozzleUp" /\ Chance' = Chance /\ Again' = Again
  BY <1>1 DEF Closeable, Chance, Again
<1>4. Register'
  BY <1>1, <1>2, <1>3 DEF SalesKept, Register
<1>5. AfterLift' /\ Steps'
  BY <1>1, <1>2, <1>3 DEF SalesKept, AfterLift, Steps
<1>6. InTime'
  <2>1. SUFFICES ASSUME Again
                 PROVE  phase = "Complete" /\ Chance <= pump'.polls
    BY <1>1, <1>2, <1>3 DEF InTime
  <2>2. pump.phase = "Complete" /\ Chance < pump.polls
    BY <1>1, <2>1 DEF SalesKept, InTime
  <2> QED BY <1>1, <2>2
<1>7. SaleHeld' /\ LaneOwns'
  BY <1>1 DEF SaleHeld, LaneOwns
<1>8. SaleOwed'
  BY <1>1, <1>2, <1>3 DEF SalesKept, SaleOwed, Owed
<1>9. bill[fills] = <<>>
  BY DEF SalesKept, BilledOver, Closeable
<1> QED BY <1>1, <1>4, <1>5, <1>6, <1>7, <1>8, <1>9, AnsweredSales

LEMMA StatusIdleSales ==
    ASSUME Typed, SalesKept, StatusIdle
    PROVE  SalesKept'
<1>1. Heard("Idle")
  BY DEF StatusIdle
<1>2. CASE lane.status \in {"Delivering", "Authorizing"}
  BY <1>1, <1>2, ClosedSales DEF StatusIdle, Closeable
<1>3. CASE lane.status \notin {"Delivering", "Authorizing", "Stopped"}
           /\ ~(lane.status = "PreAuthorized" /\ lane.pre # None)
  <2>1. lane' = Rested(lane) /\ Rest /\ ~Closeable(lane)
    BY <1>3 DEF StatusIdle, Closeable
  <2> QED BY <1>1, <2>1, RestedSales
<1>4. CASE lane.status = "Stopped" \/ (lane.status = "PreAuthorized" /\ lane.pre # None)
  <2>1. /\ at = "rest" /\ UNCHANGED <<bill, fills, forgotten, cleared, left>>
        /\ pump'.phase = "Idle" /\ pump'.nozzle = pump.nozzle /\ pump'.volume = pump.volume
        /\ pump.phase = "Idle" \/ (pump.phase = "Complete" /\ pump.polls = 0)
        /\ Chance \in Nat /\ (left.late => lane.status # "Stopped")
    BY <1>1, HeardSales
  <2>2. UNCHANGED lane /\ Rest
    BY <1>4 DEF StatusIdle, Rested
  <2>3. at' = "rest" /\ ~Framing' /\ ~Closing' /\ ~Closing /\ ~Framing
        /\ lane.status # "NozzleUp"
    BY <1>4, <2>1, <2>2 DEF Rest, Goto, Framing, Closing
  <2>4. Chance' = Chance /\ Again' = Again
    BY <2>1 DEF Chance, Again
  <2>5. Register'
    BY <2>1, <2>2, <2>3 DEF SalesKept, Register
  <2>6. AfterLift' /\ Steps'
    BY <2>1, <2>2, <2>3 DEF SalesKept, AfterLift, Steps
  <2>7. InTime'
    BY <2>1, <2>2, <2>3, <2>4 DEF SalesKept, InTime
  <2>8. SaleHeld' /\ LaneOwns' /\ SaleOwed'
    BY <2>1, <2>2, <2>3, <2>4 DEF SalesKept, SaleHeld, LaneOwns, SaleOwed, Owed
  <2>9. bill[fills] # <<>> =>
               /\ at' = "rest" /\ pump'.phase \in {"Complete", "Idle"}
               /\ lane'.status \in {"Idle", "Done", "PreAuthorized", "Offline"}
               /\ lane'.tx = None
    BY <2>1, <2>2, <2>3 DEF SalesKept, BilledOver
  <2> QED BY <1>1, <2>1, <2>2, <2>5, <2>6, <2>7, <2>8, <2>9, AnsweredSales
<1> QED BY <1>2, <1>3, <1>4

LEMMA StatusCompleteSales ==
    ASSUME Typed, SalesKept, StatusComplete
    PROVE  SalesKept'
<1>1. Heard("Complete")
  BY DEF StatusComplete
<1>2. CASE Closeable(lane)
  BY <1>1, <1>2, ClosedSales DEF StatusComplete
<1>3. CASE ~Closeable(lane)
  BY <1>1, <1>3, RestedSales DEF StatusComplete
<1> QED BY <1>2, <1>3

LEMMA StatusLiftedSales ==
    ASSUME Typed, SalesKept, StatusLifted
    PROVE  SalesKept'
<1>1. Heard("Lifted") /\ at' = "identify" /\ UNCHANGED lane
  BY DEF StatusLifted, Goto
<1>2. /\ UNCHANGED <<bill, fills, forgotten, cleared, left>> /\ pump.phase = "Lifted"
      /\ pump'.phase = "Lifted" /\ pump'.nozzle = pump.nozzle /\ pump'.volume = pump.volume
      /\ (left.late => lane.status # "Stopped")
  BY <1>1, HeardSales
<1>3. ~Framing' /\ ~Closing'
  BY <1>1 DEF Framing, Closing
<1>4. Register' /\ AfterLift'
  BY <1>1, <1>2, <1>3 DEF SalesKept, Register, AfterLift, Typed, HistoryTyped, Fill
<1>5. Steps' /\ InTime'
  BY <1>1, <1>2, <1>3 DEF SalesKept, Steps, InTime
<1>6. SaleHeld' /\ SaleOwed' /\ LaneOwns'
  BY <1>1, <1>2 DEF SalesKept, Register, SaleHeld, SaleOwed, LaneOwns, Typed, PumpState, Volume
<1>7. bill[fills] = <<>>
  BY <1>2 DEF SalesKept, BilledOver
<1> QED BY <1>1, <1>2, <1>4, <1>5, <1>6, <1>7, AnsweredSales

LEMMA StatusFlowingSales ==
    ASSUME Typed, SalesKept, StatusFlowing
    PROVE  SalesKept'
<1>1. PICK phase \in {"Ready", "Delivering"} : Heard(phase)
  BY DEF StatusFlowing
<1>2. at' = "display" /\ UNCHANGED lane
  BY DEF StatusFlowing, Goto
<1>3. /\ UNCHANGED <<bill, fills, forgotten, cleared, left>>
      /\ pump.phase \in {"Ready", "Delivering"} /\ pump'.phase = phase
      /\ phase = "Ready" => pump.phase = "Ready"
      /\ pump'.nozzle = pump.nozzle /\ pump'.volume = pump.volume
      /\ (left.late => lane.status # "Stopped")
  BY <1>1, HeardSales
<1>4. ~Framing' /\ ~Closing' /\ lane.status # "NozzleUp"
  BY <1>2, <1>3 DEF Framing, Closing, SalesKept, Steps
<1>5. Register' /\ AfterLift'
  BY <1>1, <1>2, <1>3, <1>4 DEF SalesKept, Register, AfterLift, Typed, HistoryTyped, Fill
<1>6. Steps' /\ InTime'
  BY <1>1, <1>2, <1>3, <1>4 DEF SalesKept, Steps, InTime
<1>7. SaleHeld' /\ SaleOwed' /\ LaneOwns'
  BY <1>2, <1>3 DEF SalesKept, SaleHeld, SaleOwed, LaneOwns, Owed, Again
<1>8. bill[fills] = <<>>
  BY <1>3 DEF SalesKept, BilledOver
<1> QED BY <1>1, <1>2, <1>3, <1>5, <1>6, <1>7, <1>8, AnsweredSales

LEMMA StatusStoppedSales ==
    ASSUME Typed, SalesKept, StatusStopped
    PROVE  SalesKept'
<1>1. Heard("Stopped") /\ at' = "rest"
      /\ lane' = IF lane.status = "Stopped" THEN lane ELSE Held(lane)
  BY DEF StatusStopped, Rest, Goto
<1>2. lane'.status = "Stopped" /\ lane'.tx = lane.tx
  BY <1>1, HeldLane DEF Typed, LaneTyped
<1>3. /\ UNCHANGED <<bill, fills, forgotten, cleared, left>> /\ ~left.late
      /\ pump.phase = "Stopped" /\ pump'.phase = "Stopped"
      /\ pump'.nozzle = pump.nozzle /\ pump'.volume = pump.volume
  BY <1>1, HeardSales
<1>4. ~Framing' /\ ~Closing' /\ Closeable(lane')
  BY <1>1, <1>2 DEF Framing, Closing, Closeable
<1>5. Register' /\ AfterLift'
  BY <1>1, <1>2, <1>3, <1>4 DEF SalesKept, Register, AfterLift, Typed, HistoryTyped, Fill
<1>6. Steps' /\ InTime'
  BY <1>1, <1>2, <1>3, <1>4 DEF SalesKept, Steps, InTime
<1>7. SaleHeld' /\ SaleOwed' /\ LaneOwns'
  BY <1>1, <1>2, <1>3, <1>4 DEF SalesKept, SaleHeld, SaleOwed, LaneOwns, Owed
<1>8. bill[fills] = <<>>
  BY <1>3 DEF SalesKept, BilledOver
<1> QED BY <1>1, <1>3, <1>5, <1>6, <1>7, <1>8, AnsweredSales

(* The middle of a poll: nothing is billed yet, and orders wait their turn. *)
LEMMA MidPollSales ==
    ASSUME Typed, SalesKept, at # "rest",
           UNCHANGED <<queue, bill, fills, forgotten, cleared>>,
           NEW what, Spares(left, left', what),
           pump'.nozzle = pump.nozzle, pump'.volume = pump.volume,
           left.late => lane'.status # "Stopped" /\ pump'.phase # "Stopped",
           left.late /\ OrderWaits => OrderInTime',
           Register', AfterLift', Steps', InTime', SaleHeld', SaleOwed', LaneOwns'
    PROVE  SalesKept'
<1>1. OneChance' /\ left'.late = left.late
  BY OneChanceKept DEF SalesKept
<1>2. bill[fills] = <<>>
  BY DEF SalesKept, BilledOver
<1>3. BilledApart' /\ BilledOver'
  BY <1>2, BilledKept DEF SalesKept
<1>4. Commands'
  <2>1. CASE left.late
    BY <1>1, <2>1, RacedKept DEF SalesKept
  <2>2. CASE ~left.late
    BY <1>1, <2>2, CalmKept DEF SalesKept
  <2> QED BY <2>1, <2>2
<1> QED BY <1>1, <1>3, <1>4 DEF SalesKept, SaleKept

(* Until the pump is authorized, nothing flows. *)
LEMMA UnauthorizedSales ==
    ASSUME Typed, SalesKept, Framing \/ at = "identify",
           UNCHANGED <<lane, queue, bill, fills, forgotten, cleared>>,
           NEW what, Spares(left, left', what),
           pump'.phase = pump.phase, pump'.nozzle = pump.nozzle, pump'.volume = pump.volume,
           pump'.polls = pump.polls,
           \/ at' = "rest"
           \/ at' \in {"price", "preset", "authorize"} /\ job'.nozzle = pump.nozzle
    PROVE  SalesKept'
<1>1. /\ left'.late = left.late /\ left'.lifts = left.lifts /\ Again' = Again
      /\ Chance \in Nat /\ Chance' \in Nat /\ Chance' <= Chance
  BY OneChanceKept DEF SalesKept
<1>2. /\ at # "rest" /\ ~Closing /\ ~Closing' /\ at # "display" /\ at' # "display"
      /\ at' # "identify" /\ at' # "commit" /\ (Framing' => at' # "rest" /\ job'.nozzle = pump.nozzle)
  BY DEF Framing, Closing
<1>3. pump.volume = 0 /\ pump.phase \in {"Lifted", "Complete", "Idle"} /\ pump.polls \in 0 .. 2
  BY DEF SalesKept, Register, Steps, Typed, PumpState
<1>4. Register' /\ AfterLift'
  BY <1>1, <1>2, <1>3 DEF SalesKept, Register, AfterLift
<1>5. Steps'
  BY <1>1, <1>2, <1>3 DEF SalesKept, Steps
<1>6. InTime'
  BY <1>1, <1>2, <1>3 DEF SalesKept, InTime
<1>7. SaleHeld' /\ SaleOwed' /\ LaneOwns'
  BY <1>1, <1>3 DEF SalesKept, SaleHeld, SaleOwed, LaneOwns
<1>8. left.late => lane'.status # "Stopped" /\ pump'.phase # "Stopped"
  BY <1>3 DEF SalesKept, Commands, Raced
<1>9. left.late /\ OrderWaits => OrderInTime'
  BY <1>2, <1>3 DEF SalesKept, Commands, Raced, OrderInTime
<1> QED BY <1>2, <1>4, <1>5, <1>6, <1>7, <1>8, <1>9, MidPollSales

LEMMA IdentifySales ==
    ASSUME Typed, SalesKept, NEW heard \in BOOLEAN, Identify(heard)
    PROVE  SalesKept'
<1>1. /\ at = "identify" /\ UNCHANGED <<pump, queue, bill, fills, forgotten, cleared>>
      /\ pump.phase \in {"Lifted", "Complete"} /\ pump.volume = 0
      /\ pump.nozzle \in Nozzle /\ lane \in LaneState
  BY Identified DEF SalesKept, Steps, Register, Typed, PumpState, LaneTyped
<1>2. PICK what : Spares(left, left', what)
  BY Identified
<1>3. HoseOut(pump) => pump.phase = "Lifted"
  BY <1>1 DEF HoseOut
<1>4. left'.late = left.late /\ left'.lifts = left.lifts /\ Again' = Again
  BY <1>2, OneChanceKept DEF SalesKept
<1>5. CASE UNCHANGED lane /\ Rest
  BY <1>1, <1>2, <1>5, UnauthorizedSales DEF Rest, Goto
<1>6. CASE /\ HoseOut(pump) /\ UNCHANGED lane /\ at' = "price"
           /\ job' = [NoJob EXCEPT !.nozzle = pump.nozzle, !.dose = lane.dose]
  <2>1. job'.nozzle = pump.nozzle
    BY <1>6, FreshLaneBare DEF Job
  <2> QED BY <1>1, <1>2, <1>6, <2>1, UnauthorizedSales
<1>7. CASE /\ HoseOut(pump) /\ Rest /\ lane'.nozzle = pump.nozzle
           /\ \/ lane'.status = "NozzleUp" /\ lane'.tx = None
              \/ /\ lane'.status = "NozzleUp" /\ lane.status \in {"Idle", "NozzleUp", "Offline"}
                 /\ lane'.tx = lane.tx
              \/ /\ lane'.status = lane.status /\ lane'.tx = lane.tx
                 /\ lane.status \notin {"Idle", "NozzleUp", "Offline"}
  <2>1. at' = "rest" /\ ~Framing' /\ ~Closing' /\ pump'.phase = "Lifted"
    BY <1>1, <1>3, <1>7 DEF Rest, Goto, Framing, Closing
  <2>2. Register' /\ AfterLift'
    BY <1>1, <1>4, <2>1 DEF SalesKept, Register, AfterLift
  <2>3. Steps' /\ InTime'
    BY <1>1, <1>7, <2>1 DEF Steps, InTime
  <2>4. SaleHeld' /\ SaleOwed'
    BY <1>1, <2>1 DEF SaleHeld, SaleOwed
  <2>5. LaneOwns'
    BY <1>4, <1>7 DEF SalesKept, LaneOwns, Closeable
  <2>6. left.late => lane'.status # "Stopped" /\ pump'.phase # "Stopped"
    BY <1>7, <2>1 DEF SalesKept, Commands, Raced
  <2>7. OrderInTime'
    BY <1>1, <2>1 DEF OrderInTime
  <2> QED BY <1>1, <1>2, <2>2, <2>3, <2>4, <2>5, <2>6, <2>7, MidPollSales
<1>8. CASE /\ HoseOut(pump) /\ Rest
           /\ lane' = [Cancelled(lane) EXCEPT !.status = "NozzleUp", !.nozzle = pump.nozzle]
  BY <1>1, <1>7, <1>8, RenamedLane
<1>9. CASE HoseOut(pump) /\ Rest /\ lane' = ShownUp(lane, pump.nozzle)
  BY <1>1, <1>7, <1>9, ShownUpLane
<1> QED BY <1>5, <1>6, <1>8, <1>9, Identified

LEMMA FrameSales ==
    ASSUME Typed, SalesKept, NEW heard \in BOOLEAN, NEW arrived \in BOOLEAN,
           SendPrice(heard, arrived) \/ SendPreset(heard, arrived)
    PROVE  SalesKept'
<1>1. /\ Framing /\ UNCHANGED <<lane, queue, bill, ghosts>>
      /\ \E what : Spares(left, left', what)
      /\ pump' \in {pump, PumpPreset(pump, job.dose)}
      /\ at' = "rest" \/ (at' \in {"preset", "authorize"} /\ job' = job)
  BY FrameSent DEF SendPrice, SendPreset, Framing, Goto, Rest
<1>2. pump \in PumpState /\ job.dose \in Limit /\ job.nozzle = pump.nozzle
  BY <1>1, JobParts DEF Typed, JobTyped, SalesKept, Steps
<1>3. /\ pump'.phase = pump.phase /\ pump'.nozzle = pump.nozzle /\ pump'.volume = pump.volume
      /\ pump'.polls = pump.polls
  BY <1>1, <1>2, CommandedPump
<1>4. at' = "rest" \/ (at' \in {"price", "preset", "authorize"} /\ job'.nozzle = pump.nozzle)
  BY <1>1, <1>2
<1>5. PICK what : Spares(left, left', what)
  BY <1>1
<1>6. UNCHANGED <<lane, queue, bill, fills, forgotten, cleared>>
  BY <1>1 DEF ghosts
<1> QED BY <1>1, <1>3, <1>4, <1>5, <1>6, UnauthorizedSales

(* The sale begins, whether or not the pump was there to hear it. *)
LEMMA SendAuthorizeSales ==
    ASSUME Typed, SalesKept, NEW arrived \in BOOLEAN, SendAuthorize(arrived)
    PROVE  SalesKept'
<1>1. /\ at = "authorize" /\ at' = "rest" /\ Framing /\ ~Framing' /\ ~Closing /\ ~Closing'
      /\ UNCHANGED <<queue, bill, fills, forgotten, cleared>>
      /\ pump' = IF arrived THEN PumpAuthorize(pump) ELSE pump
      /\ lane'.status = "Authorizing" /\ lane'.tx = job.nozzle
  BY AuthorizeSent DEF Rest, Goto, Framing, Closing
<1>2. PICK what \in {"nothing", "noise"} : Spares(left, left', what)
  BY AuthorizeSent
<1>3. /\ left'.late = left.late /\ left'.lifts = left.lifts /\ Again' = Again
      /\ Chance \in Nat /\ Chance' = Chance
  BY <1>2, OneChanceKept DEF SalesKept
<1>4. /\ pump.volume = 0 /\ pump.phase \in {"Lifted", "Complete", "Idle"} /\ pump.polls \in 0 .. 2
      /\ job.nozzle = pump.nozzle /\ pump \in PumpState /\ None \in Limit
  BY <1>1 DEF SalesKept, Register, Steps, Typed, PumpState, Limit
<1>5. /\ pump'.nozzle = pump.nozzle /\ pump'.volume = 0
      /\ \/ pump' = pump
         \/ pump'.phase = "Ready" /\ pump'.polls = 2
  BY <1>1, <1>4, CommandedPump
<1>6. Closeable(lane') /\ lane'.tx = pump'.nozzle
  BY <1>1, <1>4, <1>5 DEF Closeable
<1>7. fills >= 1
  BY <1>1 DEF SalesKept, AfterLift
<1>8. Register' /\ AfterLift'
  BY <1>1, <1>3, <1>5, <1>7 DEF SalesKept, Register, AfterLift, Typed, HistoryTyped, Fill
<1>9. Steps'
  BY <1>1 DEF Steps
<1>10. InTime'
  BY <1>1, <1>3, <1>4, <1>5 DEF SalesKept, InTime
<1>11. SaleHeld' /\ SaleOwed' /\ LaneOwns'
  BY <1>6 DEF SaleHeld, SaleOwed, LaneOwns
<1>12. pump'.phase # "Stopped" /\ lane'.status # "Stopped"
  BY <1>1, <1>4, <1>5
<1>13. OrderInTime'
  BY <1>1, <1>4, <1>5 DEF OrderInTime
<1> QED BY <1>1, <1>2, <1>4, <1>5, <1>8, <1>9, <1>10, <1>11, <1>12, <1>13, MidPollSales

(* The fuel on display is that of the lane's sale. *)
LEMMA DisplaySales ==
    ASSUME Typed, SalesKept, NEW heard \in BOOLEAN, GetDisplay(heard)
    PROVE  SalesKept'
<1>1. /\ at = "display" /\ at' = "rest" /\ ~Framing' /\ ~Closing /\ ~Closing'
      /\ UNCHANGED <<pump, queue, bill, fills, forgotten, cleared>>
      /\ lane'.status = "Delivering" /\ (lane.tx # None => lane'.tx = lane.tx)
  BY DisplayGot DEF Rest, Goto, Framing, Closing, ghosts
<1>2. PICK what : Spares(left, left', what)
  BY DisplayGot
<1>3. /\ left'.late = left.late /\ left'.lifts = left.lifts /\ Again' = Again
      /\ Chance \in Nat /\ Chance' \in Nat /\ Chance' <= Chance
  BY <1>2, OneChanceKept DEF SalesKept
<1>4. /\ pump.phase \in {"Ready", "Delivering", "Complete"} /\ fills >= 1
      /\ bill[fills] = <<>> /\ pump.polls \in 0 .. 2 /\ pump.nozzle # None /\ pump.volume \in Volume
  BY <1>1, Apart DEF SalesKept, Steps, AfterLift, BilledOver, Typed, PumpState
<1>5. Closeable(lane')
  BY <1>1 DEF Closeable
<1>6. Register' /\ AfterLift' /\ Steps'
  BY <1>1, <1>3, <1>4 DEF SalesKept, Register, AfterLift, Steps
<1>7. InTime'
  BY <1>1, <1>3, <1>4 DEF SalesKept, InTime
<1>8. SaleHeld' /\ SaleOwed' /\ LaneOwns'
  BY <1>1, <1>4, <1>5 DEF SalesKept, SaleHeld, SaleOwed, LaneOwns, Owed
<1>9. left.late /\ OrderWaits => OrderInTime'
  <2>1. SUFFICES ASSUME left.late, OrderWaits, ~forgotten
                 PROVE  pump.volume = 0 /\ pump.phase = "Complete"
    BY <1>1 DEF OrderInTime
  <2>2. lane.status \in {"Idle", "NozzleUp"}
    BY <1>1, <2>1 DEF SalesKept, Commands, Raced, OrderInTime
  <2>3. lane.tx = None
    BY <2>2 DEF SalesKept, LaneOwns, Closeable
  <2>4. pump.phase = "Complete"
    BY <1>4, <2>1, <2>3 DEF SalesKept, SaleHeld
  <2>5. ~(pump.volume > 0)
    BY <1>1, <1>4, <2>1, <2>3 DEF SalesKept, SaleOwed, Owed
  <2> QED BY <1>4, <2>4, <2>5, Apart DEF Volume
<1>10. left.late => lane'.status # "Stopped" /\ pump'.phase # "Stopped"
  BY <1>1, <1>4
<1> QED BY <1>1, <1>2, <1>6, <1>7, <1>8, <1>9, <1>10, MidPollSales

(* A lane that is being closed has no order that waits. *)
LEMMA ClosingFacts ==
    ASSUME Typed, SalesKept, Closing
    PROVE  /\ at # "rest" /\ ~Framing /\ Closeable(lane) /\ bill[fills] = <<>>
           /\ pump.phase \in {"Complete", "Idle"} /\ fills >= 1 /\ pump.polls \in 0 .. 2
           /\ left.late => ~OrderWaits /\ lane.status # "Stopped"
<1>1. at # "rest" /\ ~Framing
  BY DEF Closing, Framing
<1>2. Closeable(lane) /\ pump.polls \in 0 .. 2
  BY DEF Typed, JobTyped, PumpState
<1>3. bill[fills] = <<>> /\ pump.phase \in {"Complete", "Idle"} /\ fills >= 1
  BY <1>1 DEF SalesKept, BilledOver, Steps, AfterLift
<1>4. left.late => ~OrderWaits /\ lane.status # "Stopped"
  BY <1>1, <1>2 DEF SalesKept, Commands, Raced, OrderInTime, Closeable
<1> QED BY <1>1, <1>2, <1>3, <1>4

(* A close that goes on, or that is given up: the lane still has its sale, but *)
(* for one that was reset, and nobody lifts again then.                        *)
LEMMA CloseSales ==
    ASSUME Typed, SalesKept, Closing,
           UNCHANGED <<pump, queue, bill, fills, forgotten, cleared>>,
           NEW what, Spares(left, left', what),
           \/ /\ at' = "commit" /\ job'.volume = pump.volume /\ job'.fill = fills
              /\ job'.why = job.why /\ UNCHANGED lane
           \/ /\ what \in {"losses", "faults"} /\ UNCHANGED lane
              /\ at' = "rest" \/ (at' = "close" /\ job'.why = job.why)
           \/ job.why = "reset" /\ lane' = ResetLane(lane) /\ at' = "rest"
    PROVE  SalesKept'
<1>1. /\ at # "rest" /\ ~Framing /\ Closeable(lane) /\ bill[fills] = <<>>
      /\ pump.phase \in {"Complete", "Idle"} /\ fills >= 1 /\ pump.polls \in 0 .. 2
      /\ left.late => ~OrderWaits /\ lane.status # "Stopped"
  BY ClosingFacts
<1>2. /\ left'.late = left.late /\ left'.lifts = left.lifts /\ Again' = Again
      /\ Chance \in Nat /\ Chance' \in Nat
      /\ Chance' = IF what \in {"losses", "faults"} THEN Chance - 1 ELSE Chance
  BY OneChanceKept DEF SalesKept
<1>3. ~Framing' /\ at' # "display" /\ at' # "identify" /\ lane.status # "NozzleUp"
  BY <1>1 DEF Framing, Closeable
<1>4. /\ left.late => pump'.phase # "Stopped"
      /\ left.late /\ OrderWaits => OrderInTime'
  BY <1>1
<1>5. CASE UNCHANGED lane
  <2>1. Register' /\ AfterLift'
    BY <1>1, <1>2, <1>3, <1>5 DEF SalesKept, Register, AfterLift
  <2>2. Steps'
    BY <1>1, <1>2, <1>3, <1>5, ResetLaneBare, BareSales
       DEF SalesKept, Steps, Typed, LaneTyped, Closing, Closeable
  <2>3. InTime'
    <3>1. SUFFICES ASSUME Again
                   PROVE  pump.phase = "Complete"
                          /\ (Chance' < pump.polls \/ (Closing' /\ Chance' = pump.polls))
      BY <1>1, <1>2 DEF InTime
    <3>2. pump.phase = "Complete" /\ Chance <= pump.polls
      BY <1>1, <1>2, <3>1 DEF SalesKept, InTime
    <3>3. what \in {"losses", "faults"} \/ Closing'
      BY <1>1, <1>5, ResetLaneBare, BareSales DEF Closing, Typed, LaneTyped
    <3> QED BY <1>1, <1>2, <3>2, <3>3
  <2>4. SaleHeld' /\ SaleOwed' /\ LaneOwns'
    BY <1>1, <1>2, <1>5 DEF SalesKept, SaleHeld, SaleOwed, LaneOwns, Owed
  <2> QED BY <1>1, <1>4, <1>5, <2>1, <2>2, <2>3, <2>4, MidPollSales
<1>6. CASE job.why = "reset" /\ lane' = ResetLane(lane) /\ at' = "rest"
  <2>1. lane'.status = "Idle" /\ lane'.tx = None /\ ~Closeable(lane')
    BY <1>6, ResetLaneBare, BareSales DEF Typed, LaneTyped
  <2>2. ~Again /\ ~Closing'
    BY <1>6 DEF SalesKept, Steps, Closing
  <2>3. Register' /\ AfterLift' /\ Steps' /\ InTime'
    BY <1>1, <1>2, <1>3, <1>6, <2>1, <2>2 DEF SalesKept, Register, AfterLift, Steps, InTime
  <2>4. SaleHeld' /\ SaleOwed' /\ LaneOwns'
    BY <1>1, <1>2, <1>3, <2>1, <2>2 DEF SaleHeld, SaleOwed, LaneOwns
  <2> QED BY <1>1, <1>4, <2>1, <2>3, <2>4, MidPollSales
<1> QED BY <1>5, <1>6

LEMMA GivenUpSales ==
    ASSUME Typed, SalesKept, Closing, CloseFailed,
           UNCHANGED <<pump, queue, bill, fills, forgotten, cleared>>,
           NEW what \in {"losses", "faults"}, Spares(left, left', what)
    PROVE  SalesKept'
<1>1. \/ UNCHANGED lane /\ (at' = "rest" \/ (at' = "close" /\ job'.why = job.why))
      \/ job.why = "reset" /\ lane' = ResetLane(lane) /\ at' = "rest"
  BY FailedClose DEF Rest, Goto
<1> QED BY <1>1, CloseSales

LEMMA TransactionSales ==
    ASSUME Typed, SalesKept, NEW heard \in BOOLEAN, GetTransaction(heard)
    PROVE  SalesKept'
<1>1. Closing /\ UNCHANGED <<pump, queue, bill, fills, forgotten, cleared>>
  BY TransactionGot
<1>2. CASE heard
  <2>1. /\ at' = "commit" /\ job'.volume = pump.volume /\ job'.fill = fills
        /\ job'.why = job.why /\ UNCHANGED lane /\ Spares(left, left', "nothing")
    BY <1>2, TransactionGot
  <2> QED BY <1>1, <2>1, CloseSales
<1>3. CASE ~heard
  <2>1. Spares(left, left', "losses")
        /\ (CloseFailed \/ (at' = "close" /\ job'.why = job.why /\ UNCHANGED lane))
    BY <1>3, TransactionGot
  <2> QED BY <1>1, <2>1, CloseSales, GivenUpSales
<1> QED BY <1>2, <1>3

LEMMA CommitFailsSales ==
    ASSUME Typed, SalesKept, CommitFails
    PROVE  SalesKept'
<1>1. Spares(left, left', "faults")
  BY SpendSpares DEF CommitFails, Typed, Counts
<1>2. Closing /\ CloseFailed /\ UNCHANGED <<pump, queue, bill, fills, forgotten, cleared>>
  BY DEF CommitFails, Closing
<1> QED BY <1>1, <1>2, GivenUpSales

(* The sale is billed, once, with all that flowed and at its nozzle. *)
LEMMA CommitSaleSales ==
    ASSUME Typed, SalesKept, CommitSale
    PROVE  SalesKept'
<1> DEFINE row == [volume |-> job.volume, nozzle |-> Sold]
<1>1. /\ at = "commit" /\ Closing /\ at' = "rest"
      /\ UNCHANGED <<pump, queue, fills, forgotten, cleared, left>>
      /\ bill' = [bill EXCEPT ![job.fill] = Append(@, row)]
      /\ lane'.status = "Done" /\ lane'.tx = None /\ job.volume \in Volume
  BY SaleCommitted, JobParts DEF Rest, Goto, Closing, ghosts
<1>2. /\ at # "rest" /\ ~Framing /\ Closeable(lane) /\ bill[fills] = <<>>
      /\ pump.phase \in {"Complete", "Idle"} /\ fills >= 1 /\ pump.polls \in 0 .. 2
      /\ left.late => ~OrderWaits
  BY <1>1, ClosingFacts
<1>3. job.fill = fills /\ job.volume = pump.volume /\ fills \in Fill
      /\ bill \in [Fill -> Seq(Row)] /\ fills \in Nat
  BY <1>1 DEF SalesKept, Steps, Typed, HistoryTyped, Fill
<1>4. row.volume = pump.volume
  BY <1>3
<1>5. pump.volume > 0 /\ ~forgotten => row.nozzle = pump.nozzle
  <2>1. SUFFICES ASSUME pump.volume > 0, ~forgotten
                 PROVE  Sold = pump.nozzle
    OBVIOUS
  <2>2. lane.tx = pump.nozzle
    BY <1>2, <2>1 DEF SalesKept, SaleOwed, Owed
  <2>3. pump.nozzle # None
    BY Apart DEF Typed, PumpState
  <2> QED BY <2>2, <2>3 DEF Sold
<1>6. row \in Row
  BY <1>1, SaleCommitted DEF Row
<1> HIDE DEF row
<1>7. /\ bill'[fills] = <<row>>
      /\ \A f \in Fill : f # fills => bill'[f] = bill[f]
  BY <1>1, <1>2, <1>3, <1>6
<1>8. BilledApart'
  BY <1>1, <1>3, <1>7 DEF SalesKept, BilledApart, Fill
<1>9. BilledOver'
  BY <1>1, <1>2, <1>4, <1>5, <1>7 DEF BilledOver
<1>10. ~Framing' /\ ~Closing' /\ ~Closeable(lane')
  BY <1>1 DEF Framing, Closing, Closeable
<1>11. Register' /\ AfterLift' /\ Steps' /\ InTime'
  BY <1>1, <1>2, <1>10 DEF SalesKept, Register, AfterLift, Steps, InTime
<1>12. bill'[fills] # <<>>
  BY <1>7
<1>13. SaleHeld' /\ SaleOwed' /\ LaneOwns'
  BY <1>1, <1>2, <1>12 DEF SaleHeld, SaleOwed, Owed, LaneOwns
<1>14. OneChance' /\ SaleKept'
  BY <1>1 DEF SalesKept, OneChance, SaleKept, Chance, Again
<1>15. Commands'
  <2>1. CASE left.late
    <3>1. pump'.phase # "Stopped"
      BY <1>1, <1>2
    <3> QED BY <1>1, <1>2, <2>1, <3>1, RacedKept DEF SalesKept
  <2>2. CASE ~left.late
    BY <1>1, <1>2, <2>2, CalmKept DEF SalesKept
  <2> QED BY <2>1, <2>2
<1> QED BY <1>8, <1>9, <1>11, <1>13, <1>14, <1>15 DEF SalesKept

(* A command is taken: it finds the loop at rest. *)
LEMMA TakenSales ==
    ASSUME Typed, SalesKept, NEW kind, Dequeued(kind), NEW what, Spares(left, left', what),
           pump'.nozzle = pump.nozzle, pump'.volume = pump.volume,
           bill[fills] # <<>> =>
               /\ at' = "rest" /\ pump'.phase \in {"Complete", "Idle"}
               /\ lane'.status \in {"Idle", "Done", "PreAuthorized", "Offline"}
               /\ lane'.tx = None,
           left.late => lane'.status # "Stopped" /\ pump'.phase # "Stopped",
           left.late /\ OrderWaits => OrderInTime',
           Register', AfterLift', Steps', InTime', SaleHeld', SaleOwed', LaneOwns'
    PROVE  SalesKept'
<1>1. OneChance' /\ left'.late = left.late
  BY OneChanceKept DEF SalesKept
<1>2. UNCHANGED <<bill, fills, cleared>> /\ (forgotten => forgotten')
  BY Taken
<1>3. BilledApart' /\ BilledOver'
  BY <1>2, BilledKept DEF SalesKept
<1>4. Commands'
  <2>1. CASE left.late
    BY <1>1, <2>1, RacedKept DEF SalesKept
  <2>2. CASE ~left.late
    BY <1>1, <2>2, CalmKept DEF SalesKept
  <2> QED BY <2>1, <2>2
<1> QED BY <1>1, <1>2, <1>3, <1>4 DEF SalesKept, SaleKept

(* What a command finds. *)
LEMMA FoundSales ==
    ASSUME Typed, SalesKept, NEW kind, Dequeued(kind)
    PROVE  /\ at = "rest" /\ ~Framing /\ ~Closing /\ UNCHANGED <<bill, fills, cleared>>
           /\ forgotten' = (forgotten \/ (kind = "cancel" /\ lane.tx # None))
           /\ Head(queue).kind = kind
           /\ pump.polls \in 0 .. 2 /\ pump.nozzle # None /\ pump.volume \in Volume
           /\ IF left.late
              THEN /\ lane.status # "Stopped" /\ pump.phase # "Stopped"
                   /\ kind \notin {"stop", "estop"}
                   /\ kind = "order" => OrderInTime
              ELSE /\ kind = "order" => IF Head(queue).nozzle = None THEN lane.status = "NozzleUp"
                                        ELSE lane.status = "Idle"
                   /\ kind \in {"stop", "estop"} => lane.tx # None
                   /\ kind \in {"reset", "clear"} =>
                         lane.status # "Stopped" \/ pump.phase = "Idle"
<1>1. /\ at = "rest" /\ queue # <<>> /\ Head(queue).kind = kind /\ Head(queue) = queue[1]
      /\ 1 \in DOMAIN queue /\ UNCHANGED <<bill, fills, cleared>>
      /\ forgotten' = (forgotten \/ (kind = "cancel" /\ lane.tx # None))
  BY Taken
<1>2. pump.polls \in 0 .. 2 /\ pump.nozzle # None /\ pump.volume \in Volume
  BY Apart DEF Typed, PumpState
<1>3. CASE left.late
  <2>1. /\ lane.status # "Stopped" /\ pump.phase # "Stopped"
        /\ kind \notin {"stop", "estop"} /\ (kind = "order" => OrderInTime)
    BY <1>1, <1>3 DEF SalesKept, Commands, Raced, OrderWaits
  <2> QED BY <1>1, <1>2, <1>3, <2>1 DEF Framing, Closing
<1>4. CASE ~left.late
  <2>1. /\ kind = "order" => IF Head(queue).nozzle = None THEN lane.status = "NozzleUp"
                                        ELSE lane.status = "Idle"
        /\ kind \in {"stop", "estop"} => lane.tx # None
        /\ kind \in {"reset", "clear"} => lane.status # "Stopped" \/ pump.phase = "Idle"
    BY <1>1, <1>4 DEF SalesKept, Commands, Calm
  <2> QED BY <1>1, <1>2, <1>4, <2>1 DEF Framing, Closing
<1> QED BY <1>3, <1>4

(* An order finds no sale under way, or none that fuel has flowed for: the     *)
(* lane that is pre-authorized has its sale back by the next poll or display.  *)
LEMMA PreauthorizeSales ==
    ASSUME Typed, SalesKept, PreauthorizeCommand
    PROVE  SalesKept'
<1>1. /\ Dequeued("order") /\ Head(queue).nozzle # None
      /\ lane'.tx = lane.tx /\ at' = "rest" /\ UNCHANGED <<pump, left>>
      /\ IF lane.status = "NozzleUp" THEN lane'.status = "NozzleUp" /\ lane'.nozzle = lane.nozzle
         ELSE lane'.status = "PreAuthorized"
  BY PreauthorizedLane DEF PreauthorizeCommand, Rest, Goto
<1>2. /\ at = "rest" /\ ~Framing /\ ~Closing /\ UNCHANGED <<bill, fills, cleared, forgotten>>
      /\ pump.polls \in 0 .. 2 /\ pump.nozzle # None /\ pump.volume \in Volume
      /\ IF left.late THEN lane.status # "Stopped" /\ pump.phase # "Stopped" /\ OrderInTime
         ELSE lane.status = "Idle"
  BY <1>1, FoundSales DEF Typed, HistoryTyped
<1>3. Spares(left, left', "nothing") /\ Chance' = Chance /\ Again' = Again
      /\ (Again => Chance <= 1) /\ Chance \in Nat
  BY <1>1, SameSpares, OneChanceKept DEF SalesKept, Typed, Chance, Again
<1>4. ~Framing' /\ ~Closing' /\ ~Closeable(lane')
  BY <1>1 DEF Framing, Closing, Closeable
<1>5. bill[fills] # <<>> =>
               /\ at' = "rest" /\ pump'.phase \in {"Complete", "Idle"}
               /\ lane'.status \in {"Idle", "Done", "PreAuthorized", "Offline"}
               /\ lane'.tx = None
  BY <1>1 DEF SalesKept, BilledOver
<1>6. Register' /\ AfterLift' /\ Steps'
  BY <1>1, <1>2, <1>3, <1>4 DEF SalesKept, Register, AfterLift, Steps
<1>7. InTime'
  BY <1>1, <1>2, <1>3, <1>4 DEF SalesKept, InTime
<1>8. LaneOwns'
  <2>1. lane.tx # None => left.late /\ lane.status # "NozzleUp"
    BY <1>2 DEF SalesKept, LaneOwns, Closeable
  <2> QED BY <1>1, <2>1 DEF LaneOwns
<1>9. SaleHeld'
  <2>1. SUFFICES ASSUME \/ pump.phase \in {"Ready", "Delivering"}
                        \/ pump.phase = "Stopped" /\ pump.volume > 0,
                        ~forgotten
                 PROVE  /\ lane.tx = pump.nozzle
                        /\ Again => lane'.status = "PreAuthorized" /\ pump.phase = "Ready"
                                    /\ Chance < pump.polls
    BY <1>1, <1>2, <1>3 DEF SaleHeld
  <2>2. /\ lane.tx = pump.nozzle
        /\ Again => \/ Closeable(lane)
                    \/ lane.status = "PreAuthorized" /\ pump.phase = "Ready" /\ Chance < pump.polls
    BY <1>2, <2>1 DEF SalesKept, SaleHeld
  <2>3. left.late /\ lane'.status = "PreAuthorized"
    BY <1>1, <1>2, <2>2 DEF SalesKept, LaneOwns, Closeable
  <2>4. ASSUME Again, Closeable(lane)
        PROVE  pump.phase = "Ready" /\ Chance < pump.polls
    <3>1. pump.phase = "Ready" /\ pump.polls = 2
      BY <1>2, <2>1, <2>3, <2>4 DEF OrderInTime
    <3> QED BY <1>3, <2>4, <3>1
  <2> QED BY <2>2, <2>3, <2>4
<1>10. SaleOwed'
  <2>1. SUFFICES ASSUME pump.volume > 0, Owed, Again
                 PROVE  FALSE
    BY <1>1, <1>2, <1>3, <1>4 DEF SaleOwed, Owed
  <2>2. Closeable(lane)
    BY <1>2, <2>1 DEF SalesKept, SaleOwed
  <2>3. left.late
    BY <1>2, <2>2 DEF Closeable
  <2> QED BY <1>2, <2>1, <2>2, <2>3 DEF OrderInTime, Owed
<1>11. left.late => lane'.status # "Stopped" /\ pump'.phase # "Stopped" /\ OrderInTime'
  BY <1>1, <1>2, <1>4 DEF OrderInTime
<1> QED BY <1>1, <1>3, <1>5, <1>6, <1>7, <1>8, <1>9, <1>10, <1>11, TakenSales

LEMMA AuthorizeSales ==
    ASSUME Typed, SalesKept, AuthorizeCommand
    PROVE  SalesKept'
<1>1. /\ Dequeued("order") /\ UNCHANGED <<pump, left>>
      /\ lane'.status = lane.status /\ lane'.tx = lane.tx /\ lane'.nozzle = lane.nozzle
      /\ \/ lane.status = "NozzleUp" /\ at' = "price" /\ job'.nozzle = lane.nozzle
         \/ lane.status # "NozzleUp" /\ at' = "rest"
  BY AuthorizeTaken DEF Rest, Goto
<1>2. /\ at = "rest" /\ ~Framing /\ ~Closing /\ UNCHANGED <<bill, fills, cleared, forgotten>>
      /\ left.late => lane.status # "Stopped" /\ pump.phase # "Stopped" /\ OrderInTime
  BY <1>1, FoundSales DEF Typed, HistoryTyped
<1>3. Spares(left, left', "nothing") /\ Chance' = Chance /\ Again' = Again
  BY <1>1, SameSpares DEF Typed, Chance, Again
<1>4. ~Closing' /\ (Framing' => lane.status = "NozzleUp" /\ job'.nozzle = lane.nozzle)
      /\ at' \notin {"identify", "display", "commit"} /\ Closeable(lane') = Closeable(lane)
  BY <1>1 DEF Framing, Closing, Closeable
<1>5. bill[fills] # <<>> =>
               /\ at' = "rest" /\ pump'.phase \in {"Complete", "Idle"}
               /\ lane'.status \in {"Idle", "Done", "PreAuthorized", "Offline"}
               /\ lane'.tx = None
  BY <1>1 DEF SalesKept, BilledOver
<1>6. Register' /\ AfterLift' /\ Steps'
  BY <1>1, <1>2, <1>3, <1>4 DEF SalesKept, Register, AfterLift, Steps
<1>7. InTime'
  BY <1>1, <1>2, <1>3, <1>4 DEF SalesKept, InTime
<1>8. SaleHeld' /\ SaleOwed' /\ LaneOwns'
  BY <1>1, <1>2, <1>3, <1>4 DEF SalesKept, SaleHeld, SaleOwed, LaneOwns, Owed
<1>9. left.late => lane'.status # "Stopped" /\ pump'.phase # "Stopped" /\ OrderInTime'
  BY <1>1, <1>2, <1>4 DEF OrderInTime
<1> QED BY <1>1, <1>3, <1>5, <1>6, <1>7, <1>8, <1>9, TakenSales

(* A stop finds a sale under way, and keeps it. *)
LEMMA HaltSales ==
    ASSUME Typed, SalesKept, NEW arrived \in BOOLEAN,
           StopCommand(arrived) \/ EStopCommand(arrived)
    PROVE  SalesKept'
<1>1. PICK kind \in {"stop", "estop"} : Dequeued(kind)
  BY HaltTaken
<1>2. /\ at' = "rest" /\ lane'.status = "Stopped" /\ lane'.tx = lane.tx
      /\ pump'.nozzle = pump.nozzle /\ pump'.volume = pump.volume /\ pump'.polls = pump.polls
      /\ pump'.phase = IF arrived /\ HoseOut(pump) THEN "Stopped" ELSE pump.phase
  BY HaltTaken DEF Rest, Goto
<1>3. PICK what \in {"nothing", "noise"} : Spares(left, left', what)
  BY HaltTaken
<1>4. /\ at = "rest" /\ ~Framing /\ ~Closing /\ UNCHANGED <<bill, fills, cleared, forgotten>>
      /\ ~left.late /\ lane.tx # None
  BY <1>1, FoundSales DEF Typed, HistoryTyped
<1>5. /\ left'.late = left.late /\ left'.lifts = left.lifts /\ Again' = Again
      /\ Chance \in Nat /\ Chance' = Chance
  BY <1>3, OneChanceKept DEF SalesKept
<1>6. Closeable(lane) /\ Closeable(lane') /\ fills >= 1 /\ bill[fills] = <<>>
      /\ ~Framing' /\ ~Closing'
  BY <1>2, <1>4
     DEF SalesKept, LaneOwns, AfterLift, BilledOver, Closeable, Framing, Closing
<1>7. /\ pump'.phase \in {"Idle", "Complete", "Lifted", "Ready"} => pump.phase = pump'.phase
      /\ pump'.phase = "Delivering" => pump.phase = "Delivering"
      /\ pump'.phase = "Stopped" =>
            pump.phase \in {"Stopped", "Ready", "Delivering"} \/ pump.phase = "Lifted"
  BY <1>2 DEF HoseOut
<1>8. Register' /\ AfterLift' /\ Steps'
  BY <1>2, <1>4, <1>5, <1>6, <1>7
     DEF SalesKept, Register, AfterLift, Steps, Typed, HistoryTyped, Fill
<1>9. InTime'
  BY <1>2, <1>4, <1>5, <1>6, <1>7 DEF SalesKept, InTime
<1>10. SaleHeld'
  BY <1>2, <1>4, <1>6, <1>7 DEF SalesKept, SaleHeld, Register
<1>11. SaleOwed' /\ LaneOwns'
  BY <1>2, <1>4, <1>5, <1>6 DEF SalesKept, SaleOwed, LaneOwns, Owed
<1> QED BY <1>1, <1>2, <1>3, <1>4, <1>6, <1>8, <1>9, <1>10, <1>11, TakenSales

(* A lane that is left bare had no sale, or a cancellation forgets it. *)
LEMMA DismissSales ==
    ASSUME Typed, SalesKept, ResetCommand \/ ClearCommand \/ CancelCommand
    PROVE  SalesKept'
<1>1. UNCHANGED <<pump, left>>
  BY DismissTaken
<1>2. /\ Spares(left, left', "nothing") /\ Chance' = Chance /\ Again' = Again
      /\ pump'.volume = pump.volume /\ pump'.nozzle = pump.nozzle
  BY <1>1, SameSpares DEF Typed, Chance, Again
<1>3. CASE /\ \E kind \in {"reset", "clear"} : Dequeued(kind)
           /\ UNCHANGED lane /\ Rest
  <2>1. PICK kind \in {"reset", "clear"} : Dequeued(kind)
    BY <1>3
  <2>2. /\ at = "rest" /\ at' = "rest" /\ UNCHANGED <<bill, fills, cleared, forgotten>>
        /\ ~Framing /\ ~Closing /\ ~Framing' /\ ~Closing'
        /\ left.late => lane.status # "Stopped" /\ pump.phase # "Stopped"
    BY <1>3, <2>1, FoundSales DEF Typed, HistoryTyped, Rest, Goto, Framing, Closing
  <2>3. bill[fills] # <<>> =>
               /\ at' = "rest" /\ pump'.phase \in {"Complete", "Idle"}
               /\ lane'.status \in {"Idle", "Done", "PreAuthorized", "Offline"}
               /\ lane'.tx = None
    BY <1>1, <1>3, <2>2 DEF SalesKept, BilledOver
  <2>4. Register' /\ AfterLift' /\ Steps' /\ InTime'
    BY <1>1, <1>2, <1>3, <2>2 DEF SalesKept, Register, AfterLift, Steps, InTime
  <2>5. SaleHeld' /\ SaleOwed' /\ LaneOwns'
    BY <1>1, <1>2, <1>3, <2>2 DEF SalesKept, SaleHeld, SaleOwed, LaneOwns, Owed
  <2>6. left.late /\ OrderWaits => OrderInTime'
    BY <1>1, <1>3, <2>2 DEF SalesKept, Commands, Raced, OrderInTime
  <2> QED BY <1>1, <1>2, <1>3, <2>1, <2>2, <2>3, <2>4, <2>5, <2>6, TakenSales
<1>4. CASE /\ Dequeued("reset") /\ lane.status = "Stopped" /\ UNCHANGED lane
           /\ at' = "close" /\ job'.why = "reset"
  <2>1. /\ at = "rest" /\ UNCHANGED <<bill, fills, cleared, forgotten>>
        /\ ~Framing /\ ~Closing /\ ~Framing' /\ ~left.late /\ pump.phase = "Idle"
    BY <1>4, FoundSales DEF Typed, HistoryTyped, Framing
  <2>2. Closeable(lane) /\ ~Again /\ bill[fills] = <<>>
    BY <1>4, <2>1 DEF SalesKept, InTime, BilledOver, Closeable
  <2>3. Register' /\ AfterLift' /\ Steps' /\ InTime'
    BY <1>1, <1>2, <1>4, <2>1, <2>2 DEF SalesKept, Register, AfterLift, Steps, InTime
  <2>4. SaleHeld' /\ SaleOwed' /\ LaneOwns'
    BY <1>1, <1>2, <1>4, <2>1, <2>2 DEF SalesKept, SaleHeld, SaleOwed, LaneOwns, Owed
  <2> QED BY <1>2, <1>4, <2>1, <2>2, <2>3, <2>4, TakenSales
<1>5. ASSUME NEW kind \in {"reset", "clear", "cancel"}, Dequeued(kind), Bare(lane'), Rest,
             kind \in {"reset", "clear"} =>
                lane.status \notin {"Delivering", "Authorizing", "PreAuthorized"}
      PROVE  SalesKept'
  <2>1. /\ at = "rest" /\ at' = "rest" /\ UNCHANGED <<bill, fills, cleared>>
        /\ forgotten' = (forgotten \/ (kind = "cancel" /\ lane.tx # None))
        /\ ~Framing /\ ~Closing /\ ~Framing' /\ ~Closing' /\ pump.nozzle # None
        /\ left.late => lane.status # "Stopped" /\ pump.phase # "Stopped"
        /\ kind \in {"reset", "clear"} => lane.status # "Stopped" \/ pump.phase = "Idle"
    BY <1>5, FoundSales DEF Rest, Goto, Framing, Closing
  <2>2. lane'.status = "Idle" /\ lane'.tx = None /\ ~Closeable(lane')
    BY <1>5, BareSales
  <2>3. bill[fills] # <<>> => pump.phase \in {"Complete", "Idle"}
    BY DEF SalesKept, BilledOver
  <2>4. Register' /\ AfterLift' /\ Steps' /\ InTime'
    BY <1>1, <1>2, <2>1, <2>2 DEF SalesKept, Register, AfterLift, Steps, InTime
  <2>5. kind \in {"reset", "clear"} =>
           (lane.tx = None /\ ~Closeable(lane)) \/ pump.phase = "Idle"
    BY <1>5, <2>1 DEF SalesKept, LaneOwns, Closeable
  <2>6. lane.tx = None \/ forgotten' \/ pump.phase = "Idle"
    BY <1>5, <2>1, <2>5
  <2>7. SaleHeld'
    BY <1>1, <1>2, <2>1, <2>6 DEF SalesKept, SaleHeld
  <2>8. SaleOwed'
    <3>1. SUFFICES ASSUME pump.volume > 0, Owed, ~forgotten', Again
                   PROVE  FALSE
      BY <1>1, <1>2, <2>1, <2>2 DEF SaleOwed, Owed
    <3>2. Closeable(lane) /\ lane.tx = pump.nozzle
      BY <2>1, <3>1 DEF SalesKept, SaleOwed
    <3>3. pump.phase = "Idle"
      BY <2>1, <2>6, <3>1, <3>2
    <3> QED BY <3>1, <3>2, <3>3 DEF SalesKept, InTime
  <2>9. LaneOwns'
    BY <2>2 DEF LaneOwns
  <2>10. OrderInTime'
    BY <2>1, <2>2 DEF OrderInTime
  <2> QED BY <1>1, <1>2, <1>5, <2>1, <2>2, <2>3, <2>4, <2>7, <2>8, <2>9, <2>10, TakenSales
<1> QED BY <1>3, <1>4, <1>5, DismissTaken

(* A request finds the lane as the command will, or is an order among others. *)
LEMMA RequestSales ==
    ASSUME Typed, SalesKept, RequestStep
    PROVE  SalesKept'
<1>1. PICK kind \in {"order", "cancel", "stop", "estop", "reset", "clear"},
           n \in Nozzle \cup {None}, d \in Limit :
             Queued(kind, n, d) /\ Due(kind, n) /\ \E what : Spares(left, left', what)
  BY Requested
<1>2. PICK what : Spares(left, left', what)
  BY <1>1
<1> DEFINE c == [kind |-> kind, nozzle |-> n, dose |-> d]
<1>3. c.kind = kind /\ c.nozzle = n /\ c \in Command
  BY DEF Command
<1>4. /\ UNCHANGED <<pump, lane, at, job, bill, ghosts>> /\ (left.late \/ Polling)
      /\ queue' = Append(queue, c) /\ queue'[Len(queue) + 1] = c
      /\ \A i \in DOMAIN queue' : i # Len(queue) + 1 =>
            i \in DOMAIN queue /\ queue'[i] = queue[i]
  BY <1>1, Asked
<1> HIDE DEF c
<1>5. UNCHANGED <<bill, fills, forgotten, cleared>>
  BY <1>4 DEF ghosts
<1>6. /\ OneChance' /\ left'.late = left.late /\ left'.lifts = left.lifts /\ Again' = Again
      /\ Chance \in Nat /\ Chance' \in Nat /\ Chance' <= Chance
  BY <1>2, OneChanceKept DEF SalesKept
<1>7. Framing' = Framing /\ Closing' = Closing /\ pump.polls \in 0 .. 2
  BY <1>4 DEF Framing, Closing, Typed, PumpState
<1>8. Register' /\ AfterLift' /\ Steps'
  BY <1>4, <1>5, <1>6, <1>7 DEF SalesKept, Register, AfterLift, Steps
<1>9. InTime'
  BY <1>4, <1>6, <1>7 DEF SalesKept, InTime
<1>10. BilledApart' /\ BilledOver'
  BY <1>4, <1>5, BilledKept DEF SalesKept, BilledOver
<1>11. SaleHeld'
  BY <1>4, <1>5, <1>6, <1>7 DEF SalesKept, SaleHeld
<1>12. SaleOwed' /\ LaneOwns' /\ SaleKept'
  BY <1>4, <1>5, <1>6 DEF SalesKept, SaleOwed, Owed, LaneOwns, SaleKept
<1>13. ~left.early /\ (left.late => left.stops = 0 /\ left.estops = 0)
  BY DEF SalesKept, OneChance
<1>14. Commands'
  <2>1. CASE left.late
    <3>1. kind \notin {"stop", "estop"}
      BY <1>1, <1>13, <2>1 DEF Due
    <3>2. \A i \in DOMAIN queue' : queue'[i].kind \notin {"stop", "estop"}
      BY <1>3, <1>4, <2>1, <3>1 DEF SalesKept, Commands, Raced
    <3>3. OrderWaits' => OrderWaits \/ kind = "order"
      BY <1>3, <1>4 DEF OrderWaits
    <3>4. kind = "order" => lane.status \in {"Idle", "NozzleUp"}
      BY <1>1 DEF Due
    <3>5. kind = "order" => OrderInTime
      BY <3>4 DEF OrderInTime, Closeable
    <3>6. OrderWaits' => OrderInTime'
      BY <1>4, <1>5, <2>1, <3>3, <3>5 DEF SalesKept, Commands, Raced, OrderInTime
    <3> QED BY <1>4, <1>6, <2>1, <3>2, <3>6 DEF SalesKept, Commands, Raced
  <2>2. CASE ~left.late
    <3>1. at = "rest" /\ queue = <<>>
      BY <1>4, <2>2 DEF Polling
    <3>2. Len(queue') <= 1 /\ Head(queue') = c
      BY <1>3, <1>4, <3>1
    <3>3. /\ kind = "order" => IF n = None THEN lane.status = "NozzleUp" ELSE lane.status = "Idle"
          /\ kind \in {"stop", "estop"} => lane.tx # None
          /\ kind \in {"reset", "clear"} => lane.status # "Stopped" \/ pump.phase = "Idle"
      BY <1>1, <1>13 DEF Due, Underway, HungUp
    <3> QED BY <1>3, <1>4, <1>6, <2>2, <3>1, <3>2, <3>3 DEF Commands, Calm
  <2> QED BY <2>1, <2>2
<1> QED BY <1>6, <1>8, <1>9, <1>10, <1>11, <1>12, <1>14 DEF SalesKept

(* The register is cleared by a lift that finds the sale billed, or forgotten. *)
LEMMA LiftSales ==
    ASSUME Typed, SalesKept, NEW n \in Nozzle, CustomerLifts(n)
    PROVE  SalesKept'
<1>1. /\ pump.phase = "Idle" /\ fills < left.lifts /\ (left.late \/ queue = <<>>)
      /\ pump'.phase = "Lifted" /\ pump'.nozzle = n /\ pump'.volume = 0
      /\ fills' = fills + 1 /\ fills' \in Fill /\ fills \in Fill /\ fills' <= left.lifts
      /\ forgotten' = FALSE
      /\ cleared' = IF pump.volume > 0 /\ bill[fills] = <<>> /\ ~forgotten
                    THEN cleared \cup {fills} ELSE cleared
      /\ UNCHANGED <<lane, queue, at, job, bill, left>>
  BY Lifts
<1>2. fills \in Nat /\ left.lifts \in Nat
  BY <1>1, BudgetParts DEF Fill, Typed
<1>3. fills >= 1 => Again
  BY <1>1, <1>2 DEF Again
<1>4. Again => at = "rest" /\ ~Closeable(lane) /\ lane.status # "NozzleUp"
  BY <1>1 DEF SalesKept, InTime
<1>5. at = "rest" /\ ~Closeable(lane) /\ lane.status # "NozzleUp"
  BY <1>3, <1>4 DEF SalesKept, AfterLift
<1>6. ~Framing /\ ~Closing /\ ~Framing' /\ ~Closing'
  BY <1>1, <1>5 DEF Framing, Closing
<1>7. cleared' = cleared
  <2>1. SUFFICES ASSUME pump.volume > 0, Owed
                 PROVE  FALSE
    BY <1>1 DEF Owed
  <2>2. fills # 0
    BY <2>1, Apart DEF SalesKept, Register
  <2>3. Again
    BY <1>2, <1>3, <2>2
  <2> QED BY <1>5, <2>1, <2>3 DEF SalesKept, SaleOwed
<1>8. bill'[fills'] = <<>>
  BY <1>1, <1>2 DEF SalesKept, BilledApart
<1>9. BilledApart' /\ BilledOver'
  <2>1. \A f \in Fill : f > fills' => f > fills
    BY <1>1, <1>2 DEF Fill
  <2> QED BY <1>1, <1>8, <2>1 DEF SalesKept, BilledApart, BilledOver
<1>10. Register' /\ AfterLift' /\ Steps'
  BY <1>1, <1>2, <1>5, <1>6 DEF Register, AfterLift, Steps
<1>11. InTime' /\ SaleHeld' /\ SaleOwed'
  BY <1>1 DEF InTime, SaleHeld, SaleOwed
<1>12. LaneOwns' /\ OneChance' /\ SaleKept'
  BY <1>1, <1>7 DEF SalesKept, LaneOwns, OneChance, Chance, Again, SaleKept
<1>13. Commands'
  <2>1. CASE left.late
    <3>1. OrderInTime'
      BY <1>1, <1>5 DEF OrderInTime
    <3>2. lane'.status # "Stopped" /\ pump'.phase # "Stopped"
      BY <1>1, <2>1 DEF SalesKept, Commands, Raced
    <3> QED BY <1>1, <2>1, <3>1, <3>2, RacedKept DEF SalesKept
  <2>2. CASE ~left.late
    BY <1>1, <2>2, CalmKept DEF SalesKept
  <2> QED BY <2>1, <2>2
<1> QED BY <1>9, <1>10, <1>11, <1>12, <1>13 DEF SalesKept

(* Fuel flows, or the nozzle is back, while the sale is the lane's. *)
LEMMA FlowSales ==
    ASSUME Typed, SalesKept, CustomerHolsters \/ FuelFlows
    PROVE  SalesKept'
<1>1. /\ UNCHANGED <<lane, queue, at, job, bill, fills, forgotten, cleared, left>>
      /\ pump'.nozzle = pump.nozzle
      /\ \/ /\ pump.phase \in {"Lifted", "Ready", "Delivering", "Stopped"}
            /\ pump'.phase = "Complete" /\ pump'.polls = 2 /\ pump'.volume = pump.volume
         \/ pump.phase = "Delivering" /\ pump'.phase = "Complete" /\ pump'.polls = 2
         \/ pump.phase = "Delivering" /\ pump'.phase = "Delivering"
  BY Flows DEF ghosts
<1>2. Framing' = Framing /\ Closing' = Closing /\ Again' = Again /\ Chance' = Chance
      /\ (Again => Chance <= 1) /\ Chance \in Nat
  BY <1>1, SameSpares, OneChanceKept DEF Framing, Closing, Again, Chance, SalesKept, Typed
<1>3. bill[fills] = <<>> /\ ~Closing /\ at # "commit"
  BY <1>1 DEF SalesKept, BilledOver, Steps, Closing
<1>4. BilledApart' /\ BilledOver'
  BY <1>1, <1>3 DEF SalesKept, BilledApart, BilledOver
<1>5. lane.status = "NozzleUp" \/ at = "identify" \/ Framing =>
        pump'.volume = pump.volume /\ pump'.phase = "Complete"
  BY <1>1 DEF SalesKept, Steps
<1>6. Register'
  BY <1>1, <1>2, <1>5 DEF SalesKept, Register
<1>7. AfterLift' /\ Steps'
  BY <1>1, <1>2, <1>3, <1>5 DEF SalesKept, AfterLift, Steps
<1>8. InTime'
  BY <1>1, <1>2 DEF InTime
<1>9. SaleHeld'
  BY <1>1, <1>2 DEF SalesKept, SaleHeld
<1>10. SaleOwed'
  <2>1. SUFFICES ASSUME pump'.volume > 0, Owed
                 PROVE  /\ lane.tx = pump.nozzle
                        /\ Again => Closeable(lane) \/ at = "display"
    BY <1>1, <1>2 DEF SaleOwed, Owed
  <2>2. pump.phase = "Delivering" \/ (pump.phase = "Stopped" /\ pump.volume > 0)
    BY <1>1, <2>1, Apart DEF SalesKept, Register
  <2> QED BY <2>1, <2>2 DEF SalesKept, SaleHeld, Owed
<1>11. LaneOwns' /\ OneChance' /\ SaleKept'
  BY <1>1 DEF SalesKept, LaneOwns, OneChance, Chance, Again, SaleKept
<1>12. Commands'
  <2>1. CASE left.late
    <3>1. pump'.phase # "Stopped" /\ lane'.status # "Stopped"
      BY <1>1, <2>1 DEF SalesKept, Commands, Raced
    <3>2. OrderWaits => OrderInTime'
      BY <1>1, <2>1 DEF SalesKept, Commands, Raced, OrderInTime
    <3> QED BY <1>1, <2>1, <3>1, <3>2, RacedKept DEF SalesKept
  <2>2. CASE ~left.late
    <3>1. lane.status # "Stopped" \/ pump.phase # "Idle"
      BY <1>1
    <3> QED BY <1>1, <2>2 DEF SalesKept, Commands, Calm
  <2> QED BY <2>1, <2>2
<1> QED BY <1>4, <1>6, <1>7, <1>8, <1>9, <1>10, <1>11, <1>12 DEF SalesKept

(* After a crash the driver has forgotten the sale that was under way. *)
LEMMA CrashSales ==
    ASSUME Typed, SalesKept, Crash
    PROVE  SalesKept'
<1>1. /\ Spares(left, left', "crashes") /\ at' = "rest" /\ queue' = <<>>
      /\ lane'.status = "Offline" /\ lane'.tx = None
      /\ forgotten' = TRUE /\ UNCHANGED <<pump, bill, fills, cleared>>
  BY Crashes DEF Rest, Goto
<1>2. /\ OneChance' /\ left'.late = left.late /\ left'.lifts = left.lifts /\ Again' = Again
  BY <1>1, OneChanceKept DEF SalesKept
<1>3. ~Framing' /\ ~Closing' /\ ~Closeable(lane')
  BY <1>1 DEF Framing, Closing, Closeable
<1>4. Register' /\ AfterLift' /\ Steps' /\ InTime'
  BY <1>1, <1>2, <1>3 DEF SalesKept, Register, AfterLift, Steps, InTime
<1>5. BilledApart' /\ BilledOver'
  BY <1>1, BilledKept DEF SalesKept, BilledOver
<1>6. SaleHeld' /\ SaleOwed' /\ LaneOwns' /\ SaleKept'
  BY <1>1 DEF SalesKept, SaleHeld, SaleOwed, Owed, LaneOwns, SaleKept
<1>7. Commands'
  <2>1. left.late => pump'.phase # "Stopped"
    BY <1>1 DEF SalesKept, Commands, Raced
  <2>2. ~OrderWaits' /\ Len(queue') = 0 /\ \A i \in DOMAIN queue' : FALSE
    BY <1>1 DEF OrderWaits
  <2> QED BY <1>1, <1>2, <2>1, <2>2 DEF Commands, Raced, Calm
<1> QED BY <1>2, <1>4, <1>5, <1>6, <1>7 DEF SalesKept

LEMMA StutterSales ==
    ASSUME SalesKept, UNCHANGED vars
    PROVE  SalesKept'
<1>1. UNCHANGED <<pump, lane, queue, at, job, bill, left, fills, forgotten, cleared>>
  BY DEF vars, ghosts
<1>2. OneChance' /\ Register' /\ AfterLift' /\ Steps' /\ InTime'
  BY <1>1 DEF SalesKept, OneChance, Register, AfterLift, Steps, InTime, Framing, Closing, Chance,
     Again
<1>3. BilledOver' /\ BilledApart' /\ SaleHeld' /\ SaleOwed' /\ LaneOwns' /\ SaleKept'
  BY <1>1 DEF SalesKept, BilledOver, BilledApart, SaleHeld, SaleOwed, LaneOwns, SaleKept, Owed,
     Again, Chance
<1>4. Commands'
  BY <1>1 DEF SalesKept, Commands, Calm, Raced, OrderWaits, OrderInTime
<1> QED BY <1>2, <1>3, <1>4 DEF SalesKept

LEMMA LoopSales ==
    ASSUME Typed, SalesKept, Loop
    PROVE  SalesKept'
<1>1. CASE PollStep
  BY <1>1, StatusMissedSales, StatusIdleSales, StatusLiftedSales, StatusFlowingSales,
     StatusCompleteSales, StatusStoppedSales, IdentifySales, FrameSales, SendAuthorizeSales,
     DisplaySales, TransactionSales, CommitSaleSales, CommitFailsSales DEF PollStep
<1>2. CASE CommandStep
  BY <1>2, PreauthorizeSales, AuthorizeSales, HaltSales, DismissSales DEF CommandStep
<1> QED BY <1>1, <1>2 DEF Loop

(* Where a nozzle may be lifted again, one answer is lost or one sale refused  *)
(* in all, not one for each fill; lanes without a sale are not stopped, and a  *)
(* stopped lane is reset once its nozzle is hung up; nobody stops a lane where *)
(* commands are asked for in the middle of a poll.                             *)
OneMishap ==
    \A b \in Budgets :
        /\ ~b.early
        /\ b.lifts > 1 => b.losses + b.faults <= 1
        /\ b.late => b.stops = 0 /\ b.estops = 0

LEMMA InitSales ==
    ASSUME OneMishap, Init
    PROVE  SalesKept
<1>1. /\ pump = FreshPump /\ lane = FreshLane /\ queue = <<>> /\ at = "rest"
      /\ bill = [f \in Fill |-> <<>>] /\ fills = 0 /\ forgotten = FALSE /\ cleared = {}
      /\ left \in Budgets
  BY DEF Init
<1>2. /\ FreshLane.status = "Offline" /\ FreshLane.tx = None /\ FreshPump.phase = "Idle"
      /\ FreshPump.volume = 0
  BY DEF FreshLane, FreshPump
<1>3. OneChance /\ left.lifts >= 0 /\ 0 \in Fill
  BY <1>1, BudgetsAssumption, BudgetParts, Apart DEF OneMishap, OneChance, Again, Chance, Fill
<1>4. ~Framing /\ ~Closing /\ ~Closeable(lane)
  BY <1>1, <1>2 DEF Framing, Closing, Closeable
<1>5. Register /\ AfterLift /\ Steps /\ InTime
  BY <1>1, <1>2, <1>3, <1>4 DEF Register, AfterLift, Steps, InTime
<1>6. BilledOver /\ BilledApart
  BY <1>1, <1>3 DEF BilledOver, BilledApart
<1>7. SaleHeld /\ SaleOwed /\ LaneOwns /\ SaleKept
  BY <1>1, <1>2 DEF SaleHeld, SaleOwed, LaneOwns, SaleKept
<1>8. Commands
  BY <1>1, <1>2 DEF Commands, Calm, Raced, OrderWaits
<1> QED BY <1>3, <1>5, <1>6, <1>7, <1>8 DEF SalesKept

LEMMA SalesAlways == ASSUME OneMishap PROVE Spec => []SalesKept
<1>1. Init => SalesKept
  BY InitSales
<1>2. ASSUME Typed, SalesKept, [Next]_vars PROVE SalesKept'
  BY <1>2, LoopSales, RequestSales, LiftSales, FlowSales, CrashSales, StutterSales
     DEF Next, PumpStep
<1> QED BY <1>1, <1>2, TypedAlways, PTL DEF Spec

(* By the next lift, which clears the register, gbr_close_transaction has      *)
(* stored the sale of every fill whose record the driver kept, through one     *)
(* lost answer or one refusal of the database in all.  A fill during which the *)
(* service crashed, or whose order was cancelled after its authorization, is   *)
(* not covered (forgotten): the driver has lost its record of that sale.       *)
THEOREM GilbarcoKeeps == ASSUME OneMishap PROVE Spec => []SaleKept
<1>1. SalesKept => SaleKept
  BY DEF SalesKept
<1> QED BY <1>1, SalesAlways, PTL

(* A fill is billed at most once: by the poll that closes it, by the one after *)
(* a refusal, or by the reset of the stopped lane; with one mishap in all      *)
(* where a nozzle may be lifted again.                                         *)
THEOREM GilbarcoBillsOnce == ASSUME OneMishap PROVE Spec => []BilledOnce
<1>1. SalesKept => BilledOnce
  BY DEF SalesKept, BilledApart, BilledOnce
<1> QED BY <1>1, SalesAlways, PTL

(* What is billed for the last fill is all that flowed, and no more flows, and *)
(* the nozzle of the row is the one it flowed from, unless the driver lost its *)
(* record of the sale (forgotten); under the same hypothesis.                  *)
THEOREM GilbarcoBillsRight == ASSUME OneMishap PROVE Spec => []BilledRight
<1>1. Typed /\ SalesKept => BilledRight
  <2>1. SUFFICES ASSUME Typed, SalesKept, NEW i \in DOMAIN bill[fills]
                 PROVE  /\ bill[fills][i].volume = pump.volume
                        /\ (pump.volume > 0 /\ ~forgotten) => bill[fills][i].nozzle = pump.nozzle
                        /\ pump.phase \in {"Complete", "Idle"}
    BY DEF BilledRight
  <2>2. bill[fills] \in Seq(Row) /\ Len(bill[fills]) <= 1
    BY <2>1 DEF Typed, HistoryTyped, SalesKept, BilledApart
  <2>3. i = 1 /\ bill[fills] # <<>>
    BY <2>1, <2>2
  <2> QED BY <2>1, <2>3 DEF SalesKept, BilledOver
<1> QED BY <1>1, TypedAlways, SalesAlways, PTL
=============================================================================
