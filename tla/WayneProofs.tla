----------------------------- MODULE WayneProofs -----------------------------
(***************************************************************************)
(* What a Wayne lane keeps while it is asked for nothing but orders and    *)
(* lane resets, one command at a time: for any hoses, tank, presets,       *)
(* number of customers, fills, orders, resets, lost exchanges and failed   *)
(* saves, and whatever the pump repeats or leaves out.                     *)
(***************************************************************************)
EXTENDS WayneLane, TLAPS

(* The service is not asked to stop, to cancel or to close a sale and does not *)
(* crash; the operator orders and resets what he sees, and the next command    *)
(* when the last was taken.  Section 6 of the README has what happens          *)
(* otherwise.                                                                  *)
OrdersAlone ==
    \A b \in Budgets :
        /\ b["stops"] = 0 /\ b["cancels"] = 0 /\ b["closes"] = 0
        /\ b["crashes"] = 0 /\ b["hasty"] = 0 /\ b["queue"] <= 1

(* The pump may begin to deliver, or does. *)
Armed(p) ==
    p.status \in {"Authorized", "Delivering"} \/ (p.status = "NozzleUp" /\ p.fromIdle)

(* An order from a lane that was idle waits for the loop. *)
Waits(q) == \E i \in 1 .. Len(q) : q[i].kind = "Preauthorize"

----------------------------------------------------------------------------
(* The invariant. *)

BudgetOK ==
    /\ left \in Budget
    /\ left["stops"] = 0 /\ left["cancels"] = 0 /\ left["closes"] = 0
    /\ left["crashes"] = 0 /\ left["hasty"] = 0 /\ left["queue"] <= 1

QueueOK ==
    /\ queue \in Seq(Command) /\ Len(queue) <= left["queue"]
    /\ \A i \in 1 .. Len(queue) : queue[i].kind \notin {"CancelPreauth", "Stop", "EStop"}
    /\ \A i \in 1 .. Len(queue) :
          queue[i].kind \in {"Authorize", "Preauthorize"} => queue[i].hose \in Nozzle

PumpOK(p, g) ==
    /\ p \in PumpState /\ p.status # "Stopped"
    /\ p.status \in {"Idle", "NozzleUp", "Authorized"} => p.volume = 0
    /\ p.status = "Idle" => ~p.fromIdle
    /\ p.status = "Done" => p.volume # 0
    /\ g \in 0 .. fills /\ (g = 0 <=> p.volume = 0)

(* A lane, with the first hose where the driver knows of none. *)
LaneShape ==
    [status : Status, nozzle : Nozzle \cup {None, 1}, volume : Volume, fill : 0 .. MaxFills,
     sale : BOOLEAN, cap : Dose, preset : Dose, stopped : {None}, pre : Nozzle \cup {None},
     armed : BOOLEAN, session : BOOLEAN, latch : BOOLEAN, upStop : BOOLEAN,
     confirmed : BOOLEAN, cancelled : BOOLEAN, ghost : BOOLEAN, pending : BOOLEAN,
     repeat : BOOLEAN, wire : BOOLEAN, echo : BOOLEAN, hose : {"up", "stale", "down"},
     holster : BOOLEAN, complete : BOOLEAN, decel : {None}, resent : BOOLEAN]

LaneOK(l) ==
    /\ l \in LaneShape /\ l.status # "Stopped"
    /\ l.status \in {"Idle", "Offline"} => l.pre = None
    /\ l.volume # 0 => l.status \in {"Delivering", "Done"}
    /\ l.status = "Delivering" => l.volume # 0 /\ l.sale
    /\ l.volume = 0 <=> l.fill = 0
    /\ l.fill <= fills

(* Who armed the pump: an order that is out or still repeated, or a sale that  *)
(* the lane took for a ghost pulse, meters, or is done with.                   *)
ArmOK(l, p) ==
    Armed(p) =>
        \/ l.status = "Authorizing" /\ (l.wire \/ (l.repeat /\ p.status = "Delivering"))
        \/ l.status = "NozzleUp" /\ l.ghost /\ p.status = "Delivering"
        \/ l.status \in {"Delivering", "Done"} /\ p.status = "Delivering"

(* An idle lane does not take a reading that it left behind. *)
OwnOK(l, p) == l.status \in {"Idle", "Offline"} /\ p.volume # 0 => ~OwnsMeterData(l)

(* A lift may overtake the order that waits, and even begin a sale, but one    *)
(* that will not be armed.                                                     *)
WaitOK(l, p, q) ==
    Waits(q) =>
        /\ ~Armed(p) /\ l.pre = None
        /\ \/ l.status \in {"Idle", "Offline"}
           \/ p.volume = 0 /\ l.status = "NozzleUp"
           \/ p.volume = 0 /\ l.status = "Authorizing" /\ l.wire /\ ~l.repeat

(* The register of the pump is the sale that the lane meters, and a lane whose *)
(* sale is billed, or about to be, is done until the register is cleared.      *)
ReadOK(l, p, g, row) ==
    /\ l.status = "Delivering" =>
          /\ book[l.fill] = <<>>
          /\ p.status = "Idle" \/ (g = l.fill /\ l.volume <= p.volume)
    /\ g # 0 /\ (book[g] # <<>> \/ row.fill = g) => l.status = "Done"

RowOK(row) ==
    /\ row.key = 0 /\ row.fill \in Fill /\ row.fill <= fills
    /\ row.volume \in Volume /\ row.state \in {"STOPPED", "COMPLETED", "ABORTED"}
    /\ book[row.fill] = <<>>

DoOK(l, do, row) ==
    \/ do = "none" /\ row = NoRow
    \/ do = "config" /\ row = NoRow /\ l.status = "Authorizing" /\ ~Waits(queue)
    \/ do = "stop" /\ row = NoRow /\ l.status = "Idle"
    \/ do = "done" /\ RowOK(row) /\ l.status = "Done"

JobOK ==
    /\ at \in {"rest", "act", "kick"}
    /\ job = [do |-> job.do, row |-> job.row, kicks |-> job.kicks] /\ job.kicks \in BOOLEAN
    /\ DoOK(lane, job.do, job.row)
    /\ at # "act" => job = NoJob

BookOK ==
    /\ fills \in 0 .. MaxFills
    /\ book \in [Fill -> Seq(Row)]
    /\ \A f \in Fill : Len(book[f]) <= 1 /\ (f > fills => book[f] = <<>>)

(* A lane, its pump and what the step in progress has in hand. *)
Sound(l, p, g, row) ==
    LaneOK(l) /\ ArmOK(l, p) /\ OwnOK(l, p) /\ WaitOK(l, p, queue) /\ ReadOK(l, p, g, row)

WayneInv ==
    /\ BudgetOK /\ QueueOK /\ BookOK /\ PumpOK(pump, fill) /\ JobOK
    /\ Sound(lane, pump, fill, job.row)

----------------------------------------------------------------------------
(* What a frame may do with the lane. *)

Alike(l, m) ==
    /\ m \in LaneShape
    /\ m.status = l.status /\ m.volume = l.volume /\ m.fill = l.fill /\ m.pre = l.pre
    /\ m.sale = l.sale /\ m.wire = l.wire /\ m.repeat = l.repeat /\ m.armed = l.armed
    /\ m.session = l.session
    /\ l.status = "NozzleUp" /\ l.ghost => m.ghost

IdleLane(m) ==
    /\ m \in LaneShape /\ m.status = "Idle" /\ m.pre = None /\ m.volume = 0 /\ m.fill = 0
    /\ ~OwnsMeterData(m)

Stays(l, o) == Alike(l, o.lane) /\ o.do = "none" /\ o.row = NoRow

Idles(l, o) ==
    /\ l.status \notin {"Delivering", "Done"} /\ IdleLane(o.lane)
    /\ o.do \in {"none", "stop"} /\ o.row = NoRow

Ends(l, o) ==
    /\ InSale(l) /\ l.volume # 0
    /\ o.lane \in LaneShape /\ o.lane.status = "Done"
    /\ o.lane.volume = l.volume /\ o.lane.fill = l.fill
    /\ o.do = "done"
    /\ o.row.fill = l.fill /\ o.row.key = 0 /\ o.row.volume = l.volume
    /\ o.row.state \in {"STOPPED", "COMPLETED", "ABORTED"}

Settles(l, o) == Stays(l, o) \/ Idles(l, o) \/ Ends(l, o)

(* An idle pump wakes a lane that was offline. *)
Wakes(l, o) ==
    /\ l.status = "Offline" /\ o.lane \in LaneShape /\ o.lane.status = "Idle"
    /\ o.lane.volume = l.volume /\ o.lane.fill = l.fill /\ o.lane.pre = l.pre
    /\ OwnsMeterData(o.lane) => OwnsMeterData(l)
    /\ o.do = "none" /\ o.row = NoRow

(* CONFIG goes out for a lane that is in authorization. *)
Configs(l, o) ==
    /\ o.lane \in LaneShape /\ l.status = "Authorizing" /\ o.lane.status = "Authorizing"
    /\ o.lane.volume = l.volume /\ o.lane.fill = l.fill
    /\ (l.repeat \/ ~l.wire) /\ o.lane.repeat \in {l.repeat, FALSE}
    /\ l.repeat /\ ~o.lane.repeat => o.lane.wire
    /\ l.wire => o.lane.wire
    /\ o.do = "config" /\ o.row = NoRow

----------------------------------------------------------------------------
(* The updates that the frames share. *)

LEMMA Codes ==
    /\ "Idle" \in Status /\ "NozzleUp" \in Status /\ "PreAuthorized" \in Status
    /\ "Authorizing" \in Status /\ "Delivering" \in Status /\ "Done" \in Status
    /\ "Offline" \in Status
    /\ 0 \in Volume /\ 0 \in 0 .. MaxFills /\ None \in Dose
    /\ Preset \subseteq Dose /\ Dose \subseteq Volume \cup {None}
    /\ None \notin Nat /\ Nozzle \subseteq Nat \ {0} /\ MaxVolume \in Nat \ {0} /\ MaxFills \in Nat
BY NoneAssumption, NozzleAssumption, MaxVolumeAssumption, MaxFillsAssumption, PresetAssumption
   DEF Status, Volume, Dose

LEMMA AlikeSelf ==
    ASSUME NEW l \in LaneShape PROVE Alike(l, l)
BY DEF Alike

LEMMA ResetIdle ==
    ASSUME NEW l \in LaneShape PROVE IdleLane(Reset(l))
<1>1. FreshLane \in LaneShape
  BY Codes DEF LaneShape, FreshLane
<1>2. /\ FreshLane.pre = None /\ FreshLane.volume = 0 /\ FreshLane.fill = 0
      /\ ~FreshLane.sale /\ ~FreshLane.wire /\ ~FreshLane.repeat /\ ~FreshLane.armed
      /\ ~FreshLane.session
  BY DEF FreshLane
<1> HIDE DEF FreshLane
<1>3. Reset(l) \in LaneShape
  BY <1>1, Codes, ZenonT(60) DEF Reset, LaneShape
<1> QED BY <1>1, <1>2, <1>3 DEF Reset, LaneShape, IdleLane, OwnsMeterData, SessionArmed

LEMMA ZeroCancelledIdle ==
    ASSUME NEW l \in LaneShape PROVE IdleLane(ZeroCancelled(l))
<1>1. IdleLane(Reset(l))
  BY ResetIdle
<1> DEFINE k == Reset(l)
           m == [k EXCEPT !.ghost = TRUE]
<1>2. ZeroCancelled(l) = m
  BY DEF ZeroCancelled
<1> HIDE DEF k
<1>3. k \in LaneShape /\ IdleLane(k)
  BY <1>1 DEF k, IdleLane
<1>4. m \in LaneShape
  BY <1>3, ZenonT(60) DEF LaneShape
<1>5. m.status = k.status /\ m.pre = k.pre /\ m.volume = k.volume /\ m.fill = k.fill
  BY <1>3 DEF LaneShape
<1>6. /\ m.sale = k.sale /\ m.wire = k.wire /\ m.repeat = k.repeat /\ m.armed = k.armed
      /\ m.session = k.session
  BY <1>3 DEF LaneShape
<1> HIDE DEF m
<1> QED BY <1>2, <1>3, <1>4, <1>5, <1>6 DEF IdleLane, OwnsMeterData, SessionArmed

LEMMA CancelledIdle ==
    ASSUME NEW l \in LaneShape PROVE IdleLane(Cancelled(l)) /\ ~Cancelled(l).confirmed
<1>1. Zeroed(l) \in LaneShape
  BY Codes DEF Zeroed, LaneShape
<1> DEFINE k == [Zeroed(l) EXCEPT !.status = "Idle", !.nozzle = None, !.pre = None,
                                    !.confirmed = FALSE, !.ghost = FALSE, !.cap = None]
<1>a. k \in LaneShape
  BY <1>1, Codes, ZenonT(60) DEF LaneShape
<1> DEFINE m == [k EXCEPT !.wire = FALSE, !.echo = FALSE, !.pending = FALSE, !.repeat = FALSE]
<1>b. m \in LaneShape
  <2> HIDE DEF k
  <2> QED BY <1>a, ZenonT(60) DEF LaneShape
<1>c. Cancelled(l) = [m EXCEPT !.session = FALSE, !.sale = FALSE, !.armed = FALSE,
                               !.hose = "down"]
  BY DEF Cancelled
<1>2. Cancelled(l) \in LaneShape
  <2> HIDE DEF m
  <2> QED BY <1>b, <1>c, ZenonT(60) DEF LaneShape
<1>3. Cancelled(l).confirmed = FALSE /\ Cancelled(l).status = "Idle" /\ Cancelled(l).volume = 0
      /\ Cancelled(l).fill = 0 /\ Cancelled(l).pre = None
  BY <1>1 DEF Cancelled, LaneShape, Zeroed
<1>4. ~Cancelled(l).sale /\ ~Cancelled(l).wire /\ ~Cancelled(l).repeat /\ ~Cancelled(l).armed
      /\ ~Cancelled(l).session
  BY <1>1 DEF Cancelled, LaneShape, Zeroed
<1> QED BY <1>2, <1>3, <1>4 DEF IdleLane, OwnsMeterData, SessionArmed

LEMMA MismatchIdle ==
    ASSUME NEW l \in LaneShape
    PROVE  /\ IdleLane(Mismatch(l).lane) /\ ~Mismatch(l).lane.confirmed
           /\ Mismatch(l).do = "stop" /\ Mismatch(l).row = NoRow
<1>1. IdleLane(Cancelled(l)) /\ ~Cancelled(l).confirmed
  BY CancelledIdle
<1> DEFINE k == Cancelled(l)
           m == [k EXCEPT !.ghost = TRUE]
<1>2. Mismatch(l) = Out(m, "stop")
  BY DEF Mismatch
<1> HIDE DEF k
<1>3. k \in LaneShape /\ IdleLane(k) /\ ~k.confirmed
  BY <1>1 DEF k, IdleLane
<1>4. m \in LaneShape
  BY <1>3 DEF LaneShape
<1>5. /\ m.confirmed = k.confirmed /\ m.status = k.status /\ m.pre = k.pre
      /\ m.volume = k.volume /\ m.fill = k.fill
  BY <1>3 DEF LaneShape
<1>6. /\ m.sale = k.sale /\ m.wire = k.wire /\ m.repeat = k.repeat /\ m.armed = k.armed
      /\ m.session = k.session
  BY <1>3 DEF LaneShape
<1> HIDE DEF m
<1>7. IdleLane(m)
  BY <1>3, <1>4, <1>5, <1>6 DEF IdleLane, OwnsMeterData, SessionArmed
<1> QED BY <1>2, <1>3, <1>5, <1>7 DEF Out

LEMMA GhostFillIdles ==
    ASSUME NEW l \in LaneShape, l.status \notin {"Delivering", "Done"}
    PROVE  Idles(l, GhostFill(l))
BY ZeroCancelledIdle DEF GhostFill, Out, Idles

LEMMA ResolvedState ==
    ASSUME NEW v \in Volume, NEW b \in BOOLEAN
    PROVE  Resolved(v, b) \in {"STOPPED", "COMPLETED", "ABORTED"}
BY DEF Resolved, Volume

LEMMA FinishedDone ==
    ASSUME NEW l \in LaneShape, NEW s
    PROVE  /\ Finished(l, s) \in LaneShape /\ Finished(l, s).status = "Done"
           /\ Finished(l, s).volume = l.volume /\ Finished(l, s).fill = l.fill
<1> DEFINE b == l.latch \/ (l.volume > 0 /\ s # "STOPPED")
<1>1. Finished(l, s) = [l EXCEPT !.status = "Done", !.cap = None, !.sale = FALSE, !.latch = b]
  BY DEF Finished
<1>2. b \in BOOLEAN
  OBVIOUS
<1> HIDE DEF b
<1>3. Finished(l, s) \in LaneShape
  BY <1>1, <1>2, Codes, ZenonT(60) DEF LaneShape
<1> QED BY <1>1, <1>3 DEF LaneShape

LEMMA EndEarlyEnds ==
    ASSUME NEW l \in LaneShape, InSale(l), l.volume # 0 PROVE Ends(l, EndEarly(l))
<1> DEFINE s == Resolved(l.volume, FALSE)
           m == Finished(l, s)
<1>1. m \in LaneShape /\ m.status = "Done" /\ m.volume = l.volume /\ m.fill = l.fill
  BY FinishedDone
<1>2. s \in {"STOPPED", "COMPLETED", "ABORTED"}
  BY ResolvedState DEF LaneShape
<1> HIDE DEF s, m
<1>3. LET k == [m EXCEPT !.stopped = None, !.holster = FALSE]
      IN  k \in LaneShape /\ k.status = "Done" /\ k.volume = l.volume /\ k.fill = l.fill
  BY <1>1, ZenonT(60) DEF LaneShape
<1> QED BY <1>2, <1>3 DEF EndEarly, s, m, OutRow, Bill, Ends

LEMMA CompleteSaleEnds ==
    ASSUME NEW l \in LaneShape, InSale(l), l.volume # 0 PROVE Ends(l, CompleteSale(l))
<1> DEFINE b == l.complete \/ TargetMet(l)
           s == Resolved(l.volume, b)
           k == [l EXCEPT !.holster = FALSE, !.complete = FALSE, !.decel = None]
<1>1. k \in LaneShape /\ k.volume = l.volume /\ k.fill = l.fill
  BY ZenonT(60) DEF LaneShape
<1>2. s \in {"STOPPED", "COMPLETED", "ABORTED"}
  <2>1. b \in BOOLEAN
    BY DEF LaneShape, TargetMet
  <2> QED BY <2>1, ResolvedState DEF LaneShape
<1> HIDE DEF k, b
<1>3. /\ Finished(k, s) \in LaneShape /\ Finished(k, s).status = "Done"
      /\ Finished(k, s).volume = l.volume /\ Finished(k, s).fill = l.fill
  BY <1>1, FinishedDone
<1>4. CompleteSale(l) = OutRow(Finished(k, s), "done", Bill(l, s))
  BY DEF CompleteSale, k, b
<1> HIDE DEF s
<1> QED BY <1>2, <1>3, <1>4 DEF OutRow, Bill, Ends

LEMMA LaneCases ==
    ASSUME NEW l, LaneOK(l)
    PROVE  /\ l \in LaneShape /\ l.decel = None /\ l.stopped = None
           /\ \/ l.status \in {"Idle", "Offline"} /\ l.pre = None /\ l.volume = 0
              \/ l.status \in {"NozzleUp", "PreAuthorized", "Authorizing"} /\ l.volume = 0
              \/ l.status = "Delivering" /\ l.volume # 0 /\ l.sale
              \/ l.status = "Done"
           /\ l.fill = 0 <=> l.volume = 0
           /\ l.volume \in Nat /\ l.fill \in Nat
BY Codes DEF LaneOK, LaneShape, Status, Volume

LEMMA StaysPut ==
    ASSUME NEW l \in LaneShape, NEW m, Alike(l, m) PROVE Stays(l, Out(m, "none"))
BY DEF Stays, Out

LEMMA StaysSame ==
    ASSUME NEW l \in LaneShape PROVE Stays(l, Out(l, "none"))
BY AlikeSelf, StaysPut

LEMMA HolsteredSaleSettles ==
    ASSUME NEW l, LaneOK(l), InSale(l) PROVE Settles(l, HolsteredSale(l))
<1>1. /\ l \in LaneShape /\ l.volume \in Nat
      /\ l.volume = 0 => l.status \notin {"Delivering", "Done"}
  BY LaneCases DEF InSale
<1>2. CASE l.volume = 0
  <2>1. HolsteredSale(l) = IF (l.echo /\ l.status = "Authorizing") \/ HoseUp(l)
                           THEN Out(l, "none") ELSE GhostFill(l)
    BY <1>2 DEF HolsteredSale
  <2> QED BY <1>1, <1>2, <2>1, StaysSame, GhostFillIdles DEF Settles
<1>3. CASE l.volume > 0 /\ EndsEarly(l)
  <2>1. HolsteredSale(l) = EndEarly(l)
    BY <1>3 DEF HolsteredSale
  <2> QED BY <1>1, <1>3, <2>1, EndEarlyEnds DEF Settles
<1>4. CASE l.volume > 0 /\ ~EndsEarly(l) /\ l.holster
  <2>1. HolsteredSale(l) = CompleteSale(l)
    BY <1>4 DEF HolsteredSale
  <2> QED BY <1>1, <1>4, <2>1, CompleteSaleEnds DEF Settles
<1>5. CASE l.volume > 0 /\ ~EndsEarly(l) /\ ~l.holster
  <2>1. HolsteredSale(l) = Out([l EXCEPT !.holster = TRUE], "none")
    BY <1>5 DEF HolsteredSale
  <2>2. Alike(l, [l EXCEPT !.holster = TRUE])
    BY <1>1 DEF Alike, LaneShape
  <2> QED BY <1>1, <2>1, <2>2, StaysPut DEF Settles
<1> QED BY <1>1, <1>2, <1>3, <1>4, <1>5

LEMMA HolsteredOrderSettles ==
    ASSUME NEW l \in LaneShape, l.status = "PreAuthorized" PROVE Settles(l, HolsteredOrder(l))
<1>1. CASE l.confirmed
  <2>1. HolsteredOrder(l) = Out(Cancelled(l), "stop")
    BY <1>1 DEF HolsteredOrder
  <2> QED BY <2>1, CancelledIdle DEF Settles, Idles, Out
<1>2. CASE ~l.confirmed /\ l.wire
  <2>1. HolsteredOrder(l) = Out(l, "none")
    BY <1>2 DEF HolsteredOrder
  <2> QED BY <2>1, StaysSame DEF Settles
<1>3. CASE ~l.confirmed /\ ~l.wire
  <2>1. HolsteredOrder(l) = Out(ZeroCancelled(l), "stop")
    BY <1>3 DEF HolsteredOrder
  <2> QED BY <2>1, ZeroCancelledIdle DEF Settles, Idles, Out
<1> QED BY <1>1, <1>2, <1>3

LEMMA NozzleHolsteredSettles ==
    ASSUME NEW l, LaneOK(l)
    PROVE  /\ Settles(l, NozzleHolstered(l))
           /\ l.ghost => Stays(l, NozzleHolstered(l))
<1> l \in LaneShape /\ l.decel = None
  BY LaneCases
<1>1. CASE l.ghost
  <2>1. NozzleHolstered(l) = Out(l, "none")
    BY <1>1 DEF NozzleHolstered
  <2> QED BY <2>1, StaysSame DEF Settles
<1>2. CASE ~l.ghost /\ InSale(l)
  <2>1. NozzleHolstered(l) = HolsteredSale(l)
    BY <1>2 DEF NozzleHolstered, InSale
  <2> QED BY <1>2, <2>1, HolsteredSaleSettles
<1>3. CASE ~l.ghost /\ l.status = "PreAuthorized"
  <2>1. NozzleHolstered(l) = HolsteredOrder(l)
    BY <1>3 DEF NozzleHolstered, InSale
  <2> QED BY <1>3, <2>1, HolsteredOrderSettles
<1>4. CASE ~l.ghost /\ l.status = "Done"
  <2>1. NozzleHolstered(l) = Out(l, "none")
    BY <1>4 DEF NozzleHolstered, InSale
  <2> QED BY <1>4, <2>1, StaysSame DEF Settles
<1>5. CASE ~l.ghost /\ l.status \in {"Idle", "Offline", "NozzleUp"}
  <2>1. NozzleHolstered(l) = Out(Reset(l), "none")
    BY <1>5 DEF NozzleHolstered, InSale
  <2> QED BY <1>5, <2>1, ResetIdle DEF Settles, Idles, Out
<1> QED BY <1>1, <1>2, <1>3, <1>4, <1>5, LaneCases DEF InSale

----------------------------------------------------------------------------
(* The frames. *)

Settled(l, o) == Settles(l, o) \/ Wakes(l, o) \/ Configs(l, o)

(* An idle frame drops no order that is armed. *)
LEMMA IdleResponseSettled ==
    ASSUME NEW l, LaneOK(l)
    PROVE  /\ Settled(l, IdleResponse(l))
           /\ l.status = "Authorizing" /\ SessionArmed(l) => ~Idles(l, IdleResponse(l))
           /\ l.status = "NozzleUp" => Stays(l, IdleResponse(l))
<1> /\ l \in LaneShape /\ l.decel = None /\ l.stopped = None /\ l.status # "Stopped"
  BY LaneCases DEF LaneOK
<1>1. CASE l.status = "Offline"
  <2> DEFINE m == [l EXCEPT !.status = "Idle", !.armed = FALSE, !.cancelled = FALSE]
  <2>1. IdleResponse(l) = Out(m, "none")
    BY <1>1 DEF IdleResponse
  <2>2. /\ m \in LaneShape /\ m.status = "Idle" /\ m.volume = l.volume /\ m.fill = l.fill
        /\ m.pre = l.pre /\ m.sale = l.sale /\ m.wire = l.wire /\ m.repeat = l.repeat
        /\ ~m.armed /\ m.session = l.session
    BY Codes, ZenonT(60) DEF LaneShape
  <2>3. Wakes(l, Out(m, "none"))
    <3> HIDE DEF m
    <3> QED BY <1>1, <2>2 DEF Wakes, Out, OwnsMeterData, SessionArmed
  <2> QED BY <1>1, <2>1, <2>3 DEF Settled
<1>2. CASE l.status = "Idle"
  <2>1. IdleResponse(l) = Out([l EXCEPT !.cancelled = FALSE], "none")
    BY <1>2 DEF IdleResponse
  <2>2. Alike(l, [l EXCEPT !.cancelled = FALSE])
    BY ZenonT(60) DEF Alike, LaneShape
  <2> QED BY <1>2, <2>1, <2>2, StaysPut DEF Settled, Settles
<1>3. CASE l.status = "Authorizing"
  <2>1. IdleResponse(l) = IdleAuthorizing(l) /\ l.volume = 0
    BY <1>3, LaneCases DEF IdleResponse, InSale
  <2>2. CASE l.repeat
    <3> DEFINE m == [l EXCEPT !.repeat = FALSE, !.wire = TRUE]
    <3>1. IdleResponse(l) = Out(m, "config")
      BY <2>1, <2>2 DEF IdleAuthorizing
    <3>2. /\ m \in LaneShape /\ m.status = l.status /\ m.volume = l.volume /\ m.fill = l.fill
          /\ m.repeat = FALSE /\ m.wire = TRUE
      BY DEF LaneShape
    <3>3. Configs(l, Out(m, "config"))
      <4> HIDE DEF m
      <4> QED BY <1>3, <2>2, <3>2 DEF Configs, Out
    <3>4. Out(m, "config").do = "config"
      BY DEF Out
    <3> QED BY <1>3, <3>1, <3>3, <3>4 DEF Settled, Idles
  <2>3. CASE ~l.repeat
    <3>1. IdleResponse(l) =
             IF HoseUp(l) \/ SessionArmed(l) \/ ~l.sale THEN Out(l, "none") ELSE GhostFill(l)
      BY <2>1, <2>3 DEF IdleAuthorizing
    <3>2. CASE HoseUp(l) \/ SessionArmed(l) \/ ~l.sale
      <4>1. ~IdleLane(l)
        BY <1>3 DEF IdleLane
      <4> QED BY <1>3, <3>1, <3>2, <4>1, StaysSame DEF Settled, Settles, Idles, Out
    <3>3. CASE ~(HoseUp(l) \/ SessionArmed(l) \/ ~l.sale)
      BY <1>3, <3>1, <3>3, GhostFillIdles DEF Settled, Settles
    <3> QED BY <3>2, <3>3
  <2> QED BY <2>2, <2>3
<1>4. CASE l.status = "Delivering"
  <2>1. IdleResponse(l) = IdleDelivering(l) /\ l.volume # 0 /\ l.volume \in Nat
    BY <1>4, LaneCases DEF IdleResponse, InSale
  <2>2. IdleResponse(l) \in {Out(l, "none"), EndEarly(l), CompleteSale(l)}
    BY <2>1 DEF IdleDelivering
  <2> QED BY <1>4, <2>1, <2>2, StaysSame, EndEarlyEnds, CompleteSaleEnds
          DEF Settled, Settles, InSale
<1>5. CASE l.status \in {"NozzleUp", "PreAuthorized", "Done"}
  <2>1. IdleResponse(l) = Out(l, "none")
    BY <1>5 DEF IdleResponse, InSale
  <2> QED BY <1>5, <2>1, StaysSame DEF Settled, Settles
<1> QED BY <1>1, <1>2, <1>3, <1>4, <1>5, LaneCases

LEMMA AlikeLaneOK ==
    ASSUME NEW l, NEW m, LaneOK(l), Alike(l, m) PROVE LaneOK(m)
BY DEF LaneOK, Alike

LEMMA AlikeOwns ==
    ASSUME NEW l, NEW m, Alike(l, m) PROVE OwnsMeterData(l) = OwnsMeterData(m)
BY DEF Alike, OwnsMeterData, SessionArmed

LEMMA AlikeSettled ==
    ASSUME NEW l, NEW m, NEW o, Alike(l, m)
    PROVE  /\ Stays(m, o) => Stays(l, o)
           /\ Settles(m, o) => Settles(l, o)
           /\ Settled(m, o) => Settled(l, o)
           /\ Idles(l, o) = Idles(m, o)
<1>1. Stays(m, o) => Stays(l, o)
  BY DEF Stays, Alike
<1>2. Idles(l, o) = Idles(m, o)
  BY DEF Idles, Alike
<1>3. Ends(m, o) => Ends(l, o)
  BY DEF Ends, Alike, InSale
<1>4. Wakes(m, o) => Wakes(l, o)
  <2>1. OwnsMeterData(l) = OwnsMeterData(m)
    BY AlikeOwns
  <2> QED BY <2>1 DEF Wakes, Alike
<1>5. Configs(m, o) => Configs(l, o)
  BY DEF Configs, Alike
<1> QED BY <1>1, <1>2, <1>3, <1>4, <1>5 DEF Settles, Settled

LEMMA HolsterFrameSettled ==
    ASSUME NEW l, LaneOK(l) PROVE Settled(l, HolsterFrame(l))
<1> DEFINE m == [l EXCEPT !.upStop = FALSE]
<1>0. l \in LaneShape
  BY LaneCases
<1>1. Alike(l, m)
  BY <1>0, ZenonT(60) DEF Alike, LaneShape
<1>2. LaneOK(m) /\ m \in LaneShape
  BY <1>1, AlikeLaneOK DEF Alike
<1> SUFFICES Settled(m, HolsterFrame(l))
  BY <1>1, AlikeSettled
<1>3. HolsterFrame(l) =
        CASE InSale(m) /\ m.volume = 0 ->
                 IF (m.echo /\ m.status = "Authorizing") \/ HoseUp(m)
                 THEN Out(m, "none") ELSE GhostFill(m)
          [] InSale(m) /\ m.volume > 0  -> NozzleHolstered(m)
          [] m.status = "PreAuthorized" -> HolsteredOrder(m)
          [] OTHER                      -> IdleResponse(m)
  BY DEF HolsterFrame
<1> HIDE DEF m
<1>4. CASE InSale(m) /\ m.volume = 0
  <2>1. HolsterFrame(l) \in {Out(m, "none"), GhostFill(m)}
    BY <1>3, <1>4 DEF InSale
  <2>2. m.status \notin {"Delivering", "Done"}
    BY <1>2, <1>4, LaneCases DEF InSale
  <2> QED BY <1>2, <2>1, <2>2, StaysSame, GhostFillIdles DEF Settled, Settles
<1>5. CASE InSale(m) /\ m.volume # 0
  <2>1. HolsterFrame(l) = NozzleHolstered(m)
    BY <1>2, <1>3, <1>5, LaneCases DEF InSale
  <2> QED BY <1>2, <2>1, NozzleHolsteredSettles DEF Settled
<1>6. CASE m.status = "PreAuthorized"
  <2>1. HolsterFrame(l) = HolsteredOrder(m)
    BY <1>3, <1>6 DEF InSale
  <2> QED BY <1>2, <1>6, <2>1, HolsteredOrderSettles DEF Settled
<1>7. CASE ~InSale(m) /\ m.status # "PreAuthorized"
  <2>1. HolsterFrame(l) = IdleResponse(m)
    BY <1>3, <1>7
  <2> QED BY <1>2, <2>1, IdleResponseSettled
<1> QED BY <1>4, <1>5, <1>6, <1>7

LEMMA DrySaleSettles ==
    ASSUME NEW l, LaneOK(l), l.volume = 0, l.status # "Done" PROVE Settles(l, DrySale(l))
<1>1. l \in LaneShape /\ l.status \notin {"Delivering", "Done"}
  BY LaneCases
<1>2. DrySale(l) \in {Out(l, "none"), GhostFill(l)}
  BY DEF DrySale
<1> QED BY <1>1, <1>2, StaysSame, GhostFillIdles DEF Settles

LEMMA DoneResponseSettles ==
    ASSUME NEW l, LaneOK(l) PROVE Settles(l, DoneResponse(l))
<1> l \in LaneShape /\ l.volume \in Nat
  BY LaneCases
<1>1. CASE InSale(l) /\ l.volume = 0
  <2>1. DoneResponse(l) = DrySale(l)
    BY <1>1 DEF DoneResponse, InSale
  <2> QED BY <1>1, <2>1, DrySaleSettles DEF InSale
<1>2. CASE InSale(l) /\ l.volume # 0 /\ (HoseUp(l) \/ ~l.holster)
  <2>1. DoneResponse(l) = Out(l, "none")
    BY <1>2 DEF DoneResponse, InSale
  <2> QED BY <2>1, StaysSame DEF Settles
<1>3. CASE InSale(l) /\ l.volume # 0 /\ ~HoseUp(l) /\ l.holster
  <2> DEFINE m == [l EXCEPT !.holster = FALSE]
  <2>1. Alike(l, m)
    BY ZenonT(60) DEF Alike, LaneShape
  <2>2. m \in LaneShape /\ InSale(m) /\ m.volume # 0
    BY <1>3, <2>1 DEF Alike, InSale
  <2>3. DoneResponse(l) = IF EndsEarly(m) THEN EndEarly(m) ELSE CompleteSale(m)
    BY <1>3 DEF DoneResponse, InSale
  <2> HIDE DEF m
  <2>4. Ends(m, DoneResponse(l))
    BY <2>2, <2>3, EndEarlyEnds, CompleteSaleEnds
  <2> QED BY <2>1, <2>4, AlikeSettled DEF Settles
<1>4. CASE ~InSale(l) /\ l.status \in {"Idle", "NozzleUp"} /\ l.volume = 0 /\ ~l.ghost
  <2>1. DoneResponse(l) = Out(Reset(l), "none")
    BY <1>4 DEF DoneResponse, InSale
  <2> QED BY <1>4, <2>1, ResetIdle DEF Settles, Idles, Out
<1>5. CASE ~InSale(l) /\ ~(l.status \in {"Idle", "NozzleUp"} /\ l.volume = 0 /\ ~l.ghost)
  <2>1. DoneResponse(l) = Out(l, "none")
    BY <1>5 DEF DoneResponse, InSale
  <2> QED BY <2>1, StaysSame DEF Settles
<1> QED BY <1>1, <1>2, <1>3, <1>4, <1>5

LEMMA DispenserIdleSettles ==
    ASSUME NEW l, LaneOK(l) PROVE Settles(l, DispenserIdle(l))
<1> l \in LaneShape /\ l.volume \in Nat /\ l.decel = None
  BY LaneCases
<1> DEFINE live == InSale(l) \/ l.status = "NozzleUp"
<1>1. CASE live /\ l.volume = 0
  <2>1. DispenserIdle(l) = DrySale(l)
    BY <1>1 DEF DispenserIdle, InSale
  <2> QED BY <1>1, <2>1, DrySaleSettles DEF InSale
<1>2. CASE live /\ l.volume # 0 /\ HoseUp(l)
  <2>1. DispenserIdle(l) = Out([l EXCEPT !.complete = TRUE], "none")
    BY <1>2 DEF DispenserIdle, InSale
  <2>2. Alike(l, [l EXCEPT !.complete = TRUE])
    BY ZenonT(60) DEF Alike, LaneShape
  <2> QED BY <2>1, <2>2, StaysPut DEF Settles
<1>3. CASE l.status \in {"Idle", "PreAuthorized"}
  <2>1. DispenserIdle(l) = Out(IF l.ghost THEN l ELSE Reset(l), "none")
    BY <1>3 DEF DispenserIdle, InSale
  <2>2. DispenserIdle(l) \in {Out(l, "none"), Out(Reset(l), "none")}
    BY <2>1
  <2>3. Idles(l, Out(Reset(l), "none"))
    BY <1>3, ResetIdle DEF Idles, Out
  <2> QED BY <2>2, <2>3, StaysSame DEF Settles
<1>4. CASE ~(live /\ (l.volume = 0 \/ HoseUp(l))) /\ l.status \notin {"Idle", "PreAuthorized"}
  <2>1. DispenserIdle(l) = DoneResponse(l)
    BY <1>4 DEF DispenserIdle, InSale
  <2> QED BY <2>1, DoneResponseSettles
<1> QED BY <1>1, <1>2, <1>3, <1>4

(* A lift leaves a sale alone, takes back an order for another hose, and is a  *)
(* new customer otherwise.                                                     *)
Lifts(l, o) ==
    /\ ~InSale(l)
    /\ o.lane \in LaneShape /\ o.lane.status = "NozzleUp" /\ o.lane.pre = l.pre
    /\ o.lane.volume = 0 /\ o.lane.fill = 0
    /\ o.do = "none" /\ o.row = NoRow

LEMMA ZeroedShape ==
    ASSUME NEW l \in LaneShape
    PROVE  /\ Zeroed(l) \in LaneShape /\ Zeroed(l).volume = 0 /\ Zeroed(l).fill = 0
           /\ Zeroed(l).status = l.status /\ Zeroed(l).pre = l.pre
BY Codes DEF Zeroed, LaneShape

LEMMA UpShape ==
    ASSUME NEW l \in LaneShape, NEW h \in Nozzle
    PROVE  /\ [l EXCEPT !.hose = "up"] \in LaneShape
           /\ [l EXCEPT !.ghost = FALSE] \in LaneShape
           /\ [l EXCEPT !.latch = FALSE, !.status = "NozzleUp", !.nozzle = h] \in LaneShape
           /\ [l EXCEPT !.confirmed = TRUE, !.status = "NozzleUp"] \in LaneShape
           /\ [l EXCEPT !.status = "NozzleUp", !.nozzle = h] \in LaneShape
<1>1. [l EXCEPT !.hose = "up"] \in LaneShape
  BY DEF LaneShape
<1>2. [l EXCEPT !.ghost = FALSE] \in LaneShape
  BY DEF LaneShape
<1>3. [l EXCEPT !.latch = FALSE, !.status = "NozzleUp", !.nozzle = h] \in LaneShape
  BY Codes, ZenonT(60) DEF LaneShape
<1>4. [l EXCEPT !.confirmed = TRUE, !.status = "NozzleUp"] \in LaneShape
  BY Codes DEF LaneShape
<1>5. [l EXCEPT !.status = "NozzleUp", !.nozzle = h] \in LaneShape
  BY Codes DEF LaneShape
<1> QED BY <1>1, <1>2, <1>3, <1>4, <1>5

LEMMA UpLifts ==
    ASSUME NEW l, ~InSale(l), NEW k \in LaneShape, k.pre = l.pre, NEW h \in Nozzle
    PROVE  LET z == Zeroed(k)
           IN  /\ Lifts(l, Out([z EXCEPT !.latch = FALSE, !.status = "NozzleUp", !.nozzle = h],
                               "none"))
               /\ Lifts(l, Out([z EXCEPT !.confirmed = TRUE, !.status = "NozzleUp"], "none"))
               /\ Lifts(l, Out([z EXCEPT !.status = "NozzleUp", !.nozzle = h], "none"))
<1> DEFINE z == Zeroed(k)
<1>1. z \in LaneShape /\ z.volume = 0 /\ z.fill = 0 /\ z.pre = l.pre
  BY ZeroedShape
<1> HIDE DEF z
<1>2. /\ [z EXCEPT !.latch = FALSE, !.status = "NozzleUp", !.nozzle = h] \in LaneShape
      /\ [z EXCEPT !.confirmed = TRUE, !.status = "NozzleUp"] \in LaneShape
      /\ [z EXCEPT !.status = "NozzleUp", !.nozzle = h] \in LaneShape
  BY <1>1, UpShape
<1>3. ASSUME NEW m \in LaneShape, m.status = "NozzleUp", m.pre = z.pre, m.volume = z.volume,
             m.fill = z.fill
      PROVE  Lifts(l, Out(m, "none"))
  BY <1>1, <1>3 DEF Lifts, Out
<1>4. Lifts(l, Out([z EXCEPT !.latch = FALSE, !.status = "NozzleUp", !.nozzle = h], "none"))
  <2> DEFINE m == [z EXCEPT !.latch = FALSE, !.status = "NozzleUp", !.nozzle = h]
  <2>1. m.status = "NozzleUp" /\ m.pre = z.pre /\ m.volume = z.volume /\ m.fill = z.fill
    BY <1>1 DEF LaneShape
  <2> HIDE DEF m
  <2> QED BY <1>2, <1>3, <2>1 DEF m
<1>5. Lifts(l, Out([z EXCEPT !.confirmed = TRUE, !.status = "NozzleUp"], "none"))
  <2> DEFINE m == [z EXCEPT !.confirmed = TRUE, !.status = "NozzleUp"]
  <2>1. m.status = "NozzleUp" /\ m.pre = z.pre /\ m.volume = z.volume /\ m.fill = z.fill
    BY <1>1 DEF LaneShape
  <2> QED BY <1>2, <1>3, <2>1
<1>6. Lifts(l, Out([z EXCEPT !.status = "NozzleUp", !.nozzle = h], "none"))
  <2> DEFINE m == [z EXCEPT !.status = "NozzleUp", !.nozzle = h]
  <2>1. m.status = "NozzleUp" /\ m.pre = z.pre /\ m.volume = z.volume /\ m.fill = z.fill
    BY <1>1 DEF LaneShape
  <2> QED BY ZenonT(60), <1>2, <1>3, <2>1
<1> QED BY <1>4, <1>5, <1>6 DEF z

LEMMA LiftFrameLifts ==
    ASSUME NEW l, LaneOK(l), NEW h \in Nozzle
    PROVE  \/ InSale(l) /\ Stays(l, LiftFrame(l, h))
           \/ Lifts(l, LiftFrame(l, h))
           \/ /\ l.status \in {"NozzleUp", "PreAuthorized"} /\ l.pre # None
              /\ Idles(l, LiftFrame(l, h)) /\ ~LiftFrame(l, h).lane.confirmed
<1> DEFINE k == [l EXCEPT !.hose = "up"]
           u == [k EXCEPT !.ghost = FALSE]
           new == [Zeroed(k) EXCEPT !.latch = FALSE, !.status = "NozzleUp", !.nozzle = h]
<1>0. l \in LaneShape
  BY LaneCases
<1>a. k \in LaneShape
  BY <1>0, UpShape
<1>b. u \in LaneShape
  <2> HIDE DEF k
  <2> QED BY <1>a, UpShape
<1>c. /\ k.status = l.status /\ k.pre = l.pre /\ u.status = l.status /\ u.pre = l.pre
      /\ u.volume = l.volume /\ u.fill = l.fill /\ u.sale = l.sale /\ u.wire = l.wire
      /\ u.repeat = l.repeat /\ u.armed = l.armed /\ u.session = l.session
  BY <1>0 DEF LaneShape
<1>d. LiftFrame(l, h) =
        CASE k.status = "Done" -> Out(new, "none")
          [] InSale(k) -> Out(u, "none")
          [] k.status # "Done" /\ ~InSale(k) /\ u.pre \notin {None, h} -> Mismatch(u)
          [] k.status # "Done" /\ ~InSale(k) /\ u.pre = h ->
                 Out([Zeroed(u) EXCEPT !.confirmed = TRUE, !.status = "NozzleUp"], "none")
          [] OTHER ->
                 IF u.stopped # None
                 THEN Out([u EXCEPT !.status = "Stopped", !.volume = u.stopped.volume,
                                    !.fill = u.stopped.fill], "none")
                 ELSE Out([Zeroed(u) EXCEPT !.status = "NozzleUp", !.nozzle = h], "none")
  BY DEF LiftFrame
<1> HIDE DEF k, u
<1>e. InSale(k) = InSale(l) /\ u.stopped = None
  BY <1>b, <1>c, SMTT(30) DEF InSale, LaneShape
<1>2. CASE l.status = "Done"
  <2>1. LiftFrame(l, h) = Out(new, "none")
    BY <1>2, <1>c, <1>d DEF InSale
  <2> QED BY <1>2, <1>a, <1>c, <2>1, UpLifts DEF InSale
<1>3. CASE InSale(l)
  <2>1. LiftFrame(l, h) = Out(u, "none")
    BY <1>3, <1>c, <1>d, <1>e DEF InSale
  <2>2. Alike(l, u)
    BY <1>3, <1>b, <1>c DEF Alike, InSale
  <2> QED BY <1>0, <1>3, <2>1, <2>2, StaysPut
<1>4. CASE l.status # "Done" /\ ~InSale(l) /\ l.pre \notin {None, h}
  <2>1. LiftFrame(l, h) = Mismatch(u)
    BY <1>4, <1>c, <1>d, <1>e
  <2>2. /\ IdleLane(Mismatch(u).lane) /\ ~Mismatch(u).lane.confirmed
        /\ Mismatch(u).do = "stop" /\ Mismatch(u).row = NoRow
    BY <1>b, MismatchIdle
  <2>3. l.status \in {"NozzleUp", "PreAuthorized"}
    BY <1>4, LaneCases, SMTT(30) DEF InSale
  <2> QED BY <1>4, <2>1, <2>2, <2>3 DEF Idles
<1>5. CASE l.status # "Done" /\ ~InSale(l) /\ l.pre \in {None, h}
  <2>1. LiftFrame(l, h)
          \in {Out([Zeroed(u) EXCEPT !.confirmed = TRUE, !.status = "NozzleUp"], "none"),
               Out([Zeroed(u) EXCEPT !.status = "NozzleUp", !.nozzle = h], "none")}
    BY <1>5, <1>c, <1>d, <1>e
  <2> QED BY <1>5, <1>b, <1>c, <2>1, UpLifts
<1> QED BY <1>2, <1>3, <1>4, <1>5

----------------------------------------------------------------------------
(* What a frame did is sound. *)

Kept(l, o) ==
    l.status = "Delivering" /\ l.volume > 1 =>
        \/ o.lane.status = "Delivering" /\ o.lane.fill = l.fill /\ o.lane.volume > 1
        \/ o.row.fill = l.fill

Good(l, p, g, o) ==
    Sound(o.lane, p, g, o.row) /\ DoOK(o.lane, o.do, o.row) /\ Kept(l, o)

Scene(l, p, g) == Sound(l, p, g, NoRow) /\ PumpOK(p, g) /\ BookOK

LEMMA StaysGood ==
    ASSUME NEW l, NEW p, NEW g, Scene(l, p, g), NEW o, Stays(l, o)
    PROVE  Good(l, p, g, o)
<1>1. Alike(l, o.lane) /\ o.do = "none" /\ o.row = NoRow /\ LaneOK(l)
  BY DEF Stays, Scene, Sound
<1>2. LaneOK(o.lane)
  BY <1>1, AlikeLaneOK
<1>3. ArmOK(o.lane, p)
  BY <1>1 DEF Scene, Sound, ArmOK, Alike
<1>4. OwnOK(o.lane, p)
  BY <1>1, AlikeOwns DEF Scene, Sound, OwnOK, Alike
<1>5. WaitOK(o.lane, p, queue)
  BY <1>1 DEF Scene, Sound, WaitOK, Alike
<1>6. ReadOK(o.lane, p, g, o.row)
  BY <1>1 DEF Scene, Sound, ReadOK, Alike
<1>7. Kept(l, o)
  BY <1>1 DEF Kept, Alike
<1> QED BY <1>1, <1>2, <1>3, <1>4, <1>5, <1>6, <1>7 DEF Good, Sound, DoOK

LEMMA IdlesGood ==
    ASSUME NEW l, NEW p, NEW g, Scene(l, p, g), NEW o, Idles(l, o), ~Armed(p)
    PROVE  Good(l, p, g, o)
<1>1. LaneOK(o.lane)
  BY Codes DEF Idles, IdleLane, LaneOK, Scene, BookOK
<1>2. ReadOK(o.lane, p, g, o.row)
  BY DEF Idles, IdleLane, Scene, Sound, ReadOK, NoRow
<1>3. WaitOK(o.lane, p, queue)
  BY DEF Idles, IdleLane, WaitOK
<1> QED BY <1>1, <1>2, <1>3 DEF Good, Sound, Idles, IdleLane, DoOK, ArmOK, OwnOK, Kept

LEMMA EndsGood ==
    ASSUME NEW l, NEW p, NEW g, Scene(l, p, g), NEW o, Ends(l, o), l.status = "Delivering"
    PROVE  Good(l, p, g, o)
<1>1. LaneOK(l) /\ o.lane.status = "Done" /\ l.volume # 0 /\ l.fill # 0
  BY LaneCases DEF Ends, Scene, Sound
<1>2. LaneOK(o.lane)
  BY <1>1 DEF Ends, LaneOK
<1>3. ArmOK(o.lane, p)
  BY <1>1 DEF Scene, Sound, ArmOK
<1>4. ~Waits(queue)
  BY DEF Scene, Sound, WaitOK
<1>5. RowOK(o.row)
  <2>1. o.row.fill \in Fill /\ o.row.fill <= fills
    BY <1>1, Codes DEF Ends, LaneOK, LaneShape, Fill
  <2>2. o.row.volume \in Volume
    BY <1>1 DEF Ends, LaneOK, LaneShape
  <2>3. book[o.row.fill] = <<>>
    BY DEF Ends, Scene, Sound, ReadOK
  <2> QED BY <2>1, <2>2, <2>3 DEF Ends, RowOK
<1>6. o.do = "done" /\ o.row.fill = l.fill
  BY DEF Ends
<1> QED BY <1>1, <1>2, <1>3, <1>4, <1>5, <1>6 DEF Good, Sound, DoOK, OwnOK, WaitOK, ReadOK, Kept

LEMMA MetersSound ==
    ASSUME NEW l, NEW p, NEW g, Scene(l, p, g), l.status \notin {"Idle", "Offline", "Done"},
           p.volume # 0, NEW m \in LaneShape, m.status = "Delivering", m.sale,
           m.volume = p.volume, m.fill = g
    PROVE  /\ Scene(m, p, g)
           /\ l.status = "Delivering" => l.fill = g /\ l.volume <= m.volume
<1>1. p.status \in {"NozzleDown", "Delivering", "Done"} /\ g # 0
  BY DEF Scene, PumpOK, PumpState
<1>2. LaneOK(m)
  BY <1>1 DEF LaneOK, Scene, PumpOK
<1>3. ArmOK(m, p)
  BY <1>1 DEF ArmOK, Armed
<1>4. ~Waits(queue)
  BY DEF Scene, Sound, WaitOK
<1>5. ReadOK(m, p, g, NoRow)
  <2>1. p.volume <= p.volume
    BY DEF Scene, PumpOK, PumpState, Volume
  <2> QED BY <1>1, <2>1 DEF Scene, Sound, ReadOK, NoRow
<1>6. l.status = "Delivering" => l.fill = g /\ l.volume <= m.volume
  BY <1>1 DEF Scene, Sound, ReadOK
<1> QED BY <1>2, <1>3, <1>4, <1>5, <1>6 DEF Scene, Sound, OwnOK, WaitOK

(* What may follow on a reading in the same frame. *)
LEMMA MetersGood ==
    ASSUME NEW l, NEW p, NEW g, Scene(l, p, g), l.status \notin {"Idle", "Offline", "Done"},
           p.volume # 0, NEW m \in LaneShape, m.status = "Delivering", m.sale,
           m.volume = p.volume, m.fill = g, NEW o, Stays(m, o) \/ Ends(m, o)
    PROVE  Good(l, p, g, o)
<1>1. Scene(m, p, g) /\ (l.status = "Delivering" => l.fill = g /\ l.volume <= m.volume)
  BY MetersSound
<1>2. Good(m, p, g, o)
  BY <1>1, StaysGood, EndsGood
<1>3. Kept(l, o)
  <2> SUFFICES ASSUME l.status = "Delivering", l.volume > 1
               PROVE  \/ o.lane.status = "Delivering" /\ o.lane.fill = g /\ o.lane.volume > 1
                      \/ o.row.fill = g
    BY <1>1 DEF Kept
  <2>1. m.volume > 1
    <3>1. l.volume \in Nat /\ m.volume \in Nat
      BY LaneCases DEF Scene, Sound, LaneShape, Volume
    <3> QED BY <1>1, <3>1
  <2> QED BY <1>2, <2>1 DEF Good, Kept
<1> QED BY <1>2, <1>3 DEF Good

(* A sale that is armed, or will be. *)
LEMMA StartsSound ==
    ASSUME NEW l, NEW p, NEW g, Scene(l, p, g), l.status # "Done",
           NEW m \in LaneShape, m.status = "Authorizing", m.volume = 0, m.fill = 0,
           Armed(p) => m.wire, Waits(queue) => m.pre = None /\ p.volume = 0 /\ m.wire /\ ~m.repeat
    PROVE  Scene(m, p, g)
<1>1. LaneOK(m)
  BY DEF LaneOK, Scene, BookOK
<1>2. ArmOK(m, p) /\ OwnOK(m, p)
  BY DEF ArmOK, OwnOK
<1>3. WaitOK(m, p, queue)
  BY DEF WaitOK, Scene, Sound
<1>4. ReadOK(m, p, g, NoRow)
  BY DEF ReadOK, NoRow, Scene, Sound
<1> QED BY <1>1, <1>2, <1>3, <1>4 DEF Scene, Sound

LEMMA ConfigsGood ==
    ASSUME NEW l, NEW p, NEW g, Scene(l, p, g), NEW o, Configs(l, o)
    PROVE  Good(l, p, g, o)
<1>1. LaneOK(l) /\ l.volume = 0 /\ l.fill = 0
  BY LaneCases DEF Scene, Sound, Configs
<1>2. LaneOK(o.lane)
  BY <1>1 DEF LaneOK, Configs
<1>3. ~Waits(queue)
  BY DEF Scene, Sound, WaitOK, Configs
<1>4. ArmOK(o.lane, p)
  <2>1. o.lane.repeat \in BOOLEAN /\ o.lane.wire \in BOOLEAN
    BY DEF Configs, LaneShape
  <2> QED BY <2>1 DEF Scene, Sound, ArmOK, Configs
<1>5. ReadOK(o.lane, p, g, o.row)
  BY DEF ReadOK, NoRow, Scene, Sound, Configs
<1> QED BY <1>1, <1>2, <1>3, <1>4, <1>5 DEF Good, Sound, Configs, DoOK, OwnOK, WaitOK, Kept

LEMMA WakesGood ==
    ASSUME NEW l, NEW p, NEW g, Scene(l, p, g), NEW o, Wakes(l, o)
    PROVE  Good(l, p, g, o)
<1>1. LaneOK(l) /\ l.volume = 0 /\ l.fill = 0 /\ l.pre = None
  BY LaneCases DEF Scene, Sound, Wakes
<1>2. LaneOK(o.lane)
  BY <1>1 DEF LaneOK, Wakes
<1>3. ~Armed(p)
  BY DEF Scene, Sound, ArmOK, Wakes
<1>4. ReadOK(o.lane, p, g, o.row)
  BY DEF ReadOK, NoRow, Scene, Sound, Wakes
<1>5. OwnOK(o.lane, p)
  BY DEF OwnOK, Scene, Sound, Wakes
<1> QED BY <1>1, <1>2, <1>3, <1>4, <1>5 DEF Good, Sound, Wakes, DoOK, ArmOK, WaitOK, Kept

LEMMA LiftsSound ==
    ASSUME NEW l, NEW p, NEW g, Scene(l, p, g), NEW o, Lifts(l, o), p.status = "NozzleUp"
    PROVE  Good(l, p, g, o)
<1>1. p.volume = 0 /\ g = 0 /\ ~Armed(p)
  BY DEF Scene, Sound, ArmOK, PumpOK, Lifts, InSale
<1>2. LaneOK(o.lane)
  BY DEF LaneOK, Lifts, Scene, BookOK
<1>3. WaitOK(o.lane, p, queue)
  BY <1>1 DEF WaitOK, Lifts, Scene, Sound
<1> QED BY <1>1, <1>2, <1>3 DEF Good, Sound, Lifts, DoOK, ArmOK, OwnOK, ReadOK, Kept, InSale

----------------------------------------------------------------------------
(* The frames of a pump. *)

FrameOK(p, f) ==
    /\ f.kind \in {"Idle", "Holstered", "Returned", "NozzleUp", "DispenserIdle", "Complete", "Data"}
    /\ f.kind = "Idle" => p.status \in {"Idle", "Authorized", "NozzleUp", "Done"}
    /\ f.kind \in {"Holstered", "Returned"} => p.status = "NozzleDown"
    /\ f.kind = "NozzleUp" => p.status = "NozzleUp"
    /\ f.kind \in {"DispenserIdle", "Complete"} => p.status = "Done"
    /\ f.hose \in Nozzle

(* A meter frame is the register, and says that the sale is over when it is.   *)
ReadingOK(p, f) ==
    /\ p.status \in {"NozzleUp", "NozzleDown", "Delivering", "Done"}
    /\ f.volume = p.volume
    /\ f.ok \in BOOLEAN /\ f.tag \in {None, "up", "down"} /\ f.complete \in BOOLEAN
    /\ f.complete <=> p.status \in {"NozzleDown", "Done"}
    /\ p.status # "Delivering" => f.ok
    /\ p.status \in {"NozzleDown", "Done"} => p.volume # 0
    /\ p.status = "NozzleUp" => f.tag = None

LEMMA PlainFrame ==
    ASSUME NEW p, NEW k PROVE Plain(p, k).kind = k /\ Plain(p, k).hose = p.nozzle
BY DEF Plain

LEMMA ZeroFrame ==
    ASSUME NEW p
    PROVE  LET m == [Meter(p, None, TRUE, FALSE) EXCEPT !.volume = 0]
           IN  /\ m.kind = "Data" /\ m.hose = p.nozzle /\ m.volume = 0 /\ m.tag = None
               /\ m.ok = TRUE /\ m.complete = FALSE
BY DEF Meter, Plain

LEMMA PumpCases ==
    ASSUME NEW p, NEW g, PumpOK(p, g)
    PROVE  /\ p \in PumpState /\ p.nozzle \in Nozzle /\ p.volume \in Volume /\ p.volume \in Nat
           /\ p.limit \in Dose /\ p.fromIdle \in BOOLEAN /\ p.told \in BOOLEAN
           /\ p.status \in {"Idle", "NozzleUp", "NozzleDown", "Authorized", "Delivering", "Done"}
           /\ g \in Nat
<1>1. p \in PumpState /\ p.status # "Stopped" /\ g \in 0 .. fills
  BY DEF PumpOK
<1> QED BY <1>1 DEF PumpState, Volume

LEMMA ImageOfTwo ==
    ASSUME NEW p, NEW S, NEW T, NEW c, NEW f \in {Meter(p, s, t, c) : s \in S, t \in T}
    PROVE  \E s \in S, t \in T : f = Meter(p, s, t, c)
OBVIOUS

LEMMA FramesOK ==
    ASSUME NEW p, NEW g, PumpOK(p, g), NEW f \in Answers(p)
    PROVE  FrameOK(p, f) /\ (f.kind = "Data" => ReadingOK(p, f))
<1>0. /\ p.nozzle \in Nozzle /\ p.volume \in Nat
      /\ p.status \in {"Idle", "NozzleUp", "NozzleDown", "Authorized", "Delivering", "Done"}
  BY PumpCases
<1>1. CASE p.status \in {"Idle", "Authorized"}
  <2>1. f = Plain(p, "Idle")
    <3>1. CASE p.status = "Idle"
      BY <3>1, SMT DEF Answers
    <3>2. CASE p.status = "Authorized"
      BY <3>2, SMT DEF Answers
    <3> QED BY <1>1, <3>1, <3>2
  <2>2. f.kind = "Idle" /\ f.hose = p.nozzle
    BY <2>1, PlainFrame
  <2> QED BY <1>0, <1>1, <2>2 DEF FrameOK
<1>2. CASE p.status = "NozzleUp"
  <2>1. \/ f = Plain(p, "NozzleUp") \/ f = Plain(p, "Idle")
        \/ f = [Meter(p, None, TRUE, FALSE) EXCEPT !.volume = 0]
    <3>1. Answers(p) =
            {Plain(p, "NozzleUp"), Plain(p, "Idle")}
                \cup {[Meter(p, None, TRUE, FALSE) EXCEPT !.volume = 0] : t \in {TRUE} \cap {p.told}}
      BY <1>2, SMT DEF Answers
    <3> QED BY <3>1
  <2>2. CASE f = Plain(p, "NozzleUp") \/ f = Plain(p, "Idle")
    <3>1. f.kind \in {"NozzleUp", "Idle"} /\ f.hose = p.nozzle
      BY <2>2, PlainFrame
    <3> QED BY <1>0, <1>2, <3>1 DEF FrameOK
  <2>3. CASE f = [Meter(p, None, TRUE, FALSE) EXCEPT !.volume = 0]
    <3>1. /\ f.kind = "Data" /\ f.hose = p.nozzle /\ f.volume = 0 /\ f.tag = None
          /\ f.ok = TRUE /\ f.complete = FALSE
      BY <2>3, ZeroFrame
    <3>2. p.volume = 0
      BY <1>2 DEF PumpOK
    <3> QED BY <1>0, <1>2, <3>1, <3>2 DEF FrameOK, ReadingOK
  <2> QED BY <2>1, <2>2, <2>3
<1>3. CASE p.status = "NozzleDown"
  <2>1. \/ f = Plain(p, "Returned") \/ f = Plain(p, "Holstered")
        \/ p.volume > 0 /\ \E t \in {None, "down"} : f = Meter(p, t, TRUE, TRUE)
    <3>1. Answers(p) =
            {Plain(p, "Returned"), Plain(p, "Holstered")}
                \cup {Meter(p, t, TRUE, TRUE) : t \in IF p.volume > 0 THEN {None, "down"} ELSE {}}
      BY <1>3, SMT DEF Answers
    <3> QED BY <3>1
  <2>2. CASE f = Plain(p, "Returned") \/ f = Plain(p, "Holstered")
    <3>1. f.kind \in {"Returned", "Holstered"} /\ f.hose = p.nozzle
      BY <2>2, PlainFrame
    <3> QED BY <1>0, <1>3, <3>1 DEF FrameOK
  <2>3. ASSUME p.volume > 0, NEW t \in {None, "down"}, f = Meter(p, t, TRUE, TRUE)
        PROVE  FrameOK(p, f) /\ (f.kind = "Data" => ReadingOK(p, f))
    <3>1. /\ f.kind = "Data" /\ f.hose = p.nozzle /\ f.volume = p.volume /\ f.tag = t
          /\ f.ok = TRUE /\ f.complete = TRUE
      BY <2>3 DEF Meter, Plain
    <3>2. p.volume # 0 /\ t \in {None, "down"}
      BY <1>0, <2>3
    <3> QED BY <1>0, <1>3, <3>1, <3>2 DEF FrameOK, ReadingOK
  <2> QED BY <2>1, <2>2, <2>3
<1>4. CASE p.status = "Delivering"
  <2>1. \E t \in {None, "up", "down"}, b \in BOOLEAN : f = Meter(p, t, b, FALSE)
    <3> DEFINE S == {None, "up", "down"}
               T == BOOLEAN
               c == FALSE
    <3>1. Answers(p) = {Meter(p, t, b, FALSE) : t \in {None, "up", "down"}, b \in BOOLEAN}
      BY <1>4, SMT DEF Answers
    <3>2. Answers(p) = {Meter(p, t, b, c) : t \in S, b \in T}
      BY <3>1
    <3> HIDE DEF S, T, c
    <3>3. \E t \in S, b \in T : f = Meter(p, t, b, c)
      BY <3>2, ImageOfTwo
    <3> QED BY <3>3, Zenon DEF S, T, c
  <2>2. PICK t \in {None, "up", "down"}, b \in BOOLEAN : f = Meter(p, t, b, FALSE)
    BY <2>1
  <2>3. /\ f.kind = "Data" /\ f.hose = p.nozzle /\ f.volume = p.volume /\ f.tag = t
        /\ f.ok = b /\ f.complete = FALSE
    BY <2>2 DEF Meter, Plain
  <2> QED BY <1>0, <1>4, <2>3 DEF FrameOK, ReadingOK
<1>5. CASE p.status = "Done"
  <2>1. \/ \E t \in {None, "up"} : f = Meter(p, t, TRUE, TRUE)
        \/ \E k \in {"DispenserIdle", "Complete", "Idle"} : f = Plain(p, k)
    <3>1. Answers(p) =
            {Meter(p, t, TRUE, TRUE) : t \in {None, "up"}}
                \cup {Plain(p, k) : k \in {"DispenserIdle", "Complete", "Idle"}}
      BY <1>5, SMT DEF Answers
    <3> QED BY <3>1
  <2>2. ASSUME NEW k \in {"DispenserIdle", "Complete", "Idle"}, f = Plain(p, k)
        PROVE  FrameOK(p, f) /\ f.kind # "Data"
    <3>1. f.kind = k /\ f.hose = p.nozzle
      BY <2>2, PlainFrame
    <3> QED BY <1>0, <1>5, <3>1 DEF FrameOK
  <2>3. ASSUME NEW t \in {None, "up"}, f = Meter(p, t, TRUE, TRUE)
        PROVE  FrameOK(p, f) /\ ReadingOK(p, f)
    <3>1. /\ f.kind = "Data" /\ f.hose = p.nozzle /\ f.volume = p.volume /\ f.tag = t
          /\ f.ok = TRUE /\ f.complete = TRUE
      BY <2>3 DEF Meter, Plain
    <3>2. p.volume # 0
      BY <1>5 DEF PumpOK
    <3> QED BY <1>0, <1>5, <3>1, <3>2 DEF FrameOK, ReadingOK
  <2> QED BY <2>1, <2>2, <2>3
<1> QED BY <1>0, <1>1, <1>2, <1>3, <1>4, <1>5

----------------------------------------------------------------------------
(* Meter frames. *)

LEMMA AlikeScene ==
    ASSUME NEW l, NEW p, NEW g, Scene(l, p, g), NEW m, Alike(l, m)
    PROVE  /\ Scene(m, p, g)
           /\ \A o : Good(m, p, g, o) => Good(l, p, g, o)
<1>1. Stays(l, Out(m, "none"))
  BY StaysPut DEF Scene, Sound, LaneOK
<1>2. Good(l, p, g, Out(m, "none"))
  BY <1>1, StaysGood
<1>3. Scene(m, p, g)
  BY <1>2 DEF Good, Out, Scene
<1>4. \A o : Kept(m, o) => Kept(l, o)
  BY DEF Kept, Alike
<1> QED BY <1>3, <1>4 DEF Good

(* The sale that a reading makes of a lane. *)
Sale(m, p, g) ==
    m \in LaneShape /\ m.status = "Delivering" /\ m.sale /\ m.volume = p.volume /\ m.fill = g

LEMMA MeteredShape ==
    ASSUME NEW l \in LaneShape, NEW p, NEW g, PumpOK(p, g), BookOK
    PROVE  LET m == Metered(l, p.volume, g)
           IN  /\ m \in LaneShape /\ m.volume = p.volume /\ m.fill = g
               /\ m.status = l.status /\ m.sale = l.sale /\ m.pre = l.pre /\ m.wire = l.wire
               /\ m.repeat = l.repeat /\ m.armed = l.armed /\ m.session = l.session
               /\ m.ghost = l.ghost
<1>1. p.volume \in Volume /\ g \in 0 .. MaxFills /\ (p.volume = 0 <=> g = 0)
  BY Codes DEF PumpOK, PumpState, BookOK
<1>2. Metered(l, p.volume, g) = [l EXCEPT !.volume = p.volume, !.fill = g]
  BY <1>1 DEF Metered
<1> QED BY <1>1, <1>2, ZenonT(60) DEF LaneShape

LEMMA MeteredSale ==
    ASSUME NEW l \in LaneShape, NEW p, NEW g, PumpOK(p, g), BookOK
    PROVE  Sale([Metered(l, p.volume, g) EXCEPT !.status = "Delivering", !.sale = TRUE], p, g)
<1> DEFINE m == Metered(l, p.volume, g)
<1>1. m \in LaneShape /\ m.volume = p.volume /\ m.fill = g
  BY MeteredShape
<1> HIDE DEF m
<1> QED BY <1>1, Codes, ZenonT(60) DEF LaneShape, Sale, m

LEMMA GhostKeptShape ==
    ASSUME NEW l \in LaneShape
    PROVE  LET m == GhostKept(l)
           IN  m \in LaneShape /\ m.status = "NozzleUp" /\ m.pre = None /\ m.volume = 0
               /\ m.fill = 0 /\ m.ghost
<1> DEFINE z == Zeroed(l)
           a == [z EXCEPT !.status = "NozzleUp", !.cap = None, !.decel = None]
           b == [a EXCEPT !.cancelled = FALSE, !.sale = FALSE, !.pre = None, !.pending = FALSE]
           e == [b EXCEPT !.repeat = FALSE, !.wire = FALSE, !.session = FALSE, !.holster = FALSE]
           m == [e EXCEPT !.complete = FALSE, !.armed = FALSE, !.ghost = TRUE]
<1>1. z \in LaneShape /\ z.volume = 0 /\ z.fill = 0
  BY ZeroedShape
<1>2. GhostKept(l) = m
  BY DEF GhostKept
<1> HIDE DEF z
<1>a. a \in LaneShape
  BY <1>1, Codes, ZenonT(60) DEF LaneShape
<1>b. a.status = "NozzleUp" /\ a.volume = 0 /\ a.fill = 0
  BY <1>1 DEF LaneShape
<1> HIDE DEF a
<1>c. b \in LaneShape
  BY <1>a, ZenonT(60) DEF LaneShape
<1>d. b.status = "NozzleUp" /\ b.volume = 0 /\ b.fill = 0 /\ b.pre = None
  BY <1>a, <1>b DEF LaneShape
<1> HIDE DEF b
<1>e. e \in LaneShape
  BY <1>c, ZenonT(60) DEF LaneShape
<1>f. e.status = "NozzleUp" /\ e.volume = 0 /\ e.fill = 0 /\ e.pre = None
  BY <1>c, <1>d DEF LaneShape
<1> HIDE DEF e
<1>3. m \in LaneShape
  BY <1>e, ZenonT(60) DEF LaneShape
<1>4. m.status = "NozzleUp" /\ m.volume = 0 /\ m.fill = 0 /\ m.pre = None /\ m.ghost
  BY <1>e, <1>f DEF LaneShape
<1> QED BY <1>2, <1>3, <1>4

(* A ghost pulse is dropped before it is a sale. *)
LEMMA GhostKeptGood ==
    ASSUME NEW l, NEW p, NEW g, Scene(l, p, g), l.status = "Delivering", l.volume = 1,
           p.status = "Delivering", NEW m \in LaneShape
    PROVE  Good(l, p, g, Out(GhostKept(m), "none"))
<1> DEFINE k == GhostKept(m)
<1>1. /\ k \in LaneShape /\ k.status = "NozzleUp" /\ k.pre = None /\ k.volume = 0 /\ k.fill = 0
      /\ k.ghost
  BY GhostKeptShape
<1> HIDE DEF k
<1>2. LaneOK(k)
  BY <1>1 DEF LaneOK, Scene, BookOK
<1>3. ArmOK(k, p) /\ OwnOK(k, p)
  BY <1>1 DEF ArmOK, OwnOK
<1>4. WaitOK(k, p, queue)
  BY DEF WaitOK, Scene, Sound
<1>5. ReadOK(k, p, g, NoRow)
  <2>1. book[g] = <<>>
    BY DEF Scene, Sound, ReadOK
  <2> QED BY <1>1, <2>1 DEF ReadOK, NoRow
<1>6. Out(k, "none").lane = k /\ Out(k, "none").do = "none" /\ Out(k, "none").row = NoRow
  BY DEF Out
<1>7. Kept(l, Out(k, "none"))
  BY DEF Kept
<1> QED BY <1>2, <1>3, <1>4, <1>5, <1>6, <1>7 DEF Good, Sound, DoOK, k

(* What the lane hears in a poll. *)
Heard(l, p, g, f) ==
    /\ Scene(l, p, g) /\ FrameOK(p, f) /\ ReadingOK(p, f)
    /\ p.status = "Delivering" /\ f.tag = "down" /\ l.volume = 0 => l.echo

LEMMA HeardFacts ==
    ASSUME NEW l, NEW p, NEW g, NEW f, Heard(l, p, g, f)
    PROVE  /\ Scene(l, p, g) /\ PumpOK(p, g) /\ BookOK /\ LaneOK(l) /\ l \in LaneShape
           /\ l.decel = None /\ l.stopped = None /\ l.status # "Stopped"
           /\ f.volume = p.volume /\ p.volume \in Nat /\ f.ok \in BOOLEAN /\ f.complete \in BOOLEAN
           /\ f.hose \in Nozzle
           /\ f.complete => p.volume # 0 /\ ~Armed(p)
           /\ ~f.complete /\ p.volume # 0 => p.status = "Delivering"
           /\ f.volume > 0 <=> p.volume # 0
<1>1. Scene(l, p, g) /\ PumpOK(p, g) /\ BookOK /\ LaneOK(l) /\ p.volume \in Nat
  BY PumpCases DEF Heard, Scene, Sound
<1>2. /\ l \in LaneShape /\ l.decel = None /\ l.stopped = None /\ l.status # "Stopped"
  BY <1>1, LaneCases DEF LaneOK
<1>3. f.complete => p.volume # 0 /\ ~Armed(p)
  BY DEF Heard, ReadingOK, Armed
<1>4. ~f.complete /\ p.volume # 0 => p.status = "Delivering"
  BY <1>1 DEF Heard, ReadingOK, PumpOK
<1> QED BY <1>1, <1>2, <1>3, <1>4 DEF Heard, ReadingOK, FrameOK

LEMMA SaleGood ==
    ASSUME NEW l, NEW p, NEW g, Scene(l, p, g), InSale(l), p.volume # 0, NEW m, Sale(m, p, g),
           NEW o, Stays(m, o) \/ Ends(m, o)
    PROVE  Good(l, p, g, o)
<1>1. l.status \notin {"Idle", "Offline", "Done"}
  BY DEF InSale
<1> QED BY <1>1, MetersGood DEF Sale

LEMMA SaleAlike ==
    ASSUME NEW m, NEW p, NEW g, Sale(m, p, g)
    PROVE  /\ Alike(m, m) /\ Alike(m, [m EXCEPT !.cap = None])
           /\ Alike(m, [m EXCEPT !.complete = TRUE])
<1> m \in LaneShape
  BY DEF Sale
<1>1. Alike(m, [m EXCEPT !.cap = None])
  BY Codes DEF Alike, LaneShape
<1>2. Alike(m, [m EXCEPT !.complete = TRUE])
  BY DEF Alike, LaneShape
<1> QED BY <1>1, <1>2, AlikeSelf

LEMMA DataMeteredGood ==
    ASSUME NEW l, NEW p, NEW g, NEW f, Heard(l, p, g, f), InSale(l), NEW frozen
    PROVE  Good(l, p, g, DataMetered(l, f, g, frozen))
<1> DEFINE m == Metered(l, p.volume, g)
           s == [m EXCEPT !.status = "Delivering", !.sale = TRUE]
           o == DataMetered(l, f, g, frozen)
<1>0. /\ Scene(l, p, g) /\ PumpOK(p, g) /\ BookOK /\ LaneOK(l) /\ l \in LaneShape
      /\ f.volume = p.volume /\ p.volume \in Nat
      /\ f.complete => p.volume # 0
      /\ ~f.complete /\ p.volume # 0 => p.status = "Delivering"
      /\ f.volume > 0 <=> p.volume # 0
  BY HeardFacts
<1>1. /\ m \in LaneShape /\ m.volume = p.volume /\ m.fill = g
      /\ m.status = l.status /\ m.sale = l.sale /\ m.pre = l.pre /\ m.wire = l.wire
      /\ m.repeat = l.repeat /\ m.armed = l.armed /\ m.session = l.session /\ m.ghost = l.ghost
  BY <1>0, MeteredShape
<1>2. Sale(s, p, g)
  BY <1>0, MeteredSale
<1>3. o = LET k   == IF m.status = "Authorizing" /\ f.volume > 0 THEN s ELSE m
              hit == l.status = "Delivering" /\ f.ok /\ k.cap # None /\ k.volume >= k.cap
          IN  CASE hit -> Out([k EXCEPT !.cap = None], "none")
                [] ~hit /\ ~f.complete /\ k.sale /\ k.preset # None /\ frozen
                       /\ f.volume = 1 /\ l.volume = 1 -> Out(GhostKept(k), "none")
                [] ~hit /\ f.complete /\ HoseUp(k) -> Out([k EXCEPT !.complete = TRUE], "none")
                [] ~hit /\ f.complete /\ ~HoseUp(k) /\ k.holster ->
                       CompleteSale([k EXCEPT !.complete = TRUE])
                [] OTHER -> Out(k, "none")
  BY <1>0 DEF DataMetered
<1> HIDE DEF m, s, o
<1>4. CASE p.volume = 0
  <2>1. l.status = "Authorizing" /\ l.volume = 0 /\ l.fill = 0 /\ g = 0
    BY <1>0, <1>4, LaneCases DEF InSale, Scene, Sound, ReadOK, Heard, ReadingOK, PumpOK
  <2>2. o = Out(m, "none")
    BY <1>0, <1>1, <1>3, <1>4, <2>1
  <2>3. Alike(l, m)
    BY <1>1, <1>4, <2>1 DEF Alike
  <2> QED BY <1>0, <2>2, <2>3, StaysPut, StaysGood DEF o
<1>5. CASE p.volume # 0
  <2> DEFINE k == IF m.status = "Authorizing" /\ f.volume > 0 THEN s ELSE m
             hit == l.status = "Delivering" /\ f.ok /\ k.cap # None /\ k.volume >= k.cap
  <2>1. Sale(k, p, g)
    <3>1. l.status = "Delivering" => l.sale
      BY <1>0, LaneCases
    <3> QED BY <1>0, <1>1, <1>2, <1>5, <3>1 DEF Sale, InSale
  <2>2. /\ Alike(k, k) /\ Alike(k, [k EXCEPT !.cap = None]) /\ Alike(k, [k EXCEPT !.complete = TRUE])
        /\ k \in LaneShape
    BY <2>1, SaleAlike DEF Sale
  <2>3. o = CASE hit -> Out([k EXCEPT !.cap = None], "none")
              [] ~hit /\ ~f.complete /\ k.sale /\ k.preset # None /\ frozen
                     /\ f.volume = 1 /\ l.volume = 1 -> Out(GhostKept(k), "none")
              [] ~hit /\ f.complete /\ HoseUp(k) -> Out([k EXCEPT !.complete = TRUE], "none")
              [] ~hit /\ f.complete /\ ~HoseUp(k) /\ k.holster ->
                     CompleteSale([k EXCEPT !.complete = TRUE])
              [] OTHER -> Out(k, "none")
    BY <1>3
  <2> HIDE DEF k, hit
  <2>4. \/ o = Out([k EXCEPT !.cap = None], "none")
        \/ ~f.complete /\ f.volume = 1 /\ l.volume = 1 /\ o = Out(GhostKept(k), "none")
        \/ o = Out([k EXCEPT !.complete = TRUE], "none")
        \/ o = CompleteSale([k EXCEPT !.complete = TRUE])
        \/ o = Out(k, "none")
    BY <2>3
  <2>5. CASE ~f.complete /\ f.volume = 1 /\ l.volume = 1 /\ o = Out(GhostKept(k), "none")
    <3>1. l.status = "Delivering"
      BY <1>0, <2>5, LaneCases DEF InSale
    <3> QED BY <1>0, <1>5, <2>2, <2>5, <3>1, GhostKeptGood DEF o
  <2>6. CASE o = CompleteSale([k EXCEPT !.complete = TRUE])
    <3> DEFINE e == [k EXCEPT !.complete = TRUE]
    <3>1. Alike(k, e) /\ e \in LaneShape /\ InSale(e) /\ e.volume # 0
      BY <1>5, <2>1, <2>2 DEF Alike, Sale, InSale
    <3> HIDE DEF e
    <3>2. Ends(e, CompleteSale(e))
      BY <3>1, CompleteSaleEnds
    <3>3. Ends(k, CompleteSale(e))
      BY <3>1, <3>2 DEF Ends, Alike, InSale
    <3> QED BY <1>0, <1>5, <2>1, <2>6, <3>3, SaleGood DEF o, e
  <2>7. CASE \/ o = Out([k EXCEPT !.cap = None], "none")
             \/ o = Out([k EXCEPT !.complete = TRUE], "none")
             \/ o = Out(k, "none")
    <3>1. Stays(k, o)
      BY <2>2, <2>7, StaysPut
    <3> QED BY <1>0, <1>5, <2>1, <3>1, SaleGood DEF o
  <2> QED BY <2>4, <2>5, <2>6, <2>7
<1> QED BY <1>4, <1>5

LEMMA SettlesGood ==
    ASSUME NEW l, NEW p, NEW g, Scene(l, p, g), NEW o, Settles(l, o), Idles(l, o) => ~Armed(p)
    PROVE  Good(l, p, g, o)
<1>1. CASE Stays(l, o)
  BY <1>1, StaysGood
<1>2. CASE Idles(l, o)
  BY <1>2, IdlesGood
<1>3. CASE Ends(l, o)
  <2>1. l.status = "Delivering"
    BY <1>3, LaneCases DEF Ends, InSale, Scene, Sound
  <2> QED BY <1>3, <2>1, EndsGood
<1> QED BY <1>1, <1>2, <1>3 DEF Settles

(* A pump that delivers without an owner is told by a ghost or a sale that the *)
(* report of the hose does not end.                                            *)
LEMMA DataDownGood ==
    ASSUME NEW l, NEW p, NEW g, NEW f, Heard(l, p, g, f), SaysDown(l, f)
    PROVE  Good(l, p, g, DataDown(l, f, g))
<1> DEFINE d == [l EXCEPT !.hose = "down"]
           m == Metered(d, p.volume, g)
           e == [m EXCEPT !.complete = TRUE]
           o == DataDown(l, f, g)
           s == [l EXCEPT !.hose = IF @ = "stale" THEN "up" ELSE @]
<1>0. /\ Scene(l, p, g) /\ PumpOK(p, g) /\ BookOK /\ LaneOK(l) /\ l \in LaneShape
      /\ f.volume = p.volume /\ p.volume \in Nat /\ f.tag = "down"
      /\ f.complete => p.volume # 0 /\ ~Armed(p)
  BY HeardFacts DEF SaysDown
<1>1. Alike(l, d)
  BY <1>0 DEF Alike, LaneShape
<1>2. Alike(l, s)
  <2>1. (IF l.hose = "stale" THEN "up" ELSE l.hose) \in {"up", "stale", "down"}
    BY <1>0 DEF LaneShape
  <2> QED BY <1>0, <2>1 DEF Alike, LaneShape
<1>3. d \in LaneShape /\ LaneOK(d)
  BY <1>0, <1>1, AlikeLaneOK DEF Alike
<1>4. o = CASE f.complete /\ InSale(l) -> CompleteSale(e)
            [] ~f.complete /\ InSale(l) /\ l.volume > 0 /\ ~l.complete -> Out(s, "none")
            [] ~f.complete /\ l.status = "Authorizing" /\ l.volume = 0
                   /\ (l.wire \/ l.repeat) /\ l.echo -> Out(l, "none")
            [] OTHER -> NozzleHolstered(d)
  BY <1>0 DEF DataDown
<1> HIDE DEF d, s, o
<1>5. CASE f.complete /\ InSale(l)
  <2>1. o = CompleteSale(e)
    BY <1>4, <1>5
  <2>2. m \in LaneShape /\ m.volume = p.volume /\ m.fill = g /\ m.status = l.status
    <3>1. d.status = l.status
      BY <1>1 DEF Alike
    <3> QED BY <1>0, <1>3, <3>1, MeteredShape
  <2> DEFINE k == [m EXCEPT !.status = "Delivering", !.sale = TRUE]
  <2>3. Sale(k, p, g)
    BY <1>0, <1>3, MeteredSale
  <2> HIDE DEF m, k
  <2>4. e \in LaneShape /\ e.volume = p.volume /\ e.fill = g /\ e.status = l.status
    BY <2>2 DEF LaneShape
  <2> HIDE DEF e
  <2>5. Ends(e, CompleteSale(e))
    BY <1>0, <1>5, <2>4, CompleteSaleEnds DEF InSale
  <2>6. Ends(k, o)
    BY <2>1, <2>3, <2>4, <2>5 DEF Ends, Sale, InSale
  <2> QED BY <1>0, <1>5, <2>3, <2>6, SaleGood DEF o
<1>6. CASE o = Out(s, "none") \/ o = Out(l, "none")
  <2>1. Stays(l, o)
    BY <1>0, <1>2, <1>6, StaysPut, StaysSame
  <2> QED BY <1>0, <2>1, StaysGood DEF o
<1>7. CASE /\ ~(f.complete /\ InSale(l))
           /\ ~(o = Out(s, "none") \/ o = Out(l, "none"))
  <2>1. /\ o = NozzleHolstered(d)
        /\ ~(~f.complete /\ l.status = "Authorizing" /\ l.volume = 0
                  /\ (l.wire \/ l.repeat) /\ l.echo)
    BY <1>4, <1>7
  <2>2. Settles(d, o) /\ (d.ghost => Stays(d, o))
    BY <1>3, <2>1, NozzleHolsteredSettles
  <2>3. Settles(l, o)
    BY <1>1, <2>2, AlikeSettled
  <2>4. Idles(l, o) => ~Armed(p)
    <3>1. SUFFICES ASSUME Idles(l, o), Armed(p) PROVE FALSE
      OBVIOUS
    <3>2. ~f.complete /\ p.status = "Delivering"
      <4>1. p.status # "NozzleUp"
        BY <1>0, NoneAssumption DEF Heard, ReadingOK
      <4>2. p.status = "Delivering"
        BY <3>1, <4>1 DEF Armed, Heard, ReadingOK
      <4> QED BY <1>0, <3>1, <4>2
    <3>3. CASE l.status = "Authorizing" /\ (l.wire \/ l.repeat)
      <4>1. l.volume = 0
        BY <1>0, <3>3, LaneCases
      <4> QED BY <1>0, <2>1, <3>2, <3>3, <4>1 DEF Heard
    <3>4. CASE l.status = "NozzleUp" /\ l.ghost
      <4>1. d.ghost
        BY <1>1, <3>4 DEF Alike
      <4>2. l.status = o.lane.status
        BY <1>1, <2>2, <4>1 DEF Stays, Alike
      <4> QED BY <3>1, <3>4, <4>2 DEF Idles, IdleLane
    <3>5. CASE l.status \in {"Delivering", "Done"}
      BY <3>1, <3>5 DEF Idles
    <3> QED BY <1>0, <3>1, <3>3, <3>4, <3>5 DEF Scene, Sound, ArmOK
  <2> QED BY <1>0, <2>3, <2>4, SettlesGood DEF o
<1> QED BY <1>4, <1>5, <1>6, <1>7

LEMMA DataOutsideGood ==
    ASSUME NEW l, NEW p, NEW g, NEW f, Heard(l, p, g, f), ~InSale(l), l.status # "PreAuthorized",
           NEW far
    PROVE  Good(l, p, g, DataOutside(l, f, g, far))
<1> DEFINE o == DataOutside(l, f, g, far)
<1>0. /\ Scene(l, p, g) /\ PumpOK(p, g) /\ BookOK /\ LaneOK(l) /\ l \in LaneShape
      /\ l.status # "Stopped"
      /\ f.volume = p.volume /\ p.volume \in Nat /\ f.ok \in BOOLEAN /\ f.complete \in BOOLEAN
      /\ ~f.complete /\ p.volume # 0 => p.status = "Delivering"
      /\ f.volume > 0 <=> p.volume # 0
      /\ f.hose \in Nozzle
  BY HeardFacts
<1>1. CASE o = Out(l, "none")
  BY <1>0, <1>1, StaysSame, StaysGood
<1>2. CASE f.volume > 0 /\ ~OwnsMeterData(l)
  <2>1. o = DataUnowned(l, f, g)
    BY <1>2 DEF DataOutside
  <2>2. l.status \in {"Idle", "Offline"} /\ ~f.complete => FALSE
    BY <1>0, <1>2 DEF Scene, Sound, ArmOK, Armed
  <2>3. o = Out(l, "none")
    BY <2>1, <2>2 DEF DataUnowned
  <2> QED BY <1>1, <2>3
<1>3. CASE f.volume > 0 /\ OwnsMeterData(l) /\ o # Out(l, "none")
  <2>1. o = DataOwned(l, f, g, far)
    BY <1>3 DEF DataOutside
  <2>2. l.status = "NozzleUp" \/ l.status = "Done"
    BY <1>0, <1>3, LaneCases DEF Scene, Sound, OwnOK, InSale
  <2> DEFINE wired == IF f.tag = "up" THEN f.hose ELSE None
             first == IF SessionArmed(l) THEN l.nozzle ELSE wired
             other == IF SessionArmed(l) THEN wired ELSE l.nozzle
             h == IF first # None THEN first ELSE IF other # None THEN other ELSE 1
             clash == ~SessionArmed(l) /\ wired # None /\ l.nozzle # None /\ wired # l.nozzle
             m == Metered(l, f.volume, g)
             s == [m EXCEPT !.status = "Delivering", !.sale = TRUE, !.nozzle = h]
  <2>3. h \in Nozzle \cup {None, 1}
    BY <1>0 DEF LaneShape
  <2>4. o = CASE clash -> Out(l, "none")
              [] ~clash /\ l.status = "Stopped" ->
                     IF f.ok /\ ~l.resent /\ f.volume > l.volume /\ far
                     THEN Out([l EXCEPT !.resent = TRUE], "stop") ELSE Out(l, "none")
              [] ~clash /\ (l.status = "Done" \/ (l.status # "Stopped" /\ l.latch)) -> Out(l, "none")
              [] OTHER -> Out(s, "none")
    BY <2>1 DEF DataOwned
  <2>5. m \in LaneShape /\ m.volume = p.volume /\ m.fill = g
    BY <1>0, MeteredShape
  <2> HIDE DEF h, clash, m
  <2>6. Sale(s, p, g)
    BY <2>3, <2>5, Codes, ZenonT(60) DEF Sale, LaneShape
  <2> HIDE DEF s
  <2>7. o = Out(s, "none") /\ l.status = "NozzleUp"
    BY <1>3, <2>2, <2>4
  <2>8. Stays(s, o)
    BY <2>6, <2>7, StaysSame DEF Sale
  <2> QED BY <1>0, <1>3, <2>6, <2>7, <2>8, MetersGood DEF Sale
<1>4. CASE f.volume = 0
  <2>1. o = Out(l, "none")
    BY <1>4 DEF DataOutside
  <2> QED BY <1>1, <2>1
<1> QED BY <1>0, <1>1, <1>2, <1>3, <1>4

LEMMA DataSaleGood ==
    ASSUME NEW l, NEW p, NEW g, NEW f, Heard(l, p, g, f), l.status # "PreAuthorized", NEW c
    PROVE  Good(l, p, g, DataSale(l, f, g, c))
<1>0. l.decel = None
  BY HeardFacts
<1>1. CASE InSale(l)
  BY <1>0, <1>1, DataMeteredGood DEF DataSale
<1>2. CASE ~InSale(l)
  BY <1>0, <1>2, DataOutsideGood DEF DataSale
<1> QED BY <1>1, <1>2

LEMMA StartedShape ==
    ASSUME NEW l \in LaneShape
    PROVE  LET m == Started(l)
           IN  /\ m \in LaneShape /\ m.status = "Authorizing" /\ m.volume = 0 /\ m.fill = 0
               /\ m.pre = None /\ m.wire = l.wire /\ ~m.repeat /\ ~m.confirmed
<1> DEFINE h == IF l.pre # None THEN l.pre ELSE IF l.nozzle # None THEN l.nozzle ELSE 1
           z == Zeroed(l)
           w == ~z.wire
           b == [z EXCEPT !.session = TRUE, !.pending = w, !.repeat = FALSE]
           e == [b EXCEPT !.status = "Authorizing", !.nozzle = h, !.pre = None]
           m == [e EXCEPT !.confirmed = FALSE, !.armed = TRUE, !.sale = TRUE]
<1>1. h \in Nozzle \cup {None, 1}
  BY DEF LaneShape
<1>2. Started(l) = m
  BY DEF Started, Begun
<1>3. z \in LaneShape /\ z.volume = 0 /\ z.fill = 0
  BY ZeroedShape
<1>a. z.wire = l.wire
  BY DEF Zeroed, LaneShape
<1>b. w \in BOOLEAN
  OBVIOUS
<1> HIDE DEF h, z, w
<1>4. b \in LaneShape
  BY <1>3, <1>b, ZenonT(60) DEF LaneShape
<1>5. b.volume = 0 /\ b.fill = 0 /\ b.wire = l.wire /\ ~b.repeat
  BY <1>3, <1>a DEF LaneShape
<1> HIDE DEF b
<1>6. e \in LaneShape
  BY <1>1, <1>4, Codes, ZenonT(60) DEF LaneShape
<1>7. /\ e.volume = 0 /\ e.fill = 0 /\ e.wire = l.wire /\ ~e.repeat /\ e.pre = None
      /\ e.status = "Authorizing"
  BY <1>4, <1>5 DEF LaneShape
<1> HIDE DEF e
<1>8. m \in LaneShape
  BY <1>6, ZenonT(60) DEF LaneShape
<1>9. /\ m.volume = 0 /\ m.fill = 0 /\ m.wire = l.wire /\ ~m.repeat /\ m.pre = None
      /\ m.status = "Authorizing" /\ ~m.confirmed
  BY <1>6, <1>7 DEF LaneShape
<1> QED BY <1>2, <1>8, <1>9

(* An order starts with a lift that the meter tells of. *)
LEMMA DataOrderedGood ==
    ASSUME NEW l, NEW p, NEW g, NEW f, Heard(l, p, g, f), l.status = "PreAuthorized", NEW c
    PROVE  Good(l, p, g, DataOrdered(l, f, g, c))
<1> DEFINE s == Started(l)
           o == DataOrdered(l, f, g, c)
<1>0. /\ Scene(l, p, g) /\ l \in LaneShape /\ ~Armed(p) /\ ~Waits(queue)
      /\ f.ok \in BOOLEAN /\ f.volume = p.volume /\ p.volume \in Nat
  BY HeardFacts DEF Scene, Sound, ArmOK, WaitOK
<1>1. /\ s \in LaneShape /\ s.status = "Authorizing" /\ s.volume = 0 /\ s.fill = 0
      /\ s.pre = None /\ s.wire = l.wire /\ ~s.repeat /\ ~s.confirmed
  BY <1>0, StartedShape
<1> HIDE DEF s
<1>2. Scene(s, p, g)
  BY <1>0, <1>1, StartsSound
<1>3. Heard(s, p, g, f)
  <2>1. p.status # "Delivering"
    BY <1>0 DEF Armed
  <2> QED BY <1>2, <2>1 DEF Heard
<1>4. \A k : Good(s, p, g, k) => Good(l, p, g, k)
  BY DEF Good, Kept
<1>5. \/ o = Mismatch(l) \/ o = Out(s, "none") \/ o = Out(l, "none") \/ o = DataSale(s, f, g, c)
  BY <1>0 DEF DataOrdered, s
<1>6. CASE o = Mismatch(l)
  <2>1. Idles(l, o)
    BY <1>0, <1>6, MismatchIdle DEF Idles
  <2> QED BY <1>0, <2>1, IdlesGood
<1>7. CASE o = Out(s, "none")
  BY <1>1, <1>2, <1>4, <1>7, StaysSame, StaysGood
<1>8. CASE o = Out(l, "none")
  BY <1>0, <1>8, StaysSame, StaysGood
<1>9. CASE o = DataSale(s, f, g, c)
  <2>1. Good(s, p, g, DataSale(s, f, g, c))
    BY <1>1, <1>3, DataSaleGood
  <2> QED BY <1>4, <1>9, <2>1
<1> QED BY <1>5, <1>6, <1>7, <1>8, <1>9

LEMMA DataFrameGood ==
    ASSUME NEW l, NEW p, NEW g, NEW f, Heard(l, p, g, f), NEW c
    PROVE  Good(l, p, g, DataFrame(l, f, g, c))
<1> DEFINE m == IF f.ok /\ f.tag # None THEN [l EXCEPT !.hose = f.tag] ELSE l
           n == [m EXCEPT !.status = "PreAuthorized", !.armed = TRUE]
           k == IF m.status = "Offline" /\ m.pre # None THEN n ELSE m
           o == DataFrame(l, f, g, c)
<1>0. /\ Scene(l, p, g) /\ LaneOK(l) /\ l \in LaneShape
      /\ f.volume = p.volume /\ p.volume \in Nat /\ f.ok \in BOOLEAN /\ f.complete \in BOOLEAN
      /\ f.complete => p.volume # 0
      /\ f.tag \in {None, "up", "down"}
  BY HeardFacts DEF Heard, ReadingOK
<1>1. Alike(l, m)
  BY <1>0, AlikeSelf DEF Alike, LaneShape
<1>2. o = CASE SaysDown(l, f) -> DataDown(l, f, g)
            [] ~SaysDown(l, f) /\ k.status = "Offline" /\ (f.volume = 0 \/ f.complete) ->
                   Out([k EXCEPT !.status = IF f.volume = 0 THEN "NozzleUp" ELSE "Idle"], "none")
            [] ~SaysDown(l, f) /\ k.status = "Authorizing" /\ k.pending /\ ~k.wire ->
                   Out([k EXCEPT !.pending = FALSE], "config")
            [] ~SaysDown(l, f) /\ k.status = "PreAuthorized" -> DataOrdered(k, f, g, c)
            [] OTHER -> DataSale(k, f, g, c)
  BY DEF DataFrame
<1> HIDE DEF m, n
<1>3. k = m
  <2>1. m.status = l.status /\ m.pre = l.pre
    BY <1>1 DEF Alike
  <2> QED BY <1>0, <2>1, LaneCases
<1> HIDE DEF k, o
<1>4. m \in LaneShape /\ LaneOK(m) /\ Scene(m, p, g) /\ \A r : Good(m, p, g, r) => Good(l, p, g, r)
  BY <1>0, <1>1, AlikeLaneOK, AlikeScene DEF Alike
<1>5. CASE SaysDown(l, f)
  BY <1>2, <1>5, DataDownGood DEF o
<1>6. CASE ~SaysDown(l, f) /\ m.status = "Offline" /\ f.volume = 0
  <2> DEFINE u == [m EXCEPT !.status = "NozzleUp"]
  <2>1. o = Out(u, "none")
    BY <1>2, <1>3, <1>6
  <2>2. u \in LaneShape /\ u.status = "NozzleUp" /\ u.pre = m.pre
        /\ u.volume = m.volume /\ u.fill = m.fill
    BY <1>4, Codes DEF LaneShape
  <2>3. m.volume = 0 /\ m.fill = 0
    BY <1>4, <1>6, LaneCases
  <2> HIDE DEF u
  <2>4. Lifts(m, o)
    BY <1>6, <2>1, <2>2, <2>3 DEF Lifts, Out, InSale
  <2>5. p.status = "NozzleUp"
    BY <1>0, <1>4, <1>6 DEF Scene, Sound, ArmOK, Armed, Heard, ReadingOK, PumpOK
  <2> QED BY <1>4, <2>4, <2>5, LiftsSound DEF o
<1>7. CASE ~SaysDown(l, f) /\ m.status = "Offline" /\ f.volume # 0 /\ f.complete
  <2> DEFINE u == [m EXCEPT !.status = "Idle"]
  <2>1. o = Out(u, "none")
    BY <1>2, <1>3, <1>7
  <2>2. u \in LaneShape /\ u.status = "Idle" /\ u.volume = m.volume /\ u.fill = m.fill
    BY <1>4, Codes DEF LaneShape
  <2>3. u.pre = m.pre /\ OwnsMeterData(u) = OwnsMeterData(m)
    BY <1>4 DEF LaneShape, OwnsMeterData, SessionArmed
  <2> HIDE DEF u
  <2>4. Wakes(m, o)
    BY <1>7, <2>1, <2>2, <2>3 DEF Wakes, Out
  <2> QED BY <1>4, <2>4, WakesGood DEF o
<1>8. CASE ~SaysDown(l, f) /\ m.status = "Authorizing" /\ m.pending /\ ~m.wire
  <2> DEFINE u == [m EXCEPT !.pending = FALSE]
  <2>1. o = Out(u, "config")
    BY <1>2, <1>3, <1>8
  <2>2. u \in LaneShape /\ u.status = m.status /\ u.volume = m.volume /\ u.fill = m.fill
        /\ u.repeat = m.repeat /\ u.wire = m.wire
    BY <1>4, ZenonT(60) DEF LaneShape
  <2> HIDE DEF u
  <2>3. Configs(m, o)
    BY <1>8, <2>1, <2>2 DEF Configs, Out
  <2> QED BY <1>4, <2>3, ConfigsGood DEF o
<1>9. Heard(m, p, g, f)
  <2>1. m.echo = l.echo /\ m.volume = l.volume
    BY <1>0 DEF m, LaneShape
  <2> QED BY <1>4, <2>1 DEF Heard
<1>10. CASE ~SaysDown(l, f) /\ m.status = "PreAuthorized"
  <2>1. o = DataOrdered(m, f, g, c)
    BY <1>2, <1>3, <1>10
  <2> QED BY <1>4, <1>9, <1>10, <2>1, DataOrderedGood DEF o
<1>11. CASE /\ ~SaysDown(l, f) /\ m.status # "PreAuthorized"
            /\ ~(m.status = "Offline" /\ (f.volume = 0 \/ f.complete))
            /\ ~(m.status = "Authorizing" /\ m.pending /\ ~m.wire)
  <2>1. o = DataSale(m, f, g, c)
    BY <1>2, <1>3, <1>11
  <2> QED BY <1>4, <1>9, <1>11, <2>1, DataSaleGood DEF o
<1> QED BY <1>5, <1>6, <1>7, <1>8, <1>10, <1>11

----------------------------------------------------------------------------
(* A poll. *)

LEMMA SettledGood ==
    ASSUME NEW l, NEW p, NEW g, Scene(l, p, g), NEW o, Settled(l, o), Idles(l, o) => ~Armed(p)
    PROVE  Good(l, p, g, o)
BY SettlesGood, WakesGood, ConfigsGood DEF Settled

LEMMA IdleGood ==
    ASSUME NEW l, NEW p, NEW g, Scene(l, p, g), p.status # "Delivering"
    PROVE  Good(l, p, g, IdleResponse(l))
<1>1. LaneOK(l) /\ (Armed(p) => l.status = "Authorizing" /\ l.wire)
  BY DEF Scene, Sound, ArmOK
<1>2. /\ Settled(l, IdleResponse(l))
      /\ l.status = "Authorizing" /\ SessionArmed(l) => ~Idles(l, IdleResponse(l))
  BY <1>1, IdleResponseSettled
<1>3. Idles(l, IdleResponse(l)) => ~Armed(p)
  BY <1>1, <1>2 DEF SessionArmed
<1> QED BY <1>2, <1>3, SettledGood

LEMMA LiftGood ==
    ASSUME NEW l, NEW p, NEW g, Scene(l, p, g), p.status = "NozzleUp", NEW h \in Nozzle
    PROVE  /\ Good(l, p, g, LiftFrame(l, h))
           /\ \/ l.status = "Authorizing" /\ Stays(l, LiftFrame(l, h))
              \/ Lifts(l, LiftFrame(l, h))
              \/ ~LiftFrame(l, h).lane.confirmed
<1>1. LaneOK(l)
  BY DEF Scene, Sound
<1>2. \/ InSale(l) /\ Stays(l, LiftFrame(l, h))
      \/ Lifts(l, LiftFrame(l, h))
      \/ /\ l.status \in {"NozzleUp", "PreAuthorized"} /\ l.pre # None
         /\ Idles(l, LiftFrame(l, h)) /\ ~LiftFrame(l, h).lane.confirmed
  BY <1>1, LiftFrameLifts
<1>3. CASE InSale(l) /\ Stays(l, LiftFrame(l, h))
  <2>1. l.status # "Delivering"
    BY <1>1, LaneCases DEF Scene, Sound, ReadOK, PumpOK
  <2> QED BY <1>3, <2>1, StaysGood DEF InSale
<1>4. CASE Lifts(l, LiftFrame(l, h))
  BY <1>4, LiftsSound
<1>5. CASE /\ l.status \in {"NozzleUp", "PreAuthorized"} /\ l.pre # None
           /\ Idles(l, LiftFrame(l, h)) /\ ~LiftFrame(l, h).lane.confirmed
  <2>1. ~Armed(p)
    BY <1>5 DEF Scene, Sound, ArmOK
  <2> QED BY <1>5, <2>1, IdlesGood
<1> QED BY <1>2, <1>3, <1>4, <1>5

LEMMA AppliedGood ==
    ASSUME NEW l, NEW p, NEW g, Scene(l, p, g), NEW f \in Answers(p), NEW c,
           p.status = "Delivering" /\ f.tag = "down" /\ l.volume = 0 => l.echo
    PROVE  Good(l, p, g, Applied(l, f, g, c))
<1>0. LaneOK(l) /\ l \in LaneShape /\ PumpOK(p, g)
  BY LaneCases DEF Scene, Sound
<1>1. FrameOK(p, f) /\ (f.kind = "Data" => ReadingOK(p, f))
  BY <1>0, FramesOK
<1>2. CASE f.kind = "Idle"
  <2>1. Applied(l, f, g, c) = IdleResponse(l)
    BY <1>2 DEF Applied
  <2>2. p.status # "Delivering"
    BY <1>1, <1>2 DEF FrameOK
  <2> QED BY <2>1, <2>2, IdleGood
<1>3. CASE f.kind = "Holstered"
  <2>1. Applied(l, f, g, c) = HolsterFrame(l)
    BY <1>3 DEF Applied
  <2>2. ~Armed(p)
    BY <1>1, <1>3 DEF FrameOK, Armed
  <2> QED BY <1>0, <2>1, <2>2, HolsterFrameSettled, SettledGood
<1>4. CASE f.kind = "Returned"
  <2> DEFINE d == [l EXCEPT !.hose = "down"]
  <2>1. Applied(l, f, g, c) = NozzleHolstered(d)
    BY <1>4 DEF Applied
  <2>2. ~Armed(p)
    BY <1>1, <1>4 DEF FrameOK, Armed
  <2>3. Alike(l, d)
    BY <1>0 DEF Alike, LaneShape
  <2> HIDE DEF d
  <2>4. Settles(d, NozzleHolstered(d))
    BY <1>0, <2>3, AlikeLaneOK, NozzleHolsteredSettles
  <2>5. Settles(l, NozzleHolstered(d))
    BY <2>3, <2>4, AlikeSettled
  <2> QED BY <2>1, <2>2, <2>5, SettlesGood
<1>5. CASE f.kind = "NozzleUp"
  <2>1. Applied(l, f, g, c) = LiftFrame(l, f.hose)
    BY <1>5 DEF Applied
  <2>2. p.status = "NozzleUp" /\ f.hose \in Nozzle
    BY <1>1, <1>5 DEF FrameOK
  <2> QED BY <2>1, <2>2, LiftGood
<1>6. CASE f.kind = "DispenserIdle"
  <2>1. Applied(l, f, g, c) = DispenserIdle(l)
    BY <1>6 DEF Applied
  <2>2. ~Armed(p)
    BY <1>1, <1>6 DEF FrameOK, Armed
  <2> QED BY <1>0, <2>1, <2>2, DispenserIdleSettles, SettlesGood
<1>7. CASE f.kind = "Complete"
  <2>1. Applied(l, f, g, c) = DoneResponse(l)
    BY <1>7 DEF Applied
  <2>2. ~Armed(p)
    BY <1>1, <1>7 DEF FrameOK, Armed
  <2> QED BY <1>0, <2>1, <2>2, DoneResponseSettles, SettlesGood
<1>8. CASE f.kind = "Data"
  <2>1. Applied(l, f, g, c) = DataFrame(l, f, g, c)
    BY <1>8 DEF Applied
  <2>2. Heard(l, p, g, f)
    BY <1>1, <1>8 DEF Heard
  <2> QED BY <2>1, <2>2, DataFrameGood
<1> QED BY <1>1, <1>2, <1>3, <1>4, <1>5, <1>6, <1>7, <1>8 DEF FrameOK

LEMMA LiftFrameOut ==
    ASSUME NEW l, NEW h
    PROVE  LET o == LiftFrame(l, h) IN o = [lane |-> o.lane, do |-> o.do, row |-> o.row]
<1>1. \E m, d : LiftFrame(l, h) = Out(m, d)
  BY DEF LiftFrame, Mismatch
<1> QED BY <1>1 DEF Out

(* A lift starts the sale of an order that was for its hose. *)
LEMMA StartConfirmedGood ==
    ASSUME NEW l, NEW p, NEW g, Scene(l, p, g), p.status = "NozzleUp", NEW h \in Nozzle
    PROVE  Good(l, p, g, StartConfirmed(LiftFrame(l, h)))
<1> DEFINE o == LiftFrame(l, h)
           m == Started(o.lane)
<1>1. /\ Good(l, p, g, o)
      /\ \/ l.status = "Authorizing" /\ Stays(l, o)
         \/ Lifts(l, o)
         \/ ~o.lane.confirmed
  BY LiftGood
<1>2. o = [lane |-> o.lane, do |-> o.do, row |-> o.row]
  BY LiftFrameOut
<1> HIDE DEF o
<1>3. CASE ~(o.lane.confirmed /\ (o.lane.pre # None \/ o.lane.wire))
  BY <1>1, <1>3 DEF StartConfirmed, o
<1>4. CASE o.lane.confirmed /\ (o.lane.pre # None \/ o.lane.wire)
  <2> DEFINE s == [o EXCEPT !.lane = m]
  <2>1. StartConfirmed(o) = s
    BY <1>4 DEF StartConfirmed
  <2>2. o.do = "none" /\ o.row = NoRow /\ o.lane \in LaneShape /\ o.lane.status # "Done"
        /\ l.status # "Delivering"
    BY <1>1, <1>4 DEF Stays, Alike, Lifts, InSale
  <2>3. s.lane = m /\ s.do = "none" /\ s.row = NoRow
    BY <1>2, <2>2
  <2>4. /\ m \in LaneShape /\ m.status = "Authorizing" /\ m.volume = 0 /\ m.fill = 0
        /\ m.pre = None /\ m.wire = o.lane.wire /\ ~m.repeat
    BY <2>2, StartedShape
  <2>5. Scene(o.lane, p, g)
    BY <1>1, <2>2 DEF Good, Scene
  <2>6. Armed(p) => m.wire
    BY <2>4, <2>5 DEF Scene, Sound, ArmOK
  <2>7. Waits(queue) => p.volume = 0 /\ m.wire
    BY <1>4, <2>4, <2>5 DEF Scene, Sound, WaitOK, PumpOK
  <2> HIDE DEF m, s
  <2>8. Scene(m, p, g)
    BY <2>2, <2>4, <2>5, <2>6, <2>7, StartsSound
  <2>9. Kept(l, s)
    BY <2>2 DEF Kept
  <2> QED BY <2>1, <2>3, <2>8, <2>9 DEF Good, Scene, DoOK, o
<1> QED BY <1>3, <1>4

----------------------------------------------------------------------------
(* Steps of the pump. *)

LEMMA PolledSound ==
    ASSUME NEW l, NEW p, NEW g, NEW row, Sound(l, p, g, row), PumpOK(p, g)
    PROVE  /\ Sound(l, PumpPolled(p), g, row) /\ PumpOK(PumpPolled(p), g)
           /\ PumpPolled(p).volume = p.volume
<1>1. CASE p.status = "Authorized" /\ ~p.fromIdle
  <2> DEFINE q == [p EXCEPT !.status = "Delivering"]
  <2>1. PumpPolled(p) = q
    BY <1>1 DEF PumpPolled
  <2>2. /\ q \in PumpState /\ q.status = "Delivering" /\ q.volume = p.volume /\ p.volume = 0
        /\ g = 0
    BY <1>1 DEF PumpOK, PumpState
  <2>3. Armed(p)
    BY <1>1 DEF Armed
  <2>4. g \in 0 .. fills
    BY DEF PumpOK
  <2> HIDE DEF q
  <2>5. PumpOK(q, g)
    BY <2>2, <2>4 DEF PumpOK
  <2>6. ArmOK(l, q) /\ OwnOK(l, q)
    BY <1>1, <2>2, <2>3 DEF Sound, ArmOK, OwnOK
  <2>7. WaitOK(l, q, queue)
    BY <2>3 DEF Sound, WaitOK
  <2>8. ReadOK(l, q, g, row)
    <3>1. l.status # "Delivering"
      BY <1>1, <2>3 DEF Sound, ArmOK
    <3> QED BY <2>2, <3>1 DEF ReadOK
  <2> QED BY <2>1, <2>2, <2>5, <2>6, <2>7, <2>8 DEF Sound
<1>2. CASE ~(p.status = "Authorized" /\ ~p.fromIdle)
  BY <1>2 DEF PumpPolled
<1> QED BY <1>1, <1>2

(* A register that is cleared, on a pump that nobody armed. *)
LEMMA ClearedSound ==
    ASSUME NEW l, NEW p, NEW g, NEW row, Sound(l, p, g, row), PumpOK(p, g), NEW q \in PumpState,
           q.status = "Idle", ~q.fromIdle, q.volume = 0, fills \in Nat
    PROVE  Sound(l, q, 0, row) /\ PumpOK(q, 0)
<1>1. PumpOK(q, 0)
  BY DEF PumpOK
<1>2. ArmOK(l, q) /\ OwnOK(l, q)
  BY DEF ArmOK, OwnOK, Armed
<1>3. WaitOK(l, q, queue)
  BY DEF Sound, WaitOK, Armed
<1>4. ReadOK(l, q, 0, row)
  BY DEF Sound, ReadOK
<1> QED BY <1>1, <1>2, <1>3, <1>4 DEF Sound

LEMMA ToldSound ==
    ASSUME NEW l, NEW p, NEW g, NEW row, Sound(l, p, g, row), PumpOK(p, g), NEW kind,
           fills \in Nat
    PROVE  LET q == PumpTold(p, kind)
               h == IF q.volume = 0 THEN 0 ELSE g
           IN  Sound(l, q, h, row) /\ PumpOK(q, h)
<1> /\ p \in PumpState /\ p.nozzle \in Nozzle
    /\ p.status \in {"Idle", "NozzleUp", "NozzleDown", "Authorized", "Delivering", "Done"}
    /\ (g = 0 <=> p.volume = 0) /\ g \in 0 .. fills
  BY PumpCases DEF PumpOK
<1>1. CASE p.status = "NozzleDown" /\ kind # "Data"
  <2> DEFINE q == PumpReset(p.nozzle)
  <2>1. PumpTold(p, kind) = q
    BY <1>1 DEF PumpTold
  <2>2. q \in PumpState /\ q.status = "Idle" /\ ~q.fromIdle /\ q.volume = 0
    BY Codes DEF PumpReset, PumpState
  <2> HIDE DEF q
  <2> QED BY <2>1, <2>2, ClearedSound
<1>2. CASE p.status = "NozzleUp" /\ kind = "NozzleUp" /\ p.fromIdle
  <2> DEFINE q == [p EXCEPT !.status = "Authorized", !.fromIdle = FALSE]
  <2>1. PumpTold(p, kind) = q
    BY <1>2 DEF PumpTold
  <2>2. /\ q \in PumpState /\ q.status = "Authorized" /\ q.volume = p.volume /\ p.volume = 0
        /\ g = 0
    BY <1>2 DEF PumpOK, PumpState
  <2>3. Armed(p) /\ Armed(q)
    BY <1>2, <2>2 DEF Armed
  <2> HIDE DEF q
  <2>4. PumpOK(q, g)
    BY <2>2 DEF PumpOK
  <2>5. ArmOK(l, q) /\ OwnOK(l, q)
    BY <1>2, <2>2, <2>3 DEF Sound, ArmOK, OwnOK
  <2>6. WaitOK(l, q, queue)
    BY <2>3 DEF Sound, WaitOK
  <2>7. ReadOK(l, q, g, row)
    <3>1. l.status # "Delivering"
      BY <1>2, <2>3 DEF Sound, ArmOK
    <3> QED BY <2>2, <3>1 DEF ReadOK
  <2> QED BY <2>1, <2>2, <2>4, <2>5, <2>6, <2>7 DEF Sound
<1>3. CASE (p.status = "NozzleUp" /\ kind = "NozzleUp" /\ ~p.fromIdle) \/ p.status = "Idle"
  <2> DEFINE q == [p EXCEPT !.told = TRUE]
  <2>1. PumpTold(p, kind) = q
    BY <1>3 DEF PumpTold
  <2>2. /\ q \in PumpState /\ q.status = p.status /\ q.volume = p.volume
        /\ q.fromIdle = p.fromIdle
    BY DEF PumpState
  <2> HIDE DEF q
  <2>3. PumpOK(q, g)
    BY <2>2 DEF PumpOK
  <2>4. Sound(l, q, g, row)
    BY <2>2 DEF Sound, ArmOK, Armed, OwnOK, WaitOK, ReadOK
  <2> QED BY <2>1, <2>2, <2>3, <2>4
<1>4. CASE /\ ~(p.status = "NozzleDown" /\ kind # "Data")
           /\ ~(p.status = "NozzleUp" /\ kind = "NozzleUp")
           /\ p.status # "Idle"
  <2>1. PumpTold(p, kind) = p
    BY <1>4 DEF PumpTold
  <2> QED BY <2>1
<1> QED BY <1>1, <1>2, <1>3, <1>4

----------------------------------------------------------------------------
(* The steps that leave the queue and the book alone. *)

(* What a step may do with the budgets. *)
LeftOn == BudgetOK' /\ left'["queue"] = left["queue"]

LEMMA LeftSame ==
    ASSUME BudgetOK, left' = left PROVE LeftOn
BY DEF LeftOn, BudgetOK

LEMMA SpendBudget ==
    ASSUME BudgetOK, NEW what \in {"lifts", "orders", "resets", "faults"}, Spend(what)
    PROVE  LeftOn /\ left'[what] < left[what]
<1>1. left[what] \in Nat /\ left[what] > 0 /\ left[what] - 1 \in Nat
  BY DEF BudgetOK, Budget, Spend
<1>2. left' = [left EXCEPT ![what] = left[what] - 1]
  BY DEF Spend
<1>3. left'[what] = left[what] - 1
  BY <1>2 DEF BudgetOK, Budget
<1>4. LeftOn
  BY <1>1, <1>2 DEF BudgetOK, Budget, LeftOn
<1> DEFINE n == left[what]
<1>5. n \in Nat /\ left'[what] = n - 1
  BY <1>1, <1>3
<1> HIDE DEF n
<1>6. left'[what] < n
  BY <1>5
<1> QED BY <1>4, <1>6 DEF n

(* An exchange or a save that is lost spends a fault. *)
Faulted == left'["faults"] < left["faults"]

LEMMA FaultsBudget ==
    ASSUME BudgetOK, NEW lost \in BOOLEAN, SpendIf(lost, "faults")
    PROVE  LeftOn /\ (lost => Faulted)
BY SpendBudget, LeftSame DEF SpendIf, Faulted

LEMMA Unaffordable ==
    ASSUME WayneInv, NEW what \in {"stops", "cancels", "closes", "crashes"}
    PROVE  ~Spend(what)
BY DEF WayneInv, BudgetOK, Spend

LEMMA JobStep ==
    ASSUME LeftOn, QueueOK, BookOK, UNCHANGED <<queue, book, fills>>,
           NEW m, NEW p, NEW g, NEW do, NEW row, NEW kicks \in BOOLEAN,
           Sound(m, p, g, row), PumpOK(p, g), DoOK(m, do, row),
           lane' = m, pump' = p, fill' = g, job' = [do |-> do, row |-> row, kicks |-> kicks],
           at' \in {"rest", "act", "kick"}, at' # "act" => job' = NoJob
    PROVE  WayneInv'
<1>0. job'.do = do /\ job'.row = row /\ job'.kicks = kicks
  OBVIOUS
<1>1. BudgetOK'
  BY DEF LeftOn
<1>2. QueueOK'
  BY DEF QueueOK, LeftOn
<1>3. BookOK'
  BY DEF BookOK
<1>4. PumpOK(pump, fill)'
  BY DEF PumpOK
<1>5. DoOK(lane, job.do, job.row)'
  BY <1>0 DEF DoOK, RowOK
<1>6. JobOK'
  BY <1>0, <1>5 DEF JobOK, NoJob
<1>7. LaneOK(lane)'
  BY DEF Sound, LaneOK
<1>8. ArmOK(lane, pump)' /\ OwnOK(lane, pump)'
  BY DEF Sound, ArmOK, OwnOK
<1>9. WaitOK(lane, pump, queue)'
  BY DEF Sound, WaitOK
<1>10. ReadOK(lane, pump, fill, job.row)'
  BY <1>0 DEF Sound, ReadOK
<1> QED BY <1>1, <1>2, <1>3, <1>4, <1>6, <1>7, <1>8, <1>9, <1>10 DEF WayneInv, Sound

LEMMA AfterStep ==
    ASSUME LeftOn, QueueOK, BookOK, UNCHANGED <<queue, book, fills>>,
           NEW p, NEW g, NEW o, NEW kicks \in BOOLEAN,
           Sound(o.lane, p, g, o.row), PumpOK(p, g), DoOK(o.lane, o.do, o.row),
           pump' = p, fill' = g, After(o, kicks)
    PROVE  WayneInv'
<1>1. CASE o.do = "none"
  <2>1. job' = [do |-> "none", row |-> NoRow, kicks |-> FALSE] /\ lane' = o.lane /\ job' = NoJob
    BY <1>1 DEF After, NoJob
  <2>2. at' \in {"rest", "kick"}
    BY <1>1 DEF After
  <2>3. o.row = NoRow
    BY <1>1 DEF DoOK
  <2> HIDE DEF NoRow
  <2> QED BY <1>1, <2>1, <2>2, <2>3, JobStep
<1>2. CASE o.do # "none"
  <2>1. /\ job' = [do |-> o.do, row |-> o.row, kicks |-> kicks] /\ lane' = o.lane
        /\ at' = "act"
    BY <1>2 DEF After
  <2> QED BY <2>1, JobStep
<1> QED BY <1>1, <1>2

(* No sale that the lane holds is forgotten. *)
SalesStay == \A f \in Fill : Holds(f) => Holds(f)' \/ Recorded(f)'

LEMMA HoldsWhat ==
    ASSUME WayneInv, NEW f \in Fill, Holds(f)
    PROVE  \/ lane.fill = f /\ lane.status = "Delivering" /\ lane.volume > 1
           \/ at = "act" /\ job.do = "done" /\ job.row.fill = f
<1>1. LaneOK(lane) /\ lane.stopped = None /\ JobOK /\ f # 0
  BY LaneCases DEF WayneInv, Sound, Fill
<1>2. CASE lane.fill = f /\ InSale(lane) /\ lane.volume > 1
  BY <1>1, <1>2, LaneCases DEF InSale
<1>3. CASE job.row.fill = f
  BY <1>1, <1>3 DEF JobOK, DoOK, NoRow, NoJob
<1> QED BY <1>1, <1>2, <1>3 DEF Holds

LEMMA StayOne ==
    ASSUME WayneInv, at # "act",
           lane.status = "Delivering" /\ lane.volume > 1 =>
               \/ lane'.status = "Delivering" /\ lane'.fill = lane.fill /\ lane'.volume > 1
               \/ job'.row.fill = lane.fill
    PROVE  SalesStay
<1> SUFFICES ASSUME NEW f \in Fill, Holds(f) PROVE Holds(f)'
  BY DEF SalesStay
<1>1. lane.fill = f /\ lane.status = "Delivering" /\ lane.volume > 1
  BY HoldsWhat
<1>2. CASE lane'.status = "Delivering" /\ lane'.fill = lane.fill /\ lane'.volume > 1
  BY <1>1, <1>2 DEF Holds, InSale
<1>3. CASE job'.row.fill = lane.fill
  BY <1>1, <1>3 DEF Holds
<1> QED BY <1>1, <1>2, <1>3

LEMMA StaySame ==
    ASSUME UNCHANGED <<lane, job>> PROVE SalesStay
BY DEF SalesStay, Holds, InSale

LEMMA AgedAlike ==
    ASSUME NEW l \in LaneShape, NEW c \in Circumstance(l)
    PROVE  Alike(l, Aged(l, c)) /\ (Aged(l, c).echo => l.echo) /\ Aged(l, c).echo = (l.echo /\ ~c.late)
<1> DEFINE h == IF c.stale THEN "stale" ELSE l.hose
           e == l.echo /\ ~c.late
           m == [l EXCEPT !.hose = h, !.echo = e]
<1>1. Aged(l, c) = m
  BY DEF Aged
<1>2. h \in {"up", "stale", "down"} /\ e \in BOOLEAN
  BY DEF LaneShape
<1>3. e => l.echo
  OBVIOUS
<1> HIDE DEF h
<1>4. m.echo = e
  BY DEF LaneShape
<1>5. Alike(l, m)
  <2> HIDE DEF e
  <2> QED BY <1>2, ZenonT(60) DEF Alike, LaneShape
<1> QED BY <1>1, <1>3, <1>4, <1>5

LEMMA PollKeeps ==
    ASSUME WayneInv, NEW f \in Answers(PumpPolled(pump)), NEW c \in Circumstance(lane),
           Plausible(f, c), Poll(f, c)
    PROVE  WayneInv' /\ SalesStay
<1> DEFINE p == PumpPolled(pump)
           l == Aged(lane, c)
           o == Applied(l, f, fill, c)
           w == IF at = "rest" /\ f.kind = "NozzleUp" THEN StartConfirmed(o) ELSE o
           q == PumpTold(p, f.kind)
           h == IF q.volume = 0 THEN 0 ELSE fill
<1>1. /\ BudgetOK /\ QueueOK /\ BookOK /\ PumpOK(pump, fill) /\ JobOK
      /\ Sound(lane, pump, fill, job.row)
  BY DEF WayneInv
<1>2. at \in {"rest", "kick"} /\ job = NoJob /\ job.row = NoRow
  BY <1>1 DEF Poll, JobOK, NoJob
<1>3. Sound(lane, p, fill, NoRow) /\ PumpOK(p, fill)
  BY <1>1, <1>2, PolledSound
<1>4. Scene(lane, p, fill) /\ lane \in LaneShape
  BY <1>1, <1>3 DEF Scene, Sound, LaneOK
<1>5. Alike(lane, l) /\ l.echo = (lane.echo /\ ~c.late)
  BY <1>4, AgedAlike
<1>6. p.status = "Delivering" /\ f.tag = "down" /\ l.volume = 0 => l.echo
  BY <1>5 DEF Plausible, Alike
<1>7. After(w, at = "kick") /\ pump' = q /\ fill' = h /\ UNCHANGED <<queue, book, left, fills>>
  BY DEF Poll, Register
<1> HIDE DEF p, l, o
<1>8. Scene(l, p, fill) /\ \A r : Good(l, p, fill, r) => Good(lane, p, fill, r)
  BY <1>4, <1>5, AlikeScene
<1>9. Good(l, p, fill, o)
  BY <1>6, <1>8, AppliedGood DEF p, o
<1>10. Good(l, p, fill, w)
  <2>1. CASE f.kind = "NozzleUp"
    <3>1. FrameOK(p, f)
      BY <1>3, FramesOK DEF p
    <3>2. p.status = "NozzleUp" /\ f.hose \in Nozzle
      BY <2>1, <3>1 DEF FrameOK
    <3>3. o = LiftFrame(l, f.hose)
      BY <2>1 DEF o, Applied
    <3>4. Good(l, p, fill, StartConfirmed(o))
      BY <1>8, <3>2, <3>3, StartConfirmedGood
    <3> QED BY <1>9, <3>4
  <2>2. CASE f.kind # "NozzleUp"
    BY <1>9, <2>2
  <2> QED BY <2>1, <2>2
<1>11. Good(lane, p, fill, w)
  BY <1>8, <1>10
<1> HIDE DEF w
<1>12. Sound(w.lane, q, h, w.row) /\ PumpOK(q, h)
  <2>1. fills \in Nat
    BY <1>1, Codes DEF BookOK
  <2> QED BY <1>3, <1>11, <2>1, ToldSound DEF Good
<1> HIDE DEF q, h
<1>13. WayneInv'
  <2>1. (at = "kick") \in BOOLEAN
    OBVIOUS
  <2>2. DoOK(w.lane, w.do, w.row)
    BY <1>11 DEF Good
  <2> QED BY <1>1, <1>7, <1>12, <2>1, <2>2, LeftSame, AfterStep
<1>14. SalesStay
  <2>1. Kept(lane, w) /\ DoOK(w.lane, w.do, w.row)
    BY <1>11 DEF Good
  <2>2. lane.status = "Delivering" => lane.fill # 0
    BY <1>1, LaneCases DEF Sound
  <2>3. SUFFICES ASSUME lane.status = "Delivering", lane.volume > 1
                 PROVE  \/ lane'.status = "Delivering" /\ lane'.fill = lane.fill /\ lane'.volume > 1
                        \/ job'.row.fill = lane.fill
    BY <1>2, StayOne
  <2>4. CASE w.row.fill = lane.fill
    <3>1. w.do # "none"
      BY <2>1, <2>2, <2>3, <2>4 DEF DoOK, NoRow
    <3> QED BY <1>7, <2>4, <3>1 DEF After
  <2>5. CASE w.row.fill # lane.fill
    BY <1>7, <2>1, <2>3, <2>5 DEF Kept, After
  <2> QED BY <2>4, <2>5
<1> QED BY <1>13, <1>14

LEMMA Resting ==
    ASSUME WayneInv
    PROVE  /\ BudgetOK /\ QueueOK /\ BookOK /\ PumpOK(pump, fill) /\ JobOK
           /\ Sound(lane, pump, fill, job.row) /\ LaneOK(lane) /\ lane \in LaneShape
           /\ at # "act" => job = NoJob /\ job.row = NoRow
           /\ job = [do |-> job.do, row |-> job.row, kicks |-> job.kicks]
           /\ job.kicks \in BOOLEAN /\ DoOK(lane, job.do, job.row)
           /\ at \in {"rest", "act", "kick"}
BY DEF WayneInv, Sound, LaneOK, JobOK, NoJob

(* Between two steps of the loop the lane may change without a job. *)
LEMMA LaneStep ==
    ASSUME WayneInv, at # "act", at' \in {"rest", "kick"}, job' = NoJob,
           UNCHANGED <<queue, book, left, fills>>,
           NEW m, NEW p, NEW g, Sound(m, p, g, NoRow), PumpOK(p, g),
           lane' = m, pump' = p, fill' = g
    PROVE  WayneInv'
<1>1. LeftOn /\ QueueOK /\ BookOK
  BY LeftSame DEF WayneInv
<1>2. DoOK(m, "none", NoRow)
  BY DEF DoOK
<1>3. job' = [do |-> "none", row |-> NoRow, kicks |-> FALSE]
  BY DEF NoJob
<1> HIDE DEF NoRow
<1> QED BY <1>1, <1>2, <1>3, JobStep

(* The loop does nothing. *)
LEMMA SurroundStep ==
    ASSUME WayneInv, UNCHANGED <<lane, at, job, queue, book, fills>>,
           LeftOn,
           NEW p, NEW g, Sound(lane, p, g, job.row), PumpOK(p, g), pump' = p, fill' = g
    PROVE  WayneInv' /\ SalesStay
<1>1. QueueOK /\ BookOK /\ JobOK
  BY DEF WayneInv
<1>2. QueueOK' /\ BookOK' /\ PumpOK(pump, fill)'
  BY <1>1 DEF QueueOK, BookOK, PumpOK, LeftOn
<1>3. JobOK'
  <2>1. DoOK(lane, job.do, job.row)'
    BY <1>1 DEF JobOK, DoOK, RowOK
  <2> QED BY <1>1, <2>1 DEF JobOK, NoJob
<1>4. Sound(lane, pump, fill, job.row)'
  BY DEF Sound, LaneOK, ArmOK, OwnOK, WaitOK, ReadOK
<1>5. WayneInv'
  BY <1>2, <1>3, <1>4 DEF WayneInv, LeftOn
<1> QED BY <1>5, StaySame

LEMMA PollMissedKeeps ==
    ASSUME WayneInv, PollMissed PROVE WayneInv' /\ SalesStay
<1> DEFINE m == [lane EXCEPT !.status = "Offline"]
<1>1. /\ PumpOK(pump, fill) /\ Sound(lane, pump, fill, NoRow) /\ LaneOK(lane)
      /\ lane \in LaneShape /\ job = NoJob /\ at = "rest"
  BY Resting DEF PollMissed
<1>2. lane.status = "Idle" /\ lane.pre = None /\ lane.volume = 0 /\ lane.fill = 0
  BY <1>1, LaneCases DEF PollMissed, MayGoOffline, LaneOK
<1>3. /\ m \in LaneShape /\ m.status = "Offline" /\ m.pre = None /\ m.volume = 0 /\ m.fill = 0
  BY <1>1, <1>2, Codes DEF LaneShape
<1>4. OwnsMeterData(m) => OwnsMeterData(lane)
  <2>1. /\ m.sale = lane.sale /\ m.pre = lane.pre /\ m.wire = lane.wire
        /\ m.repeat = lane.repeat /\ m.armed = lane.armed /\ m.session = lane.session
    BY <1>1 DEF LaneShape
  <2> HIDE DEF m
  <2> QED BY <2>1 DEF OwnsMeterData, SessionArmed
<1> HIDE DEF m
<1>5. LaneOK(m)
  BY <1>1, <1>2, <1>3 DEF LaneOK
<1>6. ArmOK(m, pump) /\ OwnOK(m, pump)
  BY <1>1, <1>2, <1>4 DEF Sound, ArmOK, OwnOK
<1>7. WaitOK(m, pump, queue)
  BY <1>1, <1>3 DEF Sound, WaitOK
<1>8. ReadOK(m, pump, fill, NoRow)
  BY <1>1, <1>2, <1>3 DEF Sound, ReadOK
<1>9. Sound(m, pump, fill, NoRow)
  BY <1>5, <1>6, <1>7, <1>8 DEF Sound
<1>10. lane' = m /\ UNCHANGED <<pump, fill, fills, at, job, queue, book, left>>
  BY DEF PollMissed, m
<1>11. WayneInv'
  BY <1>1, <1>9, <1>10, LaneStep
<1>12. SalesStay
  BY <1>1, <1>2, StayOne
<1> QED BY <1>11, <1>12

LEMMA KickDoneKeeps ==
    ASSUME WayneInv, KickDone PROVE WayneInv' /\ SalesStay
<1>1. /\ PumpOK(pump, fill) /\ Sound(lane, pump, fill, NoRow) /\ job = NoJob /\ at = "kick"
  BY Resting DEF KickDone
<1>2. at' = "rest" /\ job' = NoJob /\ UNCHANGED <<pump, fill, fills, lane, queue, book, left>>
  BY DEF KickDone, Rest
<1>3. WayneInv'
  BY <1>1, <1>2, LaneStep
<1> QED BY <1>1, <1>2, <1>3, StaySame

(* The pump that says it is idle does not deliver past a ghost. *)
LEMMA GhostRecoveredKeeps ==
    ASSUME WayneInv, GhostRecovered PROVE WayneInv' /\ SalesStay
<1> DEFINE m == [lane EXCEPT !.ghost = FALSE]
<1>1. /\ PumpOK(pump, fill) /\ Sound(lane, pump, fill, NoRow) /\ LaneOK(lane)
      /\ lane \in LaneShape /\ job = NoJob /\ at = "rest"
  BY Resting DEF GhostRecovered
<1>2. pump.status # "Delivering"
  <2>1. PICK f \in Answers(pump) : f.kind = "Idle"
    BY DEF GhostRecovered
  <2>2. FrameOK(pump, f)
    BY <1>1, FramesOK
  <2> QED BY <2>1, <2>2 DEF FrameOK
<1>3. /\ m \in LaneShape /\ m.status = lane.status /\ m.pre = lane.pre /\ m.volume = lane.volume
      /\ m.fill = lane.fill /\ m.wire = lane.wire /\ m.repeat = lane.repeat /\ m.sale = lane.sale
  BY <1>1, ZenonT(60) DEF LaneShape
<1>4. OwnsMeterData(m) = OwnsMeterData(lane)
  BY <1>1 DEF OwnsMeterData, SessionArmed, LaneShape
<1> HIDE DEF m
<1>5. LaneOK(m)
  BY <1>1, <1>3 DEF LaneOK
<1>6. ArmOK(m, pump) /\ OwnOK(m, pump)
  BY <1>1, <1>2, <1>3, <1>4 DEF Sound, ArmOK, OwnOK
<1>7. WaitOK(m, pump, queue)
  BY <1>1, <1>3 DEF Sound, WaitOK
<1>8. ReadOK(m, pump, fill, NoRow)
  BY <1>1, <1>3 DEF Sound, ReadOK
<1>9. Sound(m, pump, fill, NoRow)
  BY <1>5, <1>6, <1>7, <1>8 DEF Sound
<1>10. lane' = m /\ UNCHANGED <<pump, fill, fills, at, job, queue, book, left>>
  BY DEF GhostRecovered, m
<1>11. WayneInv'
  BY <1>1, <1>9, <1>10, LaneStep
<1>12. SalesStay
  BY <1>1, <1>3, <1>10, StayOne
<1> QED BY <1>11, <1>12

LEMMA PollUnheardKeeps ==
    ASSUME WayneInv, NEW f, PollUnheard(f) PROVE WayneInv' /\ SalesStay
<1> DEFINE p == PumpPolled(pump)
           r == PumpTold(p, f.kind)
           g == IF r.volume = 0 THEN 0 ELSE fill
           q == [r EXCEPT !.told = @ /\ pump.told]
<1>1. /\ BudgetOK /\ BookOK /\ PumpOK(pump, fill) /\ Sound(lane, pump, fill, job.row)
      /\ fills \in Nat
  BY Resting, Codes DEF BookOK
<1>2. LeftOn
  BY <1>1, SpendBudget DEF PollUnheard
<1>3. Sound(lane, p, fill, job.row) /\ PumpOK(p, fill)
  BY <1>1, PolledSound
<1> HIDE DEF p
<1>4. Sound(lane, r, g, job.row) /\ PumpOK(r, g)
  BY <1>1, <1>3, ToldSound
<1> HIDE DEF r
<1>5. /\ q \in PumpState /\ q.status = r.status /\ q.volume = r.volume
      /\ q.fromIdle = r.fromIdle
  <2>1. r \in PumpState /\ pump \in PumpState
    BY <1>1, <1>4 DEF PumpOK
  <2>2. (r.told /\ pump.told) \in BOOLEAN
    OBVIOUS
  <2> QED BY <2>1, <2>2 DEF PumpState
<1>6. /\ UNCHANGED <<lane, at, job, queue, book, fills>>
      /\ pump' = q /\ fill' = IF q.volume = 0 THEN 0 ELSE fill
  BY DEF PollUnheard, Register, p, r
<1> HIDE DEF q
<1>7. PumpOK(q, g)
  BY <1>4, <1>5 DEF PumpOK
<1>8. Sound(lane, q, g, job.row)
  BY <1>4, <1>5 DEF Sound, ArmOK, Armed, OwnOK, WaitOK, ReadOK
<1> QED BY <1>2, <1>5, <1>6, <1>7, <1>8, SurroundStep

LEMMA PollStepKeeps ==
    ASSUME WayneInv, PollStep PROVE WayneInv' /\ SalesStay
<1>1. ASSUME NEW f \in Answers(PumpPolled(pump)), NEW c \in Circumstance(lane),
             Plausible(f, c), Poll(f, c)
      PROVE  WayneInv' /\ SalesStay
  BY <1>1, PollKeeps
<1>2. ASSUME NEW f \in Answers(PumpPolled(pump)), PollUnheard(f)
      PROVE  WayneInv' /\ SalesStay
  BY <1>2, PollUnheardKeeps
<1>3. CASE PollMissed
  BY <1>3, PollMissedKeeps
<1>4. CASE KickDone
  BY <1>4, KickDoneKeeps
<1>5. CASE GhostRecovered
  BY <1>5, GhostRecoveredKeeps
<1>6. CASE DecelExpires
  <2>1. lane.decel = None
    BY Resting, LaneCases
  <2> QED BY <1>6, <2>1 DEF DecelExpires
<1> QED BY <1>1, <1>2, <1>3, <1>4, <1>5, <1>6 DEF PollStep

----------------------------------------------------------------------------
(* What a frame asked for. *)

LEMMA OnWireShape ==
    ASSUME NEW l \in LaneShape
    PROVE  LET m == OnWire(l)
           IN  /\ m \in LaneShape /\ m.status = l.status /\ m.volume = l.volume /\ m.fill = l.fill
               /\ m.pre = l.pre /\ m.wire = TRUE /\ m.repeat = FALSE
<1>1. OnWire(l) \in LaneShape
  BY ZenonT(60) DEF LaneShape, OnWire
<1>2. /\ OnWire(l).status = l.status /\ OnWire(l).volume = l.volume /\ OnWire(l).fill = l.fill
      /\ OnWire(l).pre = l.pre /\ OnWire(l).wire = TRUE /\ OnWire(l).repeat = FALSE
  BY DEF LaneShape, OnWire
<1> QED BY <1>1, <1>2

(* CONFIG arms the pump for a lane that is in authorization. *)
LEMMA ConfigSound ==
    ASSUME NEW l, NEW p, NEW g, Sound(l, p, g, NoRow), PumpOK(p, g),
           l.status # "Done", fills \in Nat,
           NEW limit \in Dose, NEW m, m.status = "Authorizing", m.wire
    PROVE  LET q == PumpConfig(p, limit)
               h == IF q.volume = 0 THEN 0 ELSE g
           IN  ArmOK(m, q) /\ OwnOK(m, q) /\ ReadOK(m, q, h, NoRow) /\ PumpOK(q, h)
<1> DEFINE q == PumpConfig(p, limit)
           h == IF q.volume = 0 THEN 0 ELSE g
<1>0. /\ p \in PumpState /\ p.volume \in Nat /\ (g = 0 <=> p.volume = 0) /\ g \in 0 .. fills
      /\ p.status \in {"Idle", "NozzleUp", "NozzleDown", "Authorized", "Delivering", "Done"}
  BY PumpCases DEF PumpOK
<1>1. PumpOK(q, h)
  <2>1. CASE p.status = "NozzleUp" \/ (p.status = "Authorized" /\ ~p.fromIdle)
    <3>1. q = [p EXCEPT !.status = "Delivering", !.volume = 0, !.limit = limit]
      BY <2>1 DEF PumpConfig
    <3>2. q \in PumpState /\ q.status = "Delivering" /\ q.volume = 0
      BY <1>0, <3>1, Codes DEF PumpState
    <3> HIDE DEF q
    <3> QED BY <1>0, <3>2 DEF PumpOK
  <2>2. CASE p.status \in {"Idle", "Done"}
    <3>1. q = [p EXCEPT !.status = "Authorized", !.fromIdle = TRUE, !.volume = 0, !.limit = limit]
      BY <2>2 DEF PumpConfig
    <3>2. q \in PumpState /\ q.status = "Authorized" /\ q.volume = 0
      BY <1>0, <3>1, Codes DEF PumpState
    <3> HIDE DEF q
    <3> QED BY <1>0, <3>2 DEF PumpOK
  <2>3. CASE p.status \in {"NozzleDown", "Delivering"} \/ (p.status = "Authorized" /\ p.fromIdle)
    <3>1. q = [p EXCEPT !.limit = limit]
      BY <2>3 DEF PumpConfig
    <3>2. /\ q \in PumpState /\ q.status = p.status /\ q.volume = p.volume
          /\ q.fromIdle = p.fromIdle
      BY <1>0, <3>1, Codes DEF PumpState
    <3> HIDE DEF q
    <3> QED BY <1>0, <3>2 DEF PumpOK
  <2> QED BY <1>0, <2>1, <2>2, <2>3
<1> HIDE DEF q
<1>2. ArmOK(m, q) /\ OwnOK(m, q)
  BY DEF ArmOK, OwnOK
<1>3. ReadOK(m, q, h, NoRow)
  <2>1. g # 0 => book[g] = <<>>
    BY DEF Sound, ReadOK
  <2> QED BY <2>1 DEF ReadOK, NoRow
<1> QED BY <1>1, <1>2, <1>3 DEF q

LEMMA ActConfigKeeps ==
    ASSUME WayneInv, NEW lost \in BOOLEAN, ActConfig(lost) PROVE WayneInv' /\ SalesStay
<1>1. /\ BudgetOK /\ QueueOK /\ BookOK /\ PumpOK(pump, fill) /\ LaneOK(lane) /\ lane \in LaneShape
      /\ DoOK(lane, job.do, job.row) /\ job.do = "config" /\ Sound(lane, pump, fill, job.row)
      /\ job.kicks \in BOOLEAN
  BY Resting DEF ActConfig
<1>2. job.row = NoRow /\ lane.status = "Authorizing" /\ ~Waits(queue)
  BY <1>1 DEF DoOK
<1>3. LeftOn /\ queue' = queue
  BY <1>1, FaultsBudget DEF ActConfig, ActDone
<1> DEFINE m == OnWire(lane)
           q == IF lost THEN pump ELSE PumpConfig(pump, lane.preset)
           h == IF q.volume = 0 THEN 0 ELSE fill
<1>4. /\ lane' = m /\ pump' = q /\ fill' = h /\ fills' = fills /\ book' = book
      /\ at' \in {"rest", "kick"} /\ job' = NoJob
  BY <1>3 DEF ActConfig, Register, ActDone
<1>5. /\ m \in LaneShape /\ m.status = lane.status /\ m.volume = lane.volume /\ m.fill = lane.fill
      /\ m.pre = lane.pre /\ m.wire = TRUE /\ m.repeat = FALSE
  BY <1>1, OnWireShape
<1> HIDE DEF m
<1>6. LaneOK(m)
  BY <1>1, <1>2, <1>5 DEF LaneOK
<1>7. Sound(m, q, h, NoRow) /\ PumpOK(q, h)
  <2>1. lane.preset \in Dose /\ fills \in Nat
    BY <1>1, Codes DEF LaneShape, BookOK
  <2>2. ArmOK(m, q) /\ OwnOK(m, q) /\ ReadOK(m, q, h, NoRow) /\ PumpOK(q, h)
    <3>1. CASE lost
      <4>1. q = pump /\ h = fill
        BY <1>1, <3>1 DEF PumpOK
      <4> HIDE DEF q, h
      <4>2. ArmOK(m, q) /\ OwnOK(m, q)
        BY <1>2, <1>5 DEF ArmOK, OwnOK
      <4>3. ReadOK(m, q, h, NoRow)
        BY <1>1, <1>2, <1>5, <4>1 DEF Sound, ReadOK
      <4> QED BY <1>1, <4>1, <4>2, <4>3
    <3>2. CASE ~lost
      <4>1. q = PumpConfig(pump, lane.preset)
        BY <3>2
      <4> QED BY <1>1, <1>2, <1>5, <2>1, <4>1, ConfigSound
    <3> QED BY <3>1, <3>2
  <2>3. WaitOK(m, q, queue)
    BY <1>2 DEF WaitOK
  <2> QED BY <1>6, <2>2, <2>3 DEF Sound
<1> HIDE DEF q, h
<1>8. WayneInv'
  <2>1. DoOK(m, "none", NoRow) /\ job' = [do |-> "none", row |-> NoRow, kicks |-> FALSE]
    BY <1>4 DEF DoOK, NoJob
  <2> HIDE DEF NoRow
  <2> QED BY <1>1, <1>3, <1>4, <1>7, <2>1, JobStep
<1>9. SalesStay
  <2> SUFFICES ASSUME NEW f \in Fill, Holds(f) PROVE FALSE
    BY DEF SalesStay
  <2> QED BY <1>1, <1>2, HoldsWhat
<1> QED BY <1>8, <1>9

LEMMA ActStopKeeps ==
    ASSUME WayneInv, NEW lost \in BOOLEAN, ActStop(lost) PROVE WayneInv' /\ SalesStay
<1>1. /\ BudgetOK /\ QueueOK /\ BookOK /\ PumpOK(pump, fill)
      /\ DoOK(lane, job.do, job.row) /\ job.do = "stop" /\ Sound(lane, pump, fill, job.row)
  BY Resting DEF ActStop
<1>2. job.row = NoRow /\ lane.status = "Idle"
  BY <1>1 DEF DoOK
<1>3. LeftOn /\ queue' = queue
  BY <1>1, FaultsBudget DEF ActStop, ActDone
<1>4. PumpStop(pump) = pump
  BY <1>1, <1>2 DEF PumpStop, Sound, ArmOK, Armed
<1>5. /\ lane' = lane /\ pump' = pump /\ fill' = fill /\ fills' = fills /\ book' = book
      /\ at' \in {"rest", "kick"} /\ job' = NoJob
  BY <1>1, <1>3, <1>4 DEF ActStop, Register, ActDone, PumpOK
<1>6. WayneInv'
  <2>1. DoOK(lane, "none", NoRow) /\ job' = [do |-> "none", row |-> NoRow, kicks |-> FALSE]
    BY <1>5 DEF DoOK, NoJob
  <2> HIDE DEF NoRow
  <2> QED BY <1>1, <1>2, <1>3, <1>5, <2>1, JobStep
<1>7. SalesStay
  <2> SUFFICES ASSUME NEW f \in Fill, Holds(f) PROVE FALSE
    BY DEF SalesStay
  <2> QED BY <1>1, <1>2, HoldsWhat
<1> QED BY <1>6, <1>7

(* The sale that is done gets its row, or is lost with its save. *)
LEMMA ActDoneSaleKeeps ==
    ASSUME WayneInv, NEW lost \in BOOLEAN, ActDoneSale(lost)
    PROVE  WayneInv' /\ (SalesStay \/ Faulted)
<1> DEFINE row == job.row
           new == [volume |-> row.volume, state |-> row.state]
           m == [lane EXCEPT !.cap = None]
<1>1. /\ BudgetOK /\ QueueOK /\ BookOK /\ PumpOK(pump, fill) /\ LaneOK(lane) /\ lane \in LaneShape
      /\ DoOK(lane, job.do, row) /\ job.do = "done" /\ Sound(lane, pump, fill, row)
  BY Resting DEF ActDoneSale
<1>2. RowOK(row) /\ lane.status = "Done"
  BY <1>1 DEF DoOK
<1>3. LeftOn /\ queue' = queue /\ (lost => Faulted)
  BY <1>1, FaultsBudget DEF ActDoneSale, ActDone
<1>4. /\ lane' = m /\ UNCHANGED <<pump, fill, fills>>
      /\ at' \in {"rest", "kick"} /\ job' = NoJob
  BY DEF ActDoneSale, ActDone
<1>5. row.fill \in Fill /\ row.fill # 0 /\ book[row.fill] = <<>> /\ new \in Row
  BY <1>2 DEF RowOK, Fill, Row
<1> HIDE DEF new
<1>6. ~lost => /\ book' \in [Fill -> Seq(Row)] /\ book'[row.fill] = <<new>>
               /\ \A f \in Fill : f # row.fill => book'[f] = book[f]
  <2> SUFFICES ASSUME ~lost
               PROVE  /\ book' \in [Fill -> Seq(Row)] /\ book'[row.fill] = <<new>>
                      /\ \A f \in Fill : f # row.fill => book'[f] = book[f]
    OBVIOUS
  <2>1. book' = [book EXCEPT ![row.fill] = Append(@, new)]
    BY <1>2, <1>5 DEF ActDoneSale, Persisted, Insert, RowOK, new
  <2>2. Append(book[row.fill], new) = <<new>>
    BY <1>5
  <2>3. <<new>> \in Seq(Row)
    BY <1>5
  <2> QED BY <1>1, <1>5, <2>1, <2>2, <2>3 DEF BookOK
<1>7. lost => book' = book
  BY DEF ActDoneSale
<1> HIDE DEF row
<1>8. BookOK'
  <2>1. CASE lost
    BY <1>1, <1>4, <1>7, <2>1 DEF BookOK
  <2>2. CASE ~lost
    <3>1. \A f \in Fill : Len(book'[f]) <= 1 /\ (f > fills => book'[f] = <<>>)
      <4> TAKE f \in Fill
      <4>1. CASE f = row.fill
        <5>1. row.fill <= fills /\ f \in Nat /\ fills \in Nat
          BY <1>1, <1>2, Codes DEF RowOK, BookOK, Fill
        <5>2. Len(<<new>>) = 1
          OBVIOUS
        <5>3. ~(f > fills)
          BY <4>1, <5>1
        <5>4. Len(book'[f]) = 1
          BY <1>6, <2>2, <4>1, <5>2
        <5> QED BY <5>3, <5>4
      <4>2. CASE f # row.fill
        BY <1>1, <1>6, <2>2, <4>2 DEF BookOK
      <4> QED BY <4>1, <4>2
    <3> QED BY <1>1, <1>4, <1>6, <2>2, <3>1 DEF BookOK
  <2> QED BY <2>1, <2>2
<1>9. /\ m \in LaneShape /\ m.status = "Done" /\ m.volume = lane.volume /\ m.fill = lane.fill
  BY <1>1, <1>2, Codes DEF LaneShape
<1> HIDE DEF m
<1>10. Sound(lane, pump, fill, job.row)'
  <2>1. LaneOK(lane)'
    BY <1>1, <1>2, <1>4, <1>9 DEF LaneOK
  <2>2. ArmOK(lane, pump)' /\ OwnOK(lane, pump)'
    BY <1>1, <1>2, <1>4, <1>9 DEF Sound, ArmOK, OwnOK
  <2>3. WaitOK(lane, pump, queue)'
    BY <1>1, <1>2, <1>3, <1>4 DEF Sound, WaitOK
  <2>4. ReadOK(lane, pump, fill, job.row)'
    BY <1>4, <1>9 DEF ReadOK
  <2> QED BY <2>1, <2>2, <2>3, <2>4 DEF Sound
<1>11. JobOK'
  <2>1. job' = [do |-> "none", row |-> NoRow, kicks |-> FALSE]
    BY <1>4 DEF NoJob
  <2> HIDE DEF NoRow
  <2>2. job'.do = "none" /\ job'.row = NoRow /\ job'.kicks = FALSE
    BY <2>1
  <2>3. DoOK(lane, job.do, job.row)'
    BY <2>2 DEF DoOK
  <2>4. job' = [do |-> job'.do, row |-> job'.row, kicks |-> job'.kicks]
    BY <2>1, <2>2
  <2> QED BY <1>4, <2>2, <2>3, <2>4 DEF JobOK
<1>12. BudgetOK' /\ QueueOK' /\ PumpOK(pump, fill)'
  BY <1>1, <1>3, <1>4 DEF LeftOn, QueueOK, PumpOK
<1>13. WayneInv'
  BY <1>8, <1>10, <1>11, <1>12 DEF WayneInv
<1>14. ~lost => SalesStay
  <2> SUFFICES ASSUME ~lost, NEW f \in Fill, Holds(f) PROVE Recorded(f)'
    BY DEF SalesStay
  <2>1. f = row.fill
    BY <1>2, HoldsWhat DEF row
  <2>2. <<new>> # <<>>
    OBVIOUS
  <2>3. book'[f] # <<>>
    BY <1>6, <2>1, <2>2
  <2> QED BY <2>3 DEF Recorded
<1> QED BY <1>3, <1>13, <1>14

LEMMA ActStepKeeps ==
    ASSUME WayneInv, ActStep PROVE WayneInv' /\ (SalesStay \/ Faulted)
<1>1. PICK lost \in BOOLEAN :
          ActConfig(lost) \/ ActStop(lost) \/ ActPause(lost) \/ ActDoneSale(lost)
  BY DEF ActStep
<1>2. ~ActPause(lost)
  <2>1. DoOK(lane, job.do, job.row)
    BY Resting
  <2> QED BY <2>1 DEF ActPause, DoOK
<1> QED BY <1>1, <1>2, ActConfigKeeps, ActStopKeeps, ActDoneSaleKeeps

----------------------------------------------------------------------------
(* The handlers of the API. *)

(* One command waits at a time. *)
LEMMA Enqueued ==
    ASSUME WayneInv, NEW kind, NEW hose, NEW preset, Enqueue(kind, hose, preset),
           [kind |-> kind, hose |-> hose, preset |-> preset] \in Command,
           kind \in {"Authorize", "Preauthorize", "ResetLane", "ResetAll"},
           kind \in {"Authorize", "Preauthorize"} => hose \in Nozzle,
           LeftOn,
           kind = "Preauthorize" => lane.status = "Idle"
    PROVE  WayneInv' /\ SalesStay
<1> DEFINE cmd == [kind |-> kind, hose |-> hose, preset |-> preset]
<1>1. /\ BudgetOK /\ QueueOK /\ BookOK /\ PumpOK(pump, fill) /\ JobOK /\ LaneOK(lane)
      /\ Sound(lane, pump, fill, job.row)
  BY Resting
<1>2. queue = <<>> /\ left["queue"] = 1
  <2>1. Len(queue) \in Nat /\ left["queue"] \in Nat /\ left["queue"] <= 1
    BY <1>1 DEF QueueOK, BudgetOK, Budget
  <2>2. Len(queue) < left["queue"]
    BY DEF Enqueue
  <2>3. Len(queue) = 0 /\ left["queue"] = 1
    BY <2>1, <2>2
  <2> QED BY <1>1, <2>3 DEF QueueOK
<1>3. cmd.kind = kind /\ cmd.hose = hose /\ cmd \in Command
  OBVIOUS
<1> HIDE DEF cmd
<1>4. queue' = <<cmd>> /\ UNCHANGED <<pump, fill, fills, lane, at, job, book>>
  BY <1>2 DEF Enqueue, cmd
<1>5. queue' \in Seq(Command) /\ Len(queue') = 1 /\ queue'[1] = cmd
  BY <1>3, <1>4
<1>6. QueueOK'
  BY <1>2, <1>3, <1>5 DEF QueueOK, LeftOn
<1>7. Waits(queue') => lane.status = "Idle"
  BY <1>3, <1>5 DEF Waits
<1>8. WaitOK(lane, pump, queue)'
  <2>1. lane.status = "Idle" => ~Armed(pump) /\ lane.pre = None
    BY <1>1 DEF Sound, ArmOK, LaneOK
  <2> QED BY <1>4, <1>7, <2>1 DEF WaitOK
<1>9. LaneOK(lane)' /\ ArmOK(lane, pump)' /\ OwnOK(lane, pump)'
  BY <1>1, <1>4 DEF Sound, LaneOK, ArmOK, OwnOK
<1>10. ReadOK(lane, pump, fill, job.row)'
  BY <1>1, <1>4 DEF Sound, ReadOK
<1>11. DoOK(lane, job.do, job.row)'
  <2>1. DoOK(lane, job.do, job.row)
    BY <1>1 DEF JobOK
  <2>2. RowOK(job.row) => RowOK(job.row)'
    BY <1>4 DEF RowOK
  <2> QED BY <1>4, <1>7, <2>1, <2>2 DEF DoOK
<1>12. JobOK'
  BY <1>1, <1>4, <1>11 DEF JobOK, NoJob
<1>13. BookOK' /\ PumpOK(pump, fill)'
  BY <1>1, <1>4 DEF BookOK, PumpOK
<1>14. WayneInv'
  BY <1>6, <1>8, <1>9, <1>10, <1>12, <1>13 DEF WayneInv, Sound, LeftOn
<1> QED BY <1>4, <1>14, StaySame

LEMMA OrderKeeps ==
    ASSUME WayneInv, NEW h \in Nozzle, NEW preset \in Preset, Order(h, preset)
    PROVE  WayneInv' /\ SalesStay
<1>1. LeftOn
  BY Resting, SpendBudget DEF Order
<1>2. preset \in Dose
  BY Codes
<1>3. CASE lane.status = "Idle" /\ Enqueue("Preauthorize", h, preset)
  <2>1. [kind |-> "Preauthorize", hose |-> h, preset |-> preset] \in Command
    BY <1>2 DEF Command
  <2> QED BY <1>1, <1>3, <2>1, Enqueued
<1>4. CASE lane.status = "NozzleUp" /\ lane.nozzle = h /\ Enqueue("Authorize", h, preset)
  <2>1. [kind |-> "Authorize", hose |-> h, preset |-> preset] \in Command
    BY <1>2 DEF Command
  <2> QED BY <1>1, <1>4, <2>1, Enqueued
<1> QED BY <1>3, <1>4 DEF Order

LEMMA ResetRequestKeeps ==
    ASSUME WayneInv, NEW kind \in {"ResetLane", "ResetAll"}, ResetRequest(kind)
    PROVE  WayneInv' /\ SalesStay
<1>1. LeftOn
  BY Resting, SpendBudget DEF ResetRequest
<1>2. [kind |-> kind, hose |-> None, preset |-> None] \in Command
  BY Codes DEF Command
<1>3. Enqueue(kind, None, None)
  BY DEF ResetRequest
<1> QED BY <1>1, <1>2, <1>3, Enqueued

LEMMA ApiStepKeeps ==
    ASSUME WayneInv, ApiStep PROVE WayneInv' /\ SalesStay
<1>1. ASSUME NEW h \in Nozzle, NEW preset \in Preset, Order(h, preset)
      PROVE  WayneInv' /\ SalesStay
  BY <1>1, OrderKeeps
<1>2. ~CancelOrder /\ ~OrderExpires
  BY Unaffordable DEF CancelOrder, OrderExpires
<1>3. \A kind \in {"Stop", "EStop"} : ~StopRequest(kind)
  BY Unaffordable DEF StopRequest
<1>4. ASSUME NEW kind \in {"ResetLane", "ResetAll"}, ResetRequest(kind)
      PROVE  WayneInv' /\ SalesStay
  BY <1>4, ResetRequestKeeps
<1>5. \A f \in Fill, k \in 1 .. MaxFills : ~CloseStopped(f, k)
  BY Unaffordable DEF CloseStopped
<1> QED BY <1>1, <1>2, <1>3, <1>4, <1>5 DEF ApiStep

----------------------------------------------------------------------------
(* Commands. *)

LEMMA Taken ==
    ASSUME WayneInv, NEW kind, Take(kind)
    PROVE  /\ at = "rest" /\ queue' = <<>> /\ Head(queue) \in Command /\ Head(queue).kind = kind
           /\ kind \notin {"CancelPreauth", "Stop", "EStop"}
           /\ kind \in {"Authorize", "Preauthorize"} => Head(queue).hose \in Nozzle
           /\ kind = "Preauthorize" => Waits(queue)
           /\ job = NoJob /\ Sound(lane, pump, fill, NoRow) /\ PumpOK(pump, fill)
           /\ LaneOK(lane) /\ lane \in LaneShape /\ left["hasty"] = 0 /\ fills \in Nat
<1>1. /\ BudgetOK /\ QueueOK /\ BookOK /\ PumpOK(pump, fill) /\ LaneOK(lane) /\ lane \in LaneShape
      /\ Sound(lane, pump, fill, job.row) /\ at = "rest" /\ queue # <<>> /\ Head(queue).kind = kind
      /\ job = NoJob /\ job.row = NoRow /\ queue' = Tail(queue)
  BY Resting DEF Take
<1>2. Len(queue) = 1 /\ queue \in Seq(Command)
  <2>1. queue \in Seq(Command) /\ queue # <<>>
    BY <1>1 DEF QueueOK
  <2>2. Len(queue) \in Nat /\ Len(queue) # 0
    BY <2>1
  <2>3. left["queue"] \in Nat /\ left["queue"] <= 1 /\ Len(queue) <= left["queue"]
    BY <1>1 DEF QueueOK, BudgetOK, Budget
  <2> DEFINE n == Len(queue)
             b == left["queue"]
  <2>4. n \in Nat /\ n # 0 /\ b \in Nat /\ b <= 1 /\ n <= b
    BY <2>2, <2>3
  <2> HIDE DEF n, b
  <2>5. n = 1
    BY <2>4
  <2> QED BY <2>1, <2>5 DEF n
<1>3. queue' = <<>> /\ Head(queue) = queue[1] /\ queue[1] \in Command /\ 1 \in 1 .. Len(queue)
  BY <1>1, <1>2
<1>4. /\ queue[1].kind \notin {"CancelPreauth", "Stop", "EStop"}
      /\ queue[1].kind \in {"Authorize", "Preauthorize"} => queue[1].hose \in Nozzle
  BY <1>1, <1>3 DEF QueueOK
<1>5. kind = "Preauthorize" => Waits(queue)
  BY <1>1, <1>3 DEF Waits
<1>6. left["hasty"] = 0 /\ fills \in Nat
  BY <1>1, Codes DEF BudgetOK, BookOK
<1> QED BY <1>1, <1>3, <1>4, <1>5, <1>6

LEMMA CommandDone ==
    ASSUME WayneInv, NEW kind, Take(kind), at' \in {"rest", "kick"},
           LeftOn, UNCHANGED <<job, book, fills>>,
           NEW m, NEW p, NEW g, LaneOK(m), ArmOK(m, p), OwnOK(m, p), ReadOK(m, p, g, NoRow),
           PumpOK(p, g), lane' = m, pump' = p, fill' = g
    PROVE  WayneInv'
<1>1. queue' = <<>> /\ job = NoJob
  BY Taken
<1>2. ~Waits(queue')
  BY <1>1 DEF Waits
<1>3. QueueOK'
  <2>1. left["queue"] \in Nat /\ <<>> \in Seq(Command) /\ Len(<<>>) = 0
    BY Resting DEF BudgetOK, Budget
  <2> QED BY <1>1, <2>1 DEF QueueOK, LeftOn
<1>4. BudgetOK' /\ BookOK' /\ PumpOK(pump, fill)'
  BY Resting DEF LeftOn, BookOK, PumpOK
<1>5. job' = [do |-> "none", row |-> NoRow, kicks |-> FALSE] /\ job' = NoJob
  BY <1>1 DEF NoJob
<1> HIDE DEF NoRow
<1>6. job'.do = "none" /\ job'.row = NoRow /\ job'.kicks = FALSE
  BY <1>5
<1>7. DoOK(lane, job.do, job.row)'
  BY <1>6 DEF DoOK, NoRow
<1>8. job' = [do |-> job'.do, row |-> job'.row, kicks |-> job'.kicks]
  BY <1>5, <1>6
<1>9. JobOK'
  BY <1>5, <1>6, <1>7, <1>8 DEF JobOK, NoJob
<1>10. LaneOK(lane)' /\ ArmOK(lane, pump)' /\ OwnOK(lane, pump)' /\ WaitOK(lane, pump, queue)'
  BY <1>2 DEF LaneOK, ArmOK, OwnOK, WaitOK
<1>11. ReadOK(lane, pump, fill, job.row)'
  BY <1>6 DEF ReadOK, NoRow
<1> QED BY <1>3, <1>4, <1>9, <1>10, <1>11 DEF WayneInv, Sound

LEMMA DeferredShape ==
    ASSUME NEW l \in LaneShape, NEW preset \in Dose
    PROVE  LET m == Deferred(WithPreset(l, preset))
           IN  /\ m \in LaneShape /\ m.status = "Authorizing" /\ m.volume = 0 /\ m.fill = 0
               /\ m.repeat
<1> DEFINE k == WithPreset(l, preset)
           z == Zeroed(k)
           m == [z EXCEPT !.session = TRUE, !.pending = FALSE, !.repeat = TRUE, !.wire = FALSE,
                          !.status = "Authorizing"]
<1>1. k \in LaneShape
  BY DEF WithPreset, LaneShape
<1> HIDE DEF k
<1>2. z \in LaneShape /\ z.volume = 0 /\ z.fill = 0
  BY <1>1, ZeroedShape
<1> HIDE DEF z
<1>3. m \in LaneShape
  BY <1>2, Codes, ZenonT(60) DEF LaneShape
<1>4. m.status = "Authorizing" /\ m.volume = 0 /\ m.fill = 0 /\ m.repeat
  BY <1>2 DEF LaneShape
<1> QED BY <1>3, <1>4 DEF Deferred, z, k

(* A lift in front of the operator is armed with the next idle frame.          *)
LEMMA AuthorizeKeeps ==
    ASSUME WayneInv, NEW lost \in BOOLEAN, AuthorizeCommand(lost)
    PROVE  WayneInv' /\ SalesStay
<1> DEFINE preset == Head(queue).preset
           m == Deferred(WithPreset(lane, preset))
<1>1. /\ Head(queue) \in Command /\ job = NoJob /\ Sound(lane, pump, fill, NoRow)
      /\ PumpOK(pump, fill) /\ LaneOK(lane) /\ lane \in LaneShape /\ left["hasty"] = 0
      /\ at = "rest" /\ fills \in Nat
  BY Taken DEF AuthorizeCommand
<1>2. lane.status = "NozzleUp"
  BY <1>1 DEF AuthorizeCommand, Prompt
<1>3. /\ lane' = m /\ UNCHANGED <<pump, fill, fills, left, at, job, book>> /\ Take("Authorize")
  BY <1>2 DEF AuthorizeCommand
<1>9. LeftOn
  BY <1>3, Resting, LeftSame
<1>4. /\ m \in LaneShape /\ m.status = "Authorizing" /\ m.volume = 0 /\ m.fill = 0 /\ m.repeat
  <2>1. preset \in Dose
    BY <1>1 DEF Command
  <2> QED BY <1>1, <2>1, DeferredShape
<1> HIDE DEF m
<1>5. LaneOK(m)
  BY <1>1, <1>4 DEF LaneOK
<1>6. ArmOK(m, pump) /\ OwnOK(m, pump)
  BY <1>1, <1>2, <1>4 DEF Sound, ArmOK, OwnOK
<1>7. ReadOK(m, pump, fill, NoRow)
  BY <1>1, <1>2, <1>4 DEF Sound, ReadOK
<1>8. WayneInv'
  BY <1>1, <1>3, <1>5, <1>6, <1>7, <1>9, CommandDone
<1> QED BY <1>1, <1>2, <1>8, StayOne

LEMMA PreauthorizeSentShape ==
    ASSUME NEW l \in LaneShape, NEW h \in Nozzle, NEW preset \in Dose
    PROVE  LET m == PreauthorizeSent(l, h, preset)
           IN  /\ m \in LaneShape /\ m.status = "PreAuthorized" /\ m.volume = 0 /\ m.fill = 0
<1> DEFINE k == WithPreset(l, preset)
           z == Zeroed(k)
           b == l.status = "NozzleUp" /\ l.nozzle = h
           e == [z EXCEPT !.pre = h, !.confirmed = b, !.ghost = FALSE]
           m == [e EXCEPT !.status = "PreAuthorized", !.nozzle = h, !.armed = TRUE]
<1>1. k \in LaneShape
  BY DEF WithPreset, LaneShape
<1>0. b \in BOOLEAN
  OBVIOUS
<1> HIDE DEF k
<1>2. z \in LaneShape /\ z.volume = 0 /\ z.fill = 0
  BY <1>1, ZeroedShape
<1>5. PreauthorizeSent(l, h, preset) = m
  BY DEF PreauthorizeSent, k
<1> HIDE DEF z, b
<1>3. e \in LaneShape
  BY <1>0, <1>2, ZenonT(60) DEF LaneShape
<1>a. e.volume = 0 /\ e.fill = 0
  BY <1>2 DEF LaneShape
<1> HIDE DEF e
<1>4. m \in LaneShape
  BY <1>3, Codes, ZenonT(60) DEF LaneShape
<1>6. m.status = "PreAuthorized" /\ m.volume = 0 /\ m.fill = 0
  BY <1>3, <1>a DEF LaneShape
<1> QED BY <1>4, <1>5, <1>6

(* An order of an idle lane waits for the lift; one whose hose is already up   *)
(* is armed.                                                                   *)
LEMMA PreauthorizeKeeps ==
    ASSUME WayneInv, NEW lost \in BOOLEAN, PreauthorizeCommand(lost)
    PROVE  WayneInv' /\ SalesStay
<1> DEFINE h == Head(queue).hose
           l == PreauthorizeSent(lane, h, Head(queue).preset)
           w == WrongHoseUp(lane, h)
<1>1. /\ Head(queue) \in Command /\ h \in Nozzle /\ Waits(queue) /\ job = NoJob
      /\ Sound(lane, pump, fill, NoRow) /\ PumpOK(pump, fill) /\ LaneOK(lane)
      /\ lane \in LaneShape /\ at = "rest" /\ fills \in Nat
  BY Taken DEF PreauthorizeCommand
<1>2. ~Armed(pump) /\ lane.status \notin {"Done", "Delivering", "PreAuthorized"}
  BY <1>1 DEF Sound, WaitOK
<1>3. /\ l \in LaneShape /\ l.status = "PreAuthorized" /\ l.volume = 0 /\ l.fill = 0
  <2>1. Head(queue).preset \in Dose
    BY <1>1 DEF Command
  <2> QED BY <1>1, <2>1, PreauthorizeSentShape
<1>4. Take("Preauthorize") /\ UNCHANGED <<job, book>>
  BY DEF PreauthorizeCommand
<1>5. \/ /\ w
         /\ lane' = [lane EXCEPT !.confirmed = FALSE]
         /\ Register(IF lost THEN pump ELSE PumpStop(pump))
         /\ SpendIf(lost, "faults") /\ UNCHANGED at
      \/ /\ ~w /\ l.confirmed
         /\ lane' = Started(OnWire(l))
         /\ Register(IF lost THEN pump ELSE PumpConfig(pump, l.preset))
         /\ SpendIf(lost, "faults") /\ at' = "kick"
      \/ /\ ~w /\ ~l.confirmed
         /\ lane' = l /\ at' = "kick" /\ UNCHANGED <<pump, fill, fills, left>>
  BY DEF PreauthorizeCommand
<1> HIDE DEF l, w
<1>6. SalesStay
  BY <1>1, <1>2, StayOne
<1>7. CASE /\ lane' = [lane EXCEPT !.confirmed = FALSE]
           /\ Register(IF lost THEN pump ELSE PumpStop(pump))
           /\ SpendIf(lost, "faults") /\ UNCHANGED at
  <2> DEFINE m == [lane EXCEPT !.confirmed = FALSE]
  <2>1. LeftOn
    BY <1>7, Resting, FaultsBudget
  <2>2. PumpStop(pump) = pump
    BY <1>2 DEF PumpStop, Armed
  <2>3. pump' = pump /\ fill' = fill /\ fills' = fills
    BY <1>1, <1>7, <2>1, <2>2 DEF Register, PumpOK
  <2>4. Alike(lane, m)
    BY <1>1, ZenonT(60) DEF Alike, LaneShape
  <2> HIDE DEF m
  <2>5. Scene(lane, pump, fill)
    BY <1>1, Resting DEF Scene
  <2>6. Scene(m, pump, fill)
    BY <2>4, <2>5, AlikeScene
  <2>7. LaneOK(m) /\ ArmOK(m, pump) /\ OwnOK(m, pump) /\ ReadOK(m, pump, fill, NoRow)
    BY <2>6 DEF Scene, Sound
  <2>8. at' \in {"rest", "kick"} /\ LeftOn /\ UNCHANGED <<job, book, fills>> /\ lane' = m
    BY <1>1, <1>4, <1>7, <2>1, <2>3 DEF m
  <2>9. WayneInv'
    BY <1>1, <1>4, <2>3, <2>7, <2>8, CommandDone
  <2> QED BY <1>6, <2>9
<1>8. CASE /\ lane' = Started(OnWire(l))
           /\ Register(IF lost THEN pump ELSE PumpConfig(pump, l.preset))
           /\ SpendIf(lost, "faults") /\ at' = "kick"
  <2> DEFINE k == OnWire(l)
             m == Started(k)
             q == IF lost THEN pump ELSE PumpConfig(pump, l.preset)
             g == IF q.volume = 0 THEN 0 ELSE fill
  <2>1. LeftOn
    BY <1>8, Resting, FaultsBudget
  <2>2. pump' = q /\ fill' = g /\ fills' = fills
    BY <1>8 DEF Register
  <2>3. k \in LaneShape /\ k.wire
    BY <1>3, OnWireShape
  <2> HIDE DEF k
  <2>4. /\ m \in LaneShape /\ m.status = "Authorizing" /\ m.volume = 0 /\ m.fill = 0 /\ m.wire
    BY <2>3, StartedShape
  <2>5. lane' = m
    BY <1>8 DEF k
  <2> HIDE DEF m
  <2>6. LaneOK(m)
    BY <1>1, <2>4 DEF LaneOK
  <2>7. ArmOK(m, q) /\ OwnOK(m, q) /\ ReadOK(m, q, g, NoRow) /\ PumpOK(q, g)
    <3>1. l.preset \in Dose
      BY <1>3 DEF LaneShape
    <3>2. CASE lost
      <4>1. q = pump /\ g = fill
        BY <1>1, <3>2 DEF PumpOK
      <4> HIDE DEF q, g
      <4>2. ArmOK(m, q) /\ OwnOK(m, q)
        BY <2>4 DEF ArmOK, OwnOK
      <4>3. ReadOK(m, q, g, NoRow)
        BY <1>1, <1>2, <2>4, <4>1 DEF Sound, ReadOK
      <4> QED BY <1>1, <4>1, <4>2, <4>3
    <3>3. CASE ~lost
      <4>1. q = PumpConfig(pump, l.preset)
        BY <3>3
      <4> QED BY <1>1, <1>2, <2>4, <3>1, <4>1, ConfigSound
    <3> QED BY <3>2, <3>3
  <2> HIDE DEF q, g
  <2>8. at' \in {"rest", "kick"} /\ LeftOn /\ UNCHANGED <<job, book, fills>>
    BY <1>4, <1>8, <2>1, <2>2
  <2>9. WayneInv'
    BY <1>4, <2>2, <2>5, <2>6, <2>7, <2>8, CommandDone
  <2> QED BY <1>6, <2>9
<1>9. CASE lane' = l /\ at' = "kick" /\ UNCHANGED <<pump, fill, fills, left>>
  <2>1. LaneOK(l)
    BY <1>1, <1>3 DEF LaneOK
  <2>2. ArmOK(l, pump) /\ OwnOK(l, pump)
    BY <1>2, <1>3 DEF ArmOK, OwnOK
  <2>3. ReadOK(l, pump, fill, NoRow)
    BY <1>1, <1>2, <1>3 DEF Sound, ReadOK
  <2>4. LeftOn
    BY <1>9, Resting, LeftSame
  <2>5. WayneInv'
    BY <1>1, <1>4, <1>9, <2>1, <2>2, <2>3, <2>4, CommandDone
  <2> QED BY <1>6, <2>5
<1> QED BY <1>5, <1>7, <1>8, <1>9

LEMMA OperatorResetShape ==
    ASSUME NEW l \in LaneShape
    PROVE  LET m == OperatorReset(l)
           IN  m \in LaneShape /\ m.status = "Idle" /\ m.volume = 0 /\ m.fill = 0 /\ m.pre = None
<1> DEFINE z == Zeroed(l)
           a == [z EXCEPT !.status = "Idle", !.nozzle = None, !.cap = None]
           b == [a EXCEPT !.decel = None, !.sale = FALSE, !.stopped = None, !.latch = FALSE]
           m == [b EXCEPT !.cancelled = FALSE, !.pre = None, !.armed = FALSE, !.ghost = FALSE]
<1>1. z \in LaneShape /\ z.volume = 0 /\ z.fill = 0
  BY ZeroedShape
<1>2. OperatorReset(l) = m
  BY DEF OperatorReset
<1> HIDE DEF z
<1>3. a \in LaneShape
  BY <1>1, Codes, ZenonT(60) DEF LaneShape
<1>4. a.status = "Idle" /\ a.volume = 0 /\ a.fill = 0
  BY <1>1 DEF LaneShape
<1> HIDE DEF a
<1>5. b \in LaneShape
  BY <1>3, ZenonT(60) DEF LaneShape
<1>6. b.status = "Idle" /\ b.volume = 0 /\ b.fill = 0
  BY <1>3, <1>4 DEF LaneShape
<1> HIDE DEF b
<1>7. m \in LaneShape
  BY <1>5, ZenonT(60) DEF LaneShape
<1>8. m.status = "Idle" /\ m.volume = 0 /\ m.fill = 0 /\ m.pre = None
  BY <1>5, <1>6 DEF LaneShape
<1> QED BY <1>2, <1>7, <1>8

(* A reset finds the side idle; the reset of all lanes may drop a sale.        *)
LEMMA ResetKeeps ==
    ASSUME WayneInv, ResetCommand
    PROVE  WayneInv' /\ (Head(queue).kind # "ResetAll" => SalesStay)
<1> DEFINE m == OperatorReset(lane)
<1>1. PICK kind \in {"ResetAll", "ResetLane"} : Take(kind)
  BY DEF ResetCommand
<1>2. /\ job = NoJob /\ Sound(lane, pump, fill, NoRow) /\ PumpOK(pump, fill) /\ LaneOK(lane)
      /\ lane \in LaneShape /\ left["hasty"] = 0 /\ at = "rest" /\ fills \in Nat
      /\ Head(queue).kind = kind
  BY <1>1, Taken
<1>3. pump.status = "Idle" /\ UNCHANGED <<pump, fill, fills, at, job, book, left>>
  BY <1>2 DEF ResetCommand, Prompt
<1>4. pump.volume = 0 /\ fill = 0 /\ ~Armed(pump)
  BY <1>2, <1>3 DEF PumpOK, Armed
<1>5. /\ m \in LaneShape /\ m.status = "Idle" /\ m.volume = 0 /\ m.fill = 0 /\ m.pre = None
  BY <1>2, OperatorResetShape
<1>6. lane' = m \/ lane' = lane
  BY DEF ResetCommand
<1>7. kind # "ResetAll" => lane' = lane \/ lane.status \in {"Done", "Idle", "Offline"}
  BY <1>2 DEF ResetCommand, Take
<1> HIDE DEF m
<1>8. LeftOn
  BY <1>3, Resting, LeftSame
<1>9. WayneInv'
  <2>1. CASE lane' = m
    <3>1. LaneOK(m)
      BY <1>2, <1>5 DEF LaneOK
    <3>2. ArmOK(m, pump) /\ OwnOK(m, pump) /\ ReadOK(m, pump, fill, NoRow)
      BY <1>4, <1>5 DEF ArmOK, OwnOK, ReadOK
    <3> QED BY <1>1, <1>2, <1>3, <2>1, <3>1, <3>2, <1>8, CommandDone
  <2>2. CASE lane' = lane
    <3>1. LaneOK(lane) /\ ArmOK(lane, pump) /\ OwnOK(lane, pump) /\ ReadOK(lane, pump, fill, NoRow)
      BY <1>2 DEF Sound
    <3> QED BY <1>1, <1>2, <1>3, <1>8, <2>2, <3>1, CommandDone
  <2> QED BY <1>6, <2>1, <2>2
<1>10. Head(queue).kind # "ResetAll" => SalesStay
  <2> SUFFICES ASSUME kind # "ResetAll" PROVE SalesStay
    BY <1>2
  <2>1. CASE lane' = lane
    BY <1>3, <2>1, StaySame
  <2>2. CASE lane.status \in {"Done", "Idle", "Offline"}
    BY <1>2, <2>2, StayOne
  <2> QED BY <1>7, <2>1, <2>2
<1> QED BY <1>9, <1>10

LEMMA CommandStepKeeps ==
    ASSUME WayneInv, CommandStep
    PROVE  WayneInv' /\ (Head(queue).kind # "ResetAll" => SalesStay)
<1>1. ASSUME NEW lost \in BOOLEAN, AuthorizeCommand(lost) PROVE WayneInv' /\ SalesStay
  BY <1>1, AuthorizeKeeps
<1>2. ASSUME NEW lost \in BOOLEAN, PreauthorizeCommand(lost) PROVE WayneInv' /\ SalesStay
  BY <1>2, PreauthorizeKeeps
<1>3. ~Take("CancelPreauth") /\ ~Take("Stop") /\ ~Take("EStop")
  BY Taken
<1>4. \A lost \in BOOLEAN : ~CancelCommand(lost) /\ ~StopCommand(lost) /\ ~EStopCommand(lost)
  BY <1>3 DEF CancelCommand, StopCommand, EStopCommand
<1> QED BY <1>1, <1>2, <1>4, ResetKeeps DEF CommandStep

----------------------------------------------------------------------------
(* The surroundings. *)

(* A lift or a return of the hose hands an arm on and makes none.              *)
LEMMA HandSound ==
    ASSUME NEW l, NEW p, NEW g, NEW row, Sound(l, p, g, row), PumpOK(p, g),
           NEW q \in PumpState, q.status \in {"Idle", "NozzleUp", "Authorized"},
           q.volume = 0, q.status = "Idle" => ~q.fromIdle, l.status # "Delivering",
           p.status # "Delivering", Armed(q) => Armed(p), Waits(queue) => p.volume = 0,
           fills \in Nat
    PROVE  Sound(l, q, 0, row) /\ PumpOK(q, 0)
<1>1. PumpOK(q, 0)
  BY DEF PumpOK
<1>2. ArmOK(l, q) /\ OwnOK(l, q)
  BY DEF Sound, ArmOK, OwnOK
<1>3. WaitOK(l, q, queue)
  BY DEF Sound, WaitOK
<1>4. ReadOK(l, q, 0, row)
  BY DEF ReadOK
<1> QED BY <1>1, <1>2, <1>3, <1>4 DEF Sound

LEMMA CustomerLiftsKeeps ==
    ASSUME WayneInv, NEW h \in Nozzle, CustomerLifts(h) PROVE WayneInv' /\ SalesStay
<1> DEFINE q == PumpLift(pump, h)
<1>1. /\ BudgetOK /\ BookOK /\ PumpOK(pump, fill) /\ Sound(lane, pump, fill, job.row)
      /\ LaneOK(lane) /\ fills \in Nat /\ pump \in PumpState
  BY Resting, Codes, PumpCases DEF BookOK
<1>2. LeftOn
  BY <1>1, SpendBudget DEF CustomerLifts
<1>3. pump.status \in {"Idle", "Authorized"} /\ pump.volume = 0 /\ lane.status # "Delivering"
  BY <1>1 DEF CustomerLifts, PumpOK, LaneOK
<1>4. /\ q \in PumpState /\ q.status = "NozzleUp" /\ q.volume = 0
      /\ q.fromIdle = pump.fromIdle
  <2>1. CASE pump.status = "Idle"
    <3>1. q = [pump EXCEPT !.nozzle = h, !.told = FALSE, !.status = "NozzleUp"]
      BY <2>1 DEF PumpLift
    <3> QED BY <1>1, <1>3, <3>1 DEF PumpState
  <2>2. CASE pump.status = "Authorized"
    <3>1. q = [pump EXCEPT !.nozzle = h, !.told = FALSE, !.status = "NozzleUp", !.volume = 0]
      BY <2>2 DEF PumpLift
    <3> QED BY <1>1, <1>3, <3>1, Codes, ZenonT(60) DEF PumpState
  <2> QED BY <1>3, <2>1, <2>2
<1>5. Armed(q) => Armed(pump)
  BY <1>1, <1>3, <1>4 DEF Armed, PumpOK
<1>6. pump' = q /\ UNCHANGED <<lane, at, job, queue, book, fills>>
      /\ fill' = IF q.volume = 0 THEN 0 ELSE fill
  BY DEF CustomerLifts, Outside, Register
<1> HIDE DEF q
<1>7. Sound(lane, q, 0, job.row) /\ PumpOK(q, 0)
  BY <1>1, <1>3, <1>4, <1>5, HandSound
<1> QED BY <1>2, <1>4, <1>6, <1>7, SurroundStep

LEMMA CustomerHolstersKeeps ==
    ASSUME WayneInv, CustomerHolsters PROVE WayneInv' /\ SalesStay
<1> DEFINE q == PumpHolster(pump)
<1>1. /\ BudgetOK /\ BookOK /\ PumpOK(pump, fill) /\ Sound(lane, pump, fill, job.row)
      /\ LaneOK(lane) /\ fills \in Nat /\ pump \in PumpState /\ pump.status # "Stopped"
      /\ pump.volume \in Nat
  BY Resting, Codes, PumpCases DEF BookOK, PumpOK
<1>2. LeftOn
  BY <1>1, LeftSame DEF CustomerHolsters
<1>3. PumpHolsterTold(pump) = pump
  BY <1>1 DEF PumpHolsterTold
<1>4. /\ pump' = q /\ q # pump /\ UNCHANGED <<lane, at, job, queue, book, fills>>
      /\ fill' = IF q.volume = 0 THEN 0 ELSE fill
  BY <1>3 DEF CustomerHolsters, Outside, Register
<1>5. CASE pump.status = "NozzleUp" /\ pump.fromIdle
  <2>1. q = [pump EXCEPT !.status = "Authorized", !.volume = 0]
    BY <1>5 DEF PumpHolster
  <2>2. q \in PumpState /\ q.status = "Authorized" /\ q.volume = 0
    BY <1>1, <2>1, Codes DEF PumpState
  <2>3. Armed(pump) /\ pump.volume = 0
    BY <1>1, <1>5 DEF Armed, PumpOK
  <2>4. lane.status # "Delivering"
    BY <1>1, <1>5, <2>3 DEF Sound, ArmOK
  <2> HIDE DEF q
  <2>5. Sound(lane, q, 0, job.row) /\ PumpOK(q, 0)
    BY <1>1, <1>5, <2>2, <2>3, <2>4, HandSound
  <2> QED BY <1>2, <1>4, <2>2, <2>5, SurroundStep
<1>6. CASE pump.status = "Authorized" /\ ~pump.fromIdle
  <2>1. q = [pump EXCEPT !.status = "Idle", !.volume = 0]
    BY <1>6 DEF PumpHolster
  <2>2. q \in PumpState /\ q.status = "Idle" /\ q.volume = 0 /\ q.fromIdle = pump.fromIdle
    BY <1>1, <2>1, Codes DEF PumpState
  <2> HIDE DEF q
  <2>3. Sound(lane, q, 0, job.row) /\ PumpOK(q, 0)
    BY <1>1, <1>6, <2>2, ClearedSound
  <2> QED BY <1>2, <1>4, <2>2, <2>3, SurroundStep
<1>7. CASE (pump.status = "NozzleUp" /\ ~pump.fromIdle) \/ pump.status \in {"Delivering", "Done"}
  <2>1. q = [pump EXCEPT !.status = "NozzleDown"]
    BY <1>7 DEF PumpHolster
  <2>2. q \in PumpState /\ q.status = "NozzleDown" /\ q.volume = pump.volume
    BY <1>1, <2>1 DEF PumpState
  <2> HIDE DEF q
  <2>3. fill' = fill
    BY <1>1, <1>4, <2>2 DEF PumpOK
  <2>4. PumpOK(q, fill)
    BY <1>1, <2>2 DEF PumpOK
  <2>5. ArmOK(lane, q) /\ OwnOK(lane, q)
    BY <1>1, <2>2 DEF Sound, ArmOK, OwnOK, Armed
  <2>6. WaitOK(lane, q, queue)
    BY <1>1, <2>2 DEF Sound, WaitOK, Armed
  <2>7. ReadOK(lane, q, fill, job.row)
    BY <1>1, <1>7, <2>2 DEF Sound, ReadOK
  <2>8. Sound(lane, q, fill, job.row)
    BY <1>1, <2>5, <2>6, <2>7 DEF Sound
  <2> QED BY <1>2, <1>4, <2>3, <2>4, <2>8, SurroundStep
<1>8. CASE /\ ~(pump.status = "NozzleUp") /\ pump.status \notin {"Delivering", "Done"}
           /\ ~(pump.status = "Authorized" /\ ~pump.fromIdle)
  <2>1. q = pump
    BY <1>1, <1>8 DEF PumpHolster
  <2> QED BY <1>4, <2>1
<1> QED BY <1>5, <1>6, <1>7, <1>8

(* Fuel flows on the fill that the register holds, or begins the next.         *)
LEMMA FuelFlowsKeeps ==
    ASSUME WayneInv, FuelFlows PROVE WayneInv' /\ SalesStay
<1> DEFINE q == PumpFlow(pump)
<1>1. /\ BudgetOK /\ QueueOK /\ BookOK /\ JobOK /\ PumpOK(pump, fill)
      /\ Sound(lane, pump, fill, job.row) /\ LaneOK(lane)
  BY Resting DEF WayneInv
<1>2. fills \in Nat /\ fill \in Nat /\ fill <= fills /\ MaxFills \in Nat /\ fills <= MaxFills
  BY <1>1, Codes DEF BookOK, PumpOK
<1>3. /\ pump \in PumpState /\ pump.status = "Delivering" /\ pump.volume \in 0 .. MaxVolume
      /\ pump.volume < MaxVolume /\ MaxVolume \in Nat
  BY <1>1, Codes DEF FuelFlows, PumpFlows, PumpOK, PumpState, Volume
<1>4. /\ pump' = q /\ UNCHANGED <<lane, at, job, queue, book, left>>
      /\ \/ pump.volume = 0 /\ fills < MaxFills /\ fills' = fills + 1 /\ fill' = fills + 1
         \/ pump.volume # 0 /\ fills' = fills /\ fill' = fill
  BY DEF FuelFlows
<1>5. /\ q \in PumpState /\ q.volume = pump.volume + 1 /\ q.status \in {"Delivering", "Done"}
  <2> DEFINE v == pump.volume + 1
             s == IF pump.limit # None /\ v >= pump.limit THEN "Done" ELSE pump.status
  <2>1. q = [pump EXCEPT !.volume = v, !.status = s]
    BY <1>3 DEF PumpFlow, PumpState
  <2>2. v \in Volume
    BY <1>3 DEF Volume
  <2>3. s \in {"Delivering", "Done"}
    BY <1>3
  <2> HIDE DEF v, s
  <2>4. q \in PumpState /\ q.volume = v /\ q.status = s
    BY <1>3, <2>1, <2>2, <2>3 DEF PumpState
  <2> QED BY <2>3, <2>4 DEF v
<1> HIDE DEF q
<1>6. q.volume \in Nat /\ q.volume # 0 /\ pump.volume <= q.volume
  BY <1>3, <1>5
<1>7. fills' \in 0 .. MaxFills /\ fills <= fills' /\ fill' \in 0 .. fills' /\ fill' # 0
  BY <1>1, <1>2, <1>4 DEF PumpOK
<1>8. BookOK'
  <2>1. \A f \in Fill : f > fills' => book[f] = <<>>
    BY <1>1, <1>2, <1>7 DEF BookOK, Fill
  <2> QED BY <1>1, <1>4, <1>7, <2>1 DEF BookOK
<1>9. PumpOK(pump, fill)'
  BY <1>4, <1>5, <1>6, <1>7 DEF PumpOK
<1>10. QueueOK' /\ BudgetOK'
  BY <1>1, <1>4 DEF QueueOK, BudgetOK
<1>11. RowOK(job.row) => RowOK(job.row)'
  BY <1>2, <1>4, <1>7 DEF RowOK, Fill
<1>12. JobOK'
  <2>1. DoOK(lane, job.do, job.row)'
    BY <1>1, <1>4, <1>11 DEF JobOK, DoOK
  <2> QED BY <1>1, <1>4, <2>1 DEF JobOK, NoJob
<1>13. job.row.fill \in Nat /\ job.row.fill <= fills
  BY <1>1, <1>2 DEF JobOK, DoOK, RowOK, NoRow, Fill
<1>14. LaneOK(lane)'
  <2>1. lane.fill \in Nat /\ lane.fill <= fills'
    BY <1>1, <1>2, <1>7, LaneCases DEF LaneOK
  <2> QED BY <1>1, <1>4, <2>1 DEF LaneOK
<1>15. /\ Armed(pump) /\ ~Waits(queue)
       /\ lane.status \in {"Authorizing", "NozzleUp", "Delivering", "Done"}
  BY <1>1, <1>3 DEF Armed, Sound, ArmOK, WaitOK
<1>16. ArmOK(lane, q) /\ OwnOK(lane, q) /\ WaitOK(lane, q, queue)
  BY <1>1, <1>3, <1>5, <1>15 DEF Armed, Sound, ArmOK, OwnOK, WaitOK
<1>17. ReadOK(lane, q, fill', job.row)
  <2>1. ReadOK(lane, pump, fill, job.row)
    BY <1>1 DEF Sound
  <2>2. ASSUME lane.status = "Delivering"
        PROVE  book[lane.fill] = <<>> /\ fill' = lane.fill /\ lane.volume <= q.volume
    <3>1. lane.fill # 0 /\ lane.volume \in Nat
      BY <1>1, <2>2, LaneCases
    <3>2. book[lane.fill] = <<>> /\ fill = lane.fill /\ lane.volume <= pump.volume
      BY <1>3, <2>1, <2>2 DEF ReadOK
    <3>3. pump.volume # 0
      BY <1>1, <3>1, <3>2 DEF PumpOK
    <3>4. lane.volume <= q.volume
      BY <1>3, <1>6, <3>1, <3>2
    <3> QED BY <1>4, <3>2, <3>3, <3>4
  <2>3. ASSUME book[fill'] # <<>> \/ job.row.fill = fill' PROVE lane.status = "Done"
    <3>1. CASE pump.volume # 0 /\ fill' = fill
      BY <1>1, <2>1, <2>3, <3>1 DEF PumpOK, ReadOK
    <3>2. CASE fill' = fills + 1 /\ fills < MaxFills
      <4>1. fill' \in Fill /\ fill' > fills
        BY <1>2, <3>2 DEF Fill
      <4>2. book[fill'] = <<>>
        BY <1>1, <4>1 DEF BookOK
      <4>3. job.row.fill # fill'
        BY <1>2, <1>13, <3>2
      <4> QED BY <2>3, <4>2, <4>3
    <3> QED BY <1>4, <3>1, <3>2
  <2> QED BY <2>2, <2>3 DEF ReadOK
<1>18. (ArmOK(lane, pump) /\ OwnOK(lane, pump) /\ WaitOK(lane, pump, queue))'
  BY <1>4, <1>16 DEF ArmOK, OwnOK, WaitOK
<1>19. ReadOK(lane, pump, fill, job.row)'
  BY <1>4, <1>17 DEF ReadOK
<1>20. Sound(lane, pump, fill, job.row)'
  BY <1>14, <1>18, <1>19 DEF Sound
<1>21. WayneInv'
  BY <1>8, <1>9, <1>10, <1>12, <1>20 DEF WayneInv
<1> QED BY <1>4, <1>21, StaySame

LEMMA PumpStepKeeps ==
    ASSUME WayneInv, PumpStep PROVE WayneInv' /\ SalesStay
<1>1. ASSUME NEW h \in Nozzle, CustomerLifts(h) PROVE WayneInv' /\ SalesStay
  BY <1>1, CustomerLiftsKeeps
<1> QED BY <1>1, CustomerHolstersKeeps, FuelFlowsKeeps DEF PumpStep

----------------------------------------------------------------------------
(* The theorems. *)

LEMMA WayneInit == OrdersAlone /\ Init => WayneInv
<1> SUFFICES ASSUME OrdersAlone, Init PROVE WayneInv
  OBVIOUS
<1>1. /\ left \in Budgets /\ queue = <<>> /\ at = "rest" /\ job = NoJob /\ lane = FreshLane
      /\ fill = 0 /\ fills = 0 /\ book = [f \in Fill |-> <<>>]
  BY DEF Init
<1>2. PICK h \in Nozzle : pump = PumpReset(h)
  BY DEF Init
<1>3. BudgetOK
  BY <1>1, BudgetsAssumption DEF OrdersAlone, BudgetOK
<1>4. ~Waits(queue)
  BY <1>1 DEF Waits
<1>5. QueueOK
  <2>1. left["queue"] \in Nat /\ <<>> \in Seq(Command) /\ Len(<<>>) = 0
    BY <1>3 DEF BudgetOK, Budget
  <2> QED BY <1>1, <2>1 DEF QueueOK
<1>6. BookOK
  <2>1. \A f \in Fill : book[f] = <<>>
    BY <1>1
  <2>2. book \in [Fill -> Seq(Row)]
    BY <1>1
  <2>3. fills \in 0 .. MaxFills
    BY <1>1, Codes
  <2> QED BY <2>1, <2>2, <2>3 DEF BookOK
<1>7. pump \in PumpState /\ pump.status = "Idle" /\ ~pump.fromIdle /\ pump.volume = 0
  BY <1>2, Codes DEF PumpReset, PumpState
<1>8. PumpOK(pump, fill) /\ ~Armed(pump)
  BY <1>1, <1>7 DEF PumpOK, Armed
<1>9. /\ lane \in LaneShape /\ lane.status = "Offline" /\ lane.pre = None /\ lane.volume = 0
      /\ lane.fill = 0
  BY <1>1, Codes DEF FreshLane, LaneShape
<1> HIDE DEF NoRow
<1>10. job.do = "none" /\ job.row = NoRow /\ job.kicks = FALSE
  BY <1>1 DEF NoJob
<1>11. JobOK
  BY <1>1, <1>10 DEF JobOK, DoOK, NoJob
<1>12. LaneOK(lane)
  BY <1>1, <1>9 DEF LaneOK
<1>13. Sound(lane, pump, fill, job.row)
  BY <1>1, <1>4, <1>7, <1>8, <1>9, <1>12 DEF Sound, ArmOK, OwnOK, WaitOK, ReadOK
<1> QED BY <1>3, <1>5, <1>6, <1>8, <1>11, <1>13 DEF WayneInv

LEMMA WayneStep ==
    ASSUME WayneInv, [Next]_vars
    PROVE  /\ WayneInv'
           /\ (CommandStep /\ Head(queue).kind = "ResetAll") \/ Faulted \/ SalesStay
<1>1. CASE PollStep
  BY <1>1, PollStepKeeps
<1>2. CASE ActStep
  BY <1>2, ActStepKeeps
<1>3. CASE ApiStep
  BY <1>3, ApiStepKeeps
<1>4. CASE CommandStep
  BY <1>4, CommandStepKeeps
<1>5. CASE PumpStep
  BY <1>5, PumpStepKeeps
<1>6. ~Crash
  BY Unaffordable DEF Crash
<1>7. CASE UNCHANGED vars
  <2>1. UNCHANGED <<pump, fill, fills, lane, at, job, queue, book, left>>
    BY <1>7 DEF vars
  <2>2. /\ BudgetOK /\ PumpOK(pump, fill) /\ Sound(lane, pump, fill, job.row)
    BY Resting
  <2>3. LeftOn
    BY <2>1, <2>2, LeftSame
  <2> QED BY <2>1, <2>2, <2>3, SurroundStep
<1> QED BY <1>1, <1>2, <1>3, <1>4, <1>5, <1>6, <1>7 DEF Next

LEMMA WayneAlways == OrdersAlone /\ Spec => []WayneInv
<1>1. WayneInv /\ [Next]_vars => WayneInv'
  BY WayneStep
<1> QED BY <1>1, WayneInit, PTL DEF Spec

(* Until the hose is lifted nothing on the pump waits for an order that a      *)
(* cancellation would have to take back.                                       *)
THEOREM WayneHolsteredArmsNothing == OrdersAlone /\ Spec => []HolsteredArmsNothing
<1>1. WayneInv => HolsteredArmsNothing
  BY DEF WayneInv, Sound, ArmOK, Armed, HolsteredArmsNothing
<1> QED BY <1>1, WayneAlways, PTL

(* A fill is billed once, however often the pump repeats its last reading and  *)
(* whatever the next customer, order or lane reset does meanwhile.             *)
THEOREM WayneBillsOnce == OrdersAlone /\ Spec => []BilledOnce
<1>1. WayneInv => BilledOnce
  BY DEF WayneInv, BookOK, BilledOnce
<1> QED BY <1>1, WayneAlways, PTL

(* A metered sale stays in the lane or in the step in progress until it is in  *)
(* the database: no frame, order, lane reset or lost exchange drops it, but a  *)
(* reset of all lanes may, and so may its failed save.                         *)
THEOREM WayneSaleKept == OrdersAlone /\ Spec => SaleKept
<1> DEFINE Kind == CommandStep /\ Head(queue).kind \in {"CancelPreauth", "ResetAll"}
           Lost == left'.faults < left.faults \/ left'.crashes < left.crashes
                      \/ left'.closes < left.closes
           Step == Kind \/ Lost \/ SalesStay
<1>1. WayneInv /\ [Next]_vars => [Step]_vars
  BY WayneStep DEF Faulted
<1>2. OrdersAlone /\ Spec => [][Step]_vars
  BY <1>1, WayneAlways, PTL DEF Spec
<1>3. [][Step]_vars => SaleKept
  BY PTL DEF SaleKept, SalesStay
<1> QED BY <1>2, <1>3
=============================================================================
