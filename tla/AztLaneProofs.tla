---------------------------- MODULE AztLaneProofs ----------------------------
(***************************************************************************)
(* What holds of the AZT lane for any card, any dose and any number of     *)
(* orders, shifts, crashes, faults and interventions at the pump.          *)
(***************************************************************************)
EXTENDS AztLane, TLAPS

(* Steps that work on the hose job.net. *)
OnHose ==
    {"live", "registers", "identify", "commit", "confirm", "release",
     "query", "price", "before", "armSave", "arm", "start"}

Ordering == {"query", "price", "before", "armSave", "arm", "start"}

(* An arm the lane has been granted but not sent. *)
Due == IF at \in {"before", "armSave", "arm"} THEN 1 ELSE 0

(* An armed pump has room for another unit; fuel in a register has an arm. *)
PumpsSound ==
    \A h \in Hose :
        /\ PumpArmed(pump[h]) => pump[h].volume < MaxVolume
        /\ PumpArmed(pump[h]) \/ pump[h].volume > 0 => arm[h] # 0

StepsSound ==
    /\ at \in OnHose => job.net \in Hose
    /\ at = "commit" => job.id \in SaleId
    /\ at \in Ordering => loaded
    /\ at \in {"armSave", "arm"} => Owned(lane)
    /\ at \in {"query", "price"} => asked < MaxOrders

ArmsCounted == arms + Due <= asked + foreign

TypeInv == TypeOK /\ PumpsSound /\ StepsSound /\ ArmsCounted

----------------------------------------------------------------------------
(* Commands and movements of a pump keep its record well formed. *)

(* The card has a first hose. *)
LEMMA FirstHoseIsHose == FirstHose \in Hose
BY HoseAssumption DEF FirstHose

(* The hose a nozzle selects is one of the card. *)
LEMMA NetIsHose ==
    ASSUME NEW nozzle \in Hose \cup {None}
    PROVE  NetOf(nozzle) \in Hose
BY FirstHoseIsHose DEF NetOf

(* Ending and renewing a sale keep the pump well formed. *)
LEMMA PumpRegisters ==
    ASSUME NEW p \in PumpState
    PROVE  /\ PumpFinish(p) \in PumpState
           /\ PumpFinish(p).status = "Finished"
           /\ PumpFinish(p).volume = p.volume
           /\ PumpRenew(p) \in PumpState
           /\ PumpRenew(p).status = p.status
           /\ PumpRenew(p).volume = 0
<1> DEFINE finished(n) == [p EXCEPT !.status = "Finished", !.serial = n]
<1> DEFINE renewed(n) == [p EXCEPT !.volume = 0, !.serial = n]
<1> MaxVolume \in Nat /\ 0 \in 0 .. MaxVolume /\ "Finished" \in PumpStatus
  BY MaxVolumeAssumption DEF PumpStatus
<1>1. ASSUME NEW n \in Nat
      PROVE  /\ finished(n) \in PumpState
             /\ finished(n).status = "Finished"
             /\ finished(n).volume = p.volume
  <2>1. finished(n) \in PumpState
    BY DEF PumpState
  <2>2. finished(n).status = "Finished"
    BY DEF PumpState
  <2>3. finished(n).volume = p.volume
    BY DEF PumpState
  <2> QED BY <2>1, <2>2, <2>3
<1>2. ASSUME NEW n \in Nat
      PROVE  /\ renewed(n) \in PumpState
             /\ renewed(n).status = p.status
             /\ renewed(n).volume = 0
  <2>1. renewed(n) \in PumpState
    BY Zenon DEF PumpState
  <2>2. renewed(n).status = p.status
    BY DEF PumpState
  <2>3. renewed(n).volume = 0
    BY DEF PumpState
  <2> QED BY <2>1, <2>2, <2>3
<1>3. p.serial \in Nat /\ p.serial + 1 \in Nat /\ p.serial + p.volume \in Nat
  BY MaxVolumeAssumption DEF PumpState
<1>4. PumpFinish(p) \in {finished(p.serial), finished(p.serial + p.volume)}
  BY Zenon DEF PumpFinish
<1>5. PumpRenew(p) \in {renewed(p.serial), renewed(p.serial + 1)}
  BY Zenon DEF PumpRenew
<1> HIDE DEF finished, renewed
<1> QED BY <1>1, <1>2, <1>3, <1>4, <1>5

(* The other commands and movements keep the volume and arm nothing. *)
LEMMA PumpKeepsSale ==
    ASSUME NEW p \in PumpState,
           NEW q \in {PumpStart(p), PumpStop(p), PumpConfirm(p), PumpLift(p),
                      PumpPreset(p), PumpHolster(p), PumpClear(p)}
    PROVE  /\ q \in PumpState
           /\ q.volume = p.volume
           /\ PumpArmed(q) => PumpArmed(p)
<1> DEFINE Kept(r) ==
      r \in PumpState /\ r.volume = p.volume /\ (PumpArmed(r) => PumpArmed(p))
<1> USE DEF PumpState, PumpStatus, PumpArmed, PumpIdle, PumpIdleStatus
<1>1. Kept(PumpStart(p)) /\ Kept(PumpConfirm(p)) /\ Kept(PumpPreset(p))
  BY DEF PumpStart, PumpConfirm, PumpPreset
<1>2. Kept(PumpLift(p))
  BY DEF PumpLift
<1>3. Kept(PumpStop(p))
  BY PumpRegisters DEF PumpStop
<1>4. Kept(PumpHolster(p))
  <2> DEFINE down == [p EXCEPT !.lifted = FALSE]
  <2>1. down \in PumpState /\ down.volume = p.volume
    OBVIOUS
  <2>2. Kept(PumpFinish(down))
    BY <2>1, PumpRegisters
  <2> QED BY <2>1, <2>2 DEF PumpHolster
<1>5. Kept(PumpClear(p))
  <2> DEFINE done == IF PumpArmed(p) THEN PumpFinish(p) ELSE p
  <2>1. done \in PumpState /\ done.volume = p.volume
    BY PumpRegisters
  <2> QED BY <2>1 DEF PumpClear
<1> HIDE DEF Kept
<1> q \in PumpState /\ q.volume = p.volume /\ (PumpArmed(q) => PumpArmed(p))
  BY <1>1, <1>2, <1>3, <1>4, <1>5 DEF Kept
<1> QED OBVIOUS

(* A unit of fuel either leaves room for another or ends the sale. *)
LEMMA PumpFlowType ==
    ASSUME NEW p \in PumpState, PumpArmed(p), p.volume < MaxVolume
    PROVE  /\ PumpFlow(p) \in PumpState
           /\ PumpArmed(PumpFlow(p)) => PumpFlow(p).volume < MaxVolume
<1> DEFINE more == [p EXCEPT !.volume = @ + 1]
<1>1. more \in PumpState /\ more.volume = p.volume + 1
  BY MaxVolumeAssumption DEF PumpState
<1> QED BY <1>1, PumpRegisters, MaxVolumeAssumption DEF PumpFlow, PumpArmed, PumpState

----------------------------------------------------------------------------
(* The lane's updates keep its record well formed. *)

(* A lane out of a fresh process is well formed. *)
LEMMA FreshLaneType == FreshLane \in LaneState
BY DEF FreshLane, LaneState, Status

(* So is a lane whose order was cancelled, *)
LEMMA CancelOrderType ==
    ASSUME NEW l \in LaneState
    PROVE  CancelOrder(l) \in LaneState
BY DEF CancelOrder, LaneState, Status

(* one with a stop requested, *)
LEMMA StopIntentType ==
    ASSUME NEW l \in LaneState, NEW targets \in SUBSET Hose, NEW cancel \in BOOLEAN
    PROVE  StopIntent(l, targets, cancel) \in LaneState
BY DEF StopIntent, LaneState, Status

(* one that took an order, *)
LEMMA OrderIntentType ==
    ASSUME NEW h \in Hose, NEW id \in SaleId, NEW s \in Shift
    PROVE  OrderIntent(h, id, s) \in LaneState
BY FreshLaneType DEF OrderIntent, LaneState, Status

(* one shown idle, *)
LEMMA ShowIdleType ==
    ASSUME NEW l \in LaneState, NEW h \in Hose, NEW lifted \in BOOLEAN
    PROVE  ShowIdle(l, h, lifted) \in LaneState
BY DEF ShowIdle, LaneState, Status

(* one whose sale is saved, *)
LEMMA DurableType ==
    ASSUME NEW l \in LaneState
    PROVE  Durable(l) \in LaneState
BY DEF Durable, LaneState, Status

(* one dismissed, *)
LEMMA DismissedType ==
    ASSUME NEW l \in LaneState
    PROVE  Dismissed(l) \in LaneState
BY FreshLaneType DEF Dismissed, LaneState, Status

(* the row the journal keeps of it, *)
LEMMA SnapshotType ==
    ASSUME NEW l \in LaneState
    PROVE  Snapshot(l) \in LaneState \cup {None}
BY DEF Snapshot, LaneState, Status

(* the lane restored from that row, *)
LEMMA RestoredType ==
    ASSUME NEW l \in LaneState, journal \in LaneState \cup {None}
    PROVE  Restored(l) \in LaneState
<1>1. CASE journal = None
  BY <1>1 DEF Restored
<1>2. CASE journal # None
  <2>1. journal \in LaneState
    BY <1>2
  <2>2. /\ (journal.stops \cup l.stops) \in SUBSET Hose
        /\ (journal.stopReq \/ l.stopReq) \in BOOLEAN
        /\ (journal.cancelReq \/ l.cancelReq) \in BOOLEAN
    BY <2>1 DEF LaneState
  <2>3. \A st \in SUBSET Hose, a, b \in BOOLEAN :
          [journal EXCEPT !.stops = st, !.stopReq = a, !.cancelReq = b] \in LaneState
    BY <2>1 DEF LaneState
  <2> QED BY <1>2, <2>2, <2>3, Zenon DEF Restored
<1> QED BY <1>1, <1>2

(* one whose pump took the confirmation, *)
LEMMA ReleaseType ==
    ASSUME NEW l \in LaneState, NEW net
    PROVE  Release(l, net) \in LaneState
<1> DEFINE free == IF Owned(l) \/ l.status = "Finalizing" THEN CancelOrder(l) ELSE l
<1>1. free \in LaneState
  BY CancelOrderType
<1> HIDE DEF free
<1>2. [free EXCEPT !.pending = FALSE, !.stopReq = FALSE, !.cancelReq = FALSE,
                   !.stops = @ \ {net}] \in LaneState
  BY <1>1 DEF LaneState
<1> QED BY <1>2 DEF Release, free

(* and one that settled an idle hose. *)
LEMMA SettleIdleType ==
    ASSUME NEW l \in LaneState, NEW h
    PROVE  SettleIdle(l, h) \in LaneState
<1> DEFINE stopped == [l EXCEPT !.stops = @ \ {h}]
<1> DEFINE acked   == IF Owned(stopped) THEN CancelOrder(stopped) ELSE stopped
<1> DEFINE settled == IF stopped.pending
                    THEN [acked EXCEPT !.pending = FALSE, !.stopReq = FALSE, !.cancelReq = FALSE]
                    ELSE stopped
<1>1. stopped \in LaneState
  BY DEF LaneState
<1>2. acked \in LaneState
  BY <1>1, CancelOrderType
<1> HIDE DEF stopped, acked
<1>3. settled \in LaneState
  BY <1>1, <1>2 DEF LaneState
<1> HIDE DEF settled
<1>4. [settled EXCEPT !.stopReq = FALSE, !.cancelReq = FALSE] \in LaneState
  BY <1>3 DEF LaneState
<1> QED BY <1>3, <1>4 DEF SettleIdle, settled, acked, stopped

----------------------------------------------------------------------------
(* What the wire may do to the pumps keeps their part of the invariant. *)

PumpsOK ==
    /\ pump \in [Hose -> PumpState]
    /\ arm \in [Hose -> Arm \cup {0}]
    /\ arms \in Arm \cup {0}
    /\ orders \subseteq [arm : Arm, shift : Shift]
    /\ cleared \subseteq [arm : Arm, volume : 1 .. MaxVolume]
    /\ PumpsSound

(* A command that keeps the sale and arms nothing. *)
LEMMA WireKeeps ==
    ASSUME PumpsOK, NEW h \in Hose, NEW q \in PumpState,
           q.volume = pump[h].volume, PumpArmed(q) => PumpArmed(pump[h]),
           Wire(h, q)
    PROVE  PumpsOK'
BY DEF PumpsOK, PumpsSound, Wire

(* The registers given up name the arm they belong to. *)
LEMMA GiveUpType ==
    ASSUME PumpsOK, NEW h \in Hose
    PROVE  GiveUp(h) \subseteq [arm : Arm, volume : 1 .. MaxVolume]
<1>1. pump[h] \in PumpState /\ pump[h].volume \in 0 .. MaxVolume
  BY DEF PumpsOK, PumpState
<1>2. CASE pump[h].volume > 0
  <2>1. arm[h] \in Arm
    BY <1>2 DEF PumpsOK, PumpsSound
  <2>2. pump[h].volume \in 1 .. MaxVolume
    BY <1>1, <1>2, MaxVolumeAssumption
  <2> QED BY <2>1, <2>2 DEF GiveUp
<1>3. CASE ~(pump[h].volume > 0)
  BY <1>3 DEF GiveUp
<1> QED BY <1>2, <1>3

(* A command that clears the registers and does not arm. *)
LEMMA WireClearingKeeps ==
    ASSUME PumpsOK, NEW h \in Hose, NEW q \in PumpState,
           q.volume \in {0, pump[h].volume}, PumpArmed(q) => PumpArmed(pump[h]),
           WireClearing(h, q)
    PROVE  PumpsOK'
<1>1. cleared' \subseteq [arm : Arm, volume : 1 .. MaxVolume]
  BY GiveUpType DEF WireClearing, PumpsOK
<1>2. pump' \in [Hose -> PumpState]
  BY DEF WireClearing, PumpsOK
<1>3. PumpsSound'
  BY MaxVolumeAssumption DEF WireClearing, PumpsOK, PumpsSound
<1> QED BY <1>1, <1>2, <1>3 DEF PumpsOK, WireClearing

(* An arm takes the next number. *)
LEMMA ArmHoseKeeps ==
    ASSUME PumpsOK, NEW h \in Hose, NEW sent \in SUBSET [arm : Arm, shift : Shift],
           PumpReady(pump[h]), arms + 1 \in Arm, ArmHose(h, sent),
           cleared' \in {cleared, cleared \cup GiveUp(h)}
    PROVE  PumpsOK'
<1> DEFINE q == PumpAuthorize(pump[h])
<1>1. q \in PumpState /\ q.volume = 0
  BY PumpRegisters DEF PumpsOK, PumpAuthorize, PumpState, PumpStatus
<1>2. cleared' \subseteq [arm : Arm, volume : 1 .. MaxVolume]
  BY GiveUpType DEF PumpsOK
<1>3. pump' = [pump EXCEPT ![h] = q] /\ arm' = [arm EXCEPT ![h] = arms + 1]
  BY DEF ArmHose
<1> HIDE DEF q
<1>4. pump' \in [Hose -> PumpState] /\ arm' \in [Hose -> Arm \cup {0}]
  BY <1>1, <1>3 DEF PumpsOK
<1>5. PumpsSound'
  <2> SUFFICES ASSUME NEW g \in Hose
               PROVE  /\ PumpArmed(pump'[g]) => pump'[g].volume < MaxVolume
                      /\ PumpArmed(pump'[g]) \/ pump'[g].volume > 0 => arm'[g] # 0
    BY DEF PumpsSound
  <2>1. CASE g = h
    BY <2>1, <1>1, <1>3, MaxVolumeAssumption DEF PumpsOK, Arm
  <2>2. CASE g # h
    BY <2>2, <1>3 DEF PumpsOK, PumpsSound
  <2> QED BY <2>1, <2>2
<1> QED BY <1>2, <1>4, <1>5 DEF PumpsOK, ArmHose

----------------------------------------------------------------------------
(* The invariant in parts, each disturbed by few actions. *)

MemOK ==
    /\ lane \in LaneState
    /\ loaded \in BOOLEAN
    /\ cached \in LaneState \cup {None}
    /\ journal \in LaneState \cup {None}

Entry == [id : SaleId, arm : Arm \cup {0}, volume : 0 .. MaxVolume, shift : Shift]

BookOK ==
    /\ recorded \subseteq Entry
    /\ credit \in [Shift \ {0} -> Nat]
    /\ shift \in Shift

Job == [net : Hose \cup {None}, settle : BOOLEAN, volume : 0 .. MaxVolume,
        id : SaleId \cup {None}, arm : Arm \cup {0}, todo : SUBSET Hose]

LoopOK == at \in StepName /\ job \in Job

BoundsOK ==
    /\ asked \in 0 .. MaxOrders
    /\ foreign \in 0 .. MaxForeign
    /\ crashes \in 0 .. MaxCrashes
    /\ clears \in 0 .. MaxClears
    /\ faults \in 0 .. MaxFaults

Parts == PumpsOK /\ MemOK /\ BookOK /\ LoopOK /\ BoundsOK /\ StepsSound /\ ArmsCounted

(* The parts are the invariant. *)
LEMMA PartsAreTypeInv == Parts <=> TypeInv
BY Zenon DEF Parts, TypeInv, TypeOK, PumpsOK, MemOK, BookOK, LoopOK, BoundsOK, Entry, Job

(* A loop at rest has well-formed locals. *)
LEMMA NoJobType == NoJob \in Job
BY MaxVolumeAssumption DEF NoJob, Job

(* Saving and loading the journal. *)
LEMMA LoadKeeps ==
    ASSUME MemOK, Load
    PROVE  lane' \in LaneState /\ loaded' = TRUE /\ cached' \in LaneState \cup {None}
BY RestoredType DEF MemOK, Load, Known, KnownRow

(* A save that succeeds. *)
LEMMA SaveOkKeeps ==
    ASSUME MemOK, SaveOk
    PROVE  MemOK' /\ lane' = Known /\ loaded' = TRUE
<1>1. Known \in LaneState /\ KnownRow \in LaneState \cup {None}
  BY RestoredType DEF MemOK, Known, KnownRow
<1>2. Snapshot(Known) \in LaneState \cup {None}
  BY <1>1, SnapshotType
<1> QED BY <1>1, <1>2 DEF MemOK, SaveOk

(* A save that fails, before or after the row was read. *)
LEMMA SaveFailsKeeps ==
    ASSUME MemOK, BoundsOK, SaveFails
    PROVE  MemOK' /\ faults' \in 0 .. MaxFaults /\ (loaded => lane' = lane /\ loaded')
<1>1. faults' \in 0 .. MaxFaults
  BY BoundAssumption DEF SaveFails, Fault, BoundsOK
<1>2. MemOK'
  BY LoadKeeps DEF SaveFails, MemOK, memVars, diskVars, Load
<1>3. loaded => lane' = lane /\ loaded'
  BY DEF SaveFails, MemOK, memVars, diskVars, Load, Known
<1> QED BY <1>1, <1>2, <1>3

(* A save that lands after its allowance. *)
LEMMA SaveLateKeeps ==
    ASSUME MemOK, BoundsOK, SaveLate
    PROVE  MemOK' /\ faults' \in 0 .. MaxFaults
<1>1. Known \in LaneState
  BY RestoredType DEF MemOK, Known
<1>2. Snapshot(Known) \in LaneState \cup {None}
  BY <1>1, SnapshotType
<1>3. faults' \in 0 .. MaxFaults
  BY BoundAssumption DEF SaveLate, Fault, BoundsOK
<1> QED BY <1>2, <1>3, LoadKeeps DEF SaveLate, MemOK, Load

----------------------------------------------------------------------------
(* Every step keeps every part. *)

(* A step that leaves the pumps alone keeps their part. *)
LEMMA PumpsFrame ==
    ASSUME PumpsOK, UNCHANGED pumpVars
    PROVE  PumpsOK'
BY DEF PumpsOK, PumpsSound, pumpVars

(* A step that leaves the book alone keeps its part. *)
LEMMA BookFrame ==
    ASSUME BookOK, UNCHANGED <<recorded, credit, shift>>
    PROVE  BookOK'
BY DEF BookOK

(* A step that counts nothing keeps the bounds. *)
LEMMA BoundsFrame ==
    ASSUME BoundsOK, UNCHANGED counters
    PROVE  BoundsOK'
BY DEF BoundsOK, counters

(* No new arm: the count of arms stays below the orders and interventions. *)
LEMMA CountSame ==
    ASSUME Parts, UNCHANGED <<arms, asked, foreign>>, Due' <= Due
    PROVE  ArmsCounted'
<1>1. arms \in Nat /\ asked \in Nat /\ foreign \in Nat
  BY BoundAssumption DEF Parts, PumpsOK, BoundsOK, Arm
<1>2. Due \in Nat /\ Due' \in Nat
  BY DEF Due
<1>3. arms + Due <= asked + foreign
  BY DEF Parts, ArmsCounted
<1>4. \A a, b, c, d, e \in Nat : a + d <= b + c /\ e <= d => a + e <= b + c
  OBVIOUS
<1>5. arms + Due' <= asked + foreign
  BY <1>1, <1>2, <1>3, <1>4
<1> QED BY <1>5, Zenon DEF ArmsCounted

(* A keypad dose only raises the right-hand side. *)
LEMMA CountMore ==
    ASSUME Parts, UNCHANGED <<arms, asked>>, foreign' \in Nat, foreign <= foreign', Due' = Due
    PROVE  ArmsCounted'
<1>1. arms \in Nat /\ asked \in Nat /\ foreign \in Nat /\ Due \in Nat
  BY BoundAssumption DEF Parts, PumpsOK, BoundsOK, Arm, Due
<1>2. arms + Due <= asked + foreign
  BY DEF Parts, ArmsCounted
<1>3. \A a, b, c, d, e \in Nat : a + d <= b + c /\ c <= e => a + d <= b + e
  OBVIOUS
<1>4. arms + Due <= asked + foreign'
  BY <1>1, <1>2, <1>3
<1> QED BY <1>4, Zenon DEF ArmsCounted

(* No counter moves. *)
LEMMA CountFrame ==
    ASSUME Parts, UNCHANGED <<arms, counters>>, Due' <= Due
    PROVE  ArmsCounted'
BY CountSame DEF counters

(* A step of the loop that only changes the lane and where the loop goes. *)
LEMMA LaneStep ==
    ASSUME Parts, lane' \in LaneState, LoopOK', StepsSound', Due' <= Due,
           UNCHANGED <<pumpVars, diskVars, loaded, cached, shift, counters>>
    PROVE  Parts'
<1>1. PumpsOK' /\ BookOK' /\ BoundsOK'
  BY PumpsFrame, BookFrame, BoundsFrame DEF Parts, diskVars
<1>2. MemOK'
  BY DEF Parts, MemOK, diskVars
<1>3. ArmsCounted'
  BY CountFrame DEF pumpVars
<1> QED BY <1>1, <1>2, <1>3 DEF Parts

(* A step that ends its poll or command leaves nothing half done. *)
LEMMA LeaveKeeps ==
    ASSUME Leave
    PROVE  LoopOK' /\ StepsSound' /\ Due' = 0
BY NoJobType DEF Leave, LoopOK, StepName, StepsSound, Due, OnHose, Ordering

(* At most one arm is granted and not sent. *)
LEMMA DueIsNat == Due \in Nat /\ (at \notin {"before", "armSave", "arm"} => Due = 0)
BY DEF Due

(* Every step of a poll keeps the parts. *)
LEMMA PollKeeps ==
    ASSUME Parts, Poll
    PROVE  Parts'
<1> USE FirstHoseIsHose
<1>1. ASSUME BeginPoll
      PROVE  Parts'
  <2>1. lane' \in LaneState /\ loaded' = TRUE /\ cached' \in LaneState \cup {None}
    BY <1>1, LoadKeeps DEF BeginPoll, Parts
  <2>2. PumpsOK' /\ BookOK' /\ BoundsOK'
    BY <1>1, PumpsFrame, BookFrame, BoundsFrame DEF Parts, BeginPoll, diskVars
  <2>3. MemOK'
    BY <1>1, <2>1 DEF BeginPoll, Parts, MemOK, diskVars
  <2>4. LoopOK'
    <3>1. Known.stops \in SUBSET Hose
      BY RestoredType DEF Parts, MemOK, Known, LaneState
    <3>2. job' \in Job
      BY <1>1, <3>1, NoJobType DEF BeginPoll, Job
    <3> QED BY <1>1, <3>2 DEF BeginPoll, LoopOK, StepName
  <2>5. StepsSound' /\ Due = 0 /\ Due' = 0
    BY <1>1 DEF BeginPoll, StepsSound, Due, OnHose, Ordering
  <2>6. ArmsCounted'
    BY <1>1, <2>5, CountFrame DEF BeginPoll, pumpVars
  <2> QED BY <2>2, <2>3, <2>4, <2>5, <2>6 DEF Parts
<1>2. ASSUME NEW h \in Hose, NEW heard \in BOOLEAN, NEW sent \in BOOLEAN, ProbeStop(h, heard, sent)
      PROVE  Parts'
  <2>1. pump[h] \in PumpState /\ lane \in LaneState /\ job \in Job
    BY DEF Parts, PumpsOK, MemOK, LoopOK
  <2>2. PumpsOK'
    <3>1. CASE heard /\ StopProven(pump[h])
      BY <1>2, <3>1, PumpsFrame DEF ProbeStop, Parts
    <3>2. CASE ~(heard /\ StopProven(pump[h]))
      <4> DEFINE q == IF sent THEN PumpStop(pump[h]) ELSE pump[h]
      <4>1. q \in PumpState /\ q.volume = pump[h].volume
              /\ (PumpArmed(q) => PumpArmed(pump[h]))
        BY <2>1, PumpKeepsSale
      <4>2. Wire(h, q)
        BY <1>2, <3>2 DEF ProbeStop
      <4> HIDE DEF q
      <4> QED BY <4>1, <4>2, WireKeeps DEF Parts
    <3> QED BY <3>1, <3>2
  <2>3. lane' \in LaneState
    BY <1>2, <2>1 DEF ProbeStop, LaneState
  <2>4. MemOK' /\ BookOK' /\ BoundsOK'
    BY <1>2, <2>3, BookFrame, BoundsFrame DEF ProbeStop, Parts, MemOK, diskVars
  <2>5. LoopOK'
    BY <1>2, <2>1 DEF ProbeStop, Parts, LoopOK, Job
  <2>6. StepsSound' /\ Due = 0 /\ Due' = 0
    BY <1>2 DEF ProbeStop, StepsSound, Due, OnHose, Ordering
  <2>7. ArmsCounted'
    <3>1. UNCHANGED <<arms, counters>>
      BY <1>2 DEF ProbeStop, Wire, pumpVars
    <3> QED BY <2>6, <3>1, CountFrame
  <2> QED BY <2>2, <2>4, <2>5, <2>6, <2>7 DEF Parts
<1>3. ASSUME NEW heard \in SUBSET Hose, ObserveNothing(heard)
      PROVE  Parts'
  <2>1. lane' \in LaneState
    BY <1>3 DEF ObserveNothing, ShowMissed, Parts, MemOK, LaneState, Status
  <2> QED BY <1>3, <2>1, LaneStep, LeaveKeeps, DueIsNat DEF ObserveNothing, Observing
<1>4. ASSUME NEW heard \in SUBSET Hose, NEW h \in heard, ObserveIdle(h, heard)
      PROVE  Parts'
  <2> DEFINE settled == SettleIdle(lane, h)
  <2>1. settled \in LaneState
    BY SettleIdleType DEF Parts, MemOK
  <2>2. NetOf(settled.nozzle) \in Hose
    BY <2>1, NetIsHose DEF LaneState
  <2>3. ShowIdle(settled, h, pump[h].status = "OffLifted") \in LaneState
    BY <2>1, ShowIdleType
  <2> HIDE DEF settled
  <2>4. lane' \in LaneState
    BY <1>4, <2>1, <2>3 DEF ObserveIdle, settled
  <2>5. LoopOK' /\ StepsSound' /\ Due' = 0
    <3>1. CASE Leave
      BY <3>1, LeaveKeeps
    <3>2. CASE at' = "registers" /\ job' = [NoJob EXCEPT !.net = NetOf(settled.nozzle)]
      BY <2>2, <3>2, NoJobType DEF LoopOK, StepName, Job, StepsSound, Due, OnHose, Ordering
    <3> QED BY <1>4, <3>1, <3>2 DEF ObserveIdle, settled
  <2> QED BY <1>4, <2>4, <2>5, LaneStep, DueIsNat DEF ObserveIdle, Observing
<1>5. ASSUME NEW heard \in SUBSET Hose, NEW h \in heard, NEW expired \in BOOLEAN,
             ObserveArmed(h, heard, expired)
      PROVE  Parts'
  <2> DEFINE seen == [lane EXCEPT !.before = None]
  <2> DEFINE target == {NetOf(lane.nozzle)}
  <2>1. lane \in LaneState /\ seen \in LaneState /\ target \in SUBSET Hose
    BY NetIsHose DEF Parts, MemOK, LaneState
  <2>2. /\ StopIntent(lane, target, TRUE) \in LaneState
        /\ StopIntent(seen, target, TRUE) \in LaneState
    BY <2>1, StopIntentType
  <2>3. [seen EXCEPT !.nozzle = h,
                     !.status = IF lane.stopReq THEN "Finalizing" ELSE "Armed"] \in LaneState
    BY <2>1 DEF LaneState, Status
  <2>4. lane' \in LaneState
    BY <1>5, <2>1, <2>2, <2>3 DEF ObserveArmed
  <2>5. LoopOK' /\ StepsSound' /\ Due' = 0
    <3>1. CASE Leave
      BY <3>1, LeaveKeeps
    <3>2. CASE at' = "stopSave" /\ job' = [NoJob EXCEPT !.todo = target]
      BY <2>1, <3>2, NoJobType DEF LoopOK, StepName, Job, StepsSound, Due, OnHose, Ordering
    <3> QED BY <1>5, <3>1, <3>2 DEF ObserveArmed
  <2> QED BY <1>5, <2>4, <2>5, LaneStep, DueIsNat DEF ObserveArmed, Observing
<1>6. ASSUME NEW heard \in SUBSET Hose, NEW h \in heard, ObserveFlow(h, heard)
      PROVE  Parts'
  <2>1. lane' \in LaneState
    BY <1>6 DEF ObserveFlow, Parts, MemOK, memVars
  <2>2. LoopOK' /\ StepsSound' /\ Due' = 0
    BY <1>6, NoJobType DEF ObserveFlow, LoopOK, StepName, Job, StepsSound, Due, OnHose, Ordering
  <2> QED BY <1>6, <2>1, <2>2, LaneStep, DueIsNat DEF ObserveFlow, Observing, memVars
<1>7. ASSUME NEW heard \in SUBSET Hose, NEW h \in heard, ObserveFinished(h, heard)
      PROVE  Parts'
  <2>1. lane' \in LaneState
    BY <1>7 DEF ObserveFinished, Parts, MemOK, LaneState, Status
  <2>2. LoopOK' /\ StepsSound' /\ Due' = 0
    BY <1>7, NoJobType
    DEF ObserveFinished, LoopOK, StepName, Job, StepsSound, Due, OnHose, Ordering
  <2> QED BY <1>7, <2>1, <2>2, LaneStep, DueIsNat DEF ObserveFinished, Observing
<1>8. ASSUME NEW heard \in SUBSET Hose, NEW h \in heard, NEW sent \in BOOLEAN,
             ObserveLocalPreset(h, heard, sent)
      PROVE  Parts'
  <2> DEFINE q == IF sent THEN PumpStop(pump[h]) ELSE pump[h]
  <2>1. q \in PumpState /\ q.volume = pump[h].volume /\ (PumpArmed(q) => PumpArmed(pump[h]))
    BY PumpKeepsSale DEF Parts, PumpsOK
  <2>2. Wire(h, q)
    BY <1>8 DEF ObserveLocalPreset
  <2> HIDE DEF q
  <2>3. PumpsOK' /\ UNCHANGED <<arms, counters>>
    BY <1>8, <2>1, <2>2, WireKeeps DEF Parts, Wire, ObserveLocalPreset
  <2>4. LoopOK' /\ StepsSound' /\ Due' = 0
    BY <1>8, LeaveKeeps DEF ObserveLocalPreset
  <2>5. MemOK' /\ BookOK' /\ BoundsOK'
    BY <1>8, BookFrame, BoundsFrame DEF ObserveLocalPreset, Parts, MemOK, diskVars, memVars
  <2>6. ArmsCounted'
    BY <2>3, <2>4, CountFrame, DueIsNat
  <2> QED BY <2>3, <2>4, <2>5, <2>6 DEF Parts
<1>9. ASSUME LiveReading \/ LiveReadingLost
      PROVE  Parts'
  <2>1. CASE LiveReading
    <3>1. lane \in LaneState /\ job.net \in Hose /\ shift \in Shift
      BY <2>1 DEF LiveReading, Parts, MemOK, BookOK, StepsSound, OnHose
    <3> DEFINE stopping == lane.stopReq \/ job.net \in lane.stops
    <3>2. stopping \in BOOLEAN
      OBVIOUS
    <3> HIDE DEF stopping
    <3>3. [lane EXCEPT !.before = None, !.stopReq = stopping,
                       !.status = IF stopping THEN "Finalizing" ELSE "Delivering",
                       !.nozzle = job.net,
                       !.order = IF Owned(lane) THEN @ ELSE shift] \in LaneState
      BY <3>1, <3>2 DEF LaneState, Status
    <3>4. lane' \in LaneState
      BY <2>1, <3>3 DEF LiveReading, stopping
    <3> QED BY <2>1, <3>4, LaneStep, LeaveKeeps, DueIsNat DEF LiveReading
  <2>2. CASE LiveReadingLost
    <3>1. lane' \in LaneState
      BY <2>2 DEF LiveReadingLost, ShowMissed, Parts, MemOK, LaneState, Status
    <3> QED BY <2>2, <3>1, LaneStep, LeaveKeeps, DueIsNat DEF LiveReadingLost
  <2> QED BY <1>9, <2>1, <2>2
<1> QED BY <1>1, <1>2, <1>3, <1>4, <1>5, <1>6, <1>7, <1>8, <1>9 DEF Poll

(* The identity of the registers of a hose. *)
LEMMA SaleKeyType ==
    ASSUME PumpsOK, NEW h \in Hose, NEW volume \in 0 .. MaxVolume
    PROVE  SaleKey(h, volume) \in SaleId
BY DEF PumpsOK, PumpState, SaleKey, SaleId

(* A step that saves the journal. *)
LEMMA SavingStep ==
    ASSUME Parts, MemOK', faults' \in 0 .. MaxFaults, LoopOK', StepsSound', Due' <= Due,
           UNCHANGED <<pumpVars, recorded, credit, shift, asked, foreign, crashes, clears>>
    PROVE  Parts'
<1>1. PumpsOK' /\ BookOK'
  BY PumpsFrame, BookFrame DEF Parts
<1>2. BoundsOK'
  BY DEF Parts, BoundsOK
<1>3. ArmsCounted'
  <2>1. UNCHANGED <<arms, asked, foreign>>
    BY DEF pumpVars
  <2> QED BY <2>1, CountSame
<1> QED BY <1>1, <1>2, <1>3 DEF Parts

(* Any outcome of a save keeps the memory well formed and the book untouched. *)
LEMMA SavesKeep ==
    ASSUME Parts, SaveOk \/ SaveFails \/ SaveLate
    PROVE  MemOK' /\ faults' \in 0 .. MaxFaults /\ UNCHANGED <<recorded, credit>>
<1>1. CASE SaveOk
  BY <1>1, SaveOkKeeps DEF Parts, BoundsOK, SaveOk
<1>2. CASE SaveFails
  BY <1>2, SaveFailsKeeps DEF Parts, SaveFails, diskVars
<1>3. CASE SaveLate
  BY <1>3, SaveLateKeeps DEF Parts, SaveLate
<1> QED BY <1>1, <1>2, <1>3

(* Every step of a close keeps the parts. *)
LEMMA CloseKeeps ==
    ASSUME Parts, Close
    PROVE  Parts'
<1> lane \in LaneState /\ job \in Job
  BY DEF Parts, MemOK, LoopOK
<1>1. ASSUME ReadRegisters
      PROVE  Parts'
  <2>1. job.net \in Hose /\ pump[job.net] \in PumpState /\ pump[job.net].volume \in 0 .. MaxVolume
    BY <1>1 DEF ReadRegisters, Parts, StepsSound, OnHose, PumpsOK, PumpState
  <2>2. lane' \in LaneState
    BY <1>1 DEF ReadRegisters, LaneState
  <2>3. LoopOK' /\ StepsSound' /\ Due' = 0
    <3>1. CASE Goto("confirm")
      BY <2>1, <3>1 DEF Goto, LoopOK, StepName, StepsSound, Due, OnHose, Ordering
    <3>2. CASE /\ at' = "identify"
               /\ job' = [job EXCEPT !.volume = pump[job.net].volume, !.arm = arm[job.net]]
      <4>1. arm[job.net] \in Arm \cup {0}
        BY <2>1 DEF Parts, PumpsOK
      <4>2. job' \in Job /\ job'.net = job.net
        BY <2>1, <3>2, <4>1 DEF Job
      <4> QED BY <2>1, <3>2, <4>2 DEF LoopOK, StepName, StepsSound, Due, OnHose, Ordering
    <3> QED BY <1>1, <3>1, <3>2 DEF ReadRegisters
  <2> QED BY <1>1, <2>2, <2>3, LaneStep, DueIsNat DEF ReadRegisters
<1>2. ASSUME IdentifySale
      PROVE  Parts'
  <2> DEFINE id == SaleKey(job.net, job.volume)
  <2>1. job.net \in Hose /\ id \in SaleId
    BY <1>2, SaleKeyType DEF IdentifySale, Parts, StepsSound, OnHose, Job
  <2>2. CancelOrder(lane) \in LaneState /\ Durable(lane) \in LaneState
    BY CancelOrderType, DurableType
  <2>3. [CancelOrder(lane) EXCEPT !.before = None] \in LaneState
    BY <2>2 DEF LaneState
  <2> HIDE DEF id
  <2>4. lane' \in LaneState
    BY <1>2, <2>2, <2>3 DEF IdentifySale, id
  <2>5. LoopOK' /\ StepsSound' /\ Due' = 0
    <3>1. CASE Leave
      BY <3>1, LeaveKeeps
    <3>2. CASE Goto("confirm")
      BY <2>1, <3>2 DEF Goto, LoopOK, StepName, StepsSound, Due, OnHose, Ordering
    <3>3. CASE at' = "commit" /\ job' = [job EXCEPT !.id = id]
      <4>1. job' \in Job /\ job'.net = job.net /\ job'.id = id
        BY <2>1, <3>3 DEF Job
      <4> QED BY <2>1, <3>3, <4>1 DEF LoopOK, StepName, StepsSound, Due, OnHose, Ordering
    <3> QED BY <1>2, <3>1, <3>2, <3>3 DEF IdentifySale, id
  <2> QED BY <1>2, <2>4, <2>5, LaneStep, DueIsNat DEF IdentifySale
<1>3. ASSUME ReadFails
      PROVE  Parts'
  BY <1>3, LaneStep, LeaveKeeps, DueIsNat DEF ReadFails, memVars
<1>4. ASSUME CommitSale
      PROVE  Parts'
  <2>1. job.net \in Hose /\ job.id \in SaleId
    BY <1>4 DEF CommitSale, Parts, StepsSound, OnHose
  <2>2. SaleShift \in Shift
    BY DEF SaleShift, Owned, LaneState, Parts, BookOK
  <2>3. BookOK'
    <3>1. [id |-> job.id, arm |-> job.arm, volume |-> job.volume, shift |-> SaleShift] \in Entry
      BY <2>1, <2>2 DEF Entry, Job
    <3>2. recorded' \subseteq Entry
      BY <1>4, <3>1 DEF CommitSale, Parts, BookOK
    <3>3. job.volume \in Nat
      BY MaxVolumeAssumption DEF Job
    <3>4. credit' \in [Shift \ {0} -> Nat]
      BY <1>4, <2>2, <3>3 DEF CommitSale, Credited, Parts, BookOK
    <3> QED BY <1>4, <3>2, <3>4 DEF CommitSale, Parts, BookOK
  <2>4. MemOK'
    BY <1>4, DurableType DEF CommitSale, Parts, MemOK
  <2>5. LoopOK' /\ StepsSound' /\ Due' = 0
    BY <1>4, <2>1 DEF CommitSale, Goto, LoopOK, StepName, StepsSound, Due, OnHose, Ordering
  <2>6. PumpsOK' /\ BoundsOK' /\ ArmsCounted'
    BY <1>4, <2>5, PumpsFrame, BoundsFrame, CountFrame, DueIsNat DEF CommitSale, Parts, pumpVars
  <2> QED BY <2>3, <2>4, <2>5, <2>6 DEF Parts
<1>5. ASSUME CommitFails
      PROVE  Parts'
  <2>1. faults' \in 0 .. MaxFaults
    BY <1>5, BoundAssumption DEF CommitFails, Fault, Parts, BoundsOK
  <2>2. MemOK' /\ UNCHANGED <<recorded, credit>>
    BY <1>5 DEF CommitFails, Parts, MemOK, memVars, diskVars
  <2> QED BY <1>5, <2>1, <2>2, LeaveKeeps, SavingStep, DueIsNat DEF CommitFails
<1>6. ASSUME ConfirmSaved \/ ConfirmNotSaved \/ Checkpoint
      PROVE  Parts'
  <2>1. MemOK' /\ faults' \in 0 .. MaxFaults /\ UNCHANGED <<recorded, credit>>
    BY <1>6, SavesKeep DEF ConfirmSaved, ConfirmNotSaved, Checkpoint
  <2>2. LoopOK' /\ StepsSound' /\ Due' = 0
    <3>1. CASE ConfirmSaved
      BY <3>1 DEF ConfirmSaved, Goto, Parts, LoopOK, StepName, StepsSound, Due, OnHose, Ordering
    <3>2. CASE Leave
      BY <3>2, LeaveKeeps
    <3>3. CASE Checkpoint
      BY <3>3 DEF Checkpoint, Goto, Parts, LoopOK, StepName, StepsSound, Due, OnHose, Ordering
    <3> QED BY <1>6, <3>1, <3>2, <3>3 DEF ConfirmNotSaved
  <2> QED BY <1>6, <2>1, <2>2, SavingStep, DueIsNat DEF ConfirmSaved, ConfirmNotSaved, Checkpoint
<1>7. ASSUME ReleaseIdle
      PROVE  Parts'
  BY <1>7, ReleaseType, LaneStep, LeaveKeeps, DueIsNat DEF ReleaseIdle
<1>8. ASSUME NEW sent \in BOOLEAN, NEW acked \in BOOLEAN, ConfirmWire(sent, acked)
      PROVE  Parts'
  <2>1. job.net \in Hose /\ pump[job.net] \in PumpState
    BY <1>8 DEF ConfirmWire, Parts, StepsSound, OnHose, PumpsOK
  <2>2. PumpsOK' /\ UNCHANGED <<arms, counters>>
    <3>1. CASE UNCHANGED pumpVars
      BY <1>8, <3>1, PumpsFrame DEF Parts, ConfirmWire, pumpVars
    <3>2. CASE WireClearing(job.net, PumpConfirm(pump[job.net]))
      BY <1>8, <2>1, <3>2, PumpKeepsSale, WireClearingKeeps DEF Parts, ConfirmWire, WireClearing
    <3> QED BY <1>8, <3>1, <3>2 DEF ConfirmWire
  <2>3. lane' \in LaneState
    BY <1>8, ReleaseType DEF ConfirmWire
  <2>4. MemOK' /\ BookOK' /\ BoundsOK'
    BY <1>8, <2>3, BookFrame, BoundsFrame DEF ConfirmWire, Parts, MemOK, diskVars
  <2>5. LoopOK' /\ StepsSound' /\ Due' = 0
    BY <1>8, LeaveKeeps DEF ConfirmWire
  <2>6. ArmsCounted'
    BY <2>2, <2>5, CountFrame, DueIsNat
  <2> QED BY <2>2, <2>4, <2>5, <2>6 DEF Parts
<1> QED BY <1>1, <1>2, <1>3, <1>4, <1>5, <1>6, <1>7, <1>8 DEF Close

(* Every step of a command keeps the parts. *)
LEMMA CommandKeeps ==
    ASSUME Parts, Command
    PROVE  Parts'
<1> lane \in LaneState /\ job \in Job /\ Known \in LaneState /\ KnownRow \in LaneState \cup {None}
  BY RestoredType DEF Parts, MemOK, LoopOK, Known, KnownRow
<1>1. ASSUME NEW all \in BOOLEAN, NEW cancel \in BOOLEAN, NEW readable \in BOOLEAN,
             StopCommand(all, cancel, readable)
      PROVE  Parts'
  <2> DEFINE l == IF readable THEN Known ELSE lane
  <2> DEFINE targets == IF all THEN Hose ELSE {NetOf(l.nozzle)}
  <2>1. l \in LaneState
    OBVIOUS
  <2>2. targets \in SUBSET Hose
    BY <2>1, NetIsHose DEF LaneState
  <2>3. StopIntent(l, targets, cancel) \in LaneState
    BY <2>1, <2>2, StopIntentType
  <2> HIDE DEF l, targets
  <2>4. lane' \in LaneState /\ job' = [NoJob EXCEPT !.todo = targets]
    BY <1>1, <2>3 DEF StopCommand, l, targets
  <2>5. MemOK'
    BY <1>1, <2>4 DEF StopCommand, Parts, MemOK, diskVars
  <2>6. LoopOK'
    BY <1>1, <2>2, <2>4, NoJobType DEF StopCommand, LoopOK, StepName, Job
  <2>7. StepsSound' /\ Due = 0 /\ Due' = 0
    BY <1>1 DEF StopCommand, StepsSound, Due, OnHose, Ordering
  <2>8. PumpsOK' /\ BookOK' /\ BoundsOK' /\ ArmsCounted'
    BY <1>1, <2>7, PumpsFrame, BookFrame, BoundsFrame, CountFrame
    DEF StopCommand, Parts, diskVars, pumpVars
  <2> QED BY <2>5, <2>6, <2>7, <2>8 DEF Parts
<1>2. ASSUME StopSave
      PROVE  Parts'
  <2>1. MemOK' /\ faults' \in 0 .. MaxFaults /\ UNCHANGED <<recorded, credit>>
    BY <1>2, SavesKeep DEF StopSave
  <2>2. LoopOK' /\ StepsSound' /\ Due' = 0
    BY <1>2 DEF StopSave, Goto, Parts, LoopOK, StepName, StepsSound, Due, OnHose, Ordering
  <2> QED BY <1>2, <2>1, <2>2, SavingStep, DueIsNat DEF StopSave
<1>3. ASSUME NEW h \in Hose, NEW sent \in BOOLEAN, StopWire(h, sent)
      PROVE  Parts'
  <2> DEFINE q == IF sent THEN PumpStop(pump[h]) ELSE pump[h]
  <2>1. q \in PumpState /\ q.volume = pump[h].volume /\ (PumpArmed(q) => PumpArmed(pump[h]))
    BY PumpKeepsSale DEF Parts, PumpsOK
  <2>2. Wire(h, q)
    BY <1>3 DEF StopWire
  <2> HIDE DEF q
  <2>3. PumpsOK' /\ UNCHANGED <<arms, counters>>
    BY <1>3, <2>1, <2>2, WireKeeps DEF Parts, Wire, StopWire
  <2>4. LoopOK' /\ StepsSound' /\ Due' = 0
    <3>1. CASE Leave
      BY <3>1, LeaveKeeps
    <3>2. CASE at' = at /\ job' = [job EXCEPT !.todo = @ \ {h}]
      <4>1. job' \in Job
        BY <3>2 DEF Job
      <4> QED BY <1>3, <3>2, <4>1
          DEF StopWire, Parts, LoopOK, StepName, StepsSound, Due, OnHose, Ordering
    <3> QED BY <1>3, <3>1, <3>2 DEF StopWire
  <2>5. MemOK' /\ BookOK' /\ BoundsOK'
    BY <1>3, BookFrame, BoundsFrame DEF StopWire, Parts, MemOK, diskVars, memVars
  <2>6. ArmsCounted'
    BY <2>3, <2>4, CountFrame, DueIsNat
  <2> QED BY <2>3, <2>4, <2>5, <2>6 DEF Parts
<1>4. ASSUME DismissCommand
      PROVE  Parts'
  <2>1. Snapshot(Known) \in LaneState \cup {None} /\ Dismissed(Known) \in LaneState
    BY SnapshotType, DismissedType
  <2>2. MemOK' /\ faults' \in 0 .. MaxFaults /\ UNCHANGED <<recorded, credit>>
    BY <1>4, <2>1 DEF DismissCommand, Parts, MemOK, BoundsOK, counters
  <2>3. LoopOK' /\ StepsSound' /\ Due' = 0
    BY <1>4, LeaveKeeps DEF DismissCommand
  <2> QED BY <1>4, <2>2, <2>3, SavingStep, DueIsNat DEF DismissCommand, counters
<1>5. ASSUME NEW h \in Hose, NEW direct \in BOOLEAN, OrderCommand(h, direct)
      PROVE  Parts'
  <2>1. MemOK' /\ loaded' = TRUE /\ faults' \in 0 .. MaxFaults /\ UNCHANGED <<recorded, credit>>
    BY <1>5, SaveOkKeeps, SavesKeep DEF OrderCommand, Parts
  <2>2. asked' < MaxOrders
    BY <1>5 DEF OrderCommand
  <2>3. job' \in Job /\ job'.net = h
    BY <1>5, NoJobType DEF OrderCommand, Job
  <2>4. LoopOK' /\ StepsSound' /\ Due' = 0
    BY <1>5, <2>1, <2>2, <2>3
    DEF OrderCommand, LoopOK, StepName, StepsSound, Due, OnHose, Ordering
  <2> QED BY <1>5, <2>1, <2>4, SavingStep, DueIsNat DEF OrderCommand
<1>6. ASSUME NEW heard \in BOOLEAN, CheckReady(heard)
      PROVE  Parts'
  <2>1. LoopOK' /\ StepsSound' /\ Due' = 0
    <3>1. CASE Leave
      BY <3>1, LeaveKeeps
    <3>2. CASE Goto("price")
      BY <1>6, <3>2 DEF CheckReady, Goto, Parts, LoopOK, StepName, StepsSound, Due,
                        OnHose, Ordering, memVars, counters
    <3> QED BY <1>6, <3>1, <3>2 DEF CheckReady
  <2> QED BY <1>6, <2>1, LaneStep, DueIsNat DEF CheckReady, memVars
<1>7. ASSUME NEW sent \in BOOLEAN, NEW acked \in BOOLEAN, SetOrder(sent, acked)
      PROVE  Parts'
  <2>1. job.net \in Hose /\ pump[job.net] \in PumpState /\ asked < MaxOrders /\ loaded
    BY <1>7 DEF SetOrder, Parts, StepsSound, OnHose, Ordering, PumpsOK
  <2>2. PumpsOK' /\ arms' = arms
    <3>1. CASE UNCHANGED pumpVars
      BY <1>7, <3>1, PumpsFrame DEF Parts, SetOrder, pumpVars
    <3>2. CASE /\ PumpIdle(pump[job.net])
               /\ WireClearing(job.net, PumpSetPrice(pump[job.net]))
      <4> DEFINE q == PumpSetPrice(pump[job.net])
      <4>1. q = PumpRenew(pump[job.net])
        BY <3>2 DEF PumpSetPrice
      <4>2. q \in PumpState /\ q.volume = 0 /\ q.status = pump[job.net].status
        BY <2>1, <4>1, PumpRegisters
      <4> HIDE DEF q
      <4>3. WireClearing(job.net, q)
        BY <3>2 DEF q
      <4> QED BY <1>7, <2>1, <4>2, <4>3, WireClearingKeeps DEF Parts, PumpArmed, WireClearing
    <3> QED BY <1>7, <3>1, <3>2 DEF SetOrder
  <2>3. asked' = asked + 1 /\ asked' \in 0 .. MaxOrders
    BY <1>7, <2>1, BoundAssumption DEF SetOrder, Parts, BoundsOK
  <2>4. LoopOK' /\ StepsSound'
    <3>1. CASE Leave
      BY <3>1, LeaveKeeps
    <3>2. CASE Goto("before")
      BY <1>7, <2>1, <3>2
      DEF SetOrder, Goto, Parts, LoopOK, StepName, StepsSound, OnHose, Ordering, memVars
    <3> QED BY <1>7, <3>1, <3>2 DEF SetOrder
  <2>5. ArmsCounted'
    <3>1. arms \in Nat /\ asked \in Nat /\ foreign \in Nat
      BY BoundAssumption DEF Parts, PumpsOK, BoundsOK, Arm
    <3>2. arms + Due <= asked + foreign /\ Due = 0
      BY <1>7, DueIsNat DEF SetOrder, Parts, ArmsCounted
    <3>3. Due' \in {0, 1} /\ foreign' = foreign
      BY <1>7 DEF Due, SetOrder
    <3>4. \A a, b, c \in Nat, d, e \in {0, 1} :
            d = 0 /\ a + d <= b + c => a + e <= (b + 1) + c
      OBVIOUS
    <3>5. arms + Due' <= (asked + 1) + foreign
      BY <3>1, <3>2, <3>3, <3>4
    <3> QED BY <2>2, <2>3, <3>3, <3>5, Zenon DEF ArmsCounted
  <2>6. MemOK' /\ BookOK'
    BY <1>7, BookFrame DEF SetOrder, Parts, MemOK, diskVars, memVars
  <2>7. BoundsOK'
    BY <1>7, <2>3 DEF SetOrder, Parts, BoundsOK
  <2> QED BY <2>2, <2>4, <2>5, <2>6, <2>7 DEF Parts
<1>8. ASSUME TakeOrder
      PROVE  Parts'
  <2>1. job.net \in Hose /\ pump[job.net] \in PumpState /\ shift \in Shift /\ loaded
    BY <1>8 DEF TakeOrder, Parts, StepsSound, OnHose, Ordering, PumpsOK, BookOK
  <2>2. SaleKey(job.net, pump[job.net].volume) \in SaleId
    BY <2>1, SaleKeyType DEF Parts, PumpState
  <2>3. lane' \in LaneState /\ Owned(lane')
    <3>1. lane' \in LaneState
      BY <1>8, <2>1, <2>2, OrderIntentType DEF TakeOrder
    <3>2. lane'.order = shift
      BY <1>8, <2>1, <2>2, FreshLaneType DEF TakeOrder, OrderIntent, LaneState
    <3>3. shift # None
      BY <2>1, NoneAssumption, BoundAssumption DEF Shift
    <3> QED BY <3>1, <3>2, <3>3 DEF Owned
  <2>4. LoopOK' /\ StepsSound' /\ Due' = Due
    BY <1>8, <2>1, <2>3
    DEF TakeOrder, Goto, Parts, LoopOK, StepName, StepsSound, Due, OnHose, Ordering
  <2> QED BY <1>8, <2>3, <2>4, LaneStep, DueIsNat DEF TakeOrder
<1>9. ASSUME TakeOrderFails
      PROVE  Parts'
  <2>1. LoopOK' /\ StepsSound' /\ Due' <= Due
    BY <1>9, LeaveKeeps, DueIsNat DEF TakeOrderFails
  <2> QED BY <1>9, <2>1, LaneStep DEF TakeOrderFails, memVars
<1>10. ASSUME ArmSaved
       PROVE  Parts'
  <2>1. /\ job.net \in Hose /\ loaded /\ Owned(lane) /\ lane' = lane /\ loaded'
        /\ MemOK' /\ faults' \in 0 .. MaxFaults /\ UNCHANGED <<recorded, credit>>
    BY <1>10, SaveOkKeeps, SavesKeep
    DEF ArmSaved, Parts, StepsSound, OnHose, Ordering, Known
  <2>2. LoopOK' /\ StepsSound' /\ Due' = Due
    BY <1>10, <2>1 DEF ArmSaved, Goto, Parts, LoopOK, StepName, StepsSound, Due, OnHose, Ordering
  <2> QED BY <1>10, <2>1, <2>2, SavingStep, DueIsNat DEF ArmSaved
<1>11. ASSUME ArmNotSaved
       PROVE  Parts'
  <2>1. [CancelOrder(lane) EXCEPT !.before = None] \in LaneState
    BY CancelOrderType DEF LaneState
  <2>2. MemOK' /\ faults' \in 0 .. MaxFaults
    BY <1>11, <2>1, BoundAssumption
    DEF ArmNotSaved, Fault, Parts, MemOK, BoundsOK, diskVars
  <2>3. LoopOK' /\ StepsSound' /\ Due' <= Due
    BY <1>11, LeaveKeeps, DueIsNat DEF ArmNotSaved
  <2> QED BY <1>11, <2>2, <2>3, SavingStep DEF ArmNotSaved, diskVars
<1>12. ASSUME NEW sent \in BOOLEAN, NEW heard \in BOOLEAN, ArmWire(sent, heard)
       PROVE  Parts'
  <2> DEFINE accepted == sent /\ PumpReady(pump[job.net])
  <2>1. job.net \in Hose /\ loaded /\ lane.order \in Shift
    BY <1>12 DEF ArmWire, Parts, StepsSound, OnHose, Ordering, Owned, LaneState
  <2>2. arms + 1 \in Arm
    <3>1. arms \in Nat /\ asked \in 0 .. MaxOrders /\ foreign \in 0 .. MaxForeign
      BY DEF Parts, PumpsOK, BoundsOK, Arm
    <3>2. Due = 1 /\ arms + Due <= asked + foreign
      BY <1>12 DEF ArmWire, Parts, ArmsCounted, Due
    <3> QED BY <3>1, <3>2, BoundAssumption DEF Arm
  <2>3. PumpsOK'
    <3>1. CASE UNCHANGED pumpVars
      BY <3>1, PumpsFrame DEF Parts
    <3>2. CASE /\ accepted
               /\ ArmHose(job.net, {[arm |-> arms + 1, shift |-> lane.order]})
               /\ cleared' = cleared \cup GiveUp(job.net)
      BY <2>1, <2>2, <3>2, ArmHoseKeeps DEF Parts
    <3> QED BY <1>12, <3>1, <3>2 DEF ArmWire
  <2>4. lane' \in LaneState
    <3>1. [lane EXCEPT !.before = None] \in LaneState
      BY DEF LaneState
    <3>2. [CancelOrder(lane) EXCEPT !.before = None] \in LaneState
      BY CancelOrderType DEF LaneState
    <3>3. [lane EXCEPT !.status = "Armed"] \in LaneState
      BY DEF LaneState, Status
    <3> QED BY <1>12, <3>1, <3>2, <3>3 DEF ArmWire
  <2>5. MemOK' /\ BookOK' /\ BoundsOK'
    BY <1>12, <2>4, BookFrame, BoundsFrame DEF ArmWire, Parts, MemOK, diskVars
  <2>6. LoopOK' /\ StepsSound' /\ Due' = 0
    <3>1. CASE Leave
      BY <3>1, LeaveKeeps
    <3>2. CASE Goto("start")
      BY <1>12, <2>1, <3>2
      DEF ArmWire, Goto, Parts, LoopOK, StepName, StepsSound, Due, OnHose, Ordering
    <3> QED BY <1>12, <3>1, <3>2 DEF ArmWire
  <2>7. ArmsCounted'
    <3>1. arms \in Nat /\ arms' \in {arms, arms + 1} /\ UNCHANGED <<asked, foreign>>
      BY <1>12 DEF ArmWire, ArmHose, Parts, PumpsOK, Arm, pumpVars, counters
    <3>2. Due = 1 /\ arms + Due <= asked + foreign
      BY <1>12 DEF ArmWire, Parts, ArmsCounted, Due
    <3>3. asked \in Nat /\ foreign \in Nat
      BY BoundAssumption DEF Parts, BoundsOK
    <3>4. \A a, b, c, d, e, n \in Nat :
            n = 1 /\ a + n <= b + c /\ d \in {a, a + 1} /\ e = 0 => d + e <= b + c
      OBVIOUS
    <3>5. arms' \in Nat
      BY <3>1
    <3>6. arms' + Due' <= asked + foreign
      BY <2>6, <3>1, <3>2, <3>3, <3>4, <3>5
    <3> QED BY <3>1, <3>6, Zenon DEF ArmsCounted
  <2> QED BY <2>3, <2>5, <2>6, <2>7 DEF Parts
<1>13. ASSUME NEW sent \in BOOLEAN, StartWire(sent)
       PROVE  Parts'
  <2> DEFINE q == IF sent THEN PumpStart(pump[job.net]) ELSE pump[job.net]
  <2>1. job.net \in Hose
    BY <1>13 DEF StartWire, Parts, StepsSound, OnHose
  <2>2. /\ q \in PumpState /\ q.volume = pump[job.net].volume
        /\ PumpArmed(q) => PumpArmed(pump[job.net])
    BY <2>1, PumpKeepsSale DEF Parts, PumpsOK
  <2>3. Wire(job.net, q)
    BY <1>13 DEF StartWire
  <2> HIDE DEF q
  <2>4. PumpsOK' /\ UNCHANGED <<arms, counters>>
    BY <1>13, <2>1, <2>2, <2>3, WireKeeps DEF Parts, Wire, StartWire
  <2>5. LoopOK' /\ StepsSound' /\ Due' = 0
    BY <1>13, LeaveKeeps DEF StartWire
  <2>6. MemOK' /\ BookOK' /\ BoundsOK'
    BY <1>13, BookFrame, BoundsFrame DEF StartWire, Parts, MemOK, diskVars, memVars
  <2>7. ArmsCounted'
    BY <2>4, <2>5, CountFrame, DueIsNat
  <2> QED BY <2>4, <2>5, <2>6, <2>7 DEF Parts
<1> QED BY <1>1, <1>2, <1>3, <1>4, <1>5, <1>6, <1>7, <1>8, <1>9, <1>10, <1>11, <1>12, <1>13
        DEF Command

(* What the surroundings leave alone. *)
LEMMA OthersFrame ==
    ASSUME Parts, UNCHANGED <<diskVars, memVars, shift, at, job>>
    PROVE  MemOK' /\ BookOK' /\ LoopOK' /\ Due' = Due
BY DEF Parts, MemOK, BookOK, LoopOK, Due, diskVars, memVars

(* What the steps rely on is in the memory of the loop. *)
LEMMA StepsFrame ==
    ASSUME StepsSound, UNCHANGED <<memVars, at, job, asked>>
    PROVE  StepsSound'
BY DEF StepsSound, Owned, memVars

(* The customers, the pumps, other controllers, handovers and crashes keep the parts. *)
LEMMA SurroundingsKeep ==
    ASSUME Parts, Surroundings
    PROVE  Parts'
<1>1. ASSUME NEW h \in Hose,
             CustomerLifts(h) \/ CustomerHolsters(h) \/ PumpStarts(h) \/ PumpCleared(h)
               \/ KeypadPreset(h) \/ FuelFlows(h)
      PROVE  Parts'
  <2>1. pump[h] \in PumpState
    BY DEF Parts, PumpsOK
  <2>2. PumpsOK'
    <3>1. ASSUME NEW q \in {PumpLift(pump[h]), PumpHolster(pump[h]), PumpStart(pump[h]),
                            PumpClear(pump[h]), PumpPreset(pump[h])},
                 Wire(h, q)
          PROVE  PumpsOK'
      <4>1. q \in PumpState /\ q.volume = pump[h].volume /\ (PumpArmed(q) => PumpArmed(pump[h]))
        BY <2>1, <3>1, PumpKeepsSale
      <4> QED BY <3>1, <4>1, WireKeeps DEF Parts
    <3>2. CASE FuelFlows(h)
      <4> DEFINE q == PumpFlow(pump[h])
      <4>1. PumpArmed(pump[h]) /\ pump[h].volume < MaxVolume /\ arm[h] # 0
        BY <3>2 DEF FuelFlows, PumpArmed, Parts, PumpsOK, PumpsSound
      <4>2. q \in PumpState /\ (PumpArmed(q) => q.volume < MaxVolume)
        BY <2>1, <4>1, PumpFlowType
      <4>3. Wire(h, q)
        BY <3>2 DEF FuelFlows
      <4> HIDE DEF q
      <4> QED BY <4>1, <4>2, <4>3 DEF Parts, PumpsOK, PumpsSound, Wire
    <3> QED BY <1>1, <3>1, <3>2
        DEF CustomerLifts, CustomerHolsters, PumpStarts, PumpCleared, KeypadPreset
  <2>3. /\ UNCHANGED <<arms, diskVars, memVars, shift, at, job, asked, crashes, faults>>
        /\ clears' \in 0 .. MaxClears /\ foreign' \in 0 .. MaxForeign /\ foreign <= foreign'
    <3>1. CASE PumpCleared(h)
      BY <3>1, BoundAssumption DEF PumpCleared, Wire, Others, Parts, BoundsOK
    <3>2. CASE KeypadPreset(h)
      BY <3>2, BoundAssumption DEF KeypadPreset, Wire, Others, Parts, BoundsOK
    <3>3. CASE CustomerLifts(h) \/ CustomerHolsters(h) \/ PumpStarts(h) \/ FuelFlows(h)
      BY <3>3, BoundAssumption
      DEF CustomerLifts, CustomerHolsters, PumpStarts, FuelFlows, Wire, Others, Parts, BoundsOK
    <3> QED BY <1>1, <3>1, <3>2, <3>3
  <2>4. BoundsOK'
    BY <2>3 DEF Parts, BoundsOK
  <2>5. MemOK' /\ BookOK' /\ LoopOK' /\ StepsSound' /\ Due' = Due
    BY <2>3, OthersFrame, StepsFrame DEF Parts
  <2>6. ArmsCounted'
    BY <2>3, <2>5, CountMore, BoundAssumption
  <2> QED BY <2>2, <2>4, <2>5, <2>6 DEF Parts
<1>2. ASSUME NEW h \in Hose, ForeignArm(h)
      PROVE  Parts'
  <2>1. /\ foreign < MaxForeign /\ foreign' = foreign + 1 /\ arms' = arms + 1
        /\ UNCHANGED <<diskVars, memVars, shift, at, job, asked, crashes, faults, clears>>
    BY <1>2 DEF ForeignArm, ArmHose, Others
  <2>2. /\ arms \in Nat /\ asked \in 0 .. MaxOrders /\ foreign \in 0 .. MaxForeign
        /\ Due \in Nat /\ arms + Due <= asked + foreign
    BY DueIsNat DEF Parts, PumpsOK, BoundsOK, ArmsCounted, Arm
  <2>3. MaxOrders \in Nat /\ MaxForeign \in Nat
    BY BoundAssumption
  <2>4. \A a, d, b, c, m, n \in Nat :
          a + d <= b + c /\ b <= m /\ c < n
            => a + 1 \in 1 .. (m + n) /\ (a + 1) + d <= b + (c + 1)
    OBVIOUS
  <2>5. arms + 1 \in Arm /\ (arms + 1) + Due <= asked + (foreign + 1)
    BY <2>1, <2>2, <2>3, <2>4 DEF Arm
  <2>6. PumpsOK'
    BY <1>2, <2>5, ArmHoseKeeps DEF ForeignArm, Parts
  <2>7. BoundsOK'
    BY <2>1, <2>2, <2>3 DEF Parts, BoundsOK
  <2>8. MemOK' /\ BookOK' /\ LoopOK' /\ StepsSound' /\ Due' = Due
    BY <2>1, OthersFrame, StepsFrame DEF Parts
  <2>9. ArmsCounted'
    BY <2>1, <2>5, <2>8, Zenon DEF ArmsCounted
  <2> QED BY <2>6, <2>7, <2>8, <2>9 DEF Parts
<1>3. ASSUME NextShift
      PROVE  Parts'
  <2>1. shift' \in Shift
    BY <1>3, BoundAssumption DEF NextShift, Shift, Parts, BookOK
  <2>2. BookOK'
    BY <1>3, <2>1 DEF NextShift, Parts, BookOK, diskVars
  <2>3. PumpsOK' /\ BoundsOK' /\ StepsSound'
    BY <1>3, PumpsFrame, BoundsFrame, StepsFrame DEF NextShift, Parts, counters
  <2>4. MemOK' /\ LoopOK' /\ Due' = Due
    BY <1>3 DEF NextShift, Parts, MemOK, LoopOK, Due, diskVars, memVars
  <2>5. ArmsCounted'
    BY <1>3, <2>4, CountFrame, DueIsNat DEF NextShift, pumpVars
  <2> QED BY <2>2, <2>3, <2>4, <2>5 DEF Parts
<1>4. ASSUME Crash
      PROVE  Parts'
  <2>1. MemOK'
    BY <1>4, FreshLaneType DEF Crash, Parts, MemOK, diskVars
  <2>2. BoundsOK'
    BY <1>4, BoundAssumption DEF Crash, Parts, BoundsOK
  <2>3. LoopOK' /\ StepsSound' /\ Due' = 0
    BY <1>4, NoJobType DEF Crash, LoopOK, StepName, StepsSound, Due, OnHose, Ordering
  <2>4. PumpsOK' /\ BookOK'
    BY <1>4, PumpsFrame, BookFrame DEF Crash, Parts, diskVars
  <2>5. ArmsCounted'
    BY <1>4, <2>3, CountSame, DueIsNat DEF Crash, pumpVars
  <2> QED BY <2>1, <2>2, <2>3, <2>4, <2>5 DEF Parts
<1> QED BY <1>1, <1>2, <1>3, <1>4 DEF Surroundings

(* Nothing happens. *)
LEMMA StutterKeeps ==
    ASSUME Parts, UNCHANGED vars
    PROVE  Parts'
<1>1. PumpsOK' /\ BookOK' /\ BoundsOK' /\ StepsSound'
  BY PumpsFrame, BookFrame, BoundsFrame, StepsFrame DEF Parts, vars, diskVars, counters
<1>2. MemOK' /\ LoopOK' /\ Due' = Due
  BY DEF vars, diskVars, memVars, Parts, MemOK, LoopOK, Due
<1>3. ArmsCounted'
  BY <1>2, CountFrame, DueIsNat DEF vars, pumpVars
<1> QED BY <1>1, <1>2, <1>3 DEF Parts

(* The parts hold at the start. *)
LEMMA InitParts ==
    ASSUME Init
    PROVE  Parts
<1> USE BoundAssumption, MaxVolumeAssumption
<1>1. PumpReset \in PumpState
  BY DEF PumpReset, PumpState, PumpStatus
<1>2. ~PumpArmed(PumpReset) /\ PumpReset.volume = 0
  BY DEF PumpReset, PumpArmed
<1>3. PumpsOK
  BY <1>1, <1>2 DEF Init, PumpsOK, PumpsSound
<1>4. MemOK /\ BookOK /\ BoundsOK
  <2>1. MemOK
    BY FreshLaneType DEF Init, MemOK
  <2>2. BookOK
    BY DEF Init, BookOK, Shift
  <2>3. BoundsOK
    BY DEF Init, BoundsOK
  <2> QED BY <2>1, <2>2, <2>3
<1>5. LoopOK /\ StepsSound /\ Due = 0
  BY NoJobType DEF Init, LoopOK, StepName, StepsSound, Due, OnHose, Ordering
<1>6. ArmsCounted
  BY <1>5 DEF Init, ArmsCounted
<1> QED BY <1>3, <1>4, <1>5, <1>6 DEF Parts

(* Whatever the wire, the pumps, the customers and the crashes do, every       *)
(* variable of the lane keeps its type, and fuel in a register has an arm.     *)
THEOREM TypeCorrect == Spec => []TypeInv
<1>1. Init => Parts
  BY InitParts
<1>2. Parts /\ [Next]_vars => Parts'
  BY PollKeeps, CloseKeeps, CommandKeeps, SurroundingsKeep, StutterKeeps DEF Next
<1>3. Spec => []Parts
  BY <1>1, <1>2, PTL DEF Spec
<1>4. Parts => TypeInv
  BY PartsAreTypeInv
<1> QED BY <1>3, <1>4, PTL

(* The type invariant the runs check. *)
THEOREM TypesHold == Spec => []TypeOK
<1>1. TypeInv => TypeOK
  BY DEF TypeInv
<1> QED BY <1>1, TypeCorrect, PTL

----------------------------------------------------------------------------
(* A stop is forgotten only when its hose can no longer deliver.               *)

Closing == {"registers", "identify", "commit", "confirm", "release"}

Placed(l) == Owned(l) => l.nozzle # None

(* What every step needs to know about the outstanding stops: an order names   *)
(* its hose, so an idle poll closes the sale of the hose it saw idle, which    *)
(* has lost its stop by then; and an order is taken without a stop pending.    *)
StopInv ==
    /\ Placed(lane)
    /\ journal # None => Placed(journal)
    /\ at \in Closing \cup {"stops", "live"} => loaded
    /\ at \in Closing /\ ~job.settle => job.net \notin lane.stops
    /\ at \in {"query", "price", "before"} => lane.stops = {}

Forgotten == {h \in lane.stops \ lane'.stops : crashes' = crashes /\ PumpArmed(pump[h])}

(* A hose is never taken for the absence of one. *)
LEMMA HoseIsNotNone == ASSUME NEW h \in Hose PROVE h # None
BY HoseAssumption, NoneAssumption

(* What the lane's updates do to the stops and to the order. *)
LEMMA CancelOrderStops ==
    ASSUME NEW l \in LaneState
    PROVE  /\ CancelOrder(l).stops = l.stops
           /\ CancelOrder(l).order = None
BY DEF CancelOrder, LaneState

(* A requested stop adds to the outstanding ones and keeps the order placed. *)
LEMMA StopIntentStops ==
    ASSUME NEW l \in LaneState, NEW targets \in SUBSET Hose, NEW cancel \in BOOLEAN
    PROVE  /\ l.stops \subseteq StopIntent(l, targets, cancel).stops
           /\ Placed(l) => Placed(StopIntent(l, targets, cancel))
BY DEF StopIntent, LaneState, Placed, Owned

(* Showing a hose idle touches neither the stops nor the order. *)
LEMMA ShowIdleStops ==
    ASSUME NEW l \in LaneState, NEW h \in Hose, NEW lifted \in BOOLEAN
    PROVE  /\ ShowIdle(l, h, lifted).stops = l.stops
           /\ ShowIdle(l, h, lifted).order = l.order
BY DEF ShowIdle, LaneState

(* An idle hose loses its own stop only; an order that stays keeps its nozzle. *)
LEMMA SettleIdleStops ==
    ASSUME NEW l \in LaneState, NEW h
    PROVE  /\ SettleIdle(l, h).stops = l.stops \ {h}
           /\ Owned(SettleIdle(l, h)) => Owned(l) /\ SettleIdle(l, h).nozzle = l.nozzle
<1> DEFINE stopped == [l EXCEPT !.stops = @ \ {h}]
<1> DEFINE acked   == IF Owned(stopped) THEN CancelOrder(stopped) ELSE stopped
<1> DEFINE settled == IF stopped.pending
                    THEN [acked EXCEPT !.pending = FALSE, !.stopReq = FALSE, !.cancelReq = FALSE]
                    ELSE stopped
<1>1. /\ stopped \in LaneState /\ stopped.stops = l.stops \ {h}
      /\ stopped.order = l.order /\ stopped.nozzle = l.nozzle
  BY DEF LaneState
<1> HIDE DEF stopped
<1>2. acked \in LaneState /\ acked.stops = stopped.stops /\ acked.order = None
  BY <1>1, CancelOrderStops, CancelOrderType DEF Owned
<1> HIDE DEF acked
<1>3. /\ settled \in LaneState /\ settled.stops = stopped.stops
      /\ settled.order # None => settled = stopped
  BY <1>1, <1>2 DEF LaneState
<1> HIDE DEF settled
<1>4. /\ [settled EXCEPT !.stopReq = FALSE, !.cancelReq = FALSE].stops = settled.stops
      /\ [settled EXCEPT !.stopReq = FALSE, !.cancelReq = FALSE].order = settled.order
  BY <1>3 DEF LaneState
<1>5. SettleIdle(l, h) = IF Owned(settled)
                         THEN settled
                         ELSE [settled EXCEPT !.stopReq = FALSE, !.cancelReq = FALSE]
  BY Zenon DEF SettleIdle, settled, acked, stopped
<1> QED BY <1>1, <1>3, <1>4, <1>5 DEF Owned

(* A confirmed hose loses its own stop only, and the order ends. *)
LEMMA ReleaseStops ==
    ASSUME NEW l \in LaneState, NEW net
    PROVE  /\ Release(l, net).stops = l.stops \ {net}
           /\ Release(l, net).order = None
<1> DEFINE free == IF Owned(l) \/ l.status = "Finalizing" THEN CancelOrder(l) ELSE l
<1>1. free \in LaneState /\ free.stops = l.stops /\ free.order = None
  BY CancelOrderType, CancelOrderStops DEF Owned
<1> HIDE DEF free
<1> DEFINE freed == [free EXCEPT !.pending = FALSE, !.stopReq = FALSE, !.cancelReq = FALSE,
                                 !.stops = @ \ {net}]
<1>2. freed.stops = l.stops \ {net} /\ freed.order = None
  BY <1>1 DEF LaneState
<1>3. Release(l, net) = freed
  BY Zenon DEF Release, free
<1> QED BY <1>2, <1>3

(* A saved sale ends the order and keeps the stops. *)
LEMMA DurableStops ==
    ASSUME NEW l \in LaneState
    PROVE  Durable(l).stops = l.stops /\ Durable(l).order = None
BY DEF Durable, LaneState

(* A lane with a stop outstanding is not dismissed. *)
LEMMA DismissedStops ==
    ASSUME NEW l \in LaneState
    PROVE  /\ l.stops \subseteq Dismissed(l).stops
           /\ Placed(l) => Placed(Dismissed(l))
BY DEF Dismissed, Dismissable, FreshLane, Placed, Owned

(* The journal keeps the nozzle of an order. *)
LEMMA SnapshotPlaced ==
    ASSUME NEW l \in LaneState, Placed(l), Snapshot(l) # None
    PROVE  Placed(Snapshot(l))
BY DEF Snapshot, LaneState, Placed, Owned

(* Reading the journal loses no stop and no nozzle. *)
LEMMA KnownStops ==
    ASSUME MemOK, Placed(lane), journal # None => Placed(journal)
    PROVE  /\ lane.stops \subseteq Known.stops
           /\ Placed(Known)
           /\ Known \in LaneState
<1>1. CASE loaded \/ journal = None
  BY <1>1 DEF Known, Restored, MemOK
<1>2. CASE ~loaded /\ journal # None
  <2>1. Known = [journal EXCEPT !.stops = @ \cup lane.stops,
                                !.stopReq = @ \/ lane.stopReq,
                                !.cancelReq = @ \/ lane.cancelReq]
    BY <1>2 DEF Known, Restored
  <2>2. journal \in LaneState /\ lane \in LaneState
    BY <1>2 DEF MemOK
  <2>3. /\ Known.stops = journal.stops \cup lane.stops
        /\ Known.order = journal.order /\ Known.nozzle = journal.nozzle
    BY <2>1, <2>2 DEF LaneState
  <2>4. Known \in LaneState
    BY <2>2, RestoredType, <1>2 DEF Known
  <2> QED BY <1>2, <2>3, <2>4 DEF Placed, Owned
<1> QED BY <1>1, <1>2

StopPlaces == Placed(lane) /\ (journal # None => Placed(journal))

(* Any outcome of a save keeps the stops and the places. *)
LEMMA SavesPlaced ==
    ASSUME Parts, StopPlaces, SaveOk \/ SaveFails \/ SaveLate
    PROVE  /\ lane.stops \subseteq lane'.stops
           /\ StopPlaces'
           /\ loaded => lane' = lane /\ loaded'
<1>1. /\ lane.stops \subseteq Known.stops
      /\ Placed(Known) /\ Known \in LaneState
  BY KnownStops DEF Parts, StopPlaces
<1>2. Snapshot(Known) # None => Placed(Snapshot(Known))
  BY <1>1, SnapshotPlaced
<1>3. lane' \in {lane, Known}
  BY DEF SaveOk, SaveFails, SaveLate, Load, memVars
<1>4. journal' \in {journal, Snapshot(Known)}
  BY DEF SaveOk, SaveFails, SaveLate, diskVars
<1>5. loaded => lane' = lane /\ loaded'
  BY DEF SaveOk, SaveFails, SaveLate, Load, memVars, Known
<1>6. StopPlaces'
  BY <1>1, <1>2, <1>3, <1>4, Zenon DEF StopPlaces
<1> QED BY <1>1, <1>3, <1>5, <1>6

(* A step of the loop that keeps the stops, and the steps they settle at.      *)
LEMMA StopFrame ==
    ASSUME StopInv, lane.stops \subseteq lane'.stops, StopPlaces',
           at' \notin Closing \cup {"stops", "live", "query", "price", "before"}
    PROVE  StopInv' /\ Forgotten = {}
BY DEF StopInv, StopPlaces, Forgotten, Closing

(* The end of a poll or command is such a step. *)
LEMMA LeaveFrame ==
    ASSUME Leave
    PROVE  at' \notin Closing \cup {"stops", "live", "query", "price", "before"}
BY DEF Leave, Closing

(* No step of a poll forgets a stop it has not seen carried out. *)
LEMMA PollStops ==
    ASSUME Parts, StopInv, Poll
    PROVE  StopInv' /\ Forgotten = {}
<1> lane \in LaneState
  BY DEF Parts, MemOK
<1> StopPlaces
  BY DEF StopInv, StopPlaces
<1>1. ASSUME BeginPoll
      PROVE  StopInv' /\ Forgotten = {}
  <2>1. lane.stops \subseteq Known.stops /\ Placed(Known)
    BY KnownStops DEF Parts, StopPlaces
  <2>2. lane' = Known /\ loaded' = TRUE /\ journal' = journal /\ at' = "stops"
    BY <1>1 DEF BeginPoll, Load, diskVars
  <2> QED BY <2>1, <2>2 DEF StopInv, Forgotten, Closing
<1>2. ASSUME NEW h \in Hose, NEW heard \in BOOLEAN, NEW sent \in BOOLEAN, ProbeStop(h, heard, sent)
      PROVE  StopInv' /\ Forgotten = {}
  <2>1. at = "stops" /\ at' = "stops" /\ loaded' /\ journal' = journal
    BY <1>2 DEF ProbeStop, StopInv, diskVars
  <2>2. CASE heard /\ StopProven(pump[h])
    <3>1. lane' = [lane EXCEPT !.stops = @ \ {h}] /\ ~PumpArmed(pump[h])
      BY <1>2, <2>2 DEF ProbeStop, StopProven, PumpIdle, PumpArmed
    <3>2. lane'.stops = lane.stops \ {h} /\ lane'.order = lane.order /\ lane'.nozzle = lane.nozzle
      BY <3>1 DEF LaneState
    <3> QED BY <2>1, <3>1, <3>2 DEF StopInv, Forgotten, Closing, Placed, Owned
  <2>3. CASE ~(heard /\ StopProven(pump[h]))
    <3>1. lane' = lane
      BY <1>2, <2>3 DEF ProbeStop
    <3> QED BY <2>1, <3>1 DEF StopInv, Forgotten, Closing
  <2> QED BY <2>2, <2>3
<1>3. ASSUME NEW heard \in SUBSET Hose, ObserveNothing(heard)
      PROVE  StopInv' /\ Forgotten = {}
  <2>1. lane.stops \subseteq lane'.stops /\ Placed(lane')
    BY <1>3 DEF ObserveNothing, ShowMissed, StopInv, Placed, Owned, LaneState
  <2> QED BY <1>3, <2>1, StopFrame, LeaveFrame DEF ObserveNothing, StopPlaces, diskVars
<1>4. ASSUME NEW heard \in SUBSET Hose, NEW h \in heard, ObserveIdle(h, heard)
      PROVE  StopInv' /\ Forgotten = {}
  <2> DEFINE settled == SettleIdle(lane, h)
  <2> DEFINE shown == ShowIdle(settled, h, pump[h].status = "OffLifted")
  <2>1. settled \in LaneState /\ settled.stops = lane.stops \ {h}
    BY SettleIdleType, SettleIdleStops
  <2>2. Owned(settled) => Owned(lane) /\ settled.nozzle = lane.nozzle
    BY SettleIdleStops
  <2>3. shown.stops = settled.stops /\ shown.order = settled.order
    BY <2>1, ShowIdleStops
  <2>4. ~PumpArmed(pump[h]) /\ journal' = journal /\ loaded /\ loaded' = loaded
    BY <1>4 DEF ObserveIdle, Observing, PumpIdle, PumpArmed, diskVars, StopInv
  <2>5. CASE Owned(settled)
    <3>1. lane' = settled /\ at' = "registers" /\ job' = [NoJob EXCEPT !.net = NetOf(settled.nozzle)]
      BY <1>4, <2>5 DEF ObserveIdle
    <3>2. Owned(lane) /\ lane.nozzle # None
      BY <2>2, <2>5 DEF StopInv, Placed
    <3>3. h = lane.nozzle
      BY <1>4, <3>2 DEF ObserveIdle, Resolves, Locked
    <3>4. job'.net = h
      BY <2>2, <2>5, <3>1, <3>2, <3>3, NoJobType DEF NetOf, Job
    <3>5. Placed(settled)
      BY <2>2, <3>2 DEF Placed
    <3> HIDE DEF settled
    <3>6. job'.net \notin lane'.stops
      BY <2>1, <3>1, <3>4
    <3>7. StopInv'
      BY <2>4, <3>1, <3>5, <3>6 DEF StopInv, Closing
    <3> QED BY <2>1, <2>4, <3>1, <3>7 DEF Forgotten
  <2>6. CASE ~Owned(settled)
    <3>1. lane' = shown /\ Leave
      BY <1>4, <2>6 DEF ObserveIdle
    <3>2. Placed(shown)
      BY <2>3, <2>6 DEF Placed, Owned
    <3> HIDE DEF settled, shown
    <3>3. at' \notin Closing \cup {"stops", "live", "query", "price", "before"}
      BY <3>1, LeaveFrame
    <3>4. StopInv'
      BY <2>4, <3>1, <3>2, <3>3 DEF StopInv
    <3> QED BY <2>1, <2>3, <2>4, <3>1, <3>4 DEF Forgotten
  <2> QED BY <2>5, <2>6
<1>5. ASSUME NEW heard \in SUBSET Hose, NEW h \in heard, NEW expired \in BOOLEAN,
             ObserveArmed(h, heard, expired)
      PROVE  StopInv' /\ Forgotten = {}
  <2> DEFINE seen == [lane EXCEPT !.before = None]
  <2> DEFINE target == {NetOf(lane.nozzle)}
  <2>1. /\ seen \in LaneState /\ seen.stops = lane.stops /\ seen.order = lane.order
        /\ seen.nozzle = lane.nozzle /\ target \in SUBSET Hose
    BY NetIsHose DEF LaneState
  <2>2. Placed(seen) /\ Placed(lane)
    BY <2>1 DEF StopInv, Placed, Owned
  <2>3. \A l \in {lane, seen} :
          /\ lane.stops \subseteq StopIntent(l, target, TRUE).stops
          /\ Placed(StopIntent(l, target, TRUE))
    BY <2>1, <2>2, StopIntentStops
  <2>4. h # None
    BY HoseIsNotNone
  <2> DEFINE armed == [seen EXCEPT !.nozzle = h,
                                   !.status = IF lane.stopReq THEN "Finalizing" ELSE "Armed"]
  <2> HIDE DEF seen
  <2>5. armed.stops = lane.stops /\ armed.nozzle = h
    BY <2>1 DEF LaneState
  <2>6. Placed(armed)
    BY <2>4, <2>5 DEF Placed
  <2>7. lane' \in {StopIntent(lane, target, TRUE), StopIntent(seen, target, TRUE), armed}
    BY <1>5 DEF ObserveArmed, seen
  <2> HIDE DEF target, armed
  <2>8. lane.stops \subseteq lane'.stops /\ Placed(lane')
    BY <2>3, <2>5, <2>6, <2>7
  <2>9. at' \notin Closing \cup {"stops", "live", "query", "price", "before"}
    BY <1>5, LeaveFrame DEF ObserveArmed, Closing
  <2> QED BY <1>5, <2>8, <2>9, StopFrame DEF ObserveArmed, StopPlaces, diskVars
<1>6. ASSUME NEW heard \in SUBSET Hose, NEW h \in heard, ObserveFlow(h, heard)
      PROVE  StopInv' /\ Forgotten = {}
  BY <1>6 DEF ObserveFlow, Observing, StopInv, Forgotten, Closing, memVars, diskVars
<1>7. ASSUME NEW heard \in SUBSET Hose, NEW h \in heard, ObserveFinished(h, heard)
      PROVE  StopInv' /\ Forgotten = {}
  <2>1. lane'.stops = lane.stops /\ lane'.nozzle = h
    BY <1>7 DEF ObserveFinished, LaneState
  <2>2. Placed(lane')
    BY <2>1, HoseIsNotNone DEF Placed
  <2>3. loaded' /\ journal' = journal /\ job'.settle = TRUE
    BY <1>7 DEF ObserveFinished, Observing, StopInv, NoJob, diskVars
  <2>4. at' \in Closing
    BY <1>7 DEF ObserveFinished, Closing
  <2> QED BY <2>1, <2>2, <2>3, <2>4 DEF StopInv, Forgotten, Closing
<1>8. ASSUME NEW heard \in SUBSET Hose, NEW h \in heard, NEW sent \in BOOLEAN,
             ObserveLocalPreset(h, heard, sent)
      PROVE  StopInv' /\ Forgotten = {}
  BY <1>8, StopFrame, LeaveFrame DEF ObserveLocalPreset, StopPlaces, memVars, diskVars
<1>9. ASSUME LiveReading
      PROVE  StopInv' /\ Forgotten = {}
  <2>1. job.net \in Hose
    BY <1>9 DEF LiveReading, Parts, StepsSound, OnHose
  <2>2. lane'.stops = lane.stops /\ lane'.nozzle = job.net
    BY <1>9 DEF LiveReading, LaneState
  <2>3. Placed(lane')
    BY <2>1, <2>2, HoseIsNotNone DEF Placed
  <2> QED BY <1>9, <2>2, <2>3, StopFrame, LeaveFrame DEF LiveReading, StopPlaces, diskVars
<1>10. ASSUME LiveReadingLost
       PROVE  StopInv' /\ Forgotten = {}
  <2>1. lane.stops \subseteq lane'.stops /\ Placed(lane')
    BY <1>10 DEF LiveReadingLost, ShowMissed, StopInv, Placed, Owned, LaneState
  <2> QED BY <1>10, <2>1, StopFrame, LeaveFrame DEF LiveReadingLost, StopPlaces, diskVars
<1> QED BY <1>1, <1>2, <1>3, <1>4, <1>5, <1>6, <1>7, <1>8, <1>9, <1>10 DEF Poll

(* No step of a close does. *)
LEMMA CloseStops ==
    ASSUME Parts, StopInv, Close
    PROVE  StopInv' /\ Forgotten = {}
<1> lane \in LaneState
  BY DEF Parts, MemOK
<1> StopPlaces
  BY DEF StopInv, StopPlaces
<1>1. ASSUME ReadRegisters
      PROVE  StopInv' /\ Forgotten = {}
  <2>1. /\ lane'.stops = lane.stops /\ lane'.order = lane.order /\ lane'.nozzle = lane.nozzle
        /\ loaded' /\ journal' = journal /\ at' \in Closing
    BY <1>1 DEF ReadRegisters, Goto, StopInv, Closing, LaneState, diskVars
  <2>2. job'.net = job.net /\ job'.settle = job.settle
    BY <1>1 DEF ReadRegisters, Goto, Parts, LoopOK, Job
  <2>3. Placed(lane')
    BY <2>1 DEF StopInv, Placed, Owned
  <2>4. ~job'.settle => job'.net \notin lane'.stops
    BY <1>1, <2>1, <2>2 DEF ReadRegisters, StopInv, Closing
  <2> QED BY <2>1, <2>3, <2>4 DEF StopInv, Forgotten, Closing
<1>2. ASSUME IdentifySale
      PROVE  StopInv' /\ Forgotten = {}
  <2> DEFINE id == SaleKey(job.net, job.volume)
  <2> DEFINE refused == [CancelOrder(lane) EXCEPT !.before = None]
  <2>1. refused.stops = lane.stops /\ refused.order = None
    BY CancelOrderType, CancelOrderStops DEF LaneState
  <2>2. Durable(lane).stops = lane.stops /\ Durable(lane).order = None
    BY DurableStops
  <2>3. lane' \in {lane, refused, Durable(lane)}
    BY <1>2 DEF IdentifySale
  <2>4. lane'.stops = lane.stops /\ Placed(lane')
    BY <2>1, <2>2, <2>3 DEF StopInv, Placed, Owned
  <2>5. loaded' /\ journal' = journal
    BY <1>2 DEF IdentifySale, StopInv, Closing, diskVars
  <2>6. CASE Leave
    BY <1>2, <2>4, <2>6, StopFrame, LeaveFrame DEF IdentifySale, StopPlaces, diskVars
  <2>7. CASE at' \in {"confirm", "commit"} /\ job' \in {job, [job EXCEPT !.id = id]}
    <3>1. job'.net = job.net /\ job'.settle = job.settle
      BY <2>7 DEF Parts, LoopOK, Job
    <3>2. ~job'.settle => job'.net \notin lane'.stops
      BY <1>2, <2>4, <3>1 DEF IdentifySale, StopInv, Closing
    <3> QED BY <2>4, <2>5, <2>7, <3>2 DEF StopInv, Forgotten, Closing
  <2> QED BY <1>2, <2>6, <2>7 DEF IdentifySale, Goto
<1>3. ASSUME ReadFails
      PROVE  StopInv' /\ Forgotten = {}
  BY <1>3, StopFrame, LeaveFrame DEF ReadFails, StopPlaces, memVars, diskVars
<1>4. ASSUME CommitSale
      PROVE  StopInv' /\ Forgotten = {}
  <2>1. lane'.stops = lane.stops /\ lane'.order = None
    BY <1>4, DurableStops DEF CommitSale
  <2> QED BY <1>4, <2>1 DEF CommitSale, Goto, StopInv, Forgotten, Closing, Placed, Owned
<1>5. ASSUME CommitFails
      PROVE  StopInv' /\ Forgotten = {}
  BY <1>5, StopFrame, LeaveFrame DEF CommitFails, StopPlaces, memVars, diskVars
<1>6. ASSUME ConfirmSaved
      PROVE  StopInv' /\ Forgotten = {}
  <2>1. loaded
    BY <1>6 DEF ConfirmSaved, StopInv, Closing
  <2>2. StopPlaces' /\ lane' = lane /\ loaded'
    BY <1>6, <2>1, SavesPlaced DEF ConfirmSaved
  <2> QED BY <1>6, <2>2 DEF ConfirmSaved, Goto, StopInv, StopPlaces, Forgotten, Closing
<1>7. ASSUME ConfirmNotSaved \/ Checkpoint
      PROVE  StopInv' /\ Forgotten = {}
  <2>1. lane.stops \subseteq lane'.stops /\ StopPlaces'
    BY <1>7, SavesPlaced DEF ConfirmNotSaved, Checkpoint
  <2>2. at' \notin Closing \cup {"stops", "live", "query", "price", "before"}
    BY <1>7, LeaveFrame DEF ConfirmNotSaved, Checkpoint, Goto, Closing
  <2> QED BY <2>1, <2>2, StopFrame
<1>8. ASSUME ReleaseIdle
      PROVE  StopInv' /\ Forgotten = {}
  <2>1. lane'.stops = lane.stops \ {job.net} /\ lane'.order = None
    BY <1>8, ReleaseStops DEF ReleaseIdle
  <2>2. job.net \notin lane.stops
    BY <1>8 DEF ReleaseIdle, StopInv, Closing
  <2>3. lane.stops \subseteq lane'.stops /\ Placed(lane')
    BY <2>1, <2>2 DEF Placed, Owned
  <2> QED BY <1>8, <2>3, StopFrame, LeaveFrame DEF ReleaseIdle, StopPlaces, diskVars
<1>9. ASSUME NEW sent \in BOOLEAN, NEW acked \in BOOLEAN, ConfirmWire(sent, acked)
      PROVE  StopInv' /\ Forgotten = {}
  <2>1. CASE ~acked
    <3>1. lane' = lane
      BY <1>9, <2>1 DEF ConfirmWire
    <3> QED BY <1>9, <3>1, StopFrame, LeaveFrame DEF ConfirmWire, StopPlaces, diskVars
  <2>2. CASE acked
    <3>1. ~PumpArmed(pump[job.net])
      BY <1>9, <2>2 DEF ConfirmWire, PumpArmed
    <3>2. lane'.stops = lane.stops \ {job.net} /\ lane'.order = None
      BY <1>9, <2>2, ReleaseStops DEF ConfirmWire
    <3>3. at' \notin Closing \cup {"stops", "live", "query", "price", "before"}
      BY <1>9, LeaveFrame DEF ConfirmWire
    <3>4. Placed(lane') /\ journal' = journal
      BY <1>9, <3>2 DEF ConfirmWire, Placed, Owned, diskVars
    <3> QED BY <3>1, <3>2, <3>3, <3>4 DEF StopInv, Forgotten
  <2> QED BY <2>1, <2>2
<1> QED BY <1>1, <1>2, <1>3, <1>4, <1>5, <1>6, <1>7, <1>8, <1>9 DEF Close

(* No command does. *)
LEMMA CommandStops ==
    ASSUME Parts, StopInv, Command
    PROVE  StopInv' /\ Forgotten = {}
<1> lane \in LaneState
  BY DEF Parts, MemOK
<1> StopPlaces
  BY DEF StopInv, StopPlaces
<1> /\ lane.stops \subseteq Known.stops
    /\ Placed(Known) /\ Known \in LaneState
  BY KnownStops DEF Parts, StopPlaces
<1>1. ASSUME NEW all \in BOOLEAN, NEW cancel \in BOOLEAN, NEW readable \in BOOLEAN,
             StopCommand(all, cancel, readable)
      PROVE  StopInv' /\ Forgotten = {}
  <2> DEFINE l == IF readable THEN Known ELSE lane
  <2> DEFINE targets == IF all THEN Hose ELSE {NetOf(l.nozzle)}
  <2>1. l \in LaneState /\ lane.stops \subseteq l.stops /\ Placed(l)
    BY DEF StopInv
  <2>2. targets \in SUBSET Hose
    BY <2>1, NetIsHose DEF LaneState
  <2> HIDE DEF l
  <2>3. lane' = StopIntent(l, targets, cancel)
    BY <1>1 DEF StopCommand, l
  <2> HIDE DEF targets
  <2>4. lane.stops \subseteq lane'.stops /\ Placed(lane')
    BY <2>1, <2>2, <2>3, StopIntentStops
  <2>5. at' \notin Closing \cup {"stops", "live", "query", "price", "before"}
    BY <1>1 DEF StopCommand, Closing
  <2> QED BY <1>1, <2>4, <2>5, StopFrame DEF StopCommand, StopPlaces, diskVars
<1>2. ASSUME StopSave
      PROVE  StopInv' /\ Forgotten = {}
  <2>1. lane.stops \subseteq lane'.stops /\ StopPlaces'
    BY <1>2, SavesPlaced DEF StopSave
  <2>2. at' \notin Closing \cup {"stops", "live", "query", "price", "before"}
    BY <1>2 DEF StopSave, Goto, Closing
  <2> QED BY <2>1, <2>2, StopFrame
<1>3. ASSUME NEW h \in Hose, NEW sent \in BOOLEAN, StopWire(h, sent)
      PROVE  StopInv' /\ Forgotten = {}
  <2>1. at' \notin Closing \cup {"stops", "live", "query", "price", "before"}
    BY <1>3, LeaveFrame DEF StopWire, Closing
  <2> QED BY <1>3, <2>1, StopFrame DEF StopWire, StopPlaces, memVars, diskVars
<1>4. ASSUME DismissCommand
      PROVE  StopInv' /\ Forgotten = {}
  <2>1. lane.stops \subseteq lane'.stops /\ Placed(lane')
    BY <1>4, DismissedStops DEF DismissCommand
  <2>2. journal' # None => Placed(journal')
    BY <1>4, SnapshotPlaced DEF DismissCommand, StopPlaces
  <2> QED BY <1>4, <2>1, <2>2, StopFrame, LeaveFrame DEF DismissCommand, StopPlaces
<1>5. ASSUME NEW h \in Hose, NEW direct \in BOOLEAN, OrderCommand(h, direct)
      PROVE  StopInv' /\ Forgotten = {}
  <2>1. Known.stops = {}
    BY <1>5 DEF OrderCommand, Busy
  <2>2. lane' = Known /\ StopPlaces'
    BY <1>5, SavesPlaced DEF OrderCommand, SaveOk
  <2>3. at' = "query"
    BY <1>5 DEF OrderCommand
  <2> QED BY <2>1, <2>2, <2>3 DEF StopInv, StopPlaces, Forgotten, Closing
<1>6. ASSUME NEW heard \in BOOLEAN, CheckReady(heard)
      PROVE  StopInv' /\ Forgotten = {}
  <2>1. lane' = lane /\ journal' = journal /\ lane.stops = {}
    BY <1>6 DEF CheckReady, memVars, diskVars, StopInv
  <2>2. at' \notin Closing \cup {"stops", "live"}
    BY <1>6, LeaveFrame DEF CheckReady, Goto, Closing
  <2> QED BY <2>1, <2>2 DEF StopInv, Forgotten, Closing
<1>7. ASSUME NEW sent \in BOOLEAN, NEW acked \in BOOLEAN, SetOrder(sent, acked)
      PROVE  StopInv' /\ Forgotten = {}
  <2>1. lane' = lane /\ journal' = journal /\ lane.stops = {}
    BY <1>7 DEF SetOrder, memVars, diskVars, StopInv
  <2>2. at' \notin Closing \cup {"stops", "live"}
    BY <1>7, LeaveFrame DEF SetOrder, Goto, Closing
  <2> QED BY <2>1, <2>2 DEF StopInv, Forgotten, Closing
<1>8. ASSUME TakeOrder
      PROVE  StopInv' /\ Forgotten = {}
  <2>1. job.net \in Hose /\ lane.stops = {}
    BY <1>8 DEF TakeOrder, Parts, StepsSound, OnHose, StopInv
  <2>2. lane'.nozzle = job.net
    BY <1>8, FreshLaneType DEF TakeOrder, OrderIntent, FreshLane
  <2>3. Placed(lane')
    BY <2>1, <2>2, HoseIsNotNone DEF Placed
  <2>4. at' \notin Closing \cup {"stops", "live", "query", "price", "before"}
    BY <1>8 DEF TakeOrder, Goto, Closing
  <2> QED BY <1>8, <2>1, <2>3, <2>4, StopFrame DEF TakeOrder, StopPlaces, diskVars
<1>9. ASSUME TakeOrderFails
      PROVE  StopInv' /\ Forgotten = {}
  BY <1>9, StopFrame, LeaveFrame DEF TakeOrderFails, StopPlaces, memVars, diskVars
<1>10. ASSUME ArmSaved
       PROVE  StopInv' /\ Forgotten = {}
  <2>1. lane.stops \subseteq lane'.stops /\ StopPlaces'
    BY <1>10, SavesPlaced DEF ArmSaved
  <2>2. at' \notin Closing \cup {"stops", "live", "query", "price", "before"}
    BY <1>10 DEF ArmSaved, Goto, Closing
  <2> QED BY <2>1, <2>2, StopFrame
<1> DEFINE dropped == [CancelOrder(lane) EXCEPT !.before = None]
<1>11. dropped.stops = lane.stops /\ Placed(dropped)
  BY CancelOrderType, CancelOrderStops DEF LaneState, Placed, Owned
<1>12. ASSUME ArmNotSaved
       PROVE  StopInv' /\ Forgotten = {}
  <2>1. lane' = dropped
    BY <1>12 DEF ArmNotSaved
  <2> QED BY <1>11, <1>12, <2>1, StopFrame, LeaveFrame DEF ArmNotSaved, StopPlaces, diskVars
<1>13. ASSUME NEW sent \in BOOLEAN, NEW heard \in BOOLEAN, ArmWire(sent, heard)
       PROVE  StopInv' /\ Forgotten = {}
  <2>1. lane' \in {dropped, [lane EXCEPT !.before = None], [lane EXCEPT !.status = "Armed"]}
    BY <1>13 DEF ArmWire
  <2>2. /\ [lane EXCEPT !.before = None].stops = lane.stops
        /\ Placed([lane EXCEPT !.before = None])
        /\ [lane EXCEPT !.status = "Armed"].stops = lane.stops
        /\ Placed([lane EXCEPT !.status = "Armed"])
    BY DEF StopInv, Placed, Owned, LaneState
  <2> HIDE DEF dropped
  <2>3. lane'.stops = lane.stops /\ Placed(lane')
    BY <1>11, <2>1, <2>2
  <2>4. at' \notin Closing \cup {"stops", "live", "query", "price", "before"}
    BY <1>13, LeaveFrame DEF ArmWire, Goto, Closing
  <2> QED BY <1>13, <2>3, <2>4, StopFrame DEF ArmWire, StopPlaces, diskVars
<1>14. ASSUME NEW sent \in BOOLEAN, StartWire(sent)
       PROVE  StopInv' /\ Forgotten = {}
  BY <1>14, StopFrame, LeaveFrame DEF StartWire, StopPlaces, memVars, diskVars
<1> HIDE DEF dropped
<1> QED BY <1>1, <1>2, <1>3, <1>4, <1>5, <1>6, <1>7, <1>8, <1>9, <1>10, <1>12, <1>13, <1>14
        DEF Command

(* The surroundings forget stops only by killing the process. *)
LEMMA SurroundingsStops ==
    ASSUME Parts, StopInv, Surroundings \/ UNCHANGED vars
    PROVE  StopInv' /\ Forgotten = {}
<1>1. CASE Crash
  <2>1. Placed(FreshLane) /\ FreshLane.stops = {}
    BY DEF FreshLane, Placed, Owned
  <2>2. lane' = FreshLane /\ journal' = journal /\ at' = "rest" /\ crashes' = crashes + 1
    BY <1>1 DEF Crash, diskVars
  <2>3. crashes' # crashes
    BY <2>2 DEF Parts, BoundsOK
  <2> QED BY <2>1, <2>2, <2>3 DEF StopInv, Forgotten, Closing
<1>2. CASE UNCHANGED <<lane, loaded, journal, at, job>>
  BY <1>2 DEF StopInv, Placed, Owned, Forgotten
<1>3. Crash \/ UNCHANGED <<lane, loaded, journal, at, job>>
  BY DEF Surroundings, CustomerLifts, CustomerHolsters, PumpStarts, FuelFlows, PumpCleared,
         KeypadPreset, ForeignArm, NextShift, Others, diskVars, memVars, vars
<1> QED BY <1>1, <1>2, <1>3

(* No step of the loop, whatever was lost on the wire or in the database,      *)
(* forgets a stop while its hose can still deliver.  Only a crash may: it      *)
(* loses the stops its journal does not hold.                                  *)
THEOREM StopsHeld == Spec => StopHeld
<1>1. Init => Parts /\ StopInv
  <2>1. ASSUME Init PROVE StopInv
    BY <2>1 DEF Init, StopInv, FreshLane, Placed, Owned, Closing
  <2> QED BY <2>1, InitParts
<1>2. Parts /\ StopInv /\ [Next]_vars => (Parts /\ StopInv)'
  BY PollKeeps, CloseKeeps, CommandKeeps, SurroundingsKeep, StutterKeeps,
     PollStops, CloseStops, CommandStops, SurroundingsStops DEF Next
<1>3. Parts /\ StopInv /\ [Next]_vars
        => [\A h \in lane.stops \ lane'.stops :
                crashes' # crashes \/ ~PumpArmed(pump[h])]_vars
  <2>1. ASSUME Parts, StopInv, [Next]_vars PROVE Forgotten = {}
    BY <2>1, PollStops, CloseStops, CommandStops, SurroundingsStops DEF Next
  <2> QED BY <2>1 DEF Forgotten
<1> QED BY <1>1, <1>2, <1>3, PTL DEF Spec, StopHeld
=============================================================================
