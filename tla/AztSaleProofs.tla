---------------------------- MODULE AztSaleProofs ----------------------------
(***************************************************************************)
(* The sales of the AZT lane, for any card, dose, orders, shifts, crashes, *)
(* faults and interventions at the pump: an ordered sale survives a crash, *)
(* is in the book before its registers are given up, and, on a card that   *)
(* answers to this service alone, is billed once and to its own shift.     *)
(***************************************************************************)
EXTENDS AztLaneProofs, AztLaneLedger

Written(a) == \E r \in recorded : r.arm = a

(* The registers of a hose hold an ordered sale. *)
Filled(h) == arm[h] \in Ordered /\ (PumpArmed(pump[h]) \/ pump[h].volume > 0)

(* It is still to be written to the book. *)
Live(h) == Filled(h) /\ (PumpArmed(pump[h]) \/ ~Written(arm[h]))

(* An identity from before the sale in the registers of a pump: the sale has   *)
(* moved the serial on, or does so when it ends.                               *)
Past(id, p) ==
    IF PumpArmed(p) /\ ~Numbered THEN id[2] <= p.serial ELSE id[2] < p.serial

(* A lane or a row of the journal that holds the order of the sale of h. *)
Holds(l, h) ==
    /\ l # None /\ Owned(l) /\ l.nozzle = h /\ ~l.pending
    /\ [arm |-> arm[h], shift |-> l.order] \in orders
    /\ l.before # None => Past(l.before, pump[h])

(* Arms are numbered, and an arm belongs to one hose and one order. *)
ArmsApart ==
    /\ \A o \in orders : o.arm <= arms
    /\ \A o, p \in orders : o.arm = p.arm => o = p
    /\ \A h \in Hose : arm[h] <= arms
    /\ \A g, h \in Hose : arm[g] = arm[h] /\ arm[g] # 0 => g = h
    /\ \A c \in cleared : c.arm <= arms
    /\ \A r \in recorded : r.arm <= arms
    /\ at \in {"identify", "commit"} => job.arm <= arms

(* The order of a live sale is in the journal, and in a lane that has read it. *)
OrdersHeld ==
    \A h \in Hose : Live(h) => Holds(journal, h) /\ (loaded => Holds(lane, h))

(* An order is taken while no sale is live, and journalled before it arms. *)
NewOrder ==
    /\ at \in Ordering \ {"start"} => \A h \in Hose : ~Live(h)
    /\ at \in {"query", "price", "before"} => ~Owns(lane) /\ cached = None
    /\ at \in {"armSave", "arm"} =>
          /\ Owned(lane) /\ lane.nozzle = job.net /\ ~lane.pending
          /\ lane.before # None => lane.before[2] <= pump[job.net].serial
    /\ at = "armSave" => cached = None
    /\ at = "arm" => journal = Snapshot(lane)

(* What a close has read is what its hose holds, unless a sale of others began. *)
AtRegisters ==
    /\ at \in Closing \cup {"live"} => (Owned(lane) => job.net = lane.nozzle)
    /\ at \in Closing => (arm[job.net] \in Ordered => ~PumpArmed(pump[job.net]))
    /\ at \in {"confirm", "release"} => lane.pending
    /\ at \in {"identify", "commit"} =>
          /\ arm[job.net] \in Ordered => job.arm = arm[job.net]
          /\ \A h \in Hose : arm[h] \in Ordered /\ arm[h] = job.arm =>
                ~PumpArmed(pump[h]) /\ job.volume = pump[h].volume
    /\ at = "commit" => job.id[1] = job.net /\ job.id[2] <= pump[job.net].serial
    /\ MaxForeign = 0 /\ at \in {"identify", "commit"} /\ job.volume > 0 =>
          arm[job.net] \in Ordered /\ (at = "commit" => job.id = SaleKey(job.net, job.volume))

(* The book knows the sale in the registers of a hose, or only earlier ones. *)
Books ==
    /\ \A r \in recorded : r.id[2] <= pump[r.id[1]].serial
    /\ \A h \in Hose, r \in recorded :
          /\ Filled(h) /\ r.id[1] = h => Past(r.id, pump[h]) \/ r.arm = arm[h]
          /\ arm[h] \in Ordered /\ r.arm = arm[h] =>
                ~PumpArmed(pump[h]) /\ (pump[h].volume > 0 => r.volume = pump[h].volume)

(* On a card that answers to this service alone every arm is an order, and the *)
(* identity of a sale is the one its registers tell.                           *)
Alone ==
    /\ \A h \in Hose : arm[h] # 0 => arm[h] \in Ordered
    /\ \A r \in recorded, h \in Hose :
          r.volume > 0 /\ r.arm = arm[h] /\ pump[h].volume > 0 =>
              r.id = SaleKey(h, pump[h].volume)
    /\ \A r \in recorded : r.volume > 0 => r.arm \in Ordered
    /\ \A c \in cleared : c.arm \in Ordered
    /\ BilledOnce
    /\ BilledToOrderShift

(* Registers are given up once: the pump keeps them as they are, or empties    *)
(* them.                                                                       *)
Surrendered ==
    /\ \A c, d \in cleared : c.arm = d.arm => c = d
    /\ \A c \in cleared, h \in Hose :
          c.arm = arm[h] => ~PumpArmed(pump[h]) /\ pump[h].volume \in {0, c.volume}

SaleInv ==
    /\ ArmsApart /\ OrdersHeld /\ NewOrder /\ AtRegisters /\ Books /\ NoSaleLost
    /\ Surrendered
    /\ MaxForeign = 0 => Alone

----------------------------------------------------------------------------
(* Commands and movements of a pump that start no sale. *)

(* The sale register and the serial move only while the pump is armed, or the  *)
(* register is emptied; a sale that ends with fuel moves the lifetime counter. *)
Quiet(p, q) ==
    /\ PumpArmed(q) => PumpArmed(p)
    /\ p.serial <= q.serial
    /\ ~PumpArmed(p) => q.volume = 0 \/ (q.volume = p.volume /\ q.serial = p.serial)
    /\ PumpArmed(p) /\ ~PumpArmed(q) /\ q.volume > 0 /\ ~Numbered => p.serial < q.serial

(* The same, and an idle pump keeps its register. *)
Steady(p, q) ==
    Quiet(p, q) /\ (~PumpArmed(p) => q.volume = p.volume /\ q.serial = p.serial)

(* What ending a sale does to the serial. *)
LEMMA FinishSerial ==
    ASSUME NEW p \in PumpState
    PROVE  /\ PumpFinish(p).serial = IF Numbered THEN p.serial ELSE p.serial + p.volume
           /\ PumpFinish(p).volume = p.volume
           /\ ~PumpArmed(PumpFinish(p))
<1>1. PumpFinish(p).serial = IF Numbered THEN p.serial ELSE p.serial + p.volume
  BY DEF PumpFinish, PumpState
<1> QED BY <1>1, PumpRegisters DEF PumpArmed

(* Ending a sale that is under way is steady. *)
LEMMA FinishSteady ==
    ASSUME NEW p \in PumpState, NEW q \in PumpState, PumpArmed(p),
           q.serial = p.serial, q.volume \in {p.volume, p.volume + 1}
    PROVE  Steady(p, PumpFinish(q))
<1>1. /\ PumpFinish(q).serial = IF Numbered THEN q.serial ELSE q.serial + q.volume
      /\ PumpFinish(q).volume = q.volume
      /\ ~PumpArmed(PumpFinish(q))
  BY FinishSerial
<1>2. q.serial \in Nat /\ q.volume \in Nat
  BY MaxVolumeAssumption DEF PumpState
<1> QED BY <1>1, <1>2 DEF Steady, Quiet

(* A pump whose registers are left alone, and that is not armed by it. *)
LEMMA RegistersSteady ==
    ASSUME NEW p \in PumpState, NEW q, q.serial = p.serial, q.volume = p.volume,
           PumpArmed(p) <=> PumpArmed(q)
    PROVE  Steady(p, q)
BY DEF Steady, Quiet, PumpState

(* The commands and movements that start no sale are steady. *)
LEMMA MovesSteady ==
    ASSUME NEW p \in PumpState,
           NEW q \in {p, PumpStart(p), PumpStop(p), PumpConfirm(p), PumpLift(p),
                      PumpPreset(p), PumpHolster(p), PumpClear(p)}
    PROVE  Steady(p, q)
<1> DEFINE Same(r) ==
      r.serial = p.serial /\ r.volume = p.volume /\ (PumpArmed(p) <=> PumpArmed(r))
<1> USE DEF PumpState, PumpStatus, PumpArmed, PumpIdle, PumpIdleStatus
<1>1. Same(p) /\ Same(PumpStart(p)) /\ Same(PumpConfirm(p)) /\ Same(PumpPreset(p))
  BY DEF PumpStart, PumpConfirm, PumpPreset
<1>2. Same(PumpLift(p))
  BY DEF PumpLift
<1>3. Steady(p, PumpStop(p))
  <2>1. CASE PumpArmed(p)
    BY <2>1, FinishSteady, Zenon DEF PumpStop
  <2>2. CASE ~PumpArmed(p)
    <3>1. Same(PumpStop(p))
      BY <2>2 DEF PumpStop
    <3> QED BY <3>1, RegistersSteady
  <2> QED BY <2>1, <2>2
<1>4. Steady(p, PumpHolster(p))
  <2> DEFINE down == [p EXCEPT !.lifted = FALSE]
  <2>1. down \in PumpState /\ down.volume = p.volume /\ down.serial = p.serial
    OBVIOUS
  <2>2. CASE p.status = "Dispensing"
    <3>1. PumpArmed(p) /\ PumpHolster(p) = PumpFinish(down)
      BY <2>2 DEF PumpHolster
    <3> HIDE DEF down
    <3> QED BY <2>1, <3>1, FinishSteady
  <2>3. CASE p.status # "Dispensing"
    <3>1. Same(PumpHolster(p))
      BY <2>3 DEF PumpHolster
    <3> QED BY <3>1, RegistersSteady
  <2> QED BY <2>2, <2>3
<1>5. Steady(p, PumpClear(p))
  <2> DEFINE done == IF PumpArmed(p) THEN PumpFinish(p) ELSE p
  <2>1. done \in PumpState
    BY PumpRegisters
  <2>2. Steady(p, done)
    <3>1. CASE PumpArmed(p)
      BY <3>1, FinishSteady
    <3>2. CASE ~PumpArmed(p)
      BY <1>1, <3>2, RegistersSteady
    <3> QED BY <3>1, <3>2
  <2>3. ~PumpArmed(done)
    BY FinishSerial
  <2> HIDE DEF done
  <2>4. /\ PumpClear(p).volume = done.volume /\ PumpClear(p).serial = done.serial
        /\ ~PumpArmed(PumpClear(p))
    BY <2>1 DEF PumpClear, done
  <2> QED BY <2>2, <2>3, <2>4 DEF Steady, Quiet
<1> HIDE DEF Same
<1>6. ASSUME NEW r, Same(r) PROVE Steady(p, r)
  BY <1>6, RegistersSteady DEF Same
<1> HIDE DEF PumpState, PumpStatus, PumpArmed, PumpIdle, PumpIdleStatus
<1> QED BY <1>1, <1>2, <1>3, <1>4, <1>5, <1>6

(* So is a unit of fuel, *)
LEMMA FlowSteady ==
    ASSUME NEW p \in PumpState, PumpArmed(p), p.volume < MaxVolume
    PROVE  Steady(p, PumpFlow(p))
<1> DEFINE more == [p EXCEPT !.volume = @ + 1]
<1>1. /\ more \in PumpState /\ more.volume = p.volume + 1 /\ more.serial = p.serial
      /\ PumpArmed(more)
  BY MaxVolumeAssumption DEF PumpState, PumpArmed
<1>2. PumpFlow(p) = IF more.volume = MaxVolume THEN PumpFinish(more) ELSE more
  BY Zenon DEF PumpFlow
<1> HIDE DEF more
<1>3. Steady(p, PumpFinish(more))
  BY <1>1, FinishSteady
<1>4. Steady(p, more)
  BY <1>1 DEF Steady, Quiet, PumpState
<1> QED BY <1>2, <1>3, <1>4

(* and the price empties the register of a pump that is not armed. *)
LEMMA PriceQuiet ==
    ASSUME NEW p \in PumpState, PumpIdle(p)
    PROVE  Quiet(p, PumpSetPrice(p))
<1>1. PumpSetPrice(p).volume = 0 /\ PumpSetPrice(p).status = p.status
  BY PumpRegisters DEF PumpSetPrice
<1>2. p.serial <= PumpSetPrice(p).serial
  BY DEF PumpSetPrice, PumpRenew, PumpState
<1> QED BY <1>1, <1>2 DEF Quiet, PumpArmed, PumpIdle

(* An authorized pump is armed and empty, and numbers a new sale. *)
LEMMA AuthorizeSerial ==
    ASSUME NEW p \in PumpState, PumpReady(p)
    PROVE  /\ PumpArmed(PumpAuthorize(p))
           /\ PumpAuthorize(p).volume = 0
           /\ PumpAuthorize(p).serial = IF Numbered THEN p.serial + 1 ELSE p.serial
<1>1. PumpRenew(p) \in PumpState /\ PumpRenew(p).volume = 0
  BY PumpRegisters
<1>2. PumpRenew(p).serial = IF Numbered THEN p.serial + 1 ELSE p.serial
  BY DEF PumpRenew, PumpState
<1> QED BY <1>1, <1>2 DEF PumpAuthorize, PumpArmed, PumpState

----------------------------------------------------------------------------
(* Steps that arm nothing, and what they leave of the sales. *)

Calm ==
    /\ UNCHANGED <<arm, arms, orders>>
    /\ \A h \in Hose : Quiet(pump[h], pump'[h])

(* The pumps keep still. *)
LEMMA SameCalm ==
    ASSUME PumpsOK, UNCHANGED <<pump, arm, arms, orders>>
    PROVE  Calm
<1> SUFFICES ASSUME NEW h \in Hose PROVE Quiet(pump[h], pump[h])
  BY DEF Calm
<1>1. pump[h] \in PumpState
  BY DEF PumpsOK
<1> QED BY <1>1, MovesSteady DEF Steady

(* One pump makes a quiet move. *)
LEMMA MoveCalm ==
    ASSUME PumpsOK, NEW h \in Hose, NEW q, Quiet(pump[h], q),
           pump' = [pump EXCEPT ![h] = q], UNCHANGED <<arm, arms, orders>>
    PROVE  Calm
<1> SUFFICES ASSUME NEW g \in Hose PROVE Quiet(pump[g], pump'[g])
  BY DEF Calm
<1>1. pump[g] \in PumpState
  BY DEF PumpsOK
<1>2. Quiet(pump[g], pump[g])
  BY <1>1, MovesSteady DEF Steady
<1>3. pump'[g] \in {q, pump[g]} /\ (g = h => pump'[g] = q) /\ (g # h => pump'[g] = pump[g])
  BY DEF PumpsOK
<1> QED BY <1>2, <1>3

(* What was past stays past while the sale is there. *)
LEMMA PastKept ==
    ASSUME NEW p \in PumpState, NEW q \in PumpState, NEW id \in SaleId,
           Quiet(p, q), PumpArmed(q) \/ q.volume > 0, Past(id, p)
    PROVE  Past(id, q)
<1>1. id[2] \in Nat /\ p.serial \in Nat /\ q.serial \in Nat
  BY DEF SaleId, PumpState
<1> QED BY <1>1 DEF Quiet, Past

(* A sale that is live after a step without an arm was live before it. *)
Still ==
    /\ orders \subseteq orders'
    /\ \A h \in Hose :
          Live(h)' => /\ Live(h) /\ arm'[h] = arm[h]
                      /\ \A id \in SaleId : Past(id, pump[h]) => Past(id, pump'[h])

(* The registers of an ordered sale fill only while its pump is armed. *)
LEMMA CalmFilled ==
    ASSUME PumpsOK, PumpsOK', Calm, NEW h \in Hose
    PROVE  /\ pump[h] \in PumpState /\ pump'[h] \in PumpState
           /\ PumpArmed(pump'[h]) => PumpArmed(pump[h])
           /\ ~PumpArmed(pump[h]) /\ pump'[h].volume > 0 => pump'[h].volume = pump[h].volume
           /\ arm'[h] = arm[h] /\ Ordered' = Ordered
           /\ Filled(h)' => Filled(h)
           /\ Filled(h)' => \A id \in SaleId : Past(id, pump[h]) => Past(id, pump'[h])
<1>1. /\ Quiet(pump[h], pump'[h]) /\ arm'[h] = arm[h] /\ Ordered' = Ordered
      /\ pump[h] \in PumpState /\ pump'[h] \in PumpState
  BY DEF Calm, PumpsOK, Ordered
<1>2. /\ PumpArmed(pump'[h]) => PumpArmed(pump[h])
      /\ ~PumpArmed(pump[h]) /\ pump'[h].volume > 0 => pump'[h].volume = pump[h].volume
  BY <1>1 DEF Quiet
<1>3. Filled(h)' => Filled(h)
  BY <1>1, <1>2 DEF Filled
<1>4. Filled(h)' => PumpArmed(pump'[h]) \/ pump'[h].volume > 0
  BY DEF Filled
<1>5. Filled(h)' => \A id \in SaleId : Past(id, pump[h]) => Past(id, pump'[h])
  BY <1>1, <1>4, PastKept
<1> QED BY <1>1, <1>2, <1>3, <1>5

(* So a calm step brings no sale to life. *)
LEMMA CalmStill ==
    ASSUME PumpsOK, PumpsOK', Calm, recorded \subseteq recorded'
    PROVE  Still
<1>1. ASSUME NEW h \in Hose, Live(h)'
      PROVE  /\ Live(h) /\ arm'[h] = arm[h]
             /\ \A id \in SaleId : Past(id, pump[h]) => Past(id, pump'[h])
  <2>1. Filled(h)' /\ (PumpArmed(pump'[h]) \/ ~Written(arm[h])')
    BY <1>1 DEF Live
  <2>2. Written(arm[h]) => Written(arm[h])'
    BY CalmFilled DEF Written
  <2>3. Live(h)
    BY <2>1, <2>2, CalmFilled DEF Live
  <2> QED BY <2>1, <2>3, CalmFilled
<1>2. orders' = orders
  BY DEF Calm
<1> QED BY <1>1, <1>2 DEF Still

(* Nor does it make the book wrong about a register. *)
LEMMA CalmBooks ==
    ASSUME Parts, Parts', Books, Calm, recorded' = recorded
    PROVE  Books'
<1> PumpsOK /\ PumpsOK' /\ recorded \subseteq Entry
  BY DEF Parts, BookOK
<1>1. ASSUME NEW r \in recorded PROVE r.id[2] <= pump'[r.id[1]].serial
  <2>1. r.id \in SaleId /\ r.id[1] \in Hose /\ r.id[2] \in Nat
    BY DEF Entry, SaleId
  <2>2. Quiet(pump[r.id[1]], pump'[r.id[1]])
    BY <2>1 DEF Calm
  <2>3. pump[r.id[1]].serial <= pump'[r.id[1]].serial /\ r.id[2] <= pump[r.id[1]].serial
    BY <2>2 DEF Quiet, Books
  <2>4. pump[r.id[1]].serial \in Nat /\ pump'[r.id[1]].serial \in Nat
    BY <2>1, CalmFilled DEF PumpState
  <2> QED BY <2>1, <2>3, <2>4
<1>2. ASSUME NEW h \in Hose, NEW r \in recorded
      PROVE  /\ Filled(h)' /\ r.id[1] = h => Past(r.id, pump'[h]) \/ r.arm = arm'[h]
             /\ arm'[h] \in Ordered' /\ r.arm = arm'[h] =>
                  /\ ~PumpArmed(pump'[h])
                  /\ pump'[h].volume > 0 => r.volume = pump'[h].volume
  <2>1. r.id \in SaleId
    BY DEF Entry
  <2>2. Filled(h)' /\ r.id[1] = h => Past(r.id, pump'[h]) \/ r.arm = arm'[h]
    BY <2>1, CalmFilled DEF Books
  <2>3. arm'[h] \in Ordered' /\ r.arm = arm'[h] =>
          ~PumpArmed(pump'[h]) /\ (pump'[h].volume > 0 => r.volume = pump'[h].volume)
    BY CalmFilled DEF Books
  <2> QED BY <2>2, <2>3
<1> QED BY <1>1, <1>2 DEF Books

(* Nor does it change the identity of a sale in the book. *)
LEMMA CalmAlone ==
    ASSUME Parts, Parts', Books, Alone, Calm, recorded' = recorded,
           \A c \in cleared' : c.arm \in Ordered
    PROVE  Alone'
<1> PumpsOK /\ PumpsOK'
  BY DEF Parts
<1>1. arm' = arm /\ orders' = orders /\ Ordered' = Ordered
  BY DEF Calm, Ordered
<1>2. ASSUME NEW r \in recorded, NEW h \in Hose,
             r.volume > 0, r.arm = arm[h], pump'[h].volume > 0
      PROVE  r.id = <<h, pump'[h].serial, pump'[h].volume>>
  <2>1. arm[h] \in Ordered
    BY <1>1, <1>2 DEF PumpsOK, PumpsSound, Alone
  <2>2. ~PumpArmed(pump[h])
    BY <1>2, <2>1 DEF Books
  <2>3. pump'[h].volume = pump[h].volume /\ pump'[h].serial = pump[h].serial
    BY <1>2, <2>2, MaxVolumeAssumption DEF Calm, Quiet
  <2> QED BY <1>2, <2>3 DEF Alone, SaleKey
<1> QED BY <1>1, <1>2 DEF Alone, SaleKey, BilledOnce, BilledToOrderShift

(* The registers given up belong to an arm of the past. *)
LEMMA GiveUpArm ==
    ASSUME ArmsApart, NEW h \in Hose, NEW c \in GiveUp(h)
    PROVE  c = [arm |-> arm[h], volume |-> pump[h].volume] /\ pump[h].volume > 0 /\ c.arm <= arms
<1>1. pump[h].volume > 0 /\ c = [arm |-> arm[h], volume |-> pump[h].volume]
  BY DEF GiveUp
<1> QED BY <1>1 DEF ArmsApart

(* Giving up the registers of a sale that is not live loses nothing. *)
LEMMA GiveUpWritten ==
    ASSUME Parts, Books, ArmsApart, NoSaleLost, NEW h \in Hose,
           ~Live(h), ~PumpArmed(pump[h]),
           cleared' \in {cleared, cleared \cup GiveUp(h)},
           recorded' = recorded,
           \A c \in cleared' : c.arm \in Ordered' => c.arm \in Ordered
    PROVE  NoSaleLost'
<1> SUFFICES ASSUME NEW c \in cleared', c.arm \in Ordered'
             PROVE  \E r \in recorded : r.arm = c.arm /\ r.volume = c.volume
  BY DEF NoSaleLost
<1>1. c.arm \in Ordered
  OBVIOUS
<1>2. CASE c \in cleared
  BY <1>1, <1>2 DEF NoSaleLost
<1>3. CASE c \in GiveUp(h)
  <2>1. c = [arm |-> arm[h], volume |-> pump[h].volume] /\ pump[h].volume > 0
    BY <1>3, GiveUpArm
  <2>2. Filled(h) /\ Written(arm[h])
    BY <1>1, <2>1 DEF Live, Filled
  <2>3. PICK r \in recorded : r.arm = arm[h]
    BY <2>2 DEF Written
  <2>4. r.volume = pump[h].volume
    BY <1>1, <2>1, <2>3 DEF Books
  <2> QED BY <2>1, <2>3, <2>4
<1> QED BY <1>2, <1>3

----------------------------------------------------------------------------
(* The order of a live sale passes between the lane and the journal.           *)

(* Record l tells the order of record k; it may have lost the identity from    *)
(* before the arm.                                                             *)
Follows(l, k) ==
    /\ l # None
    /\ l.order = k.order /\ l.nozzle = k.nozzle /\ l.pending = k.pending
    /\ l.before \in {k.before, None}

(* It holds the same sale. *)
LEMMA FollowsHolds ==
    ASSUME NEW k, NEW l, NEW h, Holds(k, h), Follows(l, k)
    PROVE  Holds(l, h)
BY DEF Holds, Follows, Owned

(* The row the journal keeps of an order. *)
LEMMA SnapshotFollows ==
    ASSUME NEW k \in LaneState, Owned(k)
    PROVE  Follows(Snapshot(k), k)
<1> DEFINE quiet == [k EXCEPT !.status = "Offline"]
<1>1. Snapshot(k) \in {k, quiet}
  BY DEF Snapshot, Owns
<1>2. quiet \in LaneState /\ k # None /\ quiet # None
  BY NoneIsApart DEF LaneState, Status
<1>3. /\ quiet.order = k.order /\ quiet.nozzle = k.nozzle
      /\ quiet.pending = k.pending /\ quiet.before = k.before
  BY DEF LaneState
<1> HIDE DEF quiet
<1> QED BY <1>1, <1>2, <1>3 DEF Follows

(* What the process knows of a journalled order. *)
LEMMA KnownFollows ==
    ASSUME MemOK, journal # None
    PROVE  ~loaded => Follows(Known, journal)
<1> SUFFICES ASSUME ~loaded PROVE Follows(Known, journal)
  OBVIOUS
<1>1. Known = [journal EXCEPT !.stops = @ \cup lane.stops,
                              !.stopReq = @ \/ lane.stopReq,
                              !.cancelReq = @ \/ lane.cancelReq]
  BY DEF Known, Restored
<1>2. journal \in LaneState
  BY DEF MemOK
<1>3. Known \in LaneState
  BY RestoredType DEF MemOK, Known
<1>4. Known # None
  BY <1>3, NoneIsApart
<1>5. /\ Known.order = journal.order /\ Known.nozzle = journal.nozzle
      /\ Known.pending = journal.pending /\ Known.before = journal.before
  BY <1>1, <1>2 DEF LaneState
<1> QED BY <1>4, <1>5 DEF Follows

(* A live sale is known to the process. *)
LEMMA KnownHolds ==
    ASSUME MemOK, OrdersHeld, NEW h \in Hose, Live(h)
    PROVE  Holds(journal, h) /\ Holds(Known, h) /\ (loaded => Known = lane)
<1>1. Holds(journal, h) /\ (loaded => Holds(lane, h)) /\ journal # None
  BY DEF OrdersHeld, Holds
<1>2. CASE loaded
  BY <1>1, <1>2 DEF Known
<1>3. CASE ~loaded
  BY <1>1, <1>3, KnownFollows, FollowsHolds
<1> QED BY <1>1, <1>2, <1>3

(* What a step owes to a live sale: its order stays in the journal, and in the *)
(* lane once the journal was read.                                             *)
Bequeathed ==
    \A h \in Hose : Live(h) /\ Holds(journal, h) /\ Holds(Known, h) =>
        /\ Follows(journal', journal) \/ Follows(journal', Known)
        /\ loaded' => Follows(lane', Known)

(* Then the orders of the sales still live are held. *)
LEMMA OrdersStep ==
    ASSUME Parts, OrdersHeld, Still, Bequeathed
    PROVE  OrdersHeld'
<1> SUFFICES ASSUME NEW h \in Hose, Live(h)'
             PROVE  Holds(journal, h)' /\ (loaded' => Holds(lane, h)')
  BY DEF OrdersHeld
<1>1. /\ Live(h) /\ arm'[h] = arm[h] /\ orders \subseteq orders'
      /\ \A id \in SaleId : Past(id, pump[h]) => Past(id, pump'[h])
  BY DEF Still
<1>2. Holds(journal, h) /\ Holds(Known, h)
  BY <1>1, KnownHolds DEF Parts
<1>3. ASSUME NEW k \in LaneState, NEW l, Holds(k, h), Follows(l, k)
      PROVE  /\ l # None /\ l.order # None /\ l.nozzle = h /\ ~l.pending
             /\ [arm |-> arm'[h], shift |-> l.order] \in orders'
             /\ l.before # None => Past(l.before, pump'[h])
  <2>1. /\ l # None /\ l.order = k.order /\ l.nozzle = k.nozzle /\ l.pending = k.pending
        /\ l.before \in {k.before, None}
    BY <1>3 DEF Follows
  <2>2. k.before # None => k.before \in SaleId
    BY DEF LaneState
  <2>3. l.before # None => Past(l.before, pump'[h])
    BY <1>1, <1>3, <2>1, <2>2 DEF Holds
  <2>4. [arm |-> arm'[h], shift |-> l.order] \in orders'
    BY <1>1, <1>3, <2>1 DEF Holds
  <2> QED BY <1>3, <2>1, <2>3, <2>4 DEF Holds, Owned
<1>4. journal \in LaneState /\ Known \in LaneState
  BY <1>2, RestoredType DEF Parts, MemOK, Known, Holds
<1>5. (Follows(journal', journal) \/ Follows(journal', Known)) /\ (loaded' => Follows(lane', Known))
  BY <1>1, <1>2 DEF Bequeathed
<1>6. Holds(journal, h)'
  BY <1>2, <1>3, <1>4, <1>5, Zenon DEF Holds, Owned
<1>7. loaded' => Holds(lane, h)'
  BY <1>2, <1>3, <1>4, <1>5, Zenon DEF Holds, Owned
<1> QED BY <1>6, <1>7

(* Reading the journal, and any outcome of a save, pass the order on. *)
LEMMA SavesBequeath ==
    ASSUME MemOK, SaveOk \/ SaveFails \/ SaveLate \/ (Load /\ UNCHANGED journal)
    PROVE  Bequeathed
<1> SUFFICES ASSUME NEW h \in Hose, Holds(journal, h), Holds(Known, h)
             PROVE  /\ Follows(journal', journal) \/ Follows(journal', Known)
                    /\ loaded' => Follows(lane', Known)
  BY DEF Bequeathed
<1>1. journal # None /\ Known # None /\ Owned(Known)
  BY DEF Holds
<1>2. Known \in LaneState
  BY RestoredType DEF MemOK, Known
<1>3. Follows(journal, journal) /\ Follows(Known, Known)
  BY <1>1 DEF Follows
<1>4. Follows(Snapshot(Known), Known)
  BY <1>1, <1>2, SnapshotFollows
<1>5. journal' \in {journal, Snapshot(Known)}
  BY DEF SaveOk, SaveFails, SaveLate, diskVars
<1>6. loaded' => lane' = Known
  BY DEF SaveOk, SaveFails, SaveLate, Load, memVars, Known
<1> QED BY <1>3, <1>4, <1>5, <1>6

(* So does a step of the loop that leaves the journal alone and keeps what the *)
(* lane tells of a live sale.                                                  *)
LEMMA SameBequeath ==
    ASSUME MemOK, MemOK', UNCHANGED <<journal, loaded>>,
           \A h \in Hose : loaded /\ Live(h) /\ Holds(lane, h) =>
                /\ lane'.order = lane.order /\ lane'.nozzle = lane.nozzle
                /\ lane'.pending = lane.pending /\ lane'.before \in {lane.before, None}
    PROVE  Bequeathed
<1> SUFFICES ASSUME NEW h \in Hose, Live(h), Holds(journal, h), Holds(Known, h)
             PROVE  Follows(journal, journal) /\ (loaded => Follows(lane', Known))
  BY DEF Bequeathed
<1>1. Follows(journal, journal)
  BY DEF Holds, Follows
<1>2. lane' # None
  BY NoneIsApart DEF MemOK
<1>3. loaded => Known = lane
  BY DEF Known
<1> QED BY <1>1, <1>2, <1>3 DEF Follows

----------------------------------------------------------------------------
(* The invariant in a step that arms nothing. *)

Outside == at \notin (Ordering \ {"start"}) \cup Closing \cup {"live"}

(* No sale begins, none is written, no register is given up. *)
LEMMA CalmStep ==
    ASSUME Parts, Parts', SaleInv, Calm, UNCHANGED <<recorded, cleared>>,
           Bequeathed, NewOrder', AtRegisters',
           at' \in {"identify", "commit"} => job'.arm <= arms
    PROVE  SaleInv'
<1>1. Still
  BY CalmStill DEF Parts
<1>2. OrdersHeld'
  BY <1>1, OrdersStep DEF SaleInv
<1>3. Books'
  BY CalmBooks DEF SaleInv
<1>4. UNCHANGED <<arm, arms, orders>>
  BY DEF Calm
<1>5. ArmsApart'
  BY <1>4 DEF SaleInv, ArmsApart
<1>6. NoSaleLost'
  BY <1>4 DEF SaleInv, NoSaleLost, Ordered
<1>7. MaxForeign = 0 => Alone'
  BY CalmAlone DEF SaleInv, Alone
<1>8. Surrendered'
  BY <1>4, CalmFilled, MaxVolumeAssumption DEF SaleInv, Surrendered, Calm, Quiet, Parts
<1> QED BY <1>2, <1>3, <1>5, <1>6, <1>7, <1>8 DEF SaleInv

(* The same where the loop is neither ordering nor closing. *)
LEMMA OutsideStep ==
    ASSUME Parts, Parts', SaleInv, Calm, UNCHANGED <<recorded, cleared>>,
           Bequeathed, Outside'
    PROVE  SaleInv'
<1>1. NewOrder' /\ AtRegisters' /\ at' \notin {"identify", "commit"}
  BY DEF Outside, NewOrder, AtRegisters, Closing, Ordering
<1> QED BY <1>1, CalmStep

(* The end of a poll or command is such a place. *)
LEMMA LeaveOutside ==
    ASSUME Leave
    PROVE  Outside'
BY DEF Leave, Outside, Closing, Ordering

(* Settling an idle hose keeps an order that waits for no confirmation. *)
LEMMA SettleIdleKeeps ==
    ASSUME NEW l \in LaneState, NEW h
    PROVE  LET s == SettleIdle(l, h) IN
           /\ Owned(l) /\ ~l.pending => /\ s.order = l.order /\ s.nozzle = l.nozzle
                                       /\ s.pending = l.pending /\ s.before = l.before
           /\ Owned(s) => Owned(l) /\ s.nozzle = l.nozzle
<1> DEFINE stopped == [l EXCEPT !.stops = @ \ {h}]
<1>1. ASSUME Owned(l), ~l.pending PROVE SettleIdle(l, h) = stopped
  BY <1>1 DEF SettleIdle, Owned, LaneState
<1>2. /\ stopped.order = l.order /\ stopped.nozzle = l.nozzle
      /\ stopped.pending = l.pending /\ stopped.before = l.before
  BY DEF LaneState
<1> HIDE DEF stopped
<1> QED BY <1>1, <1>2, SettleIdleStops

(* A requested stop leaves the order alone. *)
LEMMA StopIntentSale ==
    ASSUME NEW l \in LaneState, NEW targets, NEW cancel
    PROVE  LET s == StopIntent(l, targets, cancel) IN
           /\ s.order = l.order /\ s.nozzle = l.nozzle
           /\ s.pending = l.pending /\ s.before = l.before
BY DEF StopIntent, LaneState

----------------------------------------------------------------------------
(* Every step keeps the invariant: the polls, *)
LEMMA PollSales ==
    ASSUME Parts, Parts', StopInv, SaleInv, Poll
    PROVE  SaleInv'
<1> /\ PumpsOK /\ PumpsOK' /\ MemOK /\ MemOK' /\ lane \in LaneState /\ lane' \in LaneState
    /\ ArmsApart /\ OrdersHeld /\ AtRegisters
  BY DEF Parts, MemOK, SaleInv
<1>1. CASE BeginPoll
  <2>1. Calm /\ UNCHANGED <<recorded, cleared>>
    BY <1>1, SameCalm DEF BeginPoll, pumpVars, diskVars
  <2>2. Bequeathed
    BY <1>1, SavesBequeath DEF BeginPoll, diskVars
  <2>3. Outside'
    BY <1>1 DEF BeginPoll, Outside, Closing, Ordering
  <2> QED BY <2>1, <2>2, <2>3, OutsideStep
<1>2. ASSUME NEW h \in Hose, NEW heard \in BOOLEAN, NEW sent \in BOOLEAN,
             ProbeStop(h, heard, sent)
      PROVE  SaleInv'
  <2> DEFINE q == IF sent THEN PumpStop(pump[h]) ELSE pump[h]
  <2>1. UNCHANGED pumpVars \/ Wire(h, q)
    BY <1>2 DEF ProbeStop
  <2>2. Quiet(pump[h], q)
    BY MovesSteady DEF PumpsOK, Steady
  <2> HIDE DEF q
  <2>3. Calm /\ UNCHANGED <<recorded, cleared>>
    BY <1>2, <2>1, <2>2, SameCalm, MoveCalm DEF ProbeStop, Wire, pumpVars, diskVars
  <2>4. /\ lane'.order = lane.order /\ lane'.nozzle = lane.nozzle
        /\ lane'.pending = lane.pending /\ lane'.before = lane.before
    BY <1>2 DEF ProbeStop, LaneState
  <2>5. Bequeathed
    BY <1>2, <2>4, SameBequeath DEF ProbeStop, diskVars
  <2>6. Outside'
    BY <1>2 DEF ProbeStop, Outside, Closing, Ordering
  <2> QED BY <2>3, <2>5, <2>6, OutsideStep
<1>3. ASSUME NEW heard \in SUBSET Hose, ObserveNothing(heard) \/ LiveReadingLost
      PROVE  SaleInv'
  <2>1. Calm /\ UNCHANGED <<recorded, cleared>>
    BY <1>3, SameCalm DEF ObserveNothing, LiveReadingLost, pumpVars, diskVars
  <2>2. /\ lane'.order = lane.order /\ lane'.nozzle = lane.nozzle
        /\ lane'.pending = lane.pending /\ lane'.before = lane.before
    BY <1>3 DEF ObserveNothing, LiveReadingLost, ShowMissed, LaneState
  <2>3. Bequeathed
    BY <1>3, <2>2, SameBequeath DEF ObserveNothing, LiveReadingLost, diskVars
  <2>4. Outside'
    BY <1>3, LeaveOutside DEF ObserveNothing, LiveReadingLost
  <2> QED BY <2>1, <2>3, <2>4, OutsideStep
<1>4. ASSUME NEW heard \in SUBSET Hose, NEW h \in heard, ObserveIdle(h, heard)
      PROVE  SaleInv'
  <2> DEFINE settled == SettleIdle(lane, h)
  <2>1. Calm /\ UNCHANGED <<recorded, cleared>>
    BY <1>4, SameCalm DEF ObserveIdle, pumpVars, diskVars
  <2>2. /\ Owned(lane) /\ ~lane.pending =>
              /\ settled.order = lane.order /\ settled.nozzle = lane.nozzle
              /\ settled.pending = lane.pending /\ settled.before = lane.before
        /\ Owned(settled) => Owned(lane) /\ settled.nozzle = lane.nozzle
    BY SettleIdleKeeps
  <2> HIDE DEF settled
  <2>3. CASE Owned(settled)
    <3>1. lane' = settled /\ at' = "registers" /\ job' = [NoJob EXCEPT !.net = NetOf(settled.nozzle)]
      BY <1>4, <2>3 DEF ObserveIdle, settled
    <3>2. Owned(lane) /\ lane.nozzle # None /\ settled.nozzle = lane.nozzle
      BY <2>2, <2>3 DEF StopInv, Placed
    <3>3. h = lane.nozzle
      BY <1>4, <3>2 DEF ObserveIdle, Resolves, Locked
    <3>4. job'.net = h
      BY <3>1, <3>2, <3>3 DEF NetOf, NoJob
    <3>5. ~PumpArmed(pump'[h]) /\ lane'.nozzle = h
      BY <1>4, <3>1, <3>2, <3>3 DEF ObserveIdle, PumpIdle, PumpArmed, pumpVars
    <3>6. NewOrder' /\ AtRegisters'
      BY <3>1, <3>4, <3>5 DEF NewOrder, AtRegisters, Closing, Ordering
    <3>7. Bequeathed
      BY <1>4, <2>2, <3>1, SameBequeath DEF ObserveIdle, diskVars, Holds
    <3> QED BY <2>1, <3>1, <3>6, <3>7, CalmStep
  <2>4. CASE ~Owned(settled)
    <3>1. Leave
      BY <1>4, <2>4 DEF ObserveIdle, settled
    <3>2. ~Owned(lane) \/ lane.pending
      BY <2>2, <2>4 DEF Owned
    <3>3. Bequeathed
      BY <1>4, <3>2, SameBequeath DEF ObserveIdle, diskVars, Holds
    <3> QED BY <2>1, <3>1, <3>3, LeaveOutside, OutsideStep
  <2> QED BY <2>3, <2>4
<1>5. ASSUME NEW heard \in SUBSET Hose, NEW h \in heard, NEW expired \in BOOLEAN,
             ObserveArmed(h, heard, expired)
      PROVE  SaleInv'
  <2> DEFINE seen == [lane EXCEPT !.before = None]
  <2> DEFINE target == {NetOf(lane.nozzle)}
  <2> DEFINE armed == [seen EXCEPT !.nozzle = h,
                                   !.status = IF lane.stopReq THEN "Finalizing" ELSE "Armed"]
  <2>1. Calm /\ UNCHANGED <<recorded, cleared>>
    BY <1>5, SameCalm DEF ObserveArmed, pumpVars, diskVars
  <2>2. lane' \in {StopIntent(lane, target, TRUE), StopIntent(seen, target, TRUE), armed}
    BY <1>5 DEF ObserveArmed
  <2>3. Owned(lane) => h = lane.nozzle
    BY <1>5 DEF ObserveArmed, Resolves, Locked, StopInv, Placed
  <2>4. /\ seen \in LaneState /\ seen.order = lane.order /\ seen.nozzle = lane.nozzle
        /\ seen.pending = lane.pending /\ seen.before = None
    BY DEF LaneState
  <2>5. /\ armed.order = lane.order /\ armed.nozzle = h
        /\ armed.pending = lane.pending /\ armed.before = None
    BY DEF LaneState
  <2> HIDE DEF seen, target, armed
  <2>6. ASSUME NEW l \in {lane, seen}
        PROVE  LET s == StopIntent(l, target, TRUE) IN
               /\ s.order = lane.order /\ s.nozzle = lane.nozzle
               /\ s.pending = lane.pending /\ s.before \in {lane.before, None}
    BY <2>4 DEF StopIntent, LaneState
  <2>7. Owned(lane) => /\ lane'.order = lane.order /\ lane'.nozzle = lane.nozzle
                       /\ lane'.pending = lane.pending /\ lane'.before \in {lane.before, None}
    BY <2>2, <2>3, <2>5, <2>6
  <2>8. Bequeathed
    BY <1>5, <2>7, SameBequeath DEF ObserveArmed, diskVars, Holds
  <2>9. Outside'
    BY <1>5, LeaveOutside DEF ObserveArmed, Outside, Closing, Ordering
  <2> QED BY <2>1, <2>8, <2>9, OutsideStep
<1>6. ASSUME NEW heard \in SUBSET Hose, NEW h \in heard, ObserveFlow(h, heard)
      PROVE  SaleInv'
  <2>1. Calm /\ UNCHANGED <<recorded, cleared, journal, lane, loaded>>
    BY <1>6, SameCalm DEF ObserveFlow, pumpVars, diskVars, memVars
  <2>2. Bequeathed
    BY <2>1, SameBequeath
  <2>3. at' = "live" /\ job'.net = h
    BY <1>6 DEF ObserveFlow, NoJob
  <2>4. Owned(lane) => h = lane.nozzle
    BY <1>6 DEF ObserveFlow, Resolves, Locked, StopInv, Placed
  <2>5. NewOrder' /\ AtRegisters'
    BY <2>1, <2>3, <2>4 DEF NewOrder, AtRegisters, Closing, Ordering, Owned
  <2> QED BY <2>1, <2>2, <2>3, <2>5, CalmStep
<1>7. ASSUME NEW heard \in SUBSET Hose, NEW h \in heard, ObserveFinished(h, heard)
      PROVE  SaleInv'
  <2>1. Calm /\ UNCHANGED <<recorded, cleared, pump>>
    BY <1>7, SameCalm DEF ObserveFinished, pumpVars, diskVars
  <2>2. Owned(lane) => h = lane.nozzle
    BY <1>7 DEF ObserveFinished, Resolves, Locked, StopInv, Placed
  <2>3. /\ lane'.order = lane.order /\ lane'.nozzle = h
        /\ lane'.pending = lane.pending /\ lane'.before = lane.before
    BY <1>7 DEF ObserveFinished, LaneState
  <2>4. Bequeathed
    BY <1>7, <2>2, <2>3, SameBequeath DEF ObserveFinished, diskVars, Holds
  <2>5. at' = (IF lane.pending THEN "confirm" ELSE "registers") /\ job'.net = h
    BY <1>7 DEF ObserveFinished, NoJob
  <2>6. ~PumpArmed(pump'[h])
    BY <1>7, <2>1 DEF ObserveFinished, PumpArmed
  <2>7. NewOrder' /\ AtRegisters'
    BY <2>3, <2>5, <2>6 DEF NewOrder, AtRegisters, Closing, Ordering, Owned
  <2> QED BY <2>1, <2>4, <2>5, <2>7, CalmStep
<1>8. ASSUME NEW heard \in SUBSET Hose, NEW h \in heard, NEW sent \in BOOLEAN,
             ObserveLocalPreset(h, heard, sent)
      PROVE  SaleInv'
  <2> DEFINE q == IF sent THEN PumpStop(pump[h]) ELSE pump[h]
  <2>1. Quiet(pump[h], q) /\ Wire(h, q)
    BY <1>8, MovesSteady DEF PumpsOK, Steady, ObserveLocalPreset
  <2> HIDE DEF q
  <2>2. Calm /\ UNCHANGED <<recorded, cleared, journal, lane, loaded>>
    BY <1>8, <2>1, MoveCalm DEF ObserveLocalPreset, Wire, diskVars, memVars
  <2>3. Bequeathed
    BY <2>2, SameBequeath
  <2>4. Outside'
    BY <1>8, LeaveOutside DEF ObserveLocalPreset
  <2> QED BY <2>2, <2>3, <2>4, OutsideStep
<1>9. CASE LiveReading
  <2>1. Calm /\ UNCHANGED <<recorded, cleared>>
    BY <1>9, SameCalm DEF LiveReading, pumpVars, diskVars
  <2>2. Owned(lane) => job.net = lane.nozzle
    BY <1>9 DEF LiveReading, AtRegisters
  <2>3. /\ lane'.nozzle = job.net /\ lane'.pending = lane.pending /\ lane'.before = None
        /\ Owned(lane) => lane'.order = lane.order
    BY <1>9 DEF LiveReading, LaneState
  <2>4. Bequeathed
    BY <1>9, <2>2, <2>3, SameBequeath DEF LiveReading, diskVars, Holds
  <2>5. Outside'
    BY <1>9, LeaveOutside DEF LiveReading
  <2> QED BY <2>1, <2>4, <2>5, OutsideStep
<1> QED BY <1>1, <1>2, <1>3, <1>4, <1>5, <1>6, <1>7, <1>8, <1>9 DEF Poll

(* Registers given up again are those given up before. *)
LEMMA ClearingSurrendered ==
    ASSUME Parts, Parts', ArmsApart, Surrendered, Calm, NEW h \in Hose, ~PumpArmed(pump[h]),
           cleared' \in {cleared, cleared \cup GiveUp(h)}
    PROVE  Surrendered'
<1> /\ PumpsOK /\ PumpsOK'
    /\ cleared \subseteq [arm : Arm, volume : 1 .. MaxVolume]
  BY DEF Parts, PumpsOK
<1>1. arm' = arm
  BY DEF Calm
<1>2. ASSUME NEW c \in cleared, NEW g \in Hose, c.arm = arm[g]
      PROVE  ~PumpArmed(pump'[g]) /\ pump'[g].volume \in {0, c.volume}
  BY <1>2, CalmFilled, MaxVolumeAssumption DEF Surrendered, Calm, Quiet
<1>3. ASSUME NEW c \in GiveUp(h)
      PROVE  /\ \A d \in cleared : c.arm = d.arm => c = d
             /\ \A g \in Hose : c.arm = arm[g] =>
                   ~PumpArmed(pump'[g]) /\ pump'[g].volume \in {0, c.volume}
  <2>1. c = [arm |-> arm[h], volume |-> pump[h].volume] /\ pump[h].volume > 0
    BY <1>3, GiveUpArm
  <2>2. \A d \in cleared : c.arm = d.arm => c = d
    <3> SUFFICES ASSUME NEW d \in cleared, c.arm = d.arm PROVE c = d
      OBVIOUS
    <3>1. pump[h].volume = d.volume
      BY <2>1 DEF Surrendered
    <3>2. d = [arm |-> d.arm, volume |-> d.volume]
      OBVIOUS
    <3> QED BY <2>1, <3>1, <3>2
  <2>3. ASSUME NEW g \in Hose, c.arm = arm[g]
        PROVE  ~PumpArmed(pump'[g]) /\ pump'[g].volume \in {0, c.volume}
    <3>1. arm[h] # 0
      BY <2>1 DEF PumpsOK, PumpsSound
    <3>2. g = h
      BY <2>1, <2>3, <3>1 DEF ArmsApart
    <3> QED BY <2>1, <3>2, CalmFilled DEF Calm, Quiet
  <2> QED BY <2>2, <2>3
<1>4. \A c, d \in cleared' : c.arm = d.arm => c = d
  BY <1>3, GiveUpArm DEF Surrendered
<1>5. \A c \in cleared', g \in Hose :
        c.arm = arm'[g] => ~PumpArmed(pump'[g]) /\ pump'[g].volume \in {0, c.volume}
  BY <1>1, <1>2, <1>3
<1> QED BY <1>4, <1>5 DEF Surrendered

(* What is given up was ordered, when every arm is. *)
LEMMA ClearingAlone ==
    ASSUME Parts, Alone, NEW h \in Hose, cleared' \in {cleared, cleared \cup GiveUp(h)}
    PROVE  \A c \in cleared' : c.arm \in Ordered
<1>1. ASSUME NEW c \in GiveUp(h) PROVE c.arm \in Ordered
  <2>1. pump[h].volume > 0 /\ c = [arm |-> arm[h], volume |-> pump[h].volume]
    BY <1>1 DEF GiveUp
  <2> QED BY <2>1 DEF Alone, Parts, PumpsOK, PumpsSound
<1> QED BY <1>1 DEF Alone

(* A step that may give up the registers of a hose whose sale is written. *)
LEMMA ClearingStep ==
    ASSUME Parts, Parts', SaleInv, Calm, recorded' = recorded,
           Bequeathed, NewOrder', AtRegisters', at' \notin {"identify", "commit"},
           NEW h \in Hose, ~Live(h), ~PumpArmed(pump[h]),
           cleared' \in {cleared, cleared \cup GiveUp(h)}
    PROVE  SaleInv'
<1>1. Still
  BY CalmStill DEF Parts
<1>2. OrdersHeld'
  BY <1>1, OrdersStep DEF SaleInv
<1>3. Books'
  BY CalmBooks DEF SaleInv
<1>4. UNCHANGED <<arm, arms, orders>>
  BY DEF Calm
<1>5. \A c \in cleared' : c.arm <= arms
  BY GiveUpArm DEF SaleInv, ArmsApart
<1>6. ArmsApart'
  BY <1>4, <1>5 DEF SaleInv, ArmsApart
<1>7. NoSaleLost'
  BY <1>4, GiveUpWritten DEF SaleInv, Ordered
<1>8. MaxForeign = 0 => Alone'
  BY CalmAlone, ClearingAlone DEF SaleInv
<1>9. Surrendered'
  BY ClearingSurrendered DEF SaleInv
<1> QED BY <1>2, <1>3, <1>6, <1>7, <1>8, <1>9 DEF SaleInv

(* With no live sale there is nothing to pass on. *)
LEMMA NothingToBequeath ==
    ASSUME \A h \in Hose : ~Live(h)
    PROVE  Bequeathed
BY DEF Bequeathed

(* While a lane waits for its confirmation, no sale is live. *)
LEMMA PendingSettled ==
    ASSUME OrdersHeld, loaded, lane.pending
    PROVE  \A h \in Hose : ~Live(h)
BY DEF OrdersHeld, Holds

(* The sale a close works on is the live one, and it has ended. *)
LEMMA ClosingSale ==
    ASSUME Parts, StopInv, SaleInv, at \in Closing, NEW h \in Hose, Live(h)
    PROVE  /\ Holds(lane, h) /\ h = job.net /\ arm[h] \in Ordered
           /\ ~PumpArmed(pump[h]) /\ pump[h].volume > 0 /\ ~Written(arm[h])
<1>1. Holds(lane, h)
  BY DEF StopInv, SaleInv, OrdersHeld
<1>2. h = job.net
  BY <1>1 DEF SaleInv, AtRegisters, Holds
<1>3. arm[h] \in Ordered /\ (PumpArmed(pump[h]) \/ (pump[h].volume > 0 /\ ~Written(arm[h])))
  BY DEF Live, Filled
<1>4. ~PumpArmed(pump[h])
  BY <1>2, <1>3 DEF SaleInv, AtRegisters
<1> QED BY <1>1, <1>2, <1>3, <1>4

(* An ordered arm has a number. *)
LEMMA OrderedIsArm ==
    ASSUME PumpsOK, NEW a \in Ordered
    PROVE  a \in Arm /\ a # 0
BY DEF PumpsOK, Ordered, Arm

(* the closes, *)
LEMMA CloseSales ==
    ASSUME Parts, Parts', StopInv, SaleInv, Close
    PROVE  SaleInv'
<1> /\ PumpsOK /\ PumpsOK' /\ MemOK /\ MemOK' /\ lane \in LaneState /\ lane' \in LaneState
    /\ ArmsApart /\ OrdersHeld /\ AtRegisters /\ Books /\ LoopOK /\ StepsSound
  BY DEF Parts, MemOK, SaleInv
<1>1. CASE ReadRegisters
  <2>1. Calm /\ UNCHANGED <<recorded, cleared, pump, arm, orders, journal, loaded>>
    BY <1>1, SameCalm DEF ReadRegisters, pumpVars, diskVars
  <2>2. at = "registers" /\ at \in Closing /\ job.net \in Hose
    BY <1>1 DEF ReadRegisters, Closing, StepsSound, OnHose
  <2>3. arm[job.net] \in Ordered => ~PumpArmed(pump[job.net])
    BY <2>2
    DEF AtRegisters
  <2>4. CASE Empty(lane, pump[job.net].volume)
    <3>1. at' = "confirm" /\ job' = job
      BY <1>1, <2>4 DEF ReadRegisters, Goto
    <3>2. lane'.pending /\ lane'.order = lane.order /\ lane'.nozzle = lane.nozzle
      BY <1>1, <2>4 DEF ReadRegisters, LaneState
    <3>3. \A h \in Hose : ~Live(h)
      BY <2>2, <2>4, ClosingSale DEF Empty
    <3>4. NewOrder' /\ AtRegisters'
      BY <2>1, <2>2, <2>3, <3>1, <3>2
      DEF NewOrder, AtRegisters, Closing, Ordering, Owned, Ordered
    <3> QED BY <2>1, <3>1, <3>3, <3>4, NothingToBequeath, CalmStep
  <2>5. CASE ~Empty(lane, pump[job.net].volume)
    <3>1. /\ at' = "identify" /\ lane' = lane /\ job'.net = job.net
          /\ job'.volume = pump[job.net].volume /\ job'.arm = arm[job.net]
      BY <1>1, <2>5 DEF ReadRegisters, LoopOK, Job
    <3>2. Bequeathed
      BY <2>1, <3>1, SameBequeath
    <3>3. ASSUME NEW h \in Hose, arm[h] \in Ordered, arm[h] = arm[job.net]
          PROVE  ~PumpArmed(pump[h]) /\ pump[job.net].volume = pump[h].volume
      <4>1. arm[h] # 0
        BY <3>3, OrderedIsArm
      <4>2. h = job.net
        BY <2>2, <3>3, <4>1 DEF ArmsApart
      <4> QED BY <2>3, <3>3, <4>2
    <3>6. MaxForeign = 0 /\ job'.volume > 0 => arm[job.net] \in Ordered
      BY <2>2, <3>1 DEF SaleInv, Alone, PumpsOK, PumpsSound
    <3>4. NewOrder' /\ AtRegisters'
      BY <2>1, <2>2, <2>3, <3>1, <3>3, <3>6
      DEF NewOrder, AtRegisters, Closing, Ordering, Owned, Ordered
    <3>5. job'.arm <= arms
      BY <2>2, <3>1 DEF ArmsApart
    <3> QED BY <2>1, <3>2, <3>4, <3>5, CalmStep
  <2> QED BY <2>4, <2>5
<1>2. CASE IdentifySale
  <2> DEFINE id == SaleKey(job.net, job.volume)
  <2>1. Calm /\ UNCHANGED <<recorded, cleared, pump, arm, orders, journal, loaded>>
    BY <1>2, SameCalm DEF IdentifySale, pumpVars, diskVars
  <2>2. at = "identify" /\ at \in Closing /\ job.net \in Hose /\ job.volume \in 0 .. MaxVolume
    BY <1>2 DEF IdentifySale, Closing, StepsSound, OnHose, LoopOK, Job
  <2>3. id \in SaleId /\ id[1] = job.net /\ id[2] = pump[job.net].serial
    BY <2>2 DEF SaleKey, SaleId, PumpsOK, PumpState
  <2>4. ~PumpArmed(pump[job.net]) => ~Past(id, pump[job.net])
    BY <2>2, <2>3 DEF Past, PumpsOK, PumpState
  <2>5. ASSUME NEW h \in Hose, Live(h)
        PROVE  ~NotAccepted(lane, id, job.settle) /\ ~AlreadySaved(id)
    <3>1. /\ Holds(lane, h) /\ h = job.net /\ ~PumpArmed(pump[h]) /\ ~Written(arm[h])
          /\ Filled(h)
      BY <2>2, <2>5, ClosingSale DEF Live
    <3>2. ~NotAccepted(lane, id, job.settle)
      BY <2>3, <2>4, <3>1, NoneIsApart DEF NotAccepted, Holds
    <3>3. ~AlreadySaved(id)
      BY <2>3, <2>4, <3>1 DEF AlreadySaved, InBook, Books, Written
    <3> QED BY <3>2, <3>3
  <2> HIDE DEF id
  <2>6. CASE NotAccepted(lane, id, job.settle)
    <3>1. Leave
      BY <1>2, <2>6 DEF IdentifySale, id
    <3> QED BY <2>1, <2>5, <2>6, <3>1, NothingToBequeath, LeaveOutside, OutsideStep
  <2>7. CASE ~NotAccepted(lane, id, job.settle) /\ AlreadySaved(id)
    <3>1. lane' = Durable(lane) /\ at' = "confirm" /\ job' = job
      BY <1>2, <2>7 DEF IdentifySale, Goto, id
    <3>2. lane'.pending /\ ~Owned(lane')
      BY <3>1 DEF Durable, LaneState, Owned
    <3>3. arm[job.net] \in Ordered => ~PumpArmed(pump[job.net])
      BY <2>2 DEF AtRegisters
    <3>4. NewOrder' /\ AtRegisters'
      BY <2>1, <3>1, <3>2, <3>3 DEF NewOrder, AtRegisters, Closing, Ordering, Owned, Ordered
    <3> QED BY <2>1, <2>5, <2>7, <3>1, <3>4, NothingToBequeath, CalmStep
  <2>8. CASE ~NotAccepted(lane, id, job.settle) /\ ~AlreadySaved(id)
    <3>1. lane' = lane /\ at' = "commit" /\ job' = [job EXCEPT !.id = id]
      BY <1>2, <2>8 DEF IdentifySale, id
    <3>2. /\ job'.id = id /\ job'.net = job.net /\ job'.arm = job.arm
          /\ job'.volume = job.volume
      BY <3>1 DEF LoopOK, Job
    <3>3. Bequeathed
      BY <2>1, <3>1, SameBequeath
    <3>4. /\ Owned(lane) => job.net = lane.nozzle
          /\ arm[job.net] \in Ordered => ~PumpArmed(pump[job.net]) /\ job.arm = arm[job.net]
          /\ \A h \in Hose : arm[h] \in Ordered /\ arm[h] = job.arm =>
                ~PumpArmed(pump[h]) /\ job.volume = pump[h].volume
      BY <2>2 DEF AtRegisters
    <3>5. pump[job.net].serial \in Nat /\ id[2] <= pump[job.net].serial
      BY <2>2, <2>3 DEF PumpsOK, PumpState
    <3>8. /\ MaxForeign = 0 /\ job.volume > 0 => arm[job.net] \in Ordered
          /\ id = SaleKey(job.net, job.volume)'
      BY <2>1, <2>2, <3>2 DEF AtRegisters, id, SaleKey
    <3>6. NewOrder' /\ AtRegisters'
      BY <2>1, <2>3, <3>1, <3>2, <3>4, <3>5, <3>8
      DEF NewOrder, AtRegisters, Closing, Ordering, Owned, Ordered
    <3>7. job'.arm <= arms
      BY <2>2, <3>2 DEF ArmsApart
    <3> QED BY <2>1, <3>3, <3>6, <3>7, CalmStep
  <2> QED BY <2>6, <2>7, <2>8
<1>3. CASE ReadFails \/ CommitFails
  <2>1. Calm /\ UNCHANGED <<recorded, cleared, journal, lane, loaded>>
    BY <1>3, SameCalm DEF ReadFails, CommitFails, pumpVars, diskVars, memVars
  <2>2. Outside'
    BY <1>3, LeaveOutside DEF ReadFails, CommitFails
  <2> QED BY <2>1, <2>2, SameBequeath, OutsideStep
<1>4. CASE CommitSale
  <2> DEFINE row == [id |-> job.id, arm |-> job.arm, volume |-> job.volume, shift |-> SaleShift]
  <2>1. Calm /\ UNCHANGED <<cleared, pump, arm, arms, orders, journal, loaded>>
    BY <1>4, SameCalm DEF CommitSale, pumpVars
  <2>2. at = "commit" /\ at \in Closing /\ job.net \in Hose
    BY <1>4 DEF CommitSale, Closing, StepsSound, OnHose
  <2>3. recorded' = recorded \cup {row} /\ at' = "confirm" /\ job' = job /\ lane' = Durable(lane)
    BY <1>4 DEF CommitSale, Goto
  <2>4. row.id = job.id /\ row.arm = job.arm /\ row.volume = job.volume
    OBVIOUS
  <2> HIDE DEF row
  <2>5. /\ arm[job.net] \in Ordered => ~PumpArmed(pump[job.net]) /\ job.arm = arm[job.net]
        /\ \A h \in Hose : arm[h] \in Ordered /\ arm[h] = job.arm =>
              ~PumpArmed(pump[h]) /\ job.volume = pump[h].volume
        /\ job.id[1] = job.net /\ job.id[2] <= pump[job.net].serial
    BY <2>2 DEF AtRegisters
  <2>6. OrdersHeld'
    <3> SUFFICES ASSUME NEW h \in Hose, Live(h)' PROVE FALSE
      BY DEF OrdersHeld
    <3>1. Still
      BY <2>1, <2>3, CalmStill
    <3>2. Live(h)
      BY <3>1 DEF Still
    <3>3. h = job.net /\ arm[h] \in Ordered /\ ~PumpArmed(pump[h])
      BY <2>2, <3>2, ClosingSale
    <3>4. Written(arm[h])'
      BY <2>1, <2>3, <2>4, <2>5, <3>3 DEF Written
    <3> QED BY <2>1, <3>3, <3>4 DEF Live
  <2>7. Books'
    <3>1. \A r \in recorded' : r.id[2] <= pump'[r.id[1]].serial
      BY <2>1, <2>3, <2>4, <2>5 DEF Books
    <3>2. ASSUME NEW h \in Hose, NEW r \in recorded'
          PROVE  /\ Filled(h) /\ r.id[1] = h => Past(r.id, pump[h]) \/ r.arm = arm[h]
                 /\ arm[h] \in Ordered /\ r.arm = arm[h] =>
                      /\ ~PumpArmed(pump[h])
                      /\ pump[h].volume > 0 => r.volume = pump[h].volume
      <4>1. CASE r \in recorded
        BY <4>1 DEF Books
      <4>2. CASE r = row
        BY <2>4, <2>5, <4>2 DEF Filled
      <4> QED BY <2>3, <4>1, <4>2
    <3> QED BY <2>1, <3>1, <3>2 DEF Books, Filled, Ordered
  <2>8. ArmsApart'
    BY <2>1, <2>2, <2>3, <2>4 DEF ArmsApart
  <2>9. NoSaleLost'
    BY <2>1, <2>3 DEF SaleInv, NoSaleLost, Ordered
  <2>10. lane'.pending /\ ~Owned(lane')
    BY <2>3 DEF Durable, LaneState, Owned
  <2>11. NewOrder' /\ AtRegisters'
    BY <2>1, <2>3, <2>5, <2>10 DEF NewOrder, AtRegisters, Closing, Ordering, Owned, Ordered
  <2>12. ASSUME MaxForeign = 0
         PROVE  Alone'
    <3> Alone /\ ~InBook(job.id) /\ row.shift = SaleShift
      BY <1>4, <2>12 DEF SaleInv, CommitSale, row
    <3>1. job.volume > 0 =>
            /\ arm[job.net] \in Ordered /\ job.arm = arm[job.net]
            /\ ~PumpArmed(pump[job.net]) /\ pump[job.net].volume = job.volume
            /\ job.id = SaleKey(job.net, job.volume)
      BY <2>2, <2>5, <2>12 DEF AtRegisters
    <3>2. ASSUME job.volume > 0, NEW r \in recorded, r.arm = job.arm, r.volume > 0
          PROVE  FALSE
      BY <2>2, <3>1, <3>2 DEF Alone, InBook
    <3>3. ASSUME job.volume > 0, NEW o \in orders, o.arm = job.arm
          PROVE  row.shift = o.shift
      <4>1. Filled(job.net)
        BY <3>1, <3>3 DEF Filled
      <4>2. ~Written(arm[job.net])
        <5> SUFFICES ASSUME NEW r \in recorded, r.arm = arm[job.net] PROVE FALSE
          BY DEF Written
        <5>1. r.volume = pump[job.net].volume
          BY <2>2, <3>1, <3>3 DEF Books
        <5> QED BY <3>1, <3>2, <3>3, <5>1
      <4>3. Holds(lane, job.net)
        BY <2>2, <4>1, <4>2 DEF Live, OrdersHeld, StopInv
      <4>4. SaleShift = lane.order /\ [arm |-> job.arm, shift |-> lane.order] \in orders
        BY <3>1, <3>3, <4>3 DEF Holds, SaleShift
      <4> QED BY <3>3, <4>4 DEF ArmsApart
    <3>4. ASSUME NEW r \in recorded', NEW h \in Hose,
                 r.volume > 0, r.arm = arm[h], pump[h].volume > 0
          PROVE  r.id = SaleKey(h, pump[h].volume)
      <4>1. CASE r \in recorded
        BY <3>4, <4>1 DEF Alone
      <4>2. CASE r = row
        <5>1. arm[h] \in Ordered /\ job.volume > 0 /\ arm[h] = arm[job.net]
          BY <2>4, <3>1, <3>4, <4>2
        <5>2. arm[h] # 0
          BY <5>1, OrderedIsArm
        <5>3. h = job.net
          BY <2>2, <5>1, <5>2 DEF ArmsApart
        <5> QED BY <2>4, <3>1, <4>2, <5>1, <5>3
      <4> QED BY <2>3, <4>1, <4>2
    <3>5. BilledOnce'
      BY <2>1, <2>3, <2>4, <3>2 DEF Alone, BilledOnce, Ordered
    <3>6. BilledToOrderShift'
      BY <2>1, <2>3, <2>4, <3>3 DEF Alone, BilledToOrderShift
    <3>7. \A r \in recorded' : r.volume > 0 => r.arm \in Ordered
      BY <2>3, <2>4, <3>1 DEF Alone
    <3> QED BY <2>1, <3>4, <3>5, <3>6, <3>7 DEF Alone, SaleKey, Ordered
  <2>13. Surrendered'
    BY <2>1 DEF SaleInv, Surrendered
  <2> QED BY <2>6, <2>7, <2>8, <2>9, <2>11, <2>12, <2>13 DEF SaleInv
<1>5. CASE ConfirmSaved
  <2>1. Calm /\ UNCHANGED <<recorded, cleared, pump, arm, orders>>
    BY <1>5, SameCalm DEF ConfirmSaved, SaveOk, pumpVars
  <2>2. at = "confirm" /\ at \in Closing /\ at' = "release" /\ job' = job /\ loaded
    BY <1>5 DEF ConfirmSaved, Goto, Closing, StopInv
  <2>3. lane' = lane
    BY <1>5, <2>2 DEF ConfirmSaved, SaveOk, Known
  <2>4. NewOrder' /\ AtRegisters'
    BY <2>1, <2>2, <2>3 DEF NewOrder, AtRegisters, Closing, Ordering, Owned, Ordered
  <2> QED BY <1>5, <2>1, <2>2, <2>4, SavesBequeath, CalmStep DEF ConfirmSaved
<1>6. CASE ConfirmNotSaved \/ Checkpoint
  <2>1. Calm /\ UNCHANGED <<recorded, cleared>>
    BY <1>6, SameCalm DEF ConfirmNotSaved, Checkpoint, SaveOk, SaveFails, pumpVars, diskVars
  <2>2. Outside'
    BY <1>6, LeaveOutside DEF ConfirmNotSaved, Checkpoint, Goto, Outside, Closing, Ordering
  <2> QED BY <1>6, <2>1, <2>2, SavesBequeath, OutsideStep DEF ConfirmNotSaved, Checkpoint
<1>7. CASE ReleaseIdle
  <2>1. Calm /\ UNCHANGED <<recorded, cleared>>
    BY <1>7, SameCalm DEF ReleaseIdle, pumpVars, diskVars
  <2>2. \A h \in Hose : ~Live(h)
    BY <1>7, PendingSettled DEF ReleaseIdle, AtRegisters, StopInv, Closing
  <2> QED BY <1>7, <2>1, <2>2, NothingToBequeath, LeaveOutside, OutsideStep DEF ReleaseIdle
<1>8. ASSUME NEW sent \in BOOLEAN, NEW acked \in BOOLEAN, ConfirmWire(sent, acked)
      PROVE  SaleInv'
  <2>1. at = "release" /\ at \in Closing /\ job.net \in Hose
    BY <1>8 DEF ConfirmWire, Closing, StepsSound, OnHose
  <2>2. \A h \in Hose : ~Live(h)
    BY <2>1, PendingSettled DEF AtRegisters, StopInv
  <2>3. recorded' = recorded /\ Leave
    BY <1>8 DEF ConfirmWire, diskVars
  <2>4. Outside'
    BY <2>3, LeaveOutside
  <2>5. CASE UNCHANGED pumpVars
    <3>1. Calm /\ cleared' = cleared
      BY <2>5, SameCalm DEF pumpVars
    <3> QED BY <2>2, <2>3, <2>4, <3>1, NothingToBequeath, OutsideStep
  <2>6. CASE /\ pump[job.net].status = "Finished"
             /\ WireClearing(job.net, PumpConfirm(pump[job.net]))
    <3>1. Calm /\ cleared' = cleared \cup GiveUp(job.net) /\ ~PumpArmed(pump[job.net])
      <4>1. Quiet(pump[job.net], PumpConfirm(pump[job.net]))
        BY <2>1, MovesSteady DEF PumpsOK, Steady
      <4> QED BY <2>1, <2>6, <4>1, MoveCalm DEF WireClearing, PumpArmed
    <3>2. NewOrder' /\ AtRegisters' /\ at' \notin {"identify", "commit"}
      BY <2>4 DEF Outside, NewOrder, AtRegisters, Closing, Ordering
    <3> QED BY <2>1, <2>2, <2>3, <3>1, <3>2, NothingToBequeath, ClearingStep
  <2> QED BY <1>8, <2>5, <2>6 DEF ConfirmWire
<1> QED BY <1>1, <1>2, <1>3, <1>4, <1>5, <1>6, <1>7, <1>8 DEF Close

(* A sale begins only with an arm: what the new number leaves of the others. *)
LEMMA ArmingApart ==
    ASSUME Parts, Parts', ArmsApart, NEW net \in Hose, NEW sent \in SUBSET [arm : Arm, shift : Shift],
           ArmHose(net, sent), PumpReady(pump[net]),
           \A o \in sent : o.arm = arms + 1, \A o, p \in sent : o = p,
           recorded' = recorded, cleared' \in {cleared, cleared \cup GiveUp(net)},
           at' \in {"identify", "commit"} => at' = at /\ job' = job
    PROVE  /\ ArmsApart'
           /\ arm'[net] = arms + 1 /\ \A h \in Hose \ {net} : arm'[h] = arm[h] /\ pump'[h] = pump[h]
           /\ \A a \in 0 .. arms : a # arms + 1
           /\ \A h \in Hose : arm[h] \in 0 .. arms
           /\ \A a \in 0 .. arms : a \in Ordered' => a \in Ordered
<1> /\ PumpsOK /\ recorded \subseteq Entry /\ LoopOK
  BY DEF Parts, BookOK
<1>1. arms \in Nat /\ \A h \in Hose : arm[h] \in Nat /\ arm[h] <= arms
  BY DEF PumpsOK, ArmsApart, Arm
<1>2. arm'[net] = arms + 1 /\ \A h \in Hose \ {net} : arm'[h] = arm[h] /\ pump'[h] = pump[h]
  BY DEF ArmHose, PumpsOK
<1>3. arms' = arms + 1 /\ orders' = orders \cup sent
  BY DEF ArmHose
<1>4. \A a \in 0 .. arms : a # arms + 1 /\ (a \in Ordered' => a \in Ordered)
  BY <1>1, <1>3 DEF Ordered
<1>5. \A o \in orders : o.arm \in Nat /\ o.arm <= arms
  BY DEF PumpsOK, ArmsApart, Arm
<1>6. /\ \A o \in orders' : o.arm <= arms'
      /\ \A o, p \in orders' : o.arm = p.arm => o = p
  BY <1>1, <1>3, <1>5 DEF ArmsApart
<1>7. \A h \in Hose : arm'[h] <= arms'
  BY <1>1, <1>2, <1>3
<1>8. \A g, h \in Hose : arm'[g] = arm'[h] /\ arm'[g] # 0 => g = h
  BY <1>1, <1>2 DEF ArmsApart
<1>9. \A c \in cleared' : c.arm <= arms'
  <2>1. ASSUME NEW c \in cleared' PROVE c.arm \in Nat /\ c.arm <= arms
    <3>1. c.arm <= arms
      BY GiveUpArm DEF ArmsApart
    <3>2. cleared' \subseteq [arm : Arm, volume : 1 .. MaxVolume]
      BY DEF Parts, PumpsOK
    <3> QED BY <3>1, <3>2 DEF Arm
  <2> QED BY <1>1, <1>3, <2>1
<1>10. \A r \in recorded' : r.arm <= arms'
  BY <1>1, <1>3 DEF ArmsApart, Entry, Arm
<1>11. at' \in {"identify", "commit"} => job'.arm <= arms'
  BY <1>1, <1>3 DEF ArmsApart, LoopOK, Job, Arm
<1>12. ArmsApart'
  BY <1>6, <1>7, <1>8, <1>9, <1>10, <1>11 DEF ArmsApart
<1> QED BY <1>1, <1>2, <1>4, <1>12

(* What was sold before an arm is past for the sale it begins. *)
LEMMA ArmedPast ==
    ASSUME NEW p \in PumpState, PumpReady(p), NEW id \in SaleId, id[2] <= p.serial
    PROVE  Past(id, PumpAuthorize(p)) /\ id[2] <= PumpAuthorize(p).serial
<1>1. id[2] \in Nat /\ p.serial \in Nat
  BY DEF SaleId, PumpState
<1> QED BY <1>1, AuthorizeSerial DEF Past

(* The book is not wrong about the registers of an arm. *)
LEMMA ArmingBooks ==
    ASSUME Parts, Parts', Books, ArmsApart, NEW net \in Hose,
           pump' = [pump EXCEPT ![net] = PumpAuthorize(@)], PumpReady(pump[net]),
           recorded' = recorded, arm'[net] = arms + 1,
           \A h \in Hose \ {net} : arm'[h] = arm[h] /\ pump'[h] = pump[h],
           \A h \in Hose : arm[h] \in 0 .. arms,
           \A a \in 0 .. arms : a # arms + 1 /\ (a \in Ordered' => a \in Ordered)
    PROVE  Books'
<1> recorded \subseteq Entry /\ pump[net] \in PumpState
  BY DEF Parts, BookOK, PumpsOK
<1> DEFINE q == PumpAuthorize(pump[net])
<1>1. pump'[net] = q
  BY DEF Parts, PumpsOK
<1> HIDE DEF q
<1>2. ASSUME NEW r \in recorded
      PROVE  /\ r.id \in SaleId /\ r.id[1] \in Hose /\ r.arm \in 0 .. arms
             /\ r.id[2] <= pump[r.id[1]].serial
  <2>1. r.id \in SaleId /\ r.arm \in Arm \cup {0} /\ r.arm <= arms /\ arms \in Nat
    BY DEF Entry, ArmsApart, Parts, PumpsOK, Arm
  <2>2. r.id[1] \in Hose
    BY <2>1 DEF SaleId
  <2> QED BY <2>1, <2>2 DEF Books, Arm
<1>3. ASSUME NEW r \in recorded, r.id[1] = net
      PROVE  Past(r.id, q) /\ r.id[2] <= q.serial
  BY <1>2, <1>3, ArmedPast DEF q
<1>4. ASSUME NEW r \in recorded PROVE r.id[2] <= pump'[r.id[1]].serial
  BY <1>1, <1>2, <1>3
<1>5. ASSUME NEW h \in Hose, NEW r \in recorded
      PROVE  /\ Filled(h)' /\ r.id[1] = h => Past(r.id, pump'[h]) \/ r.arm = arm'[h]
             /\ arm'[h] \in Ordered' /\ r.arm = arm'[h] =>
                  /\ ~PumpArmed(pump'[h])
                  /\ pump'[h].volume > 0 => r.volume = pump'[h].volume
  <2>1. CASE h = net
    BY <1>1, <1>2, <1>3, <2>1
  <2>2. CASE h # net
    <3>1. arm'[h] = arm[h] /\ pump'[h] = pump[h] /\ (arm[h] \in Ordered' => arm[h] \in Ordered)
      BY <2>2
    <3>2. Filled(h)' => Filled(h)
      BY <3>1 DEF Filled
    <3> QED BY <3>1, <3>2 DEF Books
  <2> QED BY <2>1, <2>2
<1> QED BY <1>4, <1>5 DEF Books

(* The new sale is not one that was given up. *)
LEMMA ArmingSurrendered ==
    ASSUME Parts, Parts', ArmsApart, Surrendered, NEW h \in Hose, ~PumpArmed(pump[h]),
           cleared' \in {cleared, cleared \cup GiveUp(h)},
           arm'[h] = arms + 1,
           \A g \in Hose \ {h} : arm'[g] = arm[g] /\ pump'[g] = pump[g],
           \A a \in 0 .. arms : a # arms + 1
    PROVE  Surrendered'
<1> /\ PumpsOK /\ PumpsOK' /\ arms \in Nat
    /\ cleared \subseteq [arm : Arm, volume : 1 .. MaxVolume]
    /\ cleared' \subseteq [arm : Arm, volume : 1 .. MaxVolume]
  BY DEF Parts, PumpsOK, Arm
<1>1. ASSUME NEW c \in cleared' PROVE c.arm \in 0 .. arms /\ c.arm # 0
  <2>1. c.arm <= arms
    BY GiveUpArm DEF ArmsApart
  <2> QED BY <2>1 DEF Arm
<1>2. ASSUME NEW c \in GiveUp(h)
      PROVE  /\ \A d \in cleared : c.arm = d.arm => c = d
             /\ \A g \in Hose : c.arm = arm[g] /\ arm[g] # 0 => g = h
  <2>1. c = [arm |-> arm[h], volume |-> pump[h].volume] /\ pump[h].volume > 0
    BY <1>2, GiveUpArm
  <2>2. \A d \in cleared : c.arm = d.arm => c = d
    <3> SUFFICES ASSUME NEW d \in cleared, c.arm = d.arm PROVE c = d
      OBVIOUS
    <3>1. pump[h].volume = d.volume
      BY <2>1 DEF Surrendered
    <3>2. d = [arm |-> d.arm, volume |-> d.volume]
      OBVIOUS
    <3> QED BY <2>1, <3>1, <3>2
  <2>3. \A g \in Hose : c.arm = arm[g] /\ arm[g] # 0 => g = h
    BY <2>1 DEF ArmsApart
  <2> QED BY <2>2, <2>3
<1>3. ASSUME NEW c \in cleared', NEW g \in Hose, c.arm = arm'[g]
      PROVE  ~PumpArmed(pump'[g]) /\ pump'[g].volume \in {0, c.volume}
  <2>1. g # h
    BY <1>1, <1>3
  <2>2. c.arm = arm[g] /\ pump'[g] = pump[g] /\ arm[g] # 0
    BY <1>1, <1>3, <2>1
  <2>3. c \in cleared
    BY <1>2, <2>1, <2>2
  <2> QED BY <2>2, <2>3 DEF Surrendered
<1>4. \A c, d \in cleared' : c.arm = d.arm => c = d
  BY <1>2, GiveUpArm DEF Surrendered
<1> QED BY <1>3, <1>4 DEF Surrendered

(* the commands, *)
LEMMA CommandSales ==
    ASSUME Parts, Parts', StopInv, SaleInv, Command
    PROVE  SaleInv'
<1> /\ PumpsOK /\ PumpsOK' /\ MemOK /\ MemOK' /\ lane \in LaneState /\ lane' \in LaneState
    /\ ArmsApart /\ OrdersHeld /\ NewOrder /\ Books /\ LoopOK /\ StepsSound
  BY DEF Parts, MemOK, SaleInv
<1> Known \in LaneState
  BY RestoredType DEF MemOK, Known
<1>1. ASSUME NEW all \in BOOLEAN, NEW cancel \in BOOLEAN, NEW readable \in BOOLEAN,
             StopCommand(all, cancel, readable)
      PROVE  SaleInv'
  <2> DEFINE l == IF readable THEN Known ELSE lane
  <2> DEFINE targets == IF all THEN Hose ELSE {NetOf(l.nozzle)}
  <2>1. Calm /\ UNCHANGED <<recorded, cleared, journal>>
    BY <1>1, SameCalm DEF StopCommand, pumpVars, diskVars
  <2>2. l \in LaneState /\ (loaded' => l = Known)
    BY <1>1 DEF StopCommand, Known
  <2> HIDE DEF l
  <2>3. lane' = StopIntent(l, targets, cancel)
    BY <1>1 DEF StopCommand, l
  <2> HIDE DEF targets
  <2>4. /\ lane'.order = l.order /\ lane'.nozzle = l.nozzle
        /\ lane'.pending = l.pending /\ lane'.before = l.before /\ lane' # None
    BY <2>2, <2>3, StopIntentSale, NoneIsApart
  <2>5. Bequeathed
    BY <2>1, <2>2, <2>4 DEF Bequeathed, Follows, Holds
  <2>6. Outside'
    BY <1>1 DEF StopCommand, Outside, Closing, Ordering
  <2> QED BY <2>1, <2>5, <2>6, OutsideStep
<1>2. CASE StopSave
  <2>1. Calm /\ UNCHANGED <<recorded, cleared>>
    BY <1>2, SameCalm DEF StopSave, SaveOk, SaveFails, SaveLate, pumpVars, diskVars
  <2>2. Outside'
    BY <1>2 DEF StopSave, Goto, Outside, Closing, Ordering
  <2> QED BY <1>2, <2>1, <2>2, SavesBequeath, OutsideStep DEF StopSave
<1>3. ASSUME NEW h \in Hose, NEW sent \in BOOLEAN, StopWire(h, sent)
      PROVE  SaleInv'
  <2> DEFINE q == IF sent THEN PumpStop(pump[h]) ELSE pump[h]
  <2>1. Quiet(pump[h], q) /\ Wire(h, q)
    BY <1>3, MovesSteady DEF PumpsOK, Steady, StopWire
  <2> HIDE DEF q
  <2>2. Calm /\ UNCHANGED <<recorded, cleared, journal, lane, loaded>>
    BY <1>3, <2>1, MoveCalm DEF StopWire, Wire, diskVars, memVars
  <2>3. Outside'
    BY <1>3, LeaveOutside DEF StopWire, Outside, Closing, Ordering
  <2> QED BY <2>2, <2>3, SameBequeath, OutsideStep
<1>4. CASE DismissCommand
  <2>1. Calm /\ UNCHANGED <<recorded, cleared>>
    BY <1>4, SameCalm DEF DismissCommand, pumpVars
  <2>2. journal' \in {journal, Snapshot(Known)} /\ lane' = Dismissed(Known)
    BY <1>4 DEF DismissCommand
  <2>3. Owned(Known) => lane' = Known /\ Follows(Snapshot(Known), Known)
    BY <2>2, SnapshotFollows DEF Dismissed, Dismissable
  <2>4. Known # None
    BY NoneIsApart
  <2>5. Bequeathed
    BY <2>2, <2>3, <2>4 DEF Bequeathed, Follows, Holds
  <2> QED BY <1>4, <2>1, <2>5, LeaveOutside, OutsideStep DEF DismissCommand
<1>5. ASSUME NEW h \in Hose, NEW direct \in BOOLEAN, OrderCommand(h, direct)
      PROVE  SaleInv'
  <2>1. Calm /\ UNCHANGED <<recorded, cleared>>
    BY <1>5, SameCalm DEF OrderCommand, SaveOk, pumpVars
  <2>2. ~Owned(Known) /\ ~Known.pending /\ Known.stops = {}
    BY <1>5 DEF OrderCommand, Busy
  <2>3. \A g \in Hose : ~Live(g)
    BY <2>2, KnownHolds DEF Holds
  <2>4. Still
    BY <2>1, CalmStill
  <2>5. lane' = Known /\ cached' = Snapshot(Known) /\ at' = "query"
    BY <1>5 DEF OrderCommand, SaveOk
  <2>6. ~Owns(lane') /\ cached' = None
    BY <2>2, <2>5 DEF Owns, Snapshot
  <2>7. NewOrder' /\ AtRegisters'
    BY <2>3, <2>4, <2>5, <2>6 DEF NewOrder, AtRegisters, Closing, Ordering, Still
  <2> QED BY <2>1, <2>3, <2>5, <2>7, NothingToBequeath, CalmStep
<1>6. ASSUME NEW heard \in BOOLEAN, CheckReady(heard)
      PROVE  SaleInv'
  <2>1. Calm /\ UNCHANGED <<recorded, cleared, journal, lane, loaded, cached>>
    BY <1>6, SameCalm DEF CheckReady, pumpVars, diskVars, memVars
  <2>2. Bequeathed
    BY <2>1, SameBequeath
  <2>3. CASE Leave
    BY <2>1, <2>2, <2>3, LeaveOutside, OutsideStep
  <2>4. CASE at' = "price"
    <3>1. ~Owns(lane) /\ cached = None /\ \A g \in Hose : ~Live(g)
      BY <1>6 DEF CheckReady, NewOrder, Ordering
    <3>2. Still
      BY <2>1, CalmStill
    <3>3. NewOrder' /\ AtRegisters'
      BY <2>1, <2>4, <3>1, <3>2
      DEF NewOrder, AtRegisters, Closing, Ordering, Still, Owns, Owned
    <3> QED BY <2>1, <2>2, <2>4, <3>3, CalmStep
  <2> QED BY <1>6, <2>3, <2>4 DEF CheckReady, Goto
<1>7. ASSUME NEW sent \in BOOLEAN, NEW acked \in BOOLEAN, SetOrder(sent, acked)
      PROVE  SaleInv'
  <2>1. at = "price" /\ job.net \in Hose /\ \A g \in Hose : ~Live(g)
    BY <1>7 DEF SetOrder, StepsSound, OnHose, NewOrder, Ordering
  <2>2. UNCHANGED <<recorded, journal, lane, loaded, cached>>
    BY <1>7 DEF SetOrder, diskVars, memVars
  <2>3. ~Owns(lane) /\ cached = None
    BY <2>1 DEF NewOrder
  <2>4. ASSUME Calm PROVE NewOrder' /\ AtRegisters' /\ at' \notin {"identify", "commit"}
    <3>1. Still
      BY <2>2, <2>4, CalmStill
    <3>2. at' \in {"before", "save"}
      BY <1>7 DEF SetOrder, Goto, Leave
    <3> QED BY <2>1, <2>2, <2>3, <3>1, <3>2
            DEF NewOrder, AtRegisters, Closing, Ordering, Still, Owns, Owned
  <2>5. CASE UNCHANGED pumpVars
    <3>1. Calm /\ cleared' = cleared
      BY <2>5, SameCalm DEF pumpVars
    <3> QED BY <2>1, <2>2, <2>4, <3>1, NothingToBequeath, CalmStep
  <2>6. CASE PumpIdle(pump[job.net]) /\ WireClearing(job.net, PumpSetPrice(pump[job.net]))
    <3>1. Quiet(pump[job.net], PumpSetPrice(pump[job.net]))
      BY <2>1, <2>6, PriceQuiet DEF PumpsOK
    <3>2. Calm /\ cleared' = cleared \cup GiveUp(job.net) /\ ~PumpArmed(pump[job.net])
      BY <2>1, <2>6, <3>1, MoveCalm DEF WireClearing, PumpArmed, PumpIdle
    <3> QED BY <2>1, <2>2, <2>4, <3>2, NothingToBequeath, ClearingStep
  <2> QED BY <1>7, <2>5, <2>6 DEF SetOrder
<1>8. CASE TakeOrder
  <2>1. Calm /\ UNCHANGED <<recorded, cleared, cached, pump>>
    BY <1>8, SameCalm DEF TakeOrder, pumpVars, diskVars
  <2>2. /\ at = "before" /\ job.net \in Hose /\ \A g \in Hose : ~Live(g)
        /\ cached = None
    BY <1>8 DEF TakeOrder, StepsSound, OnHose, NewOrder, Ordering
  <2> DEFINE id == SaleKey(job.net, pump[job.net].volume)
  <2>3. id[2] = pump[job.net].serial
    BY DEF SaleKey
  <2> HIDE DEF id
  <2>4. /\ lane'.order = shift /\ lane'.nozzle = job.net /\ ~lane'.pending
        /\ lane'.before = id
    BY <1>8, FreshLaneType DEF TakeOrder, OrderIntent, FreshLane, LaneState, id
  <2>5. shift # None
    BY NoneAssumption DEF Parts, BookOK, Shift
  <2>6. at' = "armSave" /\ job' = job
    BY <1>8 DEF TakeOrder, Goto
  <2>7. Still
    BY <2>1, CalmStill
  <2>8. pump[job.net].serial \in Nat
    BY <2>2 DEF PumpsOK, PumpState
  <2>9. NewOrder' /\ AtRegisters'
    BY <2>1, <2>2, <2>3, <2>4, <2>5, <2>6, <2>7, <2>8
    DEF NewOrder, AtRegisters, Closing, Ordering, Still, Owned
  <2> QED BY <2>1, <2>2, <2>6, <2>9, NothingToBequeath, CalmStep
<1>9. CASE TakeOrderFails \/ (\E sent \in BOOLEAN : StartWire(sent))
  <2>1. CASE TakeOrderFails
    <3>1. Calm /\ UNCHANGED <<recorded, cleared, journal, lane, loaded>>
      BY <2>1, SameCalm DEF TakeOrderFails, pumpVars, diskVars, memVars
    <3> QED BY <2>1, <3>1, SameBequeath, LeaveOutside, OutsideStep DEF TakeOrderFails
  <2>2. ASSUME NEW sent \in BOOLEAN, StartWire(sent)
        PROVE  SaleInv'
    <3> DEFINE q == IF sent THEN PumpStart(pump[job.net]) ELSE pump[job.net]
    <3>1. job.net \in Hose
      BY <2>2 DEF StartWire, StepsSound, OnHose
    <3>2. Quiet(pump[job.net], q) /\ Wire(job.net, q)
      BY <2>2, <3>1, MovesSteady DEF PumpsOK, Steady, StartWire
    <3> HIDE DEF q
    <3>3. Calm /\ UNCHANGED <<recorded, cleared, journal, lane, loaded>>
      BY <2>2, <3>1, <3>2, MoveCalm DEF StartWire, Wire, diskVars, memVars
    <3> QED BY <2>2, <3>3, SameBequeath, LeaveOutside, OutsideStep DEF StartWire
  <2> QED BY <1>9, <2>1, <2>2
<1>10. CASE ArmSaved
  <2>1. Calm /\ UNCHANGED <<recorded, cleared, pump>>
    BY <1>10, SameCalm DEF ArmSaved, SaveOk, pumpVars
  <2>2. /\ at = "armSave" /\ loaded /\ cached = None /\ \A g \in Hose : ~Live(g)
        /\ Owned(lane) /\ lane.nozzle = job.net /\ ~lane.pending
        /\ lane.before # None => lane.before[2] <= pump[job.net].serial
    BY <1>10 DEF ArmSaved, NewOrder, Ordering, StepsSound
  <2>3. Snapshot(lane) # None
    BY <2>2, SnapshotFollows DEF Follows
  <2>4. lane' = lane /\ journal' = Snapshot(lane) /\ at' = "arm" /\ job' = job
    BY <1>10, <2>2, <2>3 DEF ArmSaved, SaveOk, Known, KnownRow, Goto
  <2>5. Still
    BY <2>1, CalmStill
  <2>6. NewOrder' /\ AtRegisters'
    BY <2>1, <2>2, <2>4, <2>5 DEF NewOrder, AtRegisters, Closing, Ordering, Still, Owned
  <2> QED BY <2>1, <2>2, <2>4, <2>6, NothingToBequeath, CalmStep
<1>11. CASE ArmNotSaved
  <2>1. Calm /\ UNCHANGED <<recorded, cleared>>
    BY <1>11, SameCalm DEF ArmNotSaved, pumpVars, diskVars
  <2>2. \A h \in Hose : ~Live(h)
    BY <1>11 DEF ArmNotSaved, NewOrder, Ordering
  <2> QED BY <1>11, <2>1, <2>2, NothingToBequeath, LeaveOutside, OutsideStep DEF ArmNotSaved
<1>12. ASSUME NEW sent \in BOOLEAN, NEW heard \in BOOLEAN, ArmWire(sent, heard)
       PROVE  SaleInv'
  <2> DEFINE net == job.net
  <2> DEFINE order == [arm |-> arms + 1, shift |-> lane.order]
  <2>1. /\ at = "arm" /\ net \in Hose /\ loaded /\ \A g \in Hose : ~Live(g)
        /\ Owned(lane) /\ lane.nozzle = net /\ ~lane.pending
        /\ lane.before # None => lane.before[2] <= pump[net].serial
        /\ journal = Snapshot(lane)
    BY <1>12 DEF ArmWire, NewOrder, Ordering, StepsSound, OnHose
  <2>2. UNCHANGED <<recorded, journal, loaded>>
    BY <1>12 DEF ArmWire, diskVars
  <2>3. at' \in {"start", "save"}
    BY <1>12 DEF ArmWire, Goto, Leave
  <2>4. NewOrder' /\ AtRegisters'
    BY <2>3 DEF NewOrder, AtRegisters, Closing, Ordering
  <2>5. CASE ~(sent /\ PumpReady(pump[net]))
    <3>1. Calm /\ UNCHANGED cleared
      BY <1>12, <2>5, SameCalm DEF ArmWire, pumpVars
    <3> QED BY <2>1, <2>2, <2>3, <2>4, <3>1, NothingToBequeath, CalmStep
  <2>6. CASE sent /\ PumpReady(pump[net])
    <3>1. ArmHose(net, {order}) /\ cleared' = cleared \cup GiveUp(net)
      BY <1>12, <2>6 DEF ArmWire
    <3>2. lane' \in {[lane EXCEPT !.before = None], [lane EXCEPT !.status = "Armed"]}
      BY <1>12, <2>6 DEF ArmWire
    <3>3. order \in [arm : Arm, shift : Shift]
      <4>1. order \in orders'
        BY <3>1 DEF ArmHose
      <4> QED BY <4>1 DEF PumpsOK
    <3>4. order.arm = arms + 1 /\ order.shift = lane.order
      OBVIOUS
    <3> HIDE DEF order
    <3>5. {order} \in SUBSET [arm : Arm, shift : Shift]
      BY <3>3
    <3>6. /\ ArmsApart'
          /\ arm'[net] = arms + 1 /\ \A h \in Hose \ {net} : arm'[h] = arm[h] /\ pump'[h] = pump[h]
          /\ \A a \in 0 .. arms : a # arms + 1
          /\ \A h \in Hose : arm[h] \in 0 .. arms
          /\ \A a \in 0 .. arms : a \in Ordered' => a \in Ordered
      <4>1. at' \notin {"identify", "commit"}
        BY <2>3
      <4> HIDE DEF net
      <4> QED BY <2>1, <2>2, <2>6, <3>1, <3>4, <3>5, <4>1, ArmingApart
    <3>7. pump' = [pump EXCEPT ![net] = PumpAuthorize(@)]
      BY <3>1 DEF ArmHose
    <3>8. Books'
      BY <2>1, <2>2, <2>6, <3>6, <3>7, ArmingBooks
    <3>9. ~PumpArmed(pump[net])
      BY <2>6 DEF PumpReady, PumpIdle, PumpArmed
    <3>10. \A c \in cleared' : c.arm \in 0 .. arms
      <4>1. ASSUME NEW c \in cleared' PROVE c.arm \in Nat /\ c.arm <= arms
        <5>1. c.arm <= arms
          BY <2>1, <3>1, GiveUpArm DEF ArmsApart
        <5>2. cleared' \subseteq [arm : Arm, volume : 1 .. MaxVolume]
          BY DEF PumpsOK
        <5> QED BY <5>1, <5>2 DEF Arm
      <4> QED BY <4>1 DEF PumpsOK, Arm
    <3>11. NoSaleLost'
      BY <2>1, <2>2, <3>1, <3>6, <3>9, <3>10, GiveUpWritten DEF SaleInv
    <3>12. OrdersHeld'
      <4> SUFFICES ASSUME NEW h \in Hose, Live(h)'
                   PROVE  Holds(journal, h)' /\ Holds(lane, h)'
        BY DEF OrdersHeld
      <4>1. h = net
        <5> SUFFICES ASSUME h # net PROVE FALSE
          OBVIOUS
        <5>1. arm'[h] = arm[h] /\ pump'[h] = pump[h] /\ (arm[h] \in Ordered' => arm[h] \in Ordered)
          BY <3>6
        <5>2. Live(h)
          BY <2>2, <5>1 DEF Live, Filled, Written
        <5> QED BY <2>1, <5>2
      <4> HIDE DEF net
      <4>2. ASSUME NEW l, Follows(l, lane)
            PROVE  /\ l # None /\ l.order # None /\ l.nozzle = net /\ ~l.pending
                   /\ [arm |-> arm'[net], shift |-> l.order] \in orders'
                   /\ l.before # None => Past(l.before, pump'[net])
        <5>1. /\ l # None /\ l.order = lane.order /\ l.nozzle = net /\ ~l.pending
              /\ l.order # None /\ l.before \in {lane.before, None}
          BY <2>1, <4>2 DEF Follows, Owned
        <5>2. [arm |-> arm'[net], shift |-> l.order] \in orders'
          <6>1. order = [arm |-> arms + 1, shift |-> lane.order]
            BY DEF order
          <6>2. order \in orders'
            BY <3>1 DEF ArmHose
          <6> QED BY <3>6, <5>1, <6>1, <6>2
        <5>3. ASSUME l.before # None
              PROVE  Past(l.before, pump'[net])
          <6>1. l.before = lane.before /\ lane.before # None
            BY <5>1, <5>3
          <6>2. lane.before \in SaleId /\ lane.before[2] <= pump[net].serial
            BY <2>1, <6>1 DEF LaneState
          <6>3. pump'[net] = PumpAuthorize(pump[net]) /\ pump[net] \in PumpState
            BY <2>1, <3>7 DEF PumpsOK
          <6> QED BY <2>6, <6>1, <6>2, <6>3, ArmedPast
        <5> QED BY <5>1, <5>2, <5>3
      <4>3. Follows(journal', lane)
        BY <2>1, <2>2, SnapshotFollows
      <4>4. Follows(lane', lane)
        BY <3>2, NoneIsApart DEF Follows, LaneState
      <4> QED BY <4>1, <4>2, <4>3, <4>4, Zenon DEF Holds, Owned
    <3>13. ASSUME MaxForeign = 0
           PROVE  Alone'
      <4> Alone /\ recorded \subseteq Entry
        BY <3>13 DEF SaleInv, Parts, BookOK
      <4>1. \A r \in recorded : r.arm \in 0 .. arms
        BY DEF ArmsApart, Entry, PumpsOK, Arm
      <4>2. orders' = orders \cup {order} /\ Ordered' = Ordered \cup {arms + 1}
        BY <3>1, <3>4 DEF ArmHose, Ordered
      <4>3. \A h \in Hose : arm'[h] # 0 => arm'[h] \in Ordered'
        BY <3>6, <4>2 DEF Alone
      <4>4. ASSUME NEW r \in recorded, NEW h \in Hose,
                   r.volume > 0, r.arm = arm'[h], pump'[h].volume > 0
            PROVE  r.id = <<h, pump'[h].serial, pump'[h].volume>>
        <5>1. h # net
          BY <3>6, <4>1, <4>4
        <5> QED BY <3>6, <4>4, <5>1 DEF Alone, SaleKey
      <4>5. BilledOnce'
        BY <2>2, <3>6, <4>1 DEF Alone, BilledOnce
      <4>6. BilledToOrderShift'
        BY <2>2, <3>4, <3>6, <4>1, <4>2 DEF Alone, BilledToOrderShift
      <4>7. \A c \in cleared' : c.arm \in Ordered
        BY <2>1, <3>1, ClearingAlone
      <4> QED BY <2>2, <4>2, <4>3, <4>4, <4>5, <4>6, <4>7 DEF Alone, SaleKey
    <3>14. Surrendered'
      BY <2>1, <3>1, <3>6, <3>9, ArmingSurrendered DEF SaleInv
    <3> QED BY <2>4, <3>6, <3>8, <3>11, <3>12, <3>13, <3>14 DEF SaleInv
  <2> QED BY <2>5, <2>6
<1> QED BY <1>1, <1>2, <1>3, <1>4, <1>5, <1>6, <1>7, <1>8, <1>9, <1>10, <1>11, <1>12 DEF Command

(* A move of the customer, the pump or its panel. *)
LEMMA MoveSales ==
    ASSUME Parts, Parts', SaleInv, NEW h \in Hose, NEW q, Steady(pump[h], q), Wire(h, q),
           UNCHANGED <<diskVars, memVars, at, job>>
    PROVE  SaleInv'
<1> PumpsOK /\ PumpsOK' /\ MemOK /\ MemOK' /\ StepsSound
  BY DEF Parts
<1>1. Calm /\ UNCHANGED <<recorded, cleared, journal, cached, lane, loaded, arm, orders, at, job>>
  BY MoveCalm DEF Wire, Steady, diskVars, memVars
<1>2. Bequeathed
  BY <1>1, SameBequeath
<1>3. Still
  BY <1>1, CalmStill
<1>4. ASSUME NEW g \in Hose
      PROVE  /\ PumpArmed(pump'[g]) => PumpArmed(pump[g])
             /\ ~PumpArmed(pump[g]) => pump'[g].volume = pump[g].volume
             /\ ~PumpArmed(pump[g]) => pump'[g].serial = pump[g].serial
             /\ \A n \in Nat : n <= pump[g].serial => n <= pump'[g].serial
  <2>1. pump'[g] = IF g = h THEN q ELSE pump[g]
    BY DEF Wire, PumpsOK
  <2>2. Steady(pump[g], pump'[g])
    BY <2>1, MovesSteady DEF PumpsOK
  <2>3. pump[g].serial \in Nat /\ pump'[g].serial \in Nat
    BY DEF PumpsOK, PumpState
  <2> QED BY <2>2, <2>3 DEF Steady, Quiet
<1>5. NewOrder'
  <2>1. at \in {"armSave", "arm"} => job.net \in Hose
    BY DEF StepsSound, OnHose
  <2>2. lane.before # None => lane.before[2] \in Nat
    BY DEF MemOK, LaneState, SaleId
  <2> QED BY <1>1, <1>3, <1>4, <2>1, <2>2
          DEF SaleInv, NewOrder, Still, Owns, Owned, Snapshot, Ordering
<1>6. AtRegisters'
  <2>1. at \in Closing => job.net \in Hose
    BY DEF StepsSound, OnHose, Closing
  <2>2. at = "commit" => job.id[2] \in Nat
    BY DEF StepsSound, SaleId
  <2>3. Ordered' = Ordered
    BY <1>1 DEF Ordered
  <2>4. at \in Closing => (arm'[job.net] \in Ordered' => ~PumpArmed(pump'[job.net]))
    BY <1>1, <1>4, <2>1, <2>3 DEF SaleInv, AtRegisters
  <2>5. at \in {"identify", "commit"} =>
          /\ arm'[job.net] \in Ordered' => job.arm = arm'[job.net]
          /\ \A g \in Hose : arm'[g] \in Ordered' /\ arm'[g] = job.arm =>
                ~PumpArmed(pump'[g]) /\ job.volume = pump'[g].volume
    BY <1>1, <1>4, <2>3 DEF SaleInv, AtRegisters
  <2>6. at = "commit" => job.id[1] = job.net /\ job.id[2] <= pump'[job.net].serial
    BY <1>4, <2>1, <2>2 DEF SaleInv, AtRegisters, Closing
  <2>7. ASSUME MaxForeign = 0, at \in {"identify", "commit"}, job.volume > 0
        PROVE  /\ arm'[job.net] \in Ordered'
               /\ at = "commit" => job.id = SaleKey(job.net, job.volume)'
    <3>1. arm[job.net] \in Ordered /\ ~PumpArmed(pump[job.net]) /\ job.net \in Hose
      BY <2>1, <2>7 DEF SaleInv, AtRegisters, Closing
    <3>2. at = "commit" => job.id = <<job.net, pump[job.net].serial, job.volume>>
      BY <2>7 DEF SaleInv, AtRegisters, SaleKey
    <3>3. SaleKey(job.net, job.volume)' = <<job.net, pump'[job.net].serial, job.volume>>
      BY <1>1 DEF SaleKey
    <3> QED BY <1>1, <1>4, <2>3, <3>1, <3>2, <3>3
  <2> QED BY <1>1, <2>4, <2>5, <2>6, <2>7 DEF SaleInv, AtRegisters, Owned
<1>7. at' \in {"identify", "commit"} => job'.arm <= arms
  BY <1>1 DEF SaleInv, ArmsApart
<1> QED BY <1>1, <1>2, <1>5, <1>6, <1>7, CalmStep

(* An arm by others gives no order and takes nothing from one that is live. *)
LEMMA ForeignSales ==
    ASSUME Parts, Parts', SaleInv, NEW h \in Hose, ForeignArm(h)
    PROVE  SaleInv'
<1> /\ PumpsOK /\ PumpsOK' /\ MemOK /\ MemOK' /\ StepsSound
    /\ ArmsApart /\ Books /\ OrdersHeld /\ NewOrder /\ AtRegisters /\ NoSaleLost
  BY DEF Parts, SaleInv
<1>1. /\ PumpReady(pump[h]) /\ ArmHose(h, {})
      /\ UNCHANGED <<recorded, cleared, journal, cached, lane, loaded, at, job>>
  BY DEF ForeignArm, Others, diskVars, memVars
<1>2. /\ ArmsApart'
      /\ arm'[h] = arms + 1 /\ \A g \in Hose \ {h} : arm'[g] = arm[g] /\ pump'[g] = pump[g]
      /\ \A a \in 0 .. arms : a # arms + 1
      /\ \A g \in Hose : arm[g] \in 0 .. arms
      /\ \A a \in 0 .. arms : a \in Ordered' => a \in Ordered
  BY <1>1, ArmingApart
<1>3. orders' = orders /\ Ordered' = Ordered /\ pump' = [pump EXCEPT ![h] = PumpAuthorize(@)]
  BY <1>1 DEF ArmHose, Ordered
<1>4. \A a \in Ordered : a \in 0 .. arms
  BY DEF Ordered, PumpsOK, ArmsApart, Arm
<1>5. Books'
  BY <1>1, <1>2, <1>3, ArmingBooks
<1>6. NoSaleLost'
  BY <1>1, <1>3 DEF NoSaleLost
<1>7. arm'[h] \notin Ordered
  BY <1>2, <1>4
<1>8. ASSUME NEW g \in Hose, arm'[g] \in Ordered'
      PROVE  g # h /\ arm'[g] = arm[g] /\ pump'[g] = pump[g] /\ arm[g] \in Ordered
  BY <1>2, <1>3, <1>7, <1>8
<1>9. ASSUME NEW g \in Hose, Live(g)'
      PROVE  Live(g) /\ arm'[g] = arm[g] /\ pump'[g] = pump[g]
  <2>1. arm'[g] \in Ordered'
    BY <1>9 DEF Live, Filled
  <2>2. arm'[g] = arm[g] /\ pump'[g] = pump[g] /\ arm[g] \in Ordered
    BY <1>8, <2>1
  <2> QED BY <1>1, <1>9, <2>2 DEF Live, Filled, Written
<1>10. OrdersHeld'
  <2> SUFFICES ASSUME NEW g \in Hose, Live(g)'
               PROVE  Holds(journal, g)' /\ (loaded' => Holds(lane, g)')
    BY DEF OrdersHeld
  <2>1. Holds(journal, g) /\ (loaded => Holds(lane, g)) /\ arm'[g] = arm[g] /\ pump'[g] = pump[g]
    BY <1>9 DEF OrdersHeld
  <2> QED BY <1>1, <1>3, <2>1 DEF Holds, Owned
<1>11. ASSUME NEW g \in Hose, NEW n \in Nat, n <= pump[g].serial
       PROVE  n <= pump'[g].serial
  <2>1. CASE g = h
    <3>1. pump'[g] = PumpAuthorize(pump[g]) /\ pump[g] \in PumpState /\ pump[g].serial \in Nat
      BY <1>3, <2>1 DEF PumpsOK, PumpState
    <3>2. pump'[g].serial \in {pump[g].serial, pump[g].serial + 1}
      BY <1>1, <2>1, <3>1, AuthorizeSerial
    <3> QED BY <1>11, <3>1, <3>2
  <2>2. CASE g # h
    BY <1>2, <1>11, <2>2
  <2> QED BY <2>1, <2>2
<1>12. NewOrder'
  <2>1. at \in {"armSave", "arm"} => job.net \in Hose
    BY DEF StepsSound, OnHose
  <2>2. lane.before # None => lane.before[2] \in Nat
    BY DEF MemOK, LaneState, SaleId
  <2> QED BY <1>1, <1>9, <1>11, <2>1, <2>2
          DEF NewOrder, Owns, Owned, Snapshot, Ordering
<1>14. MaxForeign # 0
  BY BoundAssumption DEF ForeignArm, Parts, BoundsOK
<1>13. AtRegisters'
  <2>1. at \in Closing => job.net \in Hose
    BY DEF StepsSound, OnHose, Closing
  <2>2. at = "commit" => job.id[2] \in Nat
    BY DEF StepsSound, SaleId
  <2>3. at \in Closing => (arm'[job.net] \in Ordered' => ~PumpArmed(pump'[job.net]))
    BY <1>8, <2>1 DEF AtRegisters
  <2>4. at \in {"identify", "commit"} =>
          /\ arm'[job.net] \in Ordered' => job.arm = arm'[job.net]
          /\ \A g \in Hose : arm'[g] \in Ordered' /\ arm'[g] = job.arm =>
                ~PumpArmed(pump'[g]) /\ job.volume = pump'[g].volume
    BY <1>8, <2>1 DEF AtRegisters, Closing
  <2>5. at = "commit" => job.id[1] = job.net /\ job.id[2] <= pump'[job.net].serial
    BY <1>11, <2>1, <2>2 DEF AtRegisters, Closing
  <2> QED BY <1>1, <1>14, <2>3, <2>4, <2>5 DEF AtRegisters, Owned
<1>15. Surrendered'
  <2>1. ~PumpArmed(pump[h])
    BY <1>1 DEF PumpReady, PumpIdle, PumpArmed
  <2> QED BY <1>1, <1>2, <2>1, ArmingSurrendered DEF SaleInv
<1> QED BY <1>2, <1>5, <1>6, <1>10, <1>12, <1>13, <1>14, <1>15 DEF SaleInv

(* and the surroundings. *)
LEMMA SurroundingsSales ==
    ASSUME Parts, Parts', SaleInv, Surroundings \/ UNCHANGED vars
    PROVE  SaleInv'
<1> PumpsOK /\ PumpsOK' /\ MemOK /\ MemOK'
  BY DEF Parts
<1>1. ASSUME NEW h \in Hose,
             CustomerLifts(h) \/ CustomerHolsters(h) \/ PumpStarts(h) \/ PumpCleared(h)
               \/ KeypadPreset(h) \/ FuelFlows(h)
      PROVE  SaleInv'
  <2>1. UNCHANGED <<diskVars, memVars, at, job>>
    BY <1>1 DEF CustomerLifts, CustomerHolsters, PumpStarts, PumpCleared, KeypadPreset,
                FuelFlows, Others
  <2>2. pump[h] \in PumpState
    BY DEF PumpsOK
  <2>3. CASE FuelFlows(h)
    <3>1. PumpArmed(pump[h]) /\ pump[h].volume < MaxVolume
      BY <2>3 DEF FuelFlows, PumpArmed, PumpsOK, PumpsSound
    <3> QED BY <2>1, <2>2, <2>3, <3>1, FlowSteady, MoveSales DEF FuelFlows
  <2>4. ASSUME NEW q \in {PumpLift(pump[h]), PumpHolster(pump[h]), PumpStart(pump[h]),
                          PumpClear(pump[h]), PumpPreset(pump[h])},
               Wire(h, q)
        PROVE  SaleInv'
    BY <2>1, <2>2, <2>4, MovesSteady, MoveSales
  <2> QED BY <1>1, <2>3, <2>4
      DEF CustomerLifts, CustomerHolsters, PumpStarts, PumpCleared, KeypadPreset
<1>2. CASE NextShift \/ UNCHANGED vars
  <2>1. UNCHANGED <<pumpVars, diskVars, memVars, at, job>>
    BY <1>2 DEF NextShift, vars
  <2>2. Calm /\ UNCHANGED <<pump, recorded, cleared, journal, cached, lane, loaded, arm, arms, orders, at, job>>
    BY <2>1, SameCalm DEF pumpVars, diskVars, memVars
  <2>3. Still
    BY <2>2, CalmStill
  <2>4. NewOrder' /\ AtRegisters'
    BY <2>2, <2>3
    DEF SaleInv, NewOrder, AtRegisters, Still, Owns, Owned, Snapshot, Ordering, Closing, Ordered,
        SaleKey
  <2>5. at' \in {"identify", "commit"} => job'.arm <= arms
    BY <2>2 DEF SaleInv, ArmsApart
  <2> QED BY <2>2, <2>4, <2>5, SameBequeath, CalmStep
<1>3. CASE Crash
  <2>1. Calm /\ UNCHANGED <<recorded, cleared, journal>> /\ ~loaded'
    BY <1>3, SameCalm DEF Crash, pumpVars, diskVars
  <2>2. Bequeathed
    BY <2>1 DEF Bequeathed, Follows, Holds
  <2>3. Outside'
    BY <1>3 DEF Crash, Outside, Closing, Ordering
  <2> QED BY <2>1, <2>2, <2>3, OutsideStep
<1> QED BY <1>1, <1>2, <1>3, ForeignSales DEF Surroundings

(* Nothing is sold at the start. *)
LEMMA InitSales ==
    ASSUME Init
    PROVE  SaleInv
<1>1. Ordered = {} /\ orders = {} /\ recorded = {} /\ cleared = {} /\ at = "rest" /\ arms = 0
  BY DEF Init, Ordered
<1>2. \A h \in Hose : arm[h] = 0
  BY DEF Init
<1>3. ArmsApart
  BY <1>1, <1>2 DEF ArmsApart
<1>4. Alone
  BY <1>1, <1>2 DEF Alone, BilledOnce, BilledToOrderShift
<1> QED BY <1>1, <1>3, <1>4
        DEF SaleInv, Surrendered, OrdersHeld, Live, Filled, NewOrder, AtRegisters, Books, NoSaleLost,
            Ordering, Closing

(* The sales are kept. *)
LEMMA SalesKept == Spec => [](Parts /\ StopInv /\ SaleInv)
<1>1. Init => Parts /\ StopInv /\ SaleInv
  <2>1. ASSUME Init PROVE StopInv
    BY <2>1 DEF Init, StopInv, FreshLane, Placed, Owned, Closing
  <2> QED BY <2>1, InitParts, InitSales
<1>2. Parts /\ StopInv /\ SaleInv /\ [Next]_vars => (Parts /\ StopInv /\ SaleInv)'
  <2> SUFFICES ASSUME Parts, StopInv, SaleInv, [Next]_vars
               PROVE  Parts' /\ StopInv' /\ SaleInv'
    OBVIOUS
  <2>1. Parts' /\ StopInv'
    BY PollKeeps, CloseKeeps, CommandKeeps, SurroundingsKeep, StutterKeeps,
       PollStops, CloseStops, CommandStops, SurroundingsStops DEF Next
  <2>2. SaleInv'
    BY <2>1, PollSales, CloseSales, CommandSales, SurroundingsSales DEF Next
  <2> QED BY <2>1, <2>2
<1> QED BY <1>1, <1>2, PTL DEF Spec

(* While a pump armed by this service can still deliver, or holds fuel that is *)
(* not in the book, a restarted service finds the order in its journal.        *)
THEOREM OrdersSurvive == Spec => []OrderSurvivesCrash
<1>1. SaleInv => OrderSurvivesCrash
  BY DEF SaleInv, OrdersHeld, Live, Filled, Written, Holds, OrderSurvivesCrash
<1> QED BY <1>1, SalesKept, PTL

(* When this service gives up the registers of an ordered sale, whatever other *)
(* controllers, crashes and faults did before, the sale is in the book with    *)
(* its volume.                                                                 *)
THEOREM SalesSaved == Spec => []NoSaleLost
<1>1. SaleInv => NoSaleLost
  BY DEF SaleInv
<1> QED BY <1>1, SalesKept, PTL

(* On a card that answers to this service alone no ordered sale is billed      *)
(* twice, whatever acknowledgements, processes and writes were lost.           *)
THEOREM SalesBilledOnce ==
    ASSUME MaxForeign = 0
    PROVE  Spec => []BilledOnce
<1>1. SaleInv => BilledOnce
  BY DEF SaleInv, Alone
<1> QED BY <1>1, SalesKept, PTL

(* There an ordered sale is billed to the shift that was active when it was    *)
(* ordered, whatever handovers and crashes came in between.                    *)
THEOREM SalesOfTheirShift ==
    ASSUME MaxForeign = 0
    PROVE  Spec => []BilledToOrderShift
<1>1. SaleInv => BilledToOrderShift
  BY DEF SaleInv, Alone
<1> QED BY <1>1, SalesKept, PTL

----------------------------------------------------------------------------
(* On a card that answers to this service alone the lane implements the sale   *)
(* ledger, whatever the wire, the customers, the panel of the pump, the        *)
(* database and the crashes of the service do.                                 *)

Gone == {c.arm : c \in cleared}

(* What the ledger reads off a state. *)
LedgerFacts ==
    /\ \A c \in cleared : Metered(c.arm) = c.volume
    /\ \A h \in Hose : arm[h] \in Arm \ Gone => Metered(arm[h]) = pump[h].volume
    /\ \A a \in Arm \ Gone : (\A h \in Hose : arm[h] # a) => Metered(a) = 0
    /\ \A r \in recorded : r.volume > 0 => Billed(r.arm) = r.volume
    /\ \A a \in Arm : (\A r \in recorded : r.volume > 0 => r.arm # a) => Billed(a) = 0

LEMMA FactsOfSales ==
    ASSUME Parts, SaleInv, MaxForeign = 0
    PROVE  LedgerFacts
<1> PumpsOK /\ ArmsApart /\ Surrendered /\ Alone
  BY DEF Parts, SaleInv
<1>1. ASSUME NEW c \in cleared PROVE Metered(c.arm) = c.volume
  <2>1. (CHOOSE d \in cleared : d.arm = c.arm) = c
    BY DEF Surrendered
  <2> QED BY <2>1 DEF Metered
<1>2. ASSUME NEW h \in Hose, arm[h] \in Arm \ Gone PROVE Metered(arm[h]) = pump[h].volume
  <2>1. ~\E c \in cleared : c.arm = arm[h]
    BY <1>2 DEF Gone
  <2>2. (CHOOSE g \in Hose : arm[g] = arm[h]) = h
    BY <1>2 DEF ArmsApart, Arm
  <2> QED BY <2>1, <2>2 DEF Metered
<1>3. ASSUME NEW a \in Arm \ Gone, \A h \in Hose : arm[h] # a PROVE Metered(a) = 0
  BY <1>3 DEF Metered, Gone
<1>4. ASSUME NEW r \in recorded, r.volume > 0 PROVE Billed(r.arm) = r.volume
  <2> DEFINE rows == {q \in recorded : q.arm = r.arm /\ q.volume > 0}
  <2>1. rows = {r}
    BY <1>4 DEF Alone, BilledOnce
  <2>2. Billed(r.arm) = r.volume
    BY <2>1 DEF Billed
  <2> QED BY <2>2
<1>5. ASSUME NEW a \in Arm, \A r \in recorded : r.volume > 0 => r.arm # a PROVE Billed(a) = 0
  BY <1>5 DEF Billed
<1> QED BY <1>1, <1>2, <1>3, <1>4, <1>5 DEF LedgerFacts

(* The bill is what its rows say. *)
RowsOf(rows) == IF rows = {} THEN 0 ELSE (CHOOSE r \in rows : TRUE).volume

LEMMA SameRows ==
    ASSUME NEW b,
           {r \in recorded' : r.arm = b /\ r.volume > 0} = {r \in recorded : r.arm = b /\ r.volume > 0}
    PROVE  Billed(b)' = Billed(b)
<1>1. Billed(b) = RowsOf({r \in recorded : r.arm = b /\ r.volume > 0})
  BY DEF Billed, RowsOf
<1>2. Billed(b)' = RowsOf({r \in recorded' : r.arm = b /\ r.volume > 0})
  BY DEF Billed, RowsOf
<1> QED BY <1>1, <1>2

----------------------------------------------------------------------------
(* Steps that meter, bill and give up nothing. *)

Kept ==
    /\ UNCHANGED <<arm, cleared, recorded, credit>>
    /\ \A h \in Hose : pump'[h].volume = pump[h].volume

(* One pump moves without fuel. *)
LEMMA WireKept ==
    ASSUME PumpsOK, NEW h \in Hose,
           NEW q \in {pump[h], PumpStart(pump[h]), PumpStop(pump[h]), PumpLift(pump[h]),
                      PumpPreset(pump[h]), PumpHolster(pump[h]), PumpClear(pump[h])},
           Wire(h, q), UNCHANGED <<recorded, credit>>
    PROVE  Kept
<1>1. q.volume = pump[h].volume
  BY PumpKeepsSale DEF PumpsOK
<1> QED BY <1>1 DEF Wire, Kept, PumpsOK

(* A poll does not touch the registers. *)
LEMMA PollKept ==
    ASSUME PumpsOK, Poll
    PROVE  Kept
<1>1. UNCHANGED <<recorded, credit>>
  BY DEF Poll, BeginPoll, ProbeStop, ObserveNothing, ObserveIdle, ObserveArmed, ObserveFlow,
         ObserveFinished, ObserveLocalPreset, LiveReading, LiveReadingLost, diskVars
<1>2. \/ UNCHANGED pumpVars
      \/ \E h \in Hose : Wire(h, pump[h]) \/ Wire(h, PumpStop(pump[h]))
  BY DEF Poll, BeginPoll, ProbeStop, ObserveNothing, ObserveIdle, ObserveArmed, ObserveFlow,
         ObserveFinished, ObserveLocalPreset, LiveReading, LiveReadingLost
<1> QED BY <1>1, <1>2, WireKept DEF Kept, pumpVars

(* Nor does a close, but for the commit and the confirmation. *)
LEMMA CloseKept ==
    ASSUME PumpsOK, Close
    PROVE  Kept \/ CommitSale \/ \E sent, acked \in BOOLEAN : ConfirmWire(sent, acked)
BY DEF Close, ReadRegisters, IdentifySale, ReadFails, CommitFails, ConfirmSaved, ConfirmNotSaved,
       ReleaseIdle, Checkpoint, SaveOk, SaveFails, Kept, pumpVars, diskVars

(* Nor a command, but for the price and the arm. *)
LEMMA CommandKept ==
    ASSUME Parts, Command
    PROVE  \/ Kept
           \/ \E sent, acked \in BOOLEAN : SetOrder(sent, acked)
           \/ \E sent, heard \in BOOLEAN : ArmWire(sent, heard)
<1> PumpsOK /\ StepsSound
  BY DEF Parts
<1>1. ASSUME NEW h \in Hose, NEW sent \in BOOLEAN, StopWire(h, sent)
      PROVE  Kept
  BY <1>1, WireKept DEF StopWire, diskVars
<1>2. ASSUME NEW sent \in BOOLEAN, StartWire(sent)
      PROVE  Kept
  <2>1. job.net \in Hose
    BY <1>2 DEF StartWire, StepsSound, OnHose
  <2> QED BY <1>2, <2>1, WireKept DEF StartWire, diskVars
<1>3. ASSUME NEW h \in Hose, NEW a \in BOOLEAN, NEW b \in BOOLEAN, NEW c \in BOOLEAN,
             \/ StopCommand(a, b, c) \/ StopSave \/ DismissCommand \/ OrderCommand(h, a)
             \/ CheckReady(a) \/ TakeOrder \/ TakeOrderFails \/ ArmSaved \/ ArmNotSaved
      PROVE  Kept
  BY <1>3 DEF StopCommand, StopSave, DismissCommand, OrderCommand, CheckReady, TakeOrder,
              TakeOrderFails, ArmSaved, ArmNotSaved, SaveOk, SaveFails, SaveLate,
              Kept, pumpVars, diskVars
<1>4. \E h \in Hose : TRUE
  BY HoseAssumption
<1> QED BY <1>1, <1>2, <1>3, <1>4 DEF Command

(* Of the surroundings only the flow meters, and there is no other controller. *)
LEMMA SurroundingsKept ==
    ASSUME Parts, Surroundings \/ UNCHANGED vars, MaxForeign = 0
    PROVE  Kept \/ \E h \in Hose : FuelFlows(h)
<1> PumpsOK
  BY DEF Parts
<1>1. ASSUME NEW h \in Hose,
             CustomerLifts(h) \/ CustomerHolsters(h) \/ PumpStarts(h) \/ PumpCleared(h)
               \/ KeypadPreset(h)
      PROVE  Kept
  <2>1. UNCHANGED <<recorded, credit>>
    BY <1>1 DEF CustomerLifts, CustomerHolsters, PumpStarts, PumpCleared, KeypadPreset,
                Others, diskVars
  <2> QED BY <1>1, <2>1, WireKept
          DEF CustomerLifts, CustomerHolsters, PumpStarts, PumpCleared, KeypadPreset
<1>2. CASE NextShift \/ Crash \/ UNCHANGED vars
  BY <1>2 DEF NextShift, Crash, vars, pumpVars, diskVars, Kept
<1>3. ASSUME NEW h \in Hose, ForeignArm(h)
      PROVE  FALSE
  BY <1>3, BoundAssumption DEF ForeignArm, Parts, BoundsOK
<1> QED BY <1>1, <1>2, <1>3 DEF Surroundings

----------------------------------------------------------------------------
(* Every other step is a step of the ledger. *)

LedgerStep == [SL!Next]_SL!vars

(* The ledger does not see a step that meters nothing. *)
LEMMA KeptStep ==
    ASSUME Kept
    PROVE  LedgerStep
<1>1. ASSUME NEW a \in Arm PROVE Metered(a)' = Metered(a)
  <2>1. CASE \E h \in Hose : arm[h] = a
    <3>1. (CHOOSE h \in Hose : arm[h] = a) \in Hose
      BY <2>1
    <3> QED BY <2>1, <3>1 DEF Metered, Kept
  <2>2. CASE ~\E h \in Hose : arm[h] = a
    BY <2>2 DEF Metered, Kept
  <2> QED BY <2>1, <2>2
<1>2. ASSUME NEW a \in Arm PROVE Billed(a)' = Billed(a)
  BY DEF Billed, Kept
<1>3. cleared' = cleared /\ credit' = credit
  BY DEF Kept
<1> QED BY <1>1, <1>2, <1>3 DEF LedgerStep, SL!vars

(* A unit of fuel is a unit of the sale register. *)
LEMMA FlowVolume ==
    ASSUME NEW p \in PumpState
    PROVE  PumpFlow(p).volume = p.volume + 1
<1> DEFINE more == [p EXCEPT !.volume = @ + 1]
<1>1. more.volume = p.volume + 1 /\ PumpFinish(more).volume = more.volume
  BY DEF PumpState, PumpFinish
<1>2. PumpFlow(p) = IF more.volume = MaxVolume THEN PumpFinish(more) ELSE more
  BY Zenon DEF PumpFlow
<1> HIDE DEF more
<1> QED BY <1>1, <1>2

(* A unit of fuel is delivered to a sale that is neither billed nor given up. *)
LEMMA FlowStep ==
    ASSUME Parts, Parts', SaleInv, LedgerFacts, LedgerFacts', MaxForeign = 0,
           NEW h \in Hose, FuelFlows(h)
    PROVE  LedgerStep
<1> /\ PumpsOK /\ PumpsOK' /\ Books /\ Surrendered /\ Alone
  BY DEF Parts, SaleInv
<1>0. PumpArmed(pump[h]) /\ arm[h] \in Arm /\ arm[h] \in Ordered
  <2>1. PumpArmed(pump[h])
    BY DEF FuelFlows, PumpArmed
  <2> QED BY <2>1 DEF PumpsOK, PumpsSound, Alone
<1>1. PICK a \in Arm : a = arm[h] /\ a \in Ordered
  BY <1>0
<1>2. a \notin Gone
  BY <1>0, <1>1 DEF Surrendered, Gone
<1>3. /\ UNCHANGED <<arm, cleared, recorded, credit>>
      /\ pump' = [pump EXCEPT ![h] = PumpFlow(pump[h])]
  BY DEF FuelFlows, Wire, Others, diskVars
<1>4. PumpFlow(pump[h]).volume = pump[h].volume + 1
  BY FlowVolume DEF PumpsOK
<1>5. pump'[h].volume = pump[h].volume + 1 /\ \A g \in Hose \ {h} : pump'[g] = pump[g]
  BY <1>3, <1>4 DEF PumpsOK
<1>6. Gone' = Gone
  BY <1>3 DEF Gone
<1>7. Metered(a)' = Metered(a) + 1
  <2>1. Metered(a) = pump[h].volume
    BY <1>1, <1>2 DEF LedgerFacts
  <2>2. Metered(a)' = pump'[h].volume
    BY <1>1, <1>2, <1>3, <1>6 DEF LedgerFacts
  <2> QED BY <1>5, <2>1, <2>2
<1>8. ASSUME NEW b \in Arm, b # a PROVE Metered(b)' = Metered(b)
  <2>1. CASE \E g \in Hose : arm[g] = b
    <3>1. (CHOOSE g \in Hose : arm[g] = b) \in Hose \ {h}
      BY <1>1, <1>8, <2>1
    <3> QED BY <1>3, <1>5, <2>1, <3>1 DEF Metered
  <2>2. CASE ~\E g \in Hose : arm[g] = b
    BY <1>3, <2>2 DEF Metered
  <2> QED BY <2>1, <2>2
<1>9. Billed(a) = 0
  BY <1>0, <1>1 DEF LedgerFacts, Books
<1>10. ASSUME NEW b \in Arm PROVE Billed(b)' = Billed(b)
  BY <1>3 DEF Billed
<1>11. [b \in Arm |-> Metered(b)]' = [[b \in Arm |-> Metered(b)] EXCEPT ![a] = @ + 1]
  BY <1>1, <1>7, <1>8
<1>12. SL!Deliver(a)
  BY <1>1, <1>2, <1>3, <1>9, <1>10, <1>11 DEF SL!Deliver, Gone
<1> QED BY <1>1, <1>12 DEF LedgerStep, SL!Next

(* A commit bills its sale in full, or writes an empty one. *)
LEMMA CommitStep ==
    ASSUME Parts, Parts', SaleInv, LedgerFacts, LedgerFacts', MaxForeign = 0, CommitSale
    PROVE  LedgerStep
<1> /\ PumpsOK /\ Books /\ AtRegisters /\ ArmsApart /\ NoSaleLost /\ Alone /\ BookOK /\ LoopOK
    /\ lane \in LaneState
  BY DEF Parts, SaleInv, MemOK
<1>0. PICK a : a = job.arm
  OBVIOUS
<1> DEFINE row == [id |-> job.id, arm |-> job.arm, volume |-> job.volume, shift |-> SaleShift]
<1>1. /\ recorded' = recorded \cup {row} /\ credit' = Credited(credit, SaleShift, job.volume)
      /\ UNCHANGED <<pump, arm, cleared>> /\ at = "commit" /\ ~InBook(job.id)
  BY DEF CommitSale, pumpVars
<1>2. SaleShift \in Shift /\ job.volume \in Nat
  BY MaxVolumeAssumption DEF SaleShift, BookOK, LaneState, Owned, LoopOK, Job
<1>3. ASSUME NEW b \in Arm PROVE Metered(b)' = Metered(b)
  BY <1>1 DEF Metered
<1>4. row.arm = a /\ row.volume = job.volume
  BY <1>0
<1> HIDE DEF row
<1>5. CASE job.volume = 0
  <2>1. ASSUME NEW b \in Arm PROVE Billed(b)' = Billed(b)
    <3>1. {r \in recorded' : r.arm = b /\ r.volume > 0} = {r \in recorded : r.arm = b /\ r.volume > 0}
      BY <1>1, <1>4, <1>5
    <3> QED BY <3>1, SameRows
  <2>2. credit' = credit
    BY <1>1, <1>2, <1>5 DEF Credited, BookOK
  <2> QED BY <1>1, <1>3, <2>1, <2>2 DEF LedgerStep, SL!vars
<1>6. CASE job.volume > 0
  <2>1. /\ job.net \in Hose /\ arm[job.net] \in Ordered /\ a = arm[job.net]
        /\ pump[job.net].volume = job.volume /\ job.id = SaleKey(job.net, job.volume)
    BY <1>0, <1>1, <1>6 DEF AtRegisters, Parts, StepsSound, OnHose
  <2>2. a \in Arm
    BY <2>1, OrderedIsArm
  <2>3. \A r \in recorded : r.volume > 0 => r.arm # a
    BY <1>1, <1>6, <2>1 DEF Alone, InBook
  <2>4. a \notin Gone
    <3> SUFFICES ASSUME NEW c \in cleared, c.arm = a PROVE FALSE
      BY DEF Gone
    <3>1. c.volume > 0
      BY DEF PumpsOK
    <3> QED BY <2>1, <2>3, <3>1 DEF NoSaleLost
  <2>5. Metered(a) = job.volume
    BY <2>1, <2>2, <2>4 DEF LedgerFacts
  <2>6. Billed(a) = 0
    BY <2>2, <2>3 DEF LedgerFacts
  <2>7. Billed(a)' = job.volume
    <3>1. row \in recorded'
      BY <1>1
    <3> QED BY <1>4, <1>6, <3>1 DEF LedgerFacts
  <2>8. ASSUME NEW b \in Arm, b # a PROVE Billed(b)' = Billed(b)
    <3>1. {r \in recorded' : r.arm = b /\ r.volume > 0} = {r \in recorded : r.arm = b /\ r.volume > 0}
      BY <1>1, <1>4, <2>8
    <3> QED BY <3>1, SameRows
  <2>9. [b \in Arm |-> Billed(b)]' = [[b \in Arm |-> Billed(b)] EXCEPT ![a] = Metered(a)]
    BY <2>2, <2>5, <2>7, <2>8
  <2>10. credit' = IF SaleShift = 0 THEN credit ELSE [credit EXCEPT ![SaleShift] = @ + Metered(a)]
    BY <1>1, <2>5 DEF Credited
  <2>11. SL!Bill(a, SaleShift)
    BY <1>1, <1>3, <1>6, <2>2, <2>4, <2>5, <2>6, <2>9, <2>10 DEF SL!Bill, Gone
  <2> QED BY <1>2, <2>2, <2>11 DEF LedgerStep, SL!Next
<1> QED BY <1>2, <1>5, <1>6

(* Registers with fuel are given up when the sale is billed; a new sale starts *)
(* with nothing metered.                                                       *)
LEMMA ClearingLedger ==
    ASSUME Parts, Parts', SaleInv, SaleInv', LedgerFacts, LedgerFacts', MaxForeign = 0,
           NEW h \in Hose, UNCHANGED <<recorded, credit>>,
           cleared' = cleared \cup GiveUp(h),
           \A g \in Hose \ {h} : arm'[g] = arm[g] /\ pump'[g] = pump[g],
           pump'[h].volume \in {0, pump[h].volume},
           arm'[h] # arm[h] => pump'[h].volume = 0 /\ \A g \in Hose : arm[g] # arm'[h]
    PROVE  LedgerStep
<1> /\ PumpsOK /\ PumpsOK' /\ ArmsApart /\ Alone'
    /\ pump[h].volume \in Nat
  BY MaxVolumeAssumption DEF Parts, SaleInv, PumpsOK, PumpState
<1>0. PICK a : a = arm[h]
  OBVIOUS
<1>00. PICK c : c = [arm |-> a, volume |-> pump[h].volume]
  OBVIOUS
<1>1. pump[h].volume > 0 => /\ GiveUp(h) = {c} /\ a \in Arm /\ a # 0
                            /\ c.arm = a /\ c.volume = pump[h].volume
  BY <1>0, <1>00 DEF GiveUp, PumpsOK, PumpsSound
<1>2. pump[h].volume = 0 => cleared' = cleared
  BY DEF GiveUp
<1>3. pump[h].volume > 0 => Metered(a) = pump[h].volume
  <2> SUFFICES ASSUME pump[h].volume > 0 PROVE Metered(a) = pump[h].volume
    OBVIOUS
  <2>1. CASE a \in Gone
    <3>1. PICK d \in cleared : d.arm = a
      BY <2>1 DEF Gone
    <3>2. pump[h].volume = d.volume
      BY <1>0, <3>1 DEF SaleInv, Surrendered
    <3> QED BY <3>1, <3>2 DEF LedgerFacts
  <2>2. CASE a \notin Gone
    BY <1>0, <1>1, <2>2 DEF LedgerFacts
  <2> QED BY <2>1, <2>2
<1>4. Gone' = IF pump[h].volume > 0 THEN Gone \cup {a} ELSE Gone
  BY <1>1, <1>2 DEF Gone
<1>5. ASSUME NEW b \in Arm PROVE Metered(b)' = Metered(b)
  <2>1. CASE b \in Gone
    <3>1. PICK d \in cleared : d.arm = b
      BY <2>1 DEF Gone
    <3>2. d \in cleared'
      OBVIOUS
    <3> QED BY <3>1, <3>2 DEF LedgerFacts
  <2>2. CASE b \notin Gone /\ b \in Gone'
    <3>1. pump[h].volume > 0 /\ b = a /\ c \in cleared'
      BY <1>1, <1>4, <2>2
    <3>2. Metered(c.arm)' = c.volume
      BY <3>1 DEF LedgerFacts
    <3> QED BY <1>1, <1>3, <3>1, <3>2
  <2>3. CASE b \notin Gone'
    <3>1. b \notin Gone /\ (b = a => pump[h].volume = 0)
      BY <1>4, <2>3
    <3>2. CASE \E g \in Hose \ {h} : arm[g] = b
      <4>1. PICK g \in Hose \ {h} : arm[g] = b
        BY <3>2
      <4>2. Metered(b) = pump[g].volume /\ Metered(b)' = pump'[g].volume
        BY <2>3, <3>1, <4>1 DEF LedgerFacts
      <4> QED BY <4>1, <4>2
    <3>3. CASE ~\E g \in Hose \ {h} : arm[g] = b
      <4>1. Metered(b) = 0
        BY <1>0, <3>1, <3>3 DEF LedgerFacts
      <4>2. CASE arm'[h] = b
        <5>1. pump'[h].volume = 0
          <6>1. CASE b = a
            BY <3>1, <6>1
          <6>2. CASE b # a
            BY <1>0, <4>2, <6>2
          <6> QED BY <6>1, <6>2
        <5>2. Metered(b)' = pump'[h].volume
          BY <2>3, <4>2 DEF LedgerFacts
        <5> QED BY <4>1, <5>1, <5>2
      <4>3. CASE arm'[h] # b
        <5>1. \A g \in Hose : arm'[g] # b
          BY <3>3, <4>3
        <5>2. Metered(b)' = 0
          BY <2>3, <5>1 DEF LedgerFacts
        <5> QED BY <4>1, <5>2
      <4> QED BY <4>2, <4>3
    <3> QED BY <3>2, <3>3
  <2> QED BY <2>1, <2>2, <2>3
<1>6. ASSUME NEW b \in Arm PROVE Billed(b)' = Billed(b)
  BY DEF Billed
<1>7. CASE pump[h].volume = 0
  BY <1>2, <1>5, <1>6, <1>7 DEF LedgerStep, SL!vars
<1>8. CASE pump[h].volume > 0
  <2>1. c \in cleared' /\ c.arm \in Ordered'
    BY <1>1, <1>8 DEF Alone
  <2>2. PICK r \in recorded' : r.arm = c.arm /\ r.volume = c.volume
    BY <2>1 DEF SaleInv, NoSaleLost
  <2>3. Billed(a) = Metered(a)
    BY <1>1, <1>3, <1>8, <2>2 DEF LedgerFacts
  <2>4. {d.arm : d \in cleared'} = {d.arm : d \in cleared} \cup {a}
    BY <1>4, <1>8 DEF Gone
  <2>5. SL!GiveUp(a)
    BY <1>1, <1>5, <1>6, <1>8, <2>3, <2>4 DEF SL!GiveUp
  <2> QED BY <1>1, <1>8, <2>5 DEF LedgerStep, SL!Next
<1> QED BY <1>7, <1>8

(* The confirmation, the price and the arm. *)
LEMMA WiresLedger ==
    ASSUME Parts, Parts', SaleInv, SaleInv', LedgerFacts, LedgerFacts', MaxForeign = 0,
           NEW sent \in BOOLEAN, NEW heard \in BOOLEAN,
           ConfirmWire(sent, heard) \/ SetOrder(sent, heard) \/ ArmWire(sent, heard)
    PROVE  LedgerStep
<1> PumpsOK /\ PumpsOK' /\ ArmsApart /\ job.net \in Hose /\ pump[job.net] \in PumpState
  <2>1. job.net \in Hose
    BY DEF ConfirmWire, SetOrder, ArmWire, Parts, StepsSound, OnHose
  <2> QED BY <2>1 DEF Parts, PumpsOK, SaleInv
<1>1. UNCHANGED <<recorded, credit>>
  BY DEF ConfirmWire, SetOrder, ArmWire, diskVars
<1>2. CASE UNCHANGED pumpVars
  BY <1>1, <1>2, KeptStep DEF Kept, pumpVars
<1>3. ASSUME NEW q \in {PumpConfirm(pump[job.net]), PumpSetPrice(pump[job.net])},
             WireClearing(job.net, q)
      PROVE  LedgerStep
  <2>1. q.volume \in {0, pump[job.net].volume}
    BY PumpKeepsSale, PumpRegisters DEF PumpSetPrice
  <2>2. /\ pump'[job.net] = q /\ \A g \in Hose \ {job.net} : pump'[g] = pump[g]
        /\ arm' = arm /\ cleared' = cleared \cup GiveUp(job.net)
    BY <1>3 DEF WireClearing, PumpsOK
  <2> QED BY <1>1, <2>1, <2>2, ClearingLedger
<1>4. ASSUME NEW order, PumpReady(pump[job.net]), ArmHose(job.net, order),
             cleared' = cleared \cup GiveUp(job.net)
      PROVE  LedgerStep
  <2>1. PumpAuthorize(pump[job.net]).volume = 0
    BY <1>4, AuthorizeSerial
  <2>2. /\ pump'[job.net] = PumpAuthorize(pump[job.net]) /\ arm'[job.net] = arms + 1
        /\ \A g \in Hose \ {job.net} : pump'[g] = pump[g] /\ arm'[g] = arm[g]
    BY <1>4 DEF ArmHose, PumpsOK
  <2>3. \A g \in Hose : arm[g] # arms + 1
    BY DEF ArmsApart, PumpsOK, Arm
  <2> QED BY <1>1, <1>4, <2>1, <2>2, <2>3, ClearingLedger
<1> QED BY <1>2, <1>3, <1>4 DEF ConfirmWire, SetOrder, ArmWire

(* On a card that answers to this service alone every step of the lane is a    *)
(* step of the sale ledger or none: every sale is metered, billed once for     *)
(* exactly what was metered, credited to one shift in the same step, and its   *)
(* registers are given up only when nothing is left to bill.                   *)
THEOREM LaneKeepsLedger ==
    ASSUME MaxForeign = 0
    PROVE  Spec => LedgerSpec
<1> DEFINE Inv == Parts /\ SaleInv
<1>1. Spec => []Inv
  BY SalesKept, PTL
<1>2. Inv => LedgerFacts
  BY FactsOfSales
<1>3. Init => SL!Init
  <2> SUFFICES ASSUME Init PROVE SL!Init
    OBVIOUS
  <2>1. arm = [h \in Hose |-> 0] /\ cleared = {} /\ recorded = {}
    BY DEF Init
  <2>2. \A a \in Arm : a # 0
    BY DEF Arm
  <2>3. \A a \in Arm : Metered(a) = 0 /\ Billed(a) = 0
    BY <2>1, <2>2 DEF Metered, Billed
  <2> QED BY <2>1, <2>3 DEF Init, SL!Init
<1>4. Inv /\ Inv' /\ LedgerFacts /\ LedgerFacts' /\ [Next]_vars => [SL!Next]_SL!vars
  <2> SUFFICES ASSUME Parts, Parts', SaleInv, SaleInv', LedgerFacts, LedgerFacts', [Next]_vars
               PROVE  LedgerStep
    BY DEF LedgerStep
  <2>1. CASE Poll
    BY <2>1, PollKept, KeptStep DEF Parts
  <2>2. CASE Close
    BY <2>2, CloseKept, KeptStep, CommitStep, WiresLedger DEF Parts
  <2>3. CASE Command
    BY <2>3, CommandKept, KeptStep, WiresLedger
  <2>4. CASE Surroundings \/ UNCHANGED vars
    BY <2>4, SurroundingsKept, KeptStep, FlowStep
  <2> QED BY <2>1, <2>2, <2>3, <2>4 DEF Next
<1> QED BY <1>1, <1>2, <1>3, <1>4, PTL DEF Spec, LedgerSpec, SL!Spec
=============================================================================
