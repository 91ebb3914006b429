---------------------------- MODULE BlueSkyProofs ----------------------------
(***************************************************************************)
(* Theorems about one position of the BlueSky driver, for any hoses, doses *)
(* and budgets.                                                            *)
(***************************************************************************)
EXTENDS BlueSkyLane, FiniteSetTheorems, NaturalsInduction, TLAPS

(* Turns of customers that a bill has ended.  Every proof expands what is meant. *)
Turns == used \subseteq Hose /\ outlived \subseteq used

USE DEF Turns, Held

----------------------------------------------------------------------------
(* What is in the memory of the loop. *)

Seen == [lifted : BOOLEAN, busy : BOOLEAN, keyed : BOOLEAN]

Job ==
    [hose : Hose \cup {None}, target : Dose, seen : [Hose -> Seen \cup {None}],
     todo : SUBSET Hose, volume : Reading, settled : BOOLEAN, all : BOOLEAN]

TypesOK ==
    /\ pump \in [Hose -> PumpState] /\ lane \in LaneState /\ left \in Budget
    /\ at \in Step /\ job \in Job
    /\ bill \in [Fill -> Seq(Reading)]
    /\ fill \in [Hose -> {0} \cup Fill] /\ fills \in 0 .. MaxFills
    /\ claim \in [Fill -> {"none", "ordered", "seen", "misjudged"}]
    /\ lost \subseteq Fill /\ Turns

(* A lane without a sale knows nothing of one. *)
LaneOK(l) ==
    /\ l.reserved = None \/ l.tx = None
    /\ l.completed # None => l.reserved = None /\ l.tx = None
    /\ l.tx = None /\ l.completed = None => ~l.stopAck /\ ~l.flowSeen /\ l.candidate = None

(* An order that may still take a fill. *)
Pending ==
    at \in {"check", "side"} \/ (lane.reserved # None /\ at # "recheck")

(* The fills that may still come are those of the bound. *)
FillsLeft ==
    fills + left.orders + left.keypad + (IF Pending THEN 1 ELSE 0) <= MaxFills

(* Fills are numbered as they come, and a register belongs to one of them. *)
Registers ==
    /\ \A h \in Hose : fill[h] <= fills
    /\ \A g, h \in Hose : fill[g] = fill[h] /\ fill[h] # 0 => g = h
    /\ \A f \in Fill : f > fills => claim[f] = "none" /\ bill[f] = <<>>

(* A hose off the hook, and where its fill ends. *)
PumpOK(h) ==
    /\ pump[h].phase \in {"ready", "on", "held"} => pump[h].lifted
    /\ pump[h].phase \in {"dosed", "ready"} => pump[h].volume = 0
    /\ pump[h].phase \in {"ready", "on", "held", "ending"} => pump[h].volume <= MaxVolume
    /\ pump[h].phase \in {"dosed", "ready", "on", "held", "ending"} => fill[h] # 0
    /\ pump[h].phase \in {"ready", "on", "held"} /\ pump[h].dose # None =>
          pump[h].volume < pump[h].dose

----------------------------------------------------------------------------
(* The fill of a register. *)

(* No fill of the keypad follows another. *)
LoneKeypad == \A b \in Budgets : b.keypad <= 1

Ordered(h) == fill[h] # 0 /\ claim[fill[h]] = "ordered"

(* A fill that no fill of the keypad can put out of the register. *)
Sure(h) ==
    /\ fill[h] # 0
    /\ \/ claim[fill[h]] = "ordered"
       \/ LoneKeypad /\ claim[fill[h]] # "misjudged"

(* The fill has been stopped, or is over. *)
Over(h) == pump[h].phase \in {"off", "keyed", "dosed", "ending"}
Ended(h) == pump[h].phase \in {"off", "keyed", "dosed"}

Unsold(h) == fill[h] # 0 /\ (Sure(h) => bill[fill[h]] = <<>>)

(* The hose is out of reach of its keypad. *)
KeypadOver(h) ==
    /\ Ordered(h) => pump[h].remote
    /\ LoneKeypad /\ fill[h] # 0 => pump[h].remote \/ left.keypad = 0

SaleOK(h) ==
    /\ Sure(h) /\ bill[fill[h]] # <<>> => Ended(h) /\ bill[fill[h]] = <<pump[h].volume>>
    /\ lane.tx = h => fill[h] # 0
    /\ Sure(h) /\ lane.tx = h =>
          /\ bill[fill[h]] = <<>>
          /\ claim[fill[h]] \in {"ordered", "seen"}
          /\ claim[fill[h]] = "seen" => lane.target = None
          /\ lane.stopAck => Over(h)
    /\ Sure(h) /\ claim[fill[h]] \in {"ordered", "seen"} => lane.tx = h \/ bill[fill[h]] # <<>>
    /\ Ordered(h) /\ lane.tx = h => pump[h].dose = lane.target

Books ==
    /\ LoneKeypad => left.keypad <= 1
    /\ LoneKeypad => lost = {}
    /\ LoneKeypad => \A f \in Fill : claim[f] # "misjudged" => Len(bill[f]) <= 1

(* The hose of a billed sale that still hangs out. *)
UsedOK == \A h \in Held : lane.completed = h /\ pump[h].lifted

----------------------------------------------------------------------------
(* Where the loop is. *)

(* What a status said of a hose that has not changed since. *)
Saw(h, st) ==
    /\ st.busy => Unsold(h)
    /\ ~st.lifted /\ lane.tx = h /\ Sure(h) => Over(h)
    /\ ~st.lifted => h \notin Held

AskOK ==
    /\ job.todo # {}
    /\ \A h \in Hose : job.seen[h] # None => Saw(h, job.seen[h])

OrderFree == lane.tx = None /\ lane.reserved = None /\ lane.completed = None /\ job.hose # None

Dosed(h) ==
    /\ pump[h].phase = "dosed" /\ pump[h].remote /\ pump[h].dose = lane.target
    /\ fill[h] # 0 /\ claim[fill[h]] = "none" /\ bill[fill[h]] = <<>>

Ending(h) ==
    /\ lane.tx = h /\ h # None /\ job.seen[h] # None
    /\ Sure(h) /\ ~job.seen[h].lifted => Over(h)

Confirming(h) ==
    Sure(h) /\ job.settled
            /\ (~job.seen[h].lifted \/ lane.stopAck \/ TargetReached(lane, job.volume)) =>
        Ended(h) /\ pump[h].volume = job.volume

PlaceOK ==
    /\ at = "ask" => AskOK
    /\ at = "clear" => job.hose # None
    /\ at \in {"check", "side"} => OrderFree
    /\ at \in {"side", "each"} => job.todo # {}
    /\ at = "prepare" => lane.reserved # None
    /\ at \in {"dose", "recheck"} => lane.reserved = job.hose /\ job.hose # None
    /\ at = "recheck" => Dosed(job.hose)
    /\ at \in {"start", "stop"} => lane.tx = job.hose /\ job.hose # None
    /\ at = "start" => ~lane.stopAck
    /\ at = "live" => /\ job.hose # None /\ lane.tx \in {None, job.hose}
                      /\ lane.completed = None /\ Unsold(job.hose)
    /\ at \in {"final", "after"} => Ending(job.hose)
    /\ at = "after" => Confirming(job.hose)
    /\ at = "commit" =>
          /\ lane.tx = job.hose /\ job.hose # None /\ lane.candidate # None
          /\ Sure(job.hose) => Ended(job.hose) /\ pump[job.hose].volume = lane.candidate

HoseOK(h) == PumpOK(h) /\ KeypadOver(h) /\ SaleOK(h)

BlueInv ==
    /\ TypesOK /\ LaneOK(lane) /\ FillsLeft /\ Registers
    /\ \A h \in Hose : HoseOK(h)
    /\ Books /\ UsedOK /\ PlaceOK
----------------------------------------------------------------------------
(* Facts about the operators of the model. *)

(* The first hose of a set is one of it. *)
LEMMA FirstIsIn ==
    ASSUME NEW S \in SUBSET Hose, S # {}
    PROVE  First(S) \in S
<1> DEFINE R == OpToRel(<, Nat)
<1> S \subseteq Nat
  BY Zenon, HoseAssumption
<1>1. IsWellFoundedOn(R, Nat)
  BY NatLessThanWellFounded
<1>2. \A x, y \in Nat : <<x, y>> \in R <=> x < y
  BY DEF OpToRel
<1> HIDE DEF R
<1>3. PICK x \in S : \A y \in S : ~(<<y, x>> \in R)
  BY <1>1, WFMin
<1>4. \A y \in S : x <= y
  <2> TAKE y \in S
  <2>1. x \in Nat /\ y \in Nat
    OBVIOUS
  <2>2. ~(y < x)
    BY <1>2, <1>3, <2>1
  <2> QED BY <2>1, <2>2
<1>5. (CHOOSE h \in S : \A g \in S : h <= g) \in S
  BY <1>3, <1>4, Zenon
<1> QED BY <1>5 DEF First

LEMMA ReadingsAreNat == Reading \subseteq Nat /\ 0 \in Reading
BY MaxVolumeAssumption DEF Reading

LEMMA NoneIsApart == None \notin Hose /\ None \notin Reading /\ None \in Dose
<1>1. None \notin Hose
  BY Zenon, HoseAssumption, NoneAssumption
<1>2. None \notin Reading
  BY Zenon, ReadingsAreNat, NoneAssumption
<1> QED BY <1>1, <1>2 DEF Dose

LEMMA NoJobIsJob == NoJob \in Job
BY ReadingsAreNat, NoneIsApart DEF NoJob, Job, NoSeen

(* What the loop's updates leave of a lane. *)
LEMMA ClearedLane ==
    ASSUME NEW l \in LaneState
    PROVE  /\ Cancelled(l) \in LaneState /\ Cleared(l) \in LaneState
           /\ Cancelled(l).tx = l.tx /\ Cancelled(l).target = l.target
           /\ Cancelled(l).reserved = None /\ Cancelled(l).completed = None
           /\ ~Cancelled(l).stopAck /\ ~Cancelled(l).flowSeen /\ Cancelled(l).candidate = None
           /\ Cleared(l).tx = l.tx /\ Cleared(l).target = l.target
           /\ Cleared(l).reserved = l.reserved /\ Cleared(l).completed = None
           /\ ~Cleared(l).stopAck /\ ~Cleared(l).flowSeen /\ Cleared(l).candidate = None
BY ReadingsAreNat DEF Cancelled, Cleared, LaneState, Status

LEMMA IdleLane ==
    ASSUME NEW l \in LaneState
    PROVE  /\ Idle(l) \in LaneState
           /\ Idle(l).tx = None /\ Idle(l).reserved = None /\ Idle(l).completed = l.completed
           /\ Idle(l).target = l.target /\ Idle(l).stopAck = l.stopAck
           /\ Idle(l).flowSeen = l.flowSeen /\ Idle(l).candidate = l.candidate
BY ReadingsAreNat DEF Idle, LaneState, Status

LEMMA ReservedLane ==
    ASSUME NEW l \in LaneState, NEW h \in Hose, NEW t \in Dose
    PROVE  /\ Reserved(l, h, t) \in LaneState
           /\ Reserved(l, h, t).tx = l.tx /\ Reserved(l, h, t).reserved = h
           /\ Reserved(l, h, t).completed = None /\ Reserved(l, h, t).target = t
           /\ ~Reserved(l, h, t).stopAck /\ ~Reserved(l, h, t).flowSeen
           /\ Reserved(l, h, t).candidate = None
BY ReadingsAreNat DEF Reserved, Cleared, LaneState, Status

LEMMA BegunLane ==
    ASSUME NEW l \in LaneState, NEW h \in Hose
    PROVE  /\ Begun(l, h) \in LaneState
           /\ Begun(l, h).tx = h /\ Begun(l, h).reserved = None
           /\ Begun(l, h).completed = l.completed /\ Begun(l, h).target = l.target
           /\ Begun(l, h).stopAck = l.stopAck
BY DEF Begun, LaneState, Status

LEMMA LiveLane ==
    ASSUME NEW l \in LaneState, NEW h \in Hose, NEW heard \in BOOLEAN, NEW v \in Reading,
           l.tx = None \/ l.reserved = None
    PROVE  /\ Live(l, h, heard, v) \in LaneState
           /\ Live(l, h, heard, v).tx = IF l.tx = None THEN h ELSE l.tx
           /\ Live(l, h, heard, v).reserved = None
           /\ Live(l, h, heard, v).completed = l.completed
           /\ Live(l, h, heard, v).target = l.target /\ Live(l, h, heard, v).stopAck = l.stopAck
<1> DEFINE flow == l.flowSeen \/ heard
           pace == IF l.status = "Delivering" THEN l.paced ELSE FALSE
           vol  == IF heard THEN v ELSE l.volume
           seen == [l EXCEPT !.status = "Delivering", !.nozzle = h, !.candidate = None,
                             !.paced = pace, !.flowSeen = flow, !.volume = vol]
<1>1. flow \in BOOLEAN /\ pace \in BOOLEAN /\ vol \in Reading
  BY DEF LaneState
<1>2. /\ Live(l, h, heard, v) = IF l.tx = None
          THEN [seen EXCEPT !.tx = h, !.reserved = None, !.stopReq = TRUE] ELSE seen
  BY DEF Live
<1> HIDE DEF flow, pace, vol
<1>3. /\ seen \in LaneState /\ seen.tx = l.tx /\ seen.reserved = l.reserved
      /\ seen.completed = l.completed /\ seen.target = l.target /\ seen.stopAck = l.stopAck
  BY <1>1 DEF LaneState, Status
<1> HIDE DEF seen
<1>4. CASE l.tx = None
  <2>1. Live(l, h, heard, v) = [seen EXCEPT !.tx = h, !.reserved = None, !.stopReq = TRUE]
    BY <1>2, <1>4
  <2> QED BY <1>3, <1>4, <2>1 DEF LaneState
<1>5. CASE l.tx # None
  BY <1>2, <1>3, <1>5
<1> QED BY <1>4, <1>5

LEMMA StopIntentLane ==
    ASSUME NEW l \in LaneState
    PROVE  /\ StopIntent(l) \in LaneState
           /\ StopIntent(l).tx = l.tx /\ StopIntent(l).reserved = l.reserved
           /\ StopIntent(l).completed = l.completed /\ StopIntent(l).target = l.target
           /\ StopIntent(l).stopAck = l.stopAck /\ StopIntent(l).flowSeen = l.flowSeen
BY DEF StopIntent, LaneState

LEMMA CompletedLane ==
    ASSUME NEW l \in LaneState, l.candidate # None
    PROVE  /\ Completed(l) \in LaneState
           /\ Completed(l).tx = None /\ Completed(l).reserved = None
           /\ Completed(l).completed = l.tx /\ Completed(l).target = l.target
BY DEF Completed, LaneState, Status

LEMMA FreshIsLane == FreshLane \in LaneState
BY ReadingsAreNat, NoneIsApart DEF FreshLane, LaneState, Status

----------------------------------------------------------------------------
(* Steps that stay within the memory of the loop. *)

(* The lane goes on with the same sale. *)
Keeps(l) ==
    /\ l \in LaneState /\ LaneOK(l) /\ l.tx = lane.tx
    /\ lane.tx # None => l.target = lane.target /\ l.stopAck = lane.stopAck
    /\ Held = {} \/ l.completed = lane.completed

LEMMA KeepsItself == ASSUME BlueInv PROVE Keeps(lane)
BY DEF BlueInv, TypesOK, Keeps

(* While an order waits for its lift no hose is left from a sale. *)
LEMMA UnusedLane ==
    ASSUME BlueInv, lane.completed = None
    PROVE  Held = {}
BY NoneIsApart DEF BlueInv, TypesOK, UsedOK

LEMMA KeepsCancelled ==
    ASSUME BlueInv, lane.reserved # None
    PROVE  Keeps(Cancelled(lane))
<1>1. lane \in LaneState /\ lane.tx = None /\ lane.completed = None
  BY DEF BlueInv, TypesOK, LaneOK
<1> QED BY <1>1, ClearedLane, UnusedLane DEF Keeps, LaneOK

LEMMA KeepsIdle ==
    ASSUME NEW l, Keeps(l), l.tx = None
    PROVE  Keeps(Idle(l))
BY IdleLane DEF Keeps, LaneOK

LEMMA KeepsMarks ==
    ASSUME NEW l, Keeps(l), NEW s \in Status, NEW h \in Hose
    PROVE  /\ Keeps([l EXCEPT !.status = s])
           /\ Keeps([l EXCEPT !.status = s, !.nozzle = h])
           /\ Keeps([l EXCEPT !.candidate = None])
           /\ Keeps([l EXCEPT !.candidate = None, !.status = s])
           /\ l.tx # None => \A v \in Reading : Keeps([l EXCEPT !.status = s, !.candidate = v])
<1>1. ASSUME NEW m \in {[l EXCEPT !.status = s], [l EXCEPT !.status = s, !.nozzle = h],
                        [l EXCEPT !.candidate = None], [l EXCEPT !.candidate = None, !.status = s]}
      PROVE  Keeps(m)
  <2>1. /\ m \in LaneState /\ m.tx = l.tx /\ m.reserved = l.reserved /\ m.target = l.target
        /\ m.stopAck = l.stopAck /\ m.flowSeen = l.flowSeen /\ m.completed = l.completed
        /\ m.candidate \in {l.candidate, None}
    BY DEF Keeps, LaneState
  <2> QED BY <2>1 DEF Keeps, LaneOK
<1>2. ASSUME l.tx # None, NEW v \in Reading
      PROVE  Keeps([l EXCEPT !.status = s, !.candidate = v])
  <2> DEFINE m == [l EXCEPT !.status = s, !.candidate = v]
  <2>1. /\ m \in LaneState /\ m.tx = l.tx /\ m.reserved = l.reserved /\ m.target = l.target
        /\ m.stopAck = l.stopAck /\ m.completed = l.completed
    BY DEF Keeps, LaneState
  <2> HIDE DEF m
  <2>2. Keeps(m)
    BY <1>2, <2>1 DEF Keeps, LaneOK
  <2> QED BY <2>2 DEF m
<1> QED BY <1>1, <1>2

(* What is said of a fill when nothing happens to it. *)
LEMMA SameFill ==
    ASSUME UNCHANGED <<pump, bill, fill, claim>>
    PROVE  \A h \in Hose :
              /\ Sure(h)' = Sure(h) /\ Ordered(h)' = Ordered(h) /\ Over(h)' = Over(h)
              /\ Ended(h)' = Ended(h) /\ Unsold(h)' = Unsold(h)
BY DEF Sure, Ordered, Over, Ended, Unsold, LoneKeypad

LEMMA LoopStep ==
    ASSUME BlueInv, UNCHANGED <<pump, bill, ghosts, used, outlived>>, Keeps(lane'),
           job' \in Job, at' \in Step, left' \in Budget, left'.keypad = left.keypad,
           FillsLeft', PlaceOK'
    PROVE  BlueInv'
<1> USE DEF ghosts
<1>1. TypesOK'
  BY DEF BlueInv, TypesOK, Keeps
<1>2. LaneOK(lane)' /\ Registers'
  BY DEF BlueInv, Keeps, Registers, LaneOK
<1>3. ASSUME NEW h \in Hose PROVE HoseOK(h)'
  <2>1. HoseOK(h)
    BY DEF BlueInv
  <2>2. PumpOK(h)'
    BY <2>1 DEF HoseOK, PumpOK
  <2>3. KeypadOver(h)'
    BY <2>1, SameFill DEF HoseOK, KeypadOver, LoneKeypad
  <2>4. lane'.tx = lane.tx /\ (lane.tx = h => lane'.target = lane.target /\ lane'.stopAck = lane.stopAck)
    BY NoneIsApart DEF Keeps
  <2>5. SaleOK(h)'
    BY <2>1, <2>4, SameFill DEF HoseOK, SaleOK
  <2> QED BY <2>2, <2>3, <2>5 DEF HoseOK
<1>4. Books'
  BY DEF BlueInv, Books, LoneKeypad
<1>5. UsedOK'
  BY DEF BlueInv, UsedOK, Keeps
<1> QED BY <1>1, <1>2, <1>3, <1>4, <1>5 DEF BlueInv

LEMMA MemoryStep ==
    ASSUME BlueInv, Memory, Keeps(lane'), job' \in Job, at' \in Step, Pending' => Pending, PlaceOK'
    PROVE  BlueInv'
<1>1. UNCHANGED <<pump, bill, ghosts, used, outlived, left, fills>>
  BY DEF Memory, ghosts
<1>2. left \in Budget /\ fills \in 0 .. MaxFills
  BY DEF BlueInv, TypesOK
<1>3. FillsLeft'
  BY <1>1, <1>2, MaxFillsAssumption DEF BlueInv, FillsLeft, Budget
<1> QED BY <1>1, <1>2, <1>3, LoopStep DEF ghosts

LEMMA AtRest ==
    ASSUME Rest
    PROVE  at' = "rest" /\ at' \in Step /\ job' \in Job /\ PlaceOK'
           /\ (Pending' => lane'.reserved # None)
BY NoJobIsJob DEF Rest, Goto, PlaceOK, Pending, Step

LEMMA RestStep ==
    ASSUME BlueInv, Memory, Keeps(lane'), Rest, lane'.reserved # None => Pending
    PROVE  BlueInv'
BY AtRest, MemoryStep

LEMMA JobsAreJobs ==
    ASSUME NEW h \in Hose
    PROVE  /\ [NoJob EXCEPT !.hose = h] \in Job /\ [NoJob EXCEPT !.hose = h].hose = h
           /\ [NoJob EXCEPT !.todo = Hose] \in Job /\ [NoJob EXCEPT !.todo = Hose].todo = Hose
           /\ [NoJob EXCEPT !.todo = Hose].seen = NoSeen
BY NoJobIsJob DEF Job, NoJob

----------------------------------------------------------------------------
(* A poll of the position. *)

LEMMA BeginPollKeeps ==
    ASSUME BlueInv, NEW expired \in BOOLEAN, BeginPoll(expired)
    PROVE  BlueInv'
<1>1. Keeps(lane')
  BY KeepsItself, KeepsCancelled DEF BeginPoll
<1>2. at' = "ask" /\ job' = [NoJob EXCEPT !.todo = Hose] /\ Memory
  BY DEF BeginPoll, Goto
<1>3. job' \in Job /\ job'.todo = Hose /\ job'.seen = NoSeen
  BY <1>2, HoseAssumption, JobsAreJobs, Zenon
<1>4. AskOK'
  BY <1>3, HoseAssumption DEF AskOK, NoSeen
<1>5. PlaceOK'
  BY <1>2, <1>4 DEF PlaceOK
<1>6. Pending' => Pending
  BY <1>2, ClearedLane DEF Pending, BeginPoll, BlueInv, TypesOK
<1> QED BY <1>1, <1>2, <1>3, <1>5, <1>6, MemoryStep DEF Step

(* The hose asked now is one that is left to ask, and its status is true of it. *)
LEMMA HeardSaw ==
    ASSUME BlueInv, at = "ask", NEW heard \in BOOLEAN
    PROVE  /\ First(job.todo) \in job.todo /\ job.todo \subseteq Hose
           /\ Heard(heard) \in [Hose -> Seen \cup {None}]
           /\ \A h \in Hose : Heard(heard)[h] # None => Saw(h, Heard(heard)[h])
<1>1. AskOK /\ job \in Job
  BY DEF BlueInv, TypesOK, PlaceOK
<1>2. First(job.todo) \in job.todo /\ job.todo \subseteq Hose
  BY <1>1, FirstIsIn DEF AskOK, Job
<1>3. PICK g \in Hose : g = First(job.todo)
  BY <1>2
<1>4. pump[g] \in PumpState /\ PumpStatus(pump[g]) \in Seen
  BY DEF BlueInv, TypesOK, PumpStatus, PumpState, Seen
<1>5. Saw(g, PumpStatus(pump[g]))
  <2>1. HoseOK(g) /\ UsedOK
    BY DEF BlueInv
  <2>2. pump[g].phase = "on" => Unsold(g)
    BY <2>1 DEF HoseOK, PumpOK, SaleOK, Unsold, Ended
  <2>3. ~pump[g].lifted => Over(g)
    BY <1>4, <2>1 DEF HoseOK, PumpOK, Over, PumpState
  <2> QED BY <2>1, <2>2, <2>3 DEF Saw, PumpStatus, UsedOK
<1>6. job.seen \in [Hose -> Seen \cup {None}]
  BY <1>1 DEF Job
<1>7. Heard(heard) = [job.seen EXCEPT ![g] = IF heard THEN PumpStatus(pump[g]) ELSE None]
  BY <1>3 DEF Heard
<1>8. Heard(heard) \in [Hose -> Seen \cup {None}]
  BY <1>4, <1>6, <1>7
<1>9. ASSUME NEW h \in Hose, Heard(heard)[h] # None PROVE Saw(h, Heard(heard)[h])
  <2>1. CASE h = g
    BY <1>5, <1>6, <1>7, <1>9, <2>1
  <2>2. CASE h # g
    BY <1>1, <1>6, <1>7, <1>9, <2>2 DEF AskOK
  <2> QED BY <2>1, <2>2
<1> QED BY <1>2, <1>8, <1>9

LEMMA AskKeeps ==
    ASSUME BlueInv, NEW heard \in BOOLEAN, Ask(heard)
    PROVE  BlueInv'
<1> DEFINE g == First(job.todo)
           j == [job EXCEPT !.todo = @ \ {g}, !.seen = Heard(heard)]
<1>1. at = "ask" /\ Cardinality(job.todo) > 1 /\ at' = "ask" /\ job' = j
      /\ lane' = lane /\ Memory
  BY DEF Ask, Goto
<1>2. job \in Job /\ job.todo \in SUBSET Hose
  BY DEF BlueInv, TypesOK, Job
<1>3. job' \in Job /\ job'.todo = job.todo \ {g} /\ job'.seen = Heard(heard)
  <2> HIDE DEF g
  <2> QED BY <1>1, <1>2, HeardSaw DEF Job
<1>4. job'.todo # {}
  <2>1. job'.todo = {} => job.todo \in {{}, {g}}
    BY <1>3
  <2>2. Cardinality({}) = 0 /\ Cardinality({g}) = 1
    BY FS_EmptySet, FS_Singleton
  <2> QED BY <1>1, <2>1, <2>2
<1>5. AskOK'
  <2>1. ASSUME NEW h \in Hose, job'.seen[h] # None PROVE Saw(h, job.seen[h])'
    <3>1. Saw(h, Heard(heard)[h])
      BY <1>1, <1>3, <2>1, HeardSaw
    <3> QED BY <1>1, <1>3, <3>1, SameFill DEF Memory, ghosts, Saw
  <2> QED BY <1>4, <2>1 DEF AskOK
<1>6. PlaceOK'
  BY <1>1, <1>5 DEF PlaceOK
<1> QED BY <1>1, <1>3, <1>6, KeepsItself, MemoryStep DEF Step, Pending

(* What poll_position decides by. *)
LEMMA PolledIs ==
    ASSUME BlueInv, Deciding, NEW heard \in BOOLEAN, ~Missed(lane, Heard(heard)),
           NEW p, p = Polled(heard)
    PROVE  /\ p.hose \in Hose /\ p.status \in Seen /\ p.status # None /\ Saw(p.hose, p.status)
           /\ Owns(lane) => p.hose = Owner(lane)
           /\ Keeps(p.lane)
           /\ p.lane = lane \/ (lane.reserved # None /\ p.lane = Cancelled(lane))
<1> DEFINE seen == Heard(heard)
<1>1. /\ seen \in [Hose -> Seen \cup {None}]
      /\ \A h \in Hose : seen[h] # None => Saw(h, seen[h])
  BY HeardSaw DEF Deciding
<1> HIDE DEF seen
<1>2. Answered(seen) \subseteq Hose /\ Answered(seen) # {}
      /\ (Owns(lane) => Owner(lane) \in Answered(seen))
  BY DEF Missed, Answered, seen
<1>3. ActiveHose(lane, seen) \in Answered(seen) /\ (Owns(lane) => ActiveHose(lane, seen) = Owner(lane))
  <2> DEFINE busy == {h \in Answered(seen) : seen[h].busy}
             lifted == {h \in Answered(seen) : seen[h].lifted}
  <2>1. busy # {} => First(busy) \in busy
    BY <1>2, FirstIsIn
  <2>2. First(IF lifted # {} THEN lifted ELSE Answered(seen)) \in Answered(seen)
    <3>1. lifted # {} => First(lifted) \in lifted
      BY <1>2, FirstIsIn
    <3>2. First(Answered(seen)) \in Answered(seen)
      BY <1>2, FirstIsIn
    <3> QED BY <3>1, <3>2
  <2>3. CASE Owns(lane)
    BY <1>2, <2>3 DEF ActiveHose
  <2>4. CASE ~Owns(lane) /\ busy # {}
    <3>1. ActiveHose(lane, seen) = First(busy)
      BY <2>4 DEF ActiveHose
    <3> QED BY <2>1, <2>4, <3>1
  <2>5. CASE ~Owns(lane) /\ busy = {}
    <3>1. ActiveHose(lane, seen) =
             IF Shown(lane, seen) \in Answered(seen) THEN Shown(lane, seen)
             ELSE First(IF lifted # {} THEN lifted ELSE Answered(seen))
      BY <2>5 DEF ActiveHose
    <3> QED BY <2>2, <2>5, <3>1
  <2> QED BY <2>3, <2>4, <2>5
<1>4. p.hose = ActiveHose(lane, seen) /\ p.lane = Observed(lane, seen)
      /\ p.status = seen[ActiveHose(lane, seen)]
  BY DEF Polled, seen
<1>5. seen[p.hose] # None /\ p.hose \in Hose
  BY <1>2, <1>3, <1>4 DEF Answered
<1>6. WrongLifts(lane, seen) # {} => lane.reserved # None
  BY DEF WrongLifts
<1>7. p.lane = lane \/ (lane.reserved # None /\ p.lane = Cancelled(lane))
  BY <1>4, <1>6 DEF Observed
<1>8. Keeps(p.lane)
  BY <1>7, KeepsItself, KeepsCancelled
<1> QED BY <1>1, <1>3, <1>4, <1>5, <1>7, <1>8

LEMMA PollMissedKeeps ==
    ASSUME BlueInv, NEW heard \in BOOLEAN, NEW threshold \in BOOLEAN, PollMissed(heard, threshold)
    PROVE  BlueInv'
<1> DEFINE s == IF threshold THEN "Offline" ELSE lane.status
<1>1. lane' = [lane EXCEPT !.candidate = None, !.status = s] /\ Rest /\ Memory /\ at = "ask"
  BY DEF PollMissed, Deciding
<1>2. s \in Status /\ lane \in LaneState
  BY DEF BlueInv, TypesOK, LaneState, Status
<1> HIDE DEF s
<1>3. Keeps(lane') /\ lane'.reserved = lane.reserved
  BY <1>1, <1>2, HoseAssumption, KeepsItself, KeepsMarks DEF LaneState
<1> QED BY <1>1, <1>3, RestStep DEF Pending

LEMMA PollCompletedKeeps ==
    ASSUME BlueInv, NEW heard \in BOOLEAN, PollCompleted(heard)
    PROVE  BlueInv'
<1>1. PICK p : p = Polled(heard)
  OBVIOUS
<1>2. Deciding /\ ~Missed(lane, Heard(heard)) /\ p.lane.completed # None
      /\ lane' = Settle(p.lane, p.status) /\ Rest /\ Memory
  BY <1>1 DEF PollCompleted
<1>3. /\ p.hose \in Hose /\ Saw(p.hose, p.status)
      /\ Owns(lane) => p.hose = Owner(lane)
      /\ Keeps(p.lane)
      /\ p.lane = lane \/ (lane.reserved # None /\ p.lane = Cancelled(lane))
  BY <1>1, <1>2, PolledIs
<1>4. p.lane = lane /\ lane \in LaneState /\ lane.tx = None /\ lane.reserved = None
  BY <1>2, <1>3, ClearedLane DEF BlueInv, TypesOK, LaneOK
<1>5. p.hose = lane.completed
  BY <1>2, <1>3, <1>4 DEF Owns, Owner
<1>6. CASE ~p.status.lifted /\ ~p.status.busy
  <2>1. Held = {}
    BY <1>3, <1>5, <1>6 DEF Saw, BlueInv, UsedOK, TypesOK
  <2>2. Keeps(Cleared(lane))
    BY <1>4, <2>1, ClearedLane DEF Keeps, LaneOK
  <2>3. lane' = Idle(Cleared(lane))
    BY <1>2, <1>4, <1>6 DEF Settle
  <2>4. Keeps(lane') /\ lane'.reserved = None
    BY <1>4, <2>2, <2>3, ClearedLane, KeepsIdle, IdleLane
  <2> QED BY <1>2, <2>4, RestStep
<1>7. CASE ~(~p.status.lifted /\ ~p.status.busy)
  <2>1. lane' = lane
    BY <1>2, <1>4, <1>7 DEF Settle
  <2> QED BY <1>2, <1>4, <2>1, KeepsItself, RestStep
<1> QED BY <1>6, <1>7

LEMMA PollFlowKeeps ==
    ASSUME BlueInv, NEW heard \in BOOLEAN, PollFlow(heard)
    PROVE  BlueInv'
<1>1. PICK p : p = Polled(heard)
  OBVIOUS
<1>2. /\ Deciding /\ ~Missed(lane, Heard(heard)) /\ p.lane.completed = None /\ p.status.busy
      /\ lane' = p.lane /\ at' = "live" /\ job' = [NoJob EXCEPT !.hose = p.hose] /\ Memory
  BY <1>1 DEF PollFlow, Goto
<1>3. /\ p.hose \in Hose /\ Saw(p.hose, p.status)
      /\ Owns(lane) => p.hose = Owner(lane)
      /\ Keeps(p.lane)
      /\ p.lane = lane \/ (lane.reserved # None /\ p.lane = Cancelled(lane))
  BY <1>1, <1>2, PolledIs
<1>4. job' \in Job /\ job'.hose = p.hose
  BY <1>2, <1>3, JobsAreJobs
<1>5. lane'.tx \in {None, p.hose}
  <2>1. lane'.tx = lane.tx
    BY <1>2, <1>3 DEF Keeps
  <2>2. lane.tx # None => p.hose = lane.tx
    BY <1>3 DEF Owns, Owner, BlueInv, LaneOK
  <2> QED BY <2>1, <2>2
<1>6. Unsold(p.hose)'
  BY <1>2, <1>3, SameFill DEF Saw, Memory, ghosts
<1>7. PlaceOK'
  BY <1>2, <1>3, <1>4, <1>5, <1>6, NoneIsApart DEF PlaceOK
<1>8. Pending' => Pending
  BY <1>2, <1>3, ClearedLane DEF Pending, Deciding
<1> QED BY <1>2, <1>3, <1>4, <1>7, <1>8, MemoryStep DEF Step

LEMMA PollSaleKeeps ==
    ASSUME BlueInv, NEW heard \in BOOLEAN, PollSale(heard)
    PROVE  BlueInv'
<1>1. PICK p : p = Polled(heard)
  OBVIOUS
<1>2. PICK s : s = IF ~p.status.lifted \/ p.lane.stopAck THEN "Finalizing" ELSE p.lane.status
  OBVIOUS
<1>3. /\ Deciding /\ ~Missed(lane, Heard(heard)) /\ p.lane.tx # None
      /\ lane' = [p.lane EXCEPT !.status = s] /\ at' = "final" /\ Memory
      /\ job' = [NoJob EXCEPT !.hose = p.hose, !.seen[p.hose] = p.status]
  BY <1>1, <1>2 DEF PollSale, Goto
<1>4. /\ p.hose \in Hose /\ p.status \in Seen /\ p.status # None /\ Saw(p.hose, p.status)
      /\ Owns(lane) => p.hose = Owner(lane)
      /\ Keeps(p.lane)
      /\ p.lane = lane \/ (lane.reserved # None /\ p.lane = Cancelled(lane))
  BY <1>1, <1>3, PolledIs
<1>5. p.lane = lane /\ lane.tx = p.hose
  BY <1>3, <1>4, ClearedLane DEF BlueInv, TypesOK, LaneOK, Owns, Owner
<1>6. Keeps(lane') /\ lane'.tx = p.hose /\ lane'.reserved = lane.reserved
  <2>1. s \in Status /\ lane \in LaneState
    BY <1>2, <1>5 DEF BlueInv, TypesOK, LaneState, Status
  <2> QED BY <1>3, <1>4, <1>5, <2>1, KeepsMarks DEF LaneState
<1>7. job' \in Job /\ job'.hose = p.hose /\ job'.seen[p.hose] = p.status
  BY <1>3, <1>4, NoJobIsJob DEF Job
<1>8. Ending(p.hose)'
  BY <1>3, <1>4, <1>5, <1>6, <1>7, NoneIsApart, SameFill DEF Saw, Ending, Memory, ghosts
<1>9. PlaceOK'
  BY <1>3, <1>7, <1>8 DEF PlaceOK
<1>10. Pending' => Pending
  BY <1>3, <1>6 DEF Pending, Deciding
<1> QED BY <1>3, <1>6, <1>7, <1>9, <1>10, MemoryStep DEF Step

LEMMA PollReservedKeeps ==
    ASSUME BlueInv, NEW heard \in BOOLEAN, PollReserved(heard)
    PROVE  BlueInv'
<1>1. PICK p : p = Polled(heard)
  OBVIOUS
<1>2. /\ Deciding /\ ~Missed(lane, Heard(heard)) /\ Armed(p.lane) /\ lane' = p.lane /\ Memory
      /\ (at' = "prepare" /\ job' = NoJob) \/ Rest
  BY <1>1 DEF PollReserved, Goto
<1>3. /\ Keeps(p.lane)
      /\ p.lane = lane \/ (lane.reserved # None /\ p.lane = Cancelled(lane))
  BY <1>1, <1>2, PolledIs
<1>4. lane' = lane /\ lane.reserved # None /\ Pending
  BY <1>2, <1>3, ClearedLane DEF Armed, BlueInv, TypesOK, Pending, Deciding
<1>5. CASE at' = "prepare" /\ job' = NoJob
  <2>1. PlaceOK'
    BY <1>4, <1>5 DEF PlaceOK
  <2> QED BY <1>2, <1>3, <1>4, <1>5, <2>1, NoJobIsJob, MemoryStep DEF Step
<1>6. CASE Rest
  BY <1>2, <1>3, <1>4, <1>6, RestStep
<1> QED BY <1>2, <1>5, <1>6

LEMMA PollIdleKeeps ==
    ASSUME BlueInv, NEW heard \in BOOLEAN, PollIdle(heard)
    PROVE  BlueInv'
<1>1. PICK p : p = Polled(heard)
  OBVIOUS
<1>2. /\ Deciding /\ ~Missed(lane, Heard(heard)) /\ p.lane.tx = None /\ Memory
      /\ lane' = IF p.status.lifted
                 THEN [p.lane EXCEPT !.status = "NozzleUp", !.nozzle = p.hose]
                 ELSE Idle(p.lane)
      /\ (at' = "clear" /\ job' = [NoJob EXCEPT !.hose = p.hose]) \/ Rest
  BY <1>1 DEF PollIdle, Goto
<1>3. /\ p.hose \in Hose /\ Keeps(p.lane)
      /\ p.lane = lane \/ (lane.reserved # None /\ p.lane = Cancelled(lane))
  BY <1>1, <1>2, PolledIs
<1>4. Keeps(lane') /\ (lane'.reserved # None => lane'.reserved = p.lane.reserved)
  <2>1. "NozzleUp" \in Status
    BY DEF Status
  <2>2. CASE p.status.lifted
    <3>1. lane' = [p.lane EXCEPT !.status = "NozzleUp", !.nozzle = p.hose]
      BY <1>2, <2>2
    <3>2. Keeps(lane')
      BY <1>3, <2>1, <3>1, KeepsMarks
    <3>3. lane'.reserved = p.lane.reserved
      BY <1>3, <3>1 DEF Keeps, LaneState
    <3> QED BY <3>2, <3>3
  <2>3. CASE ~p.status.lifted
    BY <1>2, <1>3, <2>3, KeepsIdle, IdleLane DEF Keeps
  <2> QED BY <2>2, <2>3
<1>5. lane'.reserved # None => Pending
  BY <1>2, <1>3, <1>4, ClearedLane DEF BlueInv, TypesOK, Pending, Deciding
<1>6. CASE at' = "clear" /\ job' = [NoJob EXCEPT !.hose = p.hose]
  <2>1. job' \in Job /\ job'.hose = p.hose
    BY <1>3, <1>6, JobsAreJobs
  <2>2. PlaceOK'
    BY <1>3, <1>6, <2>1, NoneIsApart DEF PlaceOK
  <2>3. Pending' => Pending
    BY <1>5, <1>6 DEF Pending
  <2> QED BY <1>2, <1>4, <1>6, <2>1, <2>2, <2>3, MemoryStep DEF Step
<1>7. CASE Rest
  BY <1>2, <1>4, <1>5, <1>7, RestStep
<1> QED BY <1>2, <1>6, <1>7

----------------------------------------------------------------------------
(* The end of a sale, up to its commit. *)

(* A fill that was stopped, or has reached the dose of its order, flows no more. *)
LEMMA TerminalIsOver ==
    ASSUME BlueInv, NEW h \in Hose, lane.tx = h, Sure(h),
           lane.stopAck \/ TargetReached(lane, pump[h].volume)
    PROVE  Over(h)
<1>1. SaleOK(h) /\ PumpOK(h) /\ pump[h] \in PumpState /\ lane \in LaneState
  BY DEF BlueInv, HoseOK, TypesOK
<1>2. CASE lane.stopAck
  BY <1>1, <1>2 DEF SaleOK
<1>3. CASE TargetReached(lane, pump[h].volume)
  <2>1. lane.target # None /\ pump[h].volume >= lane.target
    BY <1>3 DEF TargetReached
  <2>2. claim[fill[h]] = "ordered" /\ fill[h] # 0
    BY <1>1, <2>1 DEF SaleOK, Sure
  <2>3. pump[h].dose = lane.target
    BY <1>1, <2>2 DEF SaleOK, Ordered
  <2>4. pump[h].phase \in {"ready", "on", "held"} => pump[h].volume < lane.target
    BY <1>1, <2>1, <2>3 DEF PumpOK
  <2>5. pump[h].volume \in Nat /\ lane.target \in Nat
    BY <1>1, <2>1, MaxVolumeAssumption DEF PumpState, LaneState, Dose
  <2>6. pump[h].phase \notin {"ready", "on", "held"}
    BY <2>1, <2>4, <2>5
  <2> QED BY <1>1, <2>6 DEF Over, PumpState
<1> QED BY <1>2, <1>3

LEMMA ReadFinalKeeps ==
    ASSUME BlueInv, NEW heard \in BOOLEAN, NEW settled \in BOOLEAN, ReadFinal(heard, settled)
    PROVE  BlueInv'
<1> DEFINE h == job.hose
<1>1. at = "final" /\ Memory /\ Ending(h) /\ lane \in LaneState /\ job \in Job
  BY DEF ReadFinal, BlueInv, PlaceOK, TypesOK
<1>2. h \in Hose /\ lane.tx = h
  BY <1>1 DEF Ending, LaneState
<1>3. CASE heard
  <2>1. /\ at' = "after" /\ lane' = lane
        /\ job' = [job EXCEPT !.volume = pump[h].volume, !.settled = settled]
        /\ settled => pump[h].phase # "ending"
    BY <1>3 DEF ReadFinal, Goto
  <2>2. pump[h] \in PumpState /\ pump[h].volume \in Reading
    BY <1>2 DEF BlueInv, TypesOK, PumpState, Reading
  <2>3. /\ job' \in Job /\ job'.hose = h /\ job'.seen = job.seen
        /\ job'.volume = pump[h].volume /\ job'.settled = settled
    BY <1>1, <2>1, <2>2 DEF Job
  <2>4. Ending(h)'
    BY <1>1, <1>2, <2>1, <2>3, SameFill DEF Ending, Memory, ghosts
  <2>5. Confirming(h)'
    <3> SUFFICES ASSUME Sure(h), settled,
                        \/ ~job.seen[h].lifted \/ lane.stopAck
                        \/ TargetReached(lane, pump[h].volume)
                 PROVE  Ended(h)
      BY <1>1, <1>2, <2>1, <2>3, SameFill DEF Confirming, Memory, ghosts
    <3>1. Over(h)
      BY <1>1, <1>2, TerminalIsOver DEF Ending
    <3> QED BY <2>1, <3>1 DEF Over, Ended
  <2>6. PlaceOK'
    BY <2>1, <2>3, <2>4, <2>5 DEF PlaceOK
  <2> QED BY <1>1, <2>1, <2>3, <2>6, KeepsItself, MemoryStep DEF Step, Pending
<1>4. CASE ~heard
  <2>1. lane' = [lane EXCEPT !.candidate = None] /\ Rest
    BY <1>4 DEF ReadFinal
  <2>2. lane.status \in Status
    BY <1>1 DEF LaneState
  <2>3. Keeps(lane') /\ lane'.reserved = lane.reserved
    BY <1>1, <1>2, <2>1, <2>2, KeepsItself, KeepsMarks DEF LaneState
  <2> QED BY <1>1, <2>1, <2>3, RestStep DEF Pending
<1> QED BY <1>3, <1>4

LEMMA StatusAfterKeeps ==
    ASSUME BlueInv, NEW heard \in BOOLEAN, StatusAfter(heard)
    PROVE  BlueInv'
<1> DEFINE h == job.hose
<1>1. /\ at = "after" /\ Memory /\ Ending(h) /\ Confirming(h) /\ lane \in LaneState
      /\ job \in Job
  BY DEF StatusAfter, BlueInv, PlaceOK, TypesOK
<1>2. h \in Hose /\ lane.tx = h /\ job.volume \in Reading /\ lane.status \in Status
  BY <1>1 DEF Ending, LaneState, Job
<1>3. PICK end \in BOOLEAN :
        /\ end => Terminal(lane, job.seen[h], job.volume)
        /\ lane' = IF end THEN [lane EXCEPT !.status = "Finalizing", !.candidate = job.volume]
                   ELSE [lane EXCEPT !.candidate = None]
        /\ \/ end /\ job.settled /\ at' = "commit" /\ job' = [NoJob EXCEPT !.hose = h]
           \/ Rest
  BY DEF StatusAfter, Goto
<1>4. CASE end
  <2>1. lane' = [lane EXCEPT !.status = "Finalizing", !.candidate = job.volume]
    BY <1>3, <1>4
  <2>2. "Finalizing" \in Status /\ lane.tx # None
    BY <1>2, NoneIsApart DEF Status
  <2>3. Keeps(lane')
    BY <1>2, <2>1, <2>2, KeepsItself, KeepsMarks
  <2>4. lane'.reserved = lane.reserved /\ lane'.tx = h /\ lane'.candidate = job.volume
    BY <1>1, <1>2, <2>1 DEF LaneState
  <2>5. CASE Rest
    BY <1>1, <2>3, <2>4, <2>5, RestStep DEF Pending
  <2>6. CASE job.settled /\ at' = "commit" /\ job' = [NoJob EXCEPT !.hose = h]
    <3>1. job' \in Job /\ job'.hose = h
      BY <1>2, <2>6, JobsAreJobs
    <3>2. Sure(h) => Ended(h) /\ pump[h].volume = job.volume
      BY <1>1, <1>3, <1>4, <2>6 DEF Confirming, Terminal
    <3>3. PlaceOK'
      BY <1>1, <1>2, <2>4, <2>6, <3>1, <3>2, NoneIsApart, SameFill DEF PlaceOK, Memory, ghosts
    <3>4. Pending' => Pending
      BY <1>1, <2>4, <2>6 DEF Pending
    <3> QED BY <1>1, <2>3, <2>6, <3>1, <3>3, <3>4, MemoryStep DEF Step
  <2> QED BY <1>3, <2>5, <2>6
<1>5. CASE ~end
  <2>1. lane' = [lane EXCEPT !.candidate = None] /\ Rest
    BY <1>3, <1>5
  <2>2. Keeps(lane') /\ lane'.reserved = lane.reserved
    BY <1>1, <1>2, <2>1, KeepsItself, KeepsMarks DEF LaneState
  <2> QED BY <1>1, <2>1, <2>2, RestStep DEF Pending
<1> QED BY <1>4, <1>5

----------------------------------------------------------------------------
(* Orders, as long as they stay in memory. *)

LEMMA SpendOnce ==
    ASSUME left \in Budget,
           NEW what \in {"orders", "keypad", "stops", "crashes", "faults"}, Spend(what)
    PROVE  /\ left' \in Budget /\ left'.touched = left.touched
           /\ left'.orders = IF what = "orders" THEN left.orders - 1 ELSE left.orders
           /\ left'.keypad = IF what = "keypad" THEN left.keypad - 1 ELSE left.keypad
           /\ what = "orders" => left.orders > 0
           /\ what = "keypad" => left.keypad > 0
BY DEF Spend, Budget

LEMMA CommitFailsKeeps ==
    ASSUME BlueInv, CommitFails
    PROVE  BlueInv'
<1>1. /\ at = "commit" /\ Spend("faults") /\ Rest /\ left \in Budget
      /\ UNCHANGED <<pump, lane, bill, ghosts, used, outlived>>
  BY DEF CommitFails, BlueInv, TypesOK
<1>2. left' \in Budget /\ left'.orders = left.orders /\ left'.keypad = left.keypad
  BY <1>1, SpendOnce
<1>3. FillsLeft'
  <2>1. Pending' => Pending
    BY <1>1, AtRest DEF Pending
  <2>2. left.orders \in Nat /\ left.keypad \in Nat /\ fills \in Nat
    BY <1>1, MaxFillsAssumption DEF Budget, BlueInv, TypesOK
  <2> QED BY <1>1, <1>2, <2>1, <2>2, MaxFillsAssumption DEF BlueInv, FillsLeft, ghosts
<1>4. Keeps(lane')
  BY <1>1, KeepsItself
<1> QED BY <1>1, <1>2, <1>3, <1>4, AtRest, LoopStep

LEMMA OrderCommandKeeps ==
    ASSUME BlueInv, NEW h \in Hose, NEW target \in Target, OrderCommand(h, target)
    PROVE  BlueInv'
<1>1. /\ at = "rest" /\ CanAuthorize(lane) /\ Spend("orders") /\ left \in Budget
      /\ at' = "check" /\ job' = [NoJob EXCEPT !.hose = h, !.target = target]
      /\ UNCHANGED <<pump, lane, bill, ghosts, used, outlived>>
  BY DEF OrderCommand, Goto, BlueInv, TypesOK
<1>2. /\ left' \in Budget /\ left'.orders = left.orders - 1 /\ left.orders > 0
      /\ left'.keypad = left.keypad
  BY <1>1, SpendOnce
<1>3. FillsLeft'
  <2>1. left.orders \in Nat /\ left.keypad \in Nat /\ fills \in Nat
    BY <1>1, MaxFillsAssumption DEF Budget, BlueInv, TypesOK
  <2>2. fills + left.orders + left.keypad <= MaxFills
    BY <2>1, MaxFillsAssumption DEF BlueInv, FillsLeft
  <2>3. fills' = fills /\ Pending'
    BY <1>1 DEF ghosts, Pending
  <2> QED BY <1>2, <2>1, <2>2, <2>3, MaxFillsAssumption DEF FillsLeft
<1>4. Keeps(lane')
  BY <1>1, KeepsItself
<1>5. job' \in Job /\ job'.hose = h
  BY <1>1, NoJobIsJob, TargetAssumption DEF Job
<1>6. PlaceOK'
  BY <1>1, <1>5, NoneIsApart DEF PlaceOK, OrderFree, CanAuthorize
<1> QED BY <1>1, <1>2, <1>3, <1>4, <1>5, <1>6, LoopStep DEF Step

LEMMA KeepsReserved ==
    ASSUME BlueInv, OrderFree, NEW h \in Hose, NEW target \in Dose
    PROVE  Keeps(Reserved(lane, h, target))
<1>1. lane \in LaneState /\ Held = {}
  BY UnusedLane DEF BlueInv, TypesOK, OrderFree
<1> QED BY <1>1, ReservedLane DEF OrderFree, Keeps, LaneOK

LEMMA CheckHoseKeeps ==
    ASSUME BlueInv, NEW heard \in BOOLEAN, CheckHose(heard)
    PROVE  BlueInv'
<1> DEFINE h == job.hose
           st == PumpStatus(pump[h])
<1>1. at = "check" /\ Memory /\ OrderFree /\ job \in Job /\ lane \in LaneState
  BY DEF CheckHose, BlueInv, PlaceOK, TypesOK
<1>2. h \in Hose /\ job.target \in Dose
  BY <1>1 DEF Job, OrderFree
<1>3. CASE heard /\ st.busy
  <2>1. lane' = lane /\ Rest
    BY <1>3 DEF CheckHose
  <2> QED BY <1>1, <2>1, KeepsItself, RestStep DEF OrderFree
<1>4. CASE heard /\ ~st.busy
  <2>1. /\ lane' = Reserved(lane, h, job.target)
        /\ (at' = "prepare" /\ job' = NoJob) \/ Rest
    BY <1>4 DEF CheckHose, Goto
  <2>2. Keeps(lane') /\ lane'.reserved # None /\ Pending
    BY <1>1, <1>2, <2>1, KeepsReserved, ReservedLane, NoneIsApart DEF Pending
  <2>3. CASE at' = "prepare" /\ job' = NoJob
    <3>1. PlaceOK'
      BY <2>2, <2>3 DEF PlaceOK
    <3> QED BY <1>1, <2>2, <2>3, <3>1, NoJobIsJob, MemoryStep DEF Step
  <2>4. CASE Rest
    BY <1>1, <2>2, <2>4, RestStep
  <2> QED BY <2>1, <2>3, <2>4
<1>5. CASE ~heard
  <2>1. /\ lane' = lane
        /\ \/ Rest
           \/ Hose # {h} /\ at' = "side" /\ job' = [job EXCEPT !.todo = Hose \ {h}]
    BY <1>5 DEF CheckHose, Goto
  <2>2. CASE Rest
    BY <1>1, <2>1, <2>2, KeepsItself, RestStep DEF OrderFree
  <2>3. CASE Hose # {h} /\ at' = "side" /\ job' = [job EXCEPT !.todo = Hose \ {h}]
    <3>1. job' \in Job /\ job'.hose = h /\ job'.todo # {}
      BY <1>1, <1>2, <2>3 DEF Job
    <3>2. PlaceOK'
      BY <1>1, <2>1, <2>3, <3>1 DEF PlaceOK, OrderFree
    <3> QED BY <1>1, <2>1, <2>3, <3>1, <3>2, KeepsItself, MemoryStep DEF Step, Pending
  <2> QED BY <2>1, <2>2, <2>3
<1> QED BY <1>3, <1>4, <1>5

LEMMA AskSideKeeps ==
    ASSUME BlueInv, NEW heard \in BOOLEAN, AskSide(heard)
    PROVE  BlueInv'
<1> DEFINE g == First(job.todo)
<1>1. at = "side" /\ Memory /\ OrderFree /\ job \in Job /\ job.todo # {}
  BY DEF AskSide, BlueInv, PlaceOK, TypesOK
<1>2. job.hose \in Hose /\ job.target \in Dose /\ job.todo \subseteq Hose /\ g \in job.todo
  BY <1>1, FirstIsIn DEF Job, OrderFree
<1>3. PICK seen : seen = [job.seen EXCEPT ![g] = IF heard THEN PumpStatus(pump[g]) ELSE None]
  OBVIOUS
<1>4. seen \in [Hose -> Seen \cup {None}]
  <2>1. PumpStatus(pump[g]) \in Seen
    BY <1>2 DEF BlueInv, TypesOK, PumpState, PumpStatus, Seen
  <2>2. job.seen \in [Hose -> Seen \cup {None}]
    BY <1>1 DEF Job
  <2> HIDE DEF g
  <2> QED BY <1>3, <2>1, <2>2
<1>5. CASE job.todo # {g}
  <2>1. lane' = lane /\ at' = "side" /\ job' = [job EXCEPT !.todo = @ \ {g}, !.seen = seen]
    BY <1>3, <1>5 DEF AskSide, Goto
  <2>2. job' \in Job /\ job'.hose = job.hose /\ job'.todo = job.todo \ {g}
    <3> HIDE DEF g
    <3> QED BY <1>1, <1>2, <1>4, <2>1 DEF Job
  <2>3. PlaceOK'
    BY <1>1, <1>2, <1>5, <2>1, <2>2 DEF PlaceOK, OrderFree
  <2> QED BY <1>1, <2>1, <2>2, <2>3, KeepsItself, MemoryStep DEF Step, Pending
<1>6. CASE job.todo = {g}
  <2>1. lane' \in {lane, Reserved(lane, job.hose, job.target)} /\ Rest
    BY <1>6 DEF AskSide
  <2>2. Keeps(lane') /\ Pending
    BY <1>1, <1>2, <2>1, KeepsItself, KeepsReserved DEF Pending
  <2> QED BY <1>1, <2>1, <2>2, RestStep
<1> QED BY <1>5, <1>6

----------------------------------------------------------------------------
(* The hoses move on, and obey. *)

(* Another hose stays as it is, and this one keeps its dose and its master. *)
OnlyHose(h) ==
    /\ pump' \in [Hose -> PumpState]
    /\ \A g \in Hose \ {h} : pump'[g] = pump[g]
    /\ pump'[h].dose = pump[h].dose
    /\ pump[h].remote => pump'[h].remote
    /\ PumpOK(h)'

(* A fill that was stopped flows no more, and one that is over is left alone. *)
Calm(h) ==
    /\ OnlyHose(h)
    /\ Ended(h) => Ended(h)' /\ pump'[h].volume = pump[h].volume
    /\ Over(h) => Over(h)'
    /\ pump[h].phase = "dosed" => pump'[h].phase = "dosed"

LEMMA HosesStand ==
    ASSUME BlueInv, NEW h \in Hose, OnlyHose(h), UNCHANGED <<bill, fill, claim>>,
           left'.keypad = left.keypad, lane'.tx = lane.tx,
           lane.tx # None => lane'.target = lane.target,
           Sure(h) /\ bill[fill[h]] # <<>> => Ended(h)' /\ pump'[h].volume = pump[h].volume,
           \A g \in Hose : Sure(g) /\ lane.tx = g /\ lane'.stopAck => Over(g)'
    PROVE  \A g \in Hose : HoseOK(g)'
<1> TAKE g \in Hose
<1>1. HoseOK(g) /\ Sure(g)' = Sure(g) /\ Ordered(g)' = Ordered(g)
  BY DEF BlueInv, Sure, Ordered, LoneKeypad
<1>2. PumpOK(g)'
  <2>1. CASE g = h
    BY <2>1 DEF OnlyHose
  <2>2. CASE g # h
    BY <1>1, <2>2 DEF OnlyHose, HoseOK, PumpOK
  <2> QED BY <2>1, <2>2
<1>3. /\ pump'[g].dose = pump[g].dose
      /\ pump[g].remote => pump'[g].remote
  BY DEF OnlyHose
<1>4. KeypadOver(g)'
  BY <1>1, <1>3 DEF HoseOK, KeypadOver, LoneKeypad
<1>5. Sure(g) /\ bill[fill[g]] # <<>> => Ended(g)' /\ pump'[g].volume = pump[g].volume
  <2>1. CASE g = h
    BY <2>1
  <2>2. CASE g # h
    BY <1>1, <2>2 DEF OnlyHose, HoseOK, SaleOK, Ended
  <2> QED BY <2>1, <2>2
<1>6. lane'.tx = g => lane'.target = lane.target
  BY NoneIsApart
<1>7. SaleOK(g)'
  BY <1>1, <1>3, <1>5, <1>6 DEF HoseOK, SaleOK
<1> QED BY <1>2, <1>4, <1>7 DEF HoseOK

(* A hose moves while the loop goes on with the lane's sale. *)
LEMMA CalmStep ==
    ASSUME BlueInv, NEW h \in Hose, Calm(h), UNCHANGED <<bill, ghosts, left>>,
           lane' \in LaneState, LaneOK(lane'), lane'.tx = lane.tx,
           lane.tx # None => lane'.target = lane.target,
           lane'.stopAck => lane.stopAck \/ (lane.tx = h /\ Over(h)'),
           lane'.completed = lane.completed, Turns', Held' \subseteq Held,
           \A g \in Held' : pump'[g].lifted,
           job' \in Job, at' \in Step, Pending' => Pending, PlaceOK'
    PROVE  BlueInv'
<1> USE DEF ghosts
<1>1. TypesOK'
  BY DEF BlueInv, TypesOK, Calm, OnlyHose
<1>2. LaneOK(lane)' /\ Registers' /\ Books'
  BY DEF BlueInv, LaneOK, Registers, Books, LoneKeypad
<1>3. FillsLeft'
  <2>1. left \in Budget /\ fills \in 0 .. MaxFills
    BY DEF BlueInv, TypesOK
  <2> QED BY <2>1, MaxFillsAssumption DEF BlueInv, FillsLeft, Budget
<1>4. ASSUME NEW g \in Hose, Sure(g), lane.tx = g, lane'.stopAck PROVE Over(g)'
  <2>1. SaleOK(g)
    BY DEF BlueInv, HoseOK
  <2>2. CASE g = h
    BY <1>4, <2>1, <2>2 DEF Calm, SaleOK
  <2>3. CASE g # h
    BY <1>4, <2>1, <2>3 DEF Calm, OnlyHose, SaleOK, Over
  <2> QED BY <2>2, <2>3
<1>5. Sure(h) /\ bill[fill[h]] # <<>> => Ended(h)' /\ pump'[h].volume = pump[h].volume
  BY DEF BlueInv, HoseOK, SaleOK, Calm
<1>6. \A g \in Hose : HoseOK(g)'
  BY <1>4, <1>5, HosesStand DEF Calm
<1>7. UsedOK'
  BY DEF BlueInv, UsedOK
<1> QED BY <1>1, <1>2, <1>3, <1>6, <1>7 DEF BlueInv

(* The loop's view of a hose that moves by itself. *)
LEMMA PlaceStands ==
    ASSUME BlueInv, NEW h \in Hose, Calm(h), UNCHANGED <<bill, ghosts, lane, at, job>>,
           Held' \subseteq Held
    PROVE  PlaceOK'
<1> USE DEF ghosts
<1>1. PlaceOK
  BY DEF BlueInv
<1>2. \A g \in Hose : /\ Sure(g)' = Sure(g) /\ Unsold(g)' = Unsold(g)
                      /\ Over(g) => Over(g)'
                      /\ Ended(g) => Ended(g)' /\ pump'[g].volume = pump[g].volume
                      /\ Dosed(g) => Dosed(g)'
  <2> TAKE g \in Hose
  <2>1. Sure(g)' = Sure(g) /\ Unsold(g)' = Unsold(g)
    BY DEF Sure, Unsold, LoneKeypad
  <2>2. CASE g = h
    BY <2>1, <2>2 DEF Calm, OnlyHose, Dosed
  <2>3. CASE g # h
    BY <2>1, <2>3 DEF Calm, OnlyHose, Dosed, Over, Ended
  <2> QED BY <2>2, <2>3
<1>3. job.hose # None => job.hose \in Hose
  BY DEF BlueInv, TypesOK, Job
<1>4. AskOK => AskOK'
  BY <1>2 DEF AskOK, Saw
<1>5. Ending(job.hose) => Ending(job.hose)'
  BY <1>2, <1>3 DEF Ending
<1>6. job.hose \in Hose /\ Confirming(job.hose) => Confirming(job.hose)'
  BY <1>2 DEF Confirming
<1>7. OrderFree => OrderFree'
  BY DEF OrderFree
<1>8. Ending(job.hose) => job.hose \in Hose
  BY <1>3 DEF Ending
<1>9. at = "commit" =>
        (Sure(job.hose) => Ended(job.hose) /\ pump[job.hose].volume = lane.candidate)'
  BY <1>1, <1>2, <1>3 DEF PlaceOK
<1>10. at = "live" => Unsold(job.hose)'
  BY <1>1, <1>2, <1>3 DEF PlaceOK
<1>11. at = "recheck" => Dosed(job.hose)'
  BY <1>1, <1>2, <1>3 DEF PlaceOK
<1> QED BY <1>1, <1>4, <1>5, <1>6, <1>7, <1>8, <1>9, <1>10, <1>11 DEF PlaceOK

LEMMA OutsideStep ==
    ASSUME BlueInv, NEW h \in Hose, Calm(h), UNCHANGED <<lane, at, job, bill, left, ghosts>>,
           Turns', Held' \subseteq Held, \A g \in Held' : pump'[g].lifted
    PROVE  BlueInv'
<1>1. lane \in LaneState /\ LaneOK(lane) /\ job \in Job /\ at \in Step
  BY DEF BlueInv, TypesOK
<1>2. Pending' => Pending
  BY DEF Pending
<1> QED BY <1>1, <1>2, PlaceStands, CalmStep

(* What a hose may become. *)
Apt(h, p) ==
    /\ p \in PumpState /\ p.dose = pump[h].dose /\ (pump[h].remote => p.remote)
    /\ p.phase \in {"ready", "on", "held"} => p.lifted
    /\ p.phase \in {"dosed", "ready"} => p.volume = 0
    /\ p.phase \in {"ready", "on", "held", "ending"} => p.volume <= MaxVolume
    /\ p.phase \in {"dosed", "ready", "on", "held", "ending"} => fill[h] # 0
    /\ p.phase \in {"ready", "on", "held"} /\ p.dose # None => p.volume < p.dose
    /\ Ended(h) => p.phase \in {"off", "keyed", "dosed"} /\ p.volume = pump[h].volume
    /\ Over(h) => p.phase \in {"off", "keyed", "dosed", "ending"}
    /\ pump[h].phase = "dosed" => p.phase = "dosed"

LEMMA CalmMove ==
    ASSUME BlueInv, NEW h \in Hose, UNCHANGED fill, NEW p, Apt(h, p),
           pump' = [pump EXCEPT ![h] = p]
    PROVE  Calm(h) /\ pump'[h] = p
<1> USE DEF Apt
<1>1. pump \in [Hose -> PumpState]
  BY DEF BlueInv, TypesOK
<1>2. pump' \in [Hose -> PumpState] /\ pump'[h] = p /\ \A g \in Hose \ {h} : pump'[g] = pump[g]
  BY <1>1
<1>3. PumpOK(h)'
  BY <1>2 DEF PumpOK
<1>4. /\ Ended(h) => Ended(h)' /\ pump'[h].volume = pump[h].volume
      /\ Over(h) => Over(h)'
  BY <1>2 DEF Ended, Over
<1> QED BY <1>2, <1>3, <1>4 DEF Calm, OnlyHose

LEMMA HoseFacts ==
    ASSUME BlueInv, NEW h \in Hose
    PROVE  /\ pump[h] \in PumpState /\ PumpOK(h) /\ pump[h].volume \in Nat
           /\ pump[h].dose # None => pump[h].dose \in Nat
BY MaxVolumeAssumption DEF BlueInv, TypesOK, HoseOK, PumpState, Dose

LEMMA StopIsCalm ==
    ASSUME BlueInv, NEW h \in Hose, UNCHANGED fill, NEW lifted \in BOOLEAN,
           pump[h].lifted \/ ~lifted,
           pump' = [pump EXCEPT ![h] = [PumpStop(pump[h]) EXCEPT !.lifted = lifted]]
    PROVE  Calm(h) /\ Over(h)' /\ pump'[h].lifted = lifted
<1>1. pump[h] \in PumpState /\ PumpOK(h)
  BY HoseFacts
<1>2. PICK p : p = [PumpStop(pump[h]) EXCEPT !.lifted = lifted]
  OBVIOUS
<1>3. /\ p \in PumpState /\ p.dose = pump[h].dose /\ p.remote = pump[h].remote
      /\ p.volume = pump[h].volume /\ p.lifted = lifted
      /\ p.phase = CASE pump[h].phase = "ready" -> "off"
                     [] pump[h].phase \in {"on", "held"} -> "ending"
                     [] OTHER -> pump[h].phase
  <2>1. CASE pump[h].phase = "ready"
    <3>1. PumpStop(pump[h]) = [pump[h] EXCEPT !.phase = "off"]
      BY <2>1 DEF PumpStop, Filling
    <3> QED BY <1>1, <1>2, <2>1, <3>1 DEF PumpState
  <2>2. CASE pump[h].phase \in {"on", "held"}
    <3>1. PumpStop(pump[h]) = [pump[h] EXCEPT !.phase = "ending"]
      BY <2>2 DEF PumpStop, Filling
    <3> QED BY <1>1, <1>2, <2>2, <3>1 DEF PumpState
  <2>3. CASE pump[h].phase \notin {"ready", "on", "held"}
    <3>1. PumpStop(pump[h]) = pump[h]
      BY <2>3 DEF PumpStop, Filling
    <3> QED BY <1>1, <1>2, <2>3, <3>1 DEF PumpState
  <2> QED BY <2>1, <2>2, <2>3
<1>4. p.phase \in {"off", "keyed", "dosed", "ending"}
  BY <1>1, <1>3 DEF PumpState
<1>5. pump[h].phase \in {"off", "keyed", "dosed", "ending"} => p.phase = pump[h].phase
  BY <1>3
<1>6. Apt(h, p)
  BY <1>1, <1>3, <1>4, <1>5 DEF Apt, PumpOK, Ended, Over
<1>7. Calm(h) /\ pump'[h] = p
  BY <1>2, <1>6, CalmMove
<1> QED BY <1>3, <1>4, <1>7 DEF Over

LEMMA StoppedIsCalm ==
    ASSUME BlueInv, NEW h \in Hose, UNCHANGED fill,
           NEW sent \in BOOLEAN, NEW refused \in BOOLEAN,
           pump' = [pump EXCEPT ![h] = Stopped(h, sent, refused)]
    PROVE  Calm(h) /\ pump'[h].lifted = pump[h].lifted /\ (sent /\ ~refused => Over(h)')
<1>1. pump[h] \in PumpState /\ PumpOK(h)
  BY HoseFacts
<1>2. CASE sent /\ ~refused
  <2>1. PumpStop(pump[h]) = [PumpStop(pump[h]) EXCEPT !.lifted = pump[h].lifted]
    BY <1>1 DEF PumpStop, PumpState
  <2>2. pump' = [pump EXCEPT ![h] = [PumpStop(pump[h]) EXCEPT !.lifted = pump[h].lifted]]
    BY <1>2, <2>1 DEF Stopped
  <2>3. pump[h].lifted \in BOOLEAN
    BY <1>1 DEF PumpState
  <2> QED BY <2>2, <2>3, StopIsCalm
<1>3. CASE ~(sent /\ ~refused)
  <2>1. pump' = [pump EXCEPT ![h] = pump[h]]
    BY <1>3 DEF Stopped
  <2>2. Apt(h, pump[h])
    BY <1>1 DEF Apt, PumpOK, Ended, Over
  <2> QED BY <1>3, <2>1, <2>2, CalmMove
<1> QED BY <1>2, <1>3

----------------------------------------------------------------------------
(* The customer and the pump. *)

LEMMA CustomerKeeps ==
    ASSUME BlueInv, NEW h \in Hose, CustomerLifts(h) \/ CustomerHolsters(h)
    PROVE  BlueInv'
<1>1. pump[h] \in PumpState /\ PumpOK(h) /\ UsedOK /\ Held \subseteq Hose
      /\ pump \in [Hose -> PumpState] /\ Turns
  BY HoseFacts DEF BlueInv, TypesOK
<1>2. CASE CustomerLifts(h)
  <2>1. /\ pump' = [pump EXCEPT ![h] = [pump[h] EXCEPT !.lifted = TRUE]]
        /\ UNCHANGED <<lane, at, job, bill, left, ghosts, used, outlived>>
    BY <1>2 DEF CustomerLifts, Outside
  <2>2. PICK p : p = [pump[h] EXCEPT !.lifted = TRUE]
    OBVIOUS
  <2>3. /\ p \in PumpState /\ p.lifted /\ p.dose = pump[h].dose /\ p.remote = pump[h].remote
        /\ p.volume = pump[h].volume /\ p.phase = pump[h].phase
    BY <1>1, <2>2 DEF PumpState
  <2>4. Apt(h, p)
    BY <1>1, <2>3 DEF Apt, PumpOK, Ended, Over
  <2>5. Calm(h) /\ pump'[h] = p
    BY <2>1, <2>2, <2>4, CalmMove DEF ghosts
  <2>6. \A g \in Held : pump'[g].lifted
    BY <1>1, <2>3, <2>5 DEF UsedOK, Calm, OnlyHose
  <2>7. Turns'
    BY <1>1, <2>1
  <2> QED BY <2>1, <2>5, <2>6, <2>7, OutsideStep
<1>3. CASE CustomerHolsters(h)
  <2>1. /\ pump' = [pump EXCEPT ![h] = [PumpStop(pump[h]) EXCEPT !.lifted = FALSE]]
        /\ UNCHANGED <<lane, at, job, bill, left, ghosts>> /\ Held' = Held \ {h} /\ Turns'
    BY <1>1, <1>3 DEF CustomerHolsters, Outside, PumpHolster
  <2>2. Calm(h)
    BY <2>1, StopIsCalm DEF ghosts
  <2>3. \A g \in Held' : pump'[g].lifted
    BY <1>1, <2>1, <2>2 DEF UsedOK, Calm, OnlyHose
  <2> QED BY <2>1, <2>2, <2>3, OutsideStep
<1> QED BY <1>2, <1>3

LEMMA CalmOutside ==
    ASSUME BlueInv, NEW h \in Hose, Calm(h), pump'[h].lifted = pump[h].lifted,
           UNCHANGED <<lane, at, job, bill, left, ghosts, used, outlived>>
    PROVE  BlueInv'
<1>1. Turns' /\ \A g \in Held' : pump'[g].lifted
  BY DEF BlueInv, TypesOK, UsedOK, Calm, OnlyHose
<1> QED BY <1>1, OutsideStep

LEMMA FlowKeeps ==
    ASSUME BlueInv, NEW h \in Hose, FlowBegins(h) \/ FlowHeld(h) \/ FuelFlows(h)
    PROVE  BlueInv'
<1>1. /\ pump[h] \in PumpState /\ PumpOK(h) /\ pump[h].volume \in Nat
      /\ pump[h].dose # None => pump[h].dose \in Nat
  BY HoseFacts
<1>2. PICK p : /\ pump' = [pump EXCEPT ![h] = p]
               /\ \/ /\ pump[h].phase \in {"ready", "held"} /\ p = [pump[h] EXCEPT !.phase = "on"]
                  \/ /\ pump[h].phase = "on" /\ p = [pump[h] EXCEPT !.phase = "held"]
                  \/ /\ pump[h].phase = "on" /\ pump[h].volume < MaxVolume /\ p = PumpFlow(pump[h])
  BY DEF FlowBegins, FlowHeld, FuelFlows, Outside
<1>3. UNCHANGED <<lane, at, job, bill, left, ghosts, used, outlived>>
  BY DEF FlowBegins, FlowHeld, FuelFlows, Outside
<1>4. CASE p \in {[pump[h] EXCEPT !.phase = "on"], [pump[h] EXCEPT !.phase = "held"]}
           /\ pump[h].phase \in {"ready", "on", "held"}
  <2>1. /\ p \in PumpState /\ p.lifted = pump[h].lifted /\ p.dose = pump[h].dose
        /\ p.remote = pump[h].remote /\ p.volume = pump[h].volume /\ p.phase \in {"on", "held"}
    BY <1>1, <1>4 DEF PumpState
  <2>2. Apt(h, p)
    BY <1>1, <1>4, <2>1 DEF Apt, PumpOK, Ended, Over
  <2>3. Calm(h) /\ pump'[h] = p
    BY <1>2, <1>3, <2>2, CalmMove DEF ghosts
  <2> QED BY <1>3, <2>1, <2>3, CalmOutside
<1>5. CASE pump[h].phase = "on" /\ pump[h].volume < MaxVolume /\ p = PumpFlow(pump[h])
  <2>1. PICK s : s = IF pump[h].volume + 1 = pump[h].dose THEN "ending" ELSE "on"
    OBVIOUS
  <2>2. p = [pump[h] EXCEPT !.volume = pump[h].volume + 1, !.phase = s]
    BY <1>5, <2>1 DEF PumpFlow
  <2>3. pump[h].volume + 1 \in 0 .. (MaxVolume + 1) /\ pump[h].volume + 1 <= MaxVolume
    BY <1>1, <1>5, MaxVolumeAssumption
  <2>4. PICK v : v = pump[h].volume + 1
    OBVIOUS
  <2>5. /\ p \in PumpState /\ p.lifted = pump[h].lifted /\ p.dose = pump[h].dose
        /\ p.remote = pump[h].remote /\ p.volume = v /\ p.phase = s
    BY <1>1, <2>1, <2>2, <2>3, <2>4 DEF PumpState
  <2>6. s = "on" /\ pump[h].dose # None => v < pump[h].dose
    <3>1. pump[h].dose # None => pump[h].volume < pump[h].dose
      BY <1>1, <1>5 DEF PumpOK
    <3> QED BY <1>1, <2>1, <2>4, <3>1
  <2>7. p.lifted /\ fill[h] # 0 /\ ~Ended(h) /\ ~Over(h) /\ pump[h].phase # "dosed"
    BY <1>1, <1>5, <2>5 DEF PumpOK, Ended, Over
  <2>8. Apt(h, p)
    BY <2>1, <2>3, <2>4, <2>5, <2>6, <2>7 DEF Apt
  <2>9. Calm(h) /\ pump'[h] = p
    BY <1>2, <1>3, <2>8, CalmMove DEF ghosts
  <2> QED BY <1>3, <2>5, <2>9, CalmOutside
<1> QED BY <1>2, <1>4, <1>5

LEMMA ValveShutsKeeps ==
    ASSUME BlueInv, NEW h \in Hose, NEW creep \in 0 .. 1, ValveShuts(h, creep)
    PROVE  BlueInv'
<1>1. pump[h] \in PumpState /\ PumpOK(h) /\ pump[h].volume \in Nat
  BY HoseFacts
<1>2. /\ pump[h].phase = "ending" /\ UNCHANGED <<lane, at, job, bill, left, ghosts, used, outlived>>
      /\ pump' = [pump EXCEPT ![h] = PumpShut(pump[h], creep)]
  BY DEF ValveShuts, Outside
<1>3. PICK p : p = PumpShut(pump[h], creep)
  OBVIOUS
<1>4. pump[h].volume + creep \in 0 .. (MaxVolume + 1)
  <2>1. pump[h].volume <= MaxVolume
    BY <1>1, <1>2 DEF PumpOK
  <2> QED BY <1>1, <2>1, MaxVolumeAssumption
<1>5. /\ p \in PumpState /\ p.lifted = pump[h].lifted /\ p.dose = pump[h].dose
      /\ p.remote = pump[h].remote /\ p.phase = "off"
  BY <1>1, <1>3, <1>4 DEF PumpShut, PumpState
<1>6. Apt(h, p)
  BY <1>2, <1>5 DEF Apt, Ended
<1>7. Calm(h) /\ pump'[h] = p
  BY <1>2, <1>3, <1>6, CalmMove DEF ghosts
<1> QED BY <1>2, <1>5, <1>7, CalmOutside

LEMMA KeypadDoseKeeps ==
    ASSUME BlueInv, NEW h \in Hose, KeypadDose(h)
    PROVE  BlueInv'
<1>1. pump[h] \in PumpState
  BY HoseFacts
<1>2. /\ pump[h].phase = "off" /\ UNCHANGED <<lane, at, job, bill, left, ghosts, used, outlived>>
      /\ pump' = [pump EXCEPT ![h] = [pump[h] EXCEPT !.phase = "keyed"]]
  BY DEF KeypadDose, Outside
<1>3. PICK p : p = [pump[h] EXCEPT !.phase = "keyed"]
  OBVIOUS
<1>4. /\ p \in PumpState /\ p.lifted = pump[h].lifted /\ p.dose = pump[h].dose
      /\ p.remote = pump[h].remote /\ p.volume = pump[h].volume /\ p.phase = "keyed"
  BY <1>1, <1>3 DEF PumpState
<1>5. Apt(h, p)
  BY <1>2, <1>4 DEF Apt
<1>6. Calm(h) /\ pump'[h] = p
  BY <1>2, <1>3, <1>5, CalmMove DEF ghosts
<1> QED BY <1>2, <1>4, <1>6, CalmOutside

----------------------------------------------------------------------------
(* Commands on the wire. *)

LEMMA CalmWire ==
    ASSUME BlueInv, NEW h \in Hose, Calm(h), pump'[h].lifted = pump[h].lifted,
           UNCHANGED <<bill, ghosts, used, outlived, left>>, lane' = lane,
           job' \in Job, at' \in Step, Pending' => Pending, PlaceOK'
    PROVE  BlueInv'
<1>1. Turns' /\ \A g \in Held' : pump'[g].lifted
  BY DEF BlueInv, TypesOK, UsedOK, Calm, OnlyHose
<1>2. lane \in LaneState /\ LaneOK(lane)
  BY DEF BlueInv, TypesOK
<1> QED BY <1>1, <1>2, CalmStep

LEMMA ClearKeypadKeeps ==
    ASSUME BlueInv, NEW sent \in BOOLEAN, ClearKeypad(sent)
    PROVE  BlueInv'
<1>1. PICK h : h = job.hose
  OBVIOUS
<1>2. at = "clear" /\ h \in Hose
  BY <1>1 DEF ClearKeypad, BlueInv, PlaceOK, TypesOK, Job
<1>3. PICK p : p = IF sent THEN PumpClearKeypad(pump[h]) ELSE pump[h]
  OBVIOUS
<1>4. /\ pump' = [pump EXCEPT ![h] = p] /\ Rest
      /\ UNCHANGED <<lane, bill, ghosts, used, outlived, left>>
  BY <1>1, <1>3 DEF ClearKeypad, Wire
<1>5. pump[h] \in PumpState /\ PumpOK(h)
  BY <1>2, HoseFacts
<1>6. Apt(h, p) /\ p.lifted = pump[h].lifted
  <2>1. CASE p = pump[h]
    BY <1>5, <2>1 DEF Apt, PumpOK, Ended, Over
  <2>2. CASE pump[h].phase = "keyed" /\ p = [pump[h] EXCEPT !.phase = "off"]
    <3>1. /\ p \in PumpState /\ p.lifted = pump[h].lifted /\ p.dose = pump[h].dose
          /\ p.remote = pump[h].remote /\ p.volume = pump[h].volume /\ p.phase = "off"
      BY <1>5, <2>2 DEF PumpState
    <3> QED BY <2>2, <3>1 DEF Apt
  <2> QED BY <1>3, <2>1, <2>2 DEF PumpClearKeypad
<1>7. Calm(h) /\ pump'[h] = p
  BY <1>2, <1>4, <1>6, CalmMove DEF ghosts
<1>8. Pending' => Pending
  BY <1>2, <1>4, AtRest DEF Pending
<1> QED BY <1>2, <1>4, <1>6, <1>7, <1>8, AtRest, CalmWire

LEMMA PrepareKeeps ==
    ASSUME BlueInv, NEW expired \in BOOLEAN, NEW selected \in BOOLEAN, NEW sent \in BOOLEAN,
           Prepare(expired, selected, sent)
    PROVE  BlueInv'
<1>1. PICK h : h = lane.reserved
  OBVIOUS
<1>2. at = "prepare" /\ h # None /\ h \in Hose /\ lane \in LaneState
  BY <1>1 DEF Prepare, BlueInv, PlaceOK, TypesOK, LaneState
<1>3. CASE expired \/ ~selected
  <2>1. lane' = Cancelled(lane) /\ Rest /\ Memory
    BY <1>3 DEF Prepare, CancelOrder
  <2>2. Keeps(lane') /\ lane'.reserved = None
    BY <1>1, <1>2, <2>1, KeepsCancelled, ClearedLane
  <2> QED BY <2>1, <2>2, RestStep
<1>4. CASE ~(expired \/ ~selected)
  <2>1. PICK p : p = [pump[h] EXCEPT !.remote = @ \/ sent]
    OBVIOUS
  <2>2. /\ pump' = [pump EXCEPT ![h] = p] /\ UNCHANGED <<lane, bill, ghosts, used, outlived, left>>
        /\ at' = "dose" /\ job' = [NoJob EXCEPT !.hose = h]
    BY <1>1, <1>4, <2>1 DEF Prepare, Wire, Goto
  <2>3. pump[h] \in PumpState /\ PumpOK(h)
    BY <1>2, HoseFacts
  <2>4. PICK b \in BOOLEAN : b = (pump[h].remote \/ sent)
    BY <2>3 DEF PumpState
  <2>5. p = [pump[h] EXCEPT !.remote = b]
    BY <2>1, <2>4
  <2>6. /\ p \in PumpState /\ p.lifted = pump[h].lifted /\ p.dose = pump[h].dose
        /\ (pump[h].remote => p.remote) /\ p.volume = pump[h].volume /\ p.phase = pump[h].phase
    BY <2>3, <2>4, <2>5 DEF PumpState
  <2>7. Apt(h, p)
    BY <2>3, <2>6 DEF Apt, PumpOK, Ended, Over
  <2>8. Calm(h) /\ pump'[h] = p
    BY <1>2, <2>2, <2>7, CalmMove DEF ghosts
  <2>9. job' \in Job /\ job'.hose = h
    BY <1>2, <2>2, JobsAreJobs
  <2>10. PlaceOK'
    BY <1>1, <1>2, <2>2, <2>9 DEF PlaceOK
  <2>11. Pending' => Pending
    BY <1>1, <1>2 DEF Pending
  <2> QED BY <1>2, <2>2, <2>6, <2>8, <2>9, <2>10, <2>11, CalmWire DEF Step
<1> QED BY <1>3, <1>4

LEMMA StopWireKeeps ==
    ASSUME BlueInv, NEW due \in BOOLEAN, NEW sent \in BOOLEAN, NEW refused \in BOOLEAN,
           NEW acked \in BOOLEAN, StopWire(due, sent, refused, acked)
    PROVE  BlueInv'
<1>1. PICK h : h = job.hose
  OBVIOUS
<1>2. at = "stop" /\ h \in Hose /\ lane.tx = h /\ lane \in LaneState /\ LaneOK(lane)
  BY <1>1 DEF StopWire, BlueInv, PlaceOK, TypesOK, Job
<1>3. PICK ack \in BOOLEAN : ack = (lane.stopAck \/ acked)
  BY <1>2 DEF LaneState
<1>4. /\ pump' = [pump EXCEPT ![h] = Stopped(h, sent, refused)]
      /\ acked => sent /\ ~refused
      /\ lane' = IF due THEN [lane EXCEPT !.paced = TRUE, !.stopAck = ack] ELSE lane
      /\ UNCHANGED <<bill, ghosts, used, outlived, left>>
      /\ (at' = "each" /\ job' = [NoJob EXCEPT !.todo = Hose]) \/ Rest
  BY <1>1, <1>3 DEF StopWire, Wire, Goto
<1>5. Calm(h) /\ pump'[h].lifted = pump[h].lifted /\ (sent /\ ~refused => Over(h)')
  BY <1>2, <1>4, StoppedIsCalm DEF ghosts
<1>6. /\ lane' \in LaneState /\ lane'.tx = lane.tx /\ lane'.target = lane.target
      /\ lane'.completed = lane.completed /\ lane'.reserved = lane.reserved
      /\ lane'.stopAck => lane.stopAck \/ acked
  <2>1. CASE due
    BY <1>2, <1>3, <1>4, <2>1 DEF LaneState
  <2>2. CASE ~due
    BY <1>2, <1>4, <2>2
  <2> QED BY <2>1, <2>2
<1>7. LaneOK(lane')
  BY <1>2, <1>6, NoneIsApart DEF LaneOK
<1>8. job' \in Job /\ at' \in {"each", "rest"} /\ (at' = "each" => job'.todo # {})
  <2>1. CASE at' = "each" /\ job' = [NoJob EXCEPT !.todo = Hose]
    BY <1>2, <2>1, HoseAssumption, JobsAreJobs, Zenon
  <2>2. CASE Rest
    BY <2>2, AtRest DEF Rest, Goto
  <2> QED BY <1>4, <2>1, <2>2
<1>9. PlaceOK'
  BY <1>8 DEF PlaceOK
<1>10. Pending' => Pending
  BY <1>2, <1>6, <1>8 DEF Pending
<1>11. Turns' /\ \A g \in Held' : pump'[g].lifted
  BY <1>4, <1>5 DEF BlueInv, TypesOK, UsedOK, Calm, OnlyHose
<1>12. lane'.stopAck => lane.stopAck \/ (lane.tx = h /\ Over(h)')
  BY <1>2, <1>4, <1>5, <1>6
<1> QED BY <1>2, <1>4, <1>5, <1>6, <1>7, <1>8, <1>9, <1>10, <1>11, <1>12, CalmStep DEF Step

LEMMA StopEachKeeps ==
    ASSUME BlueInv, NEW sent \in BOOLEAN, NEW refused \in BOOLEAN, StopEach(sent, refused)
    PROVE  BlueInv'
<1>1. PICK h : h = First(job.todo)
  OBVIOUS
<1>2. at = "each" /\ h \in job.todo /\ h \in Hose /\ job \in Job
  BY <1>1, FirstIsIn DEF StopEach, BlueInv, PlaceOK, TypesOK, Job
<1>3. /\ pump' = [pump EXCEPT ![h] = Stopped(h, sent, refused)] /\ lane' = lane
      /\ UNCHANGED <<bill, ghosts, used, outlived, left>>
      /\ \/ Rest
         \/ job.todo # {h} /\ at' = "each" /\ job' = [job EXCEPT !.todo = @ \ {h}]
  BY <1>1 DEF StopEach, Wire, Goto
<1>4. Calm(h) /\ pump'[h].lifted = pump[h].lifted
  BY <1>2, <1>3, StoppedIsCalm DEF ghosts
<1>5. job' \in Job /\ at' \in {"each", "rest"} /\ (at' = "each" => job'.todo # {})
  <2>1. CASE Rest
    BY <2>1, AtRest DEF Rest, Goto
  <2>2. CASE job.todo # {h} /\ at' = "each" /\ job' = [job EXCEPT !.todo = @ \ {h}]
    BY <1>2, <2>2 DEF Job
  <2> QED BY <1>3, <2>1, <2>2
<1>6. PlaceOK'
  BY <1>5 DEF PlaceOK
<1>7. Pending' => Pending
  BY <1>2, <1>3, <1>5 DEF Pending
<1> QED BY <1>2, <1>3, <1>4, <1>5, <1>6, <1>7, CalmWire DEF Step

LEMMA StopCommandKeeps ==
    ASSUME BlueInv, NEW all \in BOOLEAN, StopCommand(all)
    PROVE  BlueInv'
<1>1. /\ at = "rest" /\ Spend("stops") /\ UNCHANGED <<pump, bill, ghosts, used, outlived>>
      /\ lane \in LaneState /\ LaneOK(lane) /\ left \in Budget
  BY DEF StopCommand, BlueInv, TypesOK
<1>2. left' \in Budget /\ left'.orders = left.orders /\ left'.keypad = left.keypad
  BY <1>1, SpendOnce
<1>3. /\ Keeps(lane') /\ job' \in Job /\ at' \in {"stop", "each", "rest"}
      /\ at' = "stop" => lane'.tx = job'.hose /\ job'.hose # None
      /\ at' = "each" => job'.todo # {}
      /\ lane'.reserved # None => lane.reserved # None
  <2>1. CASE lane.tx # None
    <3>1. lane' = StopIntent(lane) /\ at' = "stop"
          /\ job' = [NoJob EXCEPT !.hose = lane.tx, !.all = all]
      BY <2>1 DEF StopCommand, Goto
    <3>2. Keeps(lane')
      BY <1>1, <2>1, <3>1, KeepsItself, StopIntentLane DEF Keeps, LaneOK
    <3>3. lane.tx \in Hose
      BY <1>1, <2>1 DEF LaneState
    <3>4. job' \in Job /\ job'.hose = lane.tx
      BY <3>1, <3>3, NoJobIsJob DEF Job
    <3> QED BY <1>1, <2>1, <3>1, <3>2, <3>4, StopIntentLane
  <2>2. CASE lane.tx = None
    <3>1. /\ lane' = IF lane.reserved # None THEN Cancelled(lane) ELSE lane
          /\ (at' = "each" /\ job' = [NoJob EXCEPT !.todo = Hose]) \/ Rest
      BY <2>2 DEF StopCommand, Goto
    <3>2. Keeps(lane') /\ (lane'.reserved # None => lane.reserved # None)
      BY <3>1, KeepsItself, KeepsCancelled
    <3>3. CASE at' = "each" /\ job' = [NoJob EXCEPT !.todo = Hose]
      <4>1. job' \in Job /\ job'.todo # {}
        BY <3>3, HoseAssumption, JobsAreJobs, Zenon
      <4> QED BY <3>2, <3>3, <4>1
    <3>4. CASE Rest
      BY <3>2, <3>4, AtRest DEF Rest, Goto
    <3> QED BY <3>1, <3>3, <3>4
  <2> QED BY <2>1, <2>2
<1>4. PlaceOK'
  BY <1>3 DEF PlaceOK
<1>5. FillsLeft'
  <2>1. Pending' => Pending
    BY <1>1, <1>3 DEF Pending
  <2>2. left.orders \in Nat /\ left.keypad \in Nat /\ fills \in Nat /\ fills' = fills
    BY <1>1, MaxFillsAssumption DEF Budget, BlueInv, TypesOK, ghosts
  <2> QED BY <1>2, <2>1, <2>2, MaxFillsAssumption DEF BlueInv, FillsLeft
<1> QED BY <1>1, <1>2, <1>3, <1>4, <1>5, LoopStep DEF Step

(* Start: the valve of the hose of the sale opens. *)
LEMMA StartWireKeeps ==
    ASSUME BlueInv, NEW sent \in BOOLEAN, StartWire(sent)
    PROVE  BlueInv'
<1>1. PICK h : h = job.hose
  OBVIOUS
<1>2. at = "start" /\ h \in Hose /\ lane.tx = h /\ ~lane.stopAck
  BY <1>1 DEF StartWire, BlueInv, PlaceOK, TypesOK, Job
<1>3. PICK p : p = IF sent THEN PumpStart(pump[h]) ELSE pump[h]
  OBVIOUS
<1>4. /\ pump' = [pump EXCEPT ![h] = p] /\ Rest /\ UNCHANGED <<lane, bill, ghosts, used, outlived, left>>
  BY <1>1, <1>3 DEF StartWire, Wire
<1>5. /\ pump[h] \in PumpState /\ PumpOK(h) /\ SaleOK(h) /\ pump \in [Hose -> PumpState]
      /\ UsedOK /\ Held \subseteq Hose
  BY <1>2, HoseFacts DEF BlueInv, HoseOK, TypesOK
<1>6. CASE p = pump[h]
  <2>1. Apt(h, p)
    BY <1>5, <1>6 DEF Apt, PumpOK, Ended, Over
  <2>2. Calm(h) /\ pump'[h] = p
    BY <1>2, <1>4, <2>1, CalmMove DEF ghosts
  <2>3. Pending' => Pending
    BY <1>2, <1>4, AtRest DEF Pending
  <2> QED BY <1>2, <1>4, <1>6, <2>2, <2>3, AtRest, CalmWire
<1>7. CASE pump[h].phase = "dosed" /\ pump[h].lifted /\ p = [pump[h] EXCEPT !.phase = "ready"]
  <2>1. /\ p \in PumpState /\ p.lifted = pump[h].lifted /\ p.dose = pump[h].dose
        /\ p.remote = pump[h].remote /\ p.volume = pump[h].volume /\ p.phase = "ready"
    BY <1>5, <1>7 DEF PumpState
  <2>2. /\ pump' \in [Hose -> PumpState] /\ pump'[h] = p
        /\ \A g \in Hose \ {h} : pump'[g] = pump[g]
    BY <1>2, <1>4, <1>5, <2>1
  <2>3. PumpOK(h)'
    <3>1. pump[h].volume = 0 /\ fill[h] # 0
      BY <1>5, <1>7 DEF PumpOK
    <3>2. p.dose # None => p.dose > 0
      BY <2>1, MaxVolumeAssumption DEF PumpState, Dose
    <3>3. 0 <= MaxVolume
      BY MaxVolumeAssumption
    <3> QED BY <1>4, <1>7, <2>1, <2>2, <3>1, <3>2, <3>3 DEF PumpOK, ghosts
  <2>4. OnlyHose(h)
    BY <2>1, <2>2, <2>3 DEF OnlyHose
  <2>5. Sure(h) => bill[fill[h]] = <<>>
    BY <1>2, <1>5 DEF SaleOK
  <2>6. \A g \in Hose : HoseOK(g)'
    BY <1>2, <1>4, <2>4, <2>5, HosesStand DEF ghosts
  <2>7. TypesOK' /\ LaneOK(lane)' /\ Registers' /\ Books'
    BY <1>4, <2>2, AtRest DEF BlueInv, TypesOK, LaneOK, Registers, Books, LoneKeypad, ghosts
  <2>8. FillsLeft'
    <3>1. left \in Budget /\ fills \in 0 .. MaxFills
      BY DEF BlueInv, TypesOK
    <3>2. Pending' => Pending
      BY <1>2, <1>4, AtRest DEF Pending
    <3> QED BY <1>4, <3>1, <3>2, MaxFillsAssumption DEF BlueInv, FillsLeft, Budget, ghosts
  <2>9. UsedOK'
    BY <1>4, <1>5, <2>1, <2>2 DEF UsedOK
  <2> QED BY <1>4, <2>6, <2>7, <2>8, <2>9, AtRest DEF BlueInv
<1> QED BY <1>3, <1>6, <1>7 DEF PumpStart

----------------------------------------------------------------------------
(* Fills begin, are owned, and are billed. *)

(* A hose that has no part in the step. *)
LEMMA OtherHose ==
    ASSUME BlueInv, NEW g \in Hose, pump'[g] = pump[g], fill'[g] = fill[g],
           fill[g] # 0 => claim'[fill[g]] = claim[fill[g]] /\ bill'[fill[g]] = bill[fill[g]],
           LoneKeypad => left'.keypad \in {0, left.keypad},
           lane'.tx = g => /\ lane.tx = g /\ lane'.target = lane.target
                           /\ lane'.stopAck => lane.stopAck,
           lane.tx = g => lane'.tx = g
    PROVE  HoseOK(g)' /\ Sure(g)' = Sure(g) /\ Over(g)' = Over(g) /\ Unsold(g)' = Unsold(g)
<1>1. HoseOK(g)
  BY DEF BlueInv
<1>2. Sure(g)' = Sure(g) /\ Ordered(g)' = Ordered(g) /\ Over(g)' = Over(g)
      /\ Ended(g)' = Ended(g) /\ Unsold(g)' = Unsold(g)
  BY DEF Sure, Ordered, Over, Ended, Unsold, LoneKeypad
<1>3. PumpOK(g)'
  BY <1>1 DEF HoseOK, PumpOK
<1>4. KeypadOver(g)'
  BY <1>1, <1>2 DEF HoseOK, KeypadOver, LoneKeypad
<1>5. SaleOK(g)'
  <2>1. fill[g] = 0 => SaleOK(g)'
    BY <1>1, <1>2 DEF HoseOK, SaleOK, Sure, Ordered
  <2>2. fill[g] # 0 => SaleOK(g)'
    BY <1>1, <1>2 DEF HoseOK, SaleOK
  <2> QED BY <2>1, <2>2
<1> QED BY <1>2, <1>3, <1>4, <1>5 DEF HoseOK

(* A new fill is nobody's and nothing was billed of it. *)
LEMMA FreshFill ==
    ASSUME BlueInv, NEW h \in Hose, NewFill(h), UNCHANGED <<bill, claim>>, fills < MaxFills,
           LoneKeypad => ~Unbilled(h)
    PROVE  /\ fill' \in [Hose -> {0} \cup Fill] /\ fills' \in 0 .. MaxFills /\ lost' \subseteq Fill
           /\ fill'[h] # 0 /\ claim'[fill'[h]] = "none" /\ bill'[fill'[h]] = <<>>
           /\ \A g \in Hose \ {h} : fill'[g] = fill[g]
           /\ Registers' /\ (LoneKeypad => lost' = {})
<1>1. /\ fill \in [Hose -> {0} \cup Fill] /\ fills \in 0 .. MaxFills /\ lost \subseteq Fill
      /\ Registers /\ Books
  BY DEF BlueInv, TypesOK
<1>2. fills + 1 \in Fill /\ fills + 1 > fills /\ fills + 1 # 0
  BY <1>1, MaxFillsAssumption DEF Fill
<1>3. fills' = fills + 1 /\ fill' = [fill EXCEPT ![h] = fills + 1] /\ lost' \in {lost, lost \cup {fill[h]}}
  BY DEF NewFill
<1>4. /\ fill' \in [Hose -> {0} \cup Fill] /\ fill'[h] = fills + 1
      /\ \A g \in Hose \ {h} : fill'[g] = fill[g]
  BY <1>1, <1>2, <1>3
<1>5. claim[fills + 1] = "none" /\ bill[fills + 1] = <<>>
  BY <1>1, <1>2 DEF Registers
<1>6. lost' \subseteq Fill
  <2>1. Unbilled(h) => fill[h] \in Fill
    BY <1>1 DEF Unbilled
  <2> QED BY <1>1, <2>1 DEF NewFill
<1>7. fills' \in 0 .. MaxFills
  BY <1>1, <1>3, MaxFillsAssumption
<1>8. Registers'
  <2>1. ASSUME NEW g \in Hose PROVE fill'[g] <= fills'
    <3>1. CASE g = h
      BY <1>3, <1>4, <1>7, <3>1, MaxFillsAssumption
    <3>2. CASE g # h
      <4>1. fill[g] <= fills /\ fill[g] \in Nat
        BY <1>1, MaxFillsAssumption DEF Registers, Fill
      <4> QED BY <1>1, <1>3, <1>4, <3>2, <4>1, MaxFillsAssumption
    <3> QED BY <3>1, <3>2
  <2>2. ASSUME NEW g \in Hose PROVE fill[g] # fills + 1
    <3>1. fill[g] <= fills /\ fill[g] \in Nat
      BY <1>1, MaxFillsAssumption DEF Registers, Fill
    <3> QED BY <1>1, <3>1, MaxFillsAssumption
  <2>3. \A f, g \in Hose : fill'[f] = fill'[g] /\ fill'[g] # 0 => f = g
    BY <1>1, <1>4, <2>2 DEF Registers
  <2>4. \A f \in Fill : f > fills' => claim'[f] = "none" /\ bill'[f] = <<>>
    <3>1. \A f \in Fill : f > fills' => f > fills
      BY <1>1, <1>3, MaxFillsAssumption DEF Fill
    <3> QED BY <1>1, <3>1 DEF Registers
  <2> QED BY <2>1, <2>3, <2>4 DEF Registers
<1>9. LoneKeypad => lost' = {}
  BY <1>1 DEF Books, NewFill
<1> QED BY <1>2, <1>3, <1>4, <1>5, <1>6, <1>7, <1>8, <1>9

LEMMA SetDoseKeeps ==
    ASSUME BlueInv, NEW priced \in BOOLEAN, NEW sent \in BOOLEAN, NEW acked \in BOOLEAN,
           SetDose(priced, sent, acked)
    PROVE  BlueInv'
<1>1. PICK h : h = job.hose
  OBVIOUS
<1>2. /\ at = "dose" /\ h \in Hose /\ lane.reserved = h /\ lane.tx = None /\ job \in Job
      /\ lane \in LaneState /\ LaneOK(lane) /\ h # None
  BY <1>1, NoneIsApart DEF SetDose, BlueInv, PlaceOK, TypesOK, Job, LaneOK
<1>3. PICK taken \in BOOLEAN :
        /\ taken <=> priced /\ sent /\ TakesDose(pump[h])
        /\ taken => pump' = [pump EXCEPT ![h] = PumpDose(pump[h], lane.target)] /\ NewFill(h)
        /\ ~taken => UNCHANGED <<pump, fill, fills, lost>>
        /\ acked => taken
  BY <1>1 DEF SetDose
<1>4. /\ \/ acked /\ at' = "recheck" /\ job' = job /\ lane' = lane
         \/ ~acked /\ lane' = Cancelled(lane) /\ Rest
      /\ UNCHANGED <<bill, claim, used, outlived, left>>
  BY DEF SetDose, Goto, CancelOrder
<1>5. CASE ~taken
  <2>1. Memory /\ lane' = Cancelled(lane) /\ Rest
    BY <1>3, <1>4, <1>5 DEF Memory, ghosts
  <2>2. Keeps(lane') /\ lane'.reserved = None
    BY <1>2, <2>1, KeepsCancelled, ClearedLane
  <2> QED BY <2>1, <2>2, RestStep
<1>6. CASE taken
  <2>1. /\ pump' = [pump EXCEPT ![h] = PumpDose(pump[h], lane.target)] /\ NewFill(h)
        /\ TakesDose(pump[h])
    BY <1>3, <1>6
  <2>2. pump[h] \in PumpState /\ HoseOK(h) /\ pump \in [Hose -> PumpState] /\ lane.target \in Dose
    BY <1>2 DEF BlueInv, TypesOK, LaneState
  <2>3. PICK p : p = PumpDose(pump[h], lane.target)
    OBVIOUS
  <2>4. /\ p \in PumpState /\ p.phase = "dosed" /\ p.volume = 0 /\ p.dose = lane.target /\ p.remote
    <3>1. p = [pump[h] EXCEPT !.phase = "dosed", !.volume = 0, !.dose = lane.target]
      BY <2>1, <2>3 DEF PumpDose
    <3>2. pump[h].remote /\ 0 \in 0 .. (MaxVolume + 1)
      BY <2>1, MaxVolumeAssumption DEF TakesDose
    <3> QED BY <2>2, <3>1, <3>2 DEF PumpState
  <2>5. /\ pump' \in [Hose -> PumpState] /\ pump'[h] = p
        /\ \A g \in Hose \ {h} : pump'[g] = pump[g]
    <3>1. pump' = [pump EXCEPT ![h] = p]
      BY <2>1, <2>3
    <3> QED BY <1>2, <2>2, <2>4, <3>1
  <2>6. left \in Budget /\ left.orders \in Nat /\ left.keypad \in Nat /\ fills \in Nat
    BY MaxFillsAssumption DEF BlueInv, TypesOK, Budget
  <2>7. Pending /\ fills + left.orders + left.keypad + 1 <= MaxFills
    BY <1>2 DEF Pending, BlueInv, FillsLeft
  <2>8. fills < MaxFills
    BY <2>6, <2>7, MaxFillsAssumption
  <2>9. LoneKeypad => ~Unbilled(h)
    BY <1>2, <2>2 DEF Unbilled, HoseOK, SaleOK, Sure
  <2>10. /\ fill' \in [Hose -> {0} \cup Fill] /\ fills' \in 0 .. MaxFills /\ lost' \subseteq Fill
         /\ fill'[h] # 0 /\ claim'[fill'[h]] = "none" /\ bill'[fill'[h]] = <<>>
         /\ \A g \in Hose \ {h} : fill'[g] = fill[g]
         /\ Registers' /\ (LoneKeypad => lost' = {})
    <3>1. UNCHANGED <<bill, claim>>
      BY <1>4
    <3> QED BY <1>2, <2>1, <2>8, <2>9, <3>1, FreshFill
  <2>11. /\ lane' \in LaneState /\ LaneOK(lane') /\ lane'.tx = None /\ lane'.completed = None
         /\ lane.completed = None
    BY <1>2, <1>4, ClearedLane DEF LaneOK
  <2>12. job' \in Job /\ at' \in Step /\ ~Pending'
    <3>1. CASE at' = "recheck" /\ job' = job
      BY <1>2, <3>1 DEF Step, Pending
    <3>2. CASE lane' = Cancelled(lane) /\ Rest
      BY <1>2, <3>2, AtRest, ClearedLane
    <3> QED BY <1>4, <3>1, <3>2
  <2>13. TypesOK'
    BY <1>4, <2>5, <2>10, <2>11, <2>12 DEF BlueInv, TypesOK
  <2>14. FillsLeft'
    <3>1. fills' = fills + 1
      BY <2>1 DEF NewFill
    <3> QED BY <1>4, <2>6, <2>7, <2>12, <3>1, MaxFillsAssumption DEF FillsLeft
  <2>15. HoseOK(h)'
    <3>1. PumpOK(h)'
      BY <2>4, <2>5, <2>10 DEF PumpOK
    <3>2. ~Ordered(h)'
      BY <2>10 DEF Ordered
    <3>3. KeypadOver(h)'
      BY <2>4, <2>5, <3>2 DEF KeypadOver
    <3>4. SaleOK(h)'
      BY <1>2, <2>10, <2>11, <3>2 DEF SaleOK
    <3> QED BY <3>1, <3>3, <3>4 DEF HoseOK
  <2>16. ASSUME NEW g \in Hose, g # h PROVE HoseOK(g)'
    BY <1>2, <1>4, <2>5, <2>10, <2>11, <2>16, NoneIsApart, OtherHose
  <2>17. Books'
    BY <1>4, <2>10 DEF BlueInv, Books, LoneKeypad
  <2>18. UsedOK'
    BY <1>4, <2>11, UnusedLane DEF UsedOK
  <2>19. PlaceOK'
    <3>1. CASE at' = "recheck" /\ job' = job /\ lane' = lane
      <4>1. Dosed(h)'
        BY <2>4, <2>5, <2>10, <3>1 DEF Dosed
      <4> QED BY <1>1, <1>2, <3>1, <4>1 DEF PlaceOK
    <3>2. CASE Rest
      BY <3>2, AtRest
    <3> QED BY <1>4, <3>1, <3>2
  <2> QED BY <2>10, <2>11, <2>13, <2>14, <2>15, <2>16, <2>17, <2>18, <2>19 DEF BlueInv
<1> QED BY <1>5, <1>6

LEMMA KeypadFillKeeps ==
    ASSUME BlueInv, NEW h \in Hose, KeypadFill(h)
    PROVE  BlueInv'
<1>1. /\ ~pump[h].remote /\ pump[h].phase = "keyed" /\ pump[h].lifted /\ Spend("keypad")
      /\ pump' = [pump EXCEPT ![h] = PumpOwnFill(pump[h])] /\ NewFill(h)
      /\ UNCHANGED <<lane, at, job, bill, claim, used, outlived>>
  BY DEF KeypadFill
<1>2. /\ pump[h] \in PumpState /\ HoseOK(h) /\ pump \in [Hose -> PumpState] /\ left \in Budget
      /\ left.orders \in Nat /\ left.keypad \in Nat /\ fills \in Nat /\ Books
  BY MaxFillsAssumption DEF BlueInv, TypesOK, Budget
<1>3. left' \in Budget /\ left'.orders = left.orders /\ left'.keypad = left.keypad - 1
      /\ left.keypad > 0
  BY <1>1, <1>2, SpendOnce
<1>4. PICK p : p = PumpOwnFill(pump[h])
  OBVIOUS
<1>5. /\ p \in PumpState /\ p.phase = "on" /\ p.volume = 0 /\ p.dose = None /\ p.lifted
      /\ p.remote = pump[h].remote
  <2>1. 0 \in 0 .. (MaxVolume + 1) /\ None \in Dose
    BY MaxVolumeAssumption DEF Dose
  <2> QED BY <1>1, <1>2, <1>4, <2>1 DEF PumpOwnFill, PumpState
<1>6. /\ pump' \in [Hose -> PumpState] /\ pump'[h] = p
      /\ \A g \in Hose \ {h} : pump'[g] = pump[g]
  BY <1>1, <1>2, <1>4, <1>5
<1>7. fills < MaxFills
  <2>1. fills + left.orders + left.keypad <= MaxFills
    BY <1>2, MaxFillsAssumption DEF BlueInv, FillsLeft
  <2> QED BY <1>2, <1>3, <2>1, MaxFillsAssumption
<1>8. LoneKeypad => fill[h] = 0 /\ left'.keypad = 0
  <2>1. LoneKeypad => fill[h] = 0
    BY <1>1, <1>2, <1>3 DEF HoseOK, KeypadOver
  <2>2. LoneKeypad => left'.keypad = 0
    BY <1>2, <1>3 DEF Books
  <2> QED BY <2>1, <2>2
<1>9. LoneKeypad => ~Unbilled(h)
  BY <1>8 DEF Unbilled
<1>10. /\ fill' \in [Hose -> {0} \cup Fill] /\ fills' \in 0 .. MaxFills /\ lost' \subseteq Fill
       /\ fill'[h] # 0 /\ claim'[fill'[h]] = "none" /\ bill'[fill'[h]] = <<>>
       /\ \A g \in Hose \ {h} : fill'[g] = fill[g]
       /\ Registers' /\ (LoneKeypad => lost' = {})
  BY <1>1, <1>7, <1>9, FreshFill
<1>11. TypesOK'
  BY <1>1, <1>3, <1>6, <1>10 DEF BlueInv, TypesOK
<1>12. FillsLeft'
  <2>1. fills' = fills + 1 /\ (Pending' <=> Pending)
    BY <1>1 DEF NewFill, Pending
  <2> QED BY <1>2, <1>3, <2>1, MaxFillsAssumption DEF BlueInv, FillsLeft
<1>13. ~Ordered(h)' /\ (lane.tx = h => ~Sure(h)') /\ Unsold(h)'
  <2>1. ~Ordered(h)' /\ Unsold(h)'
    BY <1>10 DEF Ordered, Unsold
  <2>2. ASSUME lane.tx = h PROVE ~LoneKeypad
    BY <1>2, <1>8, <2>2 DEF HoseOK, SaleOK
  <2>3. ASSUME lane.tx = h PROVE ~Sure(h)'
    BY <1>10, <2>2, <2>3 DEF Sure, LoneKeypad
  <2> QED BY <2>1, <2>3
<1>14. HoseOK(h)'
  <2>1. PumpOK(h)'
    BY <1>5, <1>6, <1>10, MaxVolumeAssumption DEF PumpOK
  <2>2. KeypadOver(h)'
    BY <1>8, <1>13 DEF KeypadOver, LoneKeypad
  <2>3. SaleOK(h)'
    BY <1>1, <1>10, <1>13 DEF SaleOK
  <2> QED BY <2>1, <2>2, <2>3 DEF HoseOK
<1>15. ASSUME NEW g \in Hose, g # h
       PROVE  HoseOK(g)' /\ Sure(g)' = Sure(g) /\ Over(g)' = Over(g) /\ Unsold(g)' = Unsold(g)
  BY <1>1, <1>6, <1>8, <1>10, <1>15, OtherHose
<1>16. Books'
  BY <1>1, <1>8, <1>10 DEF BlueInv, Books, LoneKeypad
<1>17. UsedOK'
  BY <1>1, <1>5, <1>6 DEF BlueInv, TypesOK, UsedOK
<1>18. PlaceOK'
  <2>1. PlaceOK /\ job \in Job
    BY DEF BlueInv, TypesOK
  <2>2. AskOK => AskOK'
    <3>1. ASSUME NEW g \in Hose, NEW st, Saw(g, st) PROVE Saw(g, st)'
      BY <1>1, <1>13, <1>15, <3>1 DEF Saw
    <3> QED BY <1>1, <3>1 DEF AskOK
  <2>3. ASSUME NEW g \in Hose, Dosed(g) PROVE Dosed(g)'
    <3>1. g # h
      BY <1>1, <2>3 DEF Dosed
    <3> QED BY <1>1, <1>6, <1>10, <2>3, <3>1 DEF Dosed
  <2>4. ASSUME NEW g \in Hose, lane.tx = g, Sure(g)'
        PROVE  Sure(g) /\ pump'[g] = pump[g]
    BY <1>6, <1>13, <1>15, <2>4
  <2>5. ASSUME NEW g \in Hose, Ending(g) PROVE Ending(g)'
    BY <1>1, <2>4, <2>5 DEF Ending, Over
  <2>6. ASSUME NEW g \in Hose, lane.tx = g, Confirming(g) PROVE Confirming(g)'
    BY <1>1, <2>4, <2>6 DEF Confirming, Ended
  <2>7. Unsold(job.hose) /\ job.hose \in Hose => Unsold(job.hose)'
    BY <1>1, <1>13, <1>15
  <2>8. job.hose # None => job.hose \in Hose
    BY <2>1 DEF Job
  <2>9. Ending(job.hose) => job.hose \in Hose /\ lane.tx = job.hose
    BY <2>8 DEF Ending
  <2>10. OrderFree => OrderFree'
    BY <1>1 DEF OrderFree
  <2>11. at = "commit" =>
           (Sure(job.hose) => Ended(job.hose) /\ pump[job.hose].volume = lane.candidate)'
    BY <1>1, <2>1, <2>4, <2>8 DEF PlaceOK, Ended
  <2> QED BY <1>1, <2>1, <2>2, <2>3, <2>5, <2>6, <2>7, <2>8, <2>9, <2>10, <2>11 DEF PlaceOK
<1>19. LaneOK(lane)'
  BY <1>1 DEF BlueInv, LaneOK
<1> QED BY <1>10, <1>11, <1>12, <1>14, <1>15, <1>16, <1>17, <1>18, <1>19 DEF BlueInv

(* The loop takes the fill of a hose for its own. *)
LEMMA OwnFill ==
    ASSUME BlueInv, NEW h \in Hose, fill[h] # 0, NEW how \in {"ordered", "seen", "misjudged"},
           Own(h, how), UNCHANGED <<bill, fill, fills, lost, left>>
    PROVE  /\ claim' \in [Fill -> {"none", "ordered", "seen", "misjudged"}]
           /\ claim'[fill[h]] = IF claim[fill[h]] = "none" THEN how ELSE claim[fill[h]]
           /\ \A g \in Hose \ {h} : fill[g] # 0 => claim'[fill[g]] = claim[fill[g]]
           /\ Registers' /\ Books'
<1>1. /\ claim \in [Fill -> {"none", "ordered", "seen", "misjudged"}]
      /\ fill \in [Hose -> {0} \cup Fill] /\ fills \in 0 .. MaxFills /\ Registers /\ Books
  BY DEF BlueInv, TypesOK
<1>2. fill[h] \in Fill /\ fill[h] <= fills
  BY <1>1 DEF Registers
<1>3. /\ claim' \in [Fill -> {"none", "ordered", "seen", "misjudged"}]
      /\ claim'[fill[h]] = IF claim[fill[h]] = "none" THEN how ELSE claim[fill[h]]
      /\ \A f \in Fill : f # fill[h] => claim'[f] = claim[f]
  BY <1>1, <1>2 DEF Own
<1>4. \A g \in Hose \ {h} : fill[g] # 0 => claim'[fill[g]] = claim[fill[g]]
  BY <1>1, <1>3 DEF Registers
<1>5. Registers'
  <2>1. \A f \in Fill : f > fills => f # fill[h]
    BY <1>1, <1>2, MaxFillsAssumption DEF Fill
  <2> QED BY <1>1, <1>3, <2>1 DEF Registers
<1>6. Books'
  <2>1. \A f \in Fill : claim[f] = "misjudged" => claim'[f] = "misjudged"
    BY <1>2, <1>3
  <2> QED BY <1>1, <2>1 DEF Books, LoneKeypad
<1> QED BY <1>3, <1>4, <1>5, <1>6

(* The fill of h becomes the lane's sale. *)
LEMMA TakeOver ==
    ASSUME BlueInv, NEW h \in Hose, fill[h] # 0, lane.tx = None, lane.completed = None,
           NEW how \in {"ordered", "seen", "misjudged"}, Own(h, how),
           UNCHANGED <<pump, bill, fill, fills, lost, used, outlived, left>>,
           lane' \in LaneState, LaneOK(lane'), lane'.tx = h, lane'.target = lane.target,
           HoseOK(h)', job' \in Job, at' \in {"rest", "start", "stop"}, PlaceOK'
    PROVE  BlueInv'
<1>1. /\ claim' \in [Fill -> {"none", "ordered", "seen", "misjudged"}]
      /\ \A g \in Hose \ {h} : fill[g] # 0 => claim'[fill[g]] = claim[fill[g]]
      /\ Registers' /\ Books'
  BY OwnFill
<1>2. TypesOK'
  BY <1>1 DEF BlueInv, TypesOK, Step
<1>3. FillsLeft'
  <2>1. ~Pending' /\ left \in Budget /\ fills \in 0 .. MaxFills
    BY NoneIsApart DEF Pending, LaneOK, BlueInv, TypesOK
  <2> QED BY <2>1, MaxFillsAssumption DEF BlueInv, FillsLeft, Budget
<1>4. ASSUME NEW g \in Hose, g # h PROVE HoseOK(g)'
  BY <1>1, <1>4, NoneIsApart, OtherHose
<1>5. UsedOK'
  BY UnusedLane DEF UsedOK
<1> QED BY <1>1, <1>2, <1>3, <1>4, <1>5 DEF BlueInv

LEMMA RecheckKeeps ==
    ASSUME BlueInv, NEW heard \in BOOLEAN, Recheck(heard)
    PROVE  BlueInv'
<1>1. PICK h : h = job.hose
  OBVIOUS
<1>2. /\ at = "recheck" /\ h \in Hose /\ lane.reserved = h /\ lane.tx = None /\ Dosed(h)
      /\ lane \in LaneState /\ LaneOK(lane) /\ lane.completed = None /\ job \in Job
      /\ HoseOK(h) /\ h # None
  BY <1>1, NoneIsApart DEF Recheck, BlueInv, PlaceOK, TypesOK, Job, LaneOK
<1>3. ~PumpStatus(pump[h]).busy
  BY <1>2 DEF Dosed, PumpStatus
<1>4. \/ /\ lane' = Begun(lane, h) /\ Own(h, "ordered") /\ at' = "start" /\ job' = job
      \/ CancelOrder /\ UNCHANGED claim
  BY <1>1, <1>3 DEF Recheck, Goto
<1>5. UNCHANGED <<pump, bill, fill, fills, lost, used, outlived, left>>
  BY DEF Recheck
<1>6. CASE CancelOrder /\ UNCHANGED claim
  <2>1. Memory /\ lane' = Cancelled(lane) /\ Rest
    BY <1>5, <1>6 DEF Memory, ghosts, CancelOrder
  <2>2. Keeps(lane') /\ lane'.reserved = None
    BY <1>2, <2>1, KeepsCancelled, ClearedLane
  <2> QED BY <2>1, <2>2, RestStep
<1>7. CASE lane' = Begun(lane, h) /\ Own(h, "ordered") /\ at' = "start" /\ job' = job
  <2>1. /\ lane' \in LaneState /\ lane'.tx = h /\ lane'.reserved = None /\ lane'.completed = None
        /\ lane'.target = lane.target /\ ~lane'.stopAck
    BY <1>2, <1>7, BegunLane DEF LaneOK
  <2>2. LaneOK(lane')
    BY <1>2, <2>1 DEF LaneOK
  <2>3. fill[h] # 0 /\ claim'[fill[h]] = "ordered"
    BY <1>2, <1>5, <1>7, OwnFill DEF Dosed
  <2>4. HoseOK(h)'
    <3>1. PumpOK(h)'
      BY <1>2, <1>5 DEF HoseOK, PumpOK
    <3>2. KeypadOver(h)'
      BY <1>2, <1>5 DEF KeypadOver, Dosed, LoneKeypad
    <3>3. SaleOK(h)'
      BY <1>2, <1>5, <2>1, <2>3 DEF SaleOK, Dosed
    <3> QED BY <3>1, <3>2, <3>3 DEF HoseOK
  <2>5. PlaceOK'
    BY <1>1, <1>2, <1>7, <2>1 DEF PlaceOK
  <2> QED BY <1>2, <1>5, <1>7, <2>1, <2>2, <2>3, <2>4, <2>5, TakeOver
<1> QED BY <1>4, <1>6, <1>7

LEMMA ReadLiveKeeps ==
    ASSUME BlueInv, NEW heard \in BOOLEAN, ReadLive(heard)
    PROVE  BlueInv'
<1>1. PICK h : h = job.hose
  OBVIOUS
<1>2. /\ at = "live" /\ h \in Hose /\ h # None /\ lane.tx \in {None, h} /\ lane.completed = None
      /\ Unsold(h) /\ lane \in LaneState /\ LaneOK(lane) /\ HoseOK(h)
  BY <1>1 DEF ReadLive, BlueInv, PlaceOK, TypesOK, Job
<1>3. pump[h].volume \in Reading
  BY <1>2 DEF BlueInv, TypesOK, PumpState, Reading
<1>4. lane' = Live(lane, h, heard, pump[h].volume)
  BY <1>1 DEF ReadLive
<1>5. /\ lane' \in LaneState /\ lane'.tx = h /\ lane'.reserved = None /\ lane'.completed = None
      /\ lane'.target = lane.target /\ lane'.stopAck = lane.stopAck
  BY <1>2, <1>3, <1>4, LiveLane DEF LaneOK
<1>6. LaneOK(lane')
  BY <1>2, <1>5 DEF LaneOK
<1>7. (at' = "stop" /\ job' = [NoJob EXCEPT !.hose = h]) \/ Rest
  BY <1>1 DEF ReadLive, Goto
<1>8. job' \in Job /\ at' \in {"rest", "stop"} /\ PlaceOK'
  <2>1. CASE Rest
    BY <2>1, AtRest
  <2>2. CASE at' = "stop" /\ job' = [NoJob EXCEPT !.hose = h]
    <3>1. job' \in Job /\ job'.hose = h
      BY <1>2, <2>2, JobsAreJobs
    <3> QED BY <1>2, <1>5, <2>2, <3>1 DEF PlaceOK
  <2> QED BY <1>7, <2>1, <2>2
<1>9. UNCHANGED <<pump, bill, fill, fills, lost, used, outlived, left>>
  BY DEF ReadLive
<1>10. CASE lane.tx = h
  <2>1. Memory
    BY <1>1, <1>2, <1>9, <1>10 DEF ReadLive, Memory, ghosts
  <2>2. Keeps(lane')
    BY <1>2, <1>5, <1>6, <1>10 DEF Keeps
  <2>3. ~Pending'
    BY <1>5, <1>8 DEF Pending
  <2> QED BY <1>8, <2>1, <2>2, <2>3, MemoryStep DEF Step
<1>11. CASE lane.tx = None
  <2>1. PICK how \in {"seen", "misjudged"} :
          Own(h, how) /\ (how = "seen" => lane.target = None)
    BY <1>1, <1>11 DEF ReadLive
  <2>2. fill[h] # 0 /\ claim'[fill[h]] = IF claim[fill[h]] = "none" THEN how ELSE claim[fill[h]]
    BY <1>2, <1>9, <2>1, OwnFill DEF Unsold
  <2>3. Sure(h) => claim[fill[h]] \notin {"ordered", "seen"}
    BY <1>2, <1>11, NoneIsApart DEF HoseOK, SaleOK, Unsold
  <2>4. Sure(h)' => /\ claim'[fill[h]] = "seen" /\ lane.target = None
                    /\ bill[fill[h]] = <<>>
    <3>1. claim[fill[h]] \in {"none", "ordered", "seen", "misjudged"}
      <4>1. fill[h] \in Fill
        BY <1>2, <2>2 DEF BlueInv, TypesOK
      <4> QED BY <4>1 DEF BlueInv, TypesOK
    <3>2. claim[fill[h]] \in {"ordered", "seen"} => ~Sure(h)'
      BY <1>9, <2>2, <2>3 DEF Sure, LoneKeypad
    <3> QED BY <1>2, <1>9, <2>1, <2>2, <3>1, <3>2 DEF Sure, Unsold, LoneKeypad
  <2>5. ~lane.stopAck
    BY <1>2, <1>11 DEF LaneOK
  <2>6. HoseOK(h)'
    <3>1. PumpOK(h)'
      BY <1>2, <1>9 DEF HoseOK, PumpOK
    <3>2. ~Ordered(h)'
      BY <1>9, <2>4 DEF Ordered, Sure
    <3>3. KeypadOver(h)'
      BY <1>2, <1>9, <3>2 DEF HoseOK, KeypadOver, LoneKeypad
    <3>4. SaleOK(h)'
      BY <1>5, <1>9, <2>2, <2>4, <2>5, <3>2 DEF SaleOK
    <3> QED BY <3>1, <3>3, <3>4 DEF HoseOK
  <2> QED BY <1>2, <1>5, <1>6, <1>8, <1>9, <1>11, <2>1, <2>2, <2>6, TakeOver
<1> QED BY <1>2, <1>10, <1>11

LEMMA CommitSaleKeeps ==
    ASSUME BlueInv, CommitSale
    PROVE  BlueInv'
<1>1. PICK h : h = job.hose
  OBVIOUS
<1>2. /\ h \in Hose /\ h # None /\ lane.tx = h /\ lane.candidate # None
      /\ Sure(h) => Ended(h) /\ pump[h].volume = lane.candidate
      /\ lane \in LaneState /\ LaneOK(lane) /\ HoseOK(h)
  BY <1>1 DEF CommitSale, BlueInv, PlaceOK, TypesOK, Job
<1>3. PICK f : f = fill[h]
  OBVIOUS
<1>4. /\ fill \in [Hose -> {0} \cup Fill] /\ fills \in 0 .. MaxFills /\ Registers /\ Books
      /\ bill \in [Fill -> Seq(Reading)] /\ lane.candidate \in Reading
  BY <1>2 DEF BlueInv, TypesOK, LaneState
<1>5. f \in Fill /\ f # 0 /\ f <= fills
  BY <1>2, <1>3, <1>4 DEF HoseOK, SaleOK, Registers
<1>6. /\ bill' = [bill EXCEPT ![f] = Append(bill[f], lane.candidate)]
      /\ lane' = Completed(lane) /\ Rest /\ UNCHANGED <<pump, fill, fills, claim, lost, left>>
      /\ Held' = IF pump[h].lifted THEN Held \cup {h} ELSE Held
      /\ Turns'
  BY <1>1, <1>2, <1>3 DEF CommitSale, ghosts, BlueInv, TypesOK
<1>7. /\ bill' \in [Fill -> Seq(Reading)]
      /\ bill'[f] = Append(bill[f], lane.candidate)
      /\ \A e \in Fill : e # f => bill'[e] = bill[e]
  <2>1. bill[f] \in Seq(Reading)
    BY <1>4, <1>5
  <2>2. Append(bill[f], lane.candidate) \in Seq(Reading)
    BY <1>4, <2>1
  <2> QED BY <1>4, <1>5, <1>6, <2>2
<1>8. /\ lane' \in LaneState /\ lane'.tx = None /\ lane'.reserved = None /\ lane'.completed = h
  BY <1>2, <1>6, CompletedLane
<1>9. LaneOK(lane')
  BY <1>2, <1>8 DEF LaneOK
<1>10. Held = {} /\ Held' \subseteq {h} /\ (h \in Held' => pump[h].lifted)
  <2>1. lane.completed = None
    BY <1>2 DEF LaneOK
  <2> QED BY <1>6, <2>1, UnusedLane
<1>11. Sure(h) => bill'[f] = <<lane.candidate>> /\ bill[f] = <<>>
  <2>1. Sure(h) => bill[f] = <<>>
    BY <1>2, <1>3 DEF HoseOK, SaleOK
  <2>2. Append(<< >>, lane.candidate) = <<lane.candidate>>
    OBVIOUS
  <2>3. bill'[f] = Append(bill[f], lane.candidate)
    BY <1>7
  <2>4. bill[f] = << >> => bill'[f] = <<lane.candidate>>
    <3> SUFFICES ASSUME bill[f] = << >> PROVE bill'[f] = <<lane.candidate>>
      OBVIOUS
    <3>1. bill'[f] = Append(<< >>, lane.candidate)
      BY <2>3
    <3> QED BY <2>2, <3>1
  <2> QED BY <2>1, <2>4
<1>12. TypesOK'
  BY <1>2, <1>6, <1>7, <1>8, <1>10, AtRest DEF BlueInv, TypesOK
<1>13. FillsLeft'
  <2>1. ~Pending' /\ left \in Budget
    BY <1>6, <1>8, AtRest DEF BlueInv, TypesOK
  <2> QED BY <1>4, <1>6, <2>1, MaxFillsAssumption DEF BlueInv, FillsLeft, Budget
<1>14. Registers'
  <2>1. \A e \in Fill : e > fills => e # f
    BY <1>4, <1>5, MaxFillsAssumption DEF Fill
  <2> QED BY <1>4, <1>6, <1>7, <2>1 DEF Registers
<1>15. HoseOK(h)'
  <2>1. Sure(h)' = Sure(h) /\ Ended(h)' = Ended(h)
    BY <1>6 DEF Sure, Ended, LoneKeypad
  <2>2. PumpOK(h)'
    BY <1>2, <1>6 DEF HoseOK, PumpOK
  <2>3. KeypadOver(h)'
    BY <1>2, <1>6 DEF HoseOK, KeypadOver, Ordered, LoneKeypad
  <2>4. SaleOK(h)'
    <3>1. UNCHANGED <<pump, fill, claim, left>>
      BY <1>6
    <3>2. lane'.tx # h
      BY <1>2, <1>8
    <3>3. Sure(h) => bill'[fill'[h]] = <<pump'[h].volume>> /\ Ended(h)
      BY <1>2, <1>3, <1>11, <3>1
    <3>4. <<pump'[h].volume>> # <<>>
      OBVIOUS
    <3>5. Sure(h) => bill'[fill'[h]] # <<>>
      BY <3>3, <3>4
    <3> QED BY <2>1, <3>2, <3>3, <3>5 DEF SaleOK
  <2> QED BY <2>2, <2>3, <2>4 DEF HoseOK
<1>16. ASSUME NEW g \in Hose, g # h PROVE HoseOK(g)'
  <2>1. fill[g] # 0 => bill'[fill[g]] = bill[fill[g]]
    BY <1>2, <1>3, <1>4, <1>5, <1>7, <1>16 DEF Registers
  <2> QED BY <1>2, <1>6, <1>8, <1>16, <2>1, NoneIsApart, OtherHose
<1>17. Books'
  <2>1. ASSUME LoneKeypad, NEW e \in Fill, claim[e] # "misjudged" PROVE Len(bill'[e]) <= 1
    <3>1. CASE e = f
      <4>1. Sure(h)
        BY <1>3, <1>5, <2>1, <3>1 DEF Sure
      <4>2. Len(<<lane.candidate>>) <= 1
        OBVIOUS
      <4> QED BY <1>11, <3>1, <4>1, <4>2
    <3>2. CASE e # f
      BY <1>4, <1>7, <2>1, <3>2 DEF Books
    <3> QED BY <3>1, <3>2
  <2> QED BY <1>4, <1>6, <2>1 DEF Books, LoneKeypad
<1>18. UsedOK'
  BY <1>6, <1>8, <1>10 DEF UsedOK
<1> QED BY <1>6, <1>9, <1>12, <1>13, <1>14, <1>15, <1>16, <1>17, <1>18, AtRest DEF BlueInv

----------------------------------------------------------------------------
(* The start, the restart, and every step. *)

LEMMA CrashKeeps ==
    ASSUME BlueInv, Crash
    PROVE  BlueInv'
<1>1. /\ Spend("crashes") /\ lane' = FreshLane /\ Rest /\ Held' = {} /\ Turns'
      /\ claim' = [f \in Fill |-> IF claim[f] = "misjudged" THEN "misjudged" ELSE "none"]
      /\ UNCHANGED <<pump, bill, fill, fills, lost>>
  BY DEF Crash, BlueInv, TypesOK
<1>2. /\ left \in Budget /\ Registers /\ Books /\ fill \in [Hose -> {0} \cup Fill]
      /\ fills \in 0 .. MaxFills
  BY DEF BlueInv, TypesOK
<1>3. left' \in Budget /\ left'.orders = left.orders /\ left'.keypad = left.keypad
  BY <1>1, <1>2, SpendOnce
<1>4. /\ lane' \in LaneState /\ lane'.tx = None /\ lane'.reserved = None /\ lane'.completed = None
      /\ LaneOK(lane')
  BY <1>1, FreshIsLane DEF FreshLane, LaneOK
<1>5. /\ claim' \in [Fill -> {"none", "ordered", "seen", "misjudged"}]
      /\ \A f \in Fill : claim'[f] = IF claim[f] = "misjudged" THEN "misjudged" ELSE "none"
  BY <1>1
<1>6. TypesOK'
  BY <1>1, <1>3, <1>4, <1>5, AtRest DEF BlueInv, TypesOK
<1>7. FillsLeft'
  <2>1. ~Pending'
    BY <1>1, <1>4, AtRest
  <2> QED BY <1>1, <1>2, <1>3, <2>1, MaxFillsAssumption DEF BlueInv, FillsLeft, Budget
<1>8. Registers' /\ Books' /\ UsedOK'
  BY <1>1, <1>2, <1>3, <1>5 DEF Registers, Books, UsedOK, LoneKeypad
<1>9. ASSUME NEW h \in Hose PROVE HoseOK(h)'
  <2>1. HoseOK(h)
    BY DEF BlueInv
  <2>2. fill[h] # 0 => claim'[fill[h]] = IF claim[fill[h]] = "misjudged" THEN "misjudged" ELSE "none"
    BY <1>2, <1>5
  <2>3. ~Ordered(h)' /\ (Sure(h)' => Sure(h)) /\ (Sure(h)' => claim'[fill[h]] = "none")
    BY <1>1, <2>2 DEF Ordered, Sure, LoneKeypad
  <2>4. PumpOK(h)'
    BY <1>1, <2>1 DEF HoseOK, PumpOK
  <2>5. KeypadOver(h)'
    BY <1>1, <1>3, <2>1, <2>3 DEF HoseOK, KeypadOver, LoneKeypad
  <2>6. SaleOK(h)'
    BY <1>1, <1>4, <2>1, <2>3, NoneIsApart DEF HoseOK, SaleOK, Ended
  <2> QED BY <2>4, <2>5, <2>6 DEF HoseOK
<1> QED BY <1>1, <1>4, <1>6, <1>7, <1>8, <1>9, AtRest DEF BlueInv

LEMMA InitInv == Init => BlueInv
<1> SUFFICES ASSUME Init PROVE BlueInv
  OBVIOUS
<1>1. left \in Budget /\ left.orders + left.keypad <= MaxFills /\ (LoneKeypad => left.keypad <= 1)
  BY BudgetsAssumption DEF Init, LoneKeypad
<1>2. PumpReset \in PumpState
  BY MaxVolumeAssumption DEF PumpReset, PumpState, Dose
<1>3. lane \in LaneState /\ lane.tx = None /\ lane.reserved = None /\ lane.completed = None /\ LaneOK(lane)
  BY FreshIsLane DEF Init, FreshLane, LaneOK
<1>4. TypesOK
  <2>1. bill \in [Fill -> Seq(Reading)] /\ claim \in [Fill -> {"none", "ordered", "seen", "misjudged"}]
    BY DEF Init
  <2> QED BY <1>1, <1>2, <1>3, <2>1, NoJobIsJob, MaxFillsAssumption DEF Init, TypesOK, Step
<1>5. FillsLeft
  <2>1. ~Pending /\ fills = 0
    BY <1>3 DEF Pending, Init
  <2> QED BY <1>1, <2>1, MaxFillsAssumption DEF FillsLeft, Budget
<1>6. Registers /\ Books /\ UsedOK
  BY <1>1 DEF Init, Registers, Books, UsedOK
<1>7. ASSUME NEW h \in Hose PROVE HoseOK(h)
  <2>1. pump[h] = PumpReset /\ fill[h] = 0 /\ lane.tx # h
    BY <1>3, NoneIsApart DEF Init
  <2>2. PumpOK(h)
    BY <2>1 DEF PumpOK, PumpReset
  <2> QED BY <2>1, <2>2 DEF HoseOK, KeypadOver, SaleOK, Ordered, Sure
<1>8. PlaceOK
  BY DEF Init, PlaceOK
<1> QED BY <1>3, <1>4, <1>5, <1>6, <1>7, <1>8 DEF BlueInv

LEMMA NextKeeps == BlueInv /\ [Next]_vars => BlueInv'
<1> SUFFICES ASSUME BlueInv, [Next]_vars PROVE BlueInv'
  OBVIOUS
<1>1. CASE PollStep
  BY <1>1, BeginPollKeeps, AskKeeps, PollMissedKeeps, PollCompletedKeeps, PollFlowKeeps,
     PollSaleKeeps, PollReservedKeeps, PollIdleKeeps, ClearKeypadKeeps DEF PollStep
<1>2. CASE SaleStep
  BY <1>2, ReadLiveKeeps, StatusAfterKeeps, ReadFinalKeeps, CommitSaleKeeps, CommitFailsKeeps
  DEF SaleStep
<1>3. CASE OrderStep
  BY <1>3, OrderCommandKeeps, CheckHoseKeeps, AskSideKeeps, RecheckKeeps, PrepareKeeps,
     SetDoseKeeps, StartWireKeeps DEF OrderStep
<1>4. CASE StopStep
  BY <1>4, StopCommandKeeps, StopWireKeeps, StopEachKeeps DEF StopStep
<1>5. CASE PumpStep
  BY <1>5, CustomerKeeps, FlowKeeps, ValveShutsKeeps, KeypadDoseKeeps, KeypadFillKeeps
  DEF PumpStep
<1>6. CASE Crash
  BY <1>6, CrashKeeps
<1>7. CASE UNCHANGED vars
  <2>1. /\ Memory /\ UNCHANGED <<lane, at, job>>
    BY <1>7 DEF vars, Memory
  <2>2. Keeps(lane') /\ at' \in Step /\ job' \in Job /\ Pending' = Pending
    BY <2>1, KeepsItself DEF BlueInv, TypesOK, Pending
  <2>3. PlaceOK'
    BY <1>7 DEF BlueInv, PlaceOK, AskOK, Saw, OrderFree, Dosed, Ending, Confirming, Sure, Over,
                Ended, Unsold, LoneKeypad, vars, ghosts
  <2> QED BY <2>1, <2>2, <2>3, MemoryStep
<1> QED BY <1>1, <1>2, <1>3, <1>4, <1>5, <1>6, <1>7 DEF Next

LEMMA Invariance == Spec => []BlueInv
BY InitInv, NextKeeps, PTL DEF Spec

----------------------------------------------------------------------------
(* The theorems. *)

(* The state of a position is always one of its type: whatever the replies,    *)
(* refusals and restarts, the lane has a reservation or a sale and never both, *)
(* and close_transaction commits only the sale of the lane, with a confirmed   *)
(* reading (texnouz_bluesky.rs).                                               *)
THEOREM BlueTypes == Spec => []TypeOK
<1>1. BlueInv => TypeOK
  BY DEF BlueInv, TypesOK, TypeOK, LaneOK, PlaceOK
<1> QED BY <1>1, Invariance, PTL

(* Until the hose of a billed sale is holstered, do_authorize takes no order   *)
(* for the position and update_live starts no sale on it.                      *)
THEOREM LiftsSellOnce == Spec => []OneSalePerLift
<1>1. BlueInv => OneSalePerLift
  BY NoneIsApart DEF BlueInv, TypesOK, UsedOK, LaneOK, OneSalePerLift
<1> QED BY <1>1, Invariance, PTL

(* Fuel that start_reservation ordered runs only on the hose of the lane's     *)
(* sale and to the dose of its order, however many fills the keypads start.    *)
THEOREM DosesAreOrders == Spec => []DoseOfOrder
<1>1. ASSUME BlueInv, NEW h \in Hose, fill[h] # 0, claim[fill[h]] = "ordered",
             pump[h].phase = "ready" \/ Filling(pump[h])
      PROVE  lane.tx = h /\ pump[h].dose = lane.target
  <2>1. SaleOK(h) /\ Sure(h) /\ Ordered(h) /\ ~Ended(h)
    BY <1>1 DEF BlueInv, HoseOK, Sure, Ordered, Ended, Filling
  <2> QED BY <1>1, <2>1 DEF SaleOK
<1>2. BlueInv => DoseOfOrder
  BY <1>1 DEF DoseOfOrder
<1> QED BY <1>2, Invariance, PTL

(* A fill that the driver ordered is the lane's sale, with nothing billed of   *)
(* it, until it is billed once and with all its fuel (close_transaction).      *)
OrderKept ==
    \A h \in Hose :
        Ordered(h) =>
            \/ lane.tx = h /\ bill[fill[h]] = <<>>
            \/ Ended(h) /\ bill[fill[h]] = <<pump[h].volume>>

(* An order that was started is kept and billed right while the process lives, *)
(* without any assumption on what the keypads of the position do.              *)
THEOREM OrdersKept == Spec => []OrderKept
<1>1. ASSUME BlueInv, NEW h \in Hose, Ordered(h)
      PROVE  \/ lane.tx = h /\ bill[fill[h]] = <<>>
             \/ Ended(h) /\ bill[fill[h]] = <<pump[h].volume>>
  <2>1. SaleOK(h) /\ Sure(h) /\ claim[fill[h]] = "ordered"
    BY <1>1 DEF BlueInv, HoseOK, Sure, Ordered
  <2> QED BY <2>1 DEF SaleOK
<1>2. BlueInv => OrderKept
  BY <1>1 DEF OrderKept
<1> QED BY <1>2, Invariance, PTL

(* A fill the process started, or saw flowing, stays the lane's sale until     *)
(* close_transaction bills it, and its register is not cleared before, if no   *)
(* second fill is started from a keypad.                                       *)
THEOREM SalesOwned ==
    ASSUME LoneKeypad
    PROVE  Spec => []OwnedUntilBilled
<1>1. ASSUME BlueInv PROVE OwnedUntilBilled
  <2>1. lost = {}
    BY <1>1 DEF BlueInv, Books
  <2>2. ASSUME NEW h \in Hose, fill[h] # 0, claim[fill[h]] \in {"ordered", "seen"}
        PROVE  lane.tx = h \/ bill[fill[h]] # <<>>
    <3>1. SaleOK(h) /\ Sure(h)
      BY <1>1, <2>2 DEF BlueInv, HoseOK, Sure
    <3> QED BY <2>2, <3>1 DEF SaleOK
  <2> QED BY <2>1, <2>2 DEF OwnedUntilBilled
<1> QED BY <1>1, Invariance, PTL

(* A fill is billed once, with the reading the register ends on, if no second  *)
(* fill is started from a keypad and the fill is not taken for the remembered  *)
(* dose of an earlier order (close_transaction, preset_reached).               *)
THEOREM BillsFinal ==
    ASSUME LoneKeypad
    PROVE  Spec => []BilledFinal
<1>1. ASSUME BlueInv PROVE BilledFinal
  <2>1. \A f \in Fill : claim[f] # "misjudged" => Len(bill[f]) <= 1
    BY <1>1 DEF BlueInv, Books
  <2>2. ASSUME NEW h \in Hose, fill[h] # 0, claim[fill[h]] # "misjudged", bill[fill[h]] # <<>>
        PROVE  bill[fill[h]] = <<pump[h].volume>>
    <3>1. SaleOK(h) /\ Sure(h)
      BY <1>1, <2>2 DEF BlueInv, HoseOK, Sure
    <3> QED BY <2>2, <3>1 DEF SaleOK
  <2> QED BY <2>1, <2>2 DEF BilledFinal
<1> QED BY <1>1, Invariance, PTL
=============================================================================
