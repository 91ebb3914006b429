---------------------------- MODULE ShelfProofs ----------------------------
(***************************************************************************)
(* The orders and the sales of the Shelf side, for any guns, doses, orders *)
(* and fills. Whatever the budgets: an order is served once, at its own    *)
(* gun and with its own dose, and one that was cancelled while it waited   *)
(* is never served. For the budgets of KnownEnds: a sale is kept until it  *)
(* is billed, is billed once, and with all that flowed.                    *)
(***************************************************************************)
EXTENDS ShelfLane, FiniteSetTheorems, WellFoundedInduction, TLAPS

Served(o) == \E f \in Fill : claim[f] = o

----------------------------------------------------------------------------
(* The parts of the invariant. *)

PumpOK == pump \in [Gun -> GunState]

(* A side that has a sale, or a stop to send, knows the gun it is to be sent to; *)
(* one that waits has selected the gun it waits for.                             *)
SideOK(l) ==
    /\ l \in LaneState
    /\ l.started \/ l.tx # None \/ l.stop => l.wire \in Gun
    /\ Waiting(l) => l.nozzle = l.pre

(* An order of the queue is for the gun it names. *)
QueueOK ==
    /\ queue \in Seq(Command) /\ Len(queue) <= MaxQueue
    /\ \A i \in DOMAIN queue : queue[i].kind = "order" =>
          queue[i].for \in Gun /\ (queue[i].gun # None => queue[i].gun = queue[i].for)

BillsOK == bill \in [Fill -> Seq(Row)]

HistoryOK ==
    /\ fills \in 0 .. MaxFills
    /\ fill \in [Gun -> {0} \cup Fill] /\ \A g \in Gun : fill[g] <= fills
    /\ claim \in [Fill -> {Unclaimed, SeenOnly} \cup Fill]
    /\ orders \in Seq(Order) /\ \A f \in Fill : claim[f] <= Len(orders)
    /\ \A f \in Fill : f > fills => claim[f] \notin Fill
    /\ cleared \subseteq Fill

Job == [gun : Gun \cup {None}, todo : SUBSET Gun, retried : BOOLEAN,
        next : {"leave", "tail", "each"}]

(* What the loop holds at each of its steps. *)
JobOK ==
    /\ job \in Job
    /\ at \in {"rest", "poll", "status", "price", "dose", "amount", "commit", "stop", "each"}
    /\ at \notin {"rest", "poll"} => job.gun \in Gun
    /\ at = "price" => Waiting(lane)
    /\ at \in {"status", "price"} /\ Waiting(lane) => job.gun = lane.pre
    /\ at = "dose" => lane.started /\ lane.tx = job.gun
    /\ at = "commit" => lane.final # None

(* The order of the lane asks for the dose of the lane, at gun g if it names one. *)
Agrees(g) ==
    /\ orders[lane.order].dose = lane.dose
    /\ orders[lane.order].named => orders[lane.order].gun = g

(* A dose is sent to the gun of its order, which is not idle once it has taken it. *)
Sent ==
    at = "dose" =>
        /\ lane.order > 0 /\ Agrees(job.gun) /\ ~orders[lane.order].cancelled
        /\ Served(lane.order) => pump[job.gun].phase # "Idle"

(* An order that waits is not served, and its cancellation is known to the lane.   *)
OrderOK ==
    /\ lane.order <= Len(orders)
    /\ Waiting(lane) =>
          /\ lane.order > 0 /\ ~Served(lane.order)
          /\ Agrees(lane.pre)
          /\ orders[lane.order].cancelled => lane.cancel
    /\ Sent

(* What is still to come fits the bound of the model. *)
OrdersIn(q) == Cardinality({i \in DOMAIN q : q[i].kind = "order"})
Asked == OrdersIn(queue)
Pending == IF lane.order # 0 /\ ~Served(lane.order) THEN 1 ELSE 0

Load == fills + Pending + Asked + left.named + left.reactive + left.keypad
Lighter == Load' <= Load

Counted ==
    /\ left \in Budget
    /\ fills + Pending + Asked + left.named + left.reactive + left.keypad <= MaxFills
    /\ Len(orders) + Asked + left.named + left.reactive <= MaxFills

Parts ==
    PumpOK /\ SideOK(lane) /\ QueueOK /\ BillsOK /\ HistoryOK /\ JobOK /\ OrderOK /\ Counted

OrdersInv == Parts /\ CancelWins /\ ServedOnce

----------------------------------------------------------------------------
(* The updates of the lane.  None of them makes it wait for an order that it  *)
(* does not wait for already, or forget a cancellation while it waits.        *)

Follows(l, m) ==
    /\ SideOK(m)
    /\ m.order \in {0, l.order}
    /\ Waiting(m) =>
          /\ Waiting(l) /\ m.pre = l.pre /\ m.order = l.order /\ m.dose = l.dose
          /\ l.cancel => m.cancel

LEMMA FollowsItself ==
    ASSUME NEW l, SideOK(l)
    PROVE  Follows(l, l)
BY DEF Follows

LEMMA FollowsOn ==
    ASSUME NEW l, NEW m, NEW n, Follows(l, m), Follows(m, n)
    PROVE  Follows(l, n)
BY DEF Follows

LEMMA NoneIsNoGun == None \notin Gun
BY Zenon, GunAssumption, NoneAssumption

LEMMA CancelledFollows ==
    ASSUME NEW l, SideOK(l)
    PROVE  Follows(l, Cancelled(l)) /\ ~Waiting(Cancelled(l)) /\ Cancelled(l).pre = None
BY DEF Follows, SideOK, Waiting, Cancelled, Cleared, LaneState

LEMMA CancelAppliedFollows ==
    ASSUME NEW l, SideOK(l)
    PROVE  Follows(l, CancelApplied(l))
<1> DEFINE m == [l EXCEPT !.cancel = FALSE]
<1>1. /\ m \in LaneState /\ m.started = l.started /\ m.tx = l.tx /\ m.pre = l.pre /\ m.stop = l.stop
      /\ m.wire = l.wire /\ m.order = l.order
  BY DEF SideOK, LaneState
<1> HIDE DEF m
<1>2. CASE ~m.started /\ m.tx = None /\ m.pre # None
  <2>1. CancelApplied(l) = Cancelled(m)
    BY <1>2 DEF CancelApplied, m
  <2> QED BY <1>1, <1>2, <2>1 DEF Follows, SideOK, Waiting, Cancelled, Cleared, LaneState
<1>3. CASE ~m.started /\ m.tx = None /\ m.pre = None
  <2>1. CancelApplied(l) = m
    BY <1>3 DEF CancelApplied, m
  <2> QED BY <1>1, <1>3, <2>1 DEF Follows, SideOK, Waiting
<1>4. CASE m.started \/ m.tx # None
  <2>1. CancelApplied(l) = [m EXCEPT !.stop = TRUE, !.status = "Finalizing"]
    BY <1>4 DEF CancelApplied, m
  <2> QED BY <1>1, <1>4, <2>1 DEF Follows, SideOK, Waiting, LaneState
<1> QED BY <1>2, <1>3, <1>4

LEMMA ShownUpFollows ==
    ASSUME NEW l, SideOK(l), NEW g \in Gun, Waiting(l) => g = l.pre
    PROVE  Follows(l, ShownUp(l, g))
BY DEF Follows, SideOK, Waiting, ShownUp, LaneState

LEMMA LiveFollows ==
    ASSUME NEW l, SideOK(l), NEW g \in Gun
    PROVE  Follows(l, Live(l, g))
BY NoneIsNoGun DEF Follows, SideOK, Waiting, Live, LaneState

LEMMA IdledFollows ==
    ASSUME NEW l, SideOK(l)
    PROVE  Follows(l, Idled(l))
<1>1. CASE l.pre # None \/ l.tx # None \/ l.started
  BY <1>1, FollowsItself DEF Idled
<1>2. CASE ~(l.pre # None \/ l.tx # None \/ l.started)
  <2>1. Idled(l) = [l EXCEPT !.status = "Idle", !.nozzle = None]
    BY <1>2 DEF Idled
  <2> QED BY <1>2, <2>1 DEF Follows, SideOK, Waiting, LaneState
<1> QED BY <1>1, <1>2

LEMMA StartingFollows ==
    ASSUME NEW l, SideOK(l), NEW g \in Gun
    PROVE  Follows(l, Starting(l, g)) /\ Starting(l, g).started /\ Starting(l, g).tx = g
           /\ Starting(l, g).order = l.order /\ Starting(l, g).dose = l.dose
BY NoneIsNoGun DEF Follows, SideOK, Waiting, Starting, LaneState

LEMMA PinnedFollows ==
    ASSUME NEW l, SideOK(l), NEW g \in Gun, Waiting(l) => g = l.pre, NEW sale \in Sale
    PROVE  Follows(l, Pinned(l, g, sale)) /\ Pinned(l, g, sale).final # None
BY NoneIsApart DEF Follows, SideOK, Waiting, Pinned, LaneState

LEMMA ClosedFollows ==
    ASSUME NEW l, SideOK(l), NEW g \in Gun
    PROVE  Follows(l, Closed(l, g))
<1>1. /\ Closed(l, g) \in LaneState /\ Closed(l, g).pre = None /\ Closed(l, g).order = 0
      /\ ~Closed(l, g).started /\ ~Closed(l, g).stop /\ Closed(l, g).tx = None
  <2> DEFINE m == Cleared(l)
             n == IF l.tx # None THEN l.tx ELSE g
  <2>1. m \in LaneState /\ ~m.started /\ ~m.stop
    BY DEF SideOK, Cleared, LaneState
  <2>2. n \in Gun \cup {None} /\ l.cancel \in BOOLEAN
    BY DEF SideOK, LaneState
  <2>3. Closed(l, g) = [m EXCEPT !.cancel = l.cancel, !.status = "Done", !.tx = None,
                                 !.pre = None, !.order = 0, !.nozzle = n]
    BY DEF Closed
  <2> HIDE DEF m, n
  <2> DEFINE k == [m EXCEPT !.cancel = l.cancel, !.status = "Done", !.nozzle = n]
  <2>4. k \in LaneState /\ ~k.started /\ ~k.stop
    BY <2>1, <2>2 DEF LaneState
  <2>5. Closed(l, g) = [k EXCEPT !.tx = None, !.pre = None, !.order = 0]
    BY <2>1, <2>3 DEF LaneState
  <2> HIDE DEF k
  <2> QED BY <2>4, <2>5 DEF LaneState
<1> QED BY <1>1 DEF Follows, SideOK, Waiting

(* The marks of the lane beside its order. *)
LEMMA MarkedFollows ==
    ASSUME NEW l, SideOK(l)
    PROVE  /\ \A b \in BOOLEAN : Follows(l, [l EXCEPT !.paced = b])
           /\ Follows(l, [l EXCEPT !.cancel = TRUE])
           /\ Follows(l, [l EXCEPT !.status = "Offline"])
           /\ \A sale \in Sale \cup {None} : Follows(l, [l EXCEPT !.final = sale])
<1>1. ASSUME NEW b \in BOOLEAN PROVE Follows(l, [l EXCEPT !.paced = b])
  BY DEF Follows, SideOK, Waiting, LaneState
<1>2. Follows(l, [l EXCEPT !.cancel = TRUE])
  BY DEF Follows, SideOK, Waiting, LaneState
<1>3. Follows(l, [l EXCEPT !.status = "Offline"])
  BY DEF Follows, SideOK, Waiting, LaneState
<1>4. ASSUME NEW sale \in Sale \cup {None} PROVE Follows(l, [l EXCEPT !.final = sale])
  BY DEF Follows, SideOK, Waiting, LaneState
<1> QED BY <1>1, <1>2, <1>3, <1>4

----------------------------------------------------------------------------
(* Where a step of the loop leaves the task. *)

(* The first gun of a set is one of it. *)
LEMMA FirstInSet ==
    ASSUME NEW S \in SUBSET Gun, S # {}
    PROVE  First(S) \in S
<1> DEFINE R == OpToRel(<, Nat)
<1> S \subseteq Nat
  BY Zenon, GunAssumption
<1>1. IsWellFoundedOn(R, Nat)
  BY NatLessThanWellFounded
<1>2. \A x, y \in Nat : <<x, y>> \in R <=> x < y
  BY DEF OpToRel
<1> HIDE DEF R
<1>3. \E x \in S : \A y \in S : ~(<<y, x>> \in R)
  BY <1>1, WFMin
<1>4. PICK x \in S : \A y \in S : ~(<<y, x>> \in R)
  BY <1>3
<1>5. \A y \in S : x <= y
  <2> TAKE y \in S
  <2>1. x \in Nat /\ y \in Nat
    OBVIOUS
  <2>2. ~(y < x)
    BY <1>2, <1>4, <2>1
  <2> QED BY <2>1, <2>2
<1>6. (CHOOSE g \in S : \A h \in S : g <= h) \in S
  <2>1. \E g \in S : \A h \in S : g <= h
    BY <1>4, <1>5
  <2> QED BY <2>1, Zenon
<1> QED BY <1>6 DEF First

Lands(l) ==
    /\ lane' = l \/ lane' = [l EXCEPT !.paced = TRUE]
    /\ job' \in Job
    /\ at' \in {"rest", "status", "stop"}
    /\ at' # "rest" => job'.gun \in Gun
    /\ at' = "status" => l.pre = None

LEMMA NoJobIsJob == NoJob \in Job
BY DEF NoJob, Job

LEMMA LeaveLands ==
    ASSUME job \in Job, NEW l, lane' = l, Leave(l)
    PROVE  Lands(l)
<1>1. CASE l.nozzle = None /\ l.pre = None /\ l.tx = None /\ job.todo # {}
  <2> DEFINE g == First(job.todo)
  <2>1. job.todo \subseteq Gun /\ g \in Gun
    BY <1>1, FirstInSet DEF Job
  <2>2. at' = "status" /\ job' = [NoJob EXCEPT !.gun = g, !.todo = job.todo \ {g}]
    BY <1>1 DEF Leave, Goto
  <2> HIDE DEF g
  <2> QED BY <1>1, <2>1, <2>2 DEF Lands, NoJob, Job
<1>2. CASE ~(l.nozzle = None /\ l.pre = None /\ l.tx = None /\ job.todo # {})
  BY <1>2, NoJobIsJob DEF Leave, Rest, Goto, Lands
<1> QED BY <1>1, <1>2

LEMMA StopLands ==
    ASSUME job \in Job, NEW l, SideOK(l), StopDue(l),
           NEW next \in {"leave", "tail", "each"},
           lane' = [l EXCEPT !.paced = TRUE], at' = "stop",
           job' = [job EXCEPT !.gun = l.wire, !.next = next, !.retried = FALSE]
    PROVE  Lands(l)
BY DEF StopDue, SideOK, Lands, Job

LEMMA PollEndsLands ==
    ASSUME job \in Job, NEW l, SideOK(l), PollEnds(l)
    PROVE  Lands(l)
<1>1. CASE StopDue(l)
  BY <1>1, StopLands DEF PollEnds, StopThen, Goto
<1>2. CASE ~StopDue(l)
  BY <1>2, LeaveLands DEF PollEnds, StopThen
<1> QED BY <1>1, <1>2

(* The loop goes on with what the lane has become. *)
Settled == Follows(lane, lane') /\ JobOK' /\ at' # "dose"

LEMMA LandedSettled ==
    ASSUME NEW l, Follows(lane, l), Lands(l)
    PROVE  Settled
<1>1. Follows(lane, lane')
  <2>1. SideOK(l)
    BY DEF Follows
  <2>2. Follows(l, lane')
    BY <2>1, MarkedFollows, FollowsItself DEF Lands
  <2> QED BY <2>2, FollowsOn
<1>2. lane'.pre = l.pre
  <2>1. l \in LaneState
    BY DEF Follows, SideOK
  <2>2. [l EXCEPT !.paced = TRUE].pre = l.pre
    BY <2>1 DEF LaneState
  <2> QED BY <2>2 DEF Lands
<1> QED BY <1>1, <1>2 DEF Lands, Settled, JobOK, Waiting

LEMMA PollEndsSettled ==
    ASSUME job \in Job, NEW l, Follows(lane, l), PollEnds(l)
    PROVE  Settled
BY PollEndsLands, LandedSettled DEF Follows

LEMMA LeaveSettled ==
    ASSUME job \in Job, NEW l, Follows(lane, l), lane' = l, Leave(l)
    PROVE  Settled
BY LeaveLands, LandedSettled

LEMMA CancelSettled ==
    ASSUME job \in Job, NEW l, Follows(lane, l), Cancel(l)
    PROVE  Settled
<1> DEFINE m == CancelApplied(l)
<1>1. Follows(lane, m) /\ SideOK(m)
  BY CancelAppliedFollows, FollowsOn DEF Follows
<1>2. CASE StopDue(m)
  BY <1>1, <1>2, StopLands, LandedSettled DEF Cancel, StopThen, Goto
<1>3. CASE ~StopDue(m)
  BY <1>1, <1>3, LeaveSettled DEF Cancel, StopThen
<1> QED BY <1>2, <1>3

LEMMA CloseSettled ==
    ASSUME job \in Job, NEW l, Follows(lane, l), l.final # None, NEW g \in Gun, Close(l, g)
    PROVE  Settled
<1>1. CASE l.final.volume = 0 /\ l.tx = None
  <2> DEFINE k == [l EXCEPT !.final = None]
  <2>1. Follows(l, k)
    BY MarkedFollows DEF Follows
  <2> HIDE DEF k
  <2>2. Follows(lane, Idled(k))
    <3>1. Follows(lane, k) /\ SideOK(k)
      BY <2>1, FollowsOn DEF Follows
    <3>2. Follows(k, Idled(k))
      BY <3>1, IdledFollows
    <3> QED BY <3>1, <3>2, FollowsOn
  <2>3. lane' = Idled(k) /\ Leave(Idled(k))
    BY <1>1 DEF Close, k
  <2> QED BY <2>2, <2>3, LeaveSettled
<1>2. CASE ~(l.final.volume = 0 /\ l.tx = None)
  <2>1. lane' = l /\ at' = "commit" /\ job' = [job EXCEPT !.gun = g, !.retried = FALSE]
    BY <1>2 DEF Close, Goto
  <2>2. job' \in Job /\ job'.gun = g
    BY <2>1 DEF Job
  <2> QED BY <2>1, <2>2 DEF Settled, JobOK
<1> QED BY <1>1, <1>2

----------------------------------------------------------------------------
(* A step that serves no order and takes none. *)

SameOrders ==
    /\ orders' \in Seq(Order) /\ Len(orders') = Len(orders)
    /\ \A o \in 1 .. Len(orders) :
          /\ orders'[o].gun = orders[o].gun /\ orders'[o].named = orders[o].named
          /\ orders'[o].dose = orders[o].dose
          /\ orders'[o].cancelled =>
                orders[o].cancelled \/ (Waiting(lane) /\ o = lane.order /\ lane'.cancel)

SameClaims ==
    /\ claim' \in [Fill -> {Unclaimed, SeenOnly} \cup Fill]
    /\ \A f \in Fill : claim[f] \in Fill \/ claim'[f] \in Fill => claim'[f] = claim[f]

(* A dose that is being sent stays as it is. *)
Dosing ==
    at' = "dose" =>
        /\ at = "dose" /\ job'.gun = job.gun
        /\ lane'.order = lane.order /\ lane'.dose = lane.dose
        /\ pump'[job.gun].phase = "Idle" => pump[job.gun].phase = "Idle"

Fewer ==
    /\ left' \in Budget /\ left'.keypad <= left.keypad
    /\ left'.named + left'.reactive + Asked' <= left.named + left.reactive + Asked

CalmStep ==
    /\ Follows(lane, lane') /\ SameOrders /\ SameClaims /\ (Dosing \/ Sent') /\ Fewer
    /\ UNCHANGED <<fill, fills>> /\ cleared' \subseteq Fill
    /\ PumpOK' /\ \A g \in Gun : pump'[g].dose = pump[g].dose
    /\ QueueOK' /\ BillsOK' /\ JobOK'

LEMMA OrdersInNat ==
    ASSUME NEW q \in Seq(Command)
    PROVE  OrdersIn(q) \in Nat /\ IsFiniteSet({i \in DOMAIN q : q[i].kind = "order"})
<1>1. IsFiniteSet(1 .. Len(q)) /\ DOMAIN q = 1 .. Len(q) /\ Len(q) \in Nat
  BY FS_Interval
<1>2. IsFiniteSet({i \in DOMAIN q : q[i].kind = "order"})
  BY <1>1, FS_Subset
<1> QED BY <1>2, FS_CardinalityType DEF OrdersIn

LEMMA SameServed ==
    ASSUME SameClaims, claim \in [Fill -> {Unclaimed, SeenOnly} \cup Fill], NEW o \in Fill
    PROVE  Served(o)' <=> Served(o)
BY DEF Served, SameClaims

(* What is still to come has not grown. *)
LEMMA SmallerSums ==
    ASSUME NEW a \in Nat, NEW b \in Nat, NEW c \in Nat, NEW d \in Nat, NEW e \in Nat, NEW f \in Nat,
           NEW b1 \in Nat, NEW c1 \in Nat, NEW d1 \in Nat, NEW e1 \in Nat, NEW f1 \in Nat,
           NEW o \in Nat, NEW n \in Nat, b1 <= b, d1 + e1 + c1 <= d + e + c, f1 <= f,
           a + b + c + d + e + f <= n, o + c + d + e <= n
    PROVE  /\ a + b1 + c1 + d1 + e1 + f1 <= n /\ o + c1 + d1 + e1 <= n
           /\ a + b1 + c1 + d1 + e1 + f1 <= a + b + c + d + e + f
OBVIOUS

LEMMA CalmKeeps ==
    ASSUME OrdersInv, CalmStep
    PROVE  OrdersInv' /\ Lighter
<1> /\ PumpOK /\ SideOK(lane) /\ QueueOK /\ HistoryOK /\ JobOK /\ OrderOK /\ Counted
  BY DEF OrdersInv, Parts
<1> /\ Follows(lane, lane') /\ SameOrders /\ SameClaims /\ Fewer
    /\ fill' = fill /\ fills' = fills /\ cleared' \subseteq Fill
    /\ PumpOK' /\ QueueOK' /\ BillsOK' /\ JobOK'
  BY DEF CalmStep
<1>1. \A o \in Fill : Served(o)' <=> Served(o)
  BY SameServed DEF HistoryOK
<1>2. SideOK(lane')
  BY DEF Follows
<1>3. HistoryOK'
  <2>1. \A f \in Fill : claim'[f] <= Len(orders') /\ (f > fills => claim'[f] \notin Fill)
    BY DEF HistoryOK, SameClaims, SameOrders, Unclaimed, SeenOnly, Fill
  <2> QED BY <2>1 DEF HistoryOK, SameClaims, SameOrders
<1>4. lane.order \in {0} \cup Fill /\ lane'.order \in {0, lane.order} /\ Len(orders) \in Nat
  BY DEF SideOK, LaneState, Follows, HistoryOK
<1>5. OrderOK'
  <2>1. lane'.order <= Len(orders')
    BY <1>4 DEF OrderOK, Sent, SameOrders, Fill
  <2>2. ASSUME Waiting(lane')
        PROVE  /\ lane'.order > 0 /\ ~Served(lane.order)' /\ Agrees(lane.pre)'
               /\ orders'[lane'.order].cancelled => lane'.cancel
    <3>1. /\ Waiting(lane) /\ lane'.pre = lane.pre /\ lane'.order = lane.order
          /\ lane'.dose = lane.dose /\ (lane.cancel => lane'.cancel)
      BY <2>2 DEF Follows
    <3>2. PICK o \in Fill : o = lane.order /\ o \in 1 .. Len(orders)
      BY <1>4, <3>1 DEF OrderOK, Sent, Fill
    <3>3. Agrees(lane.pre)'
      BY <3>1, <3>2 DEF OrderOK, Sent, Agrees, SameOrders
    <3>4. ~Served(o)'
      BY <1>1, <3>1, <3>2 DEF OrderOK, Sent
    <3>5. orders'[o].cancelled => lane'.cancel
      BY <3>1, <3>2 DEF OrderOK, Sent, SameOrders
    <3> QED BY <3>1, <3>2, <3>3, <3>4, <3>5 DEF Fill
  <2>3. ASSUME at' = "dose", Dosing
        PROVE  /\ lane'.order > 0 /\ Agrees(job.gun)' /\ ~orders'[lane'.order].cancelled
               /\ Served(lane.order)' => pump'[job'.gun].phase # "Idle"
    <3>1. /\ at = "dose" /\ job'.gun = job.gun /\ lane'.order = lane.order
          /\ lane'.dose = lane.dose /\ ~Waiting(lane)
      BY <2>3 DEF Dosing, JobOK, Waiting
    <3>2. PICK o \in Fill : o = lane.order /\ o \in 1 .. Len(orders)
      BY <1>4, <3>1 DEF OrderOK, Sent, Fill
    <3>3. Agrees(job.gun)'
      BY <3>1, <3>2 DEF OrderOK, Sent, Agrees, SameOrders
    <3>4. Served(o)' => pump'[job'.gun].phase # "Idle"
      BY <1>1, <2>3, <3>1, <3>2 DEF OrderOK, Sent, Dosing
    <3>5. ~orders'[o].cancelled
      BY <3>1, <3>2 DEF OrderOK, Sent, SameOrders
    <3> QED BY <3>1, <3>2, <3>3, <3>4, <3>5 DEF Fill
  <2>4. Sent'
    BY <2>3 DEF CalmStep, Sent
  <2> QED BY <2>1, <2>2, <2>4 DEF OrderOK
<1>6. Counted' /\ Lighter
  <2>1. Pending' <= Pending /\ Pending \in 0 .. 1 /\ Pending' \in 0 .. 1
    BY <1>1, <1>4 DEF Pending
  <2>2. Asked \in Nat /\ Asked' \in Nat
    BY OrdersInNat DEF Asked, QueueOK
  <2>3. /\ left'.named \in Nat /\ left'.reactive \in Nat /\ left'.keypad \in Nat
        /\ left.named \in Nat /\ left.reactive \in Nat /\ left.keypad \in Nat /\ fills \in Nat
    BY MaxFillsAssumption DEF Fewer, Counted, Budget, HistoryOK
  <2>4. /\ fills + Pending + Asked + left.named + left.reactive + left.keypad <= MaxFills
        /\ Len(orders) + Asked + left.named + left.reactive <= MaxFills
    BY DEF Counted
  <2>5. /\ left'.keypad <= left.keypad /\ Len(orders') = Len(orders)
        /\ left'.named + left'.reactive + Asked' <= left.named + left.reactive + Asked
    BY DEF Fewer, SameOrders
  <2>6. /\ fills + Pending' + Asked' + left'.named + left'.reactive + left'.keypad <= MaxFills
        /\ Len(orders') + Asked' + left'.named + left'.reactive <= MaxFills
        /\ fills + Pending' + Asked' + left'.named + left'.reactive + left'.keypad
             <= fills + Pending + Asked + left.named + left.reactive + left.keypad
    <3>1. PICK p, q, a, b : p = Pending /\ q = Pending' /\ a = Asked /\ b = Asked'
      OBVIOUS
    <3>2. PICK d, e, f, d1, e1, f1 :
             /\ d = left.named /\ e = left.reactive /\ f = left.keypad
             /\ d1 = left'.named /\ e1 = left'.reactive /\ f1 = left'.keypad
      OBVIOUS
    <3>3. PICK o, o1, s : o = Len(orders) /\ o1 = Len(orders') /\ s = fills
      OBVIOUS
    <3>4. /\ s \in Nat /\ p \in Nat /\ q \in Nat /\ a \in Nat /\ b \in Nat /\ MaxFills \in Nat
          /\ d \in Nat /\ e \in Nat /\ f \in Nat /\ d1 \in Nat /\ e1 \in Nat /\ f1 \in Nat
          /\ o \in Nat /\ o1 = o /\ q <= p /\ f1 <= f
      BY <1>4, <2>1, <2>2, <2>3, <2>5, <3>1, <3>2, <3>3, MaxFillsAssumption
    <3>5. s + p + a + d + e + f <= MaxFills /\ o + a + d + e <= MaxFills
      BY Zenon, <2>4, <3>1, <3>2, <3>3
    <3>6. d1 + e1 + b <= d + e + a
      BY Zenon, <2>5, <3>1, <3>2
    <3>7. /\ s + q + b + d1 + e1 + f1 <= MaxFills /\ o1 + b + d1 + e1 <= MaxFills
          /\ s + q + b + d1 + e1 + f1 <= s + p + a + d + e + f
      BY <3>4, <3>5, <3>6, SmallerSums
    <3> QED BY Zenon, <3>7, <3>1, <3>2, <3>3
  <2> QED BY <2>6 DEF Counted, Fewer, Lighter, Load
<1>7. CancelWins'
  <2> SUFFICES ASSUME NEW f \in Fill, claim'[f] \in Fill, orders'[claim'[f]].cancelled
               PROVE  FALSE
    BY DEF CancelWins
  <2>1. claim'[f] = claim[f] /\ claim[f] \in 1 .. Len(orders)
    BY DEF SameClaims, HistoryOK, Fill
  <2>2. ~(Waiting(lane) /\ claim[f] = lane.order)
    BY DEF OrderOK, Served
  <2> QED BY <2>1, <2>2 DEF SameOrders, OrdersInv, CancelWins
<1>8. ServedOnce'
  <2>1. ASSUME NEW f \in Fill, NEW e \in Fill, claim'[f] \in Fill, claim'[f] = claim'[e]
        PROVE  f = e
    BY <2>1 DEF SameClaims, OrdersInv, ServedOnce
  <2>2. ASSUME NEW g \in Gun, fill'[g] # 0, claim'[fill'[g]] \in Fill,
               orders'[claim'[fill'[g]]].named
        PROVE  orders'[claim'[fill'[g]]].gun = g
               /\ pump'[g].dose = orders'[claim'[fill'[g]]].dose
    <3>1. fill[g] \in Fill /\ claim'[fill[g]] = claim[fill[g]]
          /\ claim[fill[g]] \in 1 .. Len(orders)
      BY <2>2 DEF SameClaims, HistoryOK, Fill
    <3> QED BY <2>2, <3>1 DEF SameOrders, OrdersInv, ServedOnce, CalmStep
  <2> QED BY <2>1, <2>2 DEF ServedOnce
<1> QED BY <1>2, <1>3, <1>5, <1>6, <1>7, <1>8 DEF OrdersInv, Parts

----------------------------------------------------------------------------
(* The guns of the side. *)

(* What p may have become of q, without a new fill. *)
SameFill(q, p) == p \in GunState /\ p.dose = q.dose /\ (p.phase = "Idle" => q.phase = "Idle")

LEMMA GunKeeps ==
    ASSUME NEW q \in GunState
    PROVE  /\ SameFill(q, q) /\ SameFill(q, GunLift(q)) /\ SameFill(q, GunHolster(q))
           /\ SameFill(q, GunStop(q)) /\ SameFill(q, [q EXCEPT !.paused = TRUE])
           /\ q.phase = "Synchronizing" => SameFill(q, [q EXCEPT !.phase = "Final"])
           /\ q.phase = "Idle" => SameFill(q, [q EXCEPT !.phase = "Keypad"])
BY DEF SameFill, GunState, GunLift, GunHolster, GunStop, Filling, Finished

LEMMA GunFlows ==
    ASSUME NEW q \in GunState, q.volume < MaxVolume
    PROVE  SameFill(q, [q EXCEPT !.volume = @ + 1]) /\ SameFill(q, GunFlow(q))
<1> DEFINE p == [q EXCEPT !.volume = @ + 1]
<1>1. SameFill(q, p)
  BY MaxVolumeAssumption DEF SameFill, GunState, Volume
<1>2. GunFlow(q) = p \/ GunFlow(q) = Finished(p)
  BY DEF GunFlow
<1> HIDE DEF p
<1> QED BY <1>1, <1>2 DEF SameFill, GunState, Finished, p

LEMMA GunTells ==
    ASSUME NEW q \in GunState
    PROVE  GunTold(q) \in GunState /\ GunTold(q).dose = q.dose
BY DEF GunState, GunTold

LEMMA GunDoses ==
    ASSUME NEW q \in GunState, NEW dose \in Dose
    PROVE  /\ GunDose(q, dose) \in GunState /\ GunDose(q, dose).dose = dose
           /\ GunDose(q, dose).phase # "Idle"
<1> DEFINE ph == IF q.lifted THEN "Dispensing" ELSE "Armed"
           k == [q EXCEPT !.volume = 0, !.dose = dose]
           j == [q EXCEPT !.dose = dose]
<1> HIDE DEF ph
<1>1. j \in GunState /\ j.dose = dose
  BY DEF GunState
<1>2. 0 \in Volume
  BY MaxVolumeAssumption DEF Volume
<1>3. k = [j EXCEPT !.volume = 0]
  BY DEF GunState
<1> HIDE DEF j, k
<1>4. k \in GunState /\ k.dose = dose
  BY <1>1, <1>2, <1>3 DEF GunState
<1>5. ph \in {"Dispensing", "Armed"}
  BY DEF ph
<1>6. GunDose(q, dose) = [k EXCEPT !.phase = ph]
  BY DEF GunDose, GunState, k, ph
<1> QED BY <1>4, <1>5, <1>6 DEF GunState

(* The guns as the loop may find them, and the ones another step leaves. *)
SameDoses == PumpOK' /\ \A g \in Gun : pump'[g].dose = pump[g].dose

LEMMA OneGun ==
    ASSUME PumpOK, NEW g \in Gun, NEW p \in GunState, p.dose = pump[g].dose,
           pump' = [pump EXCEPT ![g] = p]
    PROVE  SameDoses
BY DEF SameDoses, PumpOK

LEMMA SameGuns ==
    ASSUME PumpOK, UNCHANGED pump
    PROVE  SameDoses
BY DEF SameDoses, PumpOK

LEMMA SaleOfGun ==
    ASSUME PumpOK, HistoryOK, NEW g \in Gun
    PROVE  SaleOf(g) \in Sale
BY DEF SaleOf, Sale, PumpOK, GunState, HistoryOK

LEMMA ReplyOfGun ==
    ASSUME NEW g \in Gun, NEW r \in Answers(pump, g)
    PROVE  r.of \in Gun \cup {None}
<1>1. \A h \in Gun : OwnReply(pump, h).of \in Gun \cup {None}
  BY DEF OwnReply
<1>2. \A h \in Gun : [OwnReply(pump, h) EXCEPT !.kind = "Synchronizing"].of = OwnReply(pump, h).of
  BY DEF OwnReply
<1>3. \A q \in {OwnReply(pump, g)} \cup SharedReplies(pump, g) :
         q.of \in Gun \cup {None} /\ Aggregate(q).of \in Gun \cup {None}
  <2> TAKE q \in {OwnReply(pump, g)} \cup SharedReplies(pump, g)
  <2>1. PICK h \in Gun :
           q = OwnReply(pump, h) \/ q = [OwnReply(pump, h) EXCEPT !.kind = "Synchronizing"]
    BY DEF SharedReplies
  <2>2. q.of \in Gun \cup {None}
    BY <1>1, <1>2, <2>1
  <2>3. Aggregate(q).of = q.of
    BY <2>1 DEF Aggregate, OwnReply
  <2> QED BY <2>2, <2>3
<1> QED BY <1>3 DEF Answers

LEMMA SawClaims ==
    ASSUME HistoryOK, NEW g \in Gun, Saw(g) \/ UNCHANGED claim
    PROVE  SameClaims
<1>1. CASE UNCHANGED claim
  BY <1>1 DEF SameClaims, HistoryOK
<1>2. CASE Saw(g) /\ fill[g] # 0 /\ claim[fill[g]] = Unclaimed
  <2>1. claim' = [claim EXCEPT ![fill[g]] = SeenOnly] /\ fill[g] \in Fill
    BY <1>2 DEF Saw, HistoryOK
  <2> QED BY <1>2, <2>1 DEF SameClaims, HistoryOK, Unclaimed, SeenOnly, Fill
<1>3. CASE Saw(g) /\ ~(fill[g] # 0 /\ claim[fill[g]] = Unclaimed)
  BY <1>3 DEF Saw, SameClaims, HistoryOK
<1> QED BY <1>1, <1>2, <1>3

----------------------------------------------------------------------------
(* The steps of the loop that send no dose. *)

Within == left' \in Budget /\ left'.keypad <= left.keypad
          /\ left'.named = left.named /\ left'.reactive = left.reactive

LEMMA SameLeft ==
    ASSUME Counted, UNCHANGED left
    PROVE  Within
BY DEF Counted, Within, Budget

(* A budget with less of one thing. *)
LEMMA LessLeft ==
    ASSUME NEW b \in Budget, NEW n \in Nat,
           NEW what \in {"pauses", "stops", "estops", "resets", "faults", "crashes", "losses", "deaf"}
    PROVE  /\ [b EXCEPT ![what] = n] \in Budget
           /\ [b EXCEPT ![what] = n].keypad = b.keypad
           /\ [b EXCEPT ![what] = n].named = b.named
           /\ [b EXCEPT ![what] = n].reactive = b.reactive
<1>1. CASE what = "pauses"
  <2>1. /\ [b EXCEPT !.pauses = n] \in Budget /\ [b EXCEPT !.pauses = n].keypad = b.keypad
        /\ [b EXCEPT !.pauses = n].named = b.named /\ [b EXCEPT !.pauses = n].reactive = b.reactive
    BY DEF Budget
  <2> QED BY <1>1, <2>1
<1>2. CASE what = "stops"
  <2>1. /\ [b EXCEPT !.stops = n] \in Budget /\ [b EXCEPT !.stops = n].keypad = b.keypad
        /\ [b EXCEPT !.stops = n].named = b.named /\ [b EXCEPT !.stops = n].reactive = b.reactive
    BY DEF Budget
  <2> QED BY <1>2, <2>1
<1>3. CASE what = "estops"
  <2>1. /\ [b EXCEPT !.estops = n] \in Budget /\ [b EXCEPT !.estops = n].keypad = b.keypad
        /\ [b EXCEPT !.estops = n].named = b.named /\ [b EXCEPT !.estops = n].reactive = b.reactive
    BY DEF Budget
  <2> QED BY <1>3, <2>1
<1>4. CASE what = "resets"
  <2>1. /\ [b EXCEPT !.resets = n] \in Budget /\ [b EXCEPT !.resets = n].keypad = b.keypad
        /\ [b EXCEPT !.resets = n].named = b.named /\ [b EXCEPT !.resets = n].reactive = b.reactive
    BY DEF Budget
  <2> QED BY <1>4, <2>1
<1>5. CASE what = "faults"
  <2>1. /\ [b EXCEPT !.faults = n] \in Budget /\ [b EXCEPT !.faults = n].keypad = b.keypad
        /\ [b EXCEPT !.faults = n].named = b.named /\ [b EXCEPT !.faults = n].reactive = b.reactive
    BY DEF Budget
  <2> QED BY <1>5, <2>1
<1>6. CASE what = "crashes"
  <2>1. /\ [b EXCEPT !.crashes = n] \in Budget /\ [b EXCEPT !.crashes = n].keypad = b.keypad
        /\ [b EXCEPT !.crashes = n].named = b.named /\ [b EXCEPT !.crashes = n].reactive = b.reactive
    BY DEF Budget
  <2> QED BY <1>6, <2>1
<1>7. CASE what = "losses"
  <2>1. /\ [b EXCEPT !.losses = n] \in Budget /\ [b EXCEPT !.losses = n].keypad = b.keypad
        /\ [b EXCEPT !.losses = n].named = b.named /\ [b EXCEPT !.losses = n].reactive = b.reactive
    BY DEF Budget
  <2> QED BY <1>7, <2>1
<1>8. CASE what = "deaf"
  <2>1. /\ [b EXCEPT !.deaf = n] \in Budget /\ [b EXCEPT !.deaf = n].keypad = b.keypad
        /\ [b EXCEPT !.deaf = n].named = b.named /\ [b EXCEPT !.deaf = n].reactive = b.reactive
    BY DEF Budget
  <2> QED BY <1>8, <2>1
<1> QED BY <1>1, <1>2, <1>3, <1>4, <1>5, <1>6, <1>7, <1>8

LEMMA CountIsNat ==
    ASSUME Counted
    PROVE  \A what \in {"named", "reactive", "keypad", "pauses", "stops", "estops", "resets",
                         "losses", "deaf", "faults", "crashes"} : left[what] \in Nat
BY DEF Counted, Budget

LEMMA SpendWithin ==
    ASSUME Counted, NEW what \in {"pauses", "stops", "estops", "resets", "faults", "crashes"},
           Spend(what)
    PROVE  Within
<1> DEFINE n == left[what] - 1
<1>1. left' = [left EXCEPT ![what] = n] /\ n \in Nat /\ left \in Budget /\ left.keypad \in Nat
  BY CountIsNat DEF Spend, Counted
<1> HIDE DEF n
<1>2. PICK k : k = [left EXCEPT ![what] = n]
  OBVIOUS
<1>3. /\ k \in Budget /\ k.keypad = left.keypad /\ k.named = left.named
      /\ k.reactive = left.reactive
  <2>1. what \in {"pauses", "stops", "estops", "resets", "faults", "crashes", "losses", "deaf"}
    OBVIOUS
  <2>2. n \in Nat /\ left \in Budget
    BY <1>1
  <2> QED BY Zenon, <1>2, <2>1, <2>2, LessLeft
<1>4. k.keypad <= left.keypad
  BY <1>1, <1>3
<1> QED BY Zenon, <1>1, <1>2, <1>3, <1>4 DEF Within

LEMMA SpentWithin ==
    ASSUME Counted, NEW arrived \in BOOLEAN, Spent(arrived)
    PROVE  Within /\ left'.keypad = left.keypad
<1> DEFINE n == left.losses - 1
           d == IF arrived THEN left.deaf ELSE left.deaf - 1
           k == [left EXCEPT !["losses"] = n]
<1>1. n \in Nat /\ d \in Nat /\ left.keypad \in Nat /\ left \in Budget
  BY CountIsNat DEF Spent, Counted
<1>2. left' = [k EXCEPT !["deaf"] = d]
  BY <1>1 DEF Spent, Budget
<1> HIDE DEF n, d
<1>3. /\ k \in Budget /\ k.keypad = left.keypad /\ k.named = left.named
      /\ k.reactive = left.reactive
  BY <1>1, LessLeft
<1> HIDE DEF k
<1>4. PICK m : m = [k EXCEPT !["deaf"] = d]
  OBVIOUS
<1>5. /\ m \in Budget /\ m.keypad = left.keypad /\ m.named = left.named
      /\ m.reactive = left.reactive
  BY <1>1, <1>3, <1>4, LessLeft
<1>6. m.keypad <= left.keypad
  BY <1>1, <1>5
<1> QED BY Zenon, <1>2, <1>4, <1>5, <1>6 DEF Within

LEMMA SameQueue ==
    ASSUME QueueOK, Counted, Within, UNCHANGED queue
    PROVE  QueueOK' /\ Fewer
<1>1. QueueOK'
  BY DEF QueueOK
<1>2. Asked' = Asked
  BY DEF Asked, OrdersIn
<1>3. Asked \in Nat
  BY OrdersInNat DEF Asked, QueueOK
<1>4. PICK a, n, r : a = Asked /\ n = left.named /\ r = left.reactive
  OBVIOUS
<1>5. n + r + a <= n + r + a
  BY <1>3, <1>4 DEF Budget, Counted
<1>6. left'.named + left'.reactive + Asked' <= left.named + left.reactive + Asked
  BY Zenon, <1>2, <1>4, <1>5 DEF Within
<1> QED BY <1>1, <1>6 DEF Fewer, Within

LEMMA LoopCalm ==
    ASSUME OrdersInv, Settled, SameClaims, SameDoses, BillsOK', Within,
           UNCHANGED <<queue, orders, fill, fills, cleared>>
    PROVE  OrdersInv' /\ Lighter
<1>1. SameOrders
  BY DEF OrdersInv, Parts, HistoryOK, SameOrders
<1>2. QueueOK' /\ Fewer
  BY SameQueue DEF OrdersInv, Parts
<1>3. cleared' \subseteq Fill
  BY DEF OrdersInv, Parts, HistoryOK
<1>4. CalmStep
  BY <1>1, <1>2, <1>3 DEF CalmStep, Settled, SameDoses, Dosing
<1> QED BY <1>4, CalmKeeps

(* A step on what the loop knows, in memory. *)
LEMMA MemoryCalm ==
    ASSUME OrdersInv, Settled, Memory
    PROVE  OrdersInv' /\ Lighter
<1>1. SameClaims /\ BillsOK'
  BY DEF OrdersInv, Parts, SameClaims, HistoryOK, BillsOK, Memory, ghosts
<1>2. SameDoses /\ Within
  BY SameGuns, SameLeft DEF OrdersInv, Parts, Memory
<1> QED BY <1>1, <1>2, LoopCalm DEF Memory, ghosts

(* A step on an answer of a gun. *)
LEMMA HeardCalm ==
    ASSUME OrdersInv, Settled, NEW r, Heard(r), NEW g \in Gun, Saw(g) \/ UNCHANGED claim,
           UNCHANGED <<fill, fills, orders, cleared>>
    PROVE  OrdersInv' /\ Lighter
<1> /\ PumpOK /\ HistoryOK /\ JobOK /\ Counted /\ BillsOK
  BY DEF OrdersInv, Parts
<1>1. job.gun \in Gun
  BY DEF Heard, JobOK
<1>2. SameDoses
  BY <1>1, GunTells, OneGun DEF Heard, PumpOK
<1>3. SameClaims
  BY SawClaims
<1>4. Within /\ BillsOK' /\ UNCHANGED queue
  BY SameLeft DEF Heard, BillsOK
<1> QED BY <1>2, <1>3, <1>4, LoopCalm

----------------------------------------------------------------------------
(* The steps of the loop, one by one. *)

LEMMA Context ==
    ASSUME OrdersInv
    PROVE  /\ PumpOK /\ SideOK(lane) /\ QueueOK /\ BillsOK /\ HistoryOK /\ JobOK /\ OrderOK
           /\ Counted /\ job \in Job /\ Follows(lane, lane)
BY FollowsItself DEF OrdersInv, Parts, JobOK

LEMMA DrainedKeeps ==
    ASSUME OrdersInv, Drained
    PROVE  OrdersInv' /\ Lighter
<1>1. Settled
  BY Context, NoJobIsJob DEF Drained, Goto, Settled, JobOK
<1> QED BY <1>1, MemoryCalm DEF Drained

LEMMA PolledGun ==
    ASSUME SideOK(lane)
    PROVE  Polled \subseteq Gun /\ First(Polled) \in Polled /\ (Waiting(lane) => First(Polled) = lane.pre)
<1>1. Polled \subseteq Gun /\ Polled # {}
  BY GunAssumption DEF SideOK, LaneState, Polled
<1>2. First(Polled) \in Polled
  BY <1>1, FirstInSet
<1> QED BY <1>1, <1>2 DEF SideOK, Polled, Waiting

LEMMA BeginPollKeeps ==
    ASSUME OrdersInv, NEW expired \in BOOLEAN, BeginPoll(expired)
    PROVE  OrdersInv' /\ Lighter
<1> /\ SideOK(lane) /\ job \in Job /\ Follows(lane, lane)
  BY Context
<1>1. CASE expired
  <2>1. Settled
    BY <1>1, CancelledFollows, NoJobIsJob DEF BeginPoll, Rest, Goto, Settled, JobOK
  <2> QED BY <2>1, MemoryCalm DEF BeginPoll
<1>2. CASE ~expired /\ lane.final # None
  <2>1. First(Polled) \in Gun /\ Close(lane, First(Polled))
    BY <1>2, PolledGun DEF BeginPoll
  <2>2. Settled
    BY <1>2, <2>1, CloseSettled
  <2> QED BY <2>2, MemoryCalm DEF BeginPoll
<1>3. CASE ~expired /\ lane.final = None
  <2> DEFINE g == First(Polled)
  <2>1. g \in Gun /\ Polled \ {g} \subseteq Gun /\ (Waiting(lane) => g = lane.pre)
    BY PolledGun
  <2>2. lane' = lane /\ at' = "status" /\ job' = [NoJob EXCEPT !.gun = g, !.todo = Polled \ {g}]
    BY <1>3 DEF BeginPoll, Goto
  <2> HIDE DEF g
  <2>3. job' \in Job /\ job'.gun = g
    BY <2>1, <2>2 DEF NoJob, Job
  <2>4. Settled
    BY <2>1, <2>2, <2>3 DEF Settled, JobOK, Waiting
  <2> QED BY <2>4, MemoryCalm DEF BeginPoll
<1> QED BY <1>1, <1>2, <1>3

LEMMA StatusMissedKeeps ==
    ASSUME OrdersInv, NEW threshold \in BOOLEAN, StatusMissed(threshold)
    PROVE  OrdersInv' /\ Lighter
<1> /\ SideOK(lane) /\ job \in Job
  BY Context
<1> DEFINE l == [lane EXCEPT !.status = IF threshold THEN "Offline" ELSE @]
<1>1. Follows(lane, l)
  BY DEF Follows, SideOK, Waiting, LaneState
<1>2. PollEnds(l)
  BY DEF StatusMissed
<1> HIDE DEF l
<1>3. Settled
  BY <1>1, <1>2, PollEndsSettled
<1> QED BY <1>3, MemoryCalm DEF StatusMissed

(* What a status request finds. *)
LEMMA AskedGun ==
    ASSUME OrdersInv, NEW r, Heard(r)
    PROVE  /\ SideOK(lane) /\ job \in Job /\ Follows(lane, lane) /\ job.gun \in Gun
           /\ Waiting(lane) => job.gun = lane.pre
           /\ SaleOf(job.gun) \in Sale /\ r.of \in Gun \cup {None}
<1>1. job.gun \in Gun
  BY Context DEF Heard, JobOK
<1> QED BY <1>1, Context, SaleOfGun, ReplyOfGun DEF Heard, JobOK

LEMMA StatusFinalKeeps ==
    ASSUME OrdersInv, NEW r, StatusFinal(r)
    PROVE  OrdersInv' /\ Lighter
<1> Heard(r) /\ UNCHANGED <<fill, fills, claim, orders, cleared>>
  BY DEF StatusFinal, HeardOnly, ghosts
<1> /\ SideOK(lane) /\ job \in Job /\ Follows(lane, lane) /\ job.gun \in Gun
    /\ (Waiting(lane) => job.gun = lane.pre) /\ SaleOf(job.gun) \in Sale
  BY AskedGun
<1>1. CASE lane.status = "Done" /\ lane.tx = None
  BY <1>1, LeaveSettled, HeardCalm DEF StatusFinal
<1>2. CASE ~(lane.status = "Done" /\ lane.tx = None)
  <2> DEFINE l == Pinned(lane, job.gun, SaleOf(job.gun))
  <2>1. Follows(lane, l) /\ l.final # None
    BY PinnedFollows
  <2>2. Close(l, job.gun)
    BY <1>2 DEF StatusFinal
  <2> HIDE DEF l
  <2> QED BY <2>1, <2>2, CloseSettled, HeardCalm
<1> QED BY <1>1, <1>2

(* A wrong gun that is up is a gun of the side. *)
LEMMA WrongGuns ==
    ASSUME NEW r, Heard(r), job.gun \in Gun
    PROVE  Wrong(r) \in SUBSET Gun
<1>1. \A h \in Gun : OwnReply(pump, h).lifts \subseteq Gun
  BY DEF OwnReply, Lifted
<1>2. ASSUME NEW q \in {OwnReply(pump, job.gun)} \cup SharedReplies(pump, job.gun)
      PROVE  q.lifts \subseteq Gun /\ Aggregate(q).lifts \subseteq Gun
  <2>1. PICK h \in Gun :
           q = OwnReply(pump, h) \/ q = [OwnReply(pump, h) EXCEPT !.kind = "Synchronizing"]
    BY DEF SharedReplies
  <2>2. q.lifts = OwnReply(pump, h).lifts
    BY <2>1 DEF OwnReply
  <2>3. Aggregate(q).lifts = {}
    BY <2>1 DEF Aggregate, OwnReply
  <2> QED BY <1>1, <2>2, <2>3
<1> QED BY <1>2 DEF Heard, Answers, Wrong

LEMMA StatusWrongLiftKeeps ==
    ASSUME OrdersInv, NEW r, StatusWrongLift(r)
    PROVE  OrdersInv' /\ Lighter
<1> Heard(r) /\ UNCHANGED <<fill, fills, orders, cleared>>
  BY DEF StatusWrongLift
<1> /\ SideOK(lane) /\ job \in Job /\ job.gun \in Gun /\ r.of \in Gun \cup {None}
  BY AskedGun
<1> DEFINE c == Cancelled(lane)
<1>1. Follows(lane, c) /\ SideOK(c) /\ ~Waiting(c)
  BY CancelledFollows DEF Follows
<1>2. CASE IsDispensing(r)
  <2> DEFINE g == IF r.of # None THEN r.of ELSE job.gun
             l == Live(c, g)
  <2>1. g \in Gun /\ Cancel(l) /\ Saw(g)
    BY <1>2 DEF StatusWrongLift
  <2>2. Follows(lane, l)
    BY <1>1, <2>1, LiveFollows, FollowsOn
  <2> HIDE DEF g, l
  <2> QED BY <2>1, <2>2, CancelSettled, HeardCalm
<1>3. CASE ~IsDispensing(r)
  <2> DEFINE g == First(Wrong(r))
             l == ShownUp(c, g)
  <2>1. g \in Gun
    <3>1. Wrong(r) \in SUBSET Gun /\ Wrong(r) # {}
      BY WrongGuns DEF StatusWrongLift
    <3> QED BY <3>1, FirstInSet
  <2>2. lane' = l /\ Leave(lane') /\ UNCHANGED claim
    BY <1>3 DEF StatusWrongLift
  <2>3. Follows(lane, l)
    BY <1>1, <2>1, ShownUpFollows, FollowsOn
  <2> HIDE DEF g, l
  <2>4. Leave(l)
    BY <2>2
  <2> QED BY <2>2, <2>3, <2>4, LeaveSettled, HeardCalm
<1> QED BY <1>2, <1>3

LEMMA StatusOtherKeeps ==
    ASSUME OrdersInv, NEW r, StatusOther(r)
    PROVE  OrdersInv' /\ Lighter
<1> Heard(r) /\ UNCHANGED <<fill, fills, claim, orders, cleared>>
  BY DEF StatusOther, HeardOnly, ghosts
<1> QED BY AskedGun, LeaveSettled, HeardCalm DEF StatusOther

LEMMA StatusForeignKeeps ==
    ASSUME OrdersInv, NEW r, StatusForeign(r)
    PROVE  OrdersInv' /\ Lighter
<1> Heard(r) /\ UNCHANGED <<fill, fills, orders, cleared>>
  BY DEF StatusForeign
<1> QED BY AskedGun, LiveFollows, CancelSettled, HeardCalm DEF StatusForeign

LEMMA StatusDispensingKeeps ==
    ASSUME OrdersInv, NEW r, StatusDispensing(r)
    PROVE  OrdersInv' /\ Lighter
<1> Heard(r) /\ UNCHANGED <<fill, fills, orders, cleared>>
  BY DEF StatusDispensing
<1>1. CASE Resting(r)
  BY <1>1, AskedGun, PollEndsSettled, HeardCalm DEF StatusDispensing
<1>2. CASE ~Resting(r)
  BY <1>2, AskedGun, LiveFollows, PollEndsSettled, HeardCalm DEF StatusDispensing
<1> QED BY <1>1, <1>2

LEMMA StatusSynchronizingKeeps ==
    ASSUME OrdersInv, NEW r, StatusSynchronizing(r)
    PROVE  OrdersInv' /\ Lighter
<1> Heard(r) /\ UNCHANGED <<fill, fills, claim, orders, cleared>>
  BY DEF StatusSynchronizing, HeardOnly, ghosts
<1> QED BY AskedGun, PollEndsSettled, HeardCalm DEF StatusSynchronizing

LEMMA StatusKeypadKeeps ==
    ASSUME OrdersInv, NEW r, StatusKeypad(r)
    PROVE  OrdersInv' /\ Lighter
<1> Heard(r) /\ UNCHANGED <<fill, fills, claim, orders, cleared>>
  BY DEF StatusKeypad, HeardOnly, ghosts
<1> QED BY AskedGun, ShownUpFollows, PollEndsSettled, HeardCalm DEF StatusKeypad

LEMMA StatusIdleKeeps ==
    ASSUME OrdersInv, NEW r, StatusIdle(r)
    PROVE  OrdersInv' /\ Lighter
<1> Heard(r) /\ UNCHANGED <<fill, fills, claim, orders, cleared>> /\ ~Waiting(lane)
  BY DEF StatusIdle, HeardOnly, ghosts
<1> /\ SideOK(lane) /\ job \in Job /\ Follows(lane, lane) /\ job.gun \in Gun
  BY AskedGun
<1>1. CASE lane.tx # None
  <2>1. lane' = lane /\ at' = "amount" /\ job' = [job EXCEPT !.retried = FALSE]
    BY <1>1 DEF StatusIdle, Goto
  <2>2. job' \in Job /\ job'.gun = job.gun
    BY <2>1 DEF Job
  <2>3. Settled
    BY <2>1, <2>2 DEF Settled, JobOK
  <2> QED BY <2>3, HeardCalm
<1>2. CASE lane.tx = None /\ GunLifted(r, job.gun)
  BY <1>2, ShownUpFollows, PollEndsSettled, HeardCalm DEF StatusIdle
<1>3. CASE lane.tx = None /\ ~GunLifted(r, job.gun)
  BY <1>3, IdledFollows, PollEndsSettled, HeardCalm DEF StatusIdle
<1> QED BY <1>1, <1>2, <1>3

LEMMA AmountInfoKeeps ==
    ASSUME OrdersInv, NEW heard \in BOOLEAN, AmountInfo(heard)
    PROVE  OrdersInv' /\ Lighter
<1> /\ SideOK(lane) /\ job \in Job /\ Follows(lane, lane) /\ job.gun \in Gun
    /\ SaleOf(job.gun) \in Sale
  BY Context, SaleOfGun DEF AmountInfo, JobOK
<1> DEFINE l == [lane EXCEPT !.final = SaleOf(job.gun)]
<1>1. CASE PollEnds(lane)
  BY <1>1, PollEndsSettled, MemoryCalm DEF AmountInfo
<1>2. CASE Close(l, job.gun)
  <2>1. Follows(lane, l) /\ l.final # None
    BY MarkedFollows, NoneIsApart DEF SideOK, LaneState
  <2> HIDE DEF l
  <2> QED BY <1>2, <2>1, CloseSettled, MemoryCalm DEF AmountInfo
<1> QED BY <1>1, <1>2 DEF AmountInfo

LEMMA CommitSaleKeeps ==
    ASSUME OrdersInv, CommitSale
    PROVE  OrdersInv' /\ Lighter
<1> /\ PumpOK /\ SideOK(lane) /\ BillsOK /\ HistoryOK /\ Counted /\ job \in Job /\ job.gun \in Gun
    /\ lane.final \in Sale
  BY Context DEF CommitSale, JobOK, SideOK, LaneState
<1>1. BillsOK'
  <2> DEFINE s == lane.final
             row == [volume |-> s.volume, gun |-> IF lane.tx # None THEN lane.tx ELSE job.gun]
  <2>1. row \in Row /\ s.fill \in {0} \cup Fill
    BY DEF Sale, Row, SideOK, LaneState
  <2>2. bill' = IF s.fill = 0 THEN bill ELSE [bill EXCEPT ![s.fill] = Append(@, row)]
    BY DEF CommitSale
  <2> HIDE DEF row
  <2> QED BY <2>1, <2>2 DEF BillsOK
<1>2. Settled
  BY ClosedFollows, LeaveSettled DEF CommitSale
<1>3. SameClaims /\ SameDoses /\ Within
  BY SameGuns, SameLeft DEF CommitSale, ghosts, SameClaims, HistoryOK
<1> QED BY <1>1, <1>2, <1>3, LoopCalm DEF CommitSale, ghosts

LEMMA CommitFailsKeeps ==
    ASSUME OrdersInv, CommitFails
    PROVE  OrdersInv' /\ Lighter
<1> /\ PumpOK /\ BillsOK /\ HistoryOK /\ Counted /\ job \in Job /\ Follows(lane, lane)
  BY Context
<1>1. Settled
  BY LeaveSettled DEF CommitFails
<1>2. SameClaims /\ SameDoses /\ Within /\ BillsOK'
  BY SameGuns, SpendWithin DEF CommitFails, ghosts, SameClaims, HistoryOK, BillsOK
<1> QED BY <1>1, <1>2, LoopCalm DEF CommitFails, ghosts

----------------------------------------------------------------------------
(* The start of a reservation: its dose is about to be sent, and not yet taken. *)

LEMMA StartKeeps ==
    ASSUME OrdersInv, Waiting(lane), ~lane.cancel, job.gun \in Gun, job.gun = lane.pre,
           lane' = Starting(lane, job.gun), Goto("dose", [job EXCEPT !.retried = FALSE]),
           SameDoses, BillsOK', Within, UNCHANGED <<queue, ghosts>>
    PROVE  OrdersInv' /\ Lighter
<1> /\ SideOK(lane) /\ HistoryOK /\ OrderOK /\ Counted /\ job \in Job /\ QueueOK
  BY Context
<1>1. /\ Follows(lane, lane') /\ lane'.started /\ lane'.tx = job.gun
      /\ lane'.order = lane.order /\ lane'.dose = lane.dose
  BY StartingFollows
<1>2. at' = "dose" /\ job' \in Job /\ job'.gun = job.gun
  BY DEF Goto, Job
<1>3. JobOK'
  BY <1>1, <1>2 DEF JobOK
<1>4. SameClaims /\ SameOrders
  BY DEF ghosts, SameClaims, SameOrders, HistoryOK
<1>5. Sent'
  <2>1. PICK o \in Fill : o = lane.order /\ o \in 1 .. Len(orders)
    BY DEF OrderOK, SideOK, LaneState, HistoryOK, Fill
  <2>2. ~Served(o)'
    BY <1>4, <2>1, SameServed DEF OrderOK, HistoryOK
  <2>3. Agrees(job.gun)' /\ ~orders'[o].cancelled
    BY <1>1, <1>2, <2>1 DEF OrderOK, Agrees, ghosts
  <2> QED BY <1>1, <1>2, <2>1, <2>2, <2>3 DEF Sent, Fill
<1>6. QueueOK' /\ Fewer
  BY SameQueue DEF OrdersInv, Parts
<1>7. CalmStep
  BY <1>1, <1>3, <1>4, <1>5, <1>6 DEF CalmStep, SameDoses, ghosts, HistoryOK
<1> QED BY <1>7, CalmKeeps

LEMMA StatusReservedKeeps ==
    ASSUME OrdersInv, NEW r, NEW expired \in BOOLEAN, StatusReserved(r, expired)
    PROVE  OrdersInv' /\ Lighter
<1> Heard(r) /\ UNCHANGED ghosts /\ UNCHANGED <<fill, fills, claim, orders, cleared>> /\ Waiting(lane)
  BY DEF StatusReserved, HeardOnly, ghosts
<1> /\ SideOK(lane) /\ job \in Job /\ Follows(lane, lane) /\ job.gun \in Gun /\ job.gun = lane.pre
  BY AskedGun
<1>1. CASE ~Starts(r)
  BY <1>1, PollEndsSettled, HeardCalm DEF StatusReserved
<1>2. CASE Starts(r) /\ expired
  BY <1>2, CancelledFollows, PollEndsSettled, HeardCalm DEF StatusReserved
<1>3. CASE Starts(r) /\ ~expired /\ left.gas
  <2>1. lane' = lane /\ at' = "price" /\ job' = [job EXCEPT !.retried = FALSE]
    BY <1>3 DEF StatusReserved, Goto
  <2>2. job' \in Job /\ job'.gun = job.gun
    BY <2>1 DEF Job
  <2>3. Settled
    BY <2>1, <2>2 DEF Settled, JobOK
  <2> QED BY <2>3, HeardCalm
<1>4. CASE Starts(r) /\ ~expired /\ ~left.gas
  <2>1. lane' = Starting(lane, job.gun) /\ Goto("dose", [job EXCEPT !.retried = FALSE]) /\ ~lane.cancel
    BY <1>4 DEF StatusReserved, Starts
  <2>2. SameDoses
    BY GunTells, OneGun, Context DEF Heard, PumpOK
  <2>3. BillsOK' /\ Within /\ UNCHANGED queue
    BY SameLeft, Context DEF Heard, BillsOK
  <2> QED BY <2>1, <2>2, <2>3, StartKeeps
<1> QED BY <1>1, <1>2, <1>3, <1>4

LEMMA PriceWrittenKeeps ==
    ASSUME OrdersInv, NEW heard \in BOOLEAN, NEW ok \in BOOLEAN, PriceWritten(heard, ok)
    PROVE  OrdersInv' /\ Lighter
<1> /\ SideOK(lane) /\ job \in Job /\ Follows(lane, lane) /\ job.gun \in Gun
    /\ Waiting(lane) /\ job.gun = lane.pre /\ Memory
  BY Context DEF PriceWritten, JobOK
<1>1. CASE ~ok
  BY <1>1, CancelSettled, MemoryCalm DEF PriceWritten
<1>2. CASE ok /\ lane.cancel
  BY <1>2, PollEndsSettled, MemoryCalm DEF PriceWritten
<1>3. CASE ok /\ ~lane.cancel
  <2>1. lane' = Starting(lane, job.gun) /\ Goto("dose", [job EXCEPT !.retried = FALSE])
    BY <1>3 DEF PriceWritten
  <2>2. SameDoses /\ BillsOK' /\ Within /\ UNCHANGED <<queue, ghosts>>
    BY SameGuns, SameLeft, Context DEF Memory, BillsOK
  <2> QED BY <1>3, <2>1, <2>2, StartKeeps
<1> QED BY <1>1, <1>2, <1>3

LEMMA DoseNotTaken ==
    ASSUME OrdersInv, DoseRefused \/ DoseUnconfirmed
    PROVE  OrdersInv' /\ Lighter
<1> /\ SideOK(lane) /\ job \in Job /\ Follows(lane, lane)
  BY Context
<1>1. CASE DoseRefused
  BY <1>1, CancelledFollows, PollEndsSettled, MemoryCalm DEF DoseRefused
<1>2. CASE DoseUnconfirmed
  BY <1>2, CancelSettled, MemoryCalm DEF DoseUnconfirmed
<1> QED BY <1>1, <1>2

----------------------------------------------------------------------------
(* A new fill: the one of an order that is sent, or one of the keypad. *)

(* Fills are counted once they are there, and orders while they are expected. *)
LEMMA CountedBy ==
    ASSUME HistoryOK, Counted, QueueOK, QueueOK', orders' \in Seq(Order), left' \in Budget,
           left'.named = left.named, left'.reactive = left.reactive,
           NEW df \in Int, NEW dp \in Int, NEW da \in Int, NEW dk \in Int, NEW do \in Int,
           fills' = fills + df, Pending' <= Pending + dp, Asked' <= Asked + da,
           left'.keypad = left.keypad + dk, Len(orders') = Len(orders) + do,
           df + dp + da + dk <= 0, do + da <= 0
    PROVE  Counted' /\ Lighter
<1>1. PICK p, q, a, b, s, o :
         p = Pending /\ q = Pending' /\ a = Asked /\ b = Asked' /\ s = fills /\ o = Len(orders)
  OBVIOUS
<1>2. PICK d, e, f : d = left.named /\ e = left.reactive /\ f = left.keypad
  OBVIOUS
<1>3. /\ p \in 0 .. 1 /\ q \in 0 .. 1 /\ a \in Nat /\ s \in Nat /\ o \in Nat /\ MaxFills \in Nat
      /\ d \in Nat /\ e \in Nat /\ f \in Nat /\ b \in Nat
  <2>1. p \in 0 .. 1 /\ q \in 0 .. 1
    BY <1>1 DEF Pending
  <2>2. a \in Nat /\ b \in Nat
    BY <1>1, OrdersInNat DEF Asked, QueueOK
  <2>3. s \in Nat /\ o \in Nat /\ MaxFills \in Nat
    BY <1>1, MaxFillsAssumption DEF HistoryOK
  <2>4. d \in Nat /\ e \in Nat /\ f \in Nat
    BY <1>2 DEF Counted, Budget
  <2> QED BY <2>1, <2>2, <2>3, <2>4
<1>4. s + p + a + d + e + f <= MaxFills /\ o + a + d + e <= MaxFills
  BY Zenon, <1>1, <1>2 DEF Counted
<1>5. q <= p + dp /\ b <= a + da
  BY <1>1
<1>6. /\ (s + df) + q + b + d + e + (f + dk) <= MaxFills
      /\ (s + df) + q + b + d + e + (f + dk) <= s + p + a + d + e + f
  BY <1>3, <1>4, <1>5
<1>7. (o + do) + b + d + e <= MaxFills
  BY <1>3, <1>4, <1>5
<1>8. fills' + Pending' + Asked' + left'.named + left'.reactive + left'.keypad <= MaxFills
  BY Zenon, <1>1, <1>2, <1>6
<1>9. Len(orders') + Asked' + left'.named + left'.reactive <= MaxFills
  BY Zenon, <1>1, <1>2, <1>7
<1>10. fills' + Pending' + Asked' + left'.named + left'.reactive + left'.keypad
         <= fills + Pending + Asked + left.named + left.reactive + left.keypad
  BY Zenon, <1>1, <1>2, <1>6
<1> QED BY Zenon, <1>8, <1>9, <1>10 DEF Counted, Lighter, Load

(* The order the fill serves has the dose, and was not served before.  *)
Serves(g, by, dose) ==
    /\ ~Served(by) /\ by <= Len(orders) /\ ~orders[by].cancelled
    /\ orders[by].dose = dose /\ (orders[by].named => orders[by].gun = g)

LEMMA FillKeeps ==
    ASSUME OrdersInv, NEW g \in Gun, NEW by \in {Unclaimed} \cup Fill, NEW dose \in Dose,
           NewFill(g, by), fills < MaxFills, pump' = [pump EXCEPT ![g] = GunDose(@, dose)],
           by \in Fill => Serves(g, by, dose), UNCHANGED orders
    PROVE  /\ PumpOK' /\ HistoryOK' /\ CancelWins' /\ ServedOnce'
           /\ pump'[g].phase # "Idle"
           /\ \A h \in Gun : pump'[h].phase = "Idle" => pump[h].phase = "Idle"
           /\ \A o \in Fill : Served(o)' <=> Served(o) \/ o = by
<1> PumpOK /\ HistoryOK
  BY Context
<1> DEFINE n == fills + 1
<1>1. n \in Fill /\ n > fills /\ fills \in Nat /\ n # 0
  BY MaxFillsAssumption DEF HistoryOK, Fill
<1>2. fills' = n /\ fill' = [fill EXCEPT ![g] = n] /\ claim' = [claim EXCEPT ![n] = by]
  BY DEF NewFill
<1>3. claim[n] \notin Fill
  BY <1>1 DEF HistoryOK
<1>4. \A f \in Fill : f # n => claim'[f] = claim[f]
  BY <1>2 DEF HistoryOK
<1>5. claim'[n] = by
  BY <1>1, <1>2 DEF HistoryOK
<1>6. \A o \in Fill : Served(o)' <=> Served(o) \/ o = by
  BY <1>1, <1>3, <1>4, <1>5 DEF Served
<1>7. /\ PumpOK' /\ pump'[g].phase # "Idle" /\ pump'[g].dose = dose
      /\ \A h \in Gun : h # g => pump'[h] = pump[h]
  <2>1. pump[g] \in GunState
    BY DEF PumpOK
  <2>2. /\ GunDose(pump[g], dose) \in GunState /\ GunDose(pump[g], dose).dose = dose
        /\ GunDose(pump[g], dose).phase # "Idle"
    BY <2>1, GunDoses
  <2>3. pump'[g] = GunDose(pump[g], dose)
    BY DEF PumpOK
  <2> QED BY <2>2, <2>3 DEF PumpOK
<1>8. \A h \in Gun : h # g => fill'[h] = fill[h] /\ fill[h] # n
  BY <1>1, <1>2 DEF HistoryOK, Fill
<1>9. fill'[g] = n
  BY <1>2 DEF HistoryOK
<1> HIDE DEF n
<1>10. HistoryOK'
  <2>1. fills' \in 0 .. MaxFills
    BY <1>1, <1>2 DEF Fill
  <2>2. fill' \in [Gun -> {0} \cup Fill] /\ \A h \in Gun : fill'[h] <= fills'
    <3>1. fill' \in [Gun -> {0} \cup Fill]
      BY <1>1, <1>2 DEF HistoryOK
    <3>2. ASSUME NEW h \in Gun PROVE fill'[h] <= fills'
      <4>1. CASE h = g
        BY <1>1, <1>2, <1>9, <4>1 DEF Fill
      <4>2. CASE h # g
        <5>1. fill[h] <= fills /\ fill[h] \in Nat
          BY DEF HistoryOK, Fill
        <5> QED BY <1>1, <1>2, <1>8, <4>2, <5>1 DEF n, Fill
      <4> QED BY <4>1, <4>2
    <3> QED BY <3>1, <3>2
  <2>3. claim' \in [Fill -> {Unclaimed, SeenOnly} \cup Fill]
    BY <1>2 DEF HistoryOK
  <2>4. \A f \in Fill : claim'[f] <= Len(orders)
    <3>1. by <= Len(orders)
      BY DEF Serves, HistoryOK, Unclaimed
    <3> QED BY <1>4, <1>5, <3>1 DEF HistoryOK
  <2>5. \A f \in Fill : f > fills' => claim'[f] \notin Fill
    BY <1>1, <1>2, <1>4 DEF HistoryOK, Fill, n
  <2>6. cleared' \subseteq Fill
    BY DEF NewFill, Unbilled, HistoryOK
  <2> QED BY <2>1, <2>2, <2>3, <2>4, <2>5, <2>6 DEF HistoryOK
<1>11. CancelWins'
  <2> SUFFICES ASSUME NEW f \in Fill, claim'[f] \in Fill PROVE ~orders[claim'[f]].cancelled
    BY DEF CancelWins
  <2>1. CASE f = n
    BY <1>5, <2>1 DEF Serves
  <2>2. CASE f # n
    BY <1>4, <2>2 DEF OrdersInv, CancelWins
  <2> QED BY <2>1, <2>2
<1>12. ServedOnce'
  <2>1. ASSUME NEW f \in Fill, NEW e \in Fill, claim'[f] \in Fill, claim'[f] = claim'[e]
        PROVE  f = e
    <3>1. ASSUME NEW h \in Fill, h # n PROVE ~(claim'[h] = claim'[n] /\ by \in Fill)
      BY <1>4, <1>5, <3>1 DEF Serves, Served
    <3> QED BY <1>4, <1>5, <2>1, <3>1 DEF OrdersInv, ServedOnce
  <2>2. ASSUME NEW h \in Gun, fill'[h] # 0, claim'[fill'[h]] \in Fill,
               orders[claim'[fill'[h]]].named
        PROVE  orders[claim'[fill'[h]]].gun = h /\ pump'[h].dose = orders[claim'[fill'[h]]].dose
    <3>1. CASE h = g
      BY <1>5, <1>7, <1>9, <2>2, <3>1 DEF Serves
    <3>2. CASE h # g
      <4>1. fill'[h] = fill[h] /\ fill[h] \in Fill /\ claim'[fill[h]] = claim[fill[h]]
            /\ pump'[h] = pump[h]
        BY <1>4, <1>7, <1>8, <2>2, <3>2 DEF HistoryOK
      <4> QED BY <2>2, <4>1 DEF OrdersInv, ServedOnce
    <3> QED BY <3>1, <3>2
  <2> QED BY <2>1, <2>2 DEF ServedOnce
<1>13. \A h \in Gun : pump'[h].phase = "Idle" => pump[h].phase = "Idle"
  BY <1>7
<1> QED BY <1>6, <1>7, <1>10, <1>11, <1>12, <1>13

LEMMA Numbers ==
    ASSUME HistoryOK, QueueOK, Counted
    PROVE  /\ Asked \in Nat /\ Len(orders) \in Nat /\ fills \in Nat
           /\ left.named \in Nat /\ left.reactive \in Nat /\ left.keypad \in Nat
<1>1. Asked \in Nat
  BY OrdersInNat DEF Asked, QueueOK
<1>2. Len(orders) \in Nat /\ fills \in Nat
  BY DEF HistoryOK
<1>3. left.named \in Nat /\ left.reactive \in Nat /\ left.keypad \in Nat
  BY DEF Counted, Budget
<1> QED BY <1>1, <1>2, <1>3

(* A dose that is sent finds a gun that is idle only before it is taken. *)
LEMMA DoseServes ==
    ASSUME OrdersInv, at = "dose", TakesDose(pump[job.gun])
    PROVE  /\ job.gun \in Gun /\ lane.order \in Fill /\ lane.dose \in Dose /\ lane.started
           /\ Serves(job.gun, lane.order, lane.dose) /\ Pending = 1 /\ fills < MaxFills
<1> /\ SideOK(lane) /\ HistoryOK /\ JobOK /\ OrderOK /\ Counted /\ QueueOK
  BY Context
<1>1. job.gun \in Gun /\ lane.order \in Fill /\ lane.dose \in Dose /\ lane.started
  BY DEF JobOK, OrderOK, Sent, SideOK, LaneState, Fill
<1>2. Serves(job.gun, lane.order, lane.dose)
  BY DEF OrderOK, Sent, Agrees, Serves, TakesDose
<1>3. Pending = 1
  BY <1>1, <1>2 DEF Pending, Serves, Fill
<1>4. fills < MaxFills
  <2>1. PICK a, s, p : a = Asked /\ s = fills /\ p = Pending
    OBVIOUS
  <2>2. PICK d, e, f : d = left.named /\ e = left.reactive /\ f = left.keypad
    OBVIOUS
  <2>3. d \in Nat /\ e \in Nat /\ f \in Nat
    BY <2>2, Numbers
  <2>4. a \in Nat /\ s \in Nat /\ p = 1 /\ MaxFills \in Nat
    BY <1>3, <2>1, Numbers, MaxFillsAssumption
  <2>5. s + p + a + d + e + f <= MaxFills
    BY Zenon, <2>1, <2>2 DEF Counted
  <2>6. s < MaxFills
    BY <2>3, <2>4, <2>5
  <2> QED BY <2>1, <2>6
<1> QED BY <1>1, <1>2, <1>3, <1>4

LEMMA DoseTakenCounted ==
    ASSUME OrdersInv, HistoryOK', Pending = 1, Pending' <= 0, fills' = fills + 1,
           UNCHANGED <<queue, orders>>, Within, left'.keypad = left.keypad
    PROVE  Counted' /\ QueueOK' /\ Lighter
<1> /\ HistoryOK /\ Counted /\ QueueOK
  BY Context
<1>1. QueueOK' /\ Asked' = Asked
  BY DEF QueueOK, Asked, OrdersIn
<1>2. Asked' <= Asked + 0 /\ Len(orders') = Len(orders) + 0 /\ left'.keypad = left.keypad + 0
  <2>1. Asked \in Nat /\ Len(orders) \in Nat /\ left.keypad \in Nat
    BY Numbers
  <2>2. PICK a, o, f : a = Asked /\ o = Len(orders) /\ f = left.keypad
    OBVIOUS
  <2>3. a <= a + 0 /\ o = o + 0 /\ f = f + 0
    BY <2>1, <2>2
  <2> QED BY Zenon, <1>1, <2>2, <2>3
<1>3. Pending' <= Pending + (-1)
  BY DEF Pending
<1>4. orders' \in Seq(Order)
  BY DEF HistoryOK
<1>5. 1 \in Int /\ -1 \in Int /\ 0 \in Int /\ 1 + (-1) + 0 + 0 <= 0 /\ 0 + 0 <= 0
  OBVIOUS
<1> QED BY Zenon, <1>1, <1>2, <1>3, <1>4, <1>5, CountedBy DEF Within

LEMMA DoseTakenKeeps ==
    ASSUME OrdersInv, DoseTaken
    PROVE  OrdersInv' /\ Lighter
<1> /\ SideOK(lane) /\ HistoryOK /\ JobOK /\ BillsOK /\ OrderOK /\ Counted /\ job \in Job
    /\ Follows(lane, lane)
  BY Context
<1>1. /\ job.gun \in Gun /\ lane.order \in Fill /\ lane.dose \in Dose /\ lane.started
      /\ Serves(job.gun, lane.order, lane.dose) /\ Pending = 1 /\ fills < MaxFills
  BY DoseServes DEF DoseTaken
<1>2. /\ PumpOK' /\ HistoryOK' /\ CancelWins' /\ ServedOnce'
      /\ \A o \in Fill : Served(o)' <=> Served(o) \/ o = lane.order
  BY <1>1, FillKeeps DEF DoseTaken
<1>3. Follows(lane, lane') /\ JobOK' /\ at' # "dose"
  BY PollEndsSettled DEF DoseTaken, Settled
<1>4. ~Waiting(lane') /\ lane'.order \in {0, lane.order}
  BY <1>1, <1>3 DEF Follows, Waiting
<1>5. OrderOK'
  BY <1>3, <1>4 DEF OrderOK, Sent, DoseTaken, HistoryOK
<1>6. Pending' <= 0 /\ fills' = fills + 1
  BY <1>1, <1>2, <1>4 DEF Pending, DoseTaken, NewFill
<1>7. Counted' /\ QueueOK' /\ Lighter
  BY <1>1, <1>2, <1>6, DoseTakenCounted, SameLeft DEF DoseTaken
<1>8. BillsOK' /\ SideOK(lane')
  BY <1>3 DEF DoseTaken, BillsOK, Follows
<1> QED BY <1>2, <1>3, <1>5, <1>7, <1>8 DEF OrdersInv, Parts

LEMMA SameJob ==
    ASSUME JobOK, UNCHANGED lane, Goto(at, [job EXCEPT !.retried = TRUE])
    PROVE  JobOK' /\ job'.gun = job.gun /\ at' = at
<1>1. at' = at /\ job' = [job EXCEPT !.retried = TRUE]
  BY DEF Goto
<1>2. job' \in Job /\ job'.gun = job.gun
  BY <1>1 DEF JobOK, Job
<1> QED BY <1>1, <1>2 DEF JobOK, Waiting

LEMMA LoseDoseKeeps ==
    ASSUME OrdersInv, NEW arrived \in BOOLEAN, LoseDose(arrived)
    PROVE  OrdersInv' /\ Lighter
<1> /\ PumpOK /\ SideOK(lane) /\ HistoryOK /\ JobOK /\ BillsOK /\ OrderOK /\ Counted /\ QueueOK
    /\ Follows(lane, lane)
  BY Context
<1>1. JobOK' /\ job'.gun = job.gun /\ at' = at /\ Within /\ lane' = lane
  BY SameJob, SpentWithin DEF LoseDose
<1>2. left'.keypad = left.keypad
  BY SpentWithin DEF LoseDose
<1>3. CASE arrived /\ TakesDose(pump[job.gun])
  <2>1. /\ job.gun \in Gun /\ lane.order \in Fill /\ lane.dose \in Dose /\ lane.started
        /\ Serves(job.gun, lane.order, lane.dose) /\ Pending = 1 /\ fills < MaxFills
    BY <1>3, DoseServes DEF LoseDose
  <2>2. /\ PumpOK' /\ HistoryOK' /\ CancelWins' /\ ServedOnce' /\ pump'[job.gun].phase # "Idle"
        /\ \A o \in Fill : Served(o)' <=> Served(o) \/ o = lane.order
    BY <1>3, <2>1, FillKeeps DEF LoseDose
  <2>3. OrderOK'
    <3>1. Agrees(job.gun)' /\ ~orders'[lane'.order].cancelled /\ lane'.order > 0
          /\ lane'.order <= Len(orders')
      BY <1>1 DEF OrderOK, Sent, Agrees, LoseDose
    <3>2. ~Waiting(lane')
      BY <1>1, <2>1 DEF Waiting
    <3> QED BY <1>1, <2>2, <3>1, <3>2 DEF OrderOK, Sent
  <2>4. Pending' <= 0 /\ fills' = fills + 1
    <3>1. fills' = fills + 1
      BY <1>3 DEF LoseDose, NewFill
    <3>2. Served(lane.order)'
      BY <1>1, <2>1, <2>2
    <3>3. Pending' = 0
      BY <1>1, <3>2 DEF Pending
    <3> QED BY <3>1, <3>3
  <2>5. Counted' /\ QueueOK' /\ Lighter
    BY <1>1, <1>2, <2>1, <2>2, <2>4, DoseTakenCounted DEF LoseDose
  <2>6. BillsOK' /\ SideOK(lane')
    BY <1>1 DEF LoseDose, BillsOK
  <2> QED BY <1>1, <2>2, <2>3, <2>5, <2>6 DEF OrdersInv, Parts
<1>4. CASE ~(arrived /\ TakesDose(pump[job.gun]))
  <2>1. UNCHANGED <<pump, fill, fills, claim, cleared, queue, bill, orders>>
    BY <1>4 DEF LoseDose
  <2>2. SameDoses /\ SameClaims /\ SameOrders /\ BillsOK' /\ QueueOK' /\ Fewer
    BY <1>1, <2>1, SameGuns, SameQueue DEF SameClaims, SameOrders, HistoryOK, BillsOK
  <2>3. Dosing
    BY <1>1, <2>1 DEF Dosing
  <2>4. CalmStep
    BY <1>1, <2>1, <2>2, <2>3 DEF CalmStep, SameDoses, HistoryOK
  <2> QED BY <2>4, CalmKeeps
<1> QED BY <1>3, <1>4

LEMMA LoseExchangeKeeps ==
    ASSUME OrdersInv, NEW arrived \in BOOLEAN, LoseExchange(arrived)
    PROVE  OrdersInv' /\ Lighter
<1> /\ PumpOK /\ HistoryOK /\ JobOK /\ BillsOK /\ Counted /\ QueueOK /\ Follows(lane, lane)
  BY Context
<1>1. JobOK' /\ at' # "dose" /\ Within /\ lane' = lane /\ job.gun \in Gun
  BY SameJob, SpentWithin DEF LoseExchange, JobOK
<1>2. SameDoses
  <2>1. CASE UNCHANGED pump
    BY <2>1, SameGuns
  <2>2. CASE pump' = [pump EXCEPT ![job.gun] = GunTold(pump[job.gun])]
    BY <1>1, <2>2, GunTells, OneGun DEF PumpOK
  <2>3. CASE pump' = [pump EXCEPT ![job.gun] = GunStop(pump[job.gun])]
    BY <1>1, <2>3, GunKeeps, OneGun DEF PumpOK, SameFill
  <2> QED BY <2>1, <2>2, <2>3 DEF LoseExchange, Request
<1>3. Settled
  BY <1>1 DEF Settled
<1>4. SameClaims /\ BillsOK' /\ UNCHANGED <<queue, orders, fill, fills, cleared>>
  BY DEF LoseExchange, ghosts, SameClaims, HistoryOK, BillsOK
<1> QED BY <1>1, <1>2, <1>3, <1>4, LoopCalm

----------------------------------------------------------------------------
(* The stops, and what the guns do by themselves. *)

LEMMA StopWireKeeps ==
    ASSUME OrdersInv, NEW heard \in BOOLEAN, NEW final \in BOOLEAN, StopWire(heard, final)
    PROVE  OrdersInv' /\ Lighter
<1> /\ PumpOK /\ SideOK(lane) /\ HistoryOK /\ JobOK /\ BillsOK /\ Counted /\ job \in Job
    /\ Follows(lane, lane) /\ job.gun \in Gun /\ SaleOf(job.gun) \in Sale
  BY Context, SaleOfGun DEF StopWire, JobOK
<1> DEFINE q == IF heard THEN GunStop(pump[job.gun]) ELSE pump[job.gun]
           p == IF final THEN [q EXCEPT !.phase = "Final"] ELSE q
           l == IF final THEN [lane EXCEPT !.final = SaleOf(job.gun)] ELSE lane
<1>1. SameDoses
  <2>1. pump[job.gun] \in GunState
    BY DEF PumpOK
  <2>2. q \in GunState /\ q.dose = pump[job.gun].dose
    BY <2>1, GunKeeps DEF SameFill
  <2>3. p \in GunState /\ p.dose = q.dose
    BY <2>2 DEF GunState
  <2>4. pump' = [pump EXCEPT ![job.gun] = p]
    BY DEF StopWire
  <2> HIDE DEF p, q
  <2> QED BY <2>2, <2>3, <2>4, OneGun
<1>2. Follows(lane, l)
  BY MarkedFollows
<1>3. ASSUME job.next = "tail" PROVE Settled
  <2>1. PollEnds(l)
    BY <1>3 DEF StopWire
  <2> HIDE DEF l
  <2> QED BY <1>2, <2>1, PollEndsSettled
<1>4. ASSUME job.next = "leave" PROVE Settled
  <2>1. lane' = l /\ Leave(l)
    BY <1>4 DEF StopWire
  <2> HIDE DEF l
  <2> QED BY <1>2, <2>1, LeaveSettled
<1>5. ASSUME job.next = "each" /\ job.todo = {} PROVE Settled
  <2>1. lane' = l /\ at' = "rest" /\ job' = NoJob
    BY <1>5 DEF StopWire, Rest, Goto
  <2> HIDE DEF l
  <2> QED BY <1>2, <2>1, NoJobIsJob DEF Settled, JobOK
<1>6. ASSUME job.next = "each" /\ job.todo # {} PROVE Settled
  <2> DEFINE g == First(job.todo)
  <2>1. lane' = l /\ at' = "each" /\ job' = [NoJob EXCEPT !.gun = g, !.todo = job.todo \ {g}]
    BY <1>6 DEF StopWire, Goto
  <2>2. g \in Gun
    BY <1>6, FirstInSet DEF Job
  <2> HIDE DEF g, l
  <2>3. job' \in Job /\ job'.gun = g
    BY <2>1, <2>2 DEF NoJob, Job
  <2> QED BY <1>2, <2>1, <2>2, <2>3 DEF Settled, JobOK
<1>7. Settled
  BY <1>3, <1>4, <1>5, <1>6 DEF Job
<1>8. SameClaims /\ BillsOK' /\ Within
  BY SameLeft DEF StopWire, ghosts, SameClaims, HistoryOK, BillsOK
<1> QED BY <1>1, <1>7, <1>8, LoopCalm DEF StopWire, ghosts

LEMMA StopEachKeeps ==
    ASSUME OrdersInv, NEW heard \in BOOLEAN, StopEach(heard)
    PROVE  OrdersInv' /\ Lighter
<1> /\ PumpOK /\ HistoryOK /\ JobOK /\ BillsOK /\ Counted /\ job \in Job /\ Follows(lane, lane)
    /\ job.gun \in Gun
  BY Context DEF StopEach, JobOK
<1>1. SameDoses
  <2>1. pump[job.gun] \in GunState
    BY DEF PumpOK
  <2>2. CASE heard
    BY <2>1, <2>2, GunKeeps, OneGun DEF StopEach, SameFill
  <2>3. CASE ~heard
    BY <2>3, SameGuns DEF StopEach
  <2> QED BY <2>2, <2>3
<1>2. Settled
  <2>1. CASE job.todo = {}
    BY <2>1, NoJobIsJob DEF StopEach, Rest, Goto, Settled, JobOK
  <2>2. CASE job.todo # {}
    <3> DEFINE g == First(job.todo)
    <3>1. at' = "each" /\ job' = [job EXCEPT !.gun = g, !.retried = FALSE, !.todo = job.todo \ {g}]
      BY <2>2 DEF StopEach, Goto
    <3>2. g \in Gun
      BY <2>2, FirstInSet DEF Job
    <3> HIDE DEF g
    <3>3. job' \in Job /\ job'.gun = g
      BY <3>1, <3>2 DEF Job
    <3>4. lane' = lane
      BY DEF StopEach
    <3> QED BY <3>1, <3>2, <3>3, <3>4 DEF Settled, JobOK
  <2> QED BY <2>1, <2>2
<1>3. SameClaims /\ BillsOK' /\ Within
  BY SameLeft DEF StopEach, ghosts, SameClaims, HistoryOK, BillsOK
<1> QED BY <1>1, <1>2, <1>3, LoopCalm DEF StopEach, ghosts

LEMMA ElapseKeeps ==
    ASSUME OrdersInv, Elapse
    PROVE  OrdersInv' /\ Lighter
<1> /\ PumpOK /\ SideOK(lane) /\ HistoryOK /\ JobOK /\ BillsOK /\ Counted /\ QueueOK
  BY Context
<1>1. /\ Follows(lane, lane') /\ lane'.order = lane.order /\ lane'.dose = lane.dose
      /\ (Waiting(lane') <=> Waiting(lane)) /\ lane'.pre = lane.pre /\ lane'.started = lane.started
      /\ lane'.tx = lane.tx /\ lane'.final = lane.final
  <2>1. Follows(lane, lane')
    BY MarkedFollows DEF Elapse
  <2>2. /\ lane'.order = lane.order /\ lane'.dose = lane.dose /\ lane'.pre = lane.pre
        /\ lane'.started = lane.started /\ lane'.tx = lane.tx /\ lane'.final = lane.final
    BY DEF Elapse, SideOK, LaneState
  <2> QED BY <2>1, <2>2 DEF Waiting
<1>2. JobOK'
  BY <1>1 DEF JobOK, Elapse
<1>3. SameDoses /\ SameClaims /\ SameOrders /\ BillsOK' /\ QueueOK' /\ Fewer
  BY SameGuns, SameLeft, SameQueue DEF Elapse, ghosts, SameClaims, SameOrders, HistoryOK, BillsOK
<1>4. Dosing
  BY <1>1 DEF Dosing, Elapse
<1>5. CalmStep
  BY <1>1, <1>2, <1>3, <1>4 DEF CalmStep, SameDoses, Elapse, ghosts, HistoryOK
<1> QED BY <1>5, CalmKeeps

LEMMA GunStepCalm ==
    ASSUME OrdersInv, NEW g \in Gun, NEW p, SameFill(pump[g], p), Happens(g, p), Within,
           UNCHANGED <<fill, fills, claim, cleared>>
    PROVE  OrdersInv' /\ Lighter
<1> /\ PumpOK /\ SideOK(lane) /\ HistoryOK /\ JobOK /\ BillsOK /\ Counted /\ QueueOK
    /\ Follows(lane, lane)
  BY Context
<1>1. UNCHANGED <<lane, queue, at, job, bill, orders>> /\ pump' = [pump EXCEPT ![g] = p]
  BY DEF Happens
<1>2. SameDoses
  BY <1>1, OneGun DEF SameFill
<1>3. \A h \in Gun : pump'[h].phase = "Idle" => pump[h].phase = "Idle"
  BY <1>1 DEF SameFill, PumpOK
<1>4. JobOK' /\ Dosing
  BY <1>1, <1>3 DEF JobOK, Dosing, Waiting
<1>5. SameClaims /\ SameOrders /\ BillsOK' /\ QueueOK' /\ Fewer
  BY <1>1, SameQueue DEF SameClaims, SameOrders, HistoryOK, BillsOK
<1>6. CalmStep
  BY <1>1, <1>2, <1>4, <1>5 DEF CalmStep, SameDoses, HistoryOK
<1> QED BY <1>6, CalmKeeps

LEMMA GunStepsKeep ==
    ASSUME OrdersInv, NEW g \in Gun,
           \/ CustomerLifts(g) \/ CustomerHolsters(g) \/ FuelFlows(g) \/ FuelCreeps(g)
           \/ Pause(g) \/ KeypadBegins(g)
    PROVE  OrdersInv' /\ Lighter
<1> pump[g] \in GunState /\ Counted
  BY Context DEF PumpOK
<1>1. CASE CustomerLifts(g)
  BY <1>1, GunKeeps, GunStepCalm, SameLeft DEF CustomerLifts
<1>2. CASE CustomerHolsters(g)
  BY <1>2, GunKeeps, GunStepCalm, SameLeft DEF CustomerHolsters
<1>3. CASE FuelFlows(g)
  BY <1>3, GunFlows, GunStepCalm, SameLeft DEF FuelFlows
<1>4. CASE FuelCreeps(g)
  BY <1>4, GunFlows, GunStepCalm, SameLeft DEF FuelCreeps
<1>5. CASE Pause(g)
  BY <1>5, GunKeeps, GunStepCalm, SpendWithin DEF Pause
<1>6. CASE KeypadBegins(g)
  BY <1>6, GunKeeps, GunStepCalm, SameLeft DEF KeypadBegins
<1> QED BY <1>1, <1>2, <1>3, <1>4, <1>5, <1>6

LEMMA KeypadSpent ==
    ASSUME Counted, Spend("keypad")
    PROVE  /\ left' \in Budget /\ left'.named = left.named /\ left'.reactive = left.reactive
           /\ left'.keypad = left.keypad + (-1) /\ left.keypad > 0
<1> DEFINE n == left.keypad - 1
<1>1. left.keypad \in Nat /\ left.keypad > 0 /\ left \in Budget
  BY DEF Counted, Budget, Spend
<1>2. n \in Nat /\ n = left.keypad + (-1)
  BY <1>1
<1>3. left' = [left EXCEPT !.keypad = n]
  BY DEF Spend
<1> HIDE DEF n
<1>4. PICK m : m = [left EXCEPT !.keypad = n]
  OBVIOUS
<1>5. m \in Budget /\ m.named = left.named /\ m.reactive = left.reactive /\ m.keypad = n
  BY <1>1, <1>2, <1>4 DEF Budget
<1> QED BY Zenon, <1>1, <1>2, <1>3, <1>4, <1>5

LEMMA KeypadFillsKeeps ==
    ASSUME OrdersInv, NEW g \in Gun, KeypadFills(g)
    PROVE  OrdersInv' /\ Lighter
<1> /\ SideOK(lane) /\ HistoryOK /\ JobOK /\ BillsOK /\ OrderOK /\ Counted /\ QueueOK
  BY Context
<1>1. /\ left' \in Budget /\ left'.named = left.named /\ left'.reactive = left.reactive
      /\ left'.keypad = left.keypad + (-1) /\ left.keypad > 0
  BY KeypadSpent DEF KeypadFills
<1>2. UNCHANGED <<lane, queue, at, job, bill, orders>>
  BY DEF KeypadFills, Happens
<1>3. fills < MaxFills
  <2>1. PICK a, s, p : a = Asked /\ s = fills /\ p = Pending
    OBVIOUS
  <2>2. PICK d, e, f : d = left.named /\ e = left.reactive /\ f = left.keypad
    OBVIOUS
  <2>3. d \in Nat /\ e \in Nat /\ f \in Nat /\ f > 0
    <3>1. left.keypad > 0
      BY <1>1
    <3> QED BY <2>2, <3>1, Numbers
  <2>4. a \in Nat /\ s \in Nat /\ MaxFills \in Nat
    BY <2>1, Numbers, MaxFillsAssumption
  <2>5. p \in 0 .. 1
    BY <2>1 DEF Pending
  <2>6. s + p + a + d + e + f <= MaxFills
    BY Zenon, <2>1, <2>2 DEF Counted
  <2>7. s < MaxFills
    BY <2>3, <2>4, <2>5, <2>6
  <2> QED BY <2>1, <2>7
<1>4. /\ PumpOK' /\ HistoryOK' /\ CancelWins' /\ ServedOnce'
      /\ \A h \in Gun : pump'[h].phase = "Idle" => pump[h].phase = "Idle"
      /\ \A o \in Fill : Served(o)' <=> Served(o)
  <2>1. None \in Dose /\ Unclaimed \notin Fill
    BY DEF Dose, Unclaimed, Fill
  <2> QED BY <1>2, <1>3, <2>1, FillKeeps DEF KeypadFills, Happens
<1>5. JobOK'
  BY <1>2 DEF JobOK, Waiting
<1>6. lane.order \in {0} \cup Fill
  BY DEF SideOK, LaneState
<1>7. OrderOK'
  <2>1. Waiting(lane) => lane.order \in Fill
    BY <1>6 DEF OrderOK, Fill
  <2>2. at = "dose" => lane.order \in Fill /\ job.gun \in Gun
    BY <1>6 DEF OrderOK, Sent, Fill, JobOK
  <2> QED BY <1>2, <1>4, <2>1, <2>2 DEF OrderOK, Sent, Agrees, Waiting
<1>8. QueueOK' /\ Asked' = Asked /\ Pending' = Pending
  BY <1>2, <1>4, <1>6 DEF QueueOK, Asked, OrdersIn, Pending
<1>9. Counted' /\ Lighter
  <2>1. Asked' <= Asked + 0 /\ Pending' <= Pending + 0
    <3>1. PICK a, p : a = Asked /\ p = Pending
      OBVIOUS
    <3>2. a \in Nat /\ p \in Nat
      BY <3>1, Numbers DEF Pending
    <3>3. a <= a + 0 /\ p <= p + 0
      BY <3>2
    <3> QED BY Zenon, <1>8, <3>1, <3>3
  <2>2. Len(orders') = Len(orders) + 0 /\ orders' \in Seq(Order) /\ fills' = fills + 1
    BY <1>2 DEF HistoryOK, KeypadFills, NewFill
  <2>3. 1 \in Int /\ -1 \in Int /\ 0 \in Int /\ 1 + 0 + 0 + (-1) <= 0 /\ 0 + 0 <= 0
    OBVIOUS
  <2> QED BY Zenon, <1>1, <1>8, <2>1, <2>2, <2>3, CountedBy
<1>10. BillsOK' /\ SideOK(lane')
  BY <1>2 DEF BillsOK
<1> QED BY <1>4, <1>5, <1>7, <1>8, <1>9, <1>10 DEF OrdersInv, Parts

----------------------------------------------------------------------------
(* The orders among the commands of the queue. *)

IsOrder(c) == IF c.kind = "order" THEN 1 ELSE 0

LEMMA AskedAppend ==
    ASSUME NEW q \in Seq(Command), NEW c \in Command
    PROVE  OrdersIn(Append(q, c)) = OrdersIn(q) + IsOrder(c)
<1> DEFINE n == Len(q) + 1
           S == {i \in DOMAIN q : q[i].kind = "order"}
           T == {i \in DOMAIN Append(q, c) : Append(q, c)[i].kind = "order"}
<1>1. /\ n \notin DOMAIN q /\ DOMAIN Append(q, c) = DOMAIN q \cup {n}
      /\ Append(q, c)[n] = c /\ \A i \in DOMAIN q : Append(q, c)[i] = q[i]
  <2>1. Len(q) \in Nat /\ DOMAIN q = 1 .. Len(q)
    OBVIOUS
  <2>2. DOMAIN Append(q, c) = 1 .. n
    OBVIOUS
  <2>3. Append(q, c)[n] = c /\ \A i \in DOMAIN q : Append(q, c)[i] = q[i]
    OBVIOUS
  <2> QED BY <2>1, <2>2, <2>3
<1>2. IsFiniteSet(S) /\ OrdersIn(q) \in Nat
  BY OrdersInNat
<1>3. OrdersIn(q) = Cardinality(S) /\ OrdersIn(Append(q, c)) = Cardinality(T)
  BY DEF OrdersIn
<1>4. n \notin S
  BY <1>1
<1>5. CASE c.kind = "order"
  <2>1. T = S \cup {n}
    BY <1>1, <1>5
  <2> HIDE DEF S, T, n
  <2>2. Cardinality(T) = Cardinality(S) + 1
    BY <1>2, <1>4, <2>1, FS_AddElement
  <2> QED BY <1>3, <1>5, <2>2 DEF IsOrder
<1>6. CASE c.kind # "order"
  <2>1. T = S
    BY <1>1, <1>6
  <2> HIDE DEF S, T
  <2> QED BY <1>2, <1>3, <1>6, <2>1 DEF IsOrder
<1> QED BY <1>5, <1>6

LEMMA AskedTail ==
    ASSUME NEW q \in Seq(Command), q # <<>>
    PROVE  /\ Tail(q) \in Seq(Command) /\ Len(Tail(q)) = Len(q) - 1 /\ Head(q) = q[1]
           /\ \A i \in DOMAIN Tail(q) : i + 1 \in DOMAIN q /\ Tail(q)[i] = q[i + 1]
           /\ OrdersIn(Tail(q)) + IsOrder(Head(q)) <= OrdersIn(q)
<1> DEFINE t == Tail(q)
           S == {i \in DOMAIN q : q[i].kind = "order"}
           T == {i \in DOMAIN t : t[i].kind = "order"}
           f == [i \in T |-> i + 1]
<1>1. t \in Seq(Command) /\ Len(t) = Len(q) - 1 /\ Len(q) \in Nat /\ Len(q) > 0 /\ Head(q) = q[1]
  OBVIOUS
<1>2. \A i \in DOMAIN t : i \in Nat /\ i > 0 /\ i + 1 \in DOMAIN q /\ t[i] = q[i + 1]
  <2>1. DOMAIN t = 1 .. Len(t) /\ DOMAIN q = 1 .. Len(q)
    BY <1>1
  <2>2. \A i \in 1 .. Len(t) : t[i] = q[i + 1]
    OBVIOUS
  <2> QED BY <1>1, <2>1, <2>2
<1>3. IsFiniteSet(S) /\ OrdersIn(q) \in Nat /\ IsFiniteSet(T) /\ OrdersIn(t) \in Nat
  BY <1>1, OrdersInNat
<1>4. OrdersIn(q) = Cardinality(S) /\ OrdersIn(t) = Cardinality(T)
  BY DEF OrdersIn
<1> HIDE DEF t
<1>5. f \in [T -> S \ {1}]
  BY <1>2
<1>6. \A i, j \in T : f[i] = f[j] => i = j
  BY <1>2
<1>7. f \in Injection(T, S \ {1})
  <2> HIDE DEF f, S, T
  <2> QED BY <1>5, <1>6, Zenon DEF Injection, IsInjective
<1>8. IsFiniteSet(S \ {1}) /\ Cardinality(S \ {1}) = IF 1 \in S THEN Cardinality(S) - 1 ELSE Cardinality(S)
  <2> HIDE DEF S
  <2> QED BY <1>3, FS_RemoveElement
<1>9. Cardinality(T) <= Cardinality(S \ {1})
  <2> HIDE DEF f, S, T
  <2> QED BY <1>7, <1>8, FS_Injection
<1>10. 1 \in S <=> Head(q).kind = "order"
  BY <1>1
<1>11. OrdersIn(t) + IsOrder(Head(q)) <= OrdersIn(q)
  <2> HIDE DEF S, T
  <2> QED BY <1>3, <1>4, <1>8, <1>9, <1>10 DEF IsOrder
<1> QED BY <1>1, <1>2, <1>11 DEF t

----------------------------------------------------------------------------
(* The routes. *)

LEMMA Enqueued ==
    ASSUME QueueOK, NEW c \in Command, Enqueue(c),
           c.kind = "order" => c.for \in Gun /\ (c.gun # None => c.gun = c.for)
    PROVE  QueueOK' /\ Asked' = Asked + IsOrder(c)
<1>1. queue' = Append(queue, c) /\ queue \in Seq(Command) /\ Len(queue) < MaxQueue
  BY DEF Enqueue, QueueOK
<1>2. queue' \in Seq(Command) /\ Len(queue') <= MaxQueue
  BY <1>1, MaxQueueAssumption
<1>3. \A i \in DOMAIN queue' : (i \in DOMAIN queue /\ queue'[i] = queue[i]) \/ queue'[i] = c
  BY <1>1
<1>4. QueueOK'
  BY <1>2, <1>3 DEF QueueOK
<1>5. OrdersIn(queue') = OrdersIn(queue) + IsOrder(c)
  BY <1>1, AskedAppend
<1> QED BY <1>4, <1>5 DEF Asked

(* A route leaves the loop alone, and flags at most a cancellation. *)
LEMMA RouteCalm ==
    ASSUME OrdersInv, Outside, UNCHANGED pump, SameOrders, QueueOK', Fewer,
           lane' = lane \/ lane' = [lane EXCEPT !.cancel = TRUE]
    PROVE  OrdersInv' /\ Lighter
<1> /\ PumpOK /\ SideOK(lane) /\ HistoryOK /\ JobOK /\ BillsOK
  BY Context
<1>1. /\ Follows(lane, lane') /\ lane'.order = lane.order /\ lane'.dose = lane.dose
      /\ lane'.pre = lane.pre /\ lane'.started = lane.started
      /\ lane'.tx = lane.tx /\ lane'.final = lane.final
  <2>1. Follows(lane, lane')
    BY MarkedFollows, FollowsItself
  <2>2. /\ lane'.order = lane.order /\ lane'.dose = lane.dose /\ lane'.pre = lane.pre
        /\ lane'.started = lane.started /\ lane'.tx = lane.tx /\ lane'.final = lane.final
    BY DEF SideOK, LaneState
  <2> QED BY <2>1, <2>2
<1>2. JobOK' /\ Dosing
  BY <1>1 DEF JobOK, Dosing, Outside, Waiting
<1>3. SameDoses /\ SameClaims /\ BillsOK'
  BY SameGuns DEF Outside, SameClaims, HistoryOK, BillsOK
<1>4. CalmStep
  BY <1>1, <1>2, <1>3 DEF CalmStep, SameDoses, Outside, HistoryOK
<1> QED BY <1>4, CalmKeeps

(* An order leaves the budget for the queue. *)
LEMMA OrderEnqueued ==
    ASSUME HistoryOK, Counted, QueueOK, NEW what \in {"named", "reactive"}, Spend(what),
           Asked' = Asked + 1
    PROVE  Fewer
<1> DEFINE n == left[what] - 1
<1>1. left' = [left EXCEPT ![what] = n] /\ left[what] > 0
  BY DEF Spend
<1>2. n \in Nat /\ left \in Budget /\ left.keypad \in Nat
  BY <1>1, CountIsNat DEF Counted
<1>3. PICK m : m = [left EXCEPT ![what] = n]
  OBVIOUS
<1>4. PICK a, d, e : a = Asked /\ d = left.named /\ e = left.reactive
  OBVIOUS
<1>5. a \in Nat /\ d \in Nat /\ e \in Nat
  BY <1>4, Numbers
<1>6. CASE what = "named"
  <2>1. n = d - 1
    BY <1>4, <1>6
  <2> HIDE DEF n
  <2>2. m = [left EXCEPT !.named = n]
    BY <1>3, <1>6
  <2>3. m \in Budget /\ m.keypad = left.keypad /\ m.named = n /\ m.reactive = e
    BY <1>2, <1>4, <2>2 DEF Budget
  <2>4. n + e + (a + 1) <= d + e + a /\ m.keypad <= left.keypad
    BY <1>2, <1>5, <2>1, <2>3
  <2> QED BY Zenon, <1>1, <1>3, <1>4, <2>3, <2>4 DEF Fewer
<1>7. CASE what = "reactive"
  <2>1. n = e - 1
    BY <1>4, <1>7
  <2> HIDE DEF n
  <2>2. m = [left EXCEPT !.reactive = n]
    BY <1>3, <1>7
  <2>3. m \in Budget /\ m.keypad = left.keypad /\ m.named = d /\ m.reactive = n
    BY <1>2, <1>4, <2>2 DEF Budget
  <2>4. d + n + (a + 1) <= d + e + a /\ m.keypad <= left.keypad
    BY <1>2, <1>5, <2>1, <2>3
  <2> QED BY Zenon, <1>1, <1>3, <1>4, <2>3, <2>4 DEF Fewer
<1> QED BY <1>6, <1>7

LEMMA RequestOrderKeeps ==
    ASSUME OrdersInv, NEW g \in Gun, RequestOrder(g)
    PROVE  OrdersInv' /\ Lighter
<1> /\ SideOK(lane) /\ HistoryOK /\ Counted /\ QueueOK
  BY Context
<1>1. PICK what \in {"named", "reactive"}, h \in Gun \cup {None} :
         /\ Spend(what) /\ Enqueue([kind |-> "order", gun |-> h, for |-> g])
         /\ h # None => h = g
  BY DEF RequestOrder
<1> DEFINE c == [kind |-> "order", gun |-> h, for |-> g]
<1>2. c \in Command /\ c.kind = "order" /\ c.for = g /\ c.gun = h
  BY DEF Command
<1>3. Enqueue(c)
  BY <1>1
<1> HIDE DEF c
<1>4. QueueOK' /\ Asked' = Asked + 1
  BY <1>1, <1>2, <1>3, Enqueued DEF IsOrder
<1>5. Fewer
  BY <1>1, <1>4, OrderEnqueued
<1>6. SameOrders
  BY DEF RequestOrder, SameOrders, HistoryOK
<1> QED BY <1>4, <1>5, <1>6, RouteCalm DEF RequestOrder

LEMMA PlainEnqueued ==
    ASSUME OrdersInv, NEW kind \in {"stop", "estop", "reset"}, Enqueue(Plain(kind)), Within
    PROVE  QueueOK' /\ Fewer
<1> /\ HistoryOK /\ Counted /\ QueueOK
  BY Context
<1>1. Plain(kind) \in Command /\ Plain(kind).kind # "order"
  BY DEF Plain, Command
<1>2. QueueOK' /\ Asked' = Asked + 0
  BY <1>1, Enqueued DEF IsOrder
<1>3. PICK a, d, e : a = Asked /\ d = left.named /\ e = left.reactive
  OBVIOUS
<1>4. d + e + (a + 0) <= d + e + a
  BY <1>3, Numbers
<1>5. left'.named + left'.reactive + Asked' <= left.named + left.reactive + Asked
  BY Zenon, <1>2, <1>3, <1>4 DEF Within
<1> QED BY <1>2, <1>5 DEF Fewer, Within

LEMMA FlaggedOrders ==
    ASSUME OrdersInv, Flagged
    PROVE  SameOrders /\ (lane' = lane \/ lane' = [lane EXCEPT !.cancel = TRUE])
<1> /\ SideOK(lane) /\ HistoryOK /\ OrderOK
  BY Context
<1>1. CASE ~Waiting(lane)
  BY <1>1 DEF Flagged, SameOrders, HistoryOK
<1>2. CASE Waiting(lane)
  <2>1. lane' = [lane EXCEPT !.cancel = TRUE] /\ lane'.cancel
    BY <1>2 DEF Flagged, Waiting, CanCancel, SideOK, LaneState
  <2>2. PICK o \in 1 .. Len(orders) : o = lane.order
    BY <1>2 DEF OrderOK, SideOK, LaneState, Fill, HistoryOK
  <2>3. orders' = [orders EXCEPT ![o].cancelled = TRUE]
    BY <1>2, <2>2 DEF Flagged
  <2>4. orders[o] \in Order /\ [orders[o] EXCEPT !.cancelled = TRUE] \in Order
    <3>1. orders[o] \in Order
      BY DEF HistoryOK
    <3> QED BY <3>1 DEF Order
  <2>5. orders' \in Seq(Order) /\ Len(orders') = Len(orders)
    BY <2>3, <2>4 DEF HistoryOK
  <2>6. ASSUME NEW p \in 1 .. Len(orders)
        PROVE  /\ orders'[p].gun = orders[p].gun /\ orders'[p].named = orders[p].named
               /\ orders'[p].dose = orders[p].dose
               /\ orders'[p].cancelled => orders[p].cancelled \/ p = o
    <3>1. orders[p] \in Order
      BY DEF HistoryOK
    <3>2. CASE p = o
      BY <2>3, <3>1, <3>2 DEF HistoryOK, Order
    <3>3. CASE p # o
      BY <2>3, <3>3 DEF HistoryOK
    <3> QED BY <3>2, <3>3
  <2> QED BY <1>2, <2>1, <2>2, <2>5, <2>6 DEF SameOrders
<1> QED BY <1>1, <1>2

LEMMA RoutesKeep ==
    ASSUME OrdersInv, RequestCancel \/ RequestStop \/ RequestEStop \/ RequestReset
    PROVE  OrdersInv' /\ Lighter
<1> /\ Counted /\ HistoryOK
  BY Context
<1>1. CASE RequestCancel
  BY <1>1, SpendWithin, PlainEnqueued, FlaggedOrders, RouteCalm DEF RequestCancel
<1>2. CASE RequestStop
  <2>1. SameOrders
    BY <1>2 DEF RequestStop, SameOrders, HistoryOK
  <2> QED BY <1>2, <2>1, SpendWithin, PlainEnqueued, RouteCalm DEF RequestStop
<1>3. CASE RequestEStop
  BY <1>3, SpendWithin, PlainEnqueued, FlaggedOrders, RouteCalm DEF RequestEStop
<1>4. CASE RequestReset
  <2>1. SameOrders
    BY <1>4 DEF RequestReset, SameOrders, HistoryOK
  <2> QED BY <1>4, <2>1, SpendWithin, PlainEnqueued, RouteCalm DEF RequestReset
<1> QED BY <1>1, <1>2, <1>3, <1>4

----------------------------------------------------------------------------
(* The commands. *)

LEMMA Dequeues ==
    ASSUME OrdersInv, NEW kind \in {"order", "stop", "estop", "reset"}, Dequeued(kind)
    PROVE  /\ QueueOK' /\ Asked' <= Asked + (-IsOrder(Head(queue)))
           /\ Head(queue) \in Command /\ Head(queue).kind = kind
           /\ kind = "order" => /\ Head(queue).for \in Gun
                                /\ Head(queue).gun # None => Head(queue).gun = Head(queue).for
<1> QueueOK
  BY Context
<1>1. queue \in Seq(Command) /\ queue # <<>> /\ queue' = Tail(queue) /\ Head(queue).kind = kind
  BY DEF Dequeued, QueueOK
<1>2. /\ Tail(queue) \in Seq(Command) /\ Len(Tail(queue)) = Len(queue) - 1 /\ Head(queue) = queue[1]
      /\ \A i \in DOMAIN Tail(queue) : i + 1 \in DOMAIN queue /\ Tail(queue)[i] = queue[i + 1]
      /\ OrdersIn(Tail(queue)) + IsOrder(Head(queue)) <= OrdersIn(queue)
  BY <1>1, AskedTail
<1>3. 1 \in DOMAIN queue
  BY <1>1
<1>4. QueueOK'
  <2>1. Len(queue') <= MaxQueue /\ queue' \in Seq(Command)
    BY <1>1, <1>2, MaxQueueAssumption DEF QueueOK
  <2>2. ASSUME NEW i \in DOMAIN queue', queue'[i].kind = "order"
        PROVE  queue'[i].for \in Gun /\ (queue'[i].gun # None => queue'[i].gun = queue'[i].for)
    <3>1. i + 1 \in DOMAIN queue /\ queue'[i] = queue[i + 1]
      BY <1>1, <1>2, <2>2
    <3> QED BY <2>2, <3>1 DEF QueueOK
  <2> QED BY <2>1, <2>2 DEF QueueOK
<1>5. Asked' <= Asked + (-IsOrder(Head(queue)))
  <2>1. PICK a, b, h : a = Asked /\ b = Asked' /\ h = IsOrder(Head(queue))
    OBVIOUS
  <2>2. a \in Nat /\ b \in Nat
    BY <1>4, <2>1, OrdersInNat DEF Asked, QueueOK
  <2>3. h \in 0 .. 1
    BY <2>1 DEF IsOrder
  <2>4. b + h <= a
    BY <1>1, <1>2, <2>1 DEF Asked
  <2>5. b <= a + (-h)
    BY <2>2, <2>3, <2>4
  <2> QED BY Zenon, <2>1, <2>5
<1>6. kind = "order" => /\ Head(queue).for \in Gun
                        /\ Head(queue).gun # None => Head(queue).gun = Head(queue).for
  BY <1>1, <1>2, <1>3 DEF QueueOK
<1>7. Head(queue) \in Command
  BY <1>1, <1>2, <1>3
<1> QED BY <1>1, <1>4, <1>5, <1>6, <1>7

(* A command that takes no order. *)
LEMMA CommandCalm ==
    ASSUME OrdersInv, NEW kind \in {"order", "stop", "estop", "reset"}, Dequeued(kind), Settled,
           UNCHANGED orders
    PROVE  OrdersInv' /\ Lighter
<1> /\ PumpOK /\ SideOK(lane) /\ HistoryOK /\ BillsOK /\ Counted /\ QueueOK
  BY Context
<1>1. QueueOK' /\ Asked' <= Asked + (-IsOrder(Head(queue)))
  BY Dequeues
<1>2. UNCHANGED <<pump, bill, fill, fills, claim, cleared, left>>
  BY DEF Dequeued
<1>3. Within
  BY <1>2, SameLeft
<1>4. Fewer
  <2>1. PICK a, b, h : a = Asked /\ b = Asked' /\ h = IsOrder(Head(queue))
    OBVIOUS
  <2>2. PICK d, e : d = left.named /\ e = left.reactive
    OBVIOUS
  <2>3. a \in Nat /\ d \in Nat /\ e \in Nat
    BY <2>1, <2>2, Numbers
  <2>4. b \in Nat
    BY <1>1, <2>1, OrdersInNat DEF Asked, QueueOK
  <2>5. h \in 0 .. 1
    BY <2>1 DEF IsOrder
  <2>6. b <= a + (-h)
    BY Zenon, <1>1, <2>1
  <2>7. d + e + b <= d + e + a
    BY <2>3, <2>4, <2>5, <2>6
  <2>8. left'.named + left'.reactive + Asked' <= left.named + left.reactive + Asked
    BY Zenon, <1>3, <2>1, <2>2, <2>7 DEF Within
  <2> QED BY <1>3, <2>8 DEF Fewer, Within
<1>5. SameDoses /\ SameClaims /\ SameOrders /\ BillsOK'
  BY <1>2, SameGuns DEF SameClaims, SameOrders, HistoryOK, BillsOK
<1>6. CalmStep
  BY <1>1, <1>2, <1>4, <1>5 DEF CalmStep, Settled, SameDoses, Dosing, HistoryOK
<1> QED BY <1>6, CalmKeeps

LEMMA StopCommandKeeps ==
    ASSUME OrdersInv, StopCommand
    PROVE  OrdersInv' /\ Lighter
<1> /\ SideOK(lane) /\ job \in Job
  BY Context
<1> DEFINE l == CancelApplied(lane)
<1>1. Follows(lane, l) /\ SideOK(l)
  BY CancelAppliedFollows DEF Follows
<1>2. StopThen(l, "leave", Rest)
  BY DEF StopCommand
<1> HIDE DEF l
<1>3. Settled
  <2>1. CASE StopDue(l)
    BY <1>1, <1>2, <2>1, StopLands, LandedSettled DEF StopThen, Goto
  <2>2. CASE ~StopDue(l)
    BY <1>1, <1>2, <2>2, NoJobIsJob DEF StopThen, Rest, Goto, Settled, JobOK
  <2> QED BY <2>1, <2>2
<1> QED BY <1>3, CommandCalm DEF StopCommand

LEMMA EStopCommandKeeps ==
    ASSUME OrdersInv, EStopCommand
    PROVE  OrdersInv' /\ Lighter
<1> /\ SideOK(lane) /\ job \in Job
  BY Context
<1> DEFINE l == CancelApplied(lane)
           active == IF lane.started \/ lane.tx # None THEN lane.wire ELSE None
           others == Gun \ {active}
<1>1. Follows(lane, l) /\ SideOK(l)
  BY CancelAppliedFollows DEF Follows
<1>2. ASSUME StopDue(l) PROVE Settled
  <2>1. /\ lane' = [l EXCEPT !.paced = TRUE] /\ at' = "stop"
        /\ job' = [NoJob EXCEPT !.gun = l.wire, !.todo = others, !.next = "each"]
    BY <1>2 DEF EStopCommand, Goto
  <2>2. others \subseteq Gun
    OBVIOUS
  <2> HIDE DEF l, others
  <2>3. l.wire \in Gun
    BY <1>1, <1>2 DEF StopDue, SideOK
  <2>4. job' \in Job /\ job'.gun = l.wire
    BY <2>1, <2>2, <2>3 DEF NoJob, Job
  <2>5. Follows(lane, lane')
    BY <1>1, <2>1, MarkedFollows, FollowsOn
  <2> QED BY <2>1, <2>3, <2>4, <2>5 DEF Settled, JobOK
<1>3. ASSUME ~StopDue(l) PROVE Settled
  <2>1. CASE others = {}
    <3>1. lane' = l /\ at' = "rest" /\ job' = NoJob
      BY <1>3, <2>1 DEF EStopCommand, Rest, Goto
    <3> HIDE DEF l
    <3> QED BY <1>1, <3>1, NoJobIsJob DEF Settled, JobOK
  <2>2. CASE others # {}
    <3> DEFINE g == First(others)
    <3>1. /\ lane' = l /\ at' = "each"
          /\ job' = [NoJob EXCEPT !.gun = g, !.todo = others \ {g}]
      BY <1>3, <2>2 DEF EStopCommand, Goto
    <3>2. g \in Gun /\ others \subseteq Gun
      <4>1. others \in SUBSET Gun
        OBVIOUS
      <4> HIDE DEF others
      <4> QED BY <2>2, <4>1, FirstInSet
    <3> HIDE DEF l, g, others
    <3>3. job' \in Job /\ job'.gun = g
      BY <3>1, <3>2 DEF NoJob, Job
    <3> QED BY <1>1, <3>1, <3>2, <3>3 DEF Settled, JobOK
  <2> QED BY <2>1, <2>2
<1>4. Settled
  BY <1>2, <1>3
<1> QED BY <1>4, CommandCalm DEF EStopCommand

LEMMA ResetCommandKeeps ==
    ASSUME OrdersInv, ResetCommand
    PROVE  OrdersInv' /\ Lighter
<1> SideOK(lane)
  BY Context
<1>1. Follows(lane, lane')
  <2>1. CASE Unowned(lane)
    <3>1. lane' = Cleared([lane EXCEPT !.status = "Idle", !.nozzle = None])
      BY <2>1 DEF ResetCommand
    <3>2. lane.pre = None
      BY <2>1 DEF Unowned
    <3> DEFINE m == [lane EXCEPT !.status = "Idle", !.nozzle = None]
    <3>3. /\ m \in LaneState /\ m.pre = None /\ m.tx = lane.tx /\ m.order = lane.order
      BY <3>2 DEF SideOK, LaneState
    <3>4. lane' = Cleared(m)
      BY <3>1
    <3>5. lane.tx = None
      BY <2>1 DEF Unowned
    <3> HIDE DEF m
    <3> QED BY <3>2, <3>3, <3>4, <3>5 DEF Follows, SideOK, Waiting, Cleared, LaneState
  <2>2. CASE ~Unowned(lane)
    BY <2>2, FollowsItself DEF ResetCommand
  <2> QED BY <2>1, <2>2
<1>2. Settled
  BY <1>1, NoJobIsJob DEF ResetCommand, Rest, Goto, Settled, JobOK
<1> QED BY <1>2, CommandCalm DEF ResetCommand

(* The lane takes an order, which waits for its gun. *)
LEMMA ReservedWaits ==
    ASSUME NEW l, SideOK(l), CanReserve(l), NEW g \in Gun, NEW dose \in Dose, NEW id \in Fill
    PROVE  LET m == Reserved(l, g, dose, id)
           IN  /\ SideOK(m) /\ m.nozzle = g /\ m.pre = g /\ m.order = id /\ m.dose = dose
               /\ ~m.cancel /\ ~m.started /\ m.tx = None
<1> DEFINE k == Cleared(l)
           j == [k EXCEPT !.wire = g, !.status = "PreAuthorized", !.nozzle = g]
<1>1. k \in LaneState /\ ~k.started /\ ~k.cancel /\ ~k.stop /\ k.tx = None
  BY DEF SideOK, CanReserve, Unowned, Cleared, LaneState
<1> HIDE DEF k
<1>2. /\ j \in LaneState /\ ~j.started /\ ~j.cancel /\ ~j.stop /\ j.tx = None
      /\ j.nozzle = g /\ j.wire = g
  BY <1>1 DEF LaneState
<1>3. Reserved(l, g, dose, id) = [j EXCEPT !.pre = g, !.dose = dose, !.order = id]
  BY <1>1 DEF Reserved, k, LaneState
<1> HIDE DEF j
<1> DEFINE m == Reserved(l, g, dose, id)
           i == [j EXCEPT !.pre = g]
           h == [i EXCEPT !.dose = dose]
<1>4. /\ i \in LaneState /\ i.nozzle = g /\ i.wire = g /\ i.pre = g
      /\ ~i.started /\ ~i.cancel /\ ~i.stop /\ i.tx = None
  BY <1>2 DEF LaneState
<1>5. m = [h EXCEPT !.order = id]
  BY <1>2, <1>3 DEF LaneState
<1> HIDE DEF i
<1>6. /\ h \in LaneState /\ h.nozzle = g /\ h.wire = g /\ h.pre = g /\ h.dose = dose
      /\ ~h.started /\ ~h.cancel /\ ~h.stop /\ h.tx = None
  BY <1>4 DEF LaneState
<1> HIDE DEF h, m
<1>7. /\ m \in LaneState /\ m.nozzle = g /\ m.wire = g /\ m.pre = g /\ m.dose = dose
      /\ m.order = id /\ ~m.started /\ ~m.cancel /\ ~m.stop /\ m.tx = None
  BY <1>5, <1>6 DEF LaneState
<1>8. SideOK(m)
  BY <1>7 DEF SideOK, Waiting
<1> QED BY <1>7, <1>8 DEF m

LEMMA OrderTaken ==
    ASSUME OrdersInv, NEW dose \in Dose, OrderCommand(dose), CanReserve(lane)
    PROVE  OrdersInv' /\ Lighter
<1> /\ PumpOK /\ SideOK(lane) /\ HistoryOK /\ JobOK /\ BillsOK /\ OrderOK /\ Counted /\ QueueOK
  BY Context
<1> DEFINE named == Head(queue).gun # None
           gun == IF named THEN Head(queue).gun
                ELSE IF lane.nozzle # None THEN lane.nozzle ELSE First(Gun)
           new == [gun |-> Head(queue).for, named |-> named, dose |-> dose, cancelled |-> FALSE]
<1>1. /\ QueueOK' /\ Asked' <= Asked + (-IsOrder(Head(queue)))
      /\ Head(queue) \in Command /\ Head(queue).kind = "order" /\ Head(queue).for \in Gun
      /\ named => Head(queue).gun = Head(queue).for
  BY Dequeues DEF OrderCommand
<1>2. IsOrder(Head(queue)) = 1
  BY <1>1 DEF IsOrder
<1>3. /\ UNCHANGED <<pump, bill, fill, fills, claim, cleared, left>>
      /\ lane' = Reserved(lane, gun, dose, Len(orders) + 1) /\ orders' = Append(orders, new)
      /\ at' = "rest" /\ job' = NoJob
  BY DEF OrderCommand, Dequeued, Rest, Goto
<1>4. gun \in Gun /\ new \in Order /\ (new.named => new.gun = gun)
  <2>1. First(Gun) \in Gun
    BY GunAssumption, FirstInSet
  <2>2. Head(queue).gun \in Gun \cup {None} /\ lane.nozzle \in Gun \cup {None}
    BY <1>1 DEF Command, SideOK, LaneState
  <2> QED BY <1>1, <2>1, <2>2 DEF Order
<1>5. new.dose = dose /\ ~new.cancelled
  OBVIOUS
<1> HIDE DEF gun, new
<1> PICK g, o, order : g = gun /\ o = Len(orders) + 1 /\ order = new
  OBVIOUS
<1>6. o \in Fill /\ Len(orders) \in Nat
  <2>1. PICK a, b, n, d, e : a = Asked /\ b = Asked' /\ n = Len(orders)
                             /\ d = left.named /\ e = left.reactive
    OBVIOUS
  <2>2. a \in Nat /\ n \in Nat /\ d \in Nat /\ e \in Nat /\ MaxFills \in Nat
    BY <2>1, Numbers, MaxFillsAssumption
  <2>3. b \in Nat
    BY <1>1, <2>1, OrdersInNat DEF Asked, QueueOK
  <2>4. b <= a + (-1)
    BY <1>1, <1>2, <2>1
  <2>5. n + a + d + e <= MaxFills
    BY Zenon, <2>1 DEF Counted
  <2>6. n + 1 <= MaxFills
    BY <2>2, <2>3, <2>4, <2>5
  <2> QED BY <2>1, <2>2, <2>6 DEF Fill
<1>7. /\ SideOK(lane') /\ lane'.nozzle = g /\ lane'.pre = g /\ lane'.order = o
      /\ lane'.dose = dose /\ ~lane'.cancel /\ ~lane'.started /\ lane'.tx = None
  <2> QED BY <1>3, <1>4, <1>6, ReservedWaits
<1>8. /\ orders' \in Seq(Order) /\ Len(orders') = o /\ orders'[o] = order
      /\ \A i \in 1 .. Len(orders) : orders'[i] = orders[i]
  BY <1>3, <1>4 DEF HistoryOK
<1>9. ~Served(o)' /\ \A f \in Fill : claim[f] <= Len(orders) /\ claim[f] \in Int
  BY <1>3, <1>6 DEF Served, HistoryOK, Fill, Unclaimed, SeenOnly
<1>10. PumpOK' /\ BillsOK' /\ JobOK'
  BY <1>3, NoJobIsJob DEF PumpOK, BillsOK, JobOK
<1>11. HistoryOK'
  BY <1>3, <1>6, <1>8, <1>9 DEF HistoryOK
<1>12. OrderOK'
  <2>1. Agrees(g)'
    BY <1>4, <1>5, <1>7, <1>8 DEF Agrees
  <2>2. ~orders'[o].cancelled
    BY <1>5, <1>8
  <2>3. Sent'
    BY <1>3 DEF Sent
  <2>4. lane'.order > 0 /\ lane'.order <= Len(orders')
    BY <1>6, <1>7, <1>8
  <2> QED BY <1>7, <1>9, <2>1, <2>2, <2>3, <2>4 DEF OrderOK
<1>13. Counted' /\ Lighter
  <2>1. fills' = fills + 0 /\ left'.keypad = left.keypad + 0
    <3>1. PICK s, f : s = fills /\ f = left.keypad
      OBVIOUS
    <3>2. s = s + 0 /\ f = f + 0
      BY <3>1, Numbers
    <3> QED BY Zenon, <1>3, <3>1, <3>2
  <2>2. Pending' <= Pending + 1
    BY DEF Pending
  <2>3. Asked' <= Asked + (-1)
    BY <1>1, <1>2
  <2>4. 0 \in Int /\ 1 \in Int /\ -1 \in Int /\ 0 + 1 + (-1) + 0 <= 0 /\ 1 + (-1) <= 0
    OBVIOUS
  <2>5. left' \in Budget /\ left'.named = left.named /\ left'.reactive = left.reactive
    BY <1>3 DEF Counted
  <2>6. Len(orders') = Len(orders) + 1
    BY <1>8
  <2> QED BY Zenon, <1>1, <1>8, <2>1, <2>2, <2>3, <2>4, <2>5, <2>6, CountedBy
<1>14. CancelWins'
  <2> SUFFICES ASSUME NEW f \in Fill, claim[f] \in Fill PROVE ~orders'[claim[f]].cancelled
    BY <1>3 DEF CancelWins
  <2>1. claim[f] \in 1 .. Len(orders)
    BY <1>9 DEF Fill
  <2> QED BY <1>8, <2>1 DEF OrdersInv, CancelWins
<1>15. ServedOnce'
  <2>1. \A f \in Fill : claim[f] \in Fill => orders'[claim[f]] = orders[claim[f]]
    BY <1>8, <1>9 DEF Fill
  <2>2. \A h \in Gun : fill[h] # 0 => fill[h] \in Fill
    BY DEF HistoryOK
  <2> QED BY <1>3, <2>1, <2>2 DEF OrdersInv, ServedOnce
<1> QED BY <1>1, <1>7, <1>10, <1>11, <1>12, <1>13, <1>14, <1>15 DEF OrdersInv, Parts

LEMMA OrderCommandKeeps ==
    ASSUME OrdersInv, NEW dose \in Dose, OrderCommand(dose)
    PROVE  OrdersInv' /\ Lighter
<1>1. CASE CanReserve(lane)
  BY <1>1, OrderTaken
<1>2. CASE ~CanReserve(lane)
  <2>1. UNCHANGED <<lane, orders>> /\ at' = "rest" /\ job' = NoJob
    BY <1>2 DEF OrderCommand, Rest, Goto
  <2>2. Settled
    BY <2>1, Context, NoJobIsJob DEF Settled, JobOK
  <2> QED BY <2>1, <2>2, CommandCalm DEF OrderCommand
<1> QED BY <1>1, <1>2

----------------------------------------------------------------------------
(* The service dies: what waits is forgotten, and nothing is served any more. *)

LEMMA FreshSide == SideOK(FreshLane) /\ FreshLane.order = 0 /\ ~Waiting(FreshLane)
BY DEF SideOK, Waiting, FreshLane, LaneState, Dose

LEMMA NothingAsked == OrdersIn(<<>>) = 0
<1>1. {i \in DOMAIN <<>> : <<>>[i].kind = "order"} = {}
  OBVIOUS
<1> QED BY Zenon, <1>1, FS_EmptySet DEF OrdersIn

LEMMA CrashKeeps ==
    ASSUME OrdersInv, Crash
    PROVE  OrdersInv' /\ Lighter
<1> /\ PumpOK /\ HistoryOK /\ BillsOK /\ Counted /\ QueueOK
  BY Context
<1>1. /\ lane' = FreshLane /\ queue' = <<>> /\ at' = "rest" /\ job' = NoJob
      /\ claim' = [f \in Fill |-> Unclaimed] /\ cleared' = {}
      /\ UNCHANGED <<pump, bill, fill, fills, orders>>
  BY DEF Crash, Rest, Goto
<1>2. SideOK(lane') /\ lane'.order = 0 /\ ~Waiting(lane')
  BY <1>1, FreshSide
<1>3. PumpOK' /\ BillsOK' /\ QueueOK'
  BY <1>1, MaxQueueAssumption DEF PumpOK, BillsOK, QueueOK
<1>4. JobOK'
  BY <1>1, NoJobIsJob DEF JobOK
<1>5. \A f \in Fill : claim'[f] = 0 /\ claim'[f] \notin Fill
  BY <1>1 DEF Unclaimed, Fill
<1>6. HistoryOK'
  BY <1>1, <1>5 DEF HistoryOK, Unclaimed
<1>7. OrderOK'
  BY <1>1, <1>2 DEF OrderOK, Sent, HistoryOK
<1>8. Counted' /\ Lighter
  <2>1. Within
    BY SpendWithin DEF Crash
  <2>2. Asked' = 0 /\ Pending' = 0
    BY <1>1, <1>2, NothingAsked DEF Asked, Pending
  <2>3. PICK p, a, s, o : p = Pending /\ a = Asked /\ s = fills /\ o = Len(orders)
    OBVIOUS
  <2>4. PICK d, e, f, f1 : d = left.named /\ e = left.reactive /\ f = left.keypad /\ f1 = left'.keypad
    OBVIOUS
  <2>5. /\ a \in Nat /\ s \in Nat /\ o \in Nat /\ d \in Nat /\ e \in Nat /\ f \in Nat
        /\ MaxFills \in Nat
    BY <2>3, <2>4, Numbers, MaxFillsAssumption
  <2>6. p \in 0 .. 1
    BY <2>3 DEF Pending
  <2>7. f1 \in Nat /\ f1 <= f
    BY <2>1, <2>4 DEF Within, Budget
  <2>8. s + p + a + d + e + f <= MaxFills /\ o + a + d + e <= MaxFills
    BY Zenon, <2>3, <2>4 DEF Counted
  <2>9. /\ s + 0 + 0 + d + e + f1 <= MaxFills /\ o + 0 + d + e <= MaxFills
        /\ s + 0 + 0 + d + e + f1 <= s + p + a + d + e + f
    BY <2>5, <2>6, <2>7, <2>8
  <2>10. /\ fills' + Pending' + Asked' + left'.named + left'.reactive + left'.keypad <= MaxFills
         /\ Len(orders') + Asked' + left'.named + left'.reactive <= MaxFills
         /\ fills' + Pending' + Asked' + left'.named + left'.reactive + left'.keypad
              <= fills + Pending + Asked + left.named + left.reactive + left.keypad
    BY Zenon, <1>1, <2>1, <2>2, <2>3, <2>4, <2>9 DEF Within
  <2> QED BY <2>1, <2>10 DEF Counted, Within, Lighter, Load
<1>9. CancelWins'
  BY <1>5 DEF CancelWins
<1>10. ServedOnce'
  <2>1. \A g \in Gun : fill'[g] # 0 => fill'[g] \in Fill
    BY <1>6 DEF HistoryOK
  <2> QED BY <1>5, <2>1 DEF ServedOnce
<1> QED BY <1>2, <1>3, <1>4, <1>6, <1>7, <1>8, <1>9, <1>10 DEF OrdersInv, Parts

----------------------------------------------------------------------------
(* The invariant. *)

LEMMA OrdersInit == Init => OrdersInv
<1> SUFFICES ASSUME Init PROVE OrdersInv
  OBVIOUS
<1>1. PumpOK
  <2>1. 0 \in Volume /\ None \in Dose
    BY MaxVolumeAssumption DEF Volume, Dose
  <2>2. GunReset \in GunState
    BY <2>1 DEF GunReset, GunState
  <2> QED BY <2>2 DEF Init, PumpOK
<1>2. SideOK(lane) /\ lane.order = 0 /\ ~Waiting(lane) /\ at = "rest"
  BY FreshSide DEF Init
<1>3. QueueOK /\ BillsOK
  BY MaxQueueAssumption DEF Init, QueueOK, BillsOK
<1>4. JobOK
  BY NoJobIsJob DEF Init, JobOK
<1>5. \A f \in Fill : claim[f] = 0 /\ claim[f] \notin Fill
  BY DEF Init, Unclaimed, Fill
<1>6. fills = 0 /\ orders = <<>> /\ \A g \in Gun : fill[g] = 0
  BY DEF Init
<1>7. HistoryOK
  <2>1. fill \in [Gun -> {0} \cup Fill] /\ claim \in [Fill -> {Unclaimed, SeenOnly} \cup Fill]
    BY DEF Init
  <2>2. Len(orders) = 0 /\ orders \in Seq(Order) /\ cleared \subseteq Fill
    BY DEF Init
  <2> QED BY <1>5, <1>6, <2>1, <2>2, MaxFillsAssumption DEF HistoryOK
<1>8. OrderOK
  BY <1>2, <1>7 DEF OrderOK, Sent, HistoryOK
<1>9. Counted
  <2>1. left \in Budget /\ left.named + left.reactive + left.keypad <= MaxFills
    BY BudgetsAssumption DEF Init
  <2>2. Asked = 0 /\ Pending = 0 /\ Len(orders) = 0
    BY <1>2, <1>6, NothingAsked DEF Init, Asked, Pending
  <2>3. PICK d, e, f : d = left.named /\ e = left.reactive /\ f = left.keypad
    OBVIOUS
  <2>4. d \in Nat /\ e \in Nat /\ f \in Nat /\ MaxFills \in Nat
    BY <2>1, <2>3, MaxFillsAssumption DEF Budget
  <2>5. d + e + f <= MaxFills
    BY <2>1, <2>3
  <2>6. 0 + 0 + 0 + d + e + f <= MaxFills /\ 0 + 0 + d + e <= MaxFills
    BY <2>4, <2>5
  <2>7. /\ fills + Pending + Asked + left.named + left.reactive + left.keypad <= MaxFills
        /\ Len(orders) + Asked + left.named + left.reactive <= MaxFills
    BY Zenon, <1>6, <2>2, <2>3, <2>6
  <2> QED BY <2>1, <2>7 DEF Counted
<1>10. CancelWins /\ ServedOnce
  BY <1>5, <1>6 DEF CancelWins, ServedOnce
<1> QED BY <1>1, <1>2, <1>3, <1>4, <1>7, <1>8, <1>9, <1>10 DEF OrdersInv, Parts

LEMMA OrdersStep == OrdersInv /\ [Next]_vars => OrdersInv' /\ Lighter
<1> SUFFICES ASSUME OrdersInv, [Next]_vars PROVE OrdersInv' /\ Lighter
  OBVIOUS
<1>1. ASSUME PollStep PROVE OrdersInv' /\ Lighter
  BY <1>1, DrainedKeeps, BeginPollKeeps, StatusMissedKeeps, StatusFinalKeeps, StatusWrongLiftKeeps,
     StatusOtherKeeps, StatusForeignKeeps, StatusDispensingKeeps, StatusSynchronizingKeeps,
     StatusKeypadKeeps, StatusIdleKeeps, StatusReservedKeeps, AmountInfoKeeps, CommitSaleKeeps,
     CommitFailsKeeps DEF PollStep
<1>2. ASSUME StartStep PROVE OrdersInv' /\ Lighter
  BY <1>2, PriceWrittenKeeps, DoseTakenKeeps, DoseNotTaken DEF StartStep
<1>3. ASSUME StopStep PROVE OrdersInv' /\ Lighter
  BY <1>3, StopWireKeeps, StopEachKeeps, ElapseKeeps DEF StopStep
<1>4. ASSUME CommandStep PROVE OrdersInv' /\ Lighter
  BY <1>4, OrderCommandKeeps, StopCommandKeeps, EStopCommandKeeps, ResetCommandKeeps DEF CommandStep
<1>5. ASSUME RouteStep PROVE OrdersInv' /\ Lighter
  BY <1>5, RequestOrderKeeps, RoutesKeep DEF RouteStep
<1>6. ASSUME PumpStep PROVE OrdersInv' /\ Lighter
  BY <1>6, GunStepsKeep, KeypadFillsKeeps DEF PumpStep
<1>7. ASSUME WireFails PROVE OrdersInv' /\ Lighter
  BY <1>7, LoseExchangeKeeps, LoseDoseKeeps DEF WireFails
<1>8. ASSUME UNCHANGED vars PROVE OrdersInv' /\ Lighter
  <2> /\ PumpOK /\ SideOK(lane) /\ HistoryOK /\ JobOK /\ BillsOK /\ Counted /\ QueueOK
      /\ Follows(lane, lane)
    BY Context
  <2>1. UNCHANGED <<pump, lane, queue, at, job, bill, fill, fills, claim, orders, cleared, left>>
    BY <1>8 DEF vars, ghosts
  <2>2. SameDoses /\ Within /\ Fewer /\ QueueOK'
    BY <2>1, SameGuns, SameLeft, SameQueue
  <2>3. SameClaims /\ SameOrders /\ BillsOK' /\ Dosing
    BY <2>1 DEF SameClaims, SameOrders, HistoryOK, BillsOK, Dosing
  <2>4. JobOK'
    BY <2>1 DEF JobOK, Waiting
  <2>5. CalmStep
    BY <2>1, <2>2, <2>3, <2>4 DEF CalmStep, SameDoses, HistoryOK
  <2> QED BY <2>5, CalmKeeps
<1> QED BY <1>1, <1>2, <1>3, <1>4, <1>5, <1>6, <1>7, <1>8, CrashKeeps DEF Next

LEMMA OrdersAlways == Spec => []OrdersInv
BY OrdersInit, OrdersStep, PTL DEF Spec

(* The state of the side keeps its type: a dose is on the wire only for the    *)
(* sale of its gun, and a sale is committed from a report the lane holds.      *)
THEOREM ShelfTypes == Spec => []TypeOK
<1>1. OrdersInv => TypeOK
  BY DEF OrdersInv, Parts, TypeOK, PumpOK, SideOK, QueueOK, BillsOK, HistoryOK, JobOK, Counted
<1> QED BY <1>1, OrdersAlways, PTL

(* An order that was cancelled while it waited starts no fuel, whatever the    *)
(* queue, the wire and the guns did meanwhile.                                 *)
THEOREM CancelledStaysUnserved == Spec => []CancelWins
<1>1. OrdersInv => CancelWins
  BY DEF OrdersInv
<1> QED BY <1>1, OrdersAlways, PTL

(* An order for a gun is served there, with its dose, and by one fill only,    *)
(* however often its request is repeated.                                      *)
THEOREM OrdersServedOnce == Spec => []ServedOnce
<1>1. OrdersInv => ServedOnce
  BY DEF OrdersInv
<1> QED BY <1>1, OrdersAlways, PTL

----------------------------------------------------------------------------
(* The parts of the invariant of the sales. *)

Off == {"Idle", "Keypad"}
Over == Off \cup {"Final"}

(* A fill the driver knows and has not billed. *)
Due(g) == fill[g] # 0 /\ claim[fill[g]] # Unclaimed /\ bill[fill[g]] = <<>>

(* A lane with a sale has selected its gun; one that is through has no sale. *)
Shaped(l) ==
    /\ l.tx # None => l.nozzle = l.tx /\ l.wire = l.tx
    /\ l.started \/ l.stop => l.tx # None
    /\ l.final # None => l.nozzle # None
    /\ l.status = "Done" => l.tx = None /\ l.pre = None /\ l.final = None /\ l.nozzle # None

(* The loop looks at the gun of the sale, and at none while it has a report. *)
LoopOK ==
    /\ Shaped(lane)
    /\ at \in {"status", "price", "dose", "amount", "stop"} => lane.final = None
    /\ at \in {"amount", "stop"} => lane.tx = job.gun
    /\ at = "status" /\ lane.nozzle # None => job.gun = lane.nozzle
    /\ at = "commit" => job.gun = lane.nozzle

Registers ==
    /\ \A g \in Gun : pump[g].phase \notin Off => fill[g] # 0
    /\ \A g, h \in Gun : fill[g] = fill[h] /\ fill[g] # 0 => g = h
    /\ \A f \in Fill : f > fills => bill[f] = <<>>

(* A fill that is billed is over; when its final report is still to be told    *)
(* again, the lane is through with it and knows it.                            *)
BilledOver ==
    /\ \A f \in Fill : Len(bill[f]) <= 1
    /\ \A g \in Gun : fill[g] # 0 /\ bill[fill[g]] # <<>> =>
         /\ bill[fill[g]][1] = [volume |-> pump[g].volume, gun |-> g]
         /\ pump[g].phase \in Over
         /\ pump[g].phase = "Final" =>
               left.retains /\ lane.status = "Done" /\ lane.nozzle = g

(* The report in memory is the whole of an unbilled fill, of the gun that is   *)
(* selected.                                                                   *)
ReportOK ==
    lane.final # None /\ lane.final.fill # 0 =>
        /\ bill[lane.final.fill] = <<>> /\ lane.final.fill <= fills
        /\ \A g \in Gun : fill[g] = lane.final.fill =>
              /\ g = lane.nozzle /\ lane.final.volume = pump[g].volume
              /\ pump[g].phase \in Over
              /\ pump[g].phase = "Final" => lane.tx = g /\ left.retains
        /\ claim[lane.final.fill] # Unclaimed => lane.tx # None

(* A fill that is due is the sale of the lane, and its report the pinned one.  *)
SaleHeld ==
    /\ \A g \in Gun :
          Due(g) => lane.tx = g /\ (lane.final # None => lane.final.fill = fill[g])
    /\ \A f \in cleared : claim[f] # Unclaimed /\ (bill[f] # <<>> \/ Remembered(f))

(* A dose goes out while nothing is due; it is not taken twice. *)
DoseOut ==
    at = "dose" /\ (~job.retried \/ pump[job.gun].phase = "Idle") => \A g \in Gun : ~Due(g)

(* Either every exchange is answered, and the end of a fill is always told; or *)
(* no fill is started at a keypad, and an idle gun stays idle for its dose.    *)
NoLosses ==
    /\ left.losses = 0 /\ ~job.retried /\ at # "amount"
    /\ lane.tx # None /\ lane.final = None /\ at # "dose" => pump[lane.tx].phase \notin Off

NoKeypad ==
    /\ left.keypad = 0 /\ \A g \in Gun : pump[g].phase # "Keypad"
    /\ at \in {"amount", "price"} => pump[job.gun].phase = "Idle"
    /\ at = "dose" /\ ~job.retried => pump[job.gun].phase = "Idle"
    /\ left.retains /\ lane.tx # None /\ ~(at = "dose" /\ ~job.retried) =>
          fill[lane.tx] = 0 \/ bill[fill[lane.tx]] = <<>>

OneHand == NoLosses \/ NoKeypad

(* A dispenser that retains its last sale. *)
Retaining ==
    left.retains =>
        /\ left.resets = 0 /\ left.crashes = 0 /\ \A i \in DOMAIN queue : queue[i].kind # "reset"
        /\ left.deaf > 0 => Load <= 1

SalesInv ==
    LoopOK /\ Registers /\ BilledOver /\ ReportOK /\ SaleHeld /\ DoseOut /\ OneHand /\ Retaining

----------------------------------------------------------------------------
(* The updates of the lane. *)

LEMMA ClearedLane ==
    ASSUME NEW l \in LaneState
    PROVE  /\ Cleared(l) \in LaneState /\ ~Cleared(l).started /\ ~Cleared(l).stop
           /\ Cleared(l).final = None /\ Cleared(l).tx = l.tx
<1> DEFINE j == [l EXCEPT !.started = FALSE, !.cancel = FALSE, !.stop = FALSE, !.paced = FALSE]
<1>1. j \in LaneState /\ ~j.stop /\ ~j.started /\ j.tx = l.tx
  BY DEF LaneState
<1>2. Cleared(l) = [j EXCEPT !.wire = None, !.final = None]
  BY DEF Cleared, LaneState
<1> HIDE DEF j
<1> QED BY <1>1, <1>2 DEF LaneState

LEMMA CancelledShaped ==
    ASSUME NEW l \in LaneState
    PROVE  LET m == Cancelled(l)
           IN  /\ Shaped(m) /\ m.tx = None /\ m.pre = None /\ m.final = None /\ m.nozzle = None
               /\ m.status = "Idle" /\ ~m.stop /\ ~m.started /\ m \in LaneState
<1> DEFINE k == [l EXCEPT !.status = "Idle"]
           j == [k EXCEPT !.started = FALSE, !.cancel = FALSE, !.stop = FALSE, !.paced = FALSE]
<1>1. k \in LaneState /\ k.status = "Idle"
  BY DEF LaneState
<1>2. j \in LaneState /\ j.status = "Idle" /\ ~j.stop /\ ~j.started
  BY <1>1 DEF LaneState
<1>3. Cancelled(l) = [j EXCEPT !.nozzle = None, !.pre = None, !.tx = None, !.order = 0,
                               !.wire = None, !.final = None]
  BY DEF Cancelled, Cleared, LaneState
<1> HIDE DEF j
<1>4. Cancelled(l) \in LaneState
  BY <1>2, <1>3 DEF LaneState
<1> QED BY <1>2, <1>3, <1>4 DEF Shaped, LaneState

LEMMA CancelAppliedShaped ==
    ASSUME NEW l \in LaneState, Shaped(l)
    PROVE  LET m == CancelApplied(l)
           IN  /\ Shaped(m) /\ m.tx = l.tx
               /\ Waiting(l) => /\ l.tx = None /\ m.final = None /\ m.pre = None
                                /\ m.nozzle = None /\ m.status = "Idle"
               /\ ~Waiting(l) => /\ m.final = l.final /\ m.nozzle = l.nozzle /\ m.pre = l.pre
                                 /\ m.status = l.status \/ l.tx # None
<1> DEFINE m == [l EXCEPT !.cancel = FALSE]
<1>1. /\ m \in LaneState /\ m.started = l.started /\ m.tx = l.tx /\ m.pre = l.pre /\ m.stop = l.stop
      /\ m.wire = l.wire /\ m.nozzle = l.nozzle /\ m.final = l.final /\ m.status = l.status
  BY DEF LaneState
<1> HIDE DEF m
<1>2. CASE Waiting(l)
  <2>1. CancelApplied(l) = Cancelled(m)
    BY <1>1, <1>2 DEF CancelApplied, m, Waiting
  <2> QED BY <1>1, <1>2, <2>1, CancelledShaped DEF Waiting
<1>3. CASE ~Waiting(l) /\ ~l.started /\ l.tx = None
  <2>1. CancelApplied(l) = m
    BY <1>1, <1>3 DEF CancelApplied, m, Waiting
  <2> QED BY <1>1, <1>3, <2>1 DEF Shaped
<1>4. CASE l.started \/ l.tx # None
  <2>1. CancelApplied(l) = [m EXCEPT !.stop = TRUE, !.status = "Finalizing"]
    BY <1>1, <1>4 DEF CancelApplied, m
  <2>2. l.tx # None
    BY <1>4 DEF Shaped
  <2> DEFINE k == CancelApplied(l)
  <2>3. /\ k.tx = l.tx /\ k.started = l.started /\ k.pre = l.pre /\ k.wire = l.wire /\ k.stop
        /\ k.nozzle = l.nozzle /\ k.final = l.final /\ k.status = "Finalizing"
    BY <1>1, <2>1 DEF LaneState
  <2> HIDE DEF k
  <2> QED BY <1>4, <2>2, <2>3 DEF Shaped, Waiting, k
<1> QED BY <1>2, <1>3, <1>4

LEMMA ShownUpShaped ==
    ASSUME NEW l \in LaneState, Shaped(l), NEW g \in Gun, l.tx # None => g = l.tx, l.final = None
    PROVE  LET m == ShownUp(l, g)
           IN  /\ Shaped(m) /\ m.tx = l.tx /\ m.final = None
               /\ l.status = "Done" => m = l
<1>1. CASE l.status \in {"Delivering", "Done"}
  BY <1>1 DEF ShownUp
<1>2. CASE l.status \notin {"Delivering", "Done"}
  <2> DEFINE m == ShownUp(l, g)
  <2>1. m = [l EXCEPT !.wire = g, !.status = "NozzleUp", !.nozzle = g]
    BY <1>2 DEF ShownUp
  <2>2. /\ m.tx = l.tx /\ m.started = l.started /\ m.stop = l.stop /\ m.final = l.final
        /\ m.wire = g /\ m.nozzle = g /\ m.status = "NozzleUp"
    BY <2>1 DEF LaneState
  <2> HIDE DEF m
  <2> QED BY <1>2, <2>2 DEF Shaped, m
<1> QED BY <1>1, <1>2

LEMMA LiveShaped ==
    ASSUME NEW l \in LaneState, Shaped(l), NEW g \in Gun, l.tx \in {None, g}, l.final = None
    PROVE  LET m == Live(l, g)
           IN  /\ Shaped(m) /\ m.tx = g /\ m.final = None /\ m.status # "Done" /\ m.pre = None
               /\ m.nozzle = g /\ m \in LaneState
<1> DEFINE s == IF l.stop THEN "Finalizing" ELSE "Delivering"
           m == Live(l, g)
<1>1. m = [l EXCEPT !.wire = g, !.status = s, !.nozzle = g, !.tx = g, !.pre = None]
  BY DEF Live, LaneState
<1>2. s \in {"Finalizing", "Delivering"}
  OBVIOUS
<1> HIDE DEF s, m
<1>3. /\ m.tx = g /\ m.final = l.final /\ m.wire = g /\ m.nozzle = g /\ m.status = s /\ m.pre = None
      /\ m \in LaneState
  BY <1>1, <1>2 DEF LaneState
<1> QED BY <1>2, <1>3, NoneIsNoGun DEF Shaped, m

LEMMA IdledShaped ==
    ASSUME NEW l \in LaneState, Shaped(l), l.final = None
    PROVE  LET m == Idled(l) IN Shaped(m) /\ m.tx = l.tx /\ m.final = None /\ m \in LaneState
<1>1. CASE l.pre # None \/ l.tx # None \/ l.started
  BY <1>1 DEF Idled
<1>2. CASE ~(l.pre # None \/ l.tx # None \/ l.started)
  <2> DEFINE m == Idled(l)
  <2>1. m = [l EXCEPT !.status = "Idle", !.nozzle = None]
    BY <1>2 DEF Idled
  <2>2. /\ m.tx = l.tx /\ m.started = l.started /\ m.stop = l.stop /\ m.final = l.final
        /\ m.wire = l.wire /\ m.nozzle = None /\ m.status = "Idle" /\ m \in LaneState
    BY <2>1 DEF LaneState
  <2> HIDE DEF m
  <2> QED BY <1>2, <2>2 DEF Shaped, m
<1> QED BY <1>1, <1>2

LEMMA StartingShaped ==
    ASSUME NEW l \in LaneState, NEW g \in Gun, l.nozzle = g, l.final = None
    PROVE  LET m == Starting(l, g)
           IN  Shaped(m) /\ m.tx = g /\ m.final = None /\ m.status # "Done" /\ m.nozzle = g
<1> DEFINE m == Starting(l, g)
<1>1. m.tx = g /\ m.wire = g /\ m.status = "Authorizing" /\ m.nozzle = g /\ m.final = None
  BY DEF Starting, LaneState
<1> HIDE DEF m
<1> QED BY <1>1, NoneIsNoGun DEF Shaped, m

LEMMA PinnedShaped ==
    ASSUME NEW l \in LaneState, Shaped(l), NEW g \in Gun, l.tx # None => g = l.tx, NEW s \in Sale
    PROVE  LET m == Pinned(l, g, s)
           IN  /\ Shaped(m) /\ m.tx = l.tx /\ m.final = s /\ m.nozzle = g /\ m.pre = l.pre
               /\ m.status # "Done" /\ m \in LaneState
<1> DEFINE m == Pinned(l, g, s)
<1>1. /\ m.tx = l.tx /\ m.wire = g /\ m.status = "Finalizing" /\ m.nozzle = g /\ m.final = s
      /\ m.started = l.started /\ m.stop = l.stop /\ m.pre = l.pre
  BY DEF Pinned, LaneState
<1>2. m \in LaneState
  BY DEF Pinned, LaneState
<1> HIDE DEF m
<1> QED BY <1>1, <1>2, NoneIsNoGun DEF Shaped, m

LEMMA ClosedShaped ==
    ASSUME NEW l \in LaneState, NEW g \in Gun
    PROVE  LET m == Closed(l, g)
           IN  /\ Shaped(m) /\ m.tx = None /\ m.final = None /\ m.status = "Done"
               /\ m.nozzle = IF l.tx # None THEN l.tx ELSE g
<1> DEFINE n == IF l.tx # None THEN l.tx ELSE g
           m == Closed(l, g)
           k == [Cleared(l) EXCEPT !.cancel = l.cancel]
<1>1. n \in Gun /\ n # None
  BY NoneIsNoGun DEF LaneState
<1>2. Cleared(l) \in LaneState /\ ~Cleared(l).started /\ ~Cleared(l).stop /\ Cleared(l).final = None
  BY ClearedLane
<1>3. k \in LaneState /\ ~k.started /\ ~k.stop /\ k.final = None
  BY <1>2 DEF LaneState
<1>4. m = [k EXCEPT !.status = "Done", !.tx = None, !.pre = None, !.order = 0, !.nozzle = n]
  BY <1>2 DEF Closed, LaneState
<1> HIDE DEF k, n, m
<1>5. /\ m.tx = None /\ m.pre = None /\ m.status = "Done" /\ m.nozzle = n /\ m.final = None
      /\ ~m.started /\ ~m.stop
  BY <1>3, <1>4 DEF LaneState
<1> QED BY <1>1, <1>5 DEF Shaped, m, n

LEMMA MarkedShaped ==
    ASSUME NEW l \in LaneState, Shaped(l)
    PROVE  /\ \A b \in BOOLEAN : LET m == [l EXCEPT !.paced = b]
                                 IN  /\ Shaped(m) /\ m.tx = l.tx /\ m.final = l.final
                                     /\ m.status = l.status /\ m.nozzle = l.nozzle
           /\ LET m == [l EXCEPT !.cancel = TRUE]
              IN  /\ Shaped(m) /\ m.tx = l.tx /\ m.final = l.final /\ m.status = l.status
                  /\ m.nozzle = l.nozzle
           /\ LET m == [l EXCEPT !.final = None]
              IN  /\ Shaped(m) /\ m.tx = l.tx /\ m.final = None /\ m.pre = l.pre
                  /\ m \in LaneState
           /\ l.tx # None => \A s \in Sale : LET m == [l EXCEPT !.final = s]
                                IN  /\ Shaped(m) /\ m.tx = l.tx /\ m.final = s
                                    /\ m.nozzle = l.nozzle /\ m.status = l.status
                                    /\ m \in LaneState
<1>1. ASSUME NEW b \in BOOLEAN
      PROVE  LET m == [l EXCEPT !.paced = b]
             IN  Shaped(m) /\ m.tx = l.tx /\ m.final = l.final /\ m.status = l.status
                 /\ m.nozzle = l.nozzle
  BY DEF Shaped, LaneState
<1>2. LET m == [l EXCEPT !.cancel = TRUE]
      IN  Shaped(m) /\ m.tx = l.tx /\ m.final = l.final /\ m.status = l.status
          /\ m.nozzle = l.nozzle
  BY DEF Shaped, LaneState
<1>3. LET m == [l EXCEPT !.final = None]
      IN  Shaped(m) /\ m.tx = l.tx /\ m.final = None /\ m.pre = l.pre /\ m \in LaneState
  BY DEF Shaped, LaneState
<1>4. ASSUME l.tx # None, NEW s \in Sale
      PROVE  LET m == [l EXCEPT !.final = s]
             IN  Shaped(m) /\ m.tx = l.tx /\ m.final = s /\ m.nozzle = l.nozzle
                 /\ m.status = l.status /\ m \in LaneState
  BY <1>4 DEF Shaped, LaneState
<1> QED BY <1>1, <1>2, <1>3, <1>4

LEMMA ReservedShaped ==
    ASSUME NEW l \in LaneState, l.tx = None, NEW g \in Gun, NEW dose, NEW id
    PROVE  LET m == Reserved(l, g, dose, id)
           IN  Shaped(m) /\ m.tx = None /\ m.final = None /\ m.status # "Done"
<1> DEFINE m == Reserved(l, g, dose, id)
<1>1. Cleared(l) \in LaneState /\ ~Cleared(l).started /\ ~Cleared(l).stop /\ Cleared(l).final = None
      /\ Cleared(l).tx = None
  BY ClearedLane
<1> DEFINE k == [Cleared(l) EXCEPT !.wire = g, !.status = "PreAuthorized", !.nozzle = g]
<1>2. /\ k \in LaneState /\ k.tx = None /\ k.final = None /\ ~k.started /\ ~k.stop
      /\ k.status = "PreAuthorized"
  BY <1>1 DEF LaneState
<1>3. m = [k EXCEPT !.pre = g, !.dose = dose, !.order = id]
  BY <1>1 DEF Reserved, LaneState
<1> HIDE DEF k, m
<1>4. m.tx = None /\ m.final = None /\ ~m.started /\ ~m.stop /\ m.status = "PreAuthorized"
  BY <1>2, <1>3 DEF LaneState
<1> QED BY <1>4 DEF Shaped, m

----------------------------------------------------------------------------
(* Where a step of the loop leaves the task. *)

Ends(l) ==
    /\ lane' = l \/ lane' = [l EXCEPT !.paced = TRUE]
    /\ at' \in {"rest", "status", "stop"} /\ ~job'.retried
    /\ at' = "status" => l.nozzle = None /\ l.tx = None
    /\ at' = "stop" => l.stop /\ l.final = None /\ job'.gun = l.wire

LEMMA LeaveEnds ==
    ASSUME job \in Job, NEW l, lane' = l, Leave(l)
    PROVE  Ends(l)
<1>1. CASE l.nozzle = None /\ l.pre = None /\ l.tx = None /\ job.todo # {}
  <2>1. at' = "status" /\ job' = [NoJob EXCEPT !.gun = First(job.todo), !.todo = job.todo \ {First(job.todo)}]
    BY <1>1 DEF Leave, Goto
  <2> QED BY <1>1, <2>1 DEF Ends, NoJob
<1>2. CASE ~(l.nozzle = None /\ l.pre = None /\ l.tx = None /\ job.todo # {})
  BY <1>2 DEF Leave, Rest, Goto, Ends, NoJob
<1> QED BY <1>1, <1>2

LEMMA StopEnds ==
    ASSUME job \in Job, NEW l, StopDue(l), NEW next \in {"leave", "tail", "each"},
           lane' = [l EXCEPT !.paced = TRUE], at' = "stop",
           job' = [job EXCEPT !.gun = l.wire, !.next = next, !.retried = FALSE]
    PROVE  Ends(l)
BY DEF StopDue, Ends, Job

LEMMA PollEndsEnds ==
    ASSUME job \in Job, NEW l, PollEnds(l)
    PROVE  Ends(l)
<1>1. CASE StopDue(l)
  BY <1>1, StopEnds DEF PollEnds, StopThen, Goto
<1>2. CASE ~StopDue(l)
  BY <1>2, LeaveEnds DEF PollEnds, StopThen
<1> QED BY <1>1, <1>2

LEMMA CancelLeaves ==
    ASSUME job \in Job, NEW l, Cancel(l)
    PROVE  Ends(CancelApplied(l))
<1> DEFINE m == CancelApplied(l)
<1>1. CASE StopDue(m)
  BY <1>1, StopEnds DEF Cancel, StopThen, Goto
<1>2. CASE ~StopDue(m)
  BY <1>2, LeaveEnds DEF Cancel, StopThen
<1> QED BY <1>1, <1>2

(* The lane is l, for what concerns its sale. *)
Becomes(l) ==
    /\ Shaped(lane') /\ lane'.tx = l.tx /\ lane'.final = l.final /\ lane'.status = l.status
    /\ lane'.nozzle = l.nozzle

LEMMA EndsLoop ==
    ASSUME NEW l \in LaneState, Shaped(l), Ends(l)
    PROVE  LoopOK' /\ Becomes(l)
<1>1. Becomes(l) /\ lane'.wire = l.wire
  <2>1. CASE lane' = l
    BY <2>1 DEF Becomes
  <2>2. CASE lane' = [l EXCEPT !.paced = TRUE]
    <3>1. Becomes(l)
      BY <2>2, MarkedShaped DEF Becomes
    <3>2. lane'.wire = l.wire
      BY <2>2 DEF LaneState
    <3> QED BY <3>1, <3>2
  <2> QED BY <2>1, <2>2 DEF Ends
<1>2. CASE at' = "rest"
  BY <1>1, <1>2 DEF LoopOK, Becomes
<1>3. CASE at' = "status"
  BY <1>1, <1>3 DEF LoopOK, Becomes, Ends, Shaped
<1>4. CASE at' = "stop"
  BY <1>1, <1>4 DEF LoopOK, Becomes, Ends, Shaped
<1> QED BY <1>1, <1>2, <1>3, <1>4 DEF Ends

(* A report is pinned, and committed unless there is nothing to commit. *)
LEMMA CloseLeaves ==
    ASSUME job \in Job, NEW l \in LaneState, Shaped(l), l.final # None, NEW g \in Gun, l.nozzle = g,
           Close(l, g)
    PROVE  /\ LoopOK' /\ ~job'.retried /\ at' \in {"rest", "status", "stop", "commit"}
           /\ \/ Becomes(l)
              \/ l.tx = None /\ lane'.tx = None /\ lane'.final = None
<1>1. CASE l.final.volume = 0 /\ l.tx = None
  <2> DEFINE k == [l EXCEPT !.final = None]
  <2>1. Shaped(k) /\ k.tx = None /\ k.final = None /\ k \in LaneState
    BY <1>1, MarkedShaped
  <2>2. lane' = Idled(k) /\ Leave(Idled(k))
    BY <1>1 DEF Close, k
  <2> HIDE DEF k
  <2>3. Shaped(Idled(k)) /\ Idled(k).tx = None /\ Idled(k).final = None
    BY <2>1, IdledShaped
  <2>4. Ends(Idled(k))
    BY <2>2, LeaveEnds
  <2>5. Idled(k) \in LaneState
    BY <2>1, IdledShaped
  <2>6. LoopOK' /\ Becomes(Idled(k))
    BY <2>3, <2>4, <2>5, EndsLoop
  <2> QED BY <1>1, <2>3, <2>4, <2>6 DEF Becomes, Ends
<1>2. CASE ~(l.final.volume = 0 /\ l.tx = None)
  <2>1. lane' = l /\ at' = "commit" /\ job' = [job EXCEPT !.gun = g, !.retried = FALSE]
    BY <1>2 DEF Close, Goto
  <2>2. job'.gun = g /\ ~job'.retried
    BY <2>1 DEF Job
  <2> QED BY <2>1, <2>2 DEF LoopOK, Becomes
<1> QED BY <1>1, <1>2

----------------------------------------------------------------------------
(* The guns. *)

(* What p may become of q without a new fill: one that is over stays so. *)
GoesOn(q, p) ==
    /\ q.phase \in Over =>
          p.phase \in Over /\ p.volume = q.volume /\ (p.phase = "Final" => q.phase = "Final")
    /\ p.phase \notin Off => q.phase \notin Off

(* What it becomes but for the telling of its end. *)
Lasts(q, p) ==
    /\ GoesOn(q, p)
    /\ q.phase \notin Off => p.phase \notin Off
    /\ q.phase = "Idle" => p.phase \in Off
    /\ p.phase = "Idle" => q.phase = "Idle"

LEMMA GunLasts ==
    ASSUME NEW q \in GunState
    PROVE  /\ Lasts(q, q) /\ Lasts(q, GunLift(q)) /\ Lasts(q, GunHolster(q))
           /\ Lasts(q, GunStop(q)) /\ Lasts(q, [q EXCEPT !.paused = TRUE])
           /\ q.phase = "Idle" => Lasts(q, [q EXCEPT !.phase = "Keypad"])
           /\ GunStop(q).phase = "Keypad" => q.phase = "Keypad"
           /\ GunLift(q).phase = "Keypad" => q.phase = "Keypad"
           /\ GunHolster(q).phase = "Keypad" => q.phase = "Keypad"
BY DEF Lasts, GoesOn, Over, Off, GunState, GunLift, GunHolster, GunStop, Filling, Finished

LEMMA GunFlowsOn ==
    ASSUME NEW q \in GunState, q.volume < MaxVolume
    PROVE  /\ q.phase = "Dispensing" => Lasts(q, GunFlow(q)) /\ GunFlow(q).phase # "Keypad"
           /\ q.phase = "Synchronizing" => Lasts(q, [q EXCEPT !.volume = @ + 1])
<1> DEFINE p == [q EXCEPT !.volume = @ + 1]
<1>1. p.phase = q.phase /\ p \in GunState
  BY MaxVolumeAssumption DEF GunState, Volume
<1>2. GunFlow(q) = p \/ GunFlow(q) = Finished(p)
  BY DEF GunFlow
<1> HIDE DEF p
<1>3. Finished(p).phase = "Synchronizing"
  BY <1>1 DEF Finished, GunState
<1> QED BY <1>1, <1>2, <1>3 DEF Lasts, GoesOn, Over, Off, p

LEMMA GunToldOn ==
    ASSUME NEW q \in GunState
    PROVE  /\ GoesOn(q, GunTold(q)) /\ (GunTold(q).phase = "Keypad" => q.phase = "Keypad")
           /\ q.phase # "Final" => Lasts(q, GunTold(q))
           /\ q.phase = "Final" => GunTold(q).phase = "Idle"
           /\ GunTold(q).volume = q.volume
BY DEF Lasts, GoesOn, Over, Off, GunState, GunTold

GunsGoOn == \A g \in Gun : GoesOn(pump[g], pump'[g])
GunsLast == \A g \in Gun : Lasts(pump[g], pump'[g])

LEMMA LastingGuns ==
    ASSUME GunsLast
    PROVE  GunsGoOn
BY DEF GunsLast, GunsGoOn, Lasts

LEMMA SameGunsLast ==
    ASSUME PumpOK, UNCHANGED pump
    PROVE  GunsLast
BY GunLasts DEF GunsLast, PumpOK

LEMMA OneGunLasts ==
    ASSUME PumpOK, NEW g \in Gun, NEW p, Lasts(pump[g], p), pump' = [pump EXCEPT ![g] = p]
    PROVE  GunsLast
<1>1. \A h \in Gun : pump'[h] = IF h = g THEN p ELSE pump[h]
  BY DEF PumpOK
<1>2. \A h \in Gun : Lasts(pump[h], pump[h])
  BY GunLasts DEF PumpOK
<1> QED BY <1>1, <1>2 DEF GunsLast

----------------------------------------------------------------------------
(* A step that bills nothing, fills nothing and changes no sale. *)

Stance == OrdersInv /\ OrdersInv' /\ Lighter /\ SalesInv

LeftOn ==
    /\ left'.retains = left.retains
    /\ left.losses = 0 => left'.losses = 0
    /\ left.keypad = 0 => left'.keypad = 0
    /\ left.resets = 0 => left'.resets = 0
    /\ left.crashes = 0 => left'.crashes = 0
    /\ left'.deaf > 0 => left.deaf > 0

QueueOn ==
    left.resets = 0 /\ (\A i \in DOMAIN queue : queue[i].kind # "reset") =>
        \A i \in DOMAIN queue' : queue'[i].kind # "reset"

SameBooks == UNCHANGED <<bill, fill, fills, claim, cleared>>

SameSale ==
    /\ lane'.tx = lane.tx
    /\ \/ lane'.final = lane.final /\ (lane.final # None => lane'.nozzle = lane.nozzle)
       \/ lane'.final = None /\ lane.tx = None
    /\ lane.status = "Done" =>
          \/ lane'.status = "Done" /\ lane'.nozzle = lane.nozzle
          \/ left.retains => pump'[lane.nozzle].phase # "Final"

Moves == at # "dose" /\ at' \notin {"price", "dose", "amount"} /\ ~job'.retried

Stays ==
    /\ at' = at /\ job'.gun = job.gun /\ (job' = job \/ (left.losses # 0 /\ at # "dose"))
    /\ at \in {"price", "dose", "amount"} =>
          /\ pump'[job.gun].phase = "Idle" => pump[job.gun].phase = "Idle"
          /\ pump[job.gun].phase = "Idle" => pump'[job.gun].phase = "Idle" \/ left.keypad # 0

KeepsFlowing ==
    left.losses = 0 /\ lane.tx # None /\ pump[lane.tx].phase \notin Off =>
        pump'[lane.tx].phase \notin Off

CalmSale ==
    /\ SameBooks /\ GunsGoOn /\ LeftOn /\ QueueOn /\ SameSale
    /\ \A g \in Gun : pump'[g].phase = "Keypad" => pump[g].phase = "Keypad" \/ left.keypad # 0
    /\ KeepsFlowing
    /\ Moves \/ Stays

LEMMA LoadIsNat ==
    ASSUME OrdersInv, OrdersInv'
    PROVE  Load \in Nat /\ Load' \in Nat
<1>1. Asked \in Nat /\ Asked' \in Nat
  BY OrdersInNat DEF OrdersInv, Parts, Asked, QueueOK
<1>2. fills \in Nat /\ fills' \in Nat /\ Pending \in Nat /\ Pending' \in Nat
  BY DEF OrdersInv, Parts, HistoryOK, Pending
<1>3. /\ left.named \in Nat /\ left.reactive \in Nat /\ left.keypad \in Nat
      /\ left'.named \in Nat /\ left'.reactive \in Nat /\ left'.keypad \in Nat
  BY DEF OrdersInv, Parts, Counted, Budget
<1> HIDE DEF Asked, Pending
<1> QED BY <1>1, <1>2, <1>3 DEF Load

LEMMA RetainingKeeps ==
    ASSUME Stance, LeftOn, QueueOn
    PROVE  Retaining'
<1>1. Load \in Int /\ Load' \in Int /\ Load' <= Load
  BY LoadIsNat DEF Stance, Lighter
<1>2. Load <= 1 => Load' <= 1
  BY <1>1
<1> QED BY <1>2 DEF Stance, SalesInv, LeftOn, QueueOn, Retaining

LEMMA BooksKeep ==
    ASSUME SalesInv, HistoryOK, SameBooks, GunsGoOn, left'.retains = left.retains, SameSale
    PROVE  Registers' /\ BilledOver' /\ ReportOK' /\ SaleHeld'
<1> LoopOK /\ Registers /\ BilledOver /\ ReportOK /\ SaleHeld
  BY DEF SalesInv
<1> /\ bill' = bill /\ fill' = fill /\ fills' = fills /\ claim' = claim /\ cleared' = cleared
    /\ lane'.tx = lane.tx
  BY DEF SameBooks, SameSale
<1>1. Registers'
  BY DEF Registers, GunsGoOn, GoesOn
<1>2. BilledOver'
  <2> SUFFICES ASSUME NEW g \in Gun, fill[g] # 0, bill[fill[g]] # <<>>
               PROVE  /\ bill[fill[g]][1] = [volume |-> pump'[g].volume, gun |-> g]
                      /\ pump'[g].phase \in Over
                      /\ pump'[g].phase = "Final" =>
                            left'.retains /\ lane'.status = "Done" /\ lane'.nozzle = g
    BY DEF BilledOver
  <2>1. /\ bill[fill[g]][1] = [volume |-> pump[g].volume, gun |-> g] /\ pump[g].phase \in Over
        /\ pump[g].phase = "Final" => left.retains /\ lane.status = "Done" /\ lane.nozzle = g
    BY DEF BilledOver
  <2>2. /\ pump'[g].volume = pump[g].volume /\ pump'[g].phase \in Over
        /\ pump'[g].phase = "Final" => pump[g].phase = "Final"
    BY <2>1 DEF GunsGoOn, GoesOn
  <2> QED BY <2>1, <2>2 DEF SameSale
<1>3. ReportOK'
  <2>1. CASE lane'.final = None
    BY <2>1 DEF ReportOK
  <2>2. CASE lane'.final = lane.final /\ lane'.nozzle = lane.nozzle /\ lane.final # None
    <3> SUFFICES ASSUME lane.final.fill # 0
                 PROVE  /\ bill[lane.final.fill] = <<>> /\ lane.final.fill <= fills
                        /\ \A g \in Gun : fill[g] = lane.final.fill =>
                             /\ g = lane.nozzle /\ lane.final.volume = pump'[g].volume
                             /\ pump'[g].phase \in Over
                             /\ pump'[g].phase = "Final" => lane.tx = g /\ left.retains
                        /\ claim[lane.final.fill] # Unclaimed => lane.tx # None
      BY <2>2 DEF ReportOK
    <3> QED BY <2>2 DEF ReportOK, GunsGoOn, GoesOn
  <2> QED BY <2>1, <2>2 DEF SameSale
<1>4. SaleHeld'
  <2>1. \A g \in Gun : Due(g)' <=> Due(g)
    BY DEF Due
  <2>2. ASSUME NEW g \in Gun, Due(g)
        PROVE  lane'.tx = g /\ (lane'.final # None => lane'.final.fill = fill[g])
    BY <2>2 DEF SaleHeld, SameSale
  <2>3. ASSUME NEW f \in cleared PROVE claim[f] # Unclaimed /\ (bill[f] # <<>> \/ Remembered(f)')
    <3>1. CASE bill[f] # <<>>
      BY <3>1 DEF SaleHeld
    <3>2. CASE bill[f] = <<>>
      <4>1. lane.final # None /\ lane.final.fill = f /\ claim[f] # Unclaimed
        BY <3>2 DEF SaleHeld, Remembered
      <4>2. f # 0
        BY DEF HistoryOK, Fill
      <4>3. lane.tx # None
        BY <4>1, <4>2 DEF ReportOK
      <4> QED BY <4>1, <4>3 DEF SameSale, Remembered
    <3> QED BY <3>1, <3>2
  <2> QED BY <2>1, <2>2, <2>3 DEF SaleHeld
<1> QED BY <1>1, <1>2, <1>3, <1>4

LEMMA DoseOutKeeps ==
    ASSUME DoseOut, SameBooks, Moves \/ Stays
    PROVE  DoseOut'
<1>1. \A g \in Gun : Due(g)' <=> Due(g)
  BY DEF Due, SameBooks
<1> QED BY <1>1 DEF DoseOut, Moves, Stays

LEMMA OneHandKeeps ==
    ASSUME OneHand, CalmSale
    PROVE  OneHand'
<1> /\ bill' = bill /\ fill' = fill /\ lane'.tx = lane.tx /\ LeftOn
    /\ lane'.final = lane.final \/ lane.tx = None
    /\ \A g \in Gun : pump'[g].phase = "Keypad" => pump[g].phase = "Keypad" \/ left.keypad # 0
    /\ KeepsFlowing
  BY DEF CalmSale, SameBooks, SameSale
<1>1. CASE NoLosses /\ Moves
  BY <1>1 DEF NoLosses, OneHand, Moves, LeftOn, KeepsFlowing
<1>2. CASE NoLosses /\ Stays
  BY <1>2 DEF NoLosses, OneHand, Stays, LeftOn, KeepsFlowing
<1>3. CASE NoKeypad /\ Moves
  BY <1>3 DEF NoKeypad, OneHand, Moves, LeftOn
<1>4. CASE NoKeypad /\ Stays
  <2>1. left'.keypad = 0 /\ \A g \in Gun : pump'[g].phase # "Keypad"
    BY <1>4 DEF NoKeypad, LeftOn
  <2>2. at' \in {"amount", "price"} => pump'[job'.gun].phase = "Idle"
    BY <1>4 DEF NoKeypad, Stays
  <2>3. at' = "dose" /\ ~job'.retried => pump'[job'.gun].phase = "Idle"
    BY <1>4 DEF NoKeypad, Stays
  <2>4. left'.retains /\ lane'.tx # None /\ ~(at' = "dose" /\ ~job'.retried) =>
          fill'[lane'.tx] = 0 \/ bill'[fill'[lane'.tx]] = <<>>
    BY <1>4 DEF NoKeypad, Stays, LeftOn
  <2> QED BY <2>1, <2>2, <2>3, <2>4 DEF NoKeypad, OneHand
<1> QED BY <1>1, <1>2, <1>3, <1>4 DEF OneHand, CalmSale

LEMMA CalmSaleKeeps ==
    ASSUME Stance, LoopOK', CalmSale
    PROVE  SalesInv'
<1>1. Registers' /\ BilledOver' /\ ReportOK' /\ SaleHeld'
  BY BooksKeep DEF Stance, CalmSale, LeftOn, OrdersInv, Parts
<1>2. DoseOut'
  BY DoseOutKeeps DEF Stance, CalmSale, SalesInv
<1>3. OneHand' /\ Retaining'
  BY OneHandKeeps, RetainingKeeps DEF Stance, CalmSale, SalesInv
<1> QED BY <1>1, <1>2, <1>3 DEF SalesInv

----------------------------------------------------------------------------
(* Answers. *)

(* A report is told by the gun that ends, and idle by the one that is; what    *)
(* flows is a fill.                                                            *)
LEMMA Answered ==
    ASSUME NEW g \in Gun, NEW r \in Answers(pump, g), PumpOK
    PROVE  /\ r.kind = "Final" <=> pump[g].phase = "Final"
           /\ r.kind = "Idle" => pump[g].phase = "Idle"
           /\ r.kind = "Dispensing" => Filling(pump[g]) /\ r.of = g
           /\ IsDispensing(r) => r.of \in Gun /\ Filling(pump[r.of])
<1>1. PICK q \in {OwnReply(pump, g)} \cup SharedReplies(pump, g) : r = q \/ r = Aggregate(q)
  BY DEF Answers
<1>2. r.kind = q.kind /\ r.of = q.of /\ r.flow = q.flow
  <2>1. \A h \in Gun : Aggregate(OwnReply(pump, h)).kind = OwnReply(pump, h).kind
             /\ Aggregate(OwnReply(pump, h)).of = OwnReply(pump, h).of
             /\ Aggregate(OwnReply(pump, h)).flow = OwnReply(pump, h).flow
    BY DEF Aggregate, OwnReply
  <2>2. \A h \in Gun : LET s == [OwnReply(pump, h) EXCEPT !.kind = "Synchronizing"]
                       IN  Aggregate(s).kind = s.kind /\ Aggregate(s).of = s.of
                           /\ Aggregate(s).flow = s.flow
    BY DEF Aggregate, OwnReply
  <2>3. CASE q = OwnReply(pump, g)
    BY <1>1, <2>1, <2>3
  <2>4. CASE q \in SharedReplies(pump, g)
    <3>1. PICK h \in Gun : q = [OwnReply(pump, h) EXCEPT !.kind = "Synchronizing"]
      BY <2>4 DEF SharedReplies
    <3> QED BY <1>1, <2>2, <3>1
  <2> QED BY <1>1, <2>3, <2>4
<1>3. CASE q = OwnReply(pump, g)
  <2>1. /\ q.kind = IF pump[g].phase = "Armed" THEN "Dispensing" ELSE pump[g].phase
        /\ q.of = IF pump[g].phase \in {"Idle", "Final"} THEN None ELSE g
        /\ q.flow = (pump[g].phase = "Dispensing")
    BY <1>3 DEF OwnReply
  <2>2. pump[g].phase \in {"Idle", "Keypad", "Armed", "Dispensing", "Synchronizing", "Final"}
    BY DEF PumpOK, GunState
  <2> QED BY <1>2, <2>1, <2>2 DEF IsDispensing, Filling
<1>4. CASE q \in SharedReplies(pump, g)
  <2>1. PICK h \in {o \in Gun \ {g} : pump[g].phase = "Idle" /\ pump[o].phase = "Dispensing"} :
           q = [OwnReply(pump, h) EXCEPT !.kind = "Synchronizing"]
    BY <1>4 DEF SharedReplies
  <2>2. q.kind = "Synchronizing" /\ q.of = h /\ pump[g].phase = "Idle" /\ Filling(pump[h])
    BY <2>1 DEF OwnReply, Filling
  <2> QED BY <1>2, <2>1, <2>2 DEF IsDispensing
<1> QED BY <1>1, <1>3, <1>4

----------------------------------------------------------------------------
(* What is left of the budget. *)

LEMMA SpendOn ==
    ASSUME Counted,
           NEW what \in {"named", "reactive", "keypad", "pauses", "stops", "estops", "resets", "faults",
                     "crashes"}, Spend(what)
    PROVE  LeftOn /\ (what # "keypad" => left'.keypad = left.keypad)
<1> DEFINE n == left[what] - 1
<1>1. left' = [left EXCEPT ![what] = n] /\ left \in Budget /\ left[what] > 0
  BY DEF Spend, Counted
<1>2. n \in Nat
  BY <1>1, CountIsNat
<1> HIDE DEF n
<1>3. CASE what = "named"
  BY <1>1, <1>3 DEF Budget, LeftOn
<1>4. CASE what = "reactive"
  BY <1>1, <1>4 DEF Budget, LeftOn
<1>5. CASE what = "keypad"
  BY <1>1, <1>5 DEF Budget, LeftOn
<1>6. CASE what = "pauses"
  BY <1>1, <1>6 DEF Budget, LeftOn
<1>7. CASE what = "stops"
  BY <1>1, <1>7 DEF Budget, LeftOn
<1>8. CASE what = "estops"
  BY <1>1, <1>8 DEF Budget, LeftOn
<1>9. CASE what = "resets"
  BY <1>1, <1>9 DEF Budget, LeftOn
<1>10. CASE what = "faults"
  BY <1>1, <1>10 DEF Budget, LeftOn
<1>11. CASE what = "crashes"
  BY <1>1, <1>11 DEF Budget, LeftOn
<1> QED BY <1>3, <1>4, <1>5, <1>6, <1>7, <1>8, <1>9, <1>10, <1>11

LEMMA SpentOn ==
    ASSUME Counted, NEW arrived \in BOOLEAN, Spent(arrived)
    PROVE  LeftOn /\ left.losses # 0 /\ (~arrived => left.deaf > 0)
<1> DEFINE n == left.losses - 1
           d == IF arrived THEN left.deaf ELSE left.deaf - 1
<1>1. /\ left' = [left EXCEPT !.losses = n, !.deaf = d] /\ left \in Budget /\ left.losses > 0
      /\ ~arrived => left.deaf > 0
  BY DEF Spent, Counted
<1>2. d > 0 => left.deaf > 0
  BY <1>1, CountIsNat
<1> HIDE DEF n, d
<1>3. /\ left'.retains = left.retains /\ left'.losses = n /\ left'.keypad = left.keypad
      /\ left'.resets = left.resets /\ left'.crashes = left.crashes /\ left'.deaf = d
  BY <1>1 DEF Budget
<1> QED BY <1>1, <1>2, <1>3 DEF LeftOn

LEMMA LeftSame ==
    ASSUME UNCHANGED left
    PROVE  LeftOn
BY DEF LeftOn

----------------------------------------------------------------------------
(* A step of the loop that leaves the sale of the lane. *)

SameStore == UNCHANGED <<queue, bill, fill, fills, claim, cleared, left>>

CalmPump ==
    /\ GunsGoOn /\ KeepsFlowing
    /\ \A g \in Gun : pump'[g].phase = "Keypad" => pump[g].phase = "Keypad" \/ left.keypad # 0

(* The lane l has the sale of the lane. *)
Holds(l) ==
    /\ l \in LaneState /\ Shaped(l) /\ l.tx = lane.tx
    /\ \/ l.final = lane.final /\ (lane.final # None => l.nozzle = lane.nozzle)
       \/ l.final = None /\ lane.tx = None
    /\ lane.status = "Done" =>
          \/ l.status = "Done" /\ l.nozzle = lane.nozzle
          \/ left.retains => pump'[lane.nozzle].phase # "Final"

LEMMA CalmStore ==
    ASSUME SameStore
    PROVE  SameBooks /\ LeftOn /\ QueueOn
BY DEF SameStore, SameBooks, LeftOn, QueueOn

LEMMA HoldingSale ==
    ASSUME Stance, SameBooks, LeftOn, QueueOn, CalmPump, LoopOK', Moves, NEW l, Holds(l), Becomes(l)
    PROVE  SalesInv'
<1>1. SameSale
  BY DEF Holds, Becomes, SameSale
<1> QED BY <1>1, CalmSaleKeeps DEF CalmSale, CalmPump

LEMMA EndingSale ==
    ASSUME Stance, SameBooks, LeftOn, QueueOn, CalmPump, at # "dose", NEW l, Holds(l), Ends(l)
    PROVE  SalesInv'
<1>1. LoopOK' /\ Becomes(l) /\ Moves
  BY EndsLoop DEF Holds, Ends, Moves
<1> QED BY <1>1, HoldingSale

LEMMA StillGuns ==
    ASSUME UNCHANGED pump, PumpOK
    PROVE  CalmPump
BY SameGunsLast, LastingGuns DEF CalmPump, KeepsFlowing

LEMMA LaneHolds ==
    ASSUME Stance
    PROVE  /\ Holds(lane) /\ Shaped(lane) /\ lane \in LaneState /\ job \in Job /\ PumpOK /\ HistoryOK
           /\ Counted /\ LoopOK /\ SideOK(lane) /\ JobOK
BY Context DEF Stance, SalesInv, LoopOK, Holds, SideOK

(* The guns of a step in memory, and of an answer that tells no end. *)
LEMMA MemorySale ==
    ASSUME Stance, Memory, at # "dose", NEW l, Holds(l), Ends(l)
    PROVE  SalesInv'
<1>1. SameStore /\ UNCHANGED pump
  BY DEF Memory, ghosts, SameStore
<1> QED BY <1>1, LaneHolds, StillGuns, CalmStore, EndingSale

LEMMA ToldGuns ==
    ASSUME Stance, NEW r, Heard(r), r.kind # "Final"
    PROVE  /\ CalmPump /\ GunsLast /\ pump[job.gun].phase # "Final" /\ job.gun \in Gun
           /\ r \in Answers(pump, job.gun) /\ at = "status"
           /\ r.kind = "Idle" => pump[job.gun].phase = "Idle" /\ pump'[job.gun].phase = "Idle"
           /\ \A g \in Gun : Filling(pump[g]) => Filling(pump'[g])
<1> PumpOK /\ JobOK
  BY LaneHolds
<1>1. job.gun \in Gun /\ r \in Answers(pump, job.gun) /\ pump[job.gun] \in GunState
      /\ pump' = [pump EXCEPT ![job.gun] = GunTold(pump[job.gun])] /\ at = "status"
  BY DEF Heard, JobOK, PumpOK
<1>2. pump[job.gun].phase # "Final" /\ (r.kind = "Idle" => pump[job.gun].phase = "Idle")
  BY <1>1, Answered
<1>3. Lasts(pump[job.gun], GunTold(pump[job.gun]))
  BY <1>1, <1>2, GunToldOn
<1>4. GunsLast /\ GunsGoOn
  BY <1>1, <1>3, OneGunLasts, LastingGuns
<1>5. \A g \in Gun : pump'[g] = IF g = job.gun THEN GunTold(pump[job.gun]) ELSE pump[g]
  BY <1>1 DEF PumpOK
<1>6. KeepsFlowing
  BY <1>4, LaneHolds DEF KeepsFlowing, GunsLast, Lasts, LaneState
<1>7. \A g \in Gun : pump'[g].phase = "Keypad" => pump[g].phase = "Keypad"
  BY <1>1, <1>5, GunToldOn
<1>8. pump[job.gun].phase = "Idle" => pump'[job.gun].phase = "Idle"
  BY <1>1, <1>5 DEF GunTold
<1>9. \A g \in Gun : Filling(pump[g]) => Filling(pump'[g])
  BY <1>1, <1>5 DEF GunTold, Filling
<1> QED BY <1>1, <1>2, <1>4, <1>6, <1>7, <1>8, <1>9 DEF CalmPump

LEMMA ToldSale ==
    ASSUME Stance, NEW r, HeardOnly(r), r.kind # "Final", NEW l, Holds(l), Ends(l)
    PROVE  SalesInv'
<1>1. Heard(r) /\ SameStore
  BY DEF HeardOnly, Heard, ghosts, SameStore
<1> QED BY <1>1, ToldGuns, CalmStore, EndingSale

----------------------------------------------------------------------------
(* The polls that bill nothing and start nothing. *)

LEMMA DrainedSale ==
    ASSUME Stance, Drained
    PROVE  SalesInv'
<1> Holds(lane) /\ Shaped(lane) /\ PumpOK
  BY LaneHolds
<1>1. /\ lane' = lane /\ UNCHANGED pump /\ SameStore /\ at = "rest" /\ at' = "poll" /\ ~job'.retried
  BY DEF Drained, Goto, Memory, ghosts, SameStore, NoJob
<1>2. LoopOK' /\ Becomes(lane) /\ Moves
  BY <1>1 DEF LoopOK, Becomes, Moves
<1> QED BY <1>1, <1>2, StillGuns, CalmStore, HoldingSale

(* A lane that waits, and one that may be cancelled, holds nothing. *)
LEMMA CancelledHolds ==
    ASSUME Stance, lane.tx = None, lane.pre # None
    PROVE  Holds(Cancelled(lane)) /\ lane.status # "Done"
<1> Shaped(lane) /\ lane \in LaneState
  BY LaneHolds
<1>1. lane.status # "Done"
  BY DEF Shaped
<1> QED BY <1>1, CancelledShaped DEF Holds

LEMMA FirstOfOne ==
    ASSUME NEW g \in Gun
    PROVE  First({g}) = g
<1>1. First({g}) \in {g}
  BY FirstInSet
<1> QED BY <1>1

LEMMA BeginPollSale ==
    ASSUME Stance, NEW expired \in BOOLEAN, BeginPoll(expired)
    PROVE  SalesInv'
<1> /\ Holds(lane) /\ Shaped(lane) /\ PumpOK /\ lane \in LaneState /\ SideOK(lane) /\ job \in Job
  BY LaneHolds
<1>1. at = "poll" /\ Memory /\ UNCHANGED pump /\ SameStore /\ SameBooks /\ LeftOn /\ QueueOn /\ CalmPump
  BY StillGuns, CalmStore DEF BeginPoll, Memory, ghosts, SameStore
<1>2. CASE expired
  <2>1. Holds(Cancelled(lane))
    BY <1>2, CancelledHolds DEF BeginPoll, CanExpire
  <2>2. Ends(Cancelled(lane))
    BY <1>2 DEF BeginPoll, Rest, Goto, Ends, NoJob
  <2> QED BY <1>1, <2>1, <2>2, MemorySale
<1>3. CASE ~expired /\ lane.final # None
  <2>1. lane.nozzle \in Gun /\ First(Polled) = lane.nozzle
    BY <1>3, FirstOfOne DEF Shaped, Polled, LaneState
  <2>2. Close(lane, First(Polled))
    BY <1>3 DEF BeginPoll
  <2>3. /\ LoopOK' /\ ~job'.retried /\ at' \in {"rest", "status", "stop", "commit"}
        /\ \/ Becomes(lane)
           \/ lane.tx = None /\ lane'.tx = None /\ lane'.final = None
    BY <1>3, <2>1, <2>2, CloseLeaves
  <2>4. Moves
    BY <1>1, <2>3 DEF Moves
  <2>5. CASE Becomes(lane)
    BY <1>1, <2>3, <2>4, <2>5, HoldingSale
  <2>6. CASE lane.tx = None /\ lane'.tx = None /\ lane'.final = None
    <3>1. SameSale
      BY <1>3, <2>6 DEF SameSale, Shaped
    <3> QED BY <1>1, <2>3, <2>4, <3>1, CalmSaleKeeps DEF CalmSale, CalmPump
  <2> QED BY <2>3, <2>5, <2>6
<1>4. CASE ~expired /\ lane.final = None
  <2> DEFINE g == First(Polled)
  <2>1. lane' = lane /\ at' = "status" /\ job' = [NoJob EXCEPT !.gun = g, !.todo = Polled \ {g}]
    BY <1>4 DEF BeginPoll, Goto
  <2>2. lane.nozzle # None => g = lane.nozzle
    BY FirstOfOne DEF Polled, LaneState
  <2> HIDE DEF g
  <2>3. job'.gun = g /\ ~job'.retried
    BY <2>1 DEF NoJob
  <2>4. LoopOK' /\ Becomes(lane) /\ Moves
    BY <1>1, <1>4, <2>1, <2>2, <2>3 DEF LoopOK, Becomes, Moves
  <2> QED BY <1>1, <2>4, HoldingSale
<1> QED BY <1>2, <1>3, <1>4

LEMMA StatusMissedSale ==
    ASSUME Stance, NEW threshold \in BOOLEAN, StatusMissed(threshold)
    PROVE  SalesInv'
<1> /\ Holds(lane) /\ Shaped(lane) /\ lane \in LaneState /\ job \in Job /\ LoopOK
  BY LaneHolds
<1> DEFINE l == [lane EXCEPT !.status = IF threshold THEN "Offline" ELSE @]
<1>1. /\ l \in LaneState /\ l.tx = lane.tx /\ l.final = lane.final /\ l.nozzle = lane.nozzle
      /\ l.started = lane.started /\ l.stop = lane.stop /\ l.wire = lane.wire /\ l.pre = lane.pre
      /\ l.status = IF threshold THEN "Offline" ELSE lane.status
  BY DEF LaneState
<1>2. PollEnds(l) /\ at = "status" /\ Memory /\ (threshold => lane.status # "Done")
  BY DEF StatusMissed
<1> HIDE DEF l
<1>3. Shaped(l)
  BY <1>1, <1>2 DEF Shaped
<1>4. Holds(l)
  BY <1>1, <1>2, <1>3 DEF Holds
<1> QED BY <1>2, <1>4, PollEndsEnds, MemorySale

LEMMA StatusOtherSale ==
    ASSUME Stance, NEW r, StatusOther(r)
    PROVE  SalesInv'
<1> Holds(lane) /\ job \in Job
  BY LaneHolds
<1>1. Ends(lane)
  BY LeaveEnds DEF StatusOther
<1> QED BY <1>1, ToldSale DEF StatusOther

LEMMA StatusSynchronizingSale ==
    ASSUME Stance, NEW r, StatusSynchronizing(r)
    PROVE  SalesInv'
<1> Holds(lane) /\ job \in Job
  BY LaneHolds
<1>1. Ends(lane)
  BY PollEndsEnds DEF StatusSynchronizing
<1> QED BY <1>1, ToldSale DEF StatusSynchronizing, About

(* The gun that is asked is the one that is selected. *)
LEMMA AskedNozzle ==
    ASSUME Stance, at = "status"
    PROVE  /\ lane.final = None /\ (lane.nozzle # None => job.gun = lane.nozzle)
           /\ lane.tx \in {None, job.gun} /\ job.gun \in Gun
           /\ lane.status = "Done" => lane.nozzle = job.gun /\ lane.tx = None /\ lane.pre = None
BY LaneHolds, NoneIsNoGun DEF LoopOK, Shaped, LaneState, JobOK

LEMMA ShownUpTyped ==
    ASSUME NEW l \in LaneState, NEW g \in Gun
    PROVE  ShownUp(l, g) \in LaneState
<1>1. [l EXCEPT !.wire = g, !.status = "NozzleUp", !.nozzle = g] \in LaneState
  BY DEF LaneState
<1> QED BY <1>1 DEF ShownUp

LEMMA ShownUpHolds ==
    ASSUME Stance, at = "status"
    PROVE  Holds(ShownUp(lane, job.gun))
<1> Shaped(lane) /\ lane \in LaneState
  BY LaneHolds
<1>1. /\ lane.final = None /\ (lane.tx # None => job.gun = lane.tx) /\ job.gun \in Gun
  BY AskedNozzle
<1>2. ShownUp(lane, job.gun) \in LaneState
  BY <1>1, ShownUpTyped
<1> QED BY <1>1, <1>2, ShownUpShaped DEF Holds

LEMMA StatusKeypadSale ==
    ASSUME Stance, NEW r, StatusKeypad(r)
    PROVE  SalesInv'
<1> job \in Job
  BY LaneHolds
<1>1. Ends(ShownUp(lane, job.gun)) /\ at = "status"
  BY PollEndsEnds DEF StatusKeypad, HeardOnly, Heard
<1> QED BY <1>1, ShownUpHolds, ToldSale DEF StatusKeypad, About

(* The sale of a lane that finds its gun idle is asked for. *)
LEMMA StatusIdleSale ==
    ASSUME Stance, NEW r, StatusIdle(r)
    PROVE  SalesInv'
<1> /\ Shaped(lane) /\ lane \in LaneState /\ job \in Job /\ LoopOK /\ HistoryOK
  BY LaneHolds
<1>1. /\ HeardOnly(r) /\ Heard(r) /\ r.kind = "Idle" /\ at = "status" /\ SameStore
  BY DEF StatusIdle, HeardOnly, Heard, About, ghosts, SameStore
<1>2. /\ CalmPump /\ pump[job.gun].phase = "Idle" /\ pump'[job.gun].phase = "Idle"
  BY <1>1, ToldGuns
<1>3. CASE lane.tx # None
  <2>1. lane' = lane /\ at' = "amount" /\ job' = [job EXCEPT !.retried = FALSE]
    BY <1>3 DEF StatusIdle, Goto
  <2>2. job'.gun = job.gun /\ ~job'.retried /\ lane.tx = job.gun /\ lane.final = None
    BY <1>1, <1>3, <2>1, AskedNozzle DEF Job
  <2>3. LoopOK'
    BY <2>1, <2>2 DEF LoopOK
  <2>4. SameBooks /\ LeftOn /\ QueueOn /\ SameSale
    BY <1>1, <2>1, CalmStore DEF SameSale
  <2>5. Registers' /\ BilledOver' /\ ReportOK' /\ SaleHeld'
    BY <1>2, <2>4, BooksKeep DEF Stance, LeftOn, CalmPump
  <2>6. DoseOut'
    BY <2>1 DEF DoseOut
  <2>7. NoKeypad
    BY <1>1, <1>2, <2>2, <1>3 DEF Stance, SalesInv, OneHand, NoLosses, Off
  <2>8. OneHand'
    <3>1. left'.keypad = 0 /\ \A g \in Gun : pump'[g].phase # "Keypad"
      BY <1>2, <2>4, <2>7 DEF NoKeypad, LeftOn, CalmPump
    <3>2. left'.retains /\ lane'.tx # None => fill'[lane'.tx] = 0 \/ bill'[fill'[lane'.tx]] = <<>>
      BY <1>1, <2>1, <2>4, <2>7 DEF NoKeypad, LeftOn, SameBooks
    <3> QED BY <1>2, <2>1, <2>2, <3>1, <3>2 DEF OneHand, NoKeypad
  <2> QED BY <2>3, <2>4, <2>5, <2>6, <2>8, RetainingKeeps DEF SalesInv
<1>4. CASE lane.tx = None /\ GunLifted(r, job.gun)
  BY <1>1, <1>4, ShownUpHolds, PollEndsEnds, ToldSale DEF StatusIdle
<1>5. CASE lane.tx = None /\ ~GunLifted(r, job.gun)
  <2>1. Shaped(Idled(lane)) /\ Idled(lane).tx = None /\ Idled(lane).final = None /\ Idled(lane) \in LaneState
    BY <1>1, <1>5, AskedNozzle, IdledShaped
  <2>2. lane.status = "Done" => pump'[lane.nozzle].phase # "Final"
    BY <1>1, <1>2, AskedNozzle
  <2>3. Holds(Idled(lane))
    BY <1>1, <1>5, <2>1, <2>2 DEF Holds
  <2> QED BY <1>1, <1>5, <2>3, PollEndsEnds, ToldSale DEF StatusIdle
<1> QED BY <1>3, <1>4, <1>5

LEMMA CommitFailsSale ==
    ASSUME Stance, CommitFails
    PROVE  SalesInv'
<1> Holds(lane) /\ job \in Job /\ PumpOK /\ Counted
  BY LaneHolds
<1>1. Ends(lane)
  BY LeaveEnds DEF CommitFails
<1>2. SameBooks /\ LeftOn /\ QueueOn /\ CalmPump /\ at = "commit"
  BY StillGuns, SpendOn DEF CommitFails, ghosts, SameBooks, QueueOn
<1> QED BY <1>1, <1>2, EndingSale

----------------------------------------------------------------------------
(* A lane that holds nothing starts. *)

LEMMA NothingDue ==
    ASSUME Stance, lane.tx = None
    PROVE  \A g \in Gun : ~Due(g)
BY NoneIsNoGun DEF Stance, SalesInv, SaleHeld

(* Nothing is due, before and after, and no report is held. *)
LEMMA FreeBooks ==
    ASSUME Stance, SameBooks, GunsGoOn, left'.retains = left.retains,
           \A g \in Gun : ~Due(g), lane.final = None, lane'.final = None,
           \A g \in Gun : fill[g] # 0 /\ bill[fill[g]] # <<>> => pump'[g].phase # "Final"
    PROVE  Registers' /\ BilledOver' /\ ReportOK' /\ SaleHeld'
<1> LoopOK /\ Registers /\ BilledOver /\ ReportOK /\ SaleHeld
  BY DEF Stance, SalesInv
<1> bill' = bill /\ fill' = fill /\ fills' = fills /\ claim' = claim /\ cleared' = cleared
  BY DEF SameBooks
<1>1. Registers'
  BY DEF Registers, GunsGoOn, GoesOn
<1>2. BilledOver'
  <2> SUFFICES ASSUME NEW g \in Gun, fill[g] # 0, bill[fill[g]] # <<>>
               PROVE  /\ bill[fill[g]][1] = [volume |-> pump'[g].volume, gun |-> g]
                      /\ pump'[g].phase \in Over
    BY DEF BilledOver
  <2>1. /\ bill[fill[g]][1] = [volume |-> pump[g].volume, gun |-> g] /\ pump[g].phase \in Over
    BY DEF BilledOver
  <2> QED BY <2>1 DEF GunsGoOn, GoesOn
<1>3. ReportOK'
  BY DEF ReportOK
<1>4. SaleHeld'
  <2>1. \A g \in Gun : ~Due(g)'
    BY DEF Due
  <2>2. \A f \in cleared : claim[f] # Unclaimed /\ bill[f] # <<>>
    BY DEF SaleHeld, Remembered
  <2> QED BY <2>1, <2>2 DEF SaleHeld
<1> QED BY <1>1, <1>2, <1>3, <1>4

LEMMA StartSale ==
    ASSUME Stance, Waiting(lane), lane.nozzle = job.gun, lane.final = None, job.gun \in Gun,
           lane' = Starting(lane, job.gun), at' = "dose", job' = [job EXCEPT !.retried = FALSE],
           SameBooks, LeftOn, QueueOn, CalmPump,
           left.losses # 0 => pump'[job.gun].phase = "Idle"
    PROVE  SalesInv'
<1> Shaped(lane) /\ lane \in LaneState /\ job \in Job /\ lane.tx = None /\ lane.status # "Done"
  BY LaneHolds DEF Waiting, Shaped
<1>1. /\ Shaped(lane') /\ lane'.tx = job.gun /\ lane'.final = None /\ job'.gun = job.gun
      /\ ~job'.retried
  BY StartingShaped DEF Job
<1>2. LoopOK'
  BY <1>1 DEF LoopOK
<1>3. \A g \in Gun : ~Due(g)
  BY NothingDue
<1>4. \A g \in Gun : fill[g] # 0 /\ bill[fill[g]] # <<>> => pump[g].phase # "Final"
  BY DEF Stance, SalesInv, BilledOver
<1>5. \A g \in Gun : fill[g] # 0 /\ bill[fill[g]] # <<>> => pump'[g].phase # "Final"
  BY <1>4 DEF CalmPump, GunsGoOn, GoesOn, Stance, SalesInv, BilledOver
<1>6. Registers' /\ BilledOver' /\ ReportOK' /\ SaleHeld'
  BY <1>1, <1>3, <1>5, FreeBooks DEF CalmPump, LeftOn
<1>7. DoseOut'
  BY <1>3 DEF DoseOut, Due, SameBooks
<1>8. CASE left.losses = 0
  <2>1. NoLosses'
    BY <1>1, <1>8 DEF NoLosses, LeftOn
  <2> QED BY <1>2, <1>6, <1>7, <2>1, RetainingKeeps DEF SalesInv, OneHand
<1>9. CASE left.losses # 0
  <2>1. NoKeypad
    BY <1>9 DEF Stance, SalesInv, OneHand, NoLosses
  <2>2. NoKeypad'
    BY <1>1, <1>9, <2>1 DEF NoKeypad, LeftOn, CalmPump
  <2> QED BY <1>2, <1>6, <1>7, <2>2, RetainingKeeps DEF SalesInv, OneHand
<1> QED BY <1>8, <1>9

LEMMA StatusReservedSale ==
    ASSUME Stance, NEW r, NEW expired \in BOOLEAN, StatusReserved(r, expired)
    PROVE  SalesInv'
<1> /\ Shaped(lane) /\ lane \in LaneState /\ job \in Job /\ LoopOK /\ HistoryOK /\ Holds(lane) /\ SideOK(lane)
  BY LaneHolds
<1>1. /\ HeardOnly(r) /\ Heard(r) /\ r.kind = "Idle" /\ r.kind # "Final" /\ at = "status" /\ SameStore
      /\ Waiting(lane) /\ lane.tx = None /\ lane.pre # None
  BY DEF StatusReserved, HeardOnly, Heard, About, ghosts, SameStore, Waiting
<1>2. /\ CalmPump /\ pump[job.gun].phase = "Idle" /\ pump'[job.gun].phase = "Idle"
      /\ SameBooks /\ LeftOn /\ QueueOn
  BY <1>1, ToldGuns, CalmStore
<1>3. lane.nozzle = job.gun /\ job.gun \in Gun /\ lane.final = None
  BY <1>1, AskedNozzle DEF SideOK, Waiting
<1>4. CASE ~Starts(r)
  BY <1>1, <1>4, PollEndsEnds, ToldSale DEF StatusReserved
<1>5. CASE Starts(r) /\ expired
  BY <1>1, <1>5, CancelledHolds, PollEndsEnds, ToldSale DEF StatusReserved
<1>6. CASE Starts(r) /\ ~expired /\ left.gas
  <2>1. lane' = lane /\ at' = "price" /\ job' = [job EXCEPT !.retried = FALSE]
    BY <1>6 DEF StatusReserved, Goto
  <2>2. job'.gun = job.gun /\ ~job'.retried
    BY <2>1 DEF Job
  <2>3. LoopOK'
    BY <1>3, <2>1 DEF LoopOK
  <2>4. SameSale
    BY <2>1 DEF SameSale
  <2>5. Registers' /\ BilledOver' /\ ReportOK' /\ SaleHeld'
    BY <1>2, <2>4, BooksKeep DEF Stance, LeftOn, CalmPump
  <2>6. DoseOut'
    BY <2>1 DEF DoseOut
  <2>7. OneHand'
    <3>1. CASE NoLosses
      BY <1>1, <1>2, <2>1, <2>2, <3>1 DEF OneHand, NoLosses, LeftOn
    <3>2. CASE NoKeypad
      BY <1>1, <1>2, <2>1, <2>2, <3>2 DEF OneHand, NoKeypad, LeftOn, CalmPump
    <3> QED BY <3>1, <3>2 DEF Stance, SalesInv, OneHand
  <2> QED BY <1>2, <2>3, <2>5, <2>6, <2>7, RetainingKeeps DEF SalesInv
<1>7. CASE Starts(r) /\ ~expired /\ ~left.gas
  <2>1. lane' = Starting(lane, job.gun) /\ at' = "dose" /\ job' = [job EXCEPT !.retried = FALSE]
    BY <1>7 DEF StatusReserved, Goto
  <2> QED BY <1>1, <1>2, <1>3, <2>1, StartSale
<1> QED BY <1>4, <1>5, <1>6, <1>7

LEMMA CancelAppliedHolds ==
    ASSUME Stance
    PROVE  Holds(CancelApplied(lane))
<1> Shaped(lane) /\ lane \in LaneState /\ SideOK(lane)
  BY LaneHolds
<1> DEFINE m == CancelApplied(lane)
<1>1. m \in LaneState
  BY CancelAppliedFollows DEF Follows, SideOK
<1>2. /\ Shaped(m) /\ m.tx = lane.tx
      /\ Waiting(lane) => /\ lane.tx = None /\ m.final = None
      /\ ~Waiting(lane) => /\ m.final = lane.final /\ m.nozzle = lane.nozzle
                           /\ m.status = lane.status \/ lane.tx # None
  BY CancelAppliedShaped
<1>3. lane.status = "Done" => ~Waiting(lane) /\ lane.tx = None
  BY DEF Shaped, Waiting
<1> QED BY <1>1, <1>2, <1>3 DEF Holds

LEMMA PriceWrittenSale ==
    ASSUME Stance, NEW heard \in BOOLEAN, NEW ok \in BOOLEAN, PriceWritten(heard, ok)
    PROVE  SalesInv'
<1> /\ Shaped(lane) /\ lane \in LaneState /\ job \in Job /\ LoopOK /\ Holds(lane) /\ SideOK(lane) /\ JobOK
    /\ PumpOK
  BY LaneHolds
<1>1. /\ at = "price" /\ Memory /\ SameStore /\ UNCHANGED pump /\ Waiting(lane)
      /\ lane.nozzle = job.gun /\ job.gun \in Gun /\ lane.final = None
  BY DEF PriceWritten, Memory, ghosts, SameStore, JobOK, LoopOK, SideOK
<1>2. CASE ~ok
  BY <1>1, <1>2, CancelLeaves, CancelAppliedHolds, MemorySale DEF PriceWritten
<1>3. CASE ok /\ lane.cancel
  BY <1>1, <1>3, PollEndsEnds, MemorySale DEF PriceWritten
<1>4. CASE ok /\ ~lane.cancel
  <2>1. lane' = Starting(lane, job.gun) /\ at' = "dose" /\ job' = [job EXCEPT !.retried = FALSE]
    BY <1>4 DEF PriceWritten, Goto
  <2>2. SameBooks /\ LeftOn /\ QueueOn /\ CalmPump
    BY <1>1, CalmStore, StillGuns
  <2>3. left.losses # 0 => pump'[job.gun].phase = "Idle"
    BY <1>1 DEF Stance, SalesInv, OneHand, NoLosses, NoKeypad
  <2> QED BY <1>1, <2>1, <2>2, <2>3, StartSale
<1> QED BY <1>2, <1>3, <1>4

----------------------------------------------------------------------------
(* A fill that flows becomes the sale of the lane. *)

LEMMA LiveSale ==
    ASSUME Stance, NEW r, Heard(r), r.kind # "Final", NEW g \in Gun, Filling(pump[g]),
           lane.tx \in {None, g}, Saw(g), UNCHANGED <<fill, fills, cleared>>,
           NEW l \in LaneState, Shaped(l), l.tx = g, l.final = None, Ends(l)
    PROVE  SalesInv'
<1> /\ Shaped(lane) /\ lane \in LaneState /\ LoopOK /\ HistoryOK /\ PumpOK
    /\ Registers /\ BilledOver /\ SaleHeld
  BY LaneHolds DEF Stance, SalesInv
<1>1. /\ CalmPump /\ pump[job.gun].phase # "Final" /\ at = "status" /\ Filling(pump'[g])
      /\ GunsGoOn
  BY ToldGuns DEF CalmPump
<1>2. UNCHANGED <<queue, bill, left>> /\ LeftOn /\ QueueOn
  BY DEF Heard, LeftOn, QueueOn
<1>3. LoopOK' /\ lane'.tx = g /\ lane'.final = None /\ Shaped(lane')
  BY EndsLoop DEF Becomes
<1>4. lane.final = None /\ (lane.status = "Done" => lane.nozzle = job.gun)
  BY <1>1, AskedNozzle
<1>5. fill[g] # 0 /\ bill[fill[g]] = <<>> /\ fill[g] \in Fill
  <2>1. fill[g] # 0 /\ pump[g].phase \notin Over
    BY DEF Registers, Filling, Off, Over
  <2> QED BY <2>1 DEF BilledOver, HistoryOK
<1>6. /\ claim' \in [Fill -> {Unclaimed, SeenOnly} \cup Fill]
      /\ \A f \in Fill : f # fill[g] => claim'[f] = claim[f]
      /\ \A f \in Fill : claim[f] # Unclaimed => claim'[f] # Unclaimed
  BY <1>5 DEF Saw, HistoryOK, Unclaimed, SeenOnly, Fill
<1>7. Registers'
  BY <1>1, <1>2 DEF Registers, GunsGoOn, GoesOn
<1>8. BilledOver'
  <2> SUFFICES ASSUME NEW h \in Gun, fill[h] # 0, bill[fill[h]] # <<>>
               PROVE  /\ bill[fill[h]][1] = [volume |-> pump'[h].volume, gun |-> h]
                      /\ pump'[h].phase \in Over /\ pump'[h].phase # "Final"
    BY <1>2 DEF BilledOver
  <2>1. /\ bill[fill[h]][1] = [volume |-> pump[h].volume, gun |-> h] /\ pump[h].phase \in Over
        /\ pump[h].phase = "Final" => lane.status = "Done" /\ lane.nozzle = h
    BY DEF BilledOver
  <2>2. pump[h].phase # "Final"
    BY <1>1, <1>4, <2>1
  <2> QED BY <1>1, <2>1, <2>2 DEF GunsGoOn, GoesOn
<1>9. ReportOK'
  BY <1>3 DEF ReportOK
<1>10. SaleHeld'
  <2>1. ASSUME NEW h \in Gun, Due(h)' PROVE h = g
    <3>1. fill[h] \in Fill /\ bill[fill[h]] = <<>> /\ claim'[fill[h]] # Unclaimed
      BY <1>2, <2>1 DEF Due, HistoryOK
    <3>2. CASE h # g
      <4>1. fill[h] # fill[g]
        BY <1>5, <3>2 DEF Registers
      <4>2. Due(h)
        BY <1>6, <3>1, <4>1 DEF Due, Fill
      <4> QED BY <3>2, <4>2, NoneIsNoGun DEF SaleHeld
    <3> QED BY <3>2
  <2>2. \A f \in cleared : f \in Fill /\ claim[f] # Unclaimed /\ bill[f] # <<>>
    BY <1>4 DEF SaleHeld, Remembered, HistoryOK
  <2> QED BY <1>2, <1>3, <1>6, <2>1, <2>2 DEF SaleHeld
<1>11. DoseOut' /\ at' \notin {"price", "dose", "amount"} /\ ~job'.retried
  BY DEF Ends, DoseOut
<1>12. OneHand'
  <2>1. CASE NoLosses
    <3>1. pump'[g].phase \notin Off
      BY <1>1 DEF Filling, Off
    <3> QED BY <1>2, <1>3, <1>11, <2>1, <3>1 DEF OneHand, NoLosses
  <2>2. CASE NoKeypad
    BY <1>1, <1>2, <1>3, <1>5, <1>11, <2>2 DEF OneHand, NoKeypad, CalmPump
  <2> QED BY <2>1, <2>2 DEF Stance, SalesInv, OneHand
<1> QED BY <1>2, <1>3, <1>7, <1>8, <1>9, <1>10, <1>11, <1>12, RetainingKeeps DEF SalesInv

(* A cancelled fill that flows is the sale still. *)
LEMMA CancelLive ==
    ASSUME NEW l \in LaneState, Shaped(l), l.tx # None, SideOK(l)
    PROVE  LET m == CancelApplied(l)
           IN  m \in LaneState /\ Shaped(m) /\ m.tx = l.tx /\ m.final = l.final /\ m.nozzle = l.nozzle
BY CancelAppliedShaped, CancelAppliedFollows DEF Waiting, Follows, SideOK

LEMMA StatusForeignSale ==
    ASSUME Stance, NEW r, StatusForeign(r)
    PROVE  SalesInv'
<1> /\ Shaped(lane) /\ lane \in LaneState /\ job \in Job /\ PumpOK /\ SideOK(lane)
  BY LaneHolds
<1> DEFINE l == Live(lane, job.gun)
<1>1. Heard(r) /\ r.kind = "Dispensing" /\ Cancel(l) /\ Saw(job.gun) /\ UNCHANGED <<fill, fills, cleared>>
      /\ at = "status"
  BY DEF StatusForeign, About, Heard
<1>2. Filling(pump[job.gun]) /\ lane.tx \in {None, job.gun} /\ job.gun \in Gun /\ lane.final = None
  BY <1>1, Answered, AskedNozzle DEF Heard
<1>3. l \in LaneState /\ Shaped(l) /\ l.tx = job.gun /\ l.final = None /\ SideOK(l)
  BY <1>2, LiveShaped, LiveFollows DEF Follows
<1> HIDE DEF l
<1>4. job.gun # None
  BY <1>2, NoneIsNoGun
<1>5. LET m == CancelApplied(l) IN m \in LaneState /\ Shaped(m) /\ m.tx = job.gun /\ m.final = None
  BY <1>3, <1>4, CancelLive
<1>6. Ends(CancelApplied(l))
  BY <1>1, CancelLeaves
<1> QED BY <1>1, <1>2, <1>5, <1>6, LiveSale

LEMMA StatusDispensingSale ==
    ASSUME Stance, NEW r, StatusDispensing(r)
    PROVE  SalesInv'
<1> /\ Shaped(lane) /\ lane \in LaneState /\ job \in Job /\ PumpOK /\ Holds(lane)
  BY LaneHolds
<1> DEFINE l == Live(lane, job.gun)
<1>1. Heard(r) /\ r.kind = "Dispensing" /\ UNCHANGED <<fill, fills, cleared>> /\ at = "status"
  BY DEF StatusDispensing, About, Heard
<1>2. CASE Resting(r)
  <2>1. HeardOnly(r) /\ Ends(lane)
    BY <1>1, <1>2, PollEndsEnds DEF StatusDispensing, HeardOnly, ghosts
  <2> QED BY <1>1, <2>1, ToldSale
<1>3. CASE ~Resting(r)
  <2>1. Filling(pump[job.gun]) /\ lane.tx \in {None, job.gun} /\ job.gun \in Gun /\ lane.final = None
    BY <1>1, Answered, AskedNozzle DEF Heard
  <2>2. l \in LaneState /\ Shaped(l) /\ l.tx = job.gun /\ l.final = None
    BY <2>1, LiveShaped
  <2>3. PollEnds(l) /\ Saw(job.gun)
    BY <1>3 DEF StatusDispensing
  <2> HIDE DEF l
  <2>4. Ends(l)
    BY <2>3, PollEndsEnds
  <2> QED BY <1>1, <2>1, <2>2, <2>3, <2>4, LiveSale
<1> QED BY <1>2, <1>3

LEMMA StatusWrongLiftSale ==
    ASSUME Stance, NEW r, StatusWrongLift(r)
    PROVE  SalesInv'
<1> /\ Shaped(lane) /\ lane \in LaneState /\ job \in Job /\ PumpOK /\ SideOK(lane)
  BY LaneHolds
<1> DEFINE c == Cancelled(lane)
<1>1. /\ Heard(r) /\ r.kind # "Final" /\ UNCHANGED <<fill, fills, orders, cleared>> /\ at = "status"
      /\ Waiting(lane) /\ lane.tx = None /\ lane.pre # None
  BY DEF StatusWrongLift, Heard, Wrong, Waiting
<1>2. /\ Shaped(c) /\ c.tx = None /\ c.final = None /\ c.status = "Idle" /\ c \in LaneState
  BY CancelledShaped
<1>3. Holds(c) /\ lane.status # "Done" /\ SideOK(c)
  BY <1>1, CancelledHolds, CancelledFollows DEF Follows
<1> HIDE DEF c
<1>4. CASE IsDispensing(r)
  <2> DEFINE g == IF r.of # None THEN r.of ELSE job.gun
             l == Live(c, g)
  <2>1. g \in Gun /\ Filling(pump[g])
    BY <1>1, <1>4, Answered, AskedNozzle, NoneIsNoGun DEF Heard
  <2>2. Cancel(l) /\ Saw(g)
    BY <1>4 DEF StatusWrongLift, c
  <2> HIDE DEF g
  <2>3. l \in LaneState /\ Shaped(l) /\ l.tx = g /\ l.final = None /\ SideOK(l)
    BY <1>2, <1>3, <2>1, LiveShaped, LiveFollows DEF Follows
  <2> HIDE DEF l
  <2>4. g # None
    BY <2>1, NoneIsNoGun
  <2>5. LET m == CancelApplied(l) IN m \in LaneState /\ Shaped(m) /\ m.tx = g /\ m.final = None
    BY <2>3, <2>4, CancelLive
  <2>6. Ends(CancelApplied(l))
    BY <2>2, CancelLeaves
  <2> QED BY <1>1, <2>1, <2>2, <2>5, <2>6, LiveSale
<1>5. CASE ~IsDispensing(r)
  <2> DEFINE g == First(Wrong(r))
             l == ShownUp(c, g)
  <2>1. lane' = l /\ Leave(lane') /\ HeardOnly(r)
    BY <1>1, <1>5 DEF StatusWrongLift, HeardOnly, ghosts, c
  <2>2. g \in Gun
    <3>1. Wrong(r) \in SUBSET Gun /\ Wrong(r) # {}
      BY <1>1, AskedNozzle, WrongGuns DEF StatusWrongLift
    <3> QED BY <3>1, FirstInSet
  <2> HIDE DEF g
  <2>3. l \in LaneState
    BY <1>2, <2>2, ShownUpTyped
  <2>4. Shaped(l) /\ l.tx = None /\ l.final = None
    BY <1>2, <2>2, ShownUpShaped
  <2>5. Holds(l)
    BY <1>1, <1>3, <2>3, <2>4, AskedNozzle DEF Holds
  <2> HIDE DEF l
  <2>6. Ends(l)
    BY <2>1, LeaveEnds
  <2> QED BY <1>1, <2>1, <2>5, <2>6, ToldSale
<1> QED BY <1>4, <1>5

----------------------------------------------------------------------------
(* A final report is pinned: from the gun itself, from AMOUNT_INFO, or from    *)
(* the answer of a stop.                                                       *)

LEMMA PinnedBooks ==
    ASSUME Stance, SameBooks, GunsGoOn, left'.retains = left.retains, lane.final = None,
           lane.status # "Done", NEW g \in Gun, lane.tx \in {None, g},
           NEW l, l.tx = lane.tx, l.final = SaleOf(g), l.nozzle = g,
           fill[g] # 0 => bill[fill[g]] = <<>>,
           pump'[g].phase \in Over, pump'[g].volume = pump[g].volume,
           pump'[g].phase = "Final" => lane.tx = g /\ left.retains,
           \/ lane'.tx = l.tx /\ lane'.final = l.final /\ lane'.nozzle = l.nozzle
           \/ l.tx = None /\ lane'.tx = None /\ lane'.final = None
    PROVE  Registers' /\ BilledOver' /\ ReportOK' /\ SaleHeld'
<1> Registers /\ BilledOver /\ SaleHeld /\ HistoryOK
  BY LaneHolds DEF Stance, SalesInv
<1> bill' = bill /\ fill' = fill /\ fills' = fills /\ claim' = claim /\ cleared' = cleared
  BY DEF SameBooks
<1>1. Registers'
  BY DEF Registers, GunsGoOn, GoesOn
<1>2. BilledOver'
  <2> SUFFICES ASSUME NEW h \in Gun, fill[h] # 0, bill[fill[h]] # <<>>
               PROVE  /\ bill[fill[h]][1] = [volume |-> pump'[h].volume, gun |-> h]
                      /\ pump'[h].phase \in Over /\ pump'[h].phase # "Final"
    BY DEF BilledOver
  <2>1. /\ bill[fill[h]][1] = [volume |-> pump[h].volume, gun |-> h] /\ pump[h].phase \in Over
        /\ pump[h].phase # "Final"
    BY DEF BilledOver
  <2> QED BY <2>1 DEF GunsGoOn, GoesOn
<1>3. SaleOf(g).fill = fill[g] /\ SaleOf(g).volume = pump[g].volume
  BY DEF SaleOf
<1>4. ReportOK'
  <2>1. CASE lane'.final = None
    BY <2>1 DEF ReportOK
  <2>2. CASE lane'.tx = l.tx /\ lane'.final = l.final /\ lane'.nozzle = l.nozzle
    <3> SUFFICES ASSUME fill[g] # 0
                 PROVE  /\ bill[fill[g]] = <<>> /\ fill[g] <= fills
                        /\ \A h \in Gun : fill[h] = fill[g] =>
                              /\ h = g /\ pump[g].volume = pump'[h].volume
                              /\ pump'[h].phase \in Over
                              /\ pump'[h].phase = "Final" => lane.tx = h /\ left.retains
                        /\ claim[fill[g]] # Unclaimed => lane.tx # None
      BY <1>3, <2>2 DEF ReportOK
    <3>1. \A h \in Gun : fill[h] = fill[g] => h = g
      BY DEF Registers
    <3>2. claim[fill[g]] # Unclaimed => lane.tx # None
      BY NoneIsNoGun DEF SaleHeld, Due
    <3> QED BY <3>1, <3>2 DEF HistoryOK
  <2> QED BY <2>1, <2>2
<1>5. SaleHeld'
  <2>1. \A h \in Gun : Due(h)' <=> Due(h)
    BY DEF Due
  <2>2. ASSUME NEW h \in Gun, Due(h)
        PROVE  lane'.tx = h /\ (lane'.final # None => lane'.final.fill = fill[h])
    <3>1. lane.tx = h /\ h # None
      BY <2>2, NoneIsNoGun DEF SaleHeld
    <3> QED BY <1>3, <3>1
  <2>3. \A f \in cleared : claim[f] # Unclaimed /\ bill[f] # <<>>
    BY DEF SaleHeld, Remembered
  <2> QED BY <2>1, <2>2, <2>3 DEF SaleHeld
<1> QED BY <1>1, <1>2, <1>4, <1>5

LEMMA StatusFinalSale ==
    ASSUME Stance, NEW r, StatusFinal(r)
    PROVE  SalesInv'
<1> /\ Shaped(lane) /\ lane \in LaneState /\ job \in Job /\ PumpOK /\ Holds(lane) /\ HistoryOK
  BY LaneHolds
<1>1. /\ Heard(r) /\ r.kind = "Final" /\ SameStore /\ at = "status"
      /\ pump' = [pump EXCEPT ![job.gun] = GunTold(pump[job.gun])]
  BY DEF StatusFinal, HeardOnly, Heard, ghosts, SameStore
<1>2. /\ pump[job.gun].phase = "Final" /\ job.gun \in Gun /\ lane.final = None
      /\ lane.tx \in {None, job.gun} /\ pump[job.gun] \in GunState
      /\ lane.nozzle # None => job.gun = lane.nozzle
  BY <1>1, Answered, AskedNozzle DEF Heard, PumpOK
<1>3. \A g \in Gun : pump'[g] = IF g = job.gun THEN GunTold(pump[job.gun]) ELSE pump[g]
  BY <1>1 DEF PumpOK
<1>4. /\ GunsGoOn /\ pump'[job.gun].phase = "Idle" /\ pump'[job.gun].volume = pump[job.gun].volume
      /\ \A g \in Gun : pump'[g].phase = "Keypad" => pump[g].phase = "Keypad"
  <2>1. \A g \in Gun : GoesOn(pump[g], pump[g])
    BY GunLasts DEF PumpOK, Lasts
  <2> QED BY <1>2, <1>3, <2>1, GunToldOn DEF GunsGoOn
<1>5. SameBooks /\ LeftOn /\ QueueOn /\ left'.retains = left.retains
  BY <1>1, CalmStore DEF LeftOn
<1>6. CASE lane.status = "Done" /\ lane.tx = None
  <2>1. lane' = lane /\ Ends(lane)
    BY <1>6, LeaveEnds DEF StatusFinal
  <2>2. KeepsFlowing
    BY <1>6 DEF KeepsFlowing
  <2>3. CalmPump
    BY <1>4, <2>2 DEF CalmPump
  <2> QED BY <1>1, <1>5, <2>1, <2>3, EndingSale
<1>7. CASE ~(lane.status = "Done" /\ lane.tx = None)
  <2> DEFINE l == Pinned(lane, job.gun, SaleOf(job.gun))
  <2>1. lane.status # "Done"
    BY <1>7 DEF Shaped
  <2>2. SaleOf(job.gun) \in Sale
    BY <1>2, SaleOfGun
  <2>3. /\ Shaped(l) /\ l.tx = lane.tx /\ l.final = SaleOf(job.gun) /\ l.nozzle = job.gun
        /\ l \in LaneState
    BY <1>2, <2>2, PinnedShaped
  <2>4. Close(l, job.gun)
    BY <1>7 DEF StatusFinal
  <2> HIDE DEF l
  <2>5. l.final # None
    BY <2>2, <2>3, NoneIsApart
  <2>6. /\ LoopOK' /\ ~job'.retried /\ at' \in {"rest", "status", "stop", "commit"}
        /\ \/ Becomes(l)
           \/ l.tx = None /\ lane'.tx = None /\ lane'.final = None
    BY <1>2, <2>3, <2>4, <2>5, CloseLeaves
  <2>7. fill[job.gun] # 0 => bill[fill[job.gun]] = <<>>
    BY <1>2, <2>1 DEF Stance, SalesInv, BilledOver
  <2>8. pump'[job.gun].phase \in Over /\ pump'[job.gun].phase # "Final"
    BY <1>4 DEF Over, Off
  <2>9. Registers' /\ BilledOver' /\ ReportOK' /\ SaleHeld'
    BY <1>2, <1>4, <1>5, <2>1, <2>3, <2>6, <2>7, <2>8, PinnedBooks DEF Becomes
  <2>10. DoseOut' /\ at' \notin {"price", "dose", "amount"}
    BY <2>6 DEF DoseOut
  <2>11. OneHand'
    <3>1. CASE NoLosses
      BY <1>5, <2>5, <2>6, <2>10, <3>1 DEF OneHand, NoLosses, LeftOn, Becomes
    <3>2. CASE NoKeypad
      <4>1. left'.retains /\ lane'.tx # None => fill'[lane'.tx] = 0 \/ bill'[fill'[lane'.tx]] = <<>>
        BY <1>1, <1>5, <2>3, <2>6, <3>2 DEF NoKeypad, SameBooks, Becomes
      <4> QED BY <1>4, <1>5, <2>10, <3>2, <4>1 DEF OneHand, NoKeypad, LeftOn
    <3> QED BY <3>1, <3>2 DEF Stance, SalesInv, OneHand
  <2> QED BY <1>5, <2>6, <2>9, <2>10, <2>11, RetainingKeeps DEF SalesInv
<1> QED BY <1>6, <1>7

LEMMA AmountInfoSale ==
    ASSUME Stance, NEW heard \in BOOLEAN, AmountInfo(heard)
    PROVE  SalesInv'
<1> /\ Shaped(lane) /\ lane \in LaneState /\ job \in Job /\ PumpOK /\ Holds(lane) /\ HistoryOK
    /\ LoopOK /\ JobOK
  BY LaneHolds
<1>1. /\ at = "amount" /\ Memory /\ SameStore /\ UNCHANGED pump /\ lane.final = None
      /\ lane.tx = job.gun /\ job.gun \in Gun /\ job.gun # None
  BY NoneIsNoGun DEF AmountInfo, Memory, ghosts, SameStore, LoopOK, JobOK
<1>2. NoKeypad /\ pump[job.gun].phase = "Idle"
  BY <1>1 DEF Stance, SalesInv, OneHand, NoLosses, NoKeypad
<1>3. CASE ~(heard /\ (pump[job.gun].phase = "Final" \/ left.retains))
  BY <1>1, <1>3, PollEndsEnds, MemorySale DEF AmountInfo
<1>4. CASE heard /\ (pump[job.gun].phase = "Final" \/ left.retains)
  <2> DEFINE s == SaleOf(job.gun)
             l == [lane EXCEPT !.final = s]
  <2>1. s \in Sale /\ s # None
    BY <1>1, SaleOfGun, NoneIsApart
  <2>2. Close(l, job.gun)
    BY <1>4 DEF AmountInfo
  <2>3. /\ Shaped(l) /\ l.tx = lane.tx /\ l.final = s /\ l.nozzle = lane.nozzle /\ l \in LaneState
    BY <1>1, <2>1, MarkedShaped
  <2> HIDE DEF l
  <2>4. lane.nozzle = job.gun /\ lane.status # "Done"
    BY <1>1 DEF Shaped
  <2>5. /\ LoopOK' /\ ~job'.retried /\ at' \in {"rest", "status", "stop", "commit"} /\ Becomes(l)
    BY <1>1, <2>1, <2>2, <2>3, <2>4, CloseLeaves
  <2>6. fill[job.gun] # 0 => bill[fill[job.gun]] = <<>>
    BY <1>1, <1>2, <1>4 DEF NoKeypad
  <2>7. pump'[job.gun].phase \in Over /\ pump'[job.gun].phase # "Final"
    BY <1>1, <1>2 DEF Over, Off
  <2>8. SameBooks /\ GunsGoOn /\ left'.retains = left.retains /\ LeftOn /\ QueueOn
    BY <1>1, StillGuns, CalmStore DEF CalmPump, LeftOn
  <2>9. Registers' /\ BilledOver' /\ ReportOK' /\ SaleHeld'
    BY <1>1, <2>3, <2>4, <2>5, <2>6, <2>7, <2>8, PinnedBooks DEF Becomes
  <2>10. DoseOut' /\ at' \notin {"price", "dose", "amount"}
    BY <2>5 DEF DoseOut
  <2>11. left'.retains /\ lane'.tx # None => fill'[lane'.tx] = 0 \/ bill'[fill'[lane'.tx]] = <<>>
    BY <1>1, <1>2, <2>3, <2>5, <2>8 DEF NoKeypad, SameBooks, Becomes
  <2>12. NoKeypad'
    BY <1>1, <1>2, <2>8, <2>10, <2>11 DEF NoKeypad, LeftOn
  <2> QED BY <2>5, <2>8, <2>9, <2>10, <2>12, RetainingKeeps DEF SalesInv, OneHand
<1> QED BY <1>3, <1>4

LEMMA StopWireSale ==
    ASSUME Stance, NEW heard \in BOOLEAN, NEW final \in BOOLEAN, StopWire(heard, final)
    PROVE  SalesInv'
<1> /\ Shaped(lane) /\ lane \in LaneState /\ job \in Job /\ PumpOK /\ Holds(lane) /\ HistoryOK
    /\ LoopOK /\ JobOK
  BY LaneHolds
<1>1. /\ at = "stop" /\ SameStore /\ lane.final = None
      /\ lane.tx = job.gun /\ job.gun \in Gun /\ job.gun # None /\ pump[job.gun] \in GunState
      /\ lane.nozzle = job.gun /\ lane.status # "Done"
  BY NoneIsNoGun DEF StopWire, ghosts, SameStore, LoopOK, JobOK, PumpOK, Shaped
<1> DEFINE p == IF heard THEN GunStop(pump[job.gun]) ELSE pump[job.gun]
           q == IF final THEN [p EXCEPT !.phase = "Final"] ELSE p
           s == SaleOf(job.gun)
           l == IF final THEN [lane EXCEPT !.final = s] ELSE lane
<1>2. /\ pump' = [pump EXCEPT ![job.gun] = q]
      /\ final => left.retains /\ p.phase = "Synchronizing"
      /\ CASE job.next = "tail"  -> PollEnds(l)
           [] job.next = "leave" -> lane' = l /\ Leave(l)
           [] job.next = "each"  ->
                 /\ lane' = l
                 /\ IF job.todo = {} THEN Rest
                    ELSE Goto("each", [NoJob EXCEPT !.gun = First(job.todo),
                                                    !.todo = job.todo \ {First(job.todo)}])
  BY DEF StopWire
<1>3. Lasts(pump[job.gun], p) /\ p \in GunState /\ p.volume = pump[job.gun].volume
      /\ (p.phase = "Keypad" => pump[job.gun].phase = "Keypad")
  <2>1. GunStop(pump[job.gun]) \in GunState /\ GunStop(pump[job.gun]).volume = pump[job.gun].volume
    BY <1>1 DEF GunStop, Finished, GunState
  <2> QED BY <1>1, <2>1, GunLasts
<1>4. s \in Sale /\ s # None
  BY <1>1, SaleOfGun, NoneIsApart
<1>5. /\ Shaped(l) /\ l.tx = lane.tx /\ l.nozzle = lane.nozzle /\ l \in LaneState
      /\ l.final = IF final THEN s ELSE None
  <2> HIDE DEF s
  <2>1. CASE final
    <3> DEFINE m == [lane EXCEPT !.final = s]
    <3>1. l = m
      BY <2>1
    <3>2. /\ Shaped(m) /\ m.tx = lane.tx /\ m.final = s /\ m.nozzle = lane.nozzle
          /\ m \in LaneState
      BY <1>1, <1>4, MarkedShaped
    <3> HIDE DEF l, m
    <3> QED BY <2>1, <3>1, <3>2
  <2>2. CASE ~final
    <3>1. l = lane
      BY <2>2
    <3> HIDE DEF l
    <3> QED BY <1>1, <2>2, <3>1
  <2> QED BY <2>1, <2>2
<1> HIDE DEF p, s, l
<1>6. /\ LoopOK' /\ ~job'.retried /\ at' \notin {"price", "dose", "amount"} /\ Becomes(l)
  <2>1. CASE Ends(l)
    BY <1>5, <2>1, EndsLoop DEF Ends
  <2>2. CASE lane' = l /\ Rest
    <3>1. Ends(l)
      BY <2>2 DEF Ends, Rest, Goto, NoJob
    <3> QED BY <2>1, <3>1
  <2>3. CASE lane' = l /\ at' = "each" /\ job' = [NoJob EXCEPT !.gun = First(job.todo),
                                                    !.todo = job.todo \ {First(job.todo)}]
    <3>1. ~job'.retried
      BY <2>3 DEF NoJob
    <3> QED BY <1>5, <2>3, <3>1 DEF LoopOK, Becomes
  <2>4. CASE job.next = "tail"
    BY <1>2, <2>1, <2>4, PollEndsEnds
  <2>5. CASE job.next = "leave"
    BY <1>2, <2>1, <2>5, LeaveEnds
  <2>6. CASE job.next = "each"
    BY <1>2, <2>2, <2>3, <2>6 DEF Goto
  <2> QED BY <2>4, <2>5, <2>6 DEF Job
<1>7. SameBooks /\ LeftOn /\ QueueOn /\ left'.retains = left.retains
  BY <1>1, CalmStore DEF LeftOn
<1>8. CASE ~final
  <2>1. GunsLast /\ GunsGoOn
    BY <1>1, <1>2, <1>3, <1>8, OneGunLasts, LastingGuns
  <2>2. \A g \in Gun : pump'[g] = IF g = job.gun THEN p ELSE pump[g]
    BY <1>2, <1>8 DEF PumpOK
  <2>3. CalmPump
    BY <1>1, <1>3, <2>1, <2>2 DEF CalmPump, KeepsFlowing, GunsLast, Lasts
  <2>4. Moves
    BY <1>1, <1>6 DEF Moves
  <2>5. l = lane
    BY <1>8 DEF l
  <2> QED BY <1>6, <1>7, <2>3, <2>4, <2>5, HoldingSale
<1>9. CASE final
  <2>1. q = [p EXCEPT !.phase = "Final"] /\ p.phase = "Synchronizing" /\ left.retains
    BY <1>2, <1>9
  <2>2. q.phase = "Final" /\ q.volume = p.volume /\ pump[job.gun].phase \notin Over
    <3>1. pump[job.gun].phase \notin Over
      BY <1>3, <2>1 DEF Lasts, GoesOn, Over, Off
    <3> QED BY <1>3, <2>1, <3>1 DEF GunState
  <2> HIDE DEF q
  <2>3. \A g \in Gun : pump'[g] = IF g = job.gun THEN q ELSE pump[g]
    BY <1>2 DEF PumpOK
  <2>4. GunsGoOn
    <3>1. \A g \in Gun : GoesOn(pump[g], pump[g])
      BY GunLasts DEF PumpOK, Lasts
    <3>2. GoesOn(pump[job.gun], q)
      BY <2>2 DEF GoesOn, Over, Off
    <3> QED BY <2>3, <3>1, <3>2 DEF GunsGoOn
  <2>5. fill[job.gun] # 0 => bill[fill[job.gun]] = <<>>
    BY <1>1, <2>2 DEF Stance, SalesInv, BilledOver
  <2>6. pump'[job.gun].phase = "Final" /\ pump'[job.gun].volume = pump[job.gun].volume
        /\ pump'[job.gun].phase \in Over
    BY <1>1, <1>3, <2>2, <2>3 DEF Over
  <2>7. l.final = SaleOf(job.gun)
    BY <1>5, <1>9 DEF s
  <2>8. Registers' /\ BilledOver' /\ ReportOK' /\ SaleHeld'
    BY <1>1, <1>5, <1>6, <1>7, <2>1, <2>4, <2>5, <2>6, <2>7, PinnedBooks DEF Becomes
  <2>9. DoseOut'
    BY <1>6 DEF DoseOut
  <2>10. OneHand'
    <3>1. CASE NoLosses
      BY <1>4, <1>5, <1>6, <1>7, <1>9, <3>1 DEF OneHand, NoLosses, LeftOn, Becomes
    <3>2. CASE NoKeypad
      <4>1. left'.retains /\ lane'.tx # None => fill'[lane'.tx] = 0 \/ bill'[fill'[lane'.tx]] = <<>>
        BY <1>1, <1>5, <1>6, <1>7, <2>5 DEF SameBooks, Becomes
      <4>2. \A g \in Gun : pump'[g].phase # "Keypad"
        BY <2>2, <2>3, <3>2 DEF NoKeypad
      <4> QED BY <1>6, <1>7, <3>2, <4>1, <4>2 DEF OneHand, NoKeypad, LeftOn
    <3> QED BY <3>1, <3>2 DEF Stance, SalesInv, OneHand
  <2> QED BY <1>6, <1>7, <2>8, <2>9, <2>10, RetainingKeeps DEF SalesInv
<1> QED BY <1>8, <1>9

----------------------------------------------------------------------------
(* The sale is billed. *)

LEMMA OneRow ==
    ASSUME NEW row \in Row
    PROVE  LET q == Append(<<>>, row) IN Len(q) = 1 /\ q # <<>> /\ q[1] = row
BY DEF Row

LEMMA CommitSaleSale ==
    ASSUME Stance, CommitSale
    PROVE  SalesInv'
<1> /\ Shaped(lane) /\ lane \in LaneState /\ job \in Job /\ PumpOK /\ Holds(lane) /\ HistoryOK
    /\ LoopOK /\ JobOK /\ Registers /\ BilledOver /\ ReportOK /\ SaleHeld
  BY LaneHolds DEF Stance, SalesInv
<1> bill \in [Fill -> Seq(Row)]
  BY Context DEF Stance, BillsOK
<1> DEFINE s == lane.final
           n == lane.nozzle
           row == [volume |-> s.volume, gun |-> n]
           l == Closed(lane, job.gun)
<1>1. /\ at = "commit" /\ s # None /\ s \in Sale /\ n \in Gun /\ job.gun = n
      /\ lane.tx \in {None, n} /\ lane.status # "Done"
  BY NoneIsNoGun DEF CommitSale, LoopOK, JobOK, Shaped, LaneState
<1>2. /\ bill' = IF s.fill = 0 THEN bill ELSE [bill EXCEPT ![s.fill] = Append(@, row)]
      /\ lane' = l /\ Leave(l) /\ UNCHANGED <<pump, queue, fill, fills, claim, cleared, left>>
  BY <1>1 DEF CommitSale, ghosts
<1>3. Ends(l)
  BY <1>2, LeaveEnds
<1>4. /\ Shaped(l) /\ l.tx = None /\ l.final = None /\ l.status = "Done" /\ l.nozzle = n
  BY <1>1, ClosedShaped
<1>5. l \in LaneState
  BY <1>1, ClosedFollows, LaneHolds DEF Follows, SideOK
<1> HIDE DEF l
<1>6. LoopOK' /\ lane'.tx = None /\ lane'.final = None /\ lane'.status = "Done" /\ lane'.nozzle = n
  BY <1>3, <1>4, <1>5, EndsLoop DEF Becomes
<1>7. /\ s.fill \in {0} \cup Fill /\ s.volume \in Volume
      /\ s.fill # 0 => bill[s.fill] = <<>> /\ s.fill <= fills
  BY <1>1 DEF Sale, ReportOK
<1>a. row \in Row
  BY <1>1, <1>7 DEF Row
<1> HIDE DEF s, n, row
<1>8. /\ s.fill # 0 => Len(bill'[s.fill]) = 1 /\ bill'[s.fill] # <<>> /\ bill'[s.fill][1] = row
      /\ \A f \in Fill : f # s.fill => bill'[f] = bill[f]
  <2>1. CASE s.fill = 0
    BY <1>2, <2>1
  <2>2. CASE s.fill # 0
    <3>1. s.fill \in Fill /\ bill' = [bill EXCEPT ![s.fill] = Append(bill[s.fill], row)]
      BY <1>2, <1>7, <2>2
    <3>2. bill'[s.fill] = Append(<<>>, row)
      BY <1>7, <2>2, <3>1
    <3>3. Len(bill'[s.fill]) = 1 /\ bill'[s.fill] # <<>> /\ bill'[s.fill][1] = row
      BY <1>a, <3>2, OneRow
    <3>4. \A f \in Fill : f # s.fill => bill'[f] = bill[f]
      BY <3>1
    <3> QED BY <3>3, <3>4
  <2> QED BY <2>1, <2>2
<1>9. Registers'
  <2>1. \A f \in Fill : f > fills => bill'[f] = <<>>
    BY <1>7, <1>8 DEF Registers, HistoryOK, Fill
  <2> QED BY <1>2, <2>1 DEF Registers
<1>10. BilledOver'
  <2>1. ASSUME NEW f \in Fill PROVE Len(bill'[f]) <= 1
    <3>1. f # 0
      BY DEF Fill
    <3>2. CASE f = s.fill
      <4>1. Len(bill'[s.fill]) = 1
        BY <1>8, <3>1, <3>2
      <4>2. Len(bill'[f]) = 1
        BY Zenon, <3>2, <4>1
      <4> QED BY <4>2
    <3>3. CASE f # s.fill
      BY <1>8, <3>3 DEF BilledOver
    <3> QED BY <3>2, <3>3
  <2>2. ASSUME NEW g \in Gun, fill[g] # 0, bill'[fill[g]] # <<>>
        PROVE  /\ bill'[fill[g]][1] = [volume |-> pump[g].volume, gun |-> g]
               /\ pump[g].phase \in Over
               /\ pump[g].phase = "Final" => left.retains /\ n = g
    <3>1. fill[g] \in Fill
      BY <2>2 DEF HistoryOK
    <3>2. CASE fill[g] = s.fill
      <4>1. /\ g = n /\ s.volume = pump[g].volume /\ pump[g].phase \in Over
            /\ pump[g].phase = "Final" => left.retains
        BY <1>1, <2>2, <3>2 DEF ReportOK, s, n
      <4>2. bill'[fill[g]][1] = row
        BY <1>8, <2>2, <3>2
      <4> QED BY <4>1, <4>2 DEF row
    <3>3. CASE fill[g] # s.fill
      <4>1. bill'[fill[g]] = bill[fill[g]]
        BY <1>8, <3>1, <3>3
      <4> QED BY <1>1, <2>2, <4>1 DEF BilledOver
    <3> QED BY <3>2, <3>3
  <2> QED BY <1>2, <1>6, <2>1, <2>2 DEF BilledOver
<1>11. ReportOK'
  BY <1>6 DEF ReportOK
<1>12. \A g \in Gun : ~Due(g)'
  <2> SUFFICES ASSUME NEW g \in Gun, Due(g)' PROVE FALSE
    OBVIOUS
  <2>1. fill[g] \in Fill /\ claim[fill[g]] # Unclaimed /\ bill'[fill[g]] = <<>> /\ fill[g] # 0
    BY <1>2 DEF Due, HistoryOK
  <2>2. fill[g] # s.fill
    BY <1>8, <2>1
  <2>3. Due(g)
    BY <1>8, <2>1, <2>2 DEF Due
  <2> QED BY <1>1, <2>2, <2>3 DEF SaleHeld, s
<1>13. SaleHeld'
  <2>1. ASSUME NEW f \in cleared PROVE claim[f] # Unclaimed /\ bill'[f] # <<>>
    <3>a. claim[f] # Unclaimed /\ (bill[f] # <<>> \/ Remembered(f))
      BY DEF SaleHeld
    <3>b. f \in Fill
      BY DEF HistoryOK
    <3>c. f # 0
      BY <3>b DEF Fill
    <3>d. Remembered(f) => s.fill = f
      BY DEF Remembered, s
    <3>1. f \in Fill /\ f # 0 /\ claim[f] # Unclaimed /\ (bill[f] # <<>> \/ s.fill = f)
      BY <3>a, <3>b, <3>c, <3>d
    <3>2. CASE s.fill = f
      BY <1>8, <3>1, <3>2
    <3>3. CASE s.fill # f
      BY <1>8, <3>1, <3>3
    <3> QED BY <3>1, <3>2, <3>3
  <2> QED BY <1>2, <1>12, <2>1 DEF SaleHeld
<1>14. DoseOut' /\ at' \notin {"price", "dose", "amount"} /\ ~job'.retried
  BY <1>3 DEF Ends, DoseOut
<1>15. OneHand'
  BY <1>2, <1>6, <1>14 DEF Stance, SalesInv, OneHand, NoLosses, NoKeypad
<1>16. LeftOn /\ QueueOn
  BY <1>2 DEF LeftOn, QueueOn
<1> QED BY <1>6, <1>9, <1>10, <1>11, <1>13, <1>14, <1>15, <1>16, RetainingKeeps DEF SalesInv

----------------------------------------------------------------------------
(* A register is cleared for a new fill, which is nobody's sale yet. *)

LEMMA FilledBooks ==
    ASSUME Stance, NEW g \in Gun, NEW by, NewFill(g, by), fills < MaxFills, UNCHANGED bill,
           pump' = [pump EXCEPT ![g] = GunDose(pump[g], lane.dose)]
             \/ pump' = [pump EXCEPT ![g] = GunDose(pump[g], None)],
           Due(g) => Remembered(fill[g]),
           by # Unclaimed => lane.tx = g /\ lane.final = None,
           lane'.tx = lane.tx, lane'.final = lane.final, lane'.nozzle = lane.nozzle,
           lane'.status = lane.status, left'.retains = left.retains
    PROVE  /\ Registers' /\ BilledOver' /\ ReportOK' /\ SaleHeld'
           /\ fill'[g] # 0 /\ bill'[fill'[g]] = <<>>
           /\ \A h \in Gun : h # g => fill'[h] = fill[h] /\ pump'[h] = pump[h] /\ (Due(h)' => Due(h))
           /\ pump'[g].phase \in {"Armed", "Dispensing"}
           /\ (by = Unclaimed => ~Due(g)')
<1> /\ Shaped(lane) /\ lane \in LaneState /\ PumpOK /\ HistoryOK
    /\ Registers /\ BilledOver /\ ReportOK /\ SaleHeld
  BY LaneHolds DEF Stance, SalesInv
<1> DEFINE n == fills + 1
<1>1. n \in Fill /\ n # 0 /\ fills \in Nat /\ n > fills /\ \A f \in Fill : f <= fills => f # n
  BY MaxFillsAssumption DEF HistoryOK, Fill
<1>2. /\ fills' = n /\ fill' = [fill EXCEPT ![g] = n] /\ claim' = [claim EXCEPT ![n] = by]
      /\ cleared' = IF Unbilled(g) THEN cleared \cup {fill[g]} ELSE cleared
  BY DEF NewFill
<1>3. \A f \in Fill : f > n => f > fills
  BY <1>1 DEF Fill
<1>4. \A h \in Gun : fill[h] \in {0} \cup Fill /\ fill[h] <= fills /\ fill[h] # n
  BY <1>1 DEF HistoryOK, Fill
<1>5. fill'[g] = n /\ \A h \in Gun : h # g => fill'[h] = fill[h]
  BY <1>2 DEF HistoryOK
<1>6. claim'[n] = by /\ \A f \in Fill : f # n => claim'[f] = claim[f]
  BY <1>1, <1>2 DEF HistoryOK
<1>7. bill[n] = <<>> /\ bill' = bill
  BY <1>1 DEF Registers
<1> HIDE DEF n
<1>8. pump'[g].phase \in {"Armed", "Dispensing"} /\ \A h \in Gun : h # g => pump'[h] = pump[h]
  <2>1. \A d : GunDose(pump[g], d).phase \in {"Armed", "Dispensing"}
    <3> TAKE d
    <3>1. pump[g] \in GunState
      BY DEF PumpOK
    <3> QED BY <3>1 DEF GunDose, GunState
  <2> QED BY <2>1 DEF PumpOK
<1>9. Registers'
  <2>1. \A h \in Gun : pump'[h].phase \notin Off => fill'[h] # 0
    BY <1>1, <1>5, <1>8 DEF Registers
  <2>2. \A h, k \in Gun : fill'[h] = fill'[k] /\ fill'[h] # 0 => h = k
    BY <1>4, <1>5 DEF Registers
  <2>3. \A f \in Fill : f > fills' => bill'[f] = <<>>
    BY <1>2, <1>3, <1>7 DEF Registers
  <2> QED BY <2>1, <2>2, <2>3 DEF Registers
<1>10. BilledOver'
  <2> SUFFICES ASSUME NEW h \in Gun, fill'[h] # 0, bill[fill'[h]] # <<>>
               PROVE  /\ bill[fill'[h]][1] = [volume |-> pump'[h].volume, gun |-> h]
                      /\ pump'[h].phase \in Over
                      /\ pump'[h].phase = "Final" => left.retains /\ lane.status = "Done" /\ lane.nozzle = h
    BY <1>7 DEF BilledOver
  <2>1. h # g
    BY <1>5, <1>7
  <2> QED BY <1>5, <1>8, <2>1 DEF BilledOver
<1>11. ReportOK'
  <2> SUFFICES ASSUME lane.final # None, lane.final.fill # 0
               PROVE  /\ bill[lane.final.fill] = <<>> /\ lane.final.fill <= n
                      /\ \A h \in Gun : fill'[h] = lane.final.fill =>
                            /\ h = lane.nozzle /\ lane.final.volume = pump'[h].volume
                            /\ pump'[h].phase \in Over
                            /\ pump'[h].phase = "Final" => lane.tx = h /\ left.retains
                      /\ claim'[lane.final.fill] # Unclaimed => lane.tx # None
    BY <1>2, <1>7 DEF ReportOK
  <2>1. lane.final.fill \in Fill /\ lane.final.fill <= fills
    BY DEF ReportOK, LaneState, Sale
  <2>2. lane.final.fill # n /\ lane.final.fill <= n
    BY <1>1, <2>1 DEF n, Fill
  <2>3. \A h \in Gun : fill'[h] = lane.final.fill => h # g
    BY <1>5, <2>2
  <2> QED BY <1>5, <1>6, <1>8, <2>1, <2>2, <2>3 DEF ReportOK
<1>12. ASSUME NEW h \in Gun, h # g PROVE Due(h)' => Due(h)
  <2>1. fill'[h] # 0 => fill[h] \in Fill /\ fill'[h] = fill[h] /\ claim'[fill[h]] = claim[fill[h]]
    BY <1>4, <1>5, <1>6, <1>12
  <2> QED BY <1>7, <2>1 DEF Due
<1>13. by = Unclaimed => ~Due(g)'
  BY <1>5, <1>6 DEF Due
<1>14. SaleHeld'
  <2>1. ASSUME NEW h \in Gun, Due(h)'
        PROVE  lane'.tx = h /\ (lane'.final # None => lane'.final.fill = fill'[h])
    <3>1. CASE h = g
      BY <1>13, <2>1, <3>1
    <3>2. CASE h # g
      BY <1>5, <1>12, <2>1, <3>2 DEF SaleHeld
    <3> QED BY <3>1, <3>2
  <2>2. ASSUME NEW f \in cleared' PROVE claim'[f] # Unclaimed /\ (bill'[f] # <<>> \/ Remembered(f)')
    <3>1. f \in Fill /\ f # n
      <4>1. CASE f \in cleared
        <5>1. f \in Fill /\ claim[f] # Unclaimed /\ (bill[f] # <<>> \/ Remembered(f))
          BY <4>1 DEF SaleHeld, HistoryOK
        <5>2. Remembered(f) => f <= fills
          BY <5>1 DEF Remembered, ReportOK, Fill
        <5> QED BY <1>1, <1>7, <5>1, <5>2
      <4>2. CASE f = fill[g] /\ Unbilled(g)
        BY <1>4, <4>2 DEF Unbilled
      <4> QED BY <1>2, <2>2, <4>1, <4>2
    <3>2. CASE f \in cleared
      BY <1>6, <1>7, <3>1, <3>2 DEF SaleHeld, Remembered
    <3>3. CASE f = fill[g] /\ Unbilled(g)
      <4>1. Due(g)
        BY <3>3 DEF Unbilled, Due
      <4> QED BY <1>6, <3>1, <3>3, <4>1 DEF Due, Remembered
    <3> QED BY <1>2, <2>2, <3>2, <3>3
  <2> QED BY <2>1, <2>2 DEF SaleHeld
<1> QED BY <1>1, <1>5, <1>7, <1>8, <1>9, <1>10, <1>11, <1>12, <1>13, <1>14

LEMMA DoseContext ==
    ASSUME Stance, at = "dose"
    PROVE  /\ job.gun \in Gun /\ lane.tx = job.gun /\ lane.tx # None /\ lane.final = None
           /\ lane.nozzle = job.gun /\ lane.status # "Done"
BY LaneHolds, NoneIsNoGun DEF LoopOK, JobOK, Shaped

LEMMA DoseFills ==
    ASSUME Stance, at = "dose", TakesDose(pump[job.gun])
    PROVE  fills < MaxFills /\ Pending = 1 /\ \A g \in Gun : ~Due(g)
<1>1. \A g \in Gun : ~Due(g)
  BY DEF Stance, SalesInv, DoseOut, TakesDose
<1> QED BY <1>1, DoseServes DEF Stance

LEMMA DoseTakenSale ==
    ASSUME Stance, DoseTaken
    PROVE  SalesInv'
<1> Shaped(lane) /\ lane \in LaneState /\ job \in Job
  BY LaneHolds
<1>1. /\ at = "dose" /\ job.gun \in Gun /\ lane.tx = job.gun /\ lane.tx # None /\ lane.final = None
  BY DoseContext DEF DoseTaken
<1>2. fills < MaxFills /\ ~Due(job.gun)
  BY <1>1, DoseFills DEF DoseTaken
<1>3. Ends(lane) /\ LoopOK' /\ Becomes(lane)
  BY PollEndsEnds, EndsLoop DEF DoseTaken
<1>4. UNCHANGED <<queue, bill, left>> /\ left'.retains = left.retains /\ LeftOn /\ QueueOn
  BY DEF DoseTaken, LeftOn, QueueOn
<1>5. /\ NewFill(job.gun, lane.order)
      /\ pump' = [pump EXCEPT ![job.gun] = GunDose(pump[job.gun], lane.dose)]
  BY DEF DoseTaken
<1>6. /\ Registers' /\ BilledOver' /\ ReportOK' /\ SaleHeld'
      /\ bill'[fill'[job.gun]] = <<>>
      /\ \A h \in Gun : h # job.gun => pump'[h] = pump[h]
      /\ pump'[job.gun].phase \in {"Armed", "Dispensing"}
  BY <1>1, <1>2, <1>3, <1>4, <1>5, FilledBooks DEF Becomes
<1>7. DoseOut' /\ at' \notin {"price", "dose", "amount"} /\ ~job'.retried
  BY <1>3 DEF Ends, DoseOut
<1>8. OneHand'
  <2>1. CASE NoLosses
    BY <1>1, <1>3, <1>4, <1>6, <1>7, <2>1 DEF OneHand, NoLosses, Becomes, Off
  <2>2. CASE NoKeypad
    BY <1>1, <1>3, <1>4, <1>6, <1>7, <2>2 DEF OneHand, NoKeypad, Becomes
  <2> QED BY <2>1, <2>2 DEF Stance, SalesInv, OneHand
<1> QED BY <1>3, <1>4, <1>6, <1>7, <1>8, RetainingKeeps DEF SalesInv

LEMMA LoseDoseSale ==
    ASSUME Stance, NEW arrived \in BOOLEAN, LoseDose(arrived)
    PROVE  SalesInv'
<1> Shaped(lane) /\ lane \in LaneState /\ job \in Job /\ Counted /\ PumpOK /\ HistoryOK /\ LoopOK
  BY LaneHolds
<1>1. /\ at = "dose" /\ job.gun \in Gun /\ lane.tx = job.gun /\ lane.tx # None /\ lane.final = None
  BY DoseContext DEF LoseDose
<1>2. LeftOn /\ left.losses # 0 /\ (~arrived => left.deaf > 0) /\ left'.retains = left.retains
  BY SpentOn DEF LoseDose, LeftOn
<1>3. lane' = lane /\ UNCHANGED <<queue, bill>> /\ QueueOn /\ at' = "dose" /\ job'.gun = job.gun /\ job'.retried
  <2>1. job' = [job EXCEPT !.retried = TRUE] /\ at' = at
    BY DEF LoseDose, Goto
  <2> QED BY <1>1, <2>1 DEF LoseDose, QueueOn, Job
<1>4. LoopOK'
  BY <1>1, <1>3 DEF LoopOK
<1>5. NoKeypad
  BY <1>2 DEF Stance, SalesInv, OneHand, NoLosses
<1>6. CASE arrived /\ TakesDose(pump[job.gun])
  <2>1. fills < MaxFills /\ ~Due(job.gun)
    BY <1>1, <1>6, DoseFills
  <2>2. /\ NewFill(job.gun, lane.order)
        /\ pump' = [pump EXCEPT ![job.gun] = GunDose(pump[job.gun], lane.dose)]
    BY <1>6 DEF LoseDose
  <2>3. /\ Registers' /\ BilledOver' /\ ReportOK' /\ SaleHeld'
        /\ bill'[fill'[job.gun]] = <<>>
        /\ \A h \in Gun : h # job.gun => pump'[h] = pump[h]
        /\ pump'[job.gun].phase \in {"Armed", "Dispensing"}
    BY <1>1, <1>2, <1>3, <2>1, <2>2, FilledBooks
  <2>4. DoseOut'
    BY <1>3, <2>3 DEF DoseOut
  <2>5. NoKeypad'
    BY <1>1, <1>2, <1>3, <1>5, <2>3 DEF NoKeypad, LeftOn
  <2> QED BY <1>2, <1>3, <1>4, <2>3, <2>4, <2>5, RetainingKeeps DEF SalesInv, OneHand
<1>7. CASE ~(arrived /\ TakesDose(pump[job.gun]))
  <2>1. UNCHANGED <<pump, fill, fills, claim, cleared>> /\ SameBooks
    BY <1>3, <1>7 DEF LoseDose, SameBooks
  <2>2. GunsGoOn /\ SameSale
    BY <1>3, <2>1, SameGunsLast, LastingGuns DEF SameSale
  <2>3. Registers' /\ BilledOver' /\ ReportOK' /\ SaleHeld'
    BY <1>2, <2>1, <2>2, BooksKeep DEF Stance
  <2>4. DoseOut'
    <3>1. \A g \in Gun : Due(g)' <=> Due(g)
      BY <2>1, <1>3 DEF Due
    <3> QED BY <1>1, <1>3, <2>1, <3>1 DEF Stance, SalesInv, DoseOut
  <2>5. left.retains => fill[job.gun] = 0 \/ bill[fill[job.gun]] = <<>>
    <3>1. CASE job.retried
      BY <1>1, <1>5, <3>1 DEF NoKeypad
    <3>2. CASE ~job.retried /\ left.retains
      <4>1. TakesDose(pump[job.gun])
        BY <1>1, <1>5, <3>2 DEF NoKeypad, TakesDose
      <4>2. Pending = 1 /\ Load <= 1
        BY <1>1, <1>2, <1>7, <3>2, <4>1, DoseFills DEF Stance, SalesInv, Retaining
      <4>3. fills = 0
        <5>1. Asked \in Nat /\ fills \in Nat /\ left.named \in Nat /\ left.reactive \in Nat /\ left.keypad \in Nat
          BY Context, Numbers DEF Stance
        <5> HIDE DEF Asked, Pending
        <5> QED BY <4>2, <5>1 DEF Load
      <4> QED BY <1>1, <4>3 DEF HistoryOK, Fill
    <3> QED BY <3>1, <3>2
  <2>6. NoKeypad'
    BY <1>1, <1>2, <1>3, <1>5, <2>1, <2>5 DEF NoKeypad, LeftOn
  <2> QED BY <1>2, <1>3, <1>4, <2>3, <2>4, <2>6, RetainingKeeps DEF SalesInv, OneHand
<1> QED BY <1>6, <1>7

LEMMA DoseRefusedSale ==
    ASSUME Stance, DoseRefused
    PROVE  SalesInv'
<1> Shaped(lane) /\ lane \in LaneState /\ job \in Job /\ PumpOK
  BY LaneHolds
<1>1. /\ at = "dose" /\ ~job.retried /\ Memory /\ SameStore /\ UNCHANGED pump
      /\ lane.final = None /\ lane.status # "Done"
  BY DoseContext DEF DoseRefused, Memory, ghosts, SameStore
<1> DEFINE l == Cancelled(lane)
<1>2. Shaped(l) /\ l.tx = None /\ l.final = None /\ l \in LaneState
  BY CancelledShaped
<1>3. PollEnds(l)
  BY DEF DoseRefused
<1> HIDE DEF l
<1>4. LoopOK' /\ Becomes(l) /\ Ends(l)
  BY <1>2, <1>3, PollEndsEnds, EndsLoop
<1>5. SameBooks /\ LeftOn /\ QueueOn /\ GunsGoOn /\ left'.retains = left.retains
  BY <1>1, CalmStore, StillGuns DEF CalmPump, LeftOn
<1>6. \A g \in Gun : ~Due(g)
  BY <1>1 DEF Stance, SalesInv, DoseOut
<1>7. \A g \in Gun : fill[g] # 0 /\ bill[fill[g]] # <<>> => pump'[g].phase # "Final"
  BY <1>1 DEF Stance, SalesInv, BilledOver
<1>8. Registers' /\ BilledOver' /\ ReportOK' /\ SaleHeld'
  BY <1>1, <1>2, <1>4, <1>5, <1>6, <1>7, FreeBooks DEF Becomes
<1>9. DoseOut' /\ at' \notin {"price", "dose", "amount"} /\ ~job'.retried
  BY <1>4 DEF Ends, DoseOut
<1>10. OneHand'
  BY <1>1, <1>2, <1>4, <1>5, <1>9 DEF Stance, SalesInv, OneHand, NoLosses, NoKeypad, LeftOn, Becomes
<1> QED BY <1>4, <1>5, <1>8, <1>9, <1>10, RetainingKeeps DEF SalesInv

LEMMA DoseUnconfirmedSale ==
    ASSUME Stance, DoseUnconfirmed
    PROVE  SalesInv'
<1> Shaped(lane) /\ lane \in LaneState /\ job \in Job /\ PumpOK
  BY LaneHolds
<1>1. /\ at = "dose" /\ job.retried /\ Memory /\ SameStore /\ UNCHANGED pump
  BY DEF DoseUnconfirmed, Memory, ghosts, SameStore
<1> DEFINE l == CancelApplied(lane)
<1>2. Holds(l) /\ Ends(l)
  BY CancelAppliedHolds, CancelLeaves DEF DoseUnconfirmed
<1> HIDE DEF l
<1>3. LoopOK' /\ Becomes(l)
  BY <1>2, EndsLoop DEF Holds
<1>4. SameBooks /\ LeftOn /\ QueueOn /\ GunsGoOn /\ left'.retains = left.retains
  BY <1>1, CalmStore, StillGuns DEF CalmPump, LeftOn
<1>5. SameSale
  BY <1>2, <1>3 DEF Holds, Becomes, SameSale
<1>6. Registers' /\ BilledOver' /\ ReportOK' /\ SaleHeld'
  BY <1>4, <1>5, BooksKeep, LaneHolds DEF Stance
<1>7. DoseOut' /\ at' \notin {"price", "dose", "amount"} /\ ~job'.retried
  BY <1>2 DEF Ends, DoseOut
<1>8. NoKeypad
  BY <1>1 DEF Stance, SalesInv, OneHand, NoLosses
<1>9. NoKeypad'
  BY <1>1, <1>4, <1>5, <1>7, <1>8 DEF NoKeypad, LeftOn, SameSale, SameBooks
<1> QED BY <1>3, <1>4, <1>6, <1>7, <1>9, RetainingKeeps DEF SalesInv, OneHand

LEMMA KeypadFillsSale ==
    ASSUME Stance, NEW g \in Gun, KeypadFills(g)
    PROVE  SalesInv'
<1> Shaped(lane) /\ lane \in LaneState /\ job \in Job /\ Counted /\ PumpOK /\ HistoryOK /\ LoopOK
  BY LaneHolds
<1>1. /\ lane' = lane /\ UNCHANGED <<queue, bill, at, job>> /\ QueueOn /\ pump[g].phase = "Keypad"
      /\ NewFill(g, Unclaimed) /\ Spend("keypad") /\ left.keypad > 0
      /\ pump' = [pump EXCEPT ![g] = GunDose(pump[g], None)]
  BY DEF KeypadFills, Happens, QueueOn, Spend
<1>2. LeftOn /\ left'.retains = left.retains
  BY <1>1, SpendOn DEF LeftOn
<1>3. NoLosses
  BY <1>1 DEF Stance, SalesInv, OneHand, NoKeypad
<1>4. fills < MaxFills
  <2>1. PICK a, s, p : a = Asked /\ s = fills /\ p = Pending
    OBVIOUS
  <2>2. PICK d, e, f : d = left.named /\ e = left.reactive /\ f = left.keypad
    OBVIOUS
  <2>3. /\ d \in Nat /\ e \in Nat /\ f \in Nat /\ f > 0 /\ a \in Nat /\ s \in Nat /\ MaxFills \in Nat
    <3>1. left.keypad > 0
      BY <1>1
    <3> QED BY <2>1, <2>2, <3>1, Numbers, Context, MaxFillsAssumption DEF Stance
  <2>4. p \in 0 .. 1
    BY <2>1 DEF Pending
  <2>5. s + p + a + d + e + f <= MaxFills
    BY Zenon, <2>1, <2>2, LaneHolds DEF Counted
  <2>6. s < MaxFills
    BY <2>3, <2>4, <2>5
  <2> QED BY <2>1, <2>6
<1>5. Due(g) => Remembered(fill[g])
  <2> SUFFICES ASSUME Due(g) PROVE Remembered(fill[g])
    OBVIOUS
  <2>1. lane.tx = g /\ g # None /\ (lane.final # None => lane.final.fill = fill[g])
    BY NoneIsNoGun DEF Stance, SalesInv, SaleHeld
  <2>2. at # "dose"
    BY <1>3 DEF NoLosses, Stance, SalesInv, DoseOut
  <2>3. lane.final # None
    BY <1>1, <1>3, <2>1, <2>2 DEF NoLosses, Off
  <2> QED BY <2>1, <2>3 DEF Remembered
<1>6. /\ Registers' /\ BilledOver' /\ ReportOK' /\ SaleHeld'
      /\ \A h \in Gun : h # g => pump'[h] = pump[h] /\ (Due(h)' => Due(h))
      /\ pump'[g].phase \in {"Armed", "Dispensing"} /\ ~Due(g)'
  BY <1>1, <1>2, <1>4, <1>5, FilledBooks
<1>7. LoopOK'
  BY <1>1 DEF LoopOK
<1>8. \A h \in Gun : Due(h)' => Due(h)
  BY <1>6
<1>9. DoseOut'
  BY <1>1, <1>3, <1>8 DEF DoseOut, NoLosses, Stance, SalesInv
<1>10. NoLosses'
  BY <1>1, <1>2, <1>3, <1>6 DEF NoLosses, LeftOn, Off, LaneState
<1> QED BY <1>1, <1>2, <1>6, <1>7, <1>9, <1>10, RetainingKeeps DEF SalesInv, OneHand

----------------------------------------------------------------------------
(* A crash takes the lane and what it knew: the fills become nobody's. *)

LEMMA CrashSale ==
    ASSUME Stance, Crash
    PROVE  SalesInv'
<1> /\ PumpOK /\ HistoryOK /\ Counted /\ Registers /\ BilledOver
  BY LaneHolds DEF Stance, SalesInv
<1>1. /\ lane' = FreshLane /\ queue' = <<>> /\ at' = "rest" /\ cleared' = {} /\ Spend("crashes")
      /\ claim' = [f \in Fill |-> Unclaimed] /\ UNCHANGED <<pump, bill, fill, fills>>
  BY DEF Crash, Rest, Goto
<1>2. job' = NoJob
  BY DEF Crash, Rest, Goto
<1>3. LeftOn /\ left.crashes # 0
  <2>1. left.crashes \in Nat /\ left.crashes > 0
    BY <1>1, CountIsNat DEF Spend
  <2> QED BY <1>1, <2>1, SpendOn
<1>4. ~left.retains /\ ~left'.retains
  BY <1>3 DEF LeftOn, Stance, SalesInv, Retaining
<1>5. FreshLane.tx = None /\ FreshLane.final = None /\ Shaped(FreshLane)
  BY DEF FreshLane, Shaped
<1>6. LoopOK'
  BY <1>1, <1>5 DEF LoopOK
<1>7. Registers'
  BY <1>1 DEF Registers
<1>8. BilledOver'
  BY <1>1, <1>4 DEF BilledOver
<1>9. ReportOK'
  BY <1>1, <1>5 DEF ReportOK
<1>10. SaleHeld'
  <2>1. ASSUME NEW g \in Gun PROVE ~Due(g)'
    <3>1. fill[g] # 0 => fill[g] \in Fill
      BY DEF HistoryOK
    <3> QED BY <1>1, <3>1 DEF Due
  <2> QED BY <1>1, <2>1 DEF SaleHeld
<1>11. DoseOut'
  BY <1>1 DEF DoseOut
<1>12. OneHand'
  BY <1>1, <1>2, <1>3, <1>5 DEF Stance, SalesInv, OneHand, NoLosses, NoKeypad, LeftOn, NoJob
<1>13. Retaining'
  BY <1>4 DEF Retaining
<1> QED BY <1>6, <1>7, <1>8, <1>9, <1>10, <1>11, <1>12, <1>13 DEF SalesInv

----------------------------------------------------------------------------
(* Commands. *)

LEMMA DequeuedOn ==
    ASSUME Stance, NEW kind, Dequeued(kind)
    PROVE  /\ SameBooks /\ LeftOn /\ QueueOn /\ CalmPump /\ at = "rest"
           /\ kind = "reset" => ~left.retains
<1> PumpOK /\ QueueOK
  BY LaneHolds DEF Stance, OrdersInv, Parts
<1>1. /\ at = "rest" /\ queue # <<>> /\ queue' = Tail(queue) /\ Head(queue).kind = kind
      /\ UNCHANGED <<pump, bill, fill, fills, claim, cleared, left>>
  BY DEF Dequeued
<1>2. queue \in Seq(Command) /\ 1 \in DOMAIN queue /\ queue[1].kind = kind
  BY <1>1 DEF QueueOK
<1>3. ASSUME NEW i \in DOMAIN queue' PROVE i + 1 \in DOMAIN queue /\ queue'[i] = queue[i + 1]
  BY <1>1, <1>2
<1>4. QueueOn
  BY <1>3 DEF QueueOn
<1>5. kind = "reset" => ~left.retains
  BY <1>2 DEF Stance, SalesInv, Retaining
<1> QED BY <1>1, <1>4, <1>5, StillGuns DEF SameBooks, LeftOn

LEMMA RestEnds ==
    ASSUME NEW l, lane' = l, Rest
    PROVE  Ends(l)
BY DEF Ends, Rest, Goto, NoJob

LEMMA OrderCommandSale ==
    ASSUME Stance, NEW dose \in Dose, OrderCommand(dose)
    PROVE  SalesInv'
<1> /\ Holds(lane) /\ lane \in LaneState /\ QueueOK /\ HistoryOK
  BY LaneHolds DEF Stance, OrdersInv, Parts
<1>1. SameBooks /\ LeftOn /\ QueueOn /\ CalmPump /\ at = "rest" /\ Dequeued("order") /\ Rest
  BY DequeuedOn DEF OrderCommand
<1>2. CASE ~CanReserve(lane)
  <2>1. lane' = lane
    BY <1>2 DEF OrderCommand
  <2> QED BY <1>1, <2>1, RestEnds, EndingSale
<1>3. CASE CanReserve(lane)
  <2> DEFINE g == IF Head(queue).gun # None THEN Head(queue).gun
                  ELSE IF lane.nozzle # None THEN lane.nozzle ELSE First(Gun)
             l == Reserved(lane, g, dose, Len(orders) + 1)
  <2>1. lane' = l
    BY <1>3 DEF OrderCommand
  <2>2. lane.tx = None /\ lane.final = None /\ lane.status # "Done"
    BY <1>3 DEF CanReserve, Unowned
  <2>3. g \in Gun
    <3>1. queue # <<>> /\ queue \in Seq(Command)
      BY <1>1 DEF Dequeued, QueueOK
    <3>2. Head(queue) \in Command
      BY <3>1
    <3>3. First(Gun) \in Gun
      BY GunAssumption, FirstInSet
    <3> QED BY <3>2, <3>3 DEF Command, LaneState
  <2> HIDE DEF g
  <2>4. Shaped(l) /\ l.tx = None /\ l.final = None /\ l.status # "Done"
    BY <2>2, <2>3, ReservedShaped
  <2> HIDE DEF l
  <2>5. lane' \in LaneState
    BY DEF Stance, OrdersInv, Parts, SideOK
  <2>6. Holds(l)
    BY <2>1, <2>2, <2>4, <2>5 DEF Holds
  <2> QED BY <1>1, <2>1, <2>6, RestEnds, EndingSale
<1> QED BY <1>2, <1>3

LEMMA StopCommandSale ==
    ASSUME Stance, StopCommand
    PROVE  SalesInv'
<1> job \in Job
  BY LaneHolds
<1> DEFINE l == CancelApplied(lane)
<1>1. /\ SameBooks /\ LeftOn /\ QueueOn /\ CalmPump /\ at = "rest" /\ Holds(l)
  BY DequeuedOn, CancelAppliedHolds DEF StopCommand
<1>2. StopThen(l, "leave", Rest)
  BY DEF StopCommand
<1> HIDE DEF l
<1>3. Ends(l)
  <2>1. CASE StopDue(l)
    BY <1>2, <2>1, StopEnds DEF StopThen, Goto
  <2>2. CASE ~StopDue(l)
    BY <1>2, <2>2, RestEnds DEF StopThen
  <2> QED BY <2>1, <2>2
<1> QED BY <1>1, <1>3, EndingSale

LEMMA EStopCommandSale ==
    ASSUME Stance, EStopCommand
    PROVE  SalesInv'
<1> DEFINE active == IF lane.started \/ lane.tx # None THEN lane.wire ELSE None
           others == Gun \ {active}
           l == CancelApplied(lane)
<1>1. /\ SameBooks /\ LeftOn /\ QueueOn /\ CalmPump /\ at = "rest" /\ Holds(l)
  BY DequeuedOn, CancelAppliedHolds DEF EStopCommand
<1>2. IF StopDue(l)
      THEN /\ lane' = [l EXCEPT !.paced = TRUE]
           /\ Goto("stop", [NoJob EXCEPT !.gun = l.wire, !.todo = others, !.next = "each"])
      ELSE /\ lane' = l
           /\ IF others = {} THEN Rest
              ELSE Goto("each", [NoJob EXCEPT !.gun = First(others),
                                              !.todo = others \ {First(others)}])
  BY DEF EStopCommand
<1> HIDE DEF l, others
<1>3. CASE StopDue(l)
  <2>1. /\ lane' = [l EXCEPT !.paced = TRUE] /\ at' = "stop"
        /\ job' = [NoJob EXCEPT !.gun = l.wire, !.todo = others, !.next = "each"]
    BY <1>2, <1>3 DEF Goto
  <2>2. job'.gun = l.wire /\ ~job'.retried
    BY <2>1 DEF NoJob
  <2>3. Ends(l)
    BY <1>3, <2>1, <2>2 DEF Ends, StopDue
  <2> QED BY <1>1, <2>3, EndingSale
<1>4. CASE ~StopDue(l) /\ others = {}
  BY <1>1, <1>2, <1>4, RestEnds, EndingSale
<1>5. CASE ~StopDue(l) /\ others # {}
  <2>1. /\ lane' = l /\ at' = "each"
        /\ job' = [NoJob EXCEPT !.gun = First(others), !.todo = others \ {First(others)}]
    BY <1>2, <1>5 DEF Goto
  <2>2. ~job'.retried
    BY <2>1 DEF NoJob
  <2>3. LoopOK' /\ Becomes(l) /\ Moves
    BY <1>1, <2>1, <2>2 DEF LoopOK, Becomes, Moves, Holds
  <2> QED BY <1>1, <2>3, HoldingSale
<1> QED BY <1>3, <1>4, <1>5

LEMMA ResetCommandSale ==
    ASSUME Stance, ResetCommand
    PROVE  SalesInv'
<1> Holds(lane) /\ lane \in LaneState
  BY LaneHolds
<1>1. /\ SameBooks /\ LeftOn /\ QueueOn /\ CalmPump /\ at = "rest" /\ ~left.retains /\ Rest
  BY DequeuedOn DEF ResetCommand
<1>2. CASE ~Unowned(lane)
  <2>1. lane' = lane
    BY <1>2 DEF ResetCommand
  <2> QED BY <1>1, <2>1, RestEnds, EndingSale
<1>3. CASE Unowned(lane)
  <2> DEFINE k == [lane EXCEPT !.status = "Idle", !.nozzle = None]
             l == Cleared(k)
  <2>1. k \in LaneState /\ k.tx = lane.tx /\ k.status = "Idle"
    BY DEF LaneState
  <2>2. lane' = l
    BY <1>3 DEF ResetCommand
  <2>3. lane.tx = None /\ lane.final = None
    BY <1>3 DEF Unowned
  <2> HIDE DEF k
  <2>4. /\ l \in LaneState /\ ~l.started /\ ~l.stop /\ l.final = None /\ l.tx = None
        /\ l.status = "Idle"
    <3>1. l.status = k.status
      BY <2>1 DEF Cleared, LaneState
    <3> QED BY <2>1, <2>3, <3>1, ClearedLane
  <2> HIDE DEF l
  <2>5. Holds(l)
    BY <1>1, <2>3, <2>4 DEF Holds, Shaped
  <2> QED BY <1>1, <2>2, <2>5, RestEnds, EndingSale
<1> QED BY <1>2, <1>3

----------------------------------------------------------------------------
(* Steps that leave the loop where it is, and the sale of the lane. *)

LEMMA StayingSale ==
    ASSUME Stance, SameBooks, LeftOn, QueueOn, CalmPump, Stays, Becomes(lane)
    PROVE  SalesInv'
<1> LoopOK
  BY LaneHolds
<1>1. LoopOK' /\ SameSale
  BY DEF LoopOK, Stays, Becomes, SameSale
<1> QED BY <1>1, CalmSaleKeeps DEF CalmSale, CalmPump

LEMMA SameLane ==
    ASSUME Stance, lane' = lane
    PROVE  Becomes(lane)
BY LaneHolds DEF Becomes

LEMMA SameTask ==
    ASSUME UNCHANGED <<pump, at, job>>
    PROVE  Stays
<1> pump' = pump /\ at' = at /\ job' = job
  OBVIOUS
<1>1. job'.gun = job.gun
  OBVIOUS
<1>2. pump'[job.gun] = pump[job.gun]
  OBVIOUS
<1> QED BY <1>1, <1>2 DEF Stays

LEMMA ElapseSale ==
    ASSUME Stance, Elapse
    PROVE  SalesInv'
<1> Shaped(lane) /\ lane \in LaneState /\ PumpOK
  BY LaneHolds
<1>1. /\ lane' = [lane EXCEPT !.paced = FALSE]
      /\ UNCHANGED <<pump, queue, at, job, bill, fill, fills, claim, cleared, left>>
  BY DEF Elapse, ghosts
<1>2. Becomes(lane)
  BY <1>1, MarkedShaped DEF Becomes
<1>3. SameBooks /\ LeftOn /\ QueueOn /\ CalmPump /\ Stays
  BY <1>1, StillGuns, SameTask DEF SameBooks, LeftOn, QueueOn
<1> QED BY <1>2, <1>3, StayingSale

LEMMA StopEachSale ==
    ASSUME Stance, NEW heard \in BOOLEAN, StopEach(heard)
    PROVE  SalesInv'
<1> /\ Holds(lane) /\ Shaped(lane) /\ lane \in LaneState /\ job \in Job /\ PumpOK /\ JobOK
  BY LaneHolds
<1>1. /\ at = "each" /\ lane' = lane /\ job.gun \in Gun /\ pump[job.gun] \in GunState
      /\ UNCHANGED <<queue, bill, fill, fills, claim, cleared, left>>
  BY DEF StopEach, ghosts, JobOK, PumpOK
<1> DEFINE p == IF heard THEN GunStop(pump[job.gun]) ELSE pump[job.gun]
<1>2. pump' = [pump EXCEPT ![job.gun] = p]
  <2>1. CASE heard
    BY <2>1 DEF StopEach
  <2>2. CASE ~heard
    BY <2>2 DEF StopEach, PumpOK
  <2> QED BY <2>1, <2>2
<1>3. Lasts(pump[job.gun], p) /\ (p.phase = "Keypad" => pump[job.gun].phase = "Keypad")
  BY <1>1, GunLasts
<1> HIDE DEF p
<1>4. GunsLast /\ GunsGoOn
  BY <1>1, <1>2, <1>3, OneGunLasts, LastingGuns
<1>5. \A g \in Gun : pump'[g] = IF g = job.gun THEN p ELSE pump[g]
  BY <1>2 DEF PumpOK
<1>6. CalmPump
  BY <1>3, <1>4, <1>5 DEF CalmPump, KeepsFlowing, GunsLast, Lasts, LaneState
<1>7. at' \in {"rest", "each"} /\ ~job'.retried
  <2>1. CASE job.todo = {}
    BY <2>1 DEF StopEach, Rest, Goto, NoJob
  <2>2. CASE job.todo # {}
    <3>1. at' = "each" /\ job' = [job EXCEPT !.gun = First(job.todo), !.retried = FALSE,
                                             !.todo = job.todo \ {First(job.todo)}]
      BY <2>2 DEF StopEach, Goto
    <3> QED BY <3>1 DEF Job
  <2> QED BY <2>1, <2>2
<1>8. LoopOK' /\ Becomes(lane) /\ Moves
  BY <1>1, <1>7, SameLane DEF LoopOK, Becomes, Moves
<1>9. SameBooks /\ LeftOn /\ QueueOn
  BY <1>1 DEF SameBooks, LeftOn, QueueOn
<1> QED BY <1>6, <1>8, <1>9, HoldingSale

LEMMA LoseExchangeSale ==
    ASSUME Stance, NEW arrived \in BOOLEAN, LoseExchange(arrived)
    PROVE  SalesInv'
<1> /\ Shaped(lane) /\ lane \in LaneState /\ job \in Job /\ PumpOK /\ JobOK /\ Counted
  BY LaneHolds
<1>1. /\ at \in {"status", "price", "amount", "stop", "each"} /\ at' = at
      /\ job' = [job EXCEPT !.retried = TRUE] /\ UNCHANGED <<lane, queue, bill, fill, fills, claim, cleared>>
      /\ Spent(arrived) /\ Request(job.gun, arrived)
  BY DEF LoseExchange, Goto, ghosts
<1>2. job'.gun = job.gun /\ job.gun \in Gun /\ pump[job.gun] \in GunState
  BY <1>1 DEF Job, JobOK, PumpOK
<1>3. LeftOn /\ left.losses # 0
  BY <1>1, SpentOn
<1>4. \A h \in Gun : GoesOn(pump[h], pump[h])
  BY GunLasts DEF PumpOK, Lasts
<1>5. CASE pump' = pump
  <2>1. CalmPump /\ Stays
    BY <1>1, <1>2, <1>3, <1>5, StillGuns DEF Stays
  <2> QED BY <1>1, <1>3, <2>1, SameLane, StayingSale DEF SameBooks, QueueOn
<1>6. ASSUME NEW p, pump' = [pump EXCEPT ![job.gun] = p], GoesOn(pump[job.gun], p),
             p.phase = "Keypad" => pump[job.gun].phase = "Keypad", at \in {"status", "stop", "each"}
      PROVE  SalesInv'
  <2>1. \A h \in Gun : pump'[h] = IF h = job.gun THEN p ELSE pump[h]
    BY <1>6 DEF PumpOK
  <2>2. CalmPump
    BY <1>2, <1>3, <1>4, <1>6, <2>1 DEF CalmPump, KeepsFlowing, GunsGoOn
  <2>3. Stays
    BY <1>1, <1>2, <1>3, <1>6 DEF Stays
  <2> QED BY <1>1, <1>3, <2>2, <2>3, SameLane, StayingSale DEF SameBooks, QueueOn
<1>7. CASE at = "status" /\ arrived
  <2>1. pump' = [pump EXCEPT ![job.gun] = GunTold(pump[job.gun])]
    BY <1>1, <1>7 DEF Request
  <2> QED BY <1>2, <1>6, <1>7, <2>1, GunToldOn
<1>8. CASE at \in {"stop", "each"} /\ arrived
  <2>1. pump' = [pump EXCEPT ![job.gun] = GunStop(pump[job.gun])]
    BY <1>1, <1>8 DEF Request
  <2>2. GoesOn(pump[job.gun], GunStop(pump[job.gun]))
    BY <1>2, GunLasts DEF Lasts
  <2> QED BY <1>2, <1>6, <1>8, <2>1, <2>2, GunLasts
<1>9. CASE ~(at = "status" /\ arrived) /\ ~(at \in {"stop", "each"} /\ arrived)
  <2>1. pump' = pump
    BY <1>1, <1>9 DEF Request
  <2> QED BY <1>5, <2>1
<1> QED BY <1>7, <1>8, <1>9

----------------------------------------------------------------------------
(* Customers. *)

LEMMA CustomerSale ==
    ASSUME Stance, NEW g \in Gun, NEW p, Happens(g, p), UNCHANGED <<fill, fills, claim, cleared>>,
           LeftOn, Lasts(pump[g], p),
           p.phase = "Keypad" => pump[g].phase = "Keypad" \/ left.keypad # 0,
           pump[g].phase = "Idle" => p.phase = "Idle" \/ left.keypad # 0
    PROVE  SalesInv'
<1> PumpOK /\ lane \in LaneState /\ JobOK
  BY LaneHolds
<1>1. pump' = [pump EXCEPT ![g] = p] /\ UNCHANGED <<lane, queue, at, job, bill>>
  BY DEF Happens
<1>2. GunsLast /\ GunsGoOn
  BY <1>1, OneGunLasts, LastingGuns
<1>3. \A h \in Gun : pump'[h] = IF h = g THEN p ELSE pump[h]
  BY <1>1 DEF PumpOK
<1>4. CalmPump
  BY <1>2, <1>3 DEF CalmPump, KeepsFlowing, GunsLast, Lasts, LaneState
<1>5. Stays
  <2>1. at' = at /\ job' = job /\ job'.gun = job.gun
    BY <1>1
  <2>2. ASSUME at \in {"price", "dose", "amount"}
        PROVE  /\ pump'[job.gun].phase = "Idle" => pump[job.gun].phase = "Idle"
               /\ pump[job.gun].phase = "Idle" => pump'[job.gun].phase = "Idle" \/ left.keypad # 0
    <3>1. job.gun \in Gun
      BY <2>2 DEF JobOK
    <3> QED BY <1>2, <1>3, <3>1 DEF GunsLast, Lasts
  <2> QED BY <2>1, <2>2 DEF Stays
<1> QED BY <1>1, <1>4, <1>5, SameLane, StayingSale DEF SameBooks, QueueOn

LEMMA CustomersSale ==
    ASSUME Stance, NEW g \in Gun,
           \/ CustomerLifts(g) \/ CustomerHolsters(g) \/ FuelFlows(g) \/ FuelCreeps(g)
           \/ Pause(g) \/ KeypadBegins(g)
    PROVE  SalesInv'
<1> PumpOK /\ Counted
  BY LaneHolds
<1> DEFINE q == pump[g]
<1>1. q \in GunState
  BY DEF PumpOK
<1>2. UNCHANGED left => LeftOn
  BY LeftSame
<1>3. CASE CustomerLifts(g)
  <2>1. GunLift(q).phase = "Keypad" => q.phase = "Keypad"
    BY <1>1, GunLasts
  <2>2. q.phase = "Idle" => GunLift(q).phase = "Idle"
    BY <1>1 DEF GunLift, GunState
  <2> QED BY <1>1, <1>2, <1>3, <2>1, <2>2, GunLasts, CustomerSale DEF CustomerLifts
<1>4. CASE CustomerHolsters(g)
  <2>1. GunHolster(q).phase = "Keypad" => q.phase = "Keypad"
    BY <1>1, GunLasts
  <2>2. q.phase = "Idle" => GunHolster(q).phase = "Idle"
    BY <1>1 DEF GunHolster, Filling, GunState
  <2> QED BY <1>1, <1>2, <1>4, <2>1, <2>2, GunLasts, CustomerSale DEF CustomerHolsters
<1>5. CASE FuelFlows(g)
  <2>1. q.phase = "Dispensing" /\ q.volume < MaxVolume /\ Happens(g, GunFlow(q))
    BY <1>5 DEF FuelFlows
  <2>2. Lasts(q, GunFlow(q)) /\ GunFlow(q).phase # "Keypad"
    BY <1>1, <2>1, GunFlowsOn
  <2> QED BY <1>2, <1>5, <2>1, <2>2, CustomerSale DEF FuelFlows
<1>6. CASE FuelCreeps(g)
  <2> DEFINE p == [q EXCEPT !.volume = @ + 1]
  <2>1. q.phase = "Synchronizing" /\ q.volume < MaxVolume /\ Happens(g, p)
    BY <1>6 DEF FuelCreeps
  <2>2. Lasts(q, p) /\ p.phase = q.phase
    BY <1>1, <2>1, GunFlowsOn DEF GunState
  <2> HIDE DEF p
  <2> QED BY <1>2, <1>6, <2>1, <2>2, CustomerSale DEF FuelCreeps
<1>7. CASE Pause(g)
  <2> DEFINE p == [q EXCEPT !.paused = TRUE]
  <2>1. Happens(g, p) /\ Spend("pauses") /\ UNCHANGED <<fill, fills, claim, cleared>>
    BY <1>7 DEF Pause
  <2>2. Lasts(q, p) /\ p.phase = q.phase
    BY <1>1, GunLasts DEF GunState
  <2> HIDE DEF p
  <2> QED BY <2>1, <2>2, SpendOn, CustomerSale
<1>8. CASE KeypadBegins(g)
  <2> DEFINE p == [q EXCEPT !.phase = "Keypad"]
  <2>1. Happens(g, p) /\ q.phase = "Idle" /\ left.keypad # 0 /\ UNCHANGED <<fill, fills, claim, cleared, left>>
    <3>1. left.keypad > 0
      BY <1>8 DEF KeypadBegins
    <3> QED BY <1>8, <3>1 DEF KeypadBegins
  <2>2. Lasts(q, p)
    BY <1>1, <2>1, GunLasts
  <2> HIDE DEF p
  <2> QED BY <1>2, <2>1, <2>2, CustomerSale
<1> QED BY <1>3, <1>4, <1>5, <1>6, <1>7, <1>8

----------------------------------------------------------------------------
(* The routes. *)

LEMMA EnqueueOn ==
    ASSUME Stance, NEW c, Enqueue(c), c.kind = "reset" => left.resets # 0
    PROVE  QueueOn
<1> queue \in Seq(Command)
  BY DEF Stance, OrdersInv, Parts, QueueOK
<1>1. queue' = Append(queue, c)
  BY DEF Enqueue
<1>2. ASSUME NEW i \in DOMAIN queue' PROVE (i \in DOMAIN queue /\ queue'[i] = queue[i]) \/ queue'[i] = c
  BY <1>1
<1> QED BY <1>2 DEF QueueOn

LEMMA RouteSale ==
    ASSUME Stance, RouteStep
    PROVE  SalesInv'
<1> Shaped(lane) /\ lane \in LaneState /\ PumpOK /\ Counted
  BY LaneHolds
<1>1. /\ UNCHANGED <<pump, at, job, bill, fill, fills, claim, cleared>>
      /\ lane' = lane \/ lane' = [lane EXCEPT !.cancel = TRUE]
  BY DEF RouteStep, RequestOrder, RequestCancel, RequestStop, RequestEStop, RequestReset, Outside, Flagged
<1>2. PICK what \in {"named", "reactive", "stops", "estops", "resets"} :
          \E c : Spend(what) /\ Enqueue(c) /\ (c.kind = "reset" => what = "resets")
  <2>1. CASE \E g \in Gun : RequestOrder(g)
    <3>1. PICK g \in Gun : RequestOrder(g)
      BY <2>1
    <3>2. \/ Spend("named") /\ Enqueue([kind |-> "order", gun |-> g, for |-> g])
          \/ Spend("reactive") /\ Enqueue([kind |-> "order", gun |-> None, for |-> g])
      BY <3>1 DEF RequestOrder
    <3> QED BY <3>2
  <2>2. CASE RequestCancel \/ RequestStop
    BY <2>2 DEF RequestCancel, RequestStop, Plain
  <2>3. CASE RequestEStop
    BY <2>3 DEF RequestEStop, Plain
  <2>4. CASE RequestReset
    BY <2>4 DEF RequestReset, Plain
  <2> QED BY <2>1, <2>2, <2>3, <2>4 DEF RouteStep
<1>3. PICK c : Spend(what) /\ Enqueue(c) /\ (c.kind = "reset" => what = "resets")
  BY <1>2
<1>4. LeftOn
  BY <1>3, SpendOn
<1>5. c.kind = "reset" => left.resets # 0
  <2>1. what = "resets" => left.resets > 0
    BY <1>3 DEF Spend
  <2> QED BY <1>3, <2>1
<1>6. QueueOn
  BY <1>3, <1>5, EnqueueOn
<1>7. Becomes(lane)
  BY <1>1, MarkedShaped DEF Becomes
<1>8. SameBooks /\ CalmPump /\ Stays
  BY <1>1, StillGuns, SameTask DEF SameBooks
<1> QED BY <1>4, <1>6, <1>7, <1>8, StayingSale

----------------------------------------------------------------------------
(* The invariant of the sales, and what it says. *)

(* The budgets it holds for: a keypad, or lost answers; and at a dispenser     *)
(* that retains its last sale no step that makes the side forget that the sale *)
(* is billed: no reset, no crash, and only one start where one may be lost.    *)
KnownEnds ==
    \A b \in Budgets :
        /\ b.keypad = 0 \/ b.losses = 0
        /\ b.retains => /\ b.resets = 0 /\ b.crashes = 0
                        /\ b.deaf = 0 \/ b.named + b.reactive + b.keypad <= 1

LEMMA SalesInit == KnownEnds /\ Init => SalesInv
<1> SUFFICES ASSUME KnownEnds, Init PROVE SalesInv
  OBVIOUS
<1>1. /\ at = "rest" /\ job = NoJob /\ queue = <<>> /\ lane = FreshLane /\ cleared = {}
      /\ fills = 0 /\ left \in Budgets
      /\ \A g \in Gun : fill[g] = 0 /\ pump[g].phase = "Idle"
      /\ \A f \in Fill : bill[f] = <<>> /\ claim[f] = Unclaimed
  BY DEF Init, GunReset
<1>2. lane.tx = None /\ lane.final = None /\ Shaped(lane)
  BY <1>1 DEF FreshLane, Shaped
<1>3. LoopOK /\ DoseOut
  BY <1>1, <1>2 DEF LoopOK, DoseOut
<1>4. Registers
  BY <1>1 DEF Registers, Off
<1>5. BilledOver
  <2>1. \A f \in Fill : Len(bill[f]) <= 1
    <3>1. Len(<<>>) <= 1
      OBVIOUS
    <3> QED BY <1>1, <3>1
  <2> QED BY <1>1, <2>1 DEF BilledOver
<1>6. ReportOK /\ SaleHeld
  BY <1>1, <1>2 DEF ReportOK, SaleHeld, Due
<1>7. left.keypad = 0 \/ left.losses = 0
  BY <1>1 DEF KnownEnds
<1>8. OneHand
  BY <1>1, <1>2, <1>7 DEF OneHand, NoLosses, NoKeypad, NoJob
<1>9. Retaining
  <2>1. \A i \in DOMAIN queue : queue[i].kind # "reset"
    BY <1>1
  <2>2. left.retains => left.resets = 0 /\ left.crashes = 0
    BY <1>1 DEF KnownEnds
  <2>3. ASSUME left.retains, left.deaf > 0 PROVE Load <= 1
    <3>1. left.named + left.reactive + left.keypad <= 1
      BY <1>1, <2>3 DEF KnownEnds
    <3>2. left \in Budget
      BY <1>1, BudgetsAssumption
    <3>3. Asked = 0 /\ Pending = 0
      BY <1>1, NothingAsked DEF Asked, Pending, FreshLane
    <3>4. PICK d, e, f : d = left.named /\ e = left.reactive /\ f = left.keypad
      OBVIOUS
    <3>5. d \in Nat /\ e \in Nat /\ f \in Nat /\ d + e + f <= 1
      BY <3>1, <3>2, <3>4 DEF Budget
    <3>6. 0 + 0 + 0 + d + e + f <= 1
      BY <3>5
    <3> QED BY Zenon, <1>1, <3>3, <3>4, <3>6 DEF Load
  <2> QED BY <2>1, <2>2, <2>3 DEF Retaining
<1> QED BY <1>3, <1>4, <1>5, <1>6, <1>8, <1>9 DEF SalesInv

LEMMA SalesStep == OrdersInv /\ SalesInv /\ [Next]_vars => SalesInv'
<1> SUFFICES ASSUME OrdersInv, SalesInv, [Next]_vars PROVE SalesInv'
  OBVIOUS
<1> Stance
  BY OrdersStep DEF Stance
<1>1. ASSUME PollStep PROVE SalesInv'
  BY <1>1, DrainedSale, BeginPollSale, StatusMissedSale, StatusFinalSale, StatusWrongLiftSale,
     StatusOtherSale, StatusForeignSale, StatusDispensingSale, StatusSynchronizingSale,
     StatusKeypadSale, StatusIdleSale, StatusReservedSale, AmountInfoSale, CommitSaleSale,
     CommitFailsSale DEF PollStep
<1>2. ASSUME StartStep PROVE SalesInv'
  BY <1>2, PriceWrittenSale, DoseTakenSale, DoseRefusedSale, DoseUnconfirmedSale DEF StartStep
<1>3. ASSUME StopStep PROVE SalesInv'
  BY <1>3, StopWireSale, StopEachSale, ElapseSale DEF StopStep
<1>4. ASSUME CommandStep PROVE SalesInv'
  BY <1>4, OrderCommandSale, StopCommandSale, EStopCommandSale, ResetCommandSale DEF CommandStep
<1>5. ASSUME PumpStep PROVE SalesInv'
  BY <1>5, CustomersSale, KeypadFillsSale DEF PumpStep
<1>6. ASSUME WireFails PROVE SalesInv'
  BY <1>6, LoseExchangeSale, LoseDoseSale DEF WireFails
<1>7. ASSUME UNCHANGED vars PROVE SalesInv'
  <2>1. UNCHANGED <<pump, lane, queue, at, job, bill, fill, fills, claim, orders, cleared, left>>
    BY <1>7 DEF vars, ghosts
  <2>2. lane' = lane /\ SameBooks /\ LeftOn /\ QueueOn
    BY <2>1 DEF SameBooks, LeftOn, QueueOn
  <2>3. CalmPump /\ Stays
    BY <2>1, LaneHolds, StillGuns, SameTask
  <2> QED BY <2>2, <2>3, SameLane, StayingSale
<1> QED BY <1>1, <1>2, <1>3, <1>4, <1>5, <1>6, <1>7, RouteSale, CrashSale DEF Next

LEMMA SalesAlways == KnownEnds /\ Spec => [](OrdersInv /\ SalesInv)
<1> DEFINE I == OrdersInv /\ SalesInv
<1>1. KnownEnds /\ Init => I
  BY OrdersInit, SalesInit
<1>2. I /\ [Next]_vars => I'
  BY OrdersStep, SalesStep
<1> QED BY <1>1, <1>2, PTL DEF Spec

(* A fill the driver started or adopted is the sale of its side, or its report *)
(* is in memory, until it is billed; there is one at most.                     *)
THEOREM ShelfSalesKept == KnownEnds /\ Spec => []SaleKept
<1>1. OrdersInv /\ SalesInv => SaleKept
  <2> SUFFICES ASSUME OrdersInv, SalesInv PROVE SaleKept
    OBVIOUS
  <2>1. ASSUME NEW g \in Gun, Open(g) PROVE lane.tx = g
    BY <2>1 DEF Open, SalesInv, SaleHeld, Due
  <2>2. \A f \in cleared : bill[f] # <<>> \/ Remembered(f)
    BY DEF SalesInv, SaleHeld
  <2>3. {g \in Gun : Open(g)} \subseteq {lane.tx}
    BY <2>1
  <2>4. Cardinality({g \in Gun : Open(g)}) <= 1
    <3>1. IsFiniteSet({lane.tx}) /\ Cardinality({lane.tx}) = 1
      BY FS_Singleton
    <3>2. Cardinality({g \in Gun : Open(g)}) <= Cardinality({lane.tx})
      BY <2>3, <3>1, FS_Subset
    <3> QED BY <3>1, <3>2
  <2> QED BY <2>1, <2>2, <2>4 DEF SaleKept
<1> QED BY <1>1, SalesAlways, PTL

(* No fill is billed twice: not from a final report that is told again after a *)
(* stop, and not from the last sale a dispenser retains.                       *)
THEOREM ShelfBillsOnce == KnownEnds /\ Spec => []BilledOnce
<1>1. OrdersInv /\ SalesInv => BilledOnce
  BY DEF SalesInv, BilledOver, BilledOnce
<1> QED BY <1>1, SalesAlways, PTL

(* What is billed is all that flowed, at the gun it flowed from, and no fuel   *)
(* flows for it any more.                                                      *)
THEOREM ShelfBillsFinal == KnownEnds /\ Spec => []BilledFinal
<1>1. OrdersInv /\ SalesInv => BilledFinal
  <2> SUFFICES ASSUME OrdersInv, SalesInv, NEW g \in Gun, fill[g] # 0, NEW i \in DOMAIN bill[fill[g]]
               PROVE  /\ bill[fill[g]][i] = [volume |-> pump[g].volume, gun |-> g]
                      /\ ~Filling(pump[g])
    BY DEF BilledFinal
  <2>1. fill[g] \in Fill /\ bill[fill[g]] \in Seq(Row)
    BY DEF OrdersInv, Parts, HistoryOK, BillsOK
  <2>2. Len(bill[fill[g]]) <= 1
    BY <2>1 DEF SalesInv, BilledOver
  <2>3. i = 1 /\ bill[fill[g]] # <<>>
    BY <2>1, <2>2
  <2>4. /\ bill[fill[g]][1] = [volume |-> pump[g].volume, gun |-> g] /\ pump[g].phase \in Over
    BY <2>3 DEF SalesInv, BilledOver
  <2> QED BY <2>3, <2>4 DEF Over, Off, Filling
<1> QED BY <1>1, SalesAlways, PTL
=============================================================================
