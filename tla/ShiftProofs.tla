---------------------------- MODULE ShiftProofs ----------------------------
(***************************************************************************)
(* The totals of the shift desk, for any number of requests, shifts and    *)
(* sales: whatever interleaving of starts, handovers, backdated counts,    *)
(* pauses and sale commits came before, with nothing in progress the total *)
(* of every shift is the number of its sales but for paused ones that no   *)
(* lane has closed, unless a count went out of date or a paused sale went  *)
(* astray.                                                                 *)
(* With one request at a time, the copy in memory is the open shift.       *)
(***************************************************************************)
EXTENDS ShiftDesk, FiniteSetTheorems, TLAPS

----------------------------------------------------------------------------
(* The parts of the invariant. *)

Taken == {s \in ShiftId : row[s].status # "none"}
Known == {0} \cup Taken
Begun == {n \in SaleNo : sale[n].stage # "none"}

(* Shifts and sales are numbered as they come. *)
TablesOK ==
    /\ row \in [ShiftId -> ShiftRow] /\ Taken = 1 .. Opened
    /\ sale \in [SaleNo -> SaleState] /\ Begun = 1 .. Started
    /\ \A n \in SaleNo : sale[n].shift \in Known
    /\ \A n \in SaleNo : sale[n].unpaid => sale[n].stage \in InTable
    /\ active.shift \in Known

(* A step carries all of its locals. *)
Whole(r) ==
    r = [at |-> r.at, shift |-> r.shift, next |-> r.next, since |-> r.since,
         began |-> r.began, count |-> r.count, over |-> r.over, sale |-> r.sale,
         tell |-> r.tell, seen |-> r.seen, then |-> r.then]

Moving == {"countMove", "move", "take", "give"}
Named == Moving \cup {"count", "assign", "credit", "load", "publish", "reload", "republish"}
CallerPlaces ==
    Named \cup {"idle", "insert", "close", "clear", "check", "read", "send", "tellStopped"}

(* Where a process stands, past the shifts it is telling. *)
Beyond(p) == IF step[p].at \in {"read", "send"} THEN step[p].then ELSE step[p].at

(* A request that moves sales has another shift to move them to. *)
CallerOK(c) ==
    /\ step[c].at \in CallerPlaces
    /\ step[c].then \in {"idle", "load", "count", "clear", "reload"}
    /\ step[c].shift \in Known /\ step[c].next \in Known
    /\ step[c].next = step[c].shift => step[c].next = 0
    /\ step[c].since \in Nat /\ step[c].began \in Nat /\ step[c].count \in Nat
    /\ step[c].at = "idle" => step[c] = Idle
    /\ step[c].over \/ step[c].at = "close" => step[c].shift \in Taken
    /\ step[c].at \in Moving => step[c].over
    /\ Beyond(c) \in Named => step[c].next \in Taken
    /\ step[c].at \in {"publish", "republish"} => \A x \in step[c].seen : x.id = step[c].next

(* The operator may close a paused sale that the loop is about to close. *)
LoopOK ==
    /\ step[Loop].at \in {"idle", "pause", "persist", "tellSale", "bump", "mirror", "read", "send"}
    /\ step[Loop].then \in {"idle", "mirror"}
    /\ step[Loop].shift \in Known
    /\ step[Loop].at \in {"pause", "persist", "tellSale", "bump"} => step[Loop].sale \in SaleNo
    /\ step[Loop].at = "pause" => sale[step[Loop].sale].stage = "open"
    /\ step[Loop].at = "persist" => sale[step[Loop].sale].stage \in {"open", "paused", "booked"}
    /\ step[Loop].at \in {"tellSale", "bump"} => sale[step[Loop].sale].stage \in {"booked", "stopped"}

StepsOK ==
    /\ step = [p \in Process |-> step[p]]
    /\ \A p \in Process : Whole(step[p])
    /\ \A c \in Caller : CallerOK(c)
    /\ LoopOK

(* Nobody else is between a count, or a sale, and its total. *)
Alone(p) == \A q \in Process \ {p} : ~Totalling(q)

(* What the step of a process still owes to the total of a shift: the credit of *)
(* a paused sale pays that sale.                                                *)
Owed(p, s) ==
    CASE p = Loop /\ step[p].at \in {"tellSale", "bump"} /\ step[p].shift = s
         /\ ~sale[step[p].sale].unpaid -> 1
      [] p # Loop /\ step[p].at \in {"credit", "take", "give"} /\ step[p].next = s -> step[p].count
      [] p # Loop /\ step[p].at = "take" /\ step[p].shift = s -> 0 - step[p].count
      [] OTHER -> 0

(* A count that is still to be used counts the sales that will be moved. *)
CountRight(p) ==
    /\ p # Loop /\ step[p].at = "assign" =>
           step[p].count = Cardinality(Since(0, step[p].since))
    /\ p # Loop /\ step[p].at = "move" =>
           step[p].count = Cardinality(Since(step[p].shift, step[p].since))

BalancedBy(p) ==
    /\ Alone(p) /\ CountRight(p)
    /\ \A s \in ShiftId : row[s].total + Owed(p, s) = Cardinality(Paid(s))

(* No count is out of date, and every paused sale is paid where its row is. *)
Clean == ~mixed /\ ~astray

Balanced == Clean => \E p \in Process : BalancedBy(p)

DeskInv == TablesOK /\ StepsOK /\ Balanced

----------------------------------------------------------------------------
(* What a step of one process leaves alone. *)

Only(p) ==
    /\ step' = [q \in Process |-> step'[q]]
    /\ \A q \in Process \ {p} : step'[q] = step[q]
    /\ Whole(step'[p])

(* A request at most closes a sale that was stopped. *)
StagesStand ==
    \A n \in SaleNo : \/ sale'[n].stage = sale[n].stage
                      \/ sale[n].stage \in {"paused", "stopped"} /\ sale'[n].stage = "booked"

(* The others stand where they stood if shifts stay and sales stay what they are. *)
LEMMA OthersStand ==
    ASSUME StepsOK, NEW p \in Process, Only(p), Taken \subseteq Taken',
           p \in Caller => CallerOK(p)', p = Loop => LoopOK',
           p # Loop => StagesStand
    PROVE  StepsOK'
<1>1. step' = [q \in Process |-> step'[q]]
  BY DEF Only
<1>2. ASSUME NEW q \in Process PROVE Whole(step'[q])
  BY DEF Only, StepsOK
<1>3. ASSUME NEW c \in Caller, c # p PROVE CallerOK(c)'
  <2>1. step'[c] = step[c] /\ CallerOK(c)
    BY <1>3 DEF Only, StepsOK, Process
  <2>2. Beyond(c)' = Beyond(c)
    BY <2>1 DEF Beyond
  <2> QED
    BY <2>1, <2>2 DEF CallerOK, Known
<1>4. ASSUME p # Loop PROVE LoopOK'
  <2>1. step'[Loop] = step[Loop] /\ LoopOK
    BY <1>4 DEF Only, StepsOK, Process
  <2> QED
    BY <2>1, <1>4 DEF LoopOK, Known, StagesStand
<1> QED
  BY <1>1, <1>2, <1>3, <1>4 DEF StepsOK

(* The sales of every shift and the totals are left alone. *)
SameBooks ==
    /\ \A s \in 0 .. MaxShifts : Booked(s)' = Booked(s) /\ Paid(s)' = Paid(s)
    /\ \A n \in SaleNo : sale'[n].unpaid <=> sale[n].unpaid
    /\ \A s \in ShiftId : row'[s].total = row[s].total

(* The step of another process owes what it owed. *)
LEMMA OthersTotal ==
    ASSUME NEW p \in Process, Only(p), NEW q \in Process \ {p}
    PROVE  Totalling(q)' = Totalling(q)
BY DEF Only, Totalling

LEMMA OthersOwe ==
    ASSUME StepsOK, NEW p \in Process, Only(p), NEW q \in Process \ {p}, SameBooks
    PROVE  \A s \in ShiftId : Owed(q, s)' = Owed(q, s)
<1>1. step'[q] = step[q]
  BY DEF Only
<1>2. CASE q = Loop
  <2>1. step[q].at \in {"tellSale", "bump"} => step[q].sale \in SaleNo
    BY <1>2 DEF StepsOK, LoopOK
  <2> QED
    BY <1>1, <1>2, <2>1 DEF Owed, SameBooks
<1>3. CASE q # Loop
  BY <1>1, <1>3 DEF Owed
<1> QED
  BY <1>2, <1>3

LEMMA Unowing ==
    ASSUME StepsOK, NEW p \in Process, ~Totalling(p)
    PROVE  CountRight(p) /\ \A s \in ShiftId : Owed(p, s) = 0
BY DEF Totalling, CountRight, Owed, Counting

(* While no count is out of date, the one that totals, if any, owes all that is owed. *)
LEMMA Owner ==
    ASSUME StepsOK, Balanced, Clean, NEW p \in Process, Totalling(p)
    PROVE  BalancedBy(p)
BY DEF Balanced, BalancedBy, Alone

LEMMA Takes ==
    ASSUME StepsOK, Balanced, Clean, NEW p \in Process, Alone(p)
    PROVE  BalancedBy(p)
<1>1. PICK o \in Process : BalancedBy(o)
  BY DEF Balanced
<1>2. CASE o = p
  BY <1>1, <1>2
<1>3. CASE o # p
  <2>1. ~Totalling(o)
    BY <1>3 DEF Alone
  <2>2. ~Totalling(p) \/ BalancedBy(p)
    BY Owner
  <2>3. ASSUME ~Totalling(p) PROVE BalancedBy(p)
    BY <1>1, <2>1, <2>3, Unowing DEF BalancedBy
  <2> QED
    BY <2>2, <2>3
<1> QED
  BY <1>2, <1>3

(* The totals after a step: the one that takes it is alone, and its debt is right. *)
LEMMA Settle ==
    ASSUME NEW p \in Process, Only(p),
           Clean' => /\ Alone(p) /\ CountRight(p)'
                     /\ \A s \in ShiftId : row'[s].total + Owed(p, s)' = Cardinality(Paid(s)')
    PROVE  Balanced'
<1> SUFFICES ASSUME Clean' PROVE BalancedBy(p)'
  BY DEF Balanced
<1>1. Alone(p)'
  BY OthersTotal DEF Alone
<1> QED
  BY <1>1 DEF BalancedBy

(* A step that totals nothing, and leaves its process owing what it owed. *)
LEMMA Calm ==
    ASSUME TablesOK, StepsOK, Balanced, NEW p \in Process, Only(p), SameBooks,
           Clean' => Clean, Totalling(p)' => Totalling(p),
           CountRight(p) => CountRight(p)', \A s \in ShiftId : Owed(p, s)' = Owed(p, s)
    PROVE  Balanced'
<1> SUFFICES ASSUME Clean' PROVE \E q \in Process : BalancedBy(q)'
  BY DEF Balanced
<1>1. PICK o \in Process : BalancedBy(o)
  BY DEF Balanced
<1>2. Alone(o)'
  BY <1>1, OthersTotal DEF BalancedBy, Alone
<1>3. CountRight(o)'
  <2>1. CASE o = p
    BY <1>1, <2>1 DEF BalancedBy
  <2>2. CASE o # p
    <3>1. step'[o] = step[o] /\ CountRight(o)
      BY <1>1, <2>2 DEF Only, BalancedBy
    <3>2. o # Loop => step[o].shift \in 0 .. MaxShifts
      BY CapAssumption DEF StepsOK, CallerOK, Known, Taken, ShiftId, Process
    <3>3. Since(0, step[o].since)' = Since(0, step[o].since)
      BY <3>1, CapAssumption DEF SameBooks, Since
    <3>4. o # Loop => Since(step[o].shift, step[o].since)' = Since(step[o].shift, step[o].since)
      BY <3>1, <3>2 DEF SameBooks, Since
    <3> QED
      BY <3>1, <3>3, <3>4 DEF CountRight
  <2> QED
    BY <2>1, <2>2
<1>4. ASSUME NEW s \in ShiftId PROVE row'[s].total + Owed(o, s)' = Cardinality(Paid(s)')
  <2>1. Owed(o, s)' = Owed(o, s)
    BY OthersOwe
  <2>2. row'[s].total = row[s].total /\ Paid(s)' = Paid(s)
    BY DEF SameBooks, ShiftId
  <2> QED
    BY <1>1, <2>1, <2>2 DEF BalancedBy
<1> QED
  BY <1>2, <1>3, <1>4 DEF BalancedBy

(* A step that finds no count under way finds the books even. *)
LEMMA Entering ==
    ASSUME TablesOK, StepsOK, Balanced, NEW p \in Process, Mixes(p), ~Totalling(p),
           ~mixed', ~astray
    PROVE  Alone(p) /\ \A s \in ShiftId : row[s].total = Cardinality(Paid(s))
<1>1. Clean /\ Alone(p)
  BY DEF Mixes, Alone, Clean
<1>2. BalancedBy(p)
  BY <1>1, Takes
<1>3. ASSUME NEW s \in ShiftId PROVE row[s].total = Cardinality(Paid(s))
  <2>1. row[s].total \in Nat
    BY DEF TablesOK, ShiftRow
  <2> QED
    BY <1>2, <2>1, Unowing DEF BalancedBy
<1> QED
  BY <1>1, <1>3

(* What was booked, and the totals, are those of the tables. *)
LEMMA SameTables ==
    ASSUME UNCHANGED <<row, sale>> PROVE SameBooks /\ Taken' = Taken
BY DEF SameBooks, Booked, Paid, Taken

LEMMA SameStages == ASSUME UNCHANGED sale PROVE StagesStand
BY DEF StagesStand

(* A step away from the totals, that owes nothing. *)
LEMMA Aside ==
    ASSUME TablesOK, StepsOK, Balanced, NEW p \in Process, Only(p), UNCHANGED <<row, sale>>,
           Clean' => Clean, ~Totalling(p)',
           ~Totalling(p) \/ \A s \in ShiftId : Owed(p, s) = 0
    PROVE  Balanced'
<1>1. CountRight(p)' /\ \A s \in ShiftId : Owed(p, s)' = 0
  BY DEF Totalling, CountRight, Owed, Counting
<1>2. \A s \in ShiftId : Owed(p, s) = 0
  BY Unowing
<1> QED
  BY <1>1, <1>2, SameTables, Calm

(* A step that leaves the tables alone. *)
LEMMA TablesStand ==
    ASSUME TablesOK, UNCHANGED <<row, sale>>, active'.shift \in Known
    PROVE  TablesOK' /\ Taken' = Taken /\ Known' = Known
BY DEF TablesOK, Taken, Known, Begun, Opened, Started

(* Telling: nothing but the place, the shifts left to tell and what was read change. *)
Onward(p) ==
    /\ Only(p)
    /\ \/ step'[p] = Idle /\ step[p].then = "idle"
       \/ /\ step'[p].at \in {step[p].then, "read"} /\ step'[p].at # "idle"
          /\ step'[p].then = step[p].then
          /\ step'[p].shift = step[p].shift /\ step'[p].next = step[p].next
          /\ step'[p].since = step[p].since /\ step'[p].began = step[p].began
          /\ step'[p].count = step[p].count /\ step'[p].over = step[p].over

LEMMA TellsOnward ==
    ASSUME StepsOK, NEW p \in Process, step' = [step EXCEPT ![p] = Resting(NextTell(p))]
    PROVE  Onward(p)
<1>1. step = [q \in Process |-> step[q]] /\ Whole(step[p])
  BY DEF StepsOK
<1>2. PICK v \in {step[p].then, "read"} : NextTell(p) =
        [at |-> v, shift |-> step[p].shift, next |-> step[p].next, since |-> step[p].since,
         began |-> step[p].began, count |-> step[p].count, over |-> step[p].over,
         sale |-> step[p].sale, tell |-> Tail(step[p].tell), seen |-> {}, then |-> step[p].then]
  <2> DEFINE u == IF Tail(step[p].tell) = <<>> THEN step[p].then ELSE "read"
  <2>1. NextTell(p) = [step[p] EXCEPT !.tell = Tail(step[p].tell), !.seen = {}, !.at = u]
    BY DEF NextTell
  <2>2. u \in {step[p].then, "read"}
    OBVIOUS
  <2> HIDE DEF u
  <2> QED
    BY <1>1, <2>1, <2>2 DEF Whole
<1>3. CASE v = "idle"
  <2>1. step'[p] = Idle
    BY <1>1, <1>2, <1>3 DEF Resting
  <2>2. Only(p) /\ step[p].then = "idle"
    BY <1>1, <1>2, <1>3, <2>1 DEF Only, Whole, Idle
  <2> QED
    BY <2>1, <2>2 DEF Onward
<1>4. CASE v # "idle"
  <2>1. step'[p] = NextTell(p)
    BY <1>1, <1>2, <1>4 DEF Resting
  <2>2. Only(p)
    BY <1>1, <1>2, <2>1 DEF Only, Whole
  <2> QED
    BY <1>2, <1>4, <2>1, <2>2 DEF Onward
<1> QED
  BY <1>3, <1>4

LEMMA OnwardStands ==
    ASSUME TablesOK, StepsOK, Balanced, NEW p \in Process, step[p].at = "send", Onward(p),
           UNCHANGED <<row, sale, active>>, Clean' => Clean
    PROVE  TablesOK' /\ StepsOK' /\ Balanced'
<1>1. TablesOK' /\ Taken' = Taken /\ Known' = Known
  BY TablesStand DEF TablesOK
<1>2. ASSUME p \in Caller PROVE CallerOK(p)'
  <2>1. CallerOK(p)
    BY <1>2 DEF StepsOK
  <2>2. CASE step'[p] = Idle
    BY <1>1, <2>2 DEF CallerOK, CallerPlaces, Named, Moving, Beyond, Idle, Known
  <2>3. CASE step'[p] # Idle
    BY <1>1, <2>1, <2>3 DEF Onward, CallerOK, CallerPlaces, Named, Moving, Beyond
  <2> QED
    BY <2>2, <2>3
<1>3. ASSUME p = Loop PROVE LoopOK'
  <2>1. LoopOK
    BY <1>3 DEF StepsOK
  <2> QED
    BY <1>1, <1>3, <2>1 DEF Onward, LoopOK, Idle, Known
<1>4. StepsOK'
  BY <1>1, <1>2, <1>3, SameStages, OthersStand DEF Onward
<1>5. Only(p) /\ CountRight(p)' /\ (Totalling(p)' => Totalling(p))
      /\ \A s \in ShiftId : Owed(p, s)' = Owed(p, s)
  <2>1. CASE p = Loop
    <3>1. step'[p].at \in {"idle", "mirror", "read"}
      BY <2>1 DEF Onward, StepsOK, LoopOK, Idle
    <3> QED
      BY <2>1, <3>1 DEF Onward, CountRight, Totalling, Owed
  <2>2. CASE p # Loop
    <3>1. step'[p].at \in {"idle", "load", "count", "clear", "reload", "read"}
      BY <2>2 DEF Onward, StepsOK, CallerOK, Idle, Process
    <3> QED
      BY <2>2, <3>1 DEF Onward, CountRight, Totalling, Owed, Counting
  <2> QED
    BY <2>1, <2>2
<1>6. Balanced'
  BY <1>5, SameTables, Calm
<1> QED
  BY <1>1, <1>4, <1>6

LEMMA SendShiftStep ==
    ASSUME DeskInv, NEW p \in Process, SendShift(p) PROVE DeskInv'
BY TellsOnward, OnwardStands DEF Clean, SendShift, DeskInv, history

LEMMA SendFailsStep ==
    ASSUME DeskInv, NEW p \in Process, SendFails(p) PROVE DeskInv'
BY TellsOnward, OnwardStands DEF Clean, SendFails, Stumble, DeskInv

LEMMA ReadShiftStep ==
    ASSUME DeskInv, NEW p \in Process, ReadShift(p) PROVE DeskInv'
<1> USE DEF DeskInv
<1>1. TablesOK' /\ Taken' = Taken /\ Known' = Known
  BY TablesStand DEF TablesOK, ReadShift
<1>2. /\ Only(p) /\ step[p].at = "read" /\ step'[p].at = "send"
      /\ step'[p].then = step[p].then /\ step'[p].over = step[p].over
      /\ step'[p].shift = step[p].shift /\ step'[p].next = step[p].next
      /\ step'[p].since = step[p].since /\ step'[p].began = step[p].began
      /\ step'[p].count = step[p].count
  <2>1. PICK u : step' = [step EXCEPT ![p].at = "send", ![p].seen = u]
    BY DEF ReadShift
  <2>2. step = [q \in Process |-> step[q]] /\ Whole(step[p])
    BY DEF StepsOK
  <2>3. step'[p] = [at |-> "send", shift |-> step[p].shift, next |-> step[p].next,
                    since |-> step[p].since, began |-> step[p].began, count |-> step[p].count,
                    over |-> step[p].over, sale |-> step[p].sale, tell |-> step[p].tell,
                    seen |-> u, then |-> step[p].then]
    BY <2>1, <2>2 DEF Whole
  <2>4. Only(p)
    BY <2>1, <2>2, <2>3 DEF Only, Whole
  <2> QED
    BY <2>3, <2>4 DEF ReadShift
<1>3. ASSUME p \in Caller PROVE CallerOK(p)'
  BY <1>1, <1>2, <1>3 DEF StepsOK, CallerOK, CallerPlaces, Named, Moving, Beyond
<1>4. ASSUME p = Loop PROVE LoopOK'
  BY <1>1, <1>2, <1>4 DEF StepsOK, LoopOK
<1>5. StepsOK'
  BY <1>1, <1>2, <1>3, <1>4, SameStages, OthersStand DEF ReadShift
<1>6. Balanced'
  <2>1. /\ CountRight(p)' /\ (Totalling(p)' => Totalling(p))
        /\ \A s \in ShiftId : Owed(p, s)' = Owed(p, s)
    BY <1>2 DEF CountRight, Totalling, Owed, Counting
  <2> QED
    BY <1>2, <2>1, SameTables, Calm DEF Clean, ReadShift, history
<1> QED
  BY <1>1, <1>5, <1>6

(* Whoever rests owes nothing. *)
LEMMA Rests ==
    ASSUME StepsOK, NEW p \in Process, step' = [step EXCEPT ![p] = Idle]
    PROVE  /\ Only(p) /\ step'[p] = Idle /\ ~Totalling(p)'
           /\ p \in Caller => CallerOK(p)'
           /\ p = Loop => LoopOK'
<1>1. Only(p) /\ step'[p] = Idle
  BY DEF StepsOK, Only, Whole, Idle
<1>2. ~Totalling(p)'
  BY <1>1 DEF Totalling, Counting, Idle
<1>3. p \in Caller => CallerOK(p)'
  BY <1>1 DEF CallerOK, CallerPlaces, Named, Moving, Beyond, Idle, Known
<1>4. p = Loop => LoopOK'
  BY <1>1 DEF LoopOK, Idle, Known
<1> QED
  BY <1>1, <1>2, <1>3, <1>4

LEMMA CutOffStep ==
    ASSUME DeskInv, NEW c \in Caller, CutOff(c) PROVE DeskInv'
<1> USE DEF DeskInv
<1>1. c \in Process /\ c # Loop
  BY ProcessAssumption DEF Process
<1>2. TablesOK' /\ Taken' = Taken /\ Known' = Known
  BY TablesStand DEF TablesOK, CutOff
<1>3. Only(c) /\ ~Totalling(c)' /\ StepsOK'
  BY <1>1, <1>2, Rests, SameStages, OthersStand DEF CutOff
<1>4. Balanced'
  <2>1. CASE Totalling(c)
    BY <1>1, <2>1 DEF CutOff, Stumble, Totalling, Balanced, Clean
  <2>2. CASE ~Totalling(c)
    BY <1>1, <1>3, <2>2, Aside DEF Clean, CutOff, Stumble
  <2> QED
    BY <2>1, <2>2
<1> QED
  BY <1>2, <1>3, <1>4

LEMMA NumbersBegun ==
    ASSUME TablesOK PROVE Started \in Nat /\ Opened \in Nat
<1>1. IsFiniteSet(SaleNo) /\ IsFiniteSet(ShiftId)
  <2>1. MaxSales \in Int /\ MaxShifts \in Int
    BY CapAssumption
  <2> QED
    BY <2>1, FS_Interval DEF SaleNo, ShiftId
<1>2. IsFiniteSet(Begun) /\ IsFiniteSet(Taken)
  BY <1>1, FS_Subset DEF Begun, Taken
<1> QED
  BY <1>2, FS_CardinalityType DEF Started, Opened, Begun, Taken

(* A start begins at the next sale, or at a sale of the past. *)
LEMMA Opens ==
    ASSUME TablesOK, StepsOK, NEW c \in Caller, NEW since \in Nat,
           step[c].at \in {"idle", "check"},
           step' = [step EXCEPT ![c] = Opening(c, since)], Taken' = Taken
    PROVE  Only(c) /\ CallerOK(c)' /\ ~Totalling(c)'
<1>1. c \in Process /\ c # Loop
  BY ProcessAssumption DEF Process
<1>2. PICK b \in Nat : b = IF since = 0 THEN Started + 1 ELSE since
  BY NumbersBegun
<1>3. step' = [step EXCEPT ![c] = [step[c] EXCEPT !.at = "insert", !.since = since, !.began = b]]
  BY <1>2 DEF Opening
<1>4. /\ Only(c) /\ step'[c].at = "insert" /\ step'[c].since = since /\ step'[c].began = b
      /\ step'[c].then = step[c].then /\ step'[c].over = step[c].over
      /\ step'[c].shift = step[c].shift /\ step'[c].next = step[c].next
      /\ step'[c].count = step[c].count
  <2>1. step = [q \in Process |-> step[q]] /\ Whole(step[c])
    BY <1>1 DEF StepsOK
  <2>2. step'[c] = [at |-> "insert", shift |-> step[c].shift, next |-> step[c].next,
                    since |-> since, began |-> b, count |-> step[c].count,
                    over |-> step[c].over, sale |-> step[c].sale, tell |-> step[c].tell,
                    seen |-> step[c].seen, then |-> step[c].then]
    BY <1>1, <1>3, <2>1 DEF Whole
  <2>3. Only(c)
    BY <1>1, <1>3, <2>1, <2>2 DEF Only, Whole
  <2> QED
    BY <2>2, <2>3
<1>5. CallerOK(c)'
  BY <1>1, <1>4 DEF StepsOK, CallerOK, CallerPlaces, Named, Moving, Beyond, Known
<1> QED
  BY <1>1, <1>4, <1>5 DEF Totalling, Counting

LEMMA OverrideIsNat == \A since \in Override : since \in Nat
BY CapAssumption DEF Override, SaleNo

LEMMA StartStep ==
    ASSUME DeskInv, NEW c \in Caller, NEW since \in Override, Start(c, since) PROVE DeskInv'
<1> USE DEF DeskInv
<1>1. c \in Process /\ c # Loop /\ since \in Nat
  BY ProcessAssumption, OverrideIsNat DEF Process
<1>2. TablesOK' /\ Taken' = Taken
  BY TablesStand DEF TablesOK, Start
<1>3. Only(c) /\ CallerOK(c)' /\ ~Totalling(c)'
  BY <1>1, <1>2, Opens DEF Start
<1>4. StepsOK'
  BY <1>1, <1>2, <1>3, SameStages, OthersStand DEF Start
<1>5. ~Totalling(c)
  BY <1>1 DEF Start, Totalling, Counting
<1>6. Balanced'
  BY <1>1, <1>3, <1>5, Aside DEF Clean, Start
<1> QED
  BY <1>2, <1>4, <1>6

LEMMA CheckAgainStep ==
    ASSUME DeskInv, NEW c \in Caller, CheckAgain(c) PROVE DeskInv'
<1> USE DEF DeskInv
<1>1. c \in Process /\ c # Loop /\ ~Totalling(c)
  BY ProcessAssumption DEF Process, CheckAgain, Totalling, Counting
<1>2. TablesOK' /\ Taken' = Taken
  BY TablesStand DEF TablesOK, CheckAgain
<1>3. Only(c) /\ CallerOK(c)' /\ ~Totalling(c)'
  <2>1. CASE step' = [step EXCEPT ![c] = Idle]
    BY <1>1, <2>1, Rests
  <2>2. CASE step' = [step EXCEPT ![c] = Opening(c, @.since)]
    <3>1. step[c].since \in Nat /\ step[c].at \in {"idle", "check"}
      BY DEF StepsOK, CallerOK, CheckAgain
    <3>2. step' = [step EXCEPT ![c] = Opening(c, step[c].since)]
      BY <2>2
    <3> QED
      BY <1>2, <3>1, <3>2, Opens
  <2> QED
    BY <2>1, <2>2 DEF CheckAgain
<1>4. StepsOK'
  BY <1>1, <1>2, <1>3, SameStages, OthersStand DEF CheckAgain
<1>5. Balanced'
  BY <1>1, <1>3, Aside DEF Clean, CheckAgain, history
<1> QED
  BY <1>2, <1>4, <1>5

LEMMA EndStep ==
    ASSUME DeskInv, NEW c \in Caller, NEW over \in BOOLEAN, NEW since \in Nat, End(c, over, since)
    PROVE  DeskInv'
<1> USE DEF DeskInv
<1>1. c \in Process /\ c # Loop /\ ~Totalling(c)
  BY ProcessAssumption DEF Process, End, Totalling, Counting
<1>2. TablesOK' /\ Taken' = Taken /\ Known' = Known
  BY TablesStand DEF TablesOK, End
<1>3. PICK s : s = active.shift /\ s \in Taken
  BY DEF End, TablesOK, Known
<1>4. /\ Only(c) /\ step'[c].at = "close" /\ step'[c].shift = s /\ step'[c].over = over
      /\ step'[c].since = since /\ step'[c].next = 0 /\ step'[c].then = "idle"
      /\ step'[c].began = 0 /\ step'[c].count = 0
  <2>1. step = [q \in Process |-> step[q]] /\ step[c] = Idle
    BY DEF StepsOK, CallerOK, End
  <2>2. step'[c] = [Idle EXCEPT !.at = "close", !.shift = s, !.over = over, !.since = since]
    BY <1>1, <1>3, <2>1 DEF End
  <2>3. step'[c] = [at |-> "close", shift |-> s, next |-> 0, since |-> since, began |-> 0,
                    count |-> 0, over |-> over, sale |-> 0, tell |-> <<>>, seen |-> {},
                    then |-> "idle"]
    BY <2>2 DEF Idle
  <2>4. Only(c)
    BY <1>1, <2>1, <2>3 DEF End, Only, Whole
  <2> QED
    BY <2>3, <2>4
<1>5. CallerOK(c)'
  BY <1>2, <1>3, <1>4 DEF CallerOK, CallerPlaces, Named, Moving, Beyond, Known
<1>6. StepsOK'
  BY <1>1, <1>2, <1>4, <1>5, SameStages, OthersStand DEF End
<1>7. Balanced'
  BY <1>1, <1>4, Aside DEF Clean, End, Totalling, Counting
<1> QED
  BY <1>2, <1>6, <1>7

LEMMA ClearStep ==
    ASSUME DeskInv, NEW c \in Caller, Clear(c) PROVE DeskInv'
<1> USE DEF DeskInv
<1>1. c \in Process /\ c # Loop /\ ~Totalling(c)
  BY ProcessAssumption DEF Process, Clear, Totalling, Counting
<1>2. TablesOK' /\ Taken' = Taken /\ Known' = Known
  BY TablesStand DEF TablesOK, Clear, Cleared, NoShift, Known
<1>3. Only(c) /\ CallerOK(c)' /\ ~Totalling(c)'
  <2>1. CASE ~step[c].over
    BY <1>1, <2>1, Rests DEF Clear
  <2>2. CASE step[c].over
    <3>1. step' = [step EXCEPT ![c].at = "check"]
      BY <2>2 DEF Clear
    <3>2. /\ Only(c) /\ step'[c].at = "check"
          /\ step'[c].then = step[c].then /\ step'[c].over = step[c].over
          /\ step'[c].shift = step[c].shift /\ step'[c].next = step[c].next
          /\ step'[c].since = step[c].since /\ step'[c].began = step[c].began
          /\ step'[c].count = step[c].count
      BY <1>1, <3>1 DEF StepsOK, Only, Whole
    <3>3. CallerOK(c)'
      BY <1>1, <1>2, <3>2
         DEF StepsOK, CallerOK, CallerPlaces, Named, Moving, Beyond, Clear
    <3> QED
      BY <1>1, <3>2, <3>3 DEF Totalling, Counting
  <2> QED
    BY <2>1, <2>2
<1>4. StepsOK'
  BY <1>1, <1>2, <1>3, SameStages, OthersStand DEF Clear
<1>5. Balanced'
  BY <1>1, <1>3, Aside DEF Clean, Clear, history
<1> QED
  BY <1>2, <1>4, <1>5

LEMMA LoadStep ==
    ASSUME DeskInv, NEW c \in Caller, Load(c) PROVE DeskInv'
<1> USE DEF DeskInv
<1>1. c \in Process /\ c # Loop /\ ~Totalling(c)
  BY ProcessAssumption DEF Process, Load, Totalling, Counting
<1>2. TablesOK' /\ Taken' = Taken /\ Known' = Known
  BY TablesStand DEF TablesOK, Load
<1>3. PICK x : x = ShiftRecord(row, step[c].next) /\ x.id = step[c].next
  <2>1. ShiftRecord(row, step[c].next).id = step[c].next
    BY DEF ShiftRecord
  <2> QED
    BY <2>1
<1>4. /\ Only(c) /\ step'[c].at = "publish" /\ step'[c].seen = {x}
      /\ step'[c].then = step[c].then /\ step'[c].over = step[c].over
      /\ step'[c].shift = step[c].shift /\ step'[c].next = step[c].next
      /\ step'[c].since = step[c].since /\ step'[c].began = step[c].began
      /\ step'[c].count = step[c].count
  <2>1. step = [q \in Process |-> step[q]] /\ Whole(step[c])
    BY <1>1 DEF StepsOK
  <2>2. step' = [step EXCEPT ![c].seen = {x}, ![c].at = "publish"]
    BY <1>3 DEF Load
  <2>3. step'[c] = [at |-> "publish", shift |-> step[c].shift, next |-> step[c].next,
                    since |-> step[c].since, began |-> step[c].began, count |-> step[c].count,
                    over |-> step[c].over, sale |-> step[c].sale, tell |-> step[c].tell,
                    seen |-> {x}, then |-> step[c].then]
    BY <1>1, <2>1, <2>2 DEF Whole
  <2>4. Only(c)
    BY <1>1, <2>1, <2>2, <2>3 DEF Only, Whole
  <2> QED
    BY <2>3, <2>4
<1>5. CallerOK(c)'
  BY <1>1, <1>2, <1>3, <1>4 DEF Load, StepsOK, CallerOK, CallerPlaces, Named, Moving, Beyond
<1>6. StepsOK'
  BY <1>1, <1>2, <1>4, <1>5, SameStages, OthersStand DEF Load
<1>7. Balanced'
  BY <1>1, <1>4, Aside DEF Clean, Load, history, Totalling, Counting
<1> QED
  BY <1>2, <1>6, <1>7

(* A copy that is published is that of a shift that was inserted. *)
LEMMA PublishesKnown ==
    ASSUME TablesOK, StepsOK, NEW c \in Caller, step[c].at \in {"publish", "republish"},
           Published(c)
    PROVE  active'.shift \in Taken
<1>1. PICK x \in step[c].seen : active' = [shift |-> x.id, total |-> x.total]
  BY DEF Published
<1>2. x.id = step[c].next /\ step[c].next \in Taken
  BY DEF StepsOK, CallerOK, Beyond, Named
<1> QED
  BY <1>1, <1>2

LEMMA PublishStep ==
    ASSUME DeskInv, NEW c \in Caller, Publish(c) PROVE DeskInv'
<1> USE DEF DeskInv
<1>1. c \in Process /\ c # Loop /\ ~Totalling(c)
  BY ProcessAssumption DEF Process, Publish, Totalling, Counting
<1>2. TablesOK' /\ Taken' = Taken /\ Known' = Known
  BY PublishesKnown, TablesStand DEF Known, Publish
<1>3. Only(c) /\ CallerOK(c)' /\ ~Totalling(c)'
  <2>1. CASE ~(step[c].over /\ step[c].since # 0)
    BY <1>1, <2>1, Rests DEF Publish
  <2>2. CASE step[c].over /\ step[c].since # 0
    <3>1. step' = [step EXCEPT ![c] = [step[c] EXCEPT !.at = "countMove", !.seen = {}]]
      BY <2>2 DEF Publish
    <3>2. /\ Only(c) /\ step'[c].at = "countMove"
          /\ step'[c].then = step[c].then /\ step'[c].over = step[c].over
          /\ step'[c].shift = step[c].shift /\ step'[c].next = step[c].next
          /\ step'[c].since = step[c].since /\ step'[c].began = step[c].began
          /\ step'[c].count = step[c].count
      <4>1. step = [q \in Process |-> step[q]] /\ Whole(step[c])
        BY <1>1 DEF StepsOK
      <4>2. step'[c] = [at |-> "countMove", shift |-> step[c].shift, next |-> step[c].next,
                        since |-> step[c].since, began |-> step[c].began,
                        count |-> step[c].count, over |-> step[c].over, sale |-> step[c].sale,
                        tell |-> step[c].tell, seen |-> {}, then |-> step[c].then]
        BY <1>1, <3>1, <4>1 DEF Whole
      <4>3. Only(c)
        BY <1>1, <3>1, <4>1, <4>2 DEF Only, Whole
      <4> QED
        BY <4>2, <4>3
    <3>3. CallerOK(c)'
      BY <1>1, <1>2, <2>2, <3>2
         DEF StepsOK, CallerOK, CallerPlaces, Named, Moving, Beyond, Publish
    <3> QED
      BY <1>1, <3>2, <3>3 DEF Totalling, Counting
  <2> QED
    BY <2>1, <2>2
<1>4. StepsOK'
  BY <1>1, <1>2, <1>3, SameStages, OthersStand DEF Publish
<1>5. Balanced'
  BY <1>1, <1>3, Aside DEF Clean, Publish, history
<1> QED
  BY <1>2, <1>4, <1>5

LEMMA RepublishStep ==
    ASSUME DeskInv, NEW c \in Caller, Republish(c) PROVE DeskInv'
<1> USE DEF DeskInv
<1>1. c \in Process /\ c # Loop
  BY ProcessAssumption DEF Process
<1>2. TablesOK' /\ Taken' = Taken /\ Known' = Known
  BY PublishesKnown, TablesStand DEF Known, Republish
<1>3. StepsOK' /\ Only(c) /\ ~Totalling(c)'
  BY <1>1, <1>2, Rests, SameStages, OthersStand DEF Republish
<1>4. \A s \in ShiftId : Owed(c, s) = 0
  BY <1>1 DEF Owed, Republish
<1>5. Balanced'
  BY <1>1, <1>3, <1>4, Aside DEF Clean, Republish, history
<1> QED
  BY <1>2, <1>3, <1>5

LEMMA ReloadStep ==
    ASSUME DeskInv, NEW c \in Caller, Reload(c) PROVE DeskInv'
<1> USE DEF DeskInv
<1>1. c \in Process /\ c # Loop /\ ~Totalling(c)
  BY ProcessAssumption DEF Process, Reload, Totalling, Counting
<1>2. TablesOK' /\ Taken' = Taken /\ Known' = Known
  BY TablesStand DEF TablesOK, Reload
<1>3. PICK x : x = ShiftRecord(row, step[c].next) /\ x.id = step[c].next
  <2>1. ShiftRecord(row, step[c].next).id = step[c].next
    BY DEF ShiftRecord
  <2> QED
    BY <2>1
<1>4. /\ Only(c) /\ step'[c].at = "republish" /\ step'[c].seen = {x}
      /\ step'[c].then = step[c].then /\ step'[c].over = step[c].over
      /\ step'[c].shift = step[c].shift /\ step'[c].next = step[c].next
      /\ step'[c].since = step[c].since /\ step'[c].began = step[c].began
      /\ step'[c].count = step[c].count
  <2>1. step = [q \in Process |-> step[q]] /\ Whole(step[c])
    BY <1>1 DEF StepsOK
  <2>2. step' = [step EXCEPT ![c].seen = {x}, ![c].at = "republish"]
    BY <1>3 DEF Reload
  <2>3. step'[c] = [at |-> "republish", shift |-> step[c].shift, next |-> step[c].next,
                    since |-> step[c].since, began |-> step[c].began, count |-> step[c].count,
                    over |-> step[c].over, sale |-> step[c].sale, tell |-> step[c].tell,
                    seen |-> {x}, then |-> step[c].then]
    BY <1>1, <2>1, <2>2 DEF Whole
  <2>4. Only(c)
    BY <1>1, <2>1, <2>2, <2>3 DEF Only, Whole
  <2> QED
    BY <2>3, <2>4
<1>5. CallerOK(c)'
  BY <1>1, <1>2, <1>3, <1>4 DEF Reload, StepsOK, CallerOK, CallerPlaces, Named, Moving, Beyond
<1>6. StepsOK'
  BY <1>1, <1>2, <1>4, <1>5, SameStages, OthersStand DEF Reload
<1>7. Balanced'
  <2>1. CountRight(c)' /\ \A s \in ShiftId : Owed(c, s)' = 0
    BY <1>4 DEF CountRight, Owed
  <2>2. ASSUME Clean'
        PROVE  Alone(c) /\ \A s \in ShiftId : row'[s].total + 0 = Cardinality(Paid(s)')
    <3>1. Alone(c) /\ \A s \in ShiftId : row[s].total = Cardinality(Paid(s))
      BY <1>1, <2>2, Entering DEF Reload, Overlap, Clean
    <3>2. SameBooks
      BY SameTables DEF Reload
    <3>3. \A s \in ShiftId : row[s].total \in Nat
      BY DEF TablesOK, ShiftRow
    <3> QED
      BY <3>1, <3>2, <3>3 DEF SameBooks, ShiftId
  <2> QED
    BY <1>1, <1>4, <2>1, <2>2, Settle
<1> QED
  BY <1>2, <1>6, <1>7

LEMMA CountsSales ==
    /\ \A s \in Nat, t \in Nat : /\ IsFiniteSet(Since(s, t)) /\ Cardinality(Since(s, t)) \in Nat
                                 /\ Since(s, t) \subseteq Booked(s)
    /\ \A s \in Nat : IsFiniteSet(Booked(s)) /\ Cardinality(Booked(s)) \in Nat
    /\ \A s \in Nat : IsFiniteSet(Paid(s)) /\ Cardinality(Paid(s)) \in Nat
<1>1. MaxSales \in Int
  BY CapAssumption
<1>2. IsFiniteSet(SaleNo)
  BY <1>1, FS_Interval DEF SaleNo
<1>3. ASSUME NEW s \in Nat PROVE IsFiniteSet(Booked(s)) /\ Cardinality(Booked(s)) \in Nat
  <2>1. Booked(s) \subseteq SaleNo
    BY DEF Booked
  <2> QED
    BY <1>2, <2>1, FS_Subset, FS_CardinalityType
<1>4. ASSUME NEW s \in Nat, NEW t \in Nat
      PROVE  /\ IsFiniteSet(Since(s, t)) /\ Cardinality(Since(s, t)) \in Nat
             /\ Since(s, t) \subseteq Booked(s)
  <2>1. Since(s, t) \subseteq Booked(s)
    BY DEF Since
  <2> QED
    BY <1>3, <2>1, FS_Subset, FS_CardinalityType
<1>5. ASSUME NEW s \in Nat PROVE IsFiniteSet(Paid(s)) /\ Cardinality(Paid(s)) \in Nat
  <2>1. Paid(s) \subseteq Booked(s)
    BY DEF Paid
  <2> QED
    BY <1>3, <2>1, FS_Subset, FS_CardinalityType
<1> QED
  BY <1>3, <1>4, <1>5

(* A count starts: the others are alone with their totals, or the count is out of date. *)
LEMMA CountStep ==
    ASSUME DeskInv, NEW c \in Caller, NEW found \in Nat, NEW place, Overlap(c),
           UNCHANGED <<row, sale, active>>, ~Totalling(c),
           step' = [step EXCEPT ![c].count = found, ![c].at = place],
           \/ step[c].at = "count" /\ place = "load"
           \/ step[c].at = "count" /\ place = "assign"
              /\ found = Cardinality(Since(0, step[c].since))
           \/ step[c].at = "countMove" /\ place = "reload"
           \/ step[c].at = "countMove" /\ place = "move"
              /\ found = Cardinality(Since(step[c].shift, step[c].since))
    PROVE  DeskInv'
<1> USE DEF DeskInv
<1>1. c \in Process /\ c # Loop
  BY ProcessAssumption DEF Process
<1>2. TablesOK' /\ Taken' = Taken /\ Known' = Known
  BY TablesStand DEF TablesOK
<1>3. /\ Only(c) /\ step'[c].at = place /\ step'[c].count = found
      /\ step'[c].then = step[c].then /\ step'[c].over = step[c].over
      /\ step'[c].shift = step[c].shift /\ step'[c].next = step[c].next
      /\ step'[c].since = step[c].since /\ step'[c].began = step[c].began
  <2>1. step = [q \in Process |-> step[q]] /\ Whole(step[c])
    BY <1>1 DEF StepsOK
  <2>2. step'[c] = [at |-> place, shift |-> step[c].shift, next |-> step[c].next,
                    since |-> step[c].since, began |-> step[c].began, count |-> found,
                    over |-> step[c].over, sale |-> step[c].sale, tell |-> step[c].tell,
                    seen |-> step[c].seen, then |-> step[c].then]
    BY <1>1, <2>1 DEF Whole
  <2>3. Only(c)
    BY <1>1, <2>1, <2>2 DEF Only, Whole
  <2> QED
    BY <2>2, <2>3
<1>4. CallerOK(c)'
  BY <1>1, <1>2, <1>3 DEF StepsOK, CallerOK, CallerPlaces, Named, Moving, Beyond
<1>5. StepsOK'
  BY <1>1, <1>2, <1>3, <1>4, SameStages, OthersStand
<1>6. Balanced'
  <2>1. CountRight(c)'
    <3>1. \A s, t : Since(s, t)' = Since(s, t)
      BY DEF Since, Booked
    <3> QED
      BY <1>1, <1>3, <3>1 DEF CountRight
  <2>2. \A s \in ShiftId : Owed(c, s)' = 0
    BY <1>1, <1>3 DEF Owed
  <2>3. ASSUME Clean'
        PROVE  Alone(c) /\ \A s \in ShiftId : row'[s].total + 0 = Cardinality(Paid(s)')
    <3>1. Alone(c) /\ \A s \in ShiftId : row[s].total = Cardinality(Paid(s))
      BY <1>1, <2>3, Entering DEF Overlap, Clean
    <3>2. SameBooks
      BY SameTables
    <3>3. \A s \in ShiftId : row[s].total \in Nat
      BY DEF TablesOK, ShiftRow
    <3> QED
      BY <3>1, <3>2, <3>3 DEF SameBooks, ShiftId
  <2> QED
    BY <1>1, <1>3, <2>1, <2>2, <2>3, Settle
<1> QED
  BY <1>2, <1>5, <1>6

LEMMA CountLooseStep ==
    ASSUME DeskInv, NEW c \in Caller, CountLoose(c) PROVE DeskInv'
<1>1. PICK found : found = Cardinality(Since(0, step[c].since))
  OBVIOUS
<1>2. PICK place : place = IF found = 0 THEN "load" ELSE "assign"
  OBVIOUS
<1>3. step' = [step EXCEPT ![c].count = found, ![c].at = place]
  BY <1>1, <1>2 DEF CountLoose
<1>4. found \in Nat
  BY <1>1, CountsSales DEF DeskInv, StepsOK, CallerOK
<1>5. ~Totalling(c)
  BY ProcessAssumption DEF CountLoose, Totalling, Counting
<1> QED
  BY <1>1, <1>2, <1>3, <1>4, <1>5, CountStep DEF CountLoose

LEMMA CountMoveStep ==
    ASSUME DeskInv, NEW c \in Caller, CountMove(c) PROVE DeskInv'
<1>1. PICK found : found = Cardinality(Since(step[c].shift, step[c].since))
  OBVIOUS
<1>2. PICK place : place = IF found = 0 THEN "reload" ELSE "move"
  OBVIOUS
<1>3. step' = [step EXCEPT ![c].count = found, ![c].at = place]
  BY <1>1, <1>2 DEF CountMove
<1>4. found \in Nat
  <2>1. step[c].shift \in Nat /\ step[c].since \in Nat
    BY CapAssumption DEF DeskInv, StepsOK, CallerOK, Known, Taken, ShiftId
  <2> QED
    BY <1>1, <2>1, CountsSales
<1>5. ~Totalling(c)
  BY ProcessAssumption DEF CountMove, Totalling, Counting
<1> QED
  BY <1>1, <1>2, <1>3, <1>4, <1>5, CountStep DEF CountMove

(* What a telling asked for leaves of the step that asks for it. *)
LEMMA Tellings ==
    ASSUME StepsOK, NEW p \in Process, NEW shifts, NEW then,
           step' = [step EXCEPT ![p] = Telling(p, shifts, then)]
    PROVE  /\ Only(p) /\ step'[p].at = "read" /\ step'[p].then = then
           /\ step'[p].over = step[p].over
           /\ step'[p].shift = step[p].shift /\ step'[p].next = step[p].next
           /\ step'[p].since = step[p].since /\ step'[p].began = step[p].began
           /\ step'[p].count = step[p].count
<1>1. step = [q \in Process |-> step[q]] /\ Whole(step[p])
  BY DEF StepsOK
<1>2. step'[p] = [at |-> "read", shift |-> step[p].shift, next |-> step[p].next,
                  since |-> step[p].since, began |-> step[p].began, count |-> step[p].count,
                  over |-> step[p].over, sale |-> step[p].sale, tell |-> shifts,
                  seen |-> step[p].seen, then |-> then]
  BY <1>1 DEF Telling, Whole
<1>3. Only(p)
  BY <1>1, <1>2 DEF Only, Whole
<1> QED
  BY <1>2, <1>3

(* The tables stay in order while no shift and no sale is added. *)
LEMMA TablesKept ==
    ASSUME TablesOK, row' \in [ShiftId -> ShiftRow], sale' \in [SaleNo -> SaleState],
           active'.shift \in Known,
           \A s \in ShiftId : row'[s].status = "none" <=> row[s].status = "none",
           \A n \in SaleNo : /\ sale'[n].stage = "none" <=> sale[n].stage = "none"
                             /\ sale'[n].shift \in Known
                             /\ sale'[n].unpaid => sale'[n].stage \in InTable
    PROVE  TablesOK' /\ Taken' = Taken /\ Known' = Known
<1>1. Taken' = Taken /\ Known' = Known /\ Opened' = Opened
  BY DEF Taken, Known, Opened
<1>2. Begun' = Begun /\ Started' = Started
  BY DEF Begun, Started
<1> QED
  BY <1>1, <1>2 DEF TablesOK

(* A step that changes neither which shifts there are nor a sale. *)
LEMMA RowsStand ==
    ASSUME TablesOK, row' \in [ShiftId -> ShiftRow], UNCHANGED sale, active'.shift \in Known,
           \A s \in ShiftId : row'[s].status = "none" <=> row[s].status = "none"
    PROVE  TablesOK' /\ Taken' = Taken /\ Known' = Known
BY TablesKept DEF TablesOK

LEMMA TotalSet ==
    ASSUME TablesOK, NEW t \in ShiftId, NEW n \in Nat, row' = [row EXCEPT ![t].total = n],
           UNCHANGED <<sale, active>>
    PROVE  /\ TablesOK' /\ Taken' = Taken /\ Known' = Known
           /\ row'[t].total = n
           /\ \A s \in ShiftId \ {t} : row'[s].total = row[s].total
           /\ \A s : Paid(s)' = Paid(s)
<1>1. row' \in [ShiftId -> ShiftRow]
  BY DEF TablesOK, ShiftRow
<1>2. \A s \in ShiftId : row'[s].status = row[s].status
  BY DEF TablesOK, ShiftRow
<1>3. active'.shift \in Known
  BY DEF TablesOK
<1>4. TablesOK' /\ Taken' = Taken /\ Known' = Known
  BY <1>1, <1>2, <1>3, RowsStand
<1>5. row'[t].total = n /\ \A s \in ShiftId \ {t} : row'[s].total = row[s].total
  BY DEF TablesOK, ShiftRow
<1>6. \A s : Paid(s)' = Paid(s)
  BY DEF Booked, Paid
<1> QED
  BY <1>4, <1>5, <1>6

LEMMA CloseStep ==
    ASSUME DeskInv, NEW c \in Caller, Close(c) PROVE DeskInv'
<1> USE DEF DeskInv
<1>1. c \in Process /\ c # Loop /\ ~Totalling(c)
  BY ProcessAssumption DEF Process, Close, Totalling, Counting
<1>2. PICK t \in Taken : t = step[c].shift
  BY DEF Close, StepsOK, CallerOK
<1>3. t \in ShiftId /\ row[t].status # "none"
  BY <1>2 DEF Taken
<1>4. row' = [row EXCEPT ![t].status = "CLOSED"]
  BY <1>2 DEF Close
<1>5. row' \in [ShiftId -> ShiftRow]
  BY <1>3, <1>4 DEF TablesOK, ShiftRow
<1>6. \A s \in ShiftId : row'[s].total = row[s].total
                         /\ (row'[s].status = "none" <=> row[s].status = "none")
  BY <1>3, <1>4 DEF TablesOK, ShiftRow
<1>7. TablesOK' /\ Taken' = Taken /\ Known' = Known
  BY <1>5, <1>6, RowsStand DEF Close, TablesOK
<1>8. PICK shifts : step' = [step EXCEPT ![c] = Telling(c, shifts, "clear")]
  BY DEF Close
<1>9. /\ Only(c) /\ step'[c].at = "read" /\ step'[c].then = "clear"
      /\ step'[c].over = step[c].over
      /\ step'[c].shift = step[c].shift /\ step'[c].next = step[c].next
      /\ step'[c].since = step[c].since /\ step'[c].began = step[c].began
      /\ step'[c].count = step[c].count
  BY <1>1, <1>8, Tellings
<1>10. CallerOK(c)'
  BY <1>2, <1>7, <1>9 DEF StepsOK, CallerOK, CallerPlaces, Named, Moving, Beyond
<1>11. StepsOK'
  BY <1>1, <1>7, <1>9, <1>10, SameStages, OthersStand DEF Close
<1>12. SameBooks
  BY <1>6 DEF SameBooks, Booked, Paid, Close
<1>13. /\ CountRight(c)' /\ ~Totalling(c)'
       /\ \A s \in ShiftId : Owed(c, s)' = Owed(c, s)
  BY <1>1, <1>9 DEF CountRight, Totalling, Counting, Owed
<1>14. Balanced'
  BY <1>1, <1>9, <1>12, <1>13, Calm DEF Clean, Close, history
<1> QED
  BY <1>7, <1>11, <1>14

(* A process that pays a shift what it owed it, and owes nothing more. *)
LEMMA Pays ==
    ASSUME TablesOK, StepsOK, Balanced, NEW p \in Process, Only(p), Totalling(p),
           Clean' => Clean, NEW t \in ShiftId, NEW n \in Nat, NEW d \in Int,
           n = row[t].total + d, d = Owed(p, t), Owed(p, t)' = 0,
           \A s \in ShiftId \ {t} : Owed(p, s)' = Owed(p, s) /\ Owed(p, s) \in Int,
           row' = [row EXCEPT ![t].total = n], UNCHANGED <<sale, active>>, CountRight(p)'
    PROVE  Balanced'
<1> SUFFICES ASSUME Clean'
             PROVE  /\ Alone(p)
                    /\ \A s \in ShiftId : row'[s].total + Owed(p, s)' = Cardinality(Paid(s)')
  BY Settle
<1>1. BalancedBy(p)
  BY Owner
<1>2. \A s \in ShiftId : /\ row[s].total \in Nat
                         /\ row[s].total + Owed(p, s) = Cardinality(Paid(s))
                         /\ Paid(s)' = Paid(s)
  BY <1>1, TotalSet DEF BalancedBy, TablesOK, ShiftRow
<1>3. row'[t].total + Owed(p, t)' = Cardinality(Paid(t)')
  <2>1. PICK x, m : x = row[t].total /\ m = row'[t].total
    OBVIOUS
  <2>2. row'[t].total = n
    BY TotalSet
  <2>3. m = n
    BY <2>1, <2>2
  <2>4. x \in Nat /\ n = x + d
    BY <1>2, <2>1
  <2>5. x + d = Cardinality(Paid(t))
    BY <1>2, <2>1
  <2>6. m + 0 = Cardinality(Paid(t))
    BY <2>3, <2>4, <2>5
  <2> QED
    BY <1>2, <2>1, <2>6, Zenon
<1>4. ASSUME NEW s \in ShiftId \ {t} PROVE row'[s].total + Owed(p, s)' = Cardinality(Paid(s)')
  BY <1>2, TotalSet
<1> QED
  BY <1>1, <1>3, <1>4 DEF BalancedBy

LEMMA CreditLooseStep ==
    ASSUME DeskInv, NEW c \in Caller, CreditLoose(c) PROVE DeskInv'
<1> USE DEF DeskInv
<1>1. c \in Process /\ c # Loop /\ Totalling(c)
  BY ProcessAssumption DEF Process, CreditLoose, Totalling, Counting
<1>2. PICK t \in Taken : t = step[c].next
  BY DEF CreditLoose, StepsOK, CallerOK, Beyond, Named
<1>3. PICK d \in Nat : d = step[c].count
  BY DEF StepsOK, CallerOK
<1>4. t \in ShiftId /\ row[t].total \in Nat
  BY <1>2 DEF Taken, TablesOK, ShiftRow
<1>5. PICK n \in Nat : n = row[t].total + d
  BY <1>4
<1>6. row' = [row EXCEPT ![t].total = n] /\ UNCHANGED <<sale, active>>
  BY <1>2, <1>3, <1>5 DEF CreditLoose
<1>7. TablesOK' /\ Taken' = Taken /\ Known' = Known
  BY <1>4, <1>6, TotalSet
<1>8. PICK shifts : step' = [step EXCEPT ![c] = Telling(c, shifts, "load")]
  BY DEF CreditLoose
<1>9. /\ Only(c) /\ step'[c].at = "read" /\ step'[c].then = "load"
      /\ step'[c].over = step[c].over
      /\ step'[c].shift = step[c].shift /\ step'[c].next = step[c].next
      /\ step'[c].since = step[c].since /\ step'[c].began = step[c].began
      /\ step'[c].count = step[c].count
  BY <1>1, <1>8, Tellings
<1>10. CallerOK(c)'
  BY <1>2, <1>7, <1>9 DEF StepsOK, CallerOK, CallerPlaces, Named, Moving, Beyond
<1>11. StepsOK'
  BY <1>1, <1>7, <1>9, <1>10, SameStages, OthersStand DEF CreditLoose
<1>12. /\ CountRight(c)' /\ Owed(c, t)' = 0 /\ d = Owed(c, t) /\ d \in Int
       /\ \A s \in ShiftId \ {t} : Owed(c, s)' = Owed(c, s) /\ Owed(c, s) \in Int
  BY <1>1, <1>2, <1>3, <1>9 DEF CountRight, Owed, CreditLoose
<1>13. Balanced'
  BY <1>1, <1>4, <1>5, <1>6, <1>9, <1>12, Pays DEF Clean, CreditLoose, history
<1> QED
  BY <1>7, <1>11, <1>13

LEMMA TakeStep ==
    ASSUME DeskInv, NEW c \in Caller, Take(c) PROVE DeskInv'
<1> USE DEF DeskInv
<1>1. c \in Process /\ c # Loop /\ Totalling(c)
  BY ProcessAssumption DEF Process, Take, Totalling, Counting
<1>2. PICK t \in Taken : t = step[c].shift
  BY DEF Take, StepsOK, CallerOK, Moving
<1>3. PICK k \in Nat : k = step[c].count
  BY DEF StepsOK, CallerOK
<1>4. t \in ShiftId /\ row[t].total \in Nat
  BY <1>2 DEF Taken, TablesOK, ShiftRow
<1>5. PICK n : n = Less(row[t].total, k)
  OBVIOUS
<1>6. n \in Nat
  BY <1>3, <1>4, <1>5 DEF Less
<1>7. row' = [row EXCEPT ![t].total = n] /\ UNCHANGED <<sale, active>>
  BY <1>2, <1>3, <1>5 DEF Take
<1>8. TablesOK' /\ Taken' = Taken /\ Known' = Known
  BY <1>4, <1>6, <1>7, TotalSet
<1>9. /\ Only(c) /\ step'[c].at = "give"
      /\ step'[c].then = step[c].then /\ step'[c].over = step[c].over
      /\ step'[c].shift = step[c].shift /\ step'[c].next = step[c].next
      /\ step'[c].since = step[c].since /\ step'[c].began = step[c].began
      /\ step'[c].count = step[c].count
  BY <1>1 DEF Take, Goto, StepsOK, Only, Whole
<1>10. CallerOK(c)'
  BY <1>8, <1>9 DEF Take, StepsOK, CallerOK, CallerPlaces, Named, Moving, Beyond
<1>11. StepsOK'
  BY <1>1, <1>8, <1>9, <1>10, SameStages, OthersStand DEF Take
<1>12. step[c].next # t /\ step[c].next \in Taken
  BY <1>2 DEF Take, StepsOK, CallerOK, Beyond, Named, Moving, Taken, ShiftId
<1>13. PICK d \in Int : d = 0 - k
  OBVIOUS
<1>14. /\ CountRight(c)' /\ Owed(c, t)' = 0 /\ d = Owed(c, t)
       /\ \A s \in ShiftId \ {t} : Owed(c, s)' = Owed(c, s) /\ Owed(c, s) \in Int
  BY <1>1, <1>2, <1>3, <1>9, <1>12, <1>13 DEF CountRight, Owed, Take
<1>15. Balanced'
  <2>1. CASE ~Clean
    BY <2>1 DEF Take, history, Balanced, Clean
  <2>2. CASE Clean
    <3>1. row[t].total + d = Cardinality(Paid(t))
      <4>1. BalancedBy(c)
        BY <1>1, <2>2, Owner
      <4>2. row[t].total + Owed(c, t) = Cardinality(Paid(t))
        BY <1>4, <4>1 DEF BalancedBy
      <4> QED
        BY <1>14, <4>2
    <3>2. Cardinality(Paid(t)) \in Nat
      <4>1. t \in Nat
        BY <1>4 DEF ShiftId
      <4> QED
        BY <4>1, CountsSales, Zenon
    <3>3. n = row[t].total + d
      BY <1>3, <1>4, <1>5, <1>13, <3>1, <3>2 DEF Less
    <3> QED
      BY <1>1, <1>4, <1>6, <1>7, <1>9, <1>14, <3>3, Pays DEF Clean, Take, history
  <2> QED
    BY <2>1, <2>2
<1> QED
  BY <1>8, <1>11, <1>15

LEMMA GiveStep ==
    ASSUME DeskInv, NEW c \in Caller, Give(c) PROVE DeskInv'
<1> USE DEF DeskInv
<1>1. c \in Process /\ c # Loop /\ Totalling(c)
  BY ProcessAssumption DEF Process, Give, Totalling, Counting
<1>2. PICK t \in Taken : t = step[c].next
  BY DEF Give, StepsOK, CallerOK, Beyond, Named, Moving
<1>3. PICK d \in Nat : d = step[c].count
  BY DEF StepsOK, CallerOK
<1>4. t \in ShiftId /\ row[t].total \in Nat
  BY <1>2 DEF Taken, TablesOK, ShiftRow
<1>5. PICK n \in Nat : n = row[t].total + d
  BY <1>4
<1>6. row' = [row EXCEPT ![t].total = n] /\ UNCHANGED <<sale, active>>
  BY <1>2, <1>3, <1>5 DEF Give
<1>7. TablesOK' /\ Taken' = Taken /\ Known' = Known
  BY <1>4, <1>6, TotalSet
<1>8. PICK shifts : step' = [step EXCEPT ![c] = Telling(c, shifts, "reload")]
  BY DEF Give
<1>9. /\ Only(c) /\ step'[c].at = "read" /\ step'[c].then = "reload"
      /\ step'[c].over = step[c].over
      /\ step'[c].shift = step[c].shift /\ step'[c].next = step[c].next
      /\ step'[c].since = step[c].since /\ step'[c].began = step[c].began
      /\ step'[c].count = step[c].count
  BY <1>1, <1>8, Tellings
<1>10. CallerOK(c)'
  BY <1>2, <1>7, <1>9 DEF StepsOK, CallerOK, CallerPlaces, Named, Moving, Beyond
<1>11. StepsOK'
  BY <1>1, <1>7, <1>9, <1>10, SameStages, OthersStand DEF Give
<1>12. /\ CountRight(c)' /\ Owed(c, t)' = 0 /\ d = Owed(c, t) /\ d \in Int
       /\ \A s \in ShiftId \ {t} : Owed(c, s)' = Owed(c, s) /\ Owed(c, s) \in Int
  BY <1>1, <1>2, <1>3, <1>9 DEF CountRight, Owed, Give
<1>13. Balanced'
  BY <1>1, <1>4, <1>5, <1>6, <1>9, <1>12, Pays DEF Clean, Give, history
<1> QED
  BY <1>7, <1>11, <1>13

(* A step on the sales that starts and ends none of them. *)
LEMMA SalesStand ==
    ASSUME TablesOK, UNCHANGED row, sale' \in [SaleNo -> SaleState], active'.shift \in Known,
           \A n \in SaleNo : /\ sale'[n].stage = "none" <=> sale[n].stage = "none"
                             /\ sale'[n].shift \in Known
                             /\ sale'[n].unpaid => sale'[n].stage \in InTable
    PROVE  TablesOK' /\ Taken' = Taken /\ Known' = Known
BY TablesKept DEF TablesOK

(* Sales that move from one shift to another are counted once; those of the new *)
(* shift are paid.                                                              *)
LEMMA Rebooks ==
    ASSUME TablesOK, NEW f \in Known, NEW t \in Taken, f # t, NEW moved, moved \subseteq Booked(f),
           Rebook(moved, t), UNCHANGED <<row, active>>
    PROVE  /\ TablesOK' /\ Taken' = Taken /\ Known' = Known /\ StagesStand
           /\ \A s \in ShiftId \ {f, t} : Paid(s)' = Paid(s)
           /\ Cardinality(moved) \in Nat
           /\ moved \subseteq Paid(f) =>
                 Cardinality(Paid(f)') = Cardinality(Paid(f)) - Cardinality(moved)
           /\ Cardinality(Paid(t)') = Cardinality(Paid(t)) + Cardinality(moved)
<1>1. t \in ShiftId /\ t \in Nat /\ t # 0 /\ f \in Nat /\ t \in 0 .. MaxShifts
  BY CapAssumption DEF Known, Taken, ShiftId
<1>2. \A n \in SaleNo : sale'[n] = IF n \in moved
                                  THEN [sale[n] EXCEPT !.shift = t, !.unpaid = FALSE]
                                  ELSE sale[n]
  BY DEF Rebook
<1>3. \A n \in SaleNo : /\ sale'[n].stage = sale[n].stage
                        /\ sale'[n].shift = IF n \in moved THEN t ELSE sale[n].shift
                        /\ sale'[n].unpaid <=> n \notin moved /\ sale[n].unpaid
                        /\ sale'[n] \in SaleState
  <2> TAKE n \in SaleNo
  <2>1. CASE n \in moved
    BY <1>1, <1>2, <2>1 DEF TablesOK, SaleState
  <2>2. CASE n \notin moved
    BY <1>2, <2>2 DEF TablesOK
  <2> QED
    BY <2>1, <2>2
<1>4. sale' \in [SaleNo -> SaleState]
  BY <1>3 DEF Rebook
<1>5. TablesOK' /\ Taken' = Taken /\ Known' = Known
  <2>1. \A n \in SaleNo : sale'[n].shift \in Known
    BY <1>3 DEF TablesOK, Known
  <2> QED
    BY <1>3, <1>4, <2>1, SalesStand DEF TablesOK
<1>6. \A s \in ShiftId \ {f, t} : Paid(s)' = Paid(s)
  BY <1>3 DEF Booked, Paid
<1>7. Paid(f)' = Paid(f) \ moved
  BY <1>3 DEF Booked, Paid
<1>8. Paid(t)' = Paid(t) \cup moved /\ Paid(t) \cap moved = {}
  BY <1>3 DEF Booked, Paid
<1>9. IsFiniteSet(Paid(f)) /\ IsFiniteSet(Paid(t)) /\ IsFiniteSet(moved)
  BY <1>1, CountsSales, FS_Subset
<1>10. ASSUME moved \subseteq Paid(f)
       PROVE  Cardinality(Paid(f)') = Cardinality(Paid(f)) - Cardinality(moved)
  <2>1. Paid(f) \cap moved = moved
    BY <1>10
  <2> QED
    BY <1>7, <1>9, <2>1, FS_Difference
<1>11. Cardinality(Paid(t)') = Cardinality(Paid(t)) + Cardinality(moved)
  <2>1. Cardinality(Paid(t) \cup moved) =
          Cardinality(Paid(t)) + Cardinality(moved) - Cardinality({})
    BY <1>8, <1>9, FS_Union
  <2> QED
    BY <1>8, <1>9, <2>1, FS_EmptySet, FS_CardinalityType
<1>12. StagesStand
  BY <1>3 DEF StagesStand
<1> QED
  BY <1>5, <1>6, <1>9, <1>10, <1>11, <1>12, FS_CardinalityType

LEMMA AssignLooseStep ==
    ASSUME DeskInv, NEW c \in Caller, AssignLoose(c) PROVE DeskInv'
<1> USE DEF DeskInv
<1>1. c \in Process /\ c # Loop /\ Totalling(c)
  BY ProcessAssumption DEF Process, AssignLoose, Totalling, Counting
<1>2. PICK t \in Taken : t = step[c].next
  BY DEF AssignLoose, StepsOK, CallerOK, Beyond, Named
<1>3. PICK k \in Nat : k = step[c].count
  BY DEF StepsOK, CallerOK
<1>4. PICK moved : moved = Since(0, step[c].since)
  OBVIOUS
<1>5. t \in ShiftId /\ t # 0 /\ 0 \in Known
  BY <1>2 DEF Taken, ShiftId, Known
<1>6. moved \subseteq Booked(0) /\ Rebook(moved, t)
  BY <1>2, <1>4 DEF Since, AssignLoose
<1>7. /\ TablesOK' /\ Taken' = Taken /\ Known' = Known /\ StagesStand
      /\ \A s \in ShiftId \ {0, t} : Paid(s)' = Paid(s)
      /\ Cardinality(Paid(t)') = Cardinality(Paid(t)) + Cardinality(moved)
  BY <1>5, <1>6, Rebooks DEF AssignLoose
<1>8. /\ Only(c) /\ step'[c].at = "credit"
      /\ step'[c].then = step[c].then /\ step'[c].over = step[c].over
      /\ step'[c].shift = step[c].shift /\ step'[c].next = step[c].next
      /\ step'[c].since = step[c].since /\ step'[c].began = step[c].began
      /\ step'[c].count = step[c].count
  BY <1>1 DEF AssignLoose, Goto, StepsOK, Only, Whole
<1>9. CallerOK(c)'
  BY <1>2, <1>7, <1>8 DEF AssignLoose, StepsOK, CallerOK, CallerPlaces, Named, Moving, Beyond
<1>10. StepsOK'
  BY <1>1, <1>7, <1>8, <1>9, OthersStand
<1>11. CountRight(c)' /\ Owed(c, t)' = k /\ \A s \in ShiftId \ {t} : Owed(c, s)' = 0
  BY <1>1, <1>2, <1>3, <1>8 DEF CountRight, Owed
<1>12. \A s \in ShiftId : Owed(c, s) = 0
  BY <1>1 DEF Owed, AssignLoose
<1>13. Balanced'
  <2> SUFFICES ASSUME Clean'
               PROVE  /\ Alone(c) /\ row'[t].total + Owed(c, t)' = Cardinality(Paid(t)')
                      /\ \A s \in ShiftId \ {t} :
                            row'[s].total + Owed(c, s)' = Cardinality(Paid(s)')
    BY <1>1, <1>8, <1>11, Settle
  <2>1. BalancedBy(c)
    BY <1>1, Owner DEF AssignLoose, history, Clean
  <2>2. Cardinality(moved) = k
    BY <1>1, <1>3, <1>4, <2>1 DEF BalancedBy, CountRight, AssignLoose
  <2>3. \A s \in ShiftId : row[s].total \in Nat /\ row'[s].total = row[s].total
                           /\ row[s].total = Cardinality(Paid(s))
    BY <1>12, <2>1 DEF BalancedBy, TablesOK, ShiftRow, AssignLoose
  <2>4. row'[t].total + Owed(c, t)' = Cardinality(Paid(t)')
    BY <1>5, <1>7, <1>11, <2>2, <2>3
  <2>5. \A s \in ShiftId \ {t} : row'[s].total + Owed(c, s)' = Cardinality(Paid(s)')
    BY <1>7, <1>11, <2>3 DEF ShiftId
  <2> QED
    BY <2>1, <2>4, <2>5 DEF BalancedBy
<1> QED
  BY <1>7, <1>10, <1>13

LEMMA MoveStep ==
    ASSUME DeskInv, NEW c \in Caller, Move(c) PROVE DeskInv'
<1> USE DEF DeskInv
<1>1. c \in Process /\ c # Loop /\ Totalling(c)
  BY ProcessAssumption DEF Process, Move, Totalling, Counting
<1>2. PICK t \in Taken : t = step[c].next
  BY DEF Move, StepsOK, CallerOK, Beyond, Named, Moving
<1>3. PICK f \in Taken : f = step[c].shift
  BY DEF Move, StepsOK, CallerOK, Moving
<1>4. PICK k \in Nat : k = step[c].count
  BY DEF StepsOK, CallerOK
<1>5. PICK moved : moved = Since(f, step[c].since)
  OBVIOUS
<1>6. t \in ShiftId /\ f \in ShiftId /\ f \in Known /\ f # t
  BY <1>2, <1>3 DEF Taken, ShiftId, Known, StepsOK, CallerOK
<1>7. moved \subseteq Booked(f) /\ Rebook(moved, t)
  BY <1>2, <1>3, <1>5 DEF Since, Move
<1>8. /\ TablesOK' /\ Taken' = Taken /\ Known' = Known /\ StagesStand
      /\ \A s \in ShiftId \ {f, t} : Paid(s)' = Paid(s)
      /\ moved \subseteq Paid(f) =>
            Cardinality(Paid(f)') = Cardinality(Paid(f)) - Cardinality(moved)
      /\ Cardinality(Paid(t)') = Cardinality(Paid(t)) + Cardinality(moved)
  BY <1>6, <1>7, Rebooks DEF Move
<1>9. /\ Only(c) /\ step'[c].at = "take"
      /\ step'[c].then = step[c].then /\ step'[c].over = step[c].over
      /\ step'[c].shift = step[c].shift /\ step'[c].next = step[c].next
      /\ step'[c].since = step[c].since /\ step'[c].began = step[c].began
      /\ step'[c].count = step[c].count
  BY <1>1 DEF Move, Goto, StepsOK, Only, Whole
<1>10. CallerOK(c)'
  BY <1>2, <1>3, <1>8, <1>9 DEF Move, StepsOK, CallerOK, CallerPlaces, Named, Moving, Beyond
<1>11. StepsOK'
  BY <1>1, <1>8, <1>9, <1>10, OthersStand
<1>12. /\ CountRight(c)' /\ Owed(c, t)' = k /\ Owed(c, f)' = 0 - k
       /\ \A s \in ShiftId \ {f, t} : Owed(c, s)' = 0
  BY <1>1, <1>2, <1>3, <1>4, <1>6, <1>9 DEF CountRight, Owed
<1>13. \A s \in ShiftId : Owed(c, s) = 0
  BY <1>1 DEF Owed, Move
<1>14. Balanced'
  <2> SUFFICES ASSUME Clean'
               PROVE  /\ Alone(c) /\ row'[t].total + Owed(c, t)' = Cardinality(Paid(t)')
                      /\ row'[f].total + Owed(c, f)' = Cardinality(Paid(f)')
                      /\ \A s \in ShiftId \ {f, t} :
                            row'[s].total + Owed(c, s)' = Cardinality(Paid(s)')
    BY <1>1, <1>9, <1>12, Settle
  <2>1. BalancedBy(c) /\ moved \subseteq Paid(f)
    <3>1. Clean /\ ~\E n \in moved : sale[n].unpaid
      BY <1>3, <1>5 DEF Move, Strays, Clean
    <3> QED
      BY <1>1, <1>7, <3>1, Owner DEF Paid
  <2>2. Cardinality(moved) = k
    BY <1>1, <1>3, <1>4, <1>5, <2>1 DEF BalancedBy, CountRight, Move
  <2>3. \A s \in ShiftId : row[s].total \in Nat /\ row'[s].total = row[s].total
                           /\ row[s].total = Cardinality(Paid(s))
    BY <1>13, <2>1 DEF BalancedBy, TablesOK, ShiftRow, Move
  <2>4. row'[t].total + Owed(c, t)' = Cardinality(Paid(t)')
    BY <1>6, <1>8, <1>12, <2>2, <2>3
  <2>5. row'[f].total + Owed(c, f)' = Cardinality(Paid(f)')
    BY <1>6, <1>8, <1>12, <2>1, <2>2, <2>3
  <2>6. \A s \in ShiftId \ {f, t} : row'[s].total + Owed(c, s)' = Cardinality(Paid(s)')
    BY <1>8, <1>12, <2>3
  <2> QED
    BY <2>1, <2>4, <2>5, <2>6 DEF BalancedBy
<1> QED
  BY <1>8, <1>11, <1>14

LEMMA InsertStep ==
    ASSUME DeskInv, NEW c \in Caller, Insert(c) PROVE DeskInv'
<1> USE DEF DeskInv
<1>1. c \in Process /\ c # Loop /\ ~Totalling(c)
  BY ProcessAssumption DEF Process, Insert, Totalling, Counting
<1>2. PICK t \in Nat : t = Opened + 1
  BY NumbersBegun
<1>3. t \in ShiftId /\ t \notin Taken /\ t # 0 /\ Taken = 1 .. Opened
  BY <1>2, NumbersBegun, CapAssumption DEF Insert, ShiftId, TablesOK
<1>4. PICK b \in Nat : b = step[c].began
  BY DEF StepsOK, CallerOK
<1>5. PICK fresh \in ShiftRow : /\ fresh = [status |-> "ACTIVE", began |-> b, total |-> 0]
                                /\ fresh.status = "ACTIVE" /\ fresh.total = 0
  <2>1. [status |-> "ACTIVE", began |-> b, total |-> 0] \in ShiftRow
    BY DEF ShiftRow
  <2> QED
    BY <2>1
<1>6. row' = [row EXCEPT ![t] = fresh]
  BY <1>2, <1>4, <1>5 DEF Insert
<1>7. /\ row' \in [ShiftId -> ShiftRow] /\ row'[t].total = 0 /\ row'[t].status = "ACTIVE"
      /\ \A s \in ShiftId \ {t} : row'[s] = row[s]
  BY <1>3, <1>5, <1>6 DEF TablesOK
<1>8. Taken' = Taken \cup {t}
  BY <1>3, <1>7 DEF Taken
<1>9. TablesOK' /\ Known \subseteq Known'
  <2>1. Opened' = Opened + 1
    <3>1. Opened = Cardinality(Taken) /\ Opened' = Cardinality(Taken')
      BY DEF Opened, Taken
    <3>2. IsFiniteSet(Taken)
      BY <1>3, NumbersBegun, FS_Interval
    <3>3. Cardinality(Taken \cup {t}) = Cardinality(Taken) + 1
      BY <1>3, <3>2, FS_AddElement
    <3> QED
      BY <1>8, <3>1, <3>3
  <2>2. Taken' = 1 .. Opened'
    BY <1>2, <1>3, <1>8, <2>1, NumbersBegun
  <2>3. Begun' = Begun /\ Started' = Started
    BY DEF Begun, Started, Insert
  <2>4. Known \subseteq Known'
    BY <1>8 DEF Known
  <2> QED
    BY <1>7, <2>2, <2>3, <2>4 DEF TablesOK, Insert
<1>10. PICK then \in {"load", "count"} :
        then = IF step[c].since = 0 THEN "load" ELSE "count"
  OBVIOUS
<1>11. PICK r : step' = [step EXCEPT ![c] =
                  [@ EXCEPT !.at = "send", !.next = t, !.began = 0, !.tell = <<t>>,
                            !.seen = {r}, !.then = then]]
  BY <1>2, <1>10 DEF Insert
<1>12. /\ Only(c) /\ step'[c].at = "send" /\ step'[c].then = then
       /\ step'[c].over = step[c].over
       /\ step'[c].shift = step[c].shift /\ step'[c].next = t
       /\ step'[c].since = step[c].since /\ step'[c].began = 0
       /\ step'[c].count = step[c].count
  <2>1. step = [q \in Process |-> step[q]] /\ Whole(step[c])
    BY <1>1 DEF StepsOK
  <2>2. step' = [step EXCEPT ![c] =
                  [step[c] EXCEPT !.at = "send", !.next = t, !.began = 0, !.tell = <<t>>,
                                  !.seen = {r}, !.then = then]]
    BY <1>11
  <2>3. step'[c] = [at |-> "send", shift |-> step[c].shift, next |-> t,
                    since |-> step[c].since, began |-> 0, count |-> step[c].count,
                    over |-> step[c].over, sale |-> step[c].sale, tell |-> <<t>>,
                    seen |-> {r}, then |-> then]
    BY <1>1, <2>1, <2>2 DEF Whole
  <2>4. Only(c)
    BY <1>1, <2>1, <2>2, <2>3 DEF Only, Whole
  <2> QED
    BY <2>3, <2>4
<1>13. CallerOK(c)'
  <2>1. step[c].shift \in Known /\ step[c].shift # t
    BY <1>3 DEF StepsOK, CallerOK, Known
  <2>2. step[c].shift \in Known' /\ t \in Known' /\ t \in Taken' /\ Taken \subseteq Taken'
    BY <1>8, <2>1 DEF Known
  <2> QED
    BY <1>1, <1>10, <1>12, <2>1, <2>2
       DEF Insert, StepsOK, CallerOK, CallerPlaces, Named, Moving, Beyond
<1>14. StepsOK'
  BY <1>1, <1>8, <1>12, <1>13, SameStages, OthersStand DEF Insert
<1>15. Balanced'
  <2>1. CASE ~Clean
    BY <2>1 DEF Balanced, Insert, history, Clean
  <2>2. CASE Clean
    <3>1. PICK o \in Process : BalancedBy(o)
      BY <2>2 DEF Balanced
    <3>2. Paid(t) = {}
      BY <1>3 DEF Booked, Paid, TablesOK, Known
    <3>3. Owed(o, t) = 0
      <4>1. CASE o = Loop
        BY <1>3, <4>1 DEF Owed, StepsOK, LoopOK, Known
      <4>2. CASE o # Loop
        <5>1. step[o].shift # t /\ step[o].next # t
          BY <1>3, <4>2 DEF Process, StepsOK, CallerOK, Known
        <5> QED
          BY <4>2, <5>1 DEF Owed
      <4> QED
        BY <4>1, <4>2
    <3>4. row[t].total = 0
      <4>1. row[t].total + Owed(o, t) = Cardinality(Paid(t)) /\ row[t].total \in Nat
        BY <1>3, <3>1 DEF BalancedBy, TablesOK, ShiftRow
      <4> QED
        BY <3>2, <3>3, <4>1, FS_EmptySet
    <3>5. SameBooks
      BY <1>7, <3>4 DEF SameBooks, Booked, Paid, Insert
    <3>6. ~Totalling(c)' /\ CountRight(c)' /\ \A s \in ShiftId : Owed(c, s)' = Owed(c, s)
      BY <1>1, <1>12 DEF Totalling, Counting, CountRight, Owed, Insert
    <3> QED
      BY <1>1, <1>12, <3>5, <3>6, Calm DEF Clean, Insert, history
  <2> QED
    BY <2>1, <2>2
<1> QED
  BY <1>9, <1>14, <1>15

----------------------------------------------------------------------------
(* Sales. *)

LEMMA OrderStep == ASSUME DeskInv, Order PROVE DeskInv'
<1> USE DEF DeskInv
<1>1. PICK n \in Nat : n = Started + 1
  BY NumbersBegun
<1>2. n \in SaleNo /\ n \notin Begun /\ Begun = 1 .. Started
  BY <1>1, NumbersBegun, CapAssumption DEF Order, SaleNo, TablesOK
<1>3. PICK s \in Known : s = IF atomic THEN active.shift ELSE 0
  BY DEF TablesOK, Known
<1>4. PICK fresh : /\ fresh = [stage |-> "open", shift |-> s, unpaid |-> FALSE]
                   /\ fresh \in SaleState /\ fresh.stage = "open" /\ fresh.shift = s
                   /\ ~fresh.unpaid
  <2>1. [stage |-> "open", shift |-> s, unpaid |-> FALSE] \in SaleState
    BY CapAssumption DEF SaleState, Known, Taken, ShiftId
  <2> QED
    BY <2>1
<1>5. sale' = [sale EXCEPT ![n] = fresh]
  BY <1>1, <1>3, <1>4 DEF Order
<1>6. /\ sale' \in [SaleNo -> SaleState] /\ sale'[n].stage = "open" /\ sale'[n].shift = s
      /\ ~sale'[n].unpaid
      /\ \A m \in SaleNo \ {n} : sale'[m] = sale[m]
  BY <1>2, <1>4, <1>5 DEF TablesOK
<1>7. sale[n].stage = "none" /\ ~sale[n].unpaid
  BY <1>2 DEF Begun, TablesOK, InTable
<1>8. TablesOK' /\ Taken' = Taken
  <2>1. Begun' = Begun \cup {n}
    BY <1>2, <1>6 DEF Begun
  <2>2. Started' = Started + 1
    <3>1. Started = Cardinality(Begun) /\ Started' = Cardinality(Begun')
      BY DEF Started, Begun
    <3>2. IsFiniteSet(Begun)
      BY <1>2, NumbersBegun, FS_Interval
    <3>3. Cardinality(Begun \cup {n}) = Cardinality(Begun) + 1
      BY <1>2, <3>2, FS_AddElement
    <3> QED
      BY <2>1, <3>1, <3>3
  <2>3. Begun' = 1 .. Started'
    BY <1>1, <1>2, <2>1, <2>2, NumbersBegun
  <2>4. Taken' = Taken /\ Opened' = Opened /\ Known' = Known
    BY DEF Taken, Opened, Known, Order
  <2>5. \A m \in SaleNo : sale'[m].shift \in Known
    BY <1>6 DEF TablesOK
  <2> QED
    BY <1>6, <2>3, <2>4, <2>5 DEF TablesOK, Order
<1>9. Loop \in Process /\ Only(Loop)
  BY DEF Process, Order, Only, StepsOK
<1>10. LoopOK' /\ StepsOK'
  <2>1. LoopOK'
    BY <1>8 DEF LoopOK, StepsOK, Order, Known
  <2> QED
    BY <1>8, <1>9, <2>1, OthersStand, ProcessAssumption
<1>11. SameBooks
  BY <1>6, <1>7 DEF SameBooks, Booked, Paid, InTable, Order
<1>12. /\ Totalling(Loop)' = Totalling(Loop)
       /\ CountRight(Loop)' /\ \A u \in ShiftId : Owed(Loop, u)' = Owed(Loop, u)
  BY DEF Order, Totalling, CountRight, Owed
<1>13. Balanced'
  BY <1>9, <1>11, <1>12, Calm DEF Clean, Order, history
<1> QED
  BY <1>8, <1>10, <1>13

(* The row of a sale that ends: of an open one with the shift given, of a paused *)
(* one with its own.                                                            *)
LEMMA Books ==
    ASSUME TablesOK, NEW n \in SaleNo, NEW s \in Known, NEW stage \in {"booked", "stopped"},
           Book(n, s, stage), sale[n].stage \in {"open", "paused"},
           sale[n].stage = "paused" => s = sale[n].shift
    PROVE  /\ sale' \in [SaleNo -> SaleState]
           /\ sale'[n].stage = stage /\ sale'[n].shift = s
           /\ sale'[n].unpaid <=> sale[n].unpaid
           /\ \A m \in SaleNo \ {n} : sale'[m] = sale[m]
           /\ \A m \in SaleNo : /\ sale'[m].stage = "none" <=> sale[m].stage = "none"
                                /\ sale'[m].shift \in Known
                                /\ sale'[m].unpaid => sale'[m].stage \in InTable
           /\ sale[n].stage = "open" => ~sale[n].unpaid
<1>1. PICK done : done = [sale[n] EXCEPT !.stage = stage, !.shift = s]
  OBVIOUS
<1>2. /\ done \in SaleState /\ done.stage = stage /\ done.shift = s
      /\ done.unpaid <=> sale[n].unpaid
  <2>1. s \in 0 .. MaxShifts
    BY CapAssumption DEF Known, Taken, ShiftId
  <2>2. sale[n] \in SaleState
    BY DEF TablesOK
  <2> QED
    BY <1>1, <2>1, <2>2 DEF SaleState
<1>3. sale' = [sale EXCEPT ![n] = done]
  <2>1. sale' = [sale EXCEPT ![n] = [sale[n] EXCEPT !.stage = stage, !.shift = s]]
    BY DEF Book
  <2> QED
    BY <1>1, <2>1
<1>4. /\ sale' \in [SaleNo -> SaleState] /\ sale'[n] = done
      /\ \A m \in SaleNo \ {n} : sale'[m] = sale[m]
  BY <1>2, <1>3 DEF TablesOK
<1>5. \A m \in SaleNo : /\ sale'[m].stage = "none" <=> sale[m].stage = "none"
                        /\ sale'[m].shift \in Known
                        /\ sale'[m].unpaid => sale'[m].stage \in InTable
  BY <1>2, <1>4 DEF TablesOK, InTable
<1>6. sale[n].stage = "open" => ~sale[n].unpaid
  BY DEF TablesOK, InTable
<1> QED
  BY <1>2, <1>4, <1>5, <1>6

(* A sale that is booked is one more of its shift. *)
LEMMA BooksOne ==
    ASSUME TablesOK, NEW n \in SaleNo, sale[n].stage = "open", NEW s \in Known,
           NEW stage \in {"booked", "stopped"}, Book(n, s, stage)
    PROVE  /\ \A u \in 0 .. MaxShifts : u # s => Paid(u)' = Paid(u)
           /\ Cardinality(Paid(s)') = Cardinality(Paid(s)) + 1
<1>1. /\ sale'[n].stage = stage /\ sale'[n].shift = s /\ ~sale'[n].unpaid
      /\ \A m \in SaleNo \ {n} : sale'[m] = sale[m]
  BY Books
<1>2. \A u \in 0 .. MaxShifts : u # s => Paid(u)' = Paid(u)
  BY <1>1 DEF Booked, Paid, InTable
<1>3. Paid(s)' = Paid(s) \cup {n} /\ n \notin Paid(s)
  BY <1>1 DEF Booked, Paid, InTable
<1>4. IsFiniteSet(Paid(s))
  <2>1. s \in Nat
    BY DEF Known, Taken, ShiftId
  <2> QED
    BY <2>1, CountsSales
<1>5. Cardinality(Paid(s) \cup {n}) = Cardinality(Paid(s)) + 1
  BY <1>3, <1>4, FS_AddElement
<1> QED
  BY <1>2, <1>3, <1>5

(* The row of a paused sale is completed: nothing is paid yet. *)
LEMMA BooksPaused ==
    ASSUME TablesOK, NEW n \in SaleNo, sale[n].stage = "paused",
           NEW stage \in {"booked", "stopped"}, sale[n].shift \in Known,
           Book(n, sale[n].shift, stage)
    PROVE  \A u : Paid(u)' = Paid(u)
<1>1. /\ sale'[n].stage = stage /\ sale'[n].shift = sale[n].shift
      /\ sale'[n].unpaid <=> sale[n].unpaid
      /\ \A m \in SaleNo \ {n} : sale'[m] = sale[m]
  BY Books
<1> QED
  BY <1>1 DEF Booked, Paid, InTable

LEMMA Credits ==
    ASSUME TablesOK, NEW s \in Known, Credit(s)
    PROVE  /\ row' \in [ShiftId -> ShiftRow]
           /\ \A u \in ShiftId : /\ row[u].total \in Nat
                                 /\ row'[u].status = row[u].status
                                 /\ u # s => row'[u].total = row[u].total
           /\ s \in ShiftId => row'[s].total = row[s].total + 1
<1>1. CASE s = 0
  BY <1>1 DEF Credit, TablesOK, ShiftRow, ShiftId
<1>2. CASE s # 0
  <2>1. s \in ShiftId
    BY <1>2 DEF Known, Taken
  <2>2. row' = [row EXCEPT ![s].total = @ + 1]
    BY <1>2 DEF Credit
  <2>3. row[s].total + 1 \in Nat
    BY <2>1 DEF TablesOK, ShiftRow
  <2> QED
    BY <2>1, <2>2, <2>3 DEF TablesOK, ShiftRow
<1> QED
  BY <1>1, <1>2

(* The copy in memory has its two fields. *)
Copied == active = [shift |-> active.shift, total |-> active.total]

LEMMA MirrorKeeps ==
    ASSUME Copied, NEW s, Mirror(s) PROVE Copied' /\ active'.shift = active.shift
BY DEF Mirror, Copied

LEMMA LoopIsProcess == Loop \in Process /\ Loop \notin Caller
BY ProcessAssumption DEF Process

LEMMA CommitSaleStep ==
    ASSUME DeskInv, Copied, NEW n \in SaleNo, CommitSale(n) PROVE DeskInv'
<1> USE DEF DeskInv
<1>1. PICK s \in Known : s = sale[n].shift
  BY DEF TablesOK
<1>2. Book(n, s, "booked") /\ Credit(s) /\ Mirror(s) /\ sale[n].stage = "open" /\ UNCHANGED step
  BY <1>1 DEF CommitSale
<1>3. TablesOK' /\ Taken' = Taken /\ Known' = Known
  <2>1. active'.shift \in Known
    BY <1>2, MirrorKeeps DEF TablesOK
  <2>2. /\ sale' \in [SaleNo -> SaleState] /\ row' \in [ShiftId -> ShiftRow]
        /\ \A u \in ShiftId : row'[u].status = row[u].status
    BY <1>2, Books, Credits
  <2>3. \A m \in SaleNo : /\ sale'[m].stage = "none" <=> sale[m].stage = "none"
                          /\ sale'[m].shift \in Known
                          /\ sale'[m].unpaid => sale'[m].stage \in InTable
    BY <1>2, Books
  <2> QED
    BY <2>1, <2>2, <2>3, TablesKept
<1>4. Loop \in Process /\ Only(Loop) /\ step[Loop].at = "idle" /\ ~Totalling(Loop)
  BY <1>2 DEF Process, CommitSale, Only, StepsOK, Totalling
<1>5. StepsOK'
  <2>1. LoopOK'
    BY <1>2, <1>3, <1>4 DEF LoopOK, StepsOK
  <2> QED
    BY <1>3, <1>4, <2>1, OthersStand, ProcessAssumption
<1>6. CountRight(Loop)' /\ \A u \in ShiftId : Owed(Loop, u)' = 0
  BY <1>2, <1>4 DEF CountRight, Owed
<1>7. Balanced'
  <2>1. ASSUME Clean'
        PROVE  Alone(Loop) /\ \A u \in ShiftId : row'[u].total + 0 = Cardinality(Paid(u)')
    <3>1. Alone(Loop) /\ \A u \in ShiftId : row[u].total = Cardinality(Paid(u))
      BY <1>4, <2>1, LoopIsProcess, Entering DEF CommitSale, Overlap, Clean
    <3>2. ASSUME NEW u \in ShiftId, u # s PROVE row'[u].total + 0 = Cardinality(Paid(u)')
      <4>1. Paid(u)' = Paid(u)
        BY <1>2, <3>2, BooksOne DEF ShiftId
      <4>2. row'[u].total = row[u].total /\ row[u].total \in Nat
        BY <1>2, <3>2, Credits
      <4> QED
        BY <3>1, <4>1, <4>2
    <3>3. ASSUME s \in ShiftId PROVE row'[s].total + 0 = Cardinality(Paid(s)')
      <4>1. row'[s].total = row[s].total + 1 /\ row[s].total \in Nat
        BY <1>2, <3>3, Credits
      <4>2. Cardinality(Paid(s)') = Cardinality(Paid(s)) + 1
        BY <1>2, BooksOne
      <4> QED
        BY <3>1, <3>3, <4>1, <4>2
    <3> QED
      BY <3>1, <3>2, <3>3
  <2> QED
    BY <1>4, <1>6, <2>1, Settle
<1> QED
  BY <1>3, <1>5, <1>7

(* The loop stops between reading the active shift and the row. *)
LEMMA StampedStep ==
    ASSUME DeskInv, NEW n \in SaleNo, NEW place, Stamped(n, place),
           \/ place = "pause" /\ sale[n].stage = "open"
           \/ place = "persist" /\ sale[n].stage \in {"open", "paused"}
    PROVE  DeskInv'
<1> USE DEF DeskInv
<1>1. TablesOK' /\ Taken' = Taken /\ Known' = Known
  BY TablesStand DEF TablesOK, Stamped
<1>2. PICK s \in Known : s = active.shift
  BY DEF TablesOK
<1>3. /\ Only(Loop) /\ step'[Loop].at = place /\ step'[Loop].sale = n
      /\ step'[Loop].shift = s /\ step'[Loop].then = step[Loop].then
  <2>1. step = [q \in Process |-> step[q]] /\ Whole(step[Loop])
    BY LoopIsProcess DEF StepsOK
  <2>2. step' = [step EXCEPT ![Loop].at = place, ![Loop].sale = n, ![Loop].shift = s]
    BY <1>2 DEF Stamped
  <2>3. step'[Loop] = [at |-> place, shift |-> s, next |-> step[Loop].next,
                       since |-> step[Loop].since, began |-> step[Loop].began,
                       count |-> step[Loop].count, over |-> step[Loop].over, sale |-> n,
                       tell |-> step[Loop].tell, seen |-> step[Loop].seen,
                       then |-> step[Loop].then]
    BY LoopIsProcess, <2>1, <2>2 DEF Whole
  <2>4. Only(Loop)
    BY LoopIsProcess, <2>1, <2>2, <2>3 DEF Only, Whole
  <2> QED
    BY <2>3, <2>4
<1>4. LoopOK'
  BY <1>1, <1>2, <1>3 DEF Stamped, LoopOK, StepsOK
<1>5. StepsOK'
  BY <1>1, <1>3, <1>4, LoopIsProcess, OthersStand
<1>6. ~Totalling(Loop) /\ ~Totalling(Loop)'
  BY <1>3 DEF Totalling, Stamped
<1>7. Balanced'
  BY <1>3, <1>6, LoopIsProcess, Aside DEF Clean, Stamped, history
<1> QED
  BY <1>1, <1>5, <1>7

LEMMA PauseSaleStep == ASSUME DeskInv, NEW n \in SaleNo, PauseSale(n) PROVE DeskInv'
BY StampedStep DEF PauseSale

LEMMA CloseSaleStep == ASSUME DeskInv, NEW n \in SaleNo, CloseSale(n) PROVE DeskInv'
BY StampedStep DEF CloseSale

LEMMA PauseFailsStep == ASSUME DeskInv, PauseFails PROVE DeskInv'
<1> USE DEF DeskInv
<1>1. TablesOK' /\ Taken' = Taken /\ Known' = Known
  BY TablesStand DEF TablesOK, PauseFails
<1>2. Only(Loop) /\ ~Totalling(Loop)' /\ LoopOK'
  BY LoopIsProcess, Rests DEF PauseFails
<1>3. StepsOK'
  BY <1>1, <1>2, LoopIsProcess, OthersStand
<1>4. ~Totalling(Loop)
  BY DEF Totalling, PauseFails
<1>5. Balanced'
  BY <1>2, <1>4, LoopIsProcess, Aside DEF Clean, PauseFails, history
<1> QED
  BY <1>1, <1>3, <1>5

(* A paused sale is a row of its shift, and in no total yet. *)
LEMMA InsertPausedStep == ASSUME DeskInv, InsertPaused PROVE DeskInv'
<1> USE DEF DeskInv
<1>1. PICK n \in SaleNo : n = step[Loop].sale /\ sale[n].stage = "open"
  BY DEF InsertPaused, StepsOK, LoopOK
<1>2. PICK s \in Known : s = step[Loop].shift
  BY DEF StepsOK, LoopOK
<1>3. PICK held : /\ held = [stage |-> "paused", shift |-> s, unpaid |-> TRUE]
                  /\ held \in SaleState /\ held.stage = "paused" /\ held.shift = s
                  /\ held.unpaid
  <2>1. [stage |-> "paused", shift |-> s, unpaid |-> TRUE] \in SaleState
    BY CapAssumption DEF SaleState, Known, Taken, ShiftId
  <2> QED
    BY <2>1
<1>4. sale' = [sale EXCEPT ![n] = held]
  BY <1>1, <1>2, <1>3 DEF InsertPaused
<1>5. /\ sale' \in [SaleNo -> SaleState] /\ sale'[n] = held
      /\ \A m \in SaleNo \ {n} : sale'[m] = sale[m]
  BY <1>3, <1>4 DEF TablesOK
<1>6. TablesOK' /\ Taken' = Taken /\ Known' = Known
  <2>1. \A m \in SaleNo : /\ sale'[m].stage = "none" <=> sale[m].stage = "none"
                          /\ sale'[m].shift \in Known
                          /\ sale'[m].unpaid => sale'[m].stage \in InTable
    BY <1>1, <1>3, <1>5 DEF TablesOK, InTable
  <2> QED
    BY <1>5, <2>1, SalesStand DEF InsertPaused, TablesOK
<1>7. Only(Loop) /\ ~Totalling(Loop)' /\ LoopOK' /\ step'[Loop] = Idle
  BY LoopIsProcess, Rests DEF InsertPaused
<1>8. StepsOK'
  BY <1>6, <1>7, LoopIsProcess, OthersStand
<1>9. CountRight(Loop)' /\ ~Totalling(Loop) /\ \A u \in ShiftId : Owed(Loop, u)' = 0
  BY <1>7 DEF CountRight, Owed, Totalling, InsertPaused, Idle
<1>10. \A u : Paid(u)' = Paid(u)
  BY <1>1, <1>3, <1>5 DEF Paid, Booked, InTable
<1>11. Balanced'
  <2>1. ASSUME Clean'
        PROVE  /\ Alone(Loop)
               /\ \A u \in ShiftId : row'[u].total + Owed(Loop, u)' = Cardinality(Paid(u)')
    <3>1. Alone(Loop) /\ \A u \in ShiftId : row[u].total = Cardinality(Paid(u))
      BY <1>9, <2>1, LoopIsProcess, Entering DEF InsertPaused, Overlap, Clean
    <3>2. \A u \in ShiftId : row'[u].total = row[u].total /\ row[u].total \in Nat
      BY DEF InsertPaused, TablesOK, ShiftRow
    <3> QED
      BY <1>9, <1>10, <3>1, <3>2
  <2> QED
    BY <1>7, <1>9, <2>1, LoopIsProcess, Settle
<1> QED
  BY <1>6, <1>8, <1>11

(* An open sale is owed to the total of the shift that was read; a paused one that *)
(* is in no total yet is owed nothing until it is credited.                        *)
LEMMA PersistStep == ASSUME DeskInv, Persist PROVE DeskInv'
<1> USE DEF DeskInv
<1>1. PICK n \in SaleNo : n = step[Loop].sale
  BY DEF Persist, StepsOK, LoopOK
<1>2. PICK s \in Known : s = step[Loop].shift
  BY DEF StepsOK, LoopOK
<1>3. PICK stage \in {"booked", "stopped"}, f \in Known :
        /\ Book(n, f, stage)
        /\ \/ sale[n].stage = "open" /\ f = s
           \/ sale[n].stage = "paused" /\ f = sale[n].shift
  BY <1>1, <1>2 DEF Persist, TablesOK
<1>4. /\ sale' \in [SaleNo -> SaleState] /\ sale'[n].stage = stage
      /\ sale'[n].unpaid <=> sale[n].unpaid
      /\ sale[n].stage = "open" => ~sale[n].unpaid
      /\ \A m \in SaleNo : /\ sale'[m].stage = "none" <=> sale[m].stage = "none"
                           /\ sale'[m].shift \in Known
                           /\ sale'[m].unpaid => sale'[m].stage \in InTable
  BY <1>3, Books
<1>5. TablesOK' /\ Taken' = Taken /\ Known' = Known
  BY <1>4, SalesStand DEF Persist, TablesOK
<1>6. /\ Only(Loop) /\ step'[Loop].at = "tellSale" /\ step'[Loop].sale = n
      /\ step'[Loop].shift = s /\ step'[Loop].then = step[Loop].then
  BY <1>1, <1>2, LoopIsProcess DEF Persist, Goto, StepsOK, Only, Whole
<1>7. LoopOK'
  BY <1>4, <1>5, <1>6 DEF LoopOK, StepsOK
<1>8. StepsOK'
  BY <1>5, <1>6, <1>7, LoopIsProcess, OthersStand
<1>9. /\ CountRight(Loop)' /\ ~Totalling(Loop)
      /\ \A u \in ShiftId : Owed(Loop, u)' = IF u = s /\ ~sale[n].unpaid THEN 1 ELSE 0
  BY <1>4, <1>6 DEF CountRight, Owed, Totalling, Persist
<1>10. Balanced'
  <2>1. ASSUME Clean'
        PROVE  /\ Alone(Loop)
               /\ \A u \in ShiftId : row'[u].total + Owed(Loop, u)' = Cardinality(Paid(u)')
    <3>1. ~mixed' /\ ~astray /\ (sale[n].stage = "paused" => sale[n].unpaid)
      BY <1>1, <2>1 DEF Persist, Clean
    <3>2. Alone(Loop) /\ \A u \in ShiftId : row[u].total = Cardinality(Paid(u))
      BY <1>9, <3>1, LoopIsProcess, Entering DEF Persist
    <3>3. \A u \in ShiftId : row'[u].total = row[u].total /\ row[u].total \in Nat
      BY DEF Persist, TablesOK, ShiftRow
    <3>4. ASSUME NEW u \in ShiftId
          PROVE  row'[u].total + Owed(Loop, u)' = Cardinality(Paid(u)')
      <4>1. CASE sale[n].stage = "paused"
        <5>1. Paid(u)' = Paid(u)
          BY <1>3, <4>1, BooksPaused
        <5> QED
          BY <1>9, <3>1, <3>2, <3>3, <4>1, <5>1
      <4>2. CASE sale[n].stage = "open" /\ u # s
        <5>1. Paid(u)' = Paid(u)
          BY <1>3, <4>2, BooksOne DEF ShiftId
        <5> QED
          BY <1>9, <3>2, <3>3, <4>2, <5>1
      <4>3. CASE sale[n].stage = "open" /\ u = s
        <5>1. Cardinality(Paid(u)') = Cardinality(Paid(u)) + 1
          BY <1>3, <4>3, BooksOne
        <5>2. Owed(Loop, u)' = 1
          BY <1>4, <1>9, <4>3
        <5> QED
          BY <3>2, <3>3, <5>1, <5>2
      <4> QED
        BY <1>3, <4>1, <4>2, <4>3
    <3> QED
      BY <3>2, <3>4
  <2> QED
    BY <1>6, <1>9, <2>1, LoopIsProcess, Settle
<1> QED
  BY <1>5, <1>8, <1>10

(* A sale that is lost or left stopped stays where it was in the books. *)
LEMMA PersistFailsStep == ASSUME DeskInv, PersistFails PROVE DeskInv'
<1> USE DEF DeskInv
<1>1. PICK n \in SaleNo : n = step[Loop].sale
  BY DEF PersistFails, StepsOK, LoopOK
<1>2. \/ UNCHANGED sale
      \/ \E end \in {"lost", "stopped"} : /\ sale' = [sale EXCEPT ![n].stage = end]
                                          /\ end = "lost" => sale[n].stage = "open"
                                          /\ end = "stopped" => sale[n].stage = "paused"
  BY <1>1 DEF PersistFails
<1>3. /\ sale' \in [SaleNo -> SaleState]
      /\ \A m \in SaleNo : /\ sale'[m].stage = "none" <=> sale[m].stage = "none"
                           /\ sale'[m].stage \in InTable <=> sale[m].stage \in InTable
                           /\ sale'[m].shift = sale[m].shift
                           /\ sale'[m].unpaid <=> sale[m].unpaid
  <2>1. CASE UNCHANGED sale
    BY <2>1 DEF TablesOK
  <2>2. ASSUME NEW end \in {"lost", "stopped"}, sale' = [sale EXCEPT ![n].stage = end],
               end = "lost" => sale[n].stage = "open",
               end = "stopped" => sale[n].stage = "paused"
        PROVE  /\ sale' \in [SaleNo -> SaleState]
               /\ \A m \in SaleNo : /\ sale'[m].stage = "none" <=> sale[m].stage = "none"
                                    /\ sale'[m].stage \in InTable <=> sale[m].stage \in InTable
                                    /\ sale'[m].shift = sale[m].shift
                                    /\ sale'[m].unpaid <=> sale[m].unpaid
    <3>1. PICK gone : gone = [sale[n] EXCEPT !.stage = end]
      OBVIOUS
    <3>2. /\ gone \in SaleState /\ gone.stage = end /\ gone.shift = sale[n].shift
          /\ gone.unpaid <=> sale[n].unpaid
      BY <3>1 DEF TablesOK, SaleState
    <3>3. sale' = [sale EXCEPT ![n] = gone]
      BY <2>2, <3>1
    <3> QED
      BY <2>2, <3>2, <3>3 DEF TablesOK, InTable
  <2> QED
    BY <1>2, <2>1, <2>2
<1>4. TablesOK' /\ Taken' = Taken /\ Known' = Known
  BY <1>3, SalesStand DEF PersistFails, TablesOK
<1>5. Only(Loop) /\ ~Totalling(Loop)' /\ LoopOK'
  BY LoopIsProcess, Rests DEF PersistFails
<1>6. StepsOK'
  BY <1>4, <1>5, LoopIsProcess, OthersStand
<1>7. SameBooks
  BY <1>3 DEF SameBooks, Booked, Paid, PersistFails
<1>8. CountRight(Loop)' /\ \A u \in ShiftId : Owed(Loop, u)' = Owed(Loop, u)
  BY LoopIsProcess, Rests DEF CountRight, Owed, PersistFails, Idle
<1>9. Balanced'
  BY <1>5, <1>7, <1>8, LoopIsProcess, Calm DEF Clean, PersistFails, history
<1> QED
  BY <1>4, <1>6, <1>9

LEMMA TellSaleStep == ASSUME DeskInv, TellSale PROVE DeskInv'
<1> USE DEF DeskInv
<1>1. TablesOK' /\ Taken' = Taken /\ Known' = Known
  BY TablesStand DEF TablesOK, TellSale
<1>2. Only(Loop) /\ LoopOK' /\ \A u \in ShiftId : Owed(Loop, u)' = Owed(Loop, u)
  <2>1. CASE step[Loop].shift = 0
    <3>1. step' = [step EXCEPT ![Loop] = Idle]
      BY <2>1 DEF TellSale, AfterTellSale
    <3>2. Only(Loop) /\ LoopOK' /\ step'[Loop] = Idle
      BY <3>1, LoopIsProcess, Rests
    <3>3. \A u \in ShiftId : Owed(Loop, u)' = Owed(Loop, u)
      BY <2>1, <3>2 DEF Owed, Idle, ShiftId
    <3> QED
      BY <3>2, <3>3
  <2>2. CASE step[Loop].shift # 0
    <3>1. step' = [step EXCEPT ![Loop].at = "bump"]
      BY <2>2 DEF TellSale, AfterTellSale
    <3>2. /\ Only(Loop) /\ step'[Loop].at = "bump"
          /\ step'[Loop].shift = step[Loop].shift /\ step'[Loop].then = step[Loop].then
          /\ step'[Loop].sale = step[Loop].sale
      BY <3>1, LoopIsProcess DEF StepsOK, Only, Whole
    <3> QED
      BY <1>1, <3>2 DEF TellSale, StepsOK, LoopOK, Owed
  <2> QED
    BY <2>1, <2>2
<1>3. StepsOK'
  BY <1>1, <1>2, LoopIsProcess, OthersStand
<1>4. CountRight(Loop)' /\ Totalling(Loop)
  BY DEF CountRight, Totalling, TellSale
<1>5. Clean' => Clean
  BY Zenon DEF TellSale, Stumble, history, Clean
<1>6. Balanced'
  BY <1>2, <1>4, <1>5, SameTables, LoopIsProcess, Calm DEF Clean, TellSale
<1> QED
  BY <1>1, <1>3, <1>6

(* The credit pays a sale just booked, or a paused one whose row is of that shift. *)
LEMMA BumpStep == ASSUME DeskInv, Bump PROVE DeskInv'
<1> USE DEF DeskInv
<1>1. PICK t \in Known : t = step[Loop].shift
  BY DEF StepsOK, LoopOK
<1>2. PICK n \in SaleNo : n = step[Loop].sale /\ sale[n].stage \in {"booked", "stopped"}
  BY DEF Bump, StepsOK, LoopOK
<1>3. /\ Credit(t) /\ UNCHANGED active /\ sale' = [sale EXCEPT ![n].unpaid = FALSE]
      /\ Clean' => Clean /\ ~(sale[n].unpaid /\ sale[n].shift # t)
  BY <1>1, <1>2 DEF Bump, Strays, Clean
<1>4. /\ sale' \in [SaleNo -> SaleState]
      /\ \A m \in SaleNo : /\ sale'[m].stage = sale[m].stage /\ sale'[m].shift = sale[m].shift
                           /\ sale'[m].unpaid <=> m # n /\ sale[m].unpaid
  <2>1. PICK paid : paid = [sale[n] EXCEPT !.unpaid = FALSE]
    OBVIOUS
  <2>2. /\ paid \in SaleState /\ paid.stage = sale[n].stage /\ paid.shift = sale[n].shift
        /\ ~paid.unpaid
    BY <2>1 DEF TablesOK, SaleState
  <2>3. sale' = [sale EXCEPT ![n] = paid]
    BY <1>3, <2>1
  <2> QED
    BY <2>2, <2>3 DEF TablesOK
<1>5. TablesOK' /\ Taken' = Taken /\ Known' = Known
  <2>1. row' \in [ShiftId -> ShiftRow] /\ \A u \in ShiftId : row'[u].status = row[u].status
    BY <1>3, Credits
  <2> QED
    BY <1>3, <1>4, <2>1, TablesKept DEF TablesOK
<1>6. PICK shifts : step' = [step EXCEPT ![Loop] = Telling(Loop, shifts, "mirror")]
  BY DEF Bump
<1>7. /\ Only(Loop) /\ step'[Loop].at = "read" /\ step'[Loop].then = "mirror"
      /\ step'[Loop].shift = t
  <2>1. /\ Only(Loop) /\ step'[Loop].at = "read" /\ step'[Loop].then = "mirror"
        /\ step'[Loop].shift = step[Loop].shift
    <3>1. /\ Only(Loop) /\ step'[Loop].at = "read" /\ step'[Loop].then = "mirror"
          /\ step'[Loop].over = step[Loop].over
          /\ step'[Loop].shift = step[Loop].shift /\ step'[Loop].next = step[Loop].next
          /\ step'[Loop].since = step[Loop].since /\ step'[Loop].began = step[Loop].began
          /\ step'[Loop].count = step[Loop].count
      BY <1>6, LoopIsProcess, Tellings
    <3> QED
      BY <3>1
  <2> QED
    BY <1>1, <2>1
<1>8. LoopOK'
  BY <1>5, <1>7 DEF LoopOK
<1>9. StepsOK'
  BY <1>5, <1>7, <1>8, LoopIsProcess, OthersStand
<1>10. /\ Totalling(Loop) /\ CountRight(Loop)' /\ \A u \in ShiftId : Owed(Loop, u)' = 0
       /\ \A u \in ShiftId : Owed(Loop, u) = IF u = t /\ ~sale[n].unpaid THEN 1 ELSE 0
  BY <1>1, <1>2, <1>7 DEF Bump, Totalling, CountRight, Owed
<1>11. Balanced'
  <2>1. ASSUME Clean'
        PROVE  /\ Alone(Loop)
               /\ \A u \in ShiftId : row'[u].total + Owed(Loop, u)' = Cardinality(Paid(u)')
    <3>1. BalancedBy(Loop) /\ (sale[n].unpaid => sale[n].shift = t)
      BY <1>3, <1>10, <2>1, LoopIsProcess, Owner
    <3>2. ASSUME NEW u \in ShiftId
          PROVE  row'[u].total + Owed(Loop, u)' = Cardinality(Paid(u)')
      <4>1. row[u].total \in Nat /\ row[u].total + Owed(Loop, u) = Cardinality(Paid(u))
        BY <3>1 DEF BalancedBy, TablesOK, ShiftRow
      <4>2. CASE u # t
        <5>1. Paid(u)' = Paid(u)
          BY <1>4, <3>1, <4>2 DEF Paid, Booked
        <5>2. row'[u].total = row[u].total /\ Owed(Loop, u) = 0
          BY <1>3, <1>10, <4>2, Credits
        <5> QED
          BY <1>10, <4>1, <5>1, <5>2
      <4>3. CASE u = t /\ ~sale[n].unpaid
        <5>1. Paid(u)' = Paid(u)
          BY <1>4, <4>3 DEF Paid, Booked
        <5>2. row'[u].total = row[u].total + 1 /\ Owed(Loop, u) = 1
          BY <1>3, <1>10, <4>3, Credits
        <5> QED
          BY <1>10, <4>1, <5>1, <5>2
      <4>4. CASE u = t /\ sale[n].unpaid
        <5>1. Paid(u)' = Paid(u) \cup {n} /\ n \notin Paid(u)
          BY <1>2, <1>4, <3>1, <4>4 DEF Paid, Booked, InTable
        <5>2. IsFiniteSet(Paid(u)) /\ Cardinality(Paid(u)) \in Nat
          BY CountsSales DEF ShiftId
        <5>3. Cardinality(Paid(u) \cup {n}) = Cardinality(Paid(u)) + 1
          BY <5>1, <5>2, FS_AddElement
        <5>4. row'[u].total = row[u].total + 1 /\ Owed(Loop, u) = 0
          BY <1>3, <1>10, <4>4, Credits
        <5> QED
          BY <1>10, <4>1, <5>1, <5>3, <5>4
      <4> QED
        BY <4>2, <4>3, <4>4
    <3> QED
      BY <3>1, <3>2 DEF BalancedBy
  <2> QED
    BY <1>7, <1>10, <2>1, LoopIsProcess, Settle
<1> QED
  BY <1>5, <1>9, <1>11

LEMMA BumpFailsStep == ASSUME DeskInv, BumpFails PROVE DeskInv'
<1> USE DEF DeskInv
<1>1. TablesOK' /\ Taken' = Taken /\ Known' = Known
  BY TablesStand DEF TablesOK, BumpFails
<1>2. StepsOK'
  BY <1>1, LoopIsProcess, Rests, OthersStand DEF BumpFails
<1>3. Balanced'
  BY DEF BumpFails, Stumble, Balanced, Clean
<1> QED
  BY <1>1, <1>2, <1>3

LEMMA CreditMirrorStep == ASSUME DeskInv, Copied, CreditMirror PROVE DeskInv'
<1> USE DEF DeskInv
<1>1. TablesOK' /\ Taken' = Taken /\ Known' = Known
  BY MirrorKeeps, TablesStand DEF TablesOK, CreditMirror
<1>2. StepsOK' /\ Only(Loop) /\ ~Totalling(Loop)'
  BY <1>1, LoopIsProcess, Rests, OthersStand DEF CreditMirror
<1>3. \A u \in ShiftId : Owed(Loop, u) = 0
  BY DEF Owed, CreditMirror
<1>4. Balanced'
  BY <1>2, <1>3, LoopIsProcess, Aside DEF Clean, CreditMirror, history
<1> QED
  BY <1>1, <1>2, <1>4

(* A request and a sale: where the request stands then. *)
LEMMA CloseStoppedStep ==
    ASSUME DeskInv, NEW c \in Caller, NEW n \in SaleNo, CloseStopped(c, n) PROVE DeskInv'
<1> USE DEF DeskInv
<1>1. c \in Process /\ c # Loop /\ ~Totalling(c)
  BY ProcessAssumption DEF Process, CloseStopped, Totalling, Counting
<1>2. PICK done : done = [sale[n] EXCEPT !.stage = "booked"]
  OBVIOUS
<1>3. /\ done \in SaleState /\ done.stage = "booked" /\ done.shift = sale[n].shift
      /\ done.unpaid <=> sale[n].unpaid
  BY <1>2 DEF TablesOK, SaleState
<1>4. sale' = [sale EXCEPT ![n] = done] /\ sale[n].stage \in {"paused", "stopped"}
  BY <1>2 DEF CloseStopped
<1>5. /\ sale' \in [SaleNo -> SaleState] /\ StagesStand
      /\ \A m \in SaleNo : /\ sale'[m].stage = "none" <=> sale[m].stage = "none"
                           /\ sale'[m].stage \in InTable <=> sale[m].stage \in InTable
                           /\ sale'[m].shift = sale[m].shift
                           /\ sale'[m].unpaid <=> sale[m].unpaid
  BY <1>3, <1>4 DEF TablesOK, StagesStand, InTable
<1>6. TablesOK' /\ Taken' = Taken /\ Known' = Known
  BY <1>5, SalesStand DEF CloseStopped, TablesOK
<1>7. /\ Only(c) /\ step'[c].at = "tellStopped"
      /\ step'[c].then = step[c].then /\ step'[c].over = step[c].over
      /\ step'[c].shift = step[c].shift /\ step'[c].next = step[c].next
      /\ step'[c].since = step[c].since /\ step'[c].began = step[c].began
      /\ step'[c].count = step[c].count
  <2>1. step = [q \in Process |-> step[q]] /\ Whole(step[c])
    BY <1>1 DEF StepsOK
  <2>2. step' = [step EXCEPT ![c].at = "tellStopped", ![c].sale = n]
    BY DEF CloseStopped
  <2>3. step'[c] = [at |-> "tellStopped", shift |-> step[c].shift, next |-> step[c].next,
                    since |-> step[c].since, began |-> step[c].began,
                    count |-> step[c].count, over |-> step[c].over, sale |-> n,
                    tell |-> step[c].tell, seen |-> step[c].seen, then |-> step[c].then]
    BY <1>1, <2>1, <2>2 DEF Whole
  <2>4. Only(c)
    BY <1>1, <2>1, <2>2, <2>3 DEF Only, Whole
  <2> QED
    BY <2>3, <2>4
<1>8. CallerOK(c)'
  BY <1>1, <1>6, <1>7 DEF CloseStopped, StepsOK, CallerOK, CallerPlaces, Named, Moving, Beyond
<1>9. StepsOK'
  BY <1>1, <1>5, <1>6, <1>7, <1>8, OthersStand
<1>10. SameBooks
  BY <1>5 DEF SameBooks, Booked, Paid, CloseStopped
<1>11. /\ CountRight(c)' /\ ~Totalling(c)'
       /\ \A s \in ShiftId : Owed(c, s)' = Owed(c, s)
  BY <1>1, <1>7 DEF CountRight, Totalling, Counting, Owed, CloseStopped
<1>12. Balanced'
  BY <1>1, <1>7, <1>10, <1>11, Calm DEF Clean, CloseStopped, history
<1> QED
  BY <1>6, <1>9, <1>12

LEMMA TellStoppedStep == ASSUME DeskInv, NEW c \in Caller, TellStopped(c) PROVE DeskInv'
<1> USE DEF DeskInv
<1>1. c \in Process /\ c # Loop /\ ~Totalling(c)
  BY ProcessAssumption DEF Process, TellStopped, Totalling, Counting
<1>2. TablesOK' /\ Taken' = Taken /\ Known' = Known
  BY TablesStand DEF TablesOK, TellStopped
<1>3. StepsOK' /\ Only(c) /\ ~Totalling(c)'
  BY <1>1, <1>2, Rests, SameStages, OthersStand DEF TellStopped
<1>4. Balanced'
  BY <1>1, <1>3, Aside DEF Clean, TellStopped, history
<1> QED
  BY <1>2, <1>3, <1>4

----------------------------------------------------------------------------
(* A restart counts again what every shift has sold, and nobody owes anything. *)

LEMMA CrashStep == ASSUME DeskInv, Crash PROVE DeskInv'
<1> USE DEF DeskInv
<1>1. PICK close \in AutoClose : Repaired(close)
  BY DEF Crash
<1>2. PICK counted : counted = Recomputed
  OBVIOUS
<1>3. \A s \in ShiftId : /\ Cardinality(Booked(s)) \in Nat
                         /\ row[s].status = "none" => Cardinality(Booked(s)) = 0
  <2>1. \A s \in ShiftId : row[s].status = "none" => Booked(s) = {}
    BY DEF Booked, TablesOK, Known, Taken, ShiftId
  <2> QED
    BY <2>1, CountsSales, FS_EmptySet DEF ShiftId
<1>4. /\ counted \in [ShiftId -> ShiftRow]
      /\ \A s \in ShiftId : /\ counted[s].status = row[s].status
                            /\ counted[s].total = Cardinality(Booked(s))
  <2>1. ASSUME NEW s \in ShiftId
        PROVE  /\ counted[s] \in ShiftRow /\ counted[s].status = row[s].status
               /\ counted[s].total = Cardinality(Booked(s))
    <3>1. PICK n \in Nat : n = IF row[s].status = "none" THEN 0 ELSE Cardinality(Booked(s))
      BY <1>3
    <3>2. n = Cardinality(Booked(s))
      BY <1>3, <3>1
    <3>3. counted[s] = [row[s] EXCEPT !.total = n]
      BY <1>2, <3>1 DEF Recomputed
    <3> QED
      BY <3>2, <3>3 DEF TablesOK, ShiftRow
  <2> QED
    BY <1>2, <2>1 DEF Recomputed
<1>5. row' = IF close THEN ClosedAll(counted) ELSE counted
  BY <1>1, <1>2 DEF Repaired
<1>6. /\ row' \in [ShiftId -> ShiftRow]
      /\ \A s \in ShiftId : /\ row'[s].status = "none" <=> row[s].status = "none"
                            /\ row'[s].total = Cardinality(Booked(s))
  <2>1. CASE ~close
    BY <1>4, <1>5, <2>1
  <2>2. CASE close
    <3>1. ASSUME NEW s \in ShiftId
          PROVE  /\ row'[s] \in ShiftRow /\ row'[s].total = counted[s].total
                 /\ row'[s].status = "none" <=> counted[s].status = "none"
      <4>1. row'[s] = IF counted[s].status = "ACTIVE"
                      THEN [counted[s] EXCEPT !.status = "CLOSED"] ELSE counted[s]
        BY <1>5, <2>2 DEF ClosedAll
      <4> QED
        BY <1>4, <4>1 DEF ShiftRow
    <3> QED
      BY <1>4, <1>5, <2>2, <3>1 DEF ClosedAll
  <2> QED
    BY <2>1, <2>2
<1>7. active'.shift \in Known
  <2>1. \/ active' = NoShift
        \/ \E s \in Latest(row') : active' = [shift |-> s, total |-> row'[s].total]
    BY <1>1 DEF Repaired
  <2>2. \A s \in Latest(row') : s \in ShiftId /\ row'[s].status = "ACTIVE"
    BY DEF Latest, Open
  <2>3. \A s \in Latest(row') : s \in Known
    BY <1>6, <2>2 DEF Known, Taken
  <2> QED
    BY <2>1, <2>3 DEF NoShift, Known
<1>8. /\ sale' \in [SaleNo -> SaleState]
      /\ \A n \in SaleNo : /\ sale'[n].stage = "none" <=> sale[n].stage = "none"
                           /\ sale'[n].stage \in InTable <=> sale[n].stage \in InTable
                           /\ sale'[n].shift = sale[n].shift /\ ~sale'[n].unpaid
  <2>1. ASSUME NEW n \in SaleNo
        PROVE  /\ sale'[n] \in SaleState
               /\ sale'[n].stage = "none" <=> sale[n].stage = "none"
               /\ sale'[n].stage \in InTable <=> sale[n].stage \in InTable
               /\ sale'[n].shift = sale[n].shift /\ ~sale'[n].unpaid
    <3>1. PICK u \in {sale[n].stage, "lost", "stopped"} :
            /\ sale'[n] = [sale[n] EXCEPT !.stage = u, !.unpaid = FALSE]
            /\ u = "lost" => sale[n].stage = "lost" \/ sale[n].stage = "open"
            /\ u = "stopped" => sale[n].stage \in {"stopped", "paused"}
      <4>1. sale'[n] = AfterCrash(sale[n])
        BY DEF Crash
      <4> QED
        BY <4>1 DEF AfterCrash
    <3> QED
      BY <3>1 DEF TablesOK, SaleState, InTable
  <2> QED
    BY <2>1 DEF Crash
<1>9. TablesOK'
  <2>1. \A n \in SaleNo : sale'[n].shift \in Known
    BY <1>8 DEF TablesOK
  <2> QED
    BY <1>6, <1>7, <1>8, <2>1, TablesKept
<1>10. step' = [p \in Process |-> Idle]
  BY DEF Crash
<1>11. StepsOK'
  <2>1. \A p \in Process : step'[p] = Idle /\ Whole(step'[p])
    BY <1>10 DEF Whole, Idle
  <2>2. \A c \in Caller : CallerOK(c)'
    BY <2>1 DEF Process, CallerOK, CallerPlaces, Named, Moving, Beyond, Idle, Known
  <2>3. LoopOK'
    BY <2>1, LoopIsProcess DEF LoopOK, Idle, Known
  <2> QED
    BY <1>10, <2>1, <2>2, <2>3 DEF StepsOK
<1>12. Balanced'
  <2>1. \A p \in Process : ~Totalling(p)' /\ CountRight(p)' /\ \A s \in ShiftId : Owed(p, s)' = 0
    BY <1>10 DEF Totalling, Counting, CountRight, Owed, Idle
  <2>2. \A s \in ShiftId : Paid(s)' = Booked(s)
    BY <1>8 DEF Booked, Paid
  <2>3. \A s \in ShiftId : row'[s].total + 0 = Cardinality(Paid(s)')
    BY <1>3, <1>6, <2>2
  <2>4. BalancedBy(Loop)'
    BY <2>1, <2>3, LoopIsProcess DEF BalancedBy, Alone
  <2> QED
    BY <2>4, LoopIsProcess DEF Balanced
<1> QED
  BY <1>9, <1>11, <1>12

----------------------------------------------------------------------------
LEMMA DeskInvInit == Init => DeskInv /\ Copied
<1> SUFFICES ASSUME Init PROVE DeskInv /\ Copied
  OBVIOUS
<1>1. Copied
  BY DEF Init, Copied, NoShift
<1>2. Taken = {} /\ Begun = {} /\ \A s : Paid(s) = {}
  BY DEF Init, Taken, Begun, Booked, Paid, InTable
<1>3. Opened = 0 /\ Started = 0
  BY <1>2, FS_EmptySet DEF Opened, Started, Taken, Begun
<1>4. row \in [ShiftId -> ShiftRow] /\ \A s \in ShiftId : row[s].total = 0
  BY DEF Init, ShiftRow
<1>5. /\ sale \in [SaleNo -> SaleState]
      /\ \A n \in SaleNo : sale[n].shift = 0 /\ ~sale[n].unpaid
  BY CapAssumption DEF Init, SaleState
<1>6. TablesOK
  BY <1>2, <1>3, <1>4, <1>5 DEF TablesOK, Init, NoShift, Known
<1>7. \A p \in Process : step[p] = Idle /\ Whole(step[p])
  BY DEF Init, Whole, Idle
<1>8. StepsOK
  <2>1. \A c \in Caller : CallerOK(c)
    BY <1>7 DEF Process, CallerOK, CallerPlaces, Named, Moving, Beyond, Idle, Known
  <2>2. LoopOK
    BY <1>7, LoopIsProcess DEF LoopOK, Idle, Known
  <2> QED
    BY <1>7, <2>1, <2>2 DEF StepsOK, Init
<1>9. Balanced
  <2>1. \A p \in Process : ~Totalling(p) /\ CountRight(p) /\ \A s \in ShiftId : Owed(p, s) = 0
    BY <1>7 DEF Totalling, Counting, CountRight, Owed, Idle
  <2>2. \A s \in ShiftId : row[s].total + 0 = Cardinality(Paid(s))
    BY <1>2, <1>4, FS_EmptySet
  <2>3. BalancedBy(Loop)
    BY <2>1, <2>2, LoopIsProcess DEF BalancedBy, Alone
  <2> QED
    BY <2>3, LoopIsProcess DEF Balanced
<1> QED
  BY <1>1, <1>6, <1>8, <1>9 DEF DeskInv

LEMMA AskStep == ASSUME DeskInv, NEW c \in Caller, Ask(c) PROVE DeskInv'
<1>1. 0 \in Nat
  OBVIOUS
<1> QED
  BY <1>1, StartStep, EndStep, CloseStoppedStep, OverrideIsNat DEF Ask

LEMMA ProceedStep == ASSUME DeskInv, NEW c \in Caller, Proceed(c) PROVE DeskInv'
BY InsertStep, CountLooseStep, AssignLooseStep, CreditLooseStep, LoadStep, PublishStep,
   CloseStep, ClearStep, CheckAgainStep, CountMoveStep, MoveStep, TakeStep, GiveStep,
   ReloadStep, RepublishStep, TellStoppedStep
   DEF Proceed

LEMMA SellingStep == ASSUME DeskInv, Copied, Selling PROVE DeskInv'
BY OrderStep, InsertPausedStep, PauseFailsStep, PersistStep, PersistFailsStep, TellSaleStep,
   BumpStep, BumpFailsStep, CreditMirrorStep, CommitSaleStep, PauseSaleStep, CloseSaleStep
   DEF Selling

LEMMA CopiedStep == ASSUME Copied, Next PROVE Copied'
<1>1. ASSUME UNCHANGED active PROVE Copied'
  BY <1>1 DEF Copied
<1>2. ASSUME NEW c \in Caller, Ask(c) \/ Proceed(c) \/ CutOff(c) PROVE Copied'
  <2>1. ASSUME Published(c) PROVE Copied'
    BY <2>1 DEF Published, Copied
  <2>2. ASSUME NEW s, active' = Cleared(s) PROVE Copied'
    BY <2>2 DEF Cleared, NoShift, Copied
  <2> QED
    BY <1>1, <1>2, <2>1, <2>2
       DEF Ask, Proceed, Start, End, Insert, CountLoose, AssignLoose, CreditLoose, Load,
           Publish, Close, Clear, CheckAgain, CountMove, Move, Take, Give, Reload, Republish,
           CloseStopped, TellStopped, CutOff
<1>3. ASSUME Selling PROVE Copied'
  BY <1>1, <1>3, MirrorKeeps
     DEF Selling, Order, InsertPaused, PauseFails, Persist, PersistFails, TellSale, Bump,
         BumpFails, CreditMirror, CommitSale, PauseSale, CloseSale, Stamped
<1>4. ASSUME NEW p \in Process, Tell(p) \/ SendFails(p) PROVE Copied'
  BY <1>1, <1>4 DEF Tell, ReadShift, SendShift, SendFails
<1>5. ASSUME Crash PROVE Copied'
  BY <1>5 DEF Crash, Repaired, NoShift, Copied
<1> QED
  BY <1>2, <1>3, <1>4, <1>5 DEF Next, Running

LEMMA DeskInvStep == DeskInv /\ Copied /\ [Next]_deskVars => DeskInv' /\ Copied'
<1> SUFFICES ASSUME DeskInv, Copied, [Next]_deskVars PROVE DeskInv' /\ Copied'
  OBVIOUS
<1>1. CASE Next
  <2>1. Copied'
    BY <1>1, CopiedStep
  <2>2. DeskInv'
    BY <1>1, AskStep, ProceedStep, CutOffStep, SellingStep, ReadShiftStep, SendShiftStep,
       SendFailsStep, CrashStep
       DEF Next, Running, Tell
  <2> QED
    BY <2>1, <2>2
<1>2. CASE UNCHANGED deskVars
  <2> USE DEF DeskInv
  <2>1. UNCHANGED <<row, sale, active, step, mixed, astray>>
    BY <1>2 DEF deskVars, data, history
  <2>2. Copied' /\ TablesOK' /\ Taken' = Taken
    BY <2>1, TablesStand DEF Copied, TablesOK
  <2>3. Only(Loop) /\ LoopOK'
    BY <2>1, <2>2, LoopIsProcess DEF Only, StepsOK, LoopOK, Known
  <2>4. StepsOK'
    BY <2>1, <2>2, <2>3, LoopIsProcess, OthersStand
  <2>5. /\ Totalling(Loop)' = Totalling(Loop)
        /\ CountRight(Loop)' /\ \A s \in ShiftId : Owed(Loop, s)' = Owed(Loop, s)
    BY <2>1 DEF Totalling, CountRight, Owed
  <2>6. Balanced'
    BY <2>1, <2>3, <2>5, SameTables, LoopIsProcess, Calm DEF Clean
  <2> QED
    BY <2>2, <2>4, <2>6
<1> QED
  BY <1>1, <1>2

(* With nothing in progress the total of every shift is the number of its sales, but  *)
(* for paused sales that no lane has closed since, for any number of requests, shifts *)
(* and sales: unless a count of sales went out of date (mixed), or a paused sale was  *)
(* moved, or closed after a count or in another shift (astray), and no restart made   *)
(* it good (bump_shift_totals, backfill_unassigned_to_shift,                          *)
(* reassign_from_shift_since, recompute_shift_totals_from_transactions).              *)
THEOREM TotalsAreSales == Spec => []TotalsMatch
<1>1. DeskInv => TotalsMatch
  <2> SUFFICES ASSUME DeskInv, Quiet, Clean, NEW s \in ShiftId
               PROVE  row[s].total = Cardinality(Paid(s))
    BY DEF TotalsMatch, Clean
  <2>1. PICK p \in Process : BalancedBy(p)
    BY DEF DeskInv, Balanced
  <2>2. Owed(p, s) = 0
    BY DEF Quiet, Owed
  <2>3. row[s].total \in Nat /\ row[s].total + Owed(p, s) = Cardinality(Paid(s))
    BY <2>1 DEF BalancedBy, DeskInv, TablesOK, ShiftRow
  <2> QED
    BY <2>2, <2>3
<1> QED
  BY <1>1, DeskInvInit, DeskInvStep, PTL DEF Spec

----------------------------------------------------------------------------
(* The copy in memory.  Two starts that overlap may leave two shifts open,     *)
(* so this part takes one request at a time, against the poll loop, requests   *)
(* cut off and restarts.                                                       *)

(* Requests are answered one after the other. *)
OneCaller == \A c, d \in Caller : c = d

(* What the copy in memory of shift s has still to count. *)
Lag(s) == IF Beyond(Loop) = "mirror" /\ step[Loop].shift = s THEN 1 ELSE 0

Mirrored ==
    IF active.shift = 0
    THEN Open(row) = {}
    ELSE Open(row) = {active.shift} /\ active.total = row[active.shift].total - Lag(active.shift)

(* No sale in progress goes to shift s. *)
Unstamped(s) ==
    /\ \A n \in SaleNo : sale[n].stage = "open" => sale[n].shift # s
    /\ step[Loop].at # "idle" => step[Loop].shift # s

(* What a request was told of its new shift is still so. *)
StillSo(c) == \A x \in step[c].seen : x.total = row[step[c].next].total

(* The open shift and the copy in memory at each place of a request. *)
PhaseOK(c) ==
    /\ Beyond(c) \in {"idle", "tellStopped"} => Mirrored
    /\ Beyond(c) \in {"insert", "check"} => active.shift = 0 /\ Open(row) = {}
    /\ Beyond(c) = "close" => active.shift = step[c].shift /\ Open(row) = {step[c].shift}
    /\ Beyond(c) = "clear" => active.shift = step[c].shift /\ Open(row) = {}
    /\ Beyond(c) \in {"count", "assign", "credit", "load", "publish"} =>
          active.shift = 0 /\ Open(row) = {step[c].next} /\ Unstamped(step[c].next)
    /\ Beyond(c) \in Moving \cup {"reload", "republish"} =>
          active.shift = step[c].next /\ Open(row) = {step[c].next}
    /\ step[c].at \in {"publish", "republish"} => StillSo(c)
    /\ step[c].at = "republish" => ~Totalling(Loop)

PhasesOK == (\A c \in Caller : PhaseOK(c)) /\ (Caller = {} => Mirrored)

MirrorInv == OneCaller /\ ~cut /\ ~mixed => PhasesOK

(* One request at most is being answered: what holds of it holds of all. *)
LEMMA CallerTurn ==
    ASSUME OneCaller, NEW c \in Caller, PhaseOK(c)' PROVE PhasesOK'
<1>1. \A d \in Caller : d = c
  BY DEF OneCaller
<1> QED
  BY <1>1, Zenon DEF PhasesOK

(* The loop stands still. *)
LoopStands ==
    /\ step'[Loop] = step[Loop]
    /\ Totalling(Loop)' = Totalling(Loop)
    /\ \A s : Lag(s)' = Lag(s)
    /\ UNCHANGED sale => \A s : Unstamped(s)' = Unstamped(s)

(* A request takes the step r. *)
LEMMA Turns ==
    ASSUME StepsOK, NEW c \in Caller, NEW r, step' = [step EXCEPT ![c] = r]
    PROVE  step'[c] = r /\ LoopStands
<1>1. step = [q \in Process |-> step[q]] /\ c \in Process /\ Loop \in Process /\ c # Loop
  BY LoopIsProcess DEF StepsOK, Process
<1>2. step'[c] = r /\ step'[Loop] = step[Loop]
  BY <1>1
<1> QED
  BY <1>2 DEF LoopStands, Totalling, Lag, Beyond, Unstamped

LEMMA Stands ==
    ASSUME NEW c \in Caller, Only(c) PROVE LoopStands
<1>1. step'[Loop] = step[Loop]
  BY LoopIsProcess DEF Only
<1> QED
  BY <1>1 DEF LoopStands, Totalling, Lag, Beyond, Unstamped

(* A request goes on to a place, with the shifts it has. *)
At(c, place) ==
    /\ step'[c].at = place /\ step'[c].then = step[c].then
    /\ step'[c].shift = step[c].shift /\ step'[c].next = step[c].next
    /\ LoopStands

LEMMA Places ==
    ASSUME StepsOK, NEW c \in Caller
    PROVE  /\ CountLoose(c) => At(c, "load") \/ At(c, "assign")
           /\ AssignLoose(c) => At(c, "credit")
           /\ Load(c) \/ Reload(c) =>
                 /\ At(c, IF Load(c) THEN "publish" ELSE "republish")
                 /\ step'[c].seen = {ShiftRecord(row, step[c].next)}
           /\ CountMove(c) => At(c, "reload") \/ At(c, "move")
           /\ Move(c) => At(c, "take")
           /\ Take(c) => At(c, "give")
<1>1. step = [q \in Process |-> step[q]] /\ Whole(step[c]) /\ c \in Process
  BY DEF StepsOK, Process
<1>2. ASSUME NEW place, NEW n, step' = [step EXCEPT ![c].count = n, ![c].at = place]
      PROVE  At(c, place)
  <2>1. step'[c] =
          [at |-> place, shift |-> step[c].shift, next |-> step[c].next,
                    since |-> step[c].since, began |-> step[c].began, count |-> n,
                    over |-> step[c].over, sale |-> step[c].sale, tell |-> step[c].tell,
                    seen |-> step[c].seen, then |-> step[c].then]
    BY <1>1, <1>2 DEF Whole
  <2>2. Only(c)
    BY <1>1, <1>2, <2>1 DEF Only, Whole
  <2> QED
    BY <2>1, <2>2, Stands DEF At
<1>3. ASSUME NEW place, Goto(c, place) PROVE At(c, place)
  <2>1. step' = [step EXCEPT ![c] = [step[c] EXCEPT !.at = place]]
    BY <1>3 DEF Goto
  <2>2. step'[c] = [step[c] EXCEPT !.at = place] /\ LoopStands
    BY <2>1, Turns
  <2> QED
    BY <1>1, <2>2 DEF At, Whole
<1>4. ASSUME NEW place, NEW u, step' = [step EXCEPT ![c].seen = u, ![c].at = place]
      PROVE  At(c, place) /\ step'[c].seen = u
  <2>1. step'[c] =
          [at |-> place, shift |-> step[c].shift, next |-> step[c].next,
                    since |-> step[c].since, began |-> step[c].began, count |-> step[c].count,
                    over |-> step[c].over, sale |-> step[c].sale, tell |-> step[c].tell,
                    seen |-> u, then |-> step[c].then]
    BY <1>1, <1>4 DEF Whole
  <2>2. Only(c)
    BY <1>1, <1>4, <2>1 DEF Only, Whole
  <2> QED
    BY <2>1, <2>2, Stands DEF At
<1>5. CountLoose(c) => At(c, "load") \/ At(c, "assign")
  <2> SUFFICES ASSUME CountLoose(c) PROVE At(c, "load") \/ At(c, "assign")
    OBVIOUS
  <2>1. PICK n : n = Cardinality(Since(0, step[c].since))
    OBVIOUS
  <2>2. PICK place \in {"load", "assign"} : place = IF n = 0 THEN "load" ELSE "assign"
    OBVIOUS
  <2>3. step' = [step EXCEPT ![c].count = n, ![c].at = place]
    BY <2>1, <2>2 DEF CountLoose
  <2> QED
    BY <1>2, <2>2, <2>3
<1>6. CountMove(c) => At(c, "reload") \/ At(c, "move")
  <2> SUFFICES ASSUME CountMove(c) PROVE At(c, "reload") \/ At(c, "move")
    OBVIOUS
  <2>1. PICK n : n = Cardinality(Since(step[c].shift, step[c].since))
    OBVIOUS
  <2>2. PICK place \in {"reload", "move"} : place = IF n = 0 THEN "reload" ELSE "move"
    OBVIOUS
  <2>3. step' = [step EXCEPT ![c].count = n, ![c].at = place]
    BY <2>1, <2>2 DEF CountMove
  <2> QED
    BY <1>2, <2>2, <2>3
<1>7. /\ Load(c) => At(c, "publish") /\ step'[c].seen = {ShiftRecord(row, step[c].next)}
      /\ Reload(c) => At(c, "republish") /\ step'[c].seen = {ShiftRecord(row, step[c].next)}
  <2>1. PICK u : u = {ShiftRecord(row, step[c].next)}
    OBVIOUS
  <2>2. /\ Load(c) => step' = [step EXCEPT ![c].seen = u, ![c].at = "publish"]
        /\ Reload(c) => step' = [step EXCEPT ![c].seen = u, ![c].at = "republish"]
    BY <2>1 DEF Load, Reload
  <2> QED
    BY <1>4, <2>1, <2>2
<1>8. ~(Load(c) /\ Reload(c))
  BY DEF Load, Reload
<1> QED
  BY <1>3, <1>5, <1>6, <1>7, <1>8 DEF AssignLoose, Move, Take

LEMMA CallerTelling ==
    ASSUME StepsOK, NEW c \in Caller, NEW shifts, NEW then,
           step' = [step EXCEPT ![c] = Telling(c, shifts, then)]
    PROVE  /\ LoopStands /\ step'[c].at = "read" /\ Beyond(c)' = then
           /\ step'[c].shift = step[c].shift /\ step'[c].next = step[c].next
<1>1. c \in Process
  BY DEF Process
<1>2. /\ Only(c) /\ step'[c].at = "read" /\ step'[c].then = then
      /\ step'[c].over = step[c].over
      /\ step'[c].shift = step[c].shift /\ step'[c].next = step[c].next
      /\ step'[c].since = step[c].since /\ step'[c].began = step[c].began
      /\ step'[c].count = step[c].count
  BY <1>1, Tellings
<1> QED
  BY <1>2, Stands DEF Beyond

(* A shift that sells nothing yet is not 0. *)
LEMMA TakenIsShift == Taken \subseteq ShiftId /\ 0 \notin Taken
BY DEF Taken, ShiftId

(* A request within its telling: the place it comes to was the next before. *)
LEMMA TellingPhase ==
    ASSUME OneCaller, DeskInv, PhasesOK, NEW c \in Caller, UNCHANGED <<row, sale, active>>,
           LoopStands, Beyond(c) = Beyond(c)' \/ (step'[c] = Idle /\ Beyond(c) = "idle"),
           step'[c] # Idle => step'[c].shift = step[c].shift /\ step'[c].next = step[c].next,
           step[c].at \in {"read", "send"},
           step'[c] # Idle => step'[c].at \in {"read", "send", step[c].then}
    PROVE  PhasesOK'
<1>1. PhaseOK(c) /\ CallerOK(c)
  BY DEF PhasesOK, DeskInv, StepsOK
<1>2. Mirrored' = Mirrored
  BY DEF Mirrored, LoopStands
<1>3. CASE step'[c] = Idle
  <2>1. Beyond(c)' = "idle" /\ step'[c].at = "idle"
    BY <1>3 DEF Beyond, Idle
  <2>2. Mirrored \/ Beyond(c) # "idle"
    BY <1>1 DEF PhaseOK
  <2>3. Beyond(c) = "idle"
    BY <1>3, <2>1
  <2> QED
    BY <1>2, <2>1, <2>2, <2>3, CallerTurn DEF PhaseOK, Moving
<1>4. CASE step'[c] # Idle
  <2>1. step'[c].at \notin {"publish", "republish"}
    BY <1>1, <1>4 DEF CallerOK
  <2>2. Beyond(c)' = Beyond(c) /\ step'[c].shift = step[c].shift /\ step'[c].next = step[c].next
    BY <1>4
  <2>3. \A s : Unstamped(s)' = Unstamped(s)
    BY DEF LoopStands
  <2> QED
    BY <1>1, <1>2, <2>1, <2>2, <2>3, CallerTurn DEF PhaseOK
<1> QED
  BY <1>3, <1>4

LEMMA CallerTellsPhase ==
    ASSUME OneCaller, DeskInv, PhasesOK, NEW c \in Caller, Tell(c)
    PROVE  PhasesOK'
<1>1. StepsOK /\ c \in Process
  BY DEF DeskInv, Process
<1>2. step = [q \in Process |-> step[q]] /\ Whole(step[c])
  BY <1>1 DEF StepsOK
<1>3. CASE ReadShift(c)
  <2>1. PICK u : step' = [step EXCEPT ![c].at = "send", ![c].seen = u]
    BY <1>3 DEF ReadShift
  <2>2. /\ step[c].at = "read" /\ step'[c].at = "send" /\ step'[c].then = step[c].then
        /\ step'[c].shift = step[c].shift /\ step'[c].next = step[c].next
        /\ LoopStands
    <3>1. step'[c] =
            [at |-> "send", shift |-> step[c].shift, next |-> step[c].next,
                      since |-> step[c].since, began |-> step[c].began, count |-> step[c].count,
                      over |-> step[c].over, sale |-> step[c].sale, tell |-> step[c].tell,
                      seen |-> u, then |-> step[c].then]
      BY <1>1, <1>2, <2>1 DEF Whole
    <3>2. Only(c)
      BY <1>1, <1>2, <2>1, <3>1 DEF Only, Whole
    <3> QED
      BY <1>3, <3>1, <3>2, Stands DEF ReadShift
  <2>3. UNCHANGED <<row, sale, active>> /\ Beyond(c)' = Beyond(c)
    BY <1>3, <2>2 DEF ReadShift, Beyond
  <2> QED
    BY <2>2, <2>3, TellingPhase
<1>4. CASE SendShift(c)
  <2>1. step' = [step EXCEPT ![c] = Resting(NextTell(c))] /\ step[c].at = "send"
        /\ UNCHANGED <<row, sale, active>>
    BY <1>4 DEF SendShift
  <2>2. LoopStands /\ Onward(c)
    BY <1>1, <2>1, Turns, TellsOnward
  <2>3. CASE step'[c] = Idle /\ step[c].then = "idle"
    BY <2>1, <2>2, <2>3, TellingPhase DEF Beyond
  <2>4. CASE step'[c].at \in {step[c].then, "read"} /\ step'[c].at # "idle"
             /\ step'[c].then = step[c].then
             /\ step'[c].shift = step[c].shift /\ step'[c].next = step[c].next
    <3>1. step[c].then \notin {"read", "send"}
      BY <1>1 DEF StepsOK, CallerOK
    <3>2. Beyond(c)' = Beyond(c)
      BY <2>1, <2>4, <3>1 DEF Beyond
    <3> QED
      BY <2>1, <2>2, <2>4, <3>2, TellingPhase
  <2> QED
    BY <2>2, <2>3, <2>4 DEF Onward
<1> QED
  BY <1>3, <1>4 DEF Tell

LEMMA StartPhase ==
    ASSUME OneCaller, DeskInv, PhasesOK, NEW c \in Caller, NEW since \in Nat,
           UNCHANGED <<row, active>>, active.shift = 0, step[c].at \in {"idle", "check"},
           step' = [step EXCEPT ![c] = Opening(c, since)]
    PROVE  PhasesOK'
<1>1. StepsOK /\ PhaseOK(c) /\ c \in Process /\ Whole(step[c])
  BY DEF DeskInv, PhasesOK, StepsOK, Process
<1>2. step'[c].at = "insert"
  <2>1. step'[c] = Opening(c, since)
    BY <1>1, Turns
  <2>2. PICK b : Opening(c, since) = [step[c] EXCEPT !.at = "insert", !.since = since, !.began = b]
    BY DEF Opening
  <2> QED
    BY <1>1, <2>1, <2>2 DEF Whole
<1>3. Open(row) = {}
  BY <1>1 DEF PhaseOK, Beyond, Mirrored
<1> QED
  BY <1>2, <1>3, CallerTurn DEF PhaseOK, Beyond, Moving

LEMMA AskPhase ==
    ASSUME OneCaller, DeskInv, PhasesOK, NEW c \in Caller, Ask(c)
    PROVE  PhasesOK'
<1>1. StepsOK /\ PhaseOK(c) /\ CallerOK(c) /\ c \in Process /\ Whole(step[c])
  BY DEF DeskInv, PhasesOK, StepsOK, Process
<1>2. ASSUME NEW since \in Nat, Start(c, since) PROVE PhasesOK'
  BY <1>2, StartPhase DEF Start
<1>3. ASSUME NEW over \in BOOLEAN, NEW since \in Nat, End(c, over, since) PROVE PhasesOK'
  <2>1. PICK s : s = active.shift
    OBVIOUS
  <2>2. step' = [step EXCEPT ![c] = [step[c] EXCEPT !.at = "close", !.shift = s, !.over = over,
                                                    !.since = since]]
        /\ step[c].at = "idle" /\ s # 0 /\ UNCHANGED <<row, active>>
    BY <1>3, <2>1 DEF End
  <2>3. step'[c] = [step[c] EXCEPT !.at = "close", !.shift = s, !.over = over, !.since = since]
    BY <1>1, <2>2, Turns
  <2>4. step'[c].at = "close" /\ step'[c].shift = s
    BY <1>1, <2>3 DEF Whole
  <2>5. Open(row) = {s}
    BY <1>1, <2>1, <2>2 DEF PhaseOK, Beyond, Mirrored
  <2> QED
    BY <2>1, <2>2, <2>4, <2>5, CallerTurn DEF PhaseOK, Beyond, Moving
<1>4. ASSUME NEW n \in SaleNo, CloseStopped(c, n) PROVE PhasesOK'
  <2>1. step' = [step EXCEPT ![c] = [step[c] EXCEPT !.at = "tellStopped", !.sale = n]]
        /\ step[c].at = "idle" /\ UNCHANGED <<row, active>>
    BY <1>4 DEF CloseStopped
  <2>2. LoopStands /\ step'[c] = [step[c] EXCEPT !.at = "tellStopped", !.sale = n]
    BY <1>1, <2>1, Turns
  <2>3. step'[c].at = "tellStopped"
    BY <1>1, <2>2 DEF Whole
  <2>4. Mirrored'
    BY <1>1, <2>1, <2>2 DEF PhaseOK, Beyond, Mirrored, LoopStands
  <2> QED
    BY <2>3, <2>4, CallerTurn DEF PhaseOK, Beyond, Moving
<1>5. 0 \in Nat
  OBVIOUS
<1> QED
  BY <1>2, <1>3, <1>4, <1>5, OverrideIsNat DEF Ask

LEMMA TellStoppedPhase ==
    ASSUME OneCaller, DeskInv, PhasesOK, NEW c \in Caller, TellStopped(c)
    PROVE  PhasesOK'
<1>1. StepsOK /\ PhaseOK(c)
  BY DEF DeskInv, PhasesOK, StepsOK
<1>2. step' = [step EXCEPT ![c] = Idle] /\ step[c].at = "tellStopped" /\ UNCHANGED <<row, active>>
  BY DEF TellStopped
<1>3. LoopStands /\ step'[c] = Idle
  BY <1>1, <1>2, Turns
<1>4. Mirrored'
  BY <1>1, <1>2, <1>3 DEF PhaseOK, Beyond, Mirrored, LoopStands
<1>5. step'[c].at = "idle"
  BY <1>3 DEF Idle
<1> QED
  BY <1>4, <1>5, CallerTurn DEF PhaseOK, Beyond, Moving

LEMMA InsertPhase ==
    ASSUME OneCaller, DeskInv, PhasesOK, NEW c \in Caller, Insert(c)
    PROVE  PhasesOK'
<1>1. StepsOK /\ TablesOK /\ PhaseOK(c) /\ c \in Process /\ Whole(step[c])
  BY DEF DeskInv, PhasesOK, StepsOK, Process
<1>2. PICK t \in Nat : t = Opened + 1
  BY <1>1, NumbersBegun
<1>3. t \in ShiftId /\ t \notin Taken /\ t # 0
  BY <1>1, <1>2, NumbersBegun, CapAssumption DEF Insert, ShiftId, TablesOK
<1>4. PICK fresh : fresh = [status |-> "ACTIVE", began |-> step[c].began, total |-> 0]
  OBVIOUS
<1>5. row' = [row EXCEPT ![t] = fresh] /\ fresh.status = "ACTIVE" /\ UNCHANGED <<sale, active>>
  BY <1>2, <1>4 DEF Insert
<1>6. active.shift = 0 /\ Open(row) = {}
  BY <1>1 DEF PhaseOK, Beyond, Insert
<1>7. Open(row') = {t}
  BY <1>1, <1>3, <1>5, <1>6 DEF Open, TablesOK
<1>8. PICK r, then :
        /\ then \in {"load", "count"}
        /\ step' = [step EXCEPT ![c] =
                     [step[c] EXCEPT !.at = "send", !.next = t, !.began = 0, !.tell = <<t>>,
                                     !.seen = {r}, !.then = then]]
  <2>1. PICK r : r = [entity |-> "shift", id |-> t, shift |-> t, status |-> "ACTIVE",
                      total |-> 0, rows |-> 0]
    OBVIOUS
  <2>2. PICK then \in {"load", "count"} : then = IF step[c].since = 0 THEN "load" ELSE "count"
    OBVIOUS
  <2>3. step' = [step EXCEPT ![c] =
                  [step[c] EXCEPT !.at = "send", !.next = t, !.began = 0, !.tell = <<t>>,
                                  !.seen = {r}, !.then = then]]
    BY <1>2, <2>1, <2>2 DEF Insert
  <2> QED
    BY <2>2, <2>3
<1>9. /\ LoopStands
      /\ step'[c] = [step[c] EXCEPT !.at = "send", !.next = t, !.began = 0, !.tell = <<t>>,
                                    !.seen = {r}, !.then = then]
  BY <1>1, <1>8, Turns
<1>10. step'[c].at = "send" /\ step'[c].then = then /\ step'[c].next = t
  BY <1>1, <1>9 DEF Whole
<1>11. Unstamped(t)
  BY <1>1, <1>3 DEF Unstamped, TablesOK, StepsOK, LoopOK, Known
<1>12. Unstamped(t)'
  BY <1>5, <1>9, <1>11 DEF LoopStands
<1>13. Beyond(c)' = then
  BY <1>10 DEF Beyond
<1>14. active'.shift = 0
  BY <1>5, <1>6
<1> QED
  BY <1>7, <1>8, <1>10, <1>12, <1>13, <1>14, CallerTurn DEF PhaseOK, Moving

(* Rebooking touches no sale in progress. *)
LEMMA RebookOpen ==
    ASSUME TablesOK, NEW s, NEW t, NEW since, Rebook(Since(s, since), t), LoopStands,
           NEW u, Unstamped(u)
    PROVE  Unstamped(u)'
<1>1. \A n \in SaleNo : n \in Since(s, since) => sale[n].stage # "open"
  BY DEF Since, Booked, InTable
<1>2. \A n \in SaleNo : sale'[n] = IF n \in Since(s, since)
                                  THEN [sale[n] EXCEPT !.shift = t, !.unpaid = FALSE]
                                  ELSE sale[n]
  BY DEF Rebook
<1>3. \A n \in SaleNo : sale'[n].stage = "open" => sale'[n] = sale[n]
  <2> TAKE n \in SaleNo
  <2>1. CASE n \in Since(s, since)
    <3>1. sale[n] \in SaleState /\ sale[n].stage # "open"
      BY <1>1, <2>1 DEF TablesOK
    <3>2. sale'[n] = [sale[n] EXCEPT !.shift = t, !.unpaid = FALSE]
      BY <1>2, <2>1
    <3> QED
      BY <3>1, <3>2 DEF SaleState
  <2>2. CASE n \notin Since(s, since)
    BY <1>2, <2>2
  <2> QED
    BY <2>1, <2>2
<1> QED
  BY <1>3 DEF Unstamped, LoopStands

LEMMA BackdatePhase ==
    ASSUME OneCaller, DeskInv, PhasesOK, NEW c \in Caller,
           CountLoose(c) \/ AssignLoose(c) \/ Load(c)
    PROVE  PhasesOK'
<1>1. StepsOK /\ TablesOK /\ PhaseOK(c) /\ CallerOK(c)
  BY DEF DeskInv, PhasesOK, StepsOK
<1>2. PICK place \in {"load", "assign", "credit", "publish"} : At(c, place)
  BY <1>1, Places
<1>3. step[c].at \in {"count", "assign", "load"} /\ UNCHANGED <<row, active>>
  BY DEF CountLoose, AssignLoose, Load
<1>4. active.shift = 0 /\ Open(row) = {step[c].next} /\ Unstamped(step[c].next)
  BY <1>1, <1>3 DEF PhaseOK, Beyond
<1>5. Unstamped(step[c].next)'
  <2>1. CASE UNCHANGED sale
    BY <1>2, <1>4, <2>1 DEF At, LoopStands
  <2>2. CASE AssignLoose(c)
    BY <1>1, <1>2, <1>4, <2>2, RebookOpen DEF At, AssignLoose, LoopStands, Unstamped
  <2> QED
    BY <2>1, <2>2 DEF CountLoose, Load
<1>6. place = "publish" => \A x \in step'[c].seen : x.total = row[step[c].next].total
  <2> SUFFICES ASSUME place = "publish" PROVE \A x \in step'[c].seen : x.total = row[step[c].next].total
    OBVIOUS
  <2>1. Load(c)
    BY <1>1, <1>2, Places DEF At
  <2>2. step'[c].seen = {ShiftRecord(row, step[c].next)}
    BY <1>1, <2>1, Places
  <2>3. ShiftRecord(row, step[c].next).total = row[step[c].next].total
    BY DEF ShiftRecord
  <2> QED
    BY <2>2, <2>3
<1>7. step'[c].next = step[c].next
  BY <1>2 DEF At
<1> QED
  BY <1>2, <1>3, <1>4, <1>5, <1>6, <1>7, CallerTurn DEF PhaseOK, StillSo, Moving, Beyond, At

(* Only the total of the new shift grows. *)
LEMMA StatusStands ==
    ASSUME TablesOK, NEW s \in ShiftId, NEW n, row' = [row EXCEPT ![s].total = n]
    PROVE  Open(row') = Open(row)
BY DEF Open, TablesOK, ShiftRow

LEMMA CreditLoosePhase ==
    ASSUME OneCaller, DeskInv, PhasesOK, NEW c \in Caller, CreditLoose(c)
    PROVE  PhasesOK'
<1>1. StepsOK /\ TablesOK /\ PhaseOK(c) /\ CallerOK(c) /\ c \in Process
  BY DEF DeskInv, PhasesOK, StepsOK, Process
<1>2. step[c].at = "credit" /\ UNCHANGED <<sale, active>>
  BY DEF CreditLoose
<1>3. step[c].next \in ShiftId
  BY <1>1, <1>2, TakenIsShift DEF CallerOK, Beyond, Named
<1>4. Open(row') = Open(row)
  BY <1>1, <1>3, StatusStands DEF CreditLoose
<1>5. PICK shifts : step' = [step EXCEPT ![c] = Telling(c, shifts, "load")]
  BY DEF CreditLoose
<1>6. /\ LoopStands /\ step'[c].at = "read" /\ Beyond(c)' = "load"
      /\ step'[c].shift = step[c].shift /\ step'[c].next = step[c].next
  BY <1>1, <1>5, CallerTelling
<1>7. PICK s : s = step[c].next
  OBVIOUS
<1>8. active.shift = 0 /\ Open(row) = {s} /\ Unstamped(s)
  BY <1>1, <1>2, <1>7 DEF PhaseOK, Beyond
<1>9. Unstamped(s)' /\ active'.shift = 0
  BY <1>2, <1>6, <1>8 DEF LoopStands
<1>10. Unstamped(step[c].next)'
  BY <1>6, <1>7, <1>9 DEF Unstamped
<1> QED
  BY <1>4, <1>6, <1>7, <1>8, <1>9, <1>10, CallerTurn DEF PhaseOK, Moving

LEMMA PublishPhase ==
    ASSUME OneCaller, DeskInv, PhasesOK, NEW c \in Caller, Publish(c) \/ Republish(c)
    PROVE  PhasesOK'
<1>1. StepsOK /\ TablesOK /\ PhaseOK(c) /\ CallerOK(c) /\ c \in Process /\ Whole(step[c])
  BY DEF DeskInv, PhasesOK, StepsOK, Process
<1>2. step[c].at \in {"publish", "republish"} /\ Published(c) /\ UNCHANGED <<row, sale>>
  BY DEF Publish, Republish
<1>3. PICK s \in Taken : s = step[c].next /\ Open(row) = {s}
  BY <1>1, <1>2 DEF PhaseOK, CallerOK, Beyond, Named, Moving
<1>4. active'.shift = s /\ active'.total = row[s].total
  BY <1>1, <1>2, <1>3 DEF Published, PhaseOK, StillSo, CallerOK
<1>5. PICK r : /\ step' = [step EXCEPT ![c] = r]
               /\ r = Idle \/ (r = [step[c] EXCEPT !.at = "countMove", !.seen = {}])
  BY DEF Publish, Republish
<1>6. step'[c] = r /\ LoopStands
  BY <1>1, <1>5, Turns
<1>7. CASE r = Idle
  <2>1. Lag(s) = 0
    BY <1>1, <1>2, <1>3 DEF PhaseOK, Lag, Unstamped, Beyond, Totalling
  <2>2. row[s].total \in Nat /\ s # 0
    BY <1>3, TakenIsShift, <1>1 DEF TablesOK, ShiftRow
  <2>3. Mirrored'
    BY <1>2, <1>3, <1>4, <1>6, <2>1, <2>2 DEF Mirrored, LoopStands
  <2>4. Beyond(c)' = "idle" /\ step'[c].at = "idle"
    BY <1>6, <1>7 DEF Beyond, Idle
  <2> QED
    BY <2>3, <2>4, CallerTurn DEF PhaseOK, Moving
<1>8. CASE r = [step[c] EXCEPT !.at = "countMove", !.seen = {}]
  <2>1. step'[c].at = "countMove" /\ step'[c].next = s
    BY <1>1, <1>3, <1>6, <1>8 DEF Whole
  <2> QED
    BY <1>2, <1>3, <1>4, <2>1, CallerTurn DEF PhaseOK, Moving, Beyond
<1> QED
  BY <1>5, <1>7, <1>8

LEMMA ClosePhase ==
    ASSUME OneCaller, DeskInv, PhasesOK, NEW c \in Caller, Close(c)
    PROVE  PhasesOK'
<1>1. StepsOK /\ TablesOK /\ PhaseOK(c) /\ CallerOK(c) /\ c \in Process
  BY DEF DeskInv, PhasesOK, StepsOK, Process
<1>2. PICK s : s = step[c].shift
  OBVIOUS
<1>3. /\ step[c].at = "close" /\ UNCHANGED active /\ s \in ShiftId
      /\ row' = [row EXCEPT ![s].status = "CLOSED"]
  BY <1>1, <1>2, TakenIsShift DEF Close, CallerOK
<1>4. active.shift = s /\ Open(row) = {s}
  BY <1>1, <1>2, <1>3 DEF PhaseOK, Beyond
<1>5. Open(row') = {}
  BY <1>1, <1>3, <1>4 DEF Open, TablesOK, ShiftRow
<1>6. PICK shifts : step' = [step EXCEPT ![c] = Telling(c, shifts, "clear")]
  BY DEF Close
<1>7. /\ LoopStands /\ step'[c].at = "read" /\ Beyond(c)' = "clear"
      /\ step'[c].shift = step[c].shift /\ step'[c].next = step[c].next
  BY <1>1, <1>6, CallerTelling
<1> QED
  BY <1>2, <1>3, <1>4, <1>5, <1>7, CallerTurn DEF PhaseOK, Moving

LEMMA ClearPhase ==
    ASSUME OneCaller, DeskInv, PhasesOK, NEW c \in Caller, Clear(c)
    PROVE  PhasesOK'
<1>1. StepsOK /\ PhaseOK(c) /\ c \in Process /\ Whole(step[c])
  BY DEF DeskInv, PhasesOK, StepsOK, Process
<1>2. active'.shift = 0 /\ Open(row') = {}
  BY <1>1 DEF Clear, Cleared, NoShift, PhaseOK, Beyond
<1>3. PICK r : /\ step' = [step EXCEPT ![c] = r]
               /\ r = Idle \/ r = [step[c] EXCEPT !.at = "check"]
  BY DEF Clear
<1>4. step'[c] = r
  BY <1>1, <1>3, Turns
<1>5. step'[c].at \in {"idle", "check"}
  BY <1>1, <1>3, <1>4 DEF Whole, Idle
<1>6. Beyond(c)' = step'[c].at
  BY <1>5 DEF Beyond
<1> QED
  BY <1>2, <1>5, <1>6, CallerTurn DEF PhaseOK, Moving, Mirrored

LEMMA CheckAgainPhase ==
    ASSUME OneCaller, DeskInv, PhasesOK, NEW c \in Caller, CheckAgain(c)
    PROVE  PhasesOK'
<1>1. PhaseOK(c) /\ CallerOK(c)
  BY DEF DeskInv, PhasesOK, StepsOK
<1>2. active.shift = 0
  BY <1>1 DEF CheckAgain, PhaseOK, Beyond
<1>3. step' = [step EXCEPT ![c] = Opening(c, step[c].since)]
  BY <1>2 DEF CheckAgain
<1>4. step[c].since \in Nat
  BY <1>1 DEF CallerOK
<1> QED
  BY <1>2, <1>3, <1>4, StartPhase DEF CheckAgain

(* Sales are moved to the open shift, and what is in memory is late. *)
LEMMA MovingPhase ==
    ASSUME OneCaller, DeskInv, PhasesOK, NEW c \in Caller,
           CountMove(c) \/ Move(c) \/ Take(c)
    PROVE  PhasesOK'
<1>1. StepsOK /\ TablesOK /\ PhaseOK(c) /\ CallerOK(c)
  BY DEF DeskInv, PhasesOK, StepsOK
<1>2. PICK place \in {"reload", "move", "take", "give"} : At(c, place)
  BY <1>1, Places
<1>3. step[c].at \in Moving /\ UNCHANGED active
  BY DEF CountMove, Move, Take, Moving
<1>4. active.shift = step[c].next /\ Open(row) = {step[c].next}
  BY <1>1, <1>3 DEF PhaseOK, Beyond, Moving
<1>5. Open(row') = Open(row)
  <2>1. CASE UNCHANGED row
    BY <2>1
  <2>2. CASE Take(c)
    <3>1. PICK s, n : s = step[c].shift /\ row' = [row EXCEPT ![s].total = n]
      BY <2>2 DEF Take
    <3>2. s \in ShiftId
      BY <1>1, <1>3, <3>1, TakenIsShift DEF CallerOK
    <3> QED
      BY <1>1, <3>1, <3>2, StatusStands
  <2> QED
    BY <2>1, <2>2 DEF CountMove, Move
<1>6. Beyond(c)' = place /\ step'[c].at = place /\ step'[c].next = step[c].next
  BY <1>2 DEF At, Beyond
<1> QED
  BY <1>2, <1>3, <1>4, <1>5, <1>6, CallerTurn DEF PhaseOK, Moving

LEMMA GivePhase ==
    ASSUME OneCaller, DeskInv, PhasesOK, NEW c \in Caller, Give(c)
    PROVE  PhasesOK'
<1>1. StepsOK /\ TablesOK /\ PhaseOK(c) /\ CallerOK(c) /\ c \in Process
  BY DEF DeskInv, PhasesOK, StepsOK, Process
<1>2. step[c].at = "give" /\ UNCHANGED active
  BY DEF Give
<1>3. PICK s : s = step[c].next
  OBVIOUS
<1>4. active.shift = s /\ Open(row) = {s} /\ s \in ShiftId
  BY <1>1, <1>2, <1>3, TakenIsShift DEF PhaseOK, Beyond, Moving, CallerOK, Named
<1>5. Open(row') = Open(row)
  <2>1. PICK n : row' = [row EXCEPT ![s].total = n]
    BY <1>3 DEF Give
  <2> QED
    BY <1>1, <1>4, <2>1, StatusStands
<1>6. PICK shifts : step' = [step EXCEPT ![c] = Telling(c, shifts, "reload")]
  BY DEF Give
<1>7. /\ LoopStands /\ step'[c].at = "read" /\ Beyond(c)' = "reload"
      /\ step'[c].shift = step[c].shift /\ step'[c].next = step[c].next
  BY <1>1, <1>6, CallerTelling
<1> QED
  BY <1>2, <1>3, <1>4, <1>5, <1>7, CallerTurn DEF PhaseOK, Moving

LEMMA ReloadPhase ==
    ASSUME OneCaller, DeskInv, PhasesOK, NEW c \in Caller, Reload(c), ~mixed'
    PROVE  PhasesOK'
<1>1. StepsOK /\ TablesOK /\ PhaseOK(c) /\ CallerOK(c) /\ c \in Process
  BY DEF DeskInv, PhasesOK, StepsOK, Process
<1>2. step[c].at = "reload" /\ UNCHANGED <<row, active>>
  BY DEF Reload
<1>3. At(c, "republish") /\ step'[c].seen = {ShiftRecord(row, step[c].next)}
  <2>1. ~Load(c)
    BY <1>2 DEF Load
  <2> QED
    BY <1>1, <2>1, Places
<1>4. ~Totalling(Loop)
  BY LoopIsProcess DEF Reload, Overlap, Mixes
<1>5. ~Totalling(Loop)'
  BY <1>3, <1>4 DEF At, LoopStands
<1>6. active.shift = step[c].next /\ Open(row) = {step[c].next}
  BY <1>1, <1>2 DEF PhaseOK, Beyond
<1>7. StillSo(c)'
  <2>1. ShiftRecord(row, step[c].next).total = row[step[c].next].total
    BY DEF ShiftRecord
  <2> QED
    BY <1>2, <1>3, <2>1 DEF StillSo, At
<1>8. Beyond(c)' = "republish" /\ step'[c].at = "republish" /\ step'[c].next = step[c].next
  BY <1>3 DEF At, Beyond
<1> QED
  BY <1>2, <1>5, <1>6, <1>7, <1>8, CallerTurn DEF PhaseOK, Moving

LEMMA ProceedPhase ==
    ASSUME OneCaller, DeskInv, PhasesOK, NEW c \in Caller, Proceed(c), ~mixed'
    PROVE  PhasesOK'
BY InsertPhase, BackdatePhase, CreditLoosePhase, PublishPhase, ClosePhase, ClearPhase,
   CheckAgainPhase, MovingPhase, GivePhase, ReloadPhase, TellStoppedPhase
   DEF Proceed

----------------------------------------------------------------------------
(* The loop books sales while a request is under way. *)

(* What a step of the loop leaves to a request. *)
LEMMA LoopTurn ==
    ASSUME DeskInv, PhasesOK, \A c \in Caller : step'[c] = step[c],
           Open(row') = Open(row), active'.shift = active.shift, Mirrored => Mirrored',
           active.shift = 0 =>
              \A s \in Taken : Unstamped(s) => Unstamped(s)' /\ row'[s].total = row[s].total,
           (\E c \in Caller : step[c].at = "republish") /\ ~Totalling(Loop) =>
              ~Totalling(Loop)' /\ UNCHANGED row
    PROVE  PhasesOK'
<1>1. ASSUME NEW c \in Caller PROVE PhaseOK(c)'
  <2>1. PhaseOK(c) /\ CallerOK(c)
    BY DEF PhasesOK, DeskInv, StepsOK
  <2>2. step'[c] = step[c] /\ Beyond(c)' = Beyond(c)
    BY DEF Beyond
  <2>3. step[c].at = "publish" \/ Beyond(c) \in {"count", "assign", "credit", "load", "publish"} =>
          /\ active.shift = 0 /\ step[c].next \in Taken
          /\ Unstamped(step[c].next)' /\ row'[step[c].next].total = row[step[c].next].total
    BY <2>1 DEF PhaseOK, CallerOK, Named, Beyond
  <2>4. step[c].at \in {"publish", "republish"} => StillSo(c)'
    BY <2>1, <2>2, <2>3 DEF PhaseOK, StillSo
  <2>5. step[c].at = "republish" => ~Totalling(Loop)'
    BY <2>1 DEF PhaseOK
  <2> QED
    BY <2>1, <2>2, <2>3, <2>4, <2>5 DEF PhaseOK
<1> QED
  BY <1>1 DEF PhasesOK

(* A step of the loop that changes neither the shifts nor the copy in memory. *)
LEMMA LoopAside ==
    ASSUME DeskInv, PhasesOK, \A c \in Caller : step'[c] = step[c], UNCHANGED <<row, active>>,
           \A s : Lag(s)' = Lag(s),
           active.shift = 0 => \A s \in Taken : Unstamped(s) => Unstamped(s)',
           (\E c \in Caller : step[c].at = "republish") /\ ~Totalling(Loop) =>
              ~Totalling(Loop)'
    PROVE  PhasesOK'
<1>1. Mirrored' = Mirrored
  BY DEF Mirrored
<1> QED
  BY <1>1, LoopTurn

(* While a count is checked no sale is booked. *)
LEMMA NoneRereads ==
    ASSUME Mixes(Loop), ~mixed' PROVE ~\E c \in Caller : step[c].at = "republish"
BY LoopIsProcess DEF Mixes, Totalling, Counting, Process

LEMMA OrderPhase == ASSUME DeskInv, PhasesOK, Order PROVE PhasesOK'
<1>1. PICK n : n = Started + 1
  OBVIOUS
<1>2. PICK s : s = IF atomic THEN active.shift ELSE 0
  OBVIOUS
<1>3. PICK fresh : fresh = [stage |-> "open", shift |-> s, unpaid |-> FALSE] /\ fresh.shift = s
  <2>1. [stage |-> "open", shift |-> s, unpaid |-> FALSE].shift = s
    OBVIOUS
  <2> QED
    BY <2>1
<1>4. sale' = [sale EXCEPT ![n] = fresh] /\ UNCHANGED <<row, active, step>>
  BY <1>1, <1>2, <1>3 DEF Order
<1>5. sale \in [SaleNo -> SaleState]
  BY DEF DeskInv, TablesOK
<1>6. \A s1 : Lag(s1)' = Lag(s1)
  BY <1>4 DEF Lag, Beyond
<1>7. Totalling(Loop)' = Totalling(Loop)
  BY <1>4 DEF Totalling
<1>8. ASSUME active.shift = 0, NEW u \in Taken, Unstamped(u) PROVE Unstamped(u)'
  <2>1. s = 0 /\ u # 0
    BY <1>2, <1>8, TakenIsShift
  <2>2. \A m \in SaleNo : sale'[m].shift = s \/ sale'[m] = sale[m]
    BY <1>3, <1>4, <1>5
  <2> QED
    BY <1>4, <1>8, <2>1, <2>2 DEF Unstamped
<1> QED
  BY <1>4, <1>6, <1>7, <1>8, LoopAside

(* The loop goes to a place before the totals of its shift. *)
LEMMA LoopGoes ==
    ASSUME StepsOK, NEW r, step' = [step EXCEPT ![Loop] = r]
    PROVE  step'[Loop] = r /\ \A c \in Caller : step'[c] = step[c]
BY LoopIsProcess DEF StepsOK, Process

LEMMA StampedPhase ==
    ASSUME DeskInv, PhasesOK, NEW n \in SaleNo, NEW place \in {"pause", "persist"},
           Stamped(n, place)
    PROVE  PhasesOK'
<1>1. StepsOK /\ Whole(step[Loop])
  BY LoopIsProcess DEF DeskInv, StepsOK
<1>2. PICK s : s = active.shift
  OBVIOUS
<1>3. PICK r : r = [step[Loop] EXCEPT !.at = place, !.sale = n, !.shift = s]
  OBVIOUS
<1>4. step' = [step EXCEPT ![Loop] = r] /\ UNCHANGED <<row, sale, active>> /\ step[Loop].at = "idle"
  BY <1>2, <1>3 DEF Stamped
<1>5. step'[Loop] = r /\ \A c \in Caller : step'[c] = step[c]
  BY <1>1, <1>4, LoopGoes
<1>6. step'[Loop].at = place /\ step'[Loop].shift = s
  BY <1>1, <1>3, <1>5 DEF Whole
<1>7. (\A u : Lag(u)' = Lag(u)) /\ ~Totalling(Loop)'
  BY <1>4, <1>6 DEF Lag, Beyond, Totalling
<1>8. ASSUME active.shift = 0, NEW u \in Taken, Unstamped(u) PROVE Unstamped(u)'
  BY <1>2, <1>4, <1>6, <1>8, TakenIsShift DEF Unstamped
<1> QED
  BY <1>4, <1>5, <1>7, <1>8, LoopAside

LEMMA PauseSalePhase ==
    ASSUME DeskInv, PhasesOK, NEW n \in SaleNo, PauseSale(n) PROVE PhasesOK'
BY StampedPhase DEF PauseSale

LEMMA CloseSalePhase ==
    ASSUME DeskInv, PhasesOK, NEW n \in SaleNo, CloseSale(n) PROVE PhasesOK'
BY StampedPhase DEF CloseSale

(* No sale in progress is stamped by the end of another. *)
LEMMA Unstamps ==
    ASSUME NEW n \in SaleNo, sale'[n].stage # "open", \A m \in SaleNo \ {n} : sale'[m] = sale[m],
           step'[Loop].at = "idle" \/ (step[Loop].at # "idle" /\ step'[Loop].shift = step[Loop].shift),
           NEW u, Unstamped(u)
    PROVE  Unstamped(u)'
<1>1. \A m \in SaleNo : sale'[m].stage = "open" => sale'[m] = sale[m]
  OBVIOUS
<1> QED
  BY <1>1 DEF Unstamped

LEMMA PersistPhase == ASSUME DeskInv, PhasesOK, Persist, ~mixed' PROVE PhasesOK'
<1>1. StepsOK /\ TablesOK /\ LoopOK /\ Whole(step[Loop])
  BY LoopIsProcess DEF DeskInv, StepsOK
<1>2. PICK r : r = [step[Loop] EXCEPT !.at = "tellSale"]
  OBVIOUS
<1>3. step' = [step EXCEPT ![Loop] = r] /\ UNCHANGED <<row, active>> /\ step[Loop].at = "persist"
  BY <1>2 DEF Persist, Goto
<1>4. step'[Loop] = r /\ \A c \in Caller : step'[c] = step[c]
  BY <1>1, <1>3, LoopGoes
<1>5. step'[Loop].at = "tellSale" /\ step'[Loop].shift = step[Loop].shift
  BY <1>1, <1>2, <1>4 DEF Whole
<1>6. \A u : Lag(u)' = Lag(u)
  BY <1>3, <1>5 DEF Lag, Beyond
<1>7. ~\E c \in Caller : step[c].at = "republish"
  BY NoneRereads DEF Persist
<1>8. PICK n \in SaleNo : n = step[Loop].sale
  BY <1>1, <1>3 DEF LoopOK
<1>9. PICK stage \in {"booked", "stopped"}, f \in Known :
        /\ Book(n, f, stage) /\ sale[n].stage \in {"open", "paused"}
        /\ sale[n].stage = "paused" => f = sale[n].shift
  BY <1>1, <1>8 DEF Persist, TablesOK, LoopOK
<1>10. sale'[n].stage = stage /\ \A m \in SaleNo \ {n} : sale'[m] = sale[m]
  BY <1>1, <1>9, Books
<1>11. ASSUME NEW u \in Taken, Unstamped(u) PROVE Unstamped(u)'
  BY <1>3, <1>5, <1>10, <1>11, Unstamps
<1> QED
  BY <1>3, <1>4, <1>6, <1>7, <1>11, LoopAside

(* The loop rests. *)
LEMMA LoopRests ==
    ASSUME StepsOK, step' = [step EXCEPT ![Loop] = Idle]
    PROVE  /\ \A c \in Caller : step'[c] = step[c]
           /\ step'[Loop].at = "idle" /\ ~Totalling(Loop)' /\ \A s : Lag(s)' = 0
<1>1. step'[Loop] = Idle /\ \A c \in Caller : step'[c] = step[c]
  BY LoopGoes
<1> QED
  BY <1>1 DEF Idle, Totalling, Lag, Beyond

(* From a place before the totals the loop comes to rest, one sale changed at most. *)
LEMMA RestsPhase ==
    ASSUME DeskInv, PhasesOK, step[Loop].at \in {"pause", "persist"}, UNCHANGED <<row, active>>,
           step' = [step EXCEPT ![Loop] = Idle],
           \A m \in SaleNo : sale'[m].stage = "open" => sale'[m] = sale[m]
    PROVE  PhasesOK'
<1>1. StepsOK
  BY DEF DeskInv
<1>2. /\ \A c \in Caller : step'[c] = step[c]
      /\ step'[Loop].at = "idle" /\ ~Totalling(Loop)' /\ \A s : Lag(s)' = 0
  BY <1>1, LoopRests
<1>3. \A s : Lag(s) = 0
  BY DEF Lag, Beyond
<1>4. ASSUME NEW u \in Taken, Unstamped(u) PROVE Unstamped(u)'
  BY <1>2, <1>4 DEF Unstamped
<1>5. \A s : Lag(s)' = Lag(s)
  BY <1>2, <1>3
<1> QED
  BY <1>2, <1>4, <1>5, LoopAside

LEMMA PauseFailsPhase == ASSUME DeskInv, PhasesOK, PauseFails PROVE PhasesOK'
BY RestsPhase DEF PauseFails

(* A sale that is paused, lost or left stopped is no longer open. *)
LEMMA LeavesOpen ==
    ASSUME TablesOK, NEW n \in SaleNo, NEW r, r.stage # "open", sale' = [sale EXCEPT ![n] = r]
    PROVE  \A m \in SaleNo : sale'[m].stage = "open" => sale'[m] = sale[m]
BY DEF TablesOK

LEMMA InsertPausedPhase == ASSUME DeskInv, PhasesOK, InsertPaused PROVE PhasesOK'
<1>1. TablesOK /\ LoopOK
  BY DEF DeskInv, StepsOK
<1>2. PICK n \in SaleNo : n = step[Loop].sale
  BY <1>1 DEF LoopOK, InsertPaused
<1>3. PICK held : held = [stage |-> "paused", shift |-> step[Loop].shift, unpaid |-> TRUE]
  OBVIOUS
<1>4. held.stage # "open" /\ sale' = [sale EXCEPT ![n] = held]
  BY <1>2, <1>3 DEF InsertPaused
<1> QED
  BY <1>1, <1>4, LeavesOpen, RestsPhase DEF InsertPaused

LEMMA PersistFailsPhase == ASSUME DeskInv, PhasesOK, PersistFails PROVE PhasesOK'
<1>1. TablesOK /\ LoopOK
  BY DEF DeskInv, StepsOK
<1>2. PICK n \in SaleNo : n = step[Loop].sale
  BY <1>1 DEF LoopOK, PersistFails
<1>3. \/ UNCHANGED sale
      \/ \E end \in {"lost", "stopped"} : sale' = [sale EXCEPT ![n].stage = end]
  BY <1>2 DEF PersistFails
<1>4. ASSUME NEW end \in {"lost", "stopped"}, sale' = [sale EXCEPT ![n].stage = end]
      PROVE  \A m \in SaleNo : sale'[m].stage = "open" => sale'[m] = sale[m]
  <2>1. PICK gone : gone = [sale[n] EXCEPT !.stage = end]
    OBVIOUS
  <2>2. gone.stage # "open"
    BY <1>1, <2>1 DEF TablesOK, SaleState
  <2>3. sale' = [sale EXCEPT ![n] = gone]
    BY <1>4, <2>1
  <2> QED
    BY <1>1, <2>2, <2>3, LeavesOpen
<1> QED
  BY <1>3, <1>4, RestsPhase DEF PersistFails

LEMMA TellSalePhase == ASSUME DeskInv, PhasesOK, TellSale, ~cut' PROVE PhasesOK'
<1>1. StepsOK /\ Whole(step[Loop])
  BY LoopIsProcess DEF DeskInv, StepsOK
<1>2. step[Loop].at = "tellSale" /\ UNCHANGED <<row, sale, active>>
  BY DEF TellSale
<1>3. PICK r : /\ step' = [step EXCEPT ![Loop] = r]
               /\ r = IF step[Loop].shift = 0 THEN Idle ELSE [step[Loop] EXCEPT !.at = "bump"]
  BY DEF TellSale, AfterTellSale
<1>4. step'[Loop] = r /\ \A c \in Caller : step'[c] = step[c]
  BY <1>1, <1>3, LoopGoes
<1>5. \/ step'[Loop].at = "idle"
      \/ step'[Loop].at = "bump" /\ step'[Loop].shift = step[Loop].shift
  BY <1>1, <1>3, <1>4 DEF Idle, Whole
<1>6. \A s : Lag(s)' = Lag(s)
  BY <1>2, <1>5 DEF Lag, Beyond
<1>7. Totalling(Loop)
  BY <1>2 DEF Totalling
<1>8. ASSUME NEW u \in Taken, Unstamped(u) PROVE Unstamped(u)'
  BY <1>2, <1>5, <1>8 DEF Unstamped
<1> QED
  BY <1>2, <1>4, <1>6, <1>7, <1>8, LoopAside

LEMMA LoopTellsPhase == ASSUME DeskInv, PhasesOK, Tell(Loop) PROVE PhasesOK'
<1>1. StepsOK /\ LoopOK /\ Whole(step[Loop])
  BY LoopIsProcess DEF DeskInv, StepsOK
<1>2. step[Loop].at \in {"read", "send"} /\ UNCHANGED <<row, sale, active>>
  BY DEF Tell, ReadShift, SendShift
<1>3. /\ \A c \in Caller : step'[c] = step[c]
      /\ \/ step'[Loop] = Idle /\ step[Loop].then = "idle"
         \/ /\ step'[Loop].at \in {"read", "send", step[Loop].then}
            /\ step'[Loop].then = step[Loop].then /\ step'[Loop].shift = step[Loop].shift
  <2>1. CASE ReadShift(Loop)
    <3>1. PICK u : step' = [step EXCEPT ![Loop].at = "send", ![Loop].seen = u]
      BY <2>1 DEF ReadShift
    <3>2. step'[Loop] =
            [at |-> "send", shift |-> step[Loop].shift, next |-> step[Loop].next,
             since |-> step[Loop].since, began |-> step[Loop].began,
             count |-> step[Loop].count, over |-> step[Loop].over, sale |-> step[Loop].sale,
             tell |-> step[Loop].tell, seen |-> u, then |-> step[Loop].then]
      BY <1>1, <3>1, LoopIsProcess DEF StepsOK, Whole
    <3>3. \A c \in Caller : step'[c] = step[c]
      BY <1>1, <3>1, LoopIsProcess DEF StepsOK, Process
    <3> QED
      BY <3>2, <3>3
  <2>2. CASE SendShift(Loop)
    <3>1. step' = [step EXCEPT ![Loop] = Resting(NextTell(Loop))]
      BY <2>2 DEF SendShift
    <3>2. Onward(Loop) /\ \A c \in Caller : step'[c] = step[c]
      BY <1>1, <3>1, LoopIsProcess, TellsOnward, LoopGoes
    <3> QED
      BY <3>2 DEF Onward
  <2> QED
    BY <2>1, <2>2 DEF Tell
<1>4. step[Loop].then \in {"idle", "mirror"}
  BY <1>1 DEF LoopOK
<1>5. \A s : Lag(s)' = Lag(s)
  BY <1>2, <1>3, <1>4 DEF Lag, Beyond, Idle
<1>6. Totalling(Loop)
  BY <1>2 DEF Totalling
<1>7. ASSUME NEW u \in Taken, Unstamped(u) PROVE Unstamped(u)'
  BY <1>2, <1>3, <1>7 DEF Unstamped, Idle
<1> QED
  BY <1>2, <1>3, <1>5, <1>6, <1>7, LoopAside

LEMMA MirrorCounts ==
    ASSUME Copied, NEW s, Mirror(s)
    PROVE  /\ active'.shift = active.shift
           /\ active'.total = IF s # 0 /\ active.shift = s THEN active.total + 1 ELSE active.total
BY DEF Mirror, Copied

(* A sale credited to a shift leaves the same shifts open. *)
LEMMA CreditStands ==
    ASSUME TablesOK, NEW s \in Known, Credit(s) PROVE Open(row') = Open(row)
BY Credits DEF Open

LEMMA BumpPhase == ASSUME DeskInv, PhasesOK, Bump PROVE PhasesOK'
<1>1. StepsOK /\ TablesOK /\ LoopOK
  BY DEF DeskInv, StepsOK
<1>2. PICK t \in Known : t = step[Loop].shift
  BY <1>1 DEF LoopOK
<1>3. /\ step[Loop].at = "bump" /\ Credit(t) /\ UNCHANGED active
      /\ \A m \in SaleNo : sale'[m].stage = sale[m].stage /\ sale'[m].shift = sale[m].shift
  <2>1. PICK n \in SaleNo : n = step[Loop].sale
    BY <1>1 DEF Bump, LoopOK
  <2>2. sale' = [sale EXCEPT ![n].unpaid = FALSE]
    BY <2>1 DEF Bump
  <2> QED
    BY <1>1, <1>2, <2>2 DEF Bump, TablesOK, SaleState
<1>4. PICK shifts : step' = [step EXCEPT ![Loop] = Telling(Loop, shifts, "mirror")]
  BY DEF Bump
<1>5. \A c \in Caller : step'[c] = step[c]
  BY <1>1, <1>4, LoopGoes
<1>6. step'[Loop].at = "read" /\ step'[Loop].then = "mirror" /\ step'[Loop].shift = t
  <2>1. /\ Only(Loop) /\ step'[Loop].at = "read" /\ step'[Loop].then = "mirror"
        /\ step'[Loop].over = step[Loop].over
        /\ step'[Loop].shift = step[Loop].shift /\ step'[Loop].next = step[Loop].next
        /\ step'[Loop].since = step[Loop].since /\ step'[Loop].began = step[Loop].began
        /\ step'[Loop].count = step[Loop].count
    BY <1>1, <1>4, LoopIsProcess, Tellings
  <2> QED
    BY <1>2, <2>1
<1>7. Open(row') = Open(row)
  BY <1>1, <1>3, CreditStands
<1>8. ASSUME Mirrored PROVE Mirrored'
  <2>1. CASE active.shift = 0
    BY <1>3, <1>7, <1>8, <2>1 DEF Mirrored
  <2>2. CASE active.shift # 0
    <3>1. PICK s \in ShiftId : s = active.shift
      BY <1>1, <2>2, TakenIsShift DEF TablesOK, Known
    <3>2. Lag(s) = 0
      BY <1>3 DEF Lag, Beyond
    <3>3. active.total = row[s].total /\ row[s].total \in Nat /\ Open(row) = {s}
      BY <1>1, <1>8, <2>2, <3>1, <3>2 DEF Mirrored, TablesOK, ShiftRow
    <3>4. Lag(s)' = IF s = t THEN 1 ELSE 0
      BY <1>6 DEF Lag, Beyond
    <3>5. row'[s].total = IF s = t THEN row[s].total + 1 ELSE row[s].total
      BY <1>1, <1>3, <3>1, Credits
    <3>6. active'.total = row'[s].total - Lag(s)'
      BY <1>3, <3>3, <3>4, <3>5
    <3>7. active'.shift = s /\ s # 0
      BY <1>3, <2>2, <3>1
    <3>8. Lag(active.shift)' = Lag(s)'
      BY <3>7 DEF Lag
    <3> QED
      BY <1>7, <3>3, <3>6, <3>7, <3>8 DEF Mirrored
  <2> QED
    BY <2>1, <2>2
<1>9. ASSUME NEW u \in Taken, Unstamped(u) PROVE Unstamped(u)' /\ row'[u].total = row[u].total
  <2>1. u # t /\ u \in ShiftId
    BY <1>2, <1>3, <1>9, TakenIsShift DEF Unstamped
  <2>2. row'[u].total = row[u].total
    BY <1>1, <1>3, <2>1, Credits
  <2> QED
    BY <1>2, <1>3, <1>6, <1>9, <2>2 DEF Unstamped
<1>10. Totalling(Loop)
  BY <1>3 DEF Totalling
<1> QED
  BY <1>3, <1>5, <1>7, <1>8, <1>9, <1>10, LoopTurn

LEMMA CreditMirrorPhase == ASSUME DeskInv, Copied, PhasesOK, CreditMirror PROVE PhasesOK'
<1>1. StepsOK /\ TablesOK
  BY DEF DeskInv
<1>2. PICK t : t = step[Loop].shift
  OBVIOUS
<1>3. /\ step[Loop].at = "mirror" /\ Mirror(t) /\ UNCHANGED <<row, sale>>
      /\ step' = [step EXCEPT ![Loop] = Idle]
  BY <1>2 DEF CreditMirror
<1>4. /\ \A c \in Caller : step'[c] = step[c]
      /\ step'[Loop].at = "idle" /\ ~Totalling(Loop)' /\ \A s : Lag(s)' = 0
  BY <1>1, <1>3, LoopRests
<1>5. /\ active'.shift = active.shift
      /\ active'.total = IF t # 0 /\ active.shift = t THEN active.total + 1 ELSE active.total
  BY <1>3, MirrorCounts
<1>6. ASSUME Mirrored PROVE Mirrored'
  <2>1. CASE active.shift = 0
    BY <1>3, <1>5, <1>6, <2>1 DEF Mirrored
  <2>2. CASE active.shift # 0
    <3>1. PICK s \in ShiftId : s = active.shift
      BY <1>1, <2>2, TakenIsShift DEF TablesOK, Known
    <3>2. Lag(s) = IF s = t THEN 1 ELSE 0
      BY <1>2, <1>3 DEF Lag, Beyond
    <3>3. active.total = row[s].total - Lag(s) /\ row[s].total \in Nat /\ Open(row) = {s}
      BY <1>1, <1>6, <2>2, <3>1 DEF Mirrored, TablesOK, ShiftRow
    <3>4. active'.total = row[s].total
      BY <1>5, <2>2, <3>1, <3>2, <3>3
    <3>5. Lag(active.shift)' = 0
      BY <1>4 DEF Lag
    <3>6. active'.shift = s /\ s # 0
      BY <1>5, <2>2, <3>1
    <3> QED
      BY <1>3, <3>3, <3>4, <3>5, <3>6 DEF Mirrored
  <2> QED
    BY <2>1, <2>2
<1>7. ASSUME NEW u \in Taken, Unstamped(u) PROVE Unstamped(u)'
  BY <1>3, <1>4, <1>7 DEF Unstamped
<1>8. Totalling(Loop) /\ Open(row') = Open(row)
  BY <1>3 DEF Totalling
<1> QED
  BY <1>3, <1>4, <1>5, <1>6, <1>7, <1>8, LoopTurn

LEMMA CommitSalePhase ==
    ASSUME DeskInv, Copied, PhasesOK, NEW n \in SaleNo, CommitSale(n), ~mixed' PROVE PhasesOK'
<1>1. StepsOK /\ TablesOK
  BY DEF DeskInv
<1>2. PICK t \in Known : t = sale[n].shift
  BY <1>1 DEF TablesOK
<1>3. /\ step[Loop].at = "idle" /\ sale[n].stage = "open" /\ UNCHANGED step
      /\ Book(n, t, "booked") /\ Credit(t) /\ Mirror(t)
  BY <1>2 DEF CommitSale
<1>4. /\ active'.shift = active.shift
      /\ active'.total = IF t # 0 /\ active.shift = t THEN active.total + 1 ELSE active.total
  BY <1>3, MirrorCounts
<1>5. (\A s : Lag(s) = 0 /\ Lag(s)' = 0) /\ Lag(active.shift)' = 0
  BY <1>3 DEF Lag, Beyond
<1>6. Open(row') = Open(row)
  BY <1>1, <1>3, CreditStands
<1>7. ASSUME Mirrored PROVE Mirrored'
  <2>1. CASE active.shift = 0
    BY <1>4, <1>6, <1>7, <2>1 DEF Mirrored
  <2>2. CASE active.shift # 0
    <3>1. PICK s \in ShiftId : s = active.shift
      BY <1>1, <2>2, TakenIsShift DEF TablesOK, Known
    <3>2. active.total = row[s].total /\ row[s].total \in Nat /\ Open(row) = {s}
      BY <1>1, <1>5, <1>7, <2>2, <3>1 DEF Mirrored, TablesOK, ShiftRow
    <3>3. row'[s].total = IF s = t THEN row[s].total + 1 ELSE row[s].total
      BY <1>1, <1>3, <3>1, Credits
    <3>4. active'.total = row'[s].total /\ row'[s].total \in Nat
      BY <1>4, <2>2, <3>1, <3>2, <3>3
    <3>5. active'.shift = s /\ s # 0
      BY <1>4, <2>2, <3>1
    <3> QED
      BY <1>5, <1>6, <3>2, <3>4, <3>5 DEF Mirrored
  <2> QED
    BY <2>1, <2>2
<1>8. sale'[n].stage = "booked" /\ \A m \in SaleNo \ {n} : sale'[m] = sale[m]
  BY <1>1, <1>3, Books
<1>9. ASSUME NEW u \in Taken, Unstamped(u) PROVE Unstamped(u)' /\ row'[u].total = row[u].total
  <2>1. u # t /\ u \in ShiftId
    BY <1>2, <1>3, <1>9, TakenIsShift DEF Unstamped
  <2>2. row'[u].total = row[u].total
    BY <1>1, <1>3, <2>1, Credits
  <2>3. Unstamped(u)'
    BY <1>3, <1>8, <1>9 DEF Unstamped
  <2> QED
    BY <2>2, <2>3
<1>10. ~\E c \in Caller : step[c].at = "republish"
  BY NoneRereads DEF CommitSale, Overlap
<1> QED
  BY <1>3, <1>4, <1>6, <1>7, <1>9, <1>10, LoopTurn

----------------------------------------------------------------------------
(* A restart puts the open shift, if one is left, back into memory. *)

LEMMA TwoAtLeast ==
    ASSUME NEW S, IsFiniteSet(S), ~(Cardinality(S) > 1), NEW s \in S, NEW t \in S
    PROVE  s = t
<1> SUFFICES ASSUME s # t PROVE FALSE
  OBVIOUS
<1>1. IsFiniteSet({s}) /\ Cardinality({s}) = 1
  BY FS_Singleton
<1>2. Cardinality({s} \cup {t}) = 2
  <2>1. /\ IsFiniteSet({s} \cup {t})
        /\ Cardinality({s} \cup {t})
             = IF t \in {s} THEN Cardinality({s}) ELSE Cardinality({s}) + 1
    BY <1>1, FS_AddElement
  <2> QED
    BY <1>1, <2>1
<1>3. Cardinality({s} \cup {t}) <= Cardinality(S)
  BY FS_Subset
<1>4. Cardinality(S) \in Nat
  BY FS_CardinalityType
<1> QED
  BY <1>2, <1>3, <1>4

LEMMA CrashPhase == ASSUME DeskInv, Crash, ~cut' PROVE PhasesOK'
<1>1. TablesOK'
  BY CrashStep DEF DeskInv
<1>2. /\ step' = [p \in Process |-> Idle]
      /\ ~(Cardinality(Open(row')) > 1)
  BY DEF Crash
<1>3. \A p \in Process : step'[p] = Idle
  BY <1>2
<1>4. (\A c \in Caller : step'[c].at = "idle") /\ step'[Loop].at = "idle"
  BY <1>3, LoopIsProcess DEF Process, Idle
<1>5. IsFiniteSet(Open(row'))
  <2>1. IsFiniteSet(ShiftId) /\ Open(row') \subseteq ShiftId
    BY CapAssumption, FS_Interval DEF ShiftId, Open
  <2> QED
    BY <2>1, FS_Subset
<1>6. PICK close \in AutoClose : Repaired(close)
  BY DEF Crash
<1>7. IF Open(row') = {} THEN active' = NoShift
      ELSE \E s \in Latest(row') : active' = [shift |-> s, total |-> row'[s].total]
  BY <1>6 DEF Repaired
<1>8. \A s : Lag(s)' = 0
  BY <1>4 DEF Lag, Beyond
<1>9. Lag(active.shift)' = 0
  BY <1>4 DEF Lag, Beyond
<1>10. Mirrored'
  <2>1. CASE Open(row') = {}
    <3>1. active'.shift = 0
      BY <1>7, <2>1 DEF NoShift
    <3> QED
      BY <2>1, <3>1 DEF Mirrored
  <2>2. CASE Open(row') # {}
    <3>1. PICK s \in Latest(row') : active' = [shift |-> s, total |-> row'[s].total]
      BY <1>7, <2>2
    <3>2. s \in Open(row') /\ s \in ShiftId /\ s # 0
      BY DEF Latest, Open, ShiftId
    <3>3. Open(row') = {s}
      BY <1>2, <1>5, <3>2, TwoAtLeast
    <3>4. active'.shift = s /\ active'.total = row'[s].total
      BY <3>1
    <3>5. row'[s].total \in Nat
      BY <1>1, <3>2 DEF TablesOK, ShiftRow
    <3> QED
      BY <1>9, <3>2, <3>3, <3>4, <3>5 DEF Mirrored
  <2> QED
    BY <2>1, <2>2
<1>11. ASSUME NEW c \in Caller PROVE PhaseOK(c)'
  <2>1. step'[c].at = "idle" /\ Beyond(c)' = "idle"
    BY <1>4 DEF Beyond
  <2> QED
    BY <1>10, <2>1 DEF PhaseOK, Moving
<1> QED
  BY <1>10, <1>11 DEF PhasesOK

LEMMA PhasesInit == Init => MirrorInv
<1> SUFFICES ASSUME Init PROVE PhasesOK
  BY DEF MirrorInv
<1>1. (\A c \in Caller : step[c].at = "idle") /\ step[Loop].at = "idle"
  BY LoopIsProcess DEF Init, Process, Idle
<1>2. Mirrored
  BY DEF Init, NoShift, Mirrored, Open
<1>3. ASSUME NEW c \in Caller PROVE PhaseOK(c)
  <2>1. step[c].at = "idle" /\ Beyond(c) = "idle"
    BY <1>1 DEF Beyond
  <2> QED
    BY <1>2, <2>1 DEF PhaseOK, Moving
<1> QED
  BY <1>2, <1>3 DEF PhasesOK

(* Only a restart makes good what went wrong before. *)
LEMMA NothingHeals ==
    ASSUME Running, ~cut', ~mixed' PROVE ~cut /\ ~mixed
<1>1. ASSUME UNCHANGED <<cut, mixed>> PROVE ~cut /\ ~mixed
  BY <1>1
<1>2. ASSUME UNCHANGED history PROVE ~cut /\ ~mixed
  BY <1>1, <1>2 DEF history
<1>3. ASSUME NEW p \in Process, Mixes(p), UNCHANGED cut PROVE ~cut /\ ~mixed
  BY <1>3, Zenon DEF Mixes
<1>4. ASSUME NEW damage, Stumble(damage) PROVE FALSE
  BY <1>4 DEF Stumble
<1>5. ASSUME NEW c \in Caller, Ask(c) \/ Proceed(c) \/ CutOff(c) PROVE ~cut /\ ~mixed
  <2>1. c \in Process
    BY DEF Process
  <2>2. ASSUME Ask(c) PROVE ~cut /\ ~mixed
    BY <1>1, <1>2, <2>2 DEF Ask, Start, End, CloseStopped
  <2>3. ASSUME Proceed(c) PROVE ~cut /\ ~mixed
    BY <1>1, <1>2, <1>3, <2>1, <2>3
       DEF Proceed, Insert, CountLoose, AssignLoose, CreditLoose, Load, Publish, Close, Clear,
           CheckAgain, CountMove, Move, Take, Give, Reload, Republish, TellStopped, Overlap,
           Strays
  <2> QED
    BY <1>4, <1>5, <2>2, <2>3 DEF CutOff
<1>6. ASSUME Selling PROVE ~cut /\ ~mixed
  BY <1>1, <1>2, <1>3, <1>4, <1>6, LoopIsProcess
     DEF Selling, Order, InsertPaused, PauseFails, Persist, PersistFails, TellSale, Bump,
         BumpFails, CreditMirror, CommitSale, PauseSale, CloseSale, Stamped, Overlap, Strays
<1>7. ASSUME NEW p \in Process, Tell(p) \/ SendFails(p) PROVE ~cut /\ ~mixed
  BY <1>2, <1>4, <1>7 DEF Tell, ReadShift, SendShift, SendFails
<1> QED
  BY <1>5, <1>6, <1>7 DEF Running

LEMMA RunningPhase ==
    ASSUME OneCaller, DeskInv, Copied, PhasesOK, Running, ~cut', ~mixed' PROVE PhasesOK'
<1>1. ASSUME NEW damage, Stumble(damage) PROVE FALSE
  BY <1>1 DEF Stumble
<1>2. ASSUME NEW c \in Caller, Ask(c) \/ Proceed(c) \/ CutOff(c) PROVE PhasesOK'
  BY <1>1, <1>2, AskPhase, ProceedPhase DEF CutOff
<1>3. ASSUME Selling PROVE PhasesOK'
  <2>1. ~BumpFails
    BY <1>1 DEF BumpFails
  <2> QED
    BY <1>3, <2>1, OrderPhase, InsertPausedPhase, PauseFailsPhase, PersistPhase,
       PersistFailsPhase, TellSalePhase, BumpPhase, CreditMirrorPhase, CommitSalePhase,
       PauseSalePhase, CloseSalePhase
       DEF Selling
<1>4. ASSUME NEW p \in Process, Tell(p) \/ SendFails(p) PROVE PhasesOK'
  <2>1. Tell(p)
    BY <1>1, <1>4 DEF SendFails
  <2> QED
    BY <2>1, CallerTellsPhase, LoopTellsPhase DEF Process
<1> QED
  BY <1>2, <1>3, <1>4 DEF Running

LEMMA MirrorInvStep == OneCaller /\ DeskInv /\ Copied /\ MirrorInv /\ [Next]_deskVars => MirrorInv'
<1> SUFFICES ASSUME OneCaller, DeskInv, Copied, MirrorInv, [Next]_deskVars, ~cut', ~mixed'
             PROVE  PhasesOK'
  BY DEF MirrorInv
<1>1. CASE Running
  <2>1. ~cut /\ ~mixed
    BY <1>1, NothingHeals
  <2>2. PhasesOK
    BY <2>1 DEF MirrorInv
  <2> QED
    BY <1>1, <2>2, RunningPhase
<1>2. CASE Crash
  BY <1>2, CrashPhase
<1>3. CASE UNCHANGED deskVars
  <2>1. UNCHANGED <<row, sale, active, step, cut, mixed>>
    BY <1>3 DEF deskVars, data, history
  <2>2. PhasesOK
    BY <2>1 DEF MirrorInv
  <2>3. Mirrored' = Mirrored
    BY <2>1 DEF Mirrored, Lag, Beyond
  <2>4. ASSUME NEW c \in Caller PROVE PhaseOK(c)'
    <3>1. PhaseOK(c)
      BY <2>2 DEF PhasesOK
    <3>2. Beyond(c)' = Beyond(c) /\ Totalling(Loop)' = Totalling(Loop)
      BY <2>1 DEF Beyond, Totalling
    <3>3. \A s : Unstamped(s)' = Unstamped(s)
      BY <2>1 DEF Unstamped
    <3> QED
      BY <2>1, <2>3, <3>1, <3>2, <3>3 DEF PhaseOK, StillSo
  <2> QED
    BY <2>2, <2>3, <2>4 DEF PhasesOK
<1> QED
  BY <1>1, <1>2, <1>3 DEF Next

(* With one request at a time and nothing in progress, the copy in memory is the row  *)
(* of the only open shift, total and all, or no shift is open, for any number of      *)
(* shifts and sales of the poll loop (start, end, handover, on_transaction_recorded). *)
(* Two starts that overlap leave two shifts open: then it does not hold.              *)
THEOREM MirrorKept == ASSUME OneCaller PROVE Spec => []MirrorTrue
<1>1. DeskInv /\ MirrorInv => MirrorTrue
  <2> SUFFICES ASSUME DeskInv, MirrorInv, Quiet, ~cut, ~mixed
               PROVE  IF active.shift = 0
                      THEN Open(row) = {}
                      ELSE active.shift \in Open(row) /\ active.total = row[active.shift].total
    BY DEF MirrorTrue
  <2>1. PhasesOK
    BY DEF MirrorInv
  <2>2. Mirrored
    <3>1. CASE Caller = {}
      BY <2>1, <3>1 DEF PhasesOK
    <3>2. CASE Caller # {}
      <4>1. PICK c \in Caller : PhaseOK(c)
        BY <2>1, <3>2 DEF PhasesOK
      <4>2. Beyond(c) = "idle"
        BY DEF Quiet, Process, Beyond
      <4> QED
        BY <4>1, <4>2 DEF PhaseOK
    <3> QED
      BY <3>1, <3>2
  <2>3. Lag(active.shift) = 0
    BY LoopIsProcess DEF Quiet, Lag, Beyond
  <2>4. active.shift # 0 => active.shift \in ShiftId /\ row[active.shift].total \in Nat
    BY TakenIsShift DEF DeskInv, TablesOK, Known, ShiftRow
  <2> QED
    BY <2>2, <2>3, <2>4 DEF Mirrored
<1>2. Init => MirrorInv
  BY PhasesInit
<1>3. DeskInv /\ Copied /\ MirrorInv /\ [Next]_deskVars => MirrorInv'
  BY MirrorInvStep
<1> QED
  BY <1>1, <1>2, <1>3, DeskInvInit, DeskInvStep, PTL DEF Spec
=============================================================================
