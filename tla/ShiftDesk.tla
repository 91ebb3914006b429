------------------------------ MODULE ShiftDesk ------------------------------
(***************************************************************************)
(* The shift desk of the dispenser service: shifts.rs over the statements  *)
(* of db/shift_queries.rs, the sale commits of shared.rs and of the AZT    *)
(* driver, and the startup repairs of main.rs.  The requests of the HTTP   *)
(* API run concurrently, each between its own awaits; the poll loop closes *)
(* one sale at a time.  Every statement is one step: nothing but the AZT   *)
(* sale commit runs in a transaction.                                      *)
(***************************************************************************)
EXTENDS Integers, SequencesExt

CONSTANTS
    Caller,       \* concurrent requests of the HTTP API
    Loop,         \* the poll loop
    Atomic,       \* values the variable atomic may have
    AutoClose,    \* values shifts.auto_close_on_restart takes over the restarts
    MaxShifts,    \* bound: shifts opened
    MaxSales,     \* bound: sales started
    Stoppable,    \* bound: sales that may be stopped before they end
    MaxBackdates, \* bound: requests with a start time in the past
    MaxCuts,      \* bound: requests cut off and statements failed
    MaxCrashes    \* bound: restarts of the service

ASSUME ProcessAssumption == Loop \notin Caller
ASSUME PolicyAssumption == Atomic \subseteq BOOLEAN /\ AutoClose \subseteq BOOLEAN
ASSUME CapAssumption == {MaxShifts, MaxSales, MaxBackdates, MaxCuts, MaxCrashes} \subseteq Nat

VARIABLES
    row,      \* table shifts
    sale,     \* the sales: in progress, or a row of table transactions
    queue,    \* table sync_queue
    active,   \* ShiftCoordinator::active, the copy in memory
    step,     \* where each request and the loop are, with their locals
    atomic,   \* does the site's driver commit a sale in one transaction (AZT 2.0)?
    backdates, cuts, crashes,   \* counters for the bounds
    cut,      \* history: a request or statement was cut off and no restart made it good
    mixed,    \* history: a count of sales went out of date and no restart made it good
    astray    \* history: a paused sale was moved, or closed after a count or in another
              \* shift than its row's, and no restart made it good

data == <<row, sale, queue, active, step>>
history == <<atomic, backdates, cuts, crashes, cut, mixed, astray>>
deskVars == <<data, history>>

Process == Caller \cup {Loop}
ShiftId == 1 .. MaxShifts
SaleNo == 1 .. MaxSales     \* in the order of started_at

(* Shift 0 is a NULL shift_id; no shift has it. *)
ShiftRow == [status : {"none", "ACTIVE", "CLOSED"}, began : Nat, total : Nat]

(* A paused sale is a row, STOPPED, that its lane holds; of a stopped one the  *)
(* row is left.  unpaid is history: a paused row that is in no total yet.      *)
SaleState == [stage : {"none", "open", "paused", "stopped", "booked", "lost"},
              shift : 0 .. MaxShifts, unpaid : BOOLEAN]
Record == [entity : {"shift", "transaction"}, id : Nat, shift : 0 .. MaxShifts,
           status : {"ACTIVE", "CLOSED", "COMPLETED"}, total : Nat, rows : Nat]

(* A row of sync_queue; verdict is FALSE after a sending without an answer. *)
Entry == [record : Record, synced : BOOLEAN, tries : Nat, verdict : BOOLEAN]

Started == Cardinality({n \in SaleNo : sale[n].stage # "none"})
Opened == Cardinality({s \in ShiftId : row[s].status # "none"})

(* The rows of a shift, STOPPED ones included, and those in its total. *)
InTable == {"paused", "stopped", "booked"}
Booked(s) == {n \in SaleNo : sale[n].stage \in InTable /\ sale[n].shift = s}
Paid(s) == {n \in Booked(s) : ~sale[n].unpaid}
Since(s, t) == {n \in Booked(s) : n >= t}

Idle == [at |-> "idle", shift |-> 0, next |-> 0, since |-> 0, began |-> 0, count |-> 0,
         over |-> FALSE, sale |-> 0, tell |-> <<>>, seen |-> {}, then |-> "idle"]

NoShift == [shift |-> 0, total |-> 0]

----------------------------------------------------------------------------
(* Telling the backend: table sync_queue. *)

(* The payload is the row with a breakdown counted from the transactions. *)
ShiftRecord(rows, s) ==
    [entity |-> "shift", id |-> s, shift |-> s, status |-> rows[s].status,
     total |-> rows[s].total, rows |-> Cardinality(Booked(s))]

SaleRecord(n, s) ==
    [entity |-> "transaction", id |-> n, shift |-> s, status |-> "COMPLETED",
     total |-> 0, rows |-> 0]

(* enqueue_on: the id is a hash of the payload; a known record keeps its place *)
(* and is due again.                                                           *)
Fresh(r) == [record |-> r, synced |-> FALSE, tries |-> 0, verdict |-> TRUE]

Told(q, r) ==
    IF \E e \in Range(q) : e.record = r
    THEN [i \in DOMAIN q |-> IF q[i].record = r THEN Fresh(r) ELSE q[i]]
    ELSE Append(q, Fresh(r))

ToldShifts(q, rows, shifts) ==
    FoldLeft(LAMBDA told, s : Told(told, ShiftRecord(rows, s)), q, SetToSeq(shifts))

(* enqueue_shift_by_id: the row is read by one statement, told by another. *)
Telling(p, shifts, then) ==
    [step[p] EXCEPT !.at = "read", !.tell = shifts, !.then = then]

ReadShift(p) ==
    /\ step[p].at = "read"
    /\ step' = [step EXCEPT ![p].at = "send", ![p].seen = {ShiftRecord(row, Head(step[p].tell))}]
    /\ UNCHANGED <<row, sale, queue, active, history>>

NextTell(p) ==
    LET rest == Tail(step[p].tell)
    IN  [step[p] EXCEPT !.tell = rest, !.seen = {},
                        !.at = IF rest = <<>> THEN step[p].then ELSE "read"]

Resting(st) == IF st.at = "idle" THEN Idle ELSE st

SendShift(p) ==
    /\ step[p].at = "send"
    /\ \E r \in step[p].seen : queue' = Told(queue, r)
    /\ step' = [step EXCEPT ![p] = Resting(NextTell(p))]
    /\ UNCHANGED <<row, sale, active, history>>

----------------------------------------------------------------------------
(* Requests and statements that fail. *)

(* Between a count of sales and the update that uses it. *)
Counting == {"assign", "credit", "move", "take", "give", "republish"}

Stumble(damage) ==
    /\ cuts < MaxCuts
    /\ cuts' = cuts + 1
    /\ cut' = TRUE
    /\ mixed' = (mixed \/ damage)
    /\ UNCHANGED <<atomic, backdates, crashes, astray>>

(* A telling that fails is logged and forgotten. *)
SendFails(p) ==
    /\ step[p].at = "send"
    /\ step' = [step EXCEPT ![p] = Resting(NextTell(p))]
    /\ Stumble(FALSE)
    /\ UNCHANGED <<row, sale, queue, active>>

(* A statement of a request fails, or its client hangs up: nothing is undone. *)
CutOff(c) ==
    /\ step[c].at # "idle"
    /\ step' = [step EXCEPT ![c] = Idle]
    /\ Stumble(step[c].at \in Counting)
    /\ UNCHANGED <<row, sale, queue, active>>

(* Is process q between a count of sales, or a sale, and the totals they go to? *)
Totalling(q) ==
    IF q = Loop THEN step[q].at \notin {"idle", "pause", "persist"}
    ELSE step[q].at \in Counting

(* A count and a sale commit overlap. *)
Mixes(p) == mixed' = (mixed \/ \E q \in Process \ {p} : Totalling(q))

Overlap(p) == Mixes(p) /\ UNCHANGED <<atomic, backdates, cuts, crashes, cut, astray>>

(* A paused sale is in another total than its row's, or will be in two. *)
Strays(bad) ==
    /\ astray' = (astray \/ bad)
    /\ UNCHANGED <<atomic, backdates, cuts, crashes, cut, mixed>>

----------------------------------------------------------------------------
(* start *)

Goto(p, place) == step' = [step EXCEPT ![p].at = place]

(* The check; since is started_at_override, 0 when there is none. *)
Opening(c, since) ==
    [step[c] EXCEPT !.at = "insert", !.since = since,
                    !.began = IF since = 0 THEN Started + 1 ELSE since]

Start(c, since) ==
    /\ step[c].at = "idle"
    /\ active.shift = 0
    /\ Opened < MaxShifts
    /\ step' = [step EXCEPT ![c] = Opening(c, since)]
    /\ backdates' = backdates + (IF since = 0 THEN 0 ELSE 1)
    /\ UNCHANGED <<row, sale, queue, active, atomic, cuts, crashes, cut, mixed, astray>>

(* persist_new_shift *)
Insert(c) ==
    /\ step[c].at = "insert"
    /\ Opened < MaxShifts
    /\ LET s == Opened + 1
       IN  /\ row' = [row EXCEPT ![s] =
                        [status |-> "ACTIVE", began |-> step[c].began, total |-> 0]]
           /\ step' = [step EXCEPT ![c] =
                        [@ EXCEPT !.at = "send", !.next = s, !.began = 0, !.tell = <<s>>,
                                  !.seen = {[entity |-> "shift", id |-> s, shift |-> s,
                                             status |-> "ACTIVE", total |-> 0, rows |-> 0]},
                                  !.then = IF step[c].since = 0 THEN "load" ELSE "count"]]
    /\ UNCHANGED <<sale, queue, active, history>>

(* backfill_unassigned_to_shift *)
CountLoose(c) ==
    /\ step[c].at = "count"
    /\ LET found == Cardinality(Since(0, step[c].since))
       IN  step' = [step EXCEPT ![c].count = found,
                                ![c].at = IF found = 0 THEN "load" ELSE "assign"]
    /\ Overlap(c)
    /\ UNCHANGED <<row, sale, queue, active>>

(* The rows that are moved were counted: they will be in the total. *)
Rebook(moved, s) ==
    sale' = [n \in SaleNo |-> IF n \in moved THEN [sale[n] EXCEPT !.shift = s, !.unpaid = FALSE]
                             ELSE sale[n]]

AssignLoose(c) ==
    /\ step[c].at = "assign"
    /\ Rebook(Since(0, step[c].since), step[c].next)
    /\ Goto(c, "credit")
    /\ UNCHANGED <<row, queue, active, history>>

CreditLoose(c) ==
    /\ step[c].at = "credit"
    /\ row' = [row EXCEPT ![step[c].next].total = @ + step[c].count]
    /\ step' = [step EXCEPT ![c] = Telling(c, <<step[c].next>>, "load")]
    /\ UNCHANGED <<sale, queue, active, history>>

(* get_shift, then the copy in memory is replaced. *)
Load(c) ==
    /\ step[c].at = "load"
    /\ step' = [step EXCEPT ![c].seen = {ShiftRecord(row, step[c].next)}, ![c].at = "publish"]
    /\ UNCHANGED <<row, sale, queue, active, history>>

Published(c) == \E r \in step[c].seen : active' = [shift |-> r.id, total |-> r.total]

Publish(c) ==
    /\ step[c].at = "publish"
    /\ Published(c)
    /\ step' = [step EXCEPT ![c] = IF @.over /\ @.since # 0
                                  THEN [@ EXCEPT !.at = "countMove", !.seen = {}]
                                  ELSE Idle]
    /\ UNCHANGED <<row, sale, queue, history>>

----------------------------------------------------------------------------
(* end and handover *)

(* The check; over when it is the first half of a handover. *)
End(c, over, since) ==
    /\ step[c].at = "idle"
    /\ active.shift # 0
    /\ over => Opened < MaxShifts
    /\ step' = [step EXCEPT ![c].at = "close", ![c].shift = active.shift,
                           ![c].over = over, ![c].since = since]
    /\ backdates' = backdates + (IF since = 0 THEN 0 ELSE 1)
    /\ UNCHANGED <<row, sale, queue, active, atomic, cuts, crashes, cut, mixed, astray>>

(* close_shift *)
Close(c) ==
    /\ step[c].at = "close"
    /\ row' = [row EXCEPT ![step[c].shift].status = "CLOSED"]
    /\ step' = [step EXCEPT ![c] = Telling(c, <<step[c].shift>>, "clear")]
    /\ UNCHANGED <<sale, queue, active, history>>

(* Only the shift that was closed is taken down. *)
Cleared(s) == IF active.shift = s THEN NoShift ELSE active

Clear(c) ==
    /\ step[c].at = "clear"
    /\ active' = Cleared(step[c].shift)
    /\ step' = [step EXCEPT ![c] = IF @.over THEN [@ EXCEPT !.at = "check"] ELSE Idle]
    /\ UNCHANGED <<row, sale, queue, history>>

(* handover goes on with start, which refuses when a shift is active. *)
CheckAgain(c) ==
    /\ step[c].at = "check"
    /\ \/ active.shift # 0 /\ step' = [step EXCEPT ![c] = Idle]
       \/ active.shift = 0 /\ step' = [step EXCEPT ![c] = Opening(c, @.since)]
    /\ UNCHANGED <<row, sale, queue, active, history>>

(* reassign_from_shift_since *)
CountMove(c) ==
    /\ step[c].at = "countMove"
    /\ LET found == Cardinality(Since(step[c].shift, step[c].since))
       IN  step' = [step EXCEPT ![c].count = found,
                                ![c].at = IF found = 0 THEN "reload" ELSE "move"]
    /\ Overlap(c)
    /\ UNCHANGED <<row, sale, queue, active>>

Move(c) ==
    /\ step[c].at = "move"
    /\ LET moved == Since(step[c].shift, step[c].since)
       IN  /\ Rebook(moved, step[c].next)
           /\ Strays(\E n \in moved : sale[n].unpaid)
    /\ Goto(c, "take")
    /\ UNCHANGED <<row, queue, active>>

Less(total, n) == IF total > n THEN total - n ELSE 0

Take(c) ==
    /\ step[c].at = "take"
    /\ row' = [row EXCEPT ![step[c].shift].total = Less(@, step[c].count)]
    /\ Goto(c, "give")
    /\ UNCHANGED <<sale, queue, active, history>>

Give(c) ==
    /\ step[c].at = "give"
    /\ row' = [row EXCEPT ![step[c].next].total = @ + step[c].count]
    /\ step' = [step EXCEPT ![c] = Telling(c, <<step[c].shift, step[c].next>>, "reload")]
    /\ UNCHANGED <<sale, queue, active, history>>

Reload(c) ==
    /\ step[c].at = "reload"
    /\ step' = [step EXCEPT ![c].seen = {ShiftRecord(row, step[c].next)}, ![c].at = "republish"]
    /\ Overlap(c)
    /\ UNCHANGED <<row, sale, queue, active>>

Republish(c) ==
    /\ step[c].at = "republish"
    /\ Published(c)
    /\ step' = [step EXCEPT ![c] = Idle]
    /\ UNCHANGED <<row, sale, queue, history>>

----------------------------------------------------------------------------
(* Sales *)

(* A sale starts; the AZT driver fixes its shift with the order. *)
Order ==
    /\ step[Loop].at = "idle"
    /\ Started < MaxSales
    /\ sale' = [sale EXCEPT ![Started + 1] =
                  [stage |-> "open", shift |-> IF atomic THEN active.shift ELSE 0,
                   unpaid |-> FALSE]]
    /\ UNCHANGED <<row, queue, active, step, history>>

Book(n, s, stage) == sale' = [sale EXCEPT ![n].stage = stage, ![n].shift = s]

(* Faulty: the shift active now, not the shift of the sale. *)
CreditActive(s) ==
    row' = IF active.shift = 0 THEN row ELSE [row EXCEPT ![active.shift].total = @ + 1]

Credit(s) == row' = IF s = 0 THEN row ELSE [row EXCEPT ![s].total = @ + 1]

(* Faulty: whichever shift is in memory. *)
MirrorAny(s) ==
    active' = IF s # 0 /\ active.shift # 0 THEN [active EXCEPT !.total = @ + 1] ELSE active

Mirror(s) ==
    active' = IF s # 0 /\ active.shift = s THEN [active EXCEPT !.total = @ + 1] ELSE active

(* commit_azt_sale holds the lock of the copy in memory around the transaction. *)
CommitSale(n) ==
    /\ atomic
    /\ step[Loop].at = "idle"
    /\ sale[n].stage = "open"
    /\ Book(n, sale[n].shift, "booked")
    /\ Credit(sale[n].shift)
    /\ Mirror(sale[n].shift)
    /\ queue' = Told(queue, SaleRecord(n, sale[n].shift))
    /\ Overlap(Loop)
    /\ UNCHANGED step

(* The other drivers read the active shift as the sale is paused or closed. *)
Stamped(n, place) ==
    /\ ~atomic
    /\ step[Loop].at = "idle"
    /\ step' = [step EXCEPT ![Loop].at = place, ![Loop].sale = n, ![Loop].shift = active.shift]
    /\ UNCHANGED <<row, sale, queue, active, history>>

(* A Stop, or a pump that stops: the Wayne driver puts a STOPPED row in the    *)
(* table and nothing else, neither a telling nor a credit.                     *)
PauseSale(n) == n \in Stoppable /\ sale[n].stage = "open" /\ Stamped(n, "pause")

InsertPaused ==
    /\ step[Loop].at = "pause"
    /\ sale' = [sale EXCEPT ![step[Loop].sale] =
                   [stage |-> "paused", shift |-> step[Loop].shift, unpaid |-> TRUE]]
    /\ step' = [step EXCEPT ![Loop] = Idle]
    /\ Overlap(Loop)
    /\ UNCHANGED <<row, queue, active>>

(* The lane keeps the sale, without a row. *)
PauseFails ==
    /\ step[Loop].at = "pause"
    /\ step' = [step EXCEPT ![Loop] = Idle]
    /\ UNCHANGED <<row, sale, queue, active, history>>

CloseSale(n) == sale[n].stage \in {"open", "paused"} /\ Stamped(n, "persist")

(* persist_closed_transaction completes the row of a paused sale, which keeps  *)
(* its shift, or inserts one; a sale that did not end by itself is STOPPED.  A *)
(* paused sale that a backdated start has counted will be credited once more.  *)
Persist ==
    /\ step[Loop].at = "persist"
    /\ LET n == step[Loop].sale
       IN  /\ \E stage \in {"booked"} \cup (IF n \in Stoppable THEN {"stopped"} ELSE {}) :
                 \/ sale[n].stage = "open" /\ Book(n, step[Loop].shift, stage)
                 \/ sale[n].stage = "paused" /\ Book(n, sale[n].shift, stage)
           /\ astray' = (astray \/ (sale[n].stage = "paused" /\ ~sale[n].unpaid))
    /\ Goto(Loop, "tellSale")
    /\ Mixes(Loop)
    /\ UNCHANGED <<row, queue, active, atomic, backdates, cuts, crashes, cut>>

(* The lane stays unclosed and the close is retried, but the Wayne driver,     *)
(* the only one that pauses sales, releases the pump regardless.  The insert   *)
(* of a row that the operator has closed meanwhile always fails.               *)
PersistFails ==
    /\ step[Loop].at = "persist"
    /\ step' = [step EXCEPT ![Loop] = Idle]
    /\ LET n == step[Loop].sale
       IN  \/ sale[n].stage # "paused" /\ UNCHANGED sale
           \/ sale[n].stage = "open" /\ sale' = [sale EXCEPT ![n].stage = "lost"]
           \/ sale[n].stage = "paused" /\ sale' = [sale EXCEPT ![n].stage = "stopped"]
    /\ UNCHANGED <<row, queue, active, history>>

AfterTellSale == step' = [step EXCEPT ![Loop] = IF @.shift = 0 THEN Idle ELSE [@ EXCEPT !.at = "bump"]]

(* enqueue_tx *)
TellSale ==
    /\ step[Loop].at = "tellSale"
    /\ \/ queue' = Told(queue, SaleRecord(step[Loop].sale, step[Loop].shift)) /\ UNCHANGED history
       \/ UNCHANGED queue /\ Stumble(FALSE)
    /\ AfterTellSale
    /\ UNCHANGED <<row, sale, active>>

(* bump_shift_totals; a failure does not undo the sale. *)
Bump ==
    /\ step[Loop].at = "bump"
    /\ Credit(step[Loop].shift)
    /\ LET n == step[Loop].sale
       IN  /\ sale' = [sale EXCEPT ![n].unpaid = FALSE]
           /\ Strays(sale[n].unpaid /\ sale[n].shift # step[Loop].shift)
    /\ step' = [step EXCEPT ![Loop] = Telling(Loop, <<step[Loop].shift>>, "mirror")]
    /\ UNCHANGED <<queue, active>>

BumpFails ==
    /\ step[Loop].at = "bump"
    /\ step' = [step EXCEPT ![Loop] = Idle]
    /\ Stumble(TRUE)
    /\ UNCHANGED <<row, sale, queue, active>>

CreditMirror ==
    /\ step[Loop].at = "mirror"
    /\ Mirror(step[Loop].shift)
    /\ step' = [step EXCEPT ![Loop] = Idle]
    /\ UNCHANGED <<row, sale, queue, history>>

(* The operator closes a paused or stopped sale: close_stopped_tx takes it     *)
(* from its lane and completes its row, then tells it; nothing is credited.    *)
CloseStopped(c, n) ==
    /\ step[c].at = "idle"
    /\ sale[n].stage \in {"paused", "stopped"}
    /\ sale' = [sale EXCEPT ![n].stage = "booked"]
    /\ step' = [step EXCEPT ![c].at = "tellStopped", ![c].sale = n]
    /\ UNCHANGED <<row, queue, active, history>>

TellStopped(c) ==
    /\ step[c].at = "tellStopped"
    /\ queue' = Told(queue, SaleRecord(step[c].sale, sale[step[c].sale].shift))
    /\ step' = [step EXCEPT ![c] = Idle]
    /\ UNCHANGED <<row, sale, active, history>>

----------------------------------------------------------------------------
(* Crash and restart: nothing else runs until the repairs are done.  They make *)
(* good everything a request cut off leaves behind but a second open shift.    *)

(* recompute_shift_totals_from_transactions *)
Recomputed ==
    [s \in ShiftId |-> [row[s] EXCEPT !.total =
                          IF row[s].status = "none" THEN 0 ELSE Cardinality(Booked(s))]]

(* close_all_active_shifts *)
ClosedAll(rows) ==
    [s \in ShiftId |-> IF rows[s].status = "ACTIVE" THEN [rows[s] EXCEPT !.status = "CLOSED"]
                                                   ELSE rows[s]]

Open(rows) == {s \in ShiftId : rows[s].status = "ACTIVE"}

(* load_active_shift: the latest start among the open shifts. *)
Latest(rows) == {s \in Open(rows) : \A t \in Open(rows) : rows[t].began <= rows[s].began}

(* Faulty: a closed shift is never told again. *)
UnsyncedNone(q, rows) == {}

(* backfill_unsynced_closed_shifts *)
Unsynced(q, rows) ==
    {s \in ShiftId : /\ rows[s].status = "CLOSED"
                     /\ ~\E e \in Range(q) : /\ e.synced /\ e.record.entity = "shift"
                                            /\ e.record.id = s /\ e.record.status = "CLOSED"}

(* What the repairs leave, with and without auto_close_on_restart. *)
Repaired(close) ==
    LET changed  == {s \in ShiftId : Recomputed[s] # row[s]}
        rows     == IF close THEN ClosedAll(Recomputed) ELSE Recomputed
        repaired == ToldShifts(queue, Recomputed, changed)
        restored == IF close THEN ToldShifts(repaired, rows, Open(Recomputed)) ELSE repaired
    IN  /\ row' = rows
        /\ queue' = ToldShifts(restored, rows, Unsynced(restored, rows))
        /\ IF Open(rows) = {}
           THEN active' = NoShift
           ELSE \E s \in Latest(rows) : active' = [shift |-> s, total |-> rows[s].total]

(* An open sale comes back from the AZT journal; the other drivers forget it,  *)
(* and of a paused one the row is left.  The repairs count every row.          *)
AfterCrash(s) ==
    [s EXCEPT !.stage = CASE @ = "open" /\ ~atomic -> "lost"
                          [] @ = "paused" -> "stopped"
                          [] OTHER -> @,
              !.unpaid = FALSE]

Crash ==
    /\ crashes < MaxCrashes
    /\ crashes' = crashes + 1
    /\ \E close \in AutoClose : Repaired(close)
    /\ sale' = [n \in SaleNo |-> AfterCrash(sale[n])]
    /\ step' = [p \in Process |-> Idle]
    /\ cut' = (Cardinality(Open(row')) > 1)
    /\ mixed' = FALSE /\ astray' = FALSE
    /\ UNCHANGED <<atomic, backdates, cuts>>

----------------------------------------------------------------------------
Init ==
    /\ row = [s \in ShiftId |-> [status |-> "none", began |-> 0, total |-> 0]]
    /\ sale = [n \in SaleNo |-> [stage |-> "none", shift |-> 0, unpaid |-> FALSE]]
    /\ queue = <<>>
    /\ active = NoShift
    /\ step = [p \in Process |-> Idle]
    /\ atomic \in Atomic
    /\ backdates = 0 /\ cuts = 0 /\ crashes = 0
    /\ cut = FALSE /\ mixed = FALSE /\ astray = FALSE

(* A start time given by the operator, within the sales seen so far. *)
Override == {0} \cup {t \in SaleNo : t <= Started /\ backdates < MaxBackdates}

Ask(c) ==
    \/ \E since \in Override : Start(c, since)
    \/ End(c, FALSE, 0)
    \/ \E since \in Override : End(c, TRUE, since)
    \/ \E n \in SaleNo : CloseStopped(c, n)

Proceed(c) ==
    \/ Insert(c) \/ CountLoose(c) \/ AssignLoose(c) \/ CreditLoose(c)
    \/ Load(c) \/ Publish(c)
    \/ Close(c) \/ Clear(c) \/ CheckAgain(c)
    \/ CountMove(c) \/ Move(c) \/ Take(c) \/ Give(c) \/ Reload(c) \/ Republish(c)
    \/ TellStopped(c)

Tell(p) == ReadShift(p) \/ SendShift(p)

Selling ==
    \/ Order \/ InsertPaused \/ PauseFails
    \/ Persist \/ PersistFails \/ TellSale \/ Bump \/ BumpFails \/ CreditMirror
    \/ \E n \in SaleNo : CommitSale(n) \/ PauseSale(n) \/ CloseSale(n)

Running ==
    \/ \E c \in Caller : Ask(c) \/ Proceed(c) \/ CutOff(c)
    \/ Selling
    \/ \E p \in Process : Tell(p) \/ SendFails(p)

Next == Running \/ Crash

Spec == Init /\ [][Next]_deskVars

----------------------------------------------------------------------------
(* The values every variable takes (shifts.rs, db/shift_queries.rs). *)
TypeOK ==
    /\ row \in [ShiftId -> ShiftRow]
    /\ sale \in [SaleNo -> SaleState]
    /\ queue \in Seq(Entry)
    /\ active \in [shift : 0 .. MaxShifts, total : Nat]
    /\ \A p \in Process : /\ {step[p].shift, step[p].next} \subseteq 0 .. MaxShifts
                         /\ step[p].sale \in 0 .. MaxSales
                         /\ step[p].tell \in Seq(ShiftId)
                         /\ step[p].seen \subseteq Record
    /\ {backdates, cuts, crashes} \subseteq Nat
    /\ {cut, mixed, astray} \subseteq BOOLEAN /\ atomic \in Atomic

(* Nothing the desk does depends on sync_queue while no record is synced: a run *)
(* without the worker may take states that differ in it alone for one.          *)
WithoutQueue == <<row, sale, active, step, history>>

Quiet == \A p \in Process : step[p].at = "idle"

(* With nothing in progress the total of every shift is that of its sales,     *)
(* whatever requests, sales, handovers and restarts came before, but for       *)
(* paused sales that no lane has closed since (unpaid); unless a sale was      *)
(* booked while a backdated request was counting or a credit failed (mixed),   *)
(* or a paused sale was moved, or closed after a count or in another shift     *)
(* (astray).  A restart makes good all three (shift_queries.rs,                *)
(* bump_shift_totals, reassign_from_shift_since,                               *)
(* recompute_shift_totals_from_transactions).                                  *)
TotalsMatch ==
    Quiet /\ ~mixed /\ ~astray => \A s \in ShiftId : row[s].total = Cardinality(Paid(s))

(* Does not hold: "Both effects belong together" (shared.rs,                   *)
(* persist_and_record), so that with nothing in progress the total of a shift  *)
(* has each of its completed sales.                                            *)
EverySaleCredited ==
    Quiet /\ ~mixed /\ ~cut =>
        \A s \in ShiftId :
            row[s].total >= Cardinality({n \in Booked(s) : sale[n].stage = "booked"})

(* With nothing in progress the copy in memory is the row of an open shift, or *)
(* there is no open shift: sales are stamped with it, and only it can be ended *)
(* (shifts.rs, start, end, handover, on_transaction_recorded).                 *)
MirrorTrue ==
    Quiet /\ ~cut /\ ~mixed =>
        IF active.shift = 0
        THEN Open(row) = {}
        ELSE active.shift \in Open(row) /\ active.total = row[active.shift].total

(* "a shift is already active - end it or hand over before starting another"   *)
(* (shifts.rs, start): there is one open shift at most.                        *)
OneActive == Cardinality(Open(row)) <= 1

(* Does not hold: "so the backend gets the final state" (shift_queries.rs,     *)
(* close_shift), the last record told of a closed shift says that it is closed. *)
ClosedTold ==
    Quiet /\ ~cut =>
        \A s \in ShiftId :
            row[s].status = "CLOSED" =>
                LET told == SelectSeq(queue, LAMBDA e : e.record.entity = "shift" /\ e.record.id = s)
                IN  told # <<>> /\ Last(told).record.status = "CLOSED"
=============================================================================
