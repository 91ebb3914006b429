------------------------------ MODULE PriceDesk ------------------------------
(***************************************************************************)
(* The prices of a station.  A price is kept four times: in the database   *)
(* (fp_nozzles), in the configuration in memory and on disk, and with the  *)
(* lanes, which sell at it.  Administrators and the scheduler change it    *)
(* through api/admin.rs: they copy the configuration, write the database,  *)
(* save the copy, put it in place of the configuration and send the lanes  *)
(* a command, with an await between any two.  The sync worker applies the  *)
(* backend's prices to the configuration itself (sync.rs), and a restart   *)
(* lays the database over the file (main.rs).                              *)
(***************************************************************************)
EXTENDS Integers, Sequences

CONSTANTS
    Nozzle,     \* the nozzles of a fueling position, all of one product
    Price,      \* the prices that pass the checks of the routes
    Tanks,      \* the layouts the tank section of the configuration may have
    Admin,      \* requests of administrators that may be in progress at once
    Change,     \* scheduled changes
    None,       \* no value
    QueueCap,   \* room in the lanes' command queue (64)
    Budgets     \* bounds: how often each of the events below may happen

(* catalogs, changes: requests of administrators; local: price commands of the  *)
(* operator's route; plans, cancels: of scheduled changes; pulls: of the        *)
(* backend's prices; edits: of the tank section; errors: writes and requests    *)
(* that fail; rounds: of the tank gauge.  rereads: the lanes are Wayne's, which *)
(* read the database when a nozzle is lifted.                                   *)
Budget ==
    [changes : Nat, catalogs : Nat, local : Nat, plans : Nat, cancels : Nat, pulls : Nat,
     edits : Nat, errors : Nat, crashes : Nat, rounds : Nat, rereads : BOOLEAN]

Scheduler == "scheduler"
Server == "server"
Writer == Admin \cup {Scheduler, Server}

ASSUME QueueCapAssumption == QueueCap \in Nat \ {0}
ASSUME BudgetsAssumption == Budgets \subseteq Budget
ASSUME NoneAssumption == None \notin Change /\ None \notin Tanks
ASSUME AdminAssumption == {Scheduler, Server} \cap Admin = {}

VARIABLES
    db,        \* [Nozzle -> Price]: table fp_nozzles
    site,      \* Site: the configuration in memory
    file,      \* Site: the configuration on disk
    lane,      \* [Nozzle -> Price]: RuntimeFp.nozzle_prices
    commands,  \* price commands on their way to the poll loop
    plan,      \* [Change -> Plan]: table scheduled_prices
    desk,      \* [Writer -> Job]: the change each writer is making
    torn,      \* history: a change overlapped another, failed half-way, missed the desk,
               \* or was undone half-way by a lane
    asked,     \* history: the layout the tank section was given last
    pushed,    \* [Change -> Nat] history: commands sent for the change
    cut,       \* history: scheduled changes that were in hand in a crash
    unmarked,  \* history: scheduled changes that failed, and whose row could not be marked
    left       \* what is left of the budget

stores == <<db, site, file, lane>>
ghosts == <<torn, asked, pushed, cut, unmarked>>
priceVars == <<stores, commands, plan, desk, ghosts, left>>

Site == [price : [Nozzle -> Price], tanks : Tanks]
Wanted == UNION {[S -> Price] : S \in SUBSET Nozzle}
Status == {"NONE", "PENDING", "APPLIED", "CANCELLED", "FAILED"}
Plan == [status : Status, price : Price, due : BOOLEAN]
Job ==
    [at : {"rest", "db", "save", "swap", "end", "apply", "mark"},
     kind : {"prices", "catalog", "pull"},
     want : Wanted,            \* the new prices
     todo : SUBSET Nozzle,     \* of them, those still to be written to the database
     snap : Site \cup {None},   \* the changed copy of the configuration
     change : Change \cup {None}, \* the scheduled change being applied
     due : SUBSET Change]      \* the claimed changes that wait for it

Spend(what) == left[what] > 0 /\ left' = [left EXCEPT ![what] = @ - 1]

(* The prices of under, but for those that are in over. *)
Laid(over, under) ==
    [n \in DOMAIN under |-> IF n \in DOMAIN over THEN over[n] ELSE under[n]]

(* w is changing the stores; it no longer is when it only marks its row. *)
Busy(w) == desk[w].at \notin {"rest", "mark"}
Alone(w) == \A v \in Writer \ {w} : ~Busy(v)
CopyOut == \E w \in Writer \ {Server} : desk[w].at \in {"db", "save", "swap"}
InHand(c) == c \in desk[Scheduler].due \/ desk[Scheduler].change = c

Rest(due) ==
    [at |-> "rest", kind |-> "prices", want |-> <<>>, todo |-> {}, snap |-> None,
     change |-> None, due |-> due]
Done(w) == desk' = [desk EXCEPT ![w] = Rest(@.due)]

----------------------------------------------------------------------------
(* apply_price_updates and the routes of the catalog. *)

(* The copy is taken with the new prices in it; a catalog goes to the database  *)
(* whole, of new prices only those that differ from the configuration.         *)
Snapshot(w, kind, want) ==
    /\ desk' = [desk EXCEPT
                   ![w].at = "db", ![w].kind = kind, ![w].want = want,
                   ![w].todo = {n \in DOMAIN want : kind = "catalog" \/ site.price[n] # want[n]},
                   ![w].snap = [site EXCEPT !.price = Laid(want, @)]]
    /\ torn' = (torn \/ ~Alone(w) \/ (kind = "catalog" /\ commands # <<>>))

(* POST /admin/prices *)
RequestPrices(a, want) ==
    /\ ~Busy(a) /\ Spend("changes") /\ Snapshot(a, "prices", want)
    /\ UNCHANGED <<stores, commands, plan, asked, pushed, cut, unmarked>>

(* admin_save_position_nozzles *)
RequestCatalog(a, want) ==
    /\ ~Busy(a) /\ Spend("catalogs") /\ Snapshot(a, "catalog", want)
    /\ UNCHANGED <<stores, commands, plan, asked, pushed, cut, unmarked>>

(* save_fp_nozzles_to_db: the nozzles of a catalog in one transaction. *)
WriteCatalog(w) ==
    /\ desk[w].at = "db" /\ desk[w].kind = "catalog" /\ desk[w].todo # {}
    /\ db' = desk[w].want
    /\ desk' = [desk EXCEPT ![w].todo = {}]
    /\ UNCHANGED <<site, file, lane, commands, plan, ghosts, left>>

(* update_nozzle_price_in_db: each new price by itself. *)
WritePrice(w, n) ==
    /\ desk[w].at = "db" /\ desk[w].kind # "catalog" /\ n \in desk[w].todo
    /\ db' = [db EXCEPT ![n] = desk[w].want[n]]
    /\ desk' = [desk EXCEPT ![w].todo = @ \ {n}]
    /\ UNCHANGED <<site, file, lane, commands, plan, ghosts, left>>

Written(w) ==
    /\ desk[w].at = "db" /\ desk[w].todo = {}
    /\ IF desk[w].kind = "pull" THEN Done(w) ELSE desk' = [desk EXCEPT ![w].at = "save"]
    /\ UNCHANGED <<stores, commands, plan, ghosts, left>>

(* config::save of the copy *)
SaveFile(w) ==
    /\ desk[w].at = "save"
    /\ file' = desk[w].snap
    /\ desk' = [desk EXCEPT ![w].at = "swap"]
    /\ UNCHANGED <<db, site, lane, commands, plan, ghosts, left>>

(* A write that fails ends the request; the scheduler goes on to mark its row. *)
Fails(w) ==
    /\ desk[w].at \in {"db", "save"} /\ desk[w].kind # "pull" /\ Spend("errors")
    /\ IF desk[w].change = None THEN Done(w) ELSE desk' = [desk EXCEPT ![w].at = "mark"]
    /\ torn' = (torn \/ db # site.price)
    /\ UNCHANGED <<stores, commands, plan, asked, pushed, cut, unmarked>>

(* The copy takes the place of the configuration. *)
Swap(w) ==
    /\ desk[w].at = "swap"
    /\ site' = desk[w].snap
    /\ desk' = [desk EXCEPT ![w].at = "end"]
    /\ UNCHANGED <<db, file, lane, commands, plan, ghosts, left>>

(* sync_runtimes_from_cfg, once a catalog is in place *)
SyncLanes(w) ==
    /\ desk[w].at = "end" /\ desk[w].kind = "catalog"
    /\ lane' = site.price
    /\ Done(w)
    /\ UNCHANGED <<db, site, file, commands, plan, ghosts, left>>

(* UpdatePrices goes to the poll loop as soon as there is room for it. *)
SendPrices(w) ==
    /\ desk[w].at = "end" /\ desk[w].kind = "prices" /\ Len(commands) < QueueCap
    /\ commands' = Append(commands, desk[w].want)
    /\ Done(w)
    /\ pushed' = IF desk[w].change = None THEN pushed
                 ELSE [pushed EXCEPT ![desk[w].change] = @ + 1]
    /\ UNCHANGED <<stores, plan, torn, asked, cut, unmarked, left>>

----------------------------------------------------------------------------
(* The scheduler and its rows. *)

CreateScheduled(c, p) ==
    /\ plan[c].status = "NONE" /\ Spend("plans")
    /\ plan' = [plan EXCEPT ![c] = [status |-> "PENDING", price |-> p, due |-> FALSE]]
    /\ UNCHANGED <<stores, commands, desk, ghosts>>

FallsDue(c) ==
    /\ plan[c].status # "NONE" /\ ~plan[c].due
    /\ plan' = [plan EXCEPT ![c].due = TRUE]
    /\ UNCHANGED <<stores, commands, desk, ghosts, left>>

CancelScheduled(c) ==
    /\ plan[c].status = "PENDING" /\ Spend("cancels")
    /\ plan' = [plan EXCEPT ![c].status = "CANCELLED"]
    /\ UNCHANGED <<stores, commands, desk, ghosts>>

(* Faulty: the rows are selected, and stay pending until their command is sent. *)
ClaimDueUnmarked ==
    LET claimed == {c \in Change : plan[c].status = "PENDING" /\ plan[c].due}
    IN  /\ desk[Scheduler].at = "rest" /\ desk[Scheduler].due = {} /\ claimed # {}
        /\ desk' = [desk EXCEPT ![Scheduler].due = claimed]
        /\ UNCHANGED <<stores, commands, plan, ghosts, left>>

(* claim_due: one statement marks the rows that are due and returns them. *)
ClaimDue ==
    LET claimed == {c \in Change : plan[c].status = "PENDING" /\ plan[c].due}
    IN  /\ desk[Scheduler].at = "rest" /\ desk[Scheduler].due = {} /\ claimed # {}
        /\ plan' = [c \in Change |->
                       IF c \in claimed THEN [plan[c] EXCEPT !.status = "APPLIED"] ELSE plan[c]]
        /\ desk' = [desk EXCEPT ![Scheduler].due = claimed]
        /\ UNCHANGED <<stores, commands, ghosts, left>>

(* run_once, for each change it claimed: a price for every nozzle of the product *)
ApplyScheduled(c) ==
    /\ desk[Scheduler].at = "rest" /\ c \in desk[Scheduler].due
    /\ LET want == [n \in Nozzle |-> plan[c].price]
       IN  desk' = [desk EXCEPT
                      ![Scheduler].at = "db", ![Scheduler].want = want,
                      ![Scheduler].todo = {n \in Nozzle : site.price[n] # want[n]},
                      ![Scheduler].snap = [site EXCEPT !.price = want],
                      ![Scheduler].change = c, ![Scheduler].due = @ \ {c}]
    /\ torn' = (torn \/ ~Alone(Scheduler))
    /\ UNCHANGED <<stores, commands, plan, asked, pushed, cut, unmarked, left>>

Marking(c) == desk[Scheduler].at = "mark" /\ desk[Scheduler].change = c

(* Faulty: the scheduler leaves its row as it is. *)
MarkNothing(c) ==
    /\ Marking(c) /\ Done(Scheduler)
    /\ UNCHANGED <<stores, commands, plan, ghosts, left>>

(* mark_failed, after an application that failed *)
MarkFailed(c) ==
    /\ Marking(c) /\ Done(Scheduler)
    /\ plan' = [plan EXCEPT ![c].status = "FAILED"]
    /\ UNCHANGED <<stores, commands, ghosts, left>>

(* That write may fail too: run_once drops its error, and the row stays applied. *)
MarkFails(c) ==
    /\ Marking(c) /\ Spend("errors") /\ Done(Scheduler)
    /\ unmarked' = unmarked \cup {c}
    /\ UNCHANGED <<stores, commands, plan, torn, asked, pushed, cut>>

----------------------------------------------------------------------------
(* The pull of the backend's prices. *)

(* pull_prices: what differs from the configuration is collected... *)
PullPrices(remote) ==
    LET want == [n \in {m \in DOMAIN remote : site.price[m] # remote[m]} |-> remote[n]]
    IN  /\ ~Busy(Server) /\ Spend("pulls") /\ DOMAIN want # {}
        /\ desk' = [desk EXCEPT ![Server].at = "apply", ![Server].kind = "pull",
                                ![Server].want = want, ![Server].todo = DOMAIN want]
        /\ torn' = (torn \/ ~Alone(Server))
        /\ UNCHANGED <<stores, commands, plan, asked, pushed, cut, unmarked>>

(* ...and set in the configuration itself.  A file that cannot be saved is only a *)
(* warning; a command the full queue has no room for is dropped.                  *)
ApplyPull(saved) ==
    /\ desk[Server].at = "apply"
    /\ IF saved THEN UNCHANGED left ELSE Spend("errors")
    /\ site' = [site EXCEPT !.price = Laid(desk[Server].want, @)]
    /\ file' = IF saved THEN site' ELSE file
    /\ IF Len(commands) < QueueCap
       THEN commands' = Append(commands, desk[Server].want) /\ UNCHANGED torn
       ELSE torn' = TRUE /\ UNCHANGED commands
    /\ desk' = [desk EXCEPT ![Server].at = "db"]
    /\ UNCHANGED <<db, lane, plan, asked, pushed, cut, unmarked>>

(* A price the database refuses is only a warning. *)
PullSkips(n) ==
    /\ desk[Server].at = "db" /\ n \in desk[Server].todo /\ Spend("errors")
    /\ desk' = [desk EXCEPT ![Server].todo = @ \ {n}]
    /\ torn' = TRUE
    /\ UNCHANGED <<stores, commands, plan, asked, pushed, cut, unmarked>>

----------------------------------------------------------------------------
(* The lanes, the operator's own route, the tank section, and restarts. *)

LanesTake ==
    /\ commands # <<>>
    /\ lane' = Laid(Head(commands), lane)
    /\ commands' = Tail(commands)
    /\ UNCHANGED <<db, site, file, plan, desk, ghosts, left>>

(* refresh_nozzle_prices_from_db; between the two halves of a pull it puts back *)
(* prices that the pull has replaced already.                                  *)
LanesReread ==
    /\ left.rereads /\ lane # db
    /\ lane' = db
    /\ torn' = (torn \/ (desk[Server].at = "db" /\ desk[Server].todo # {}))
    /\ UNCHANGED <<db, site, file, commands, plan, desk, asked, pushed, cut, unmarked, left>>

(* POST /prices tells the lanes and nobody else. *)
OperatorPrices(want) ==
    /\ Spend("local") /\ Len(commands) < QueueCap
    /\ commands' = Append(commands, want)
    /\ torn' = TRUE
    /\ UNCHANGED <<stores, plan, desk, asked, pushed, cut, unmarked>>

(* update_atg_config holds the configuration while it saves and replaces it. *)
EditTanks(t) ==
    /\ Spend("edits")
    /\ site' = [site EXCEPT !.tanks = t]
    /\ file' = site'
    /\ asked' = t
    /\ torn' = (torn \/ CopyOut)
    /\ UNCHANGED <<db, lane, commands, plan, desk, pushed, cut, unmarked>>

(* Faulty: the prices of the file are kept. *)
RestartFromFile ==
    /\ site' = file /\ lane' = file.price
    /\ commands' = <<>> /\ desk' = [w \in Writer |-> Rest({})]
    /\ UNCHANGED <<db, file, plan>>

(* load_fp_nozzles_from_db: the prices of the database laid over the file. *)
Overlaid == [file EXCEPT !.price = db]

(* main *)
Restart ==
    /\ site' = Overlaid /\ lane' = db
    /\ commands' = <<>> /\ desk' = [w \in Writer |-> Rest({})]
    /\ UNCHANGED <<db, file, plan>>

Crash ==
    /\ Spend("crashes") /\ Restart
    /\ cut' = cut \cup {c \in Change : InHand(c)}
    /\ torn' = (torn /\ file.tanks # asked)
    /\ UNCHANGED <<asked, pushed, unmarked>>

----------------------------------------------------------------------------
Init ==
    /\ \E p \in Price, t \in Tanks :
          /\ db = [n \in Nozzle |-> p]
          /\ site = [price |-> db, tanks |-> t] /\ file = site /\ lane = db
          /\ asked = t
          /\ plan = [c \in Change |-> [status |-> "NONE", price |-> p, due |-> FALSE]]
    /\ commands = <<>> /\ desk = [w \in Writer |-> Rest({})]
    /\ torn = FALSE /\ cut = {} /\ unmarked = {} /\ pushed = [c \in Change |-> 0]
    /\ left \in Budgets

(* A step of a change that is being made *)
Proceed(w) ==
    \/ \E n \in Nozzle : WritePrice(w, n)
    \/ WriteCatalog(w) \/ Written(w) \/ SaveFile(w) \/ Swap(w) \/ SyncLanes(w) \/ SendPrices(w)

Schedule == ClaimDue \/ \E c \in Change : ApplyScheduled(c) \/ MarkFailed(c)

Request ==
    \/ \E a \in Admin, want \in Wanted \ {<<>>} : RequestPrices(a, want)
    \/ \E a \in Admin, want \in [Nozzle -> Price] : RequestCatalog(a, want)
    \/ \E c \in Change, p \in Price : CreateScheduled(c, p)
    \/ \E c \in Change : FallsDue(c) \/ CancelScheduled(c)
    \/ \E want \in Wanted \ {<<>>} : OperatorPrices(want)

Pull ==
    \/ \E remote \in Wanted : PullPrices(remote)
    \/ \E saved \in BOOLEAN : ApplyPull(saved)
    \/ \E n \in Nozzle : PullSkips(n)

PriceStep ==
    \/ \E w \in Writer : Proceed(w) \/ Fails(w)
    \/ \E c \in Change : MarkFails(c)
    \/ Schedule \/ Request \/ Pull \/ LanesTake \/ LanesReread

(* Writes, ticks and the poll loop's turns come in the end. *)
PriceFairness ==
    /\ \A w \in Writer : WF_priceVars(Proceed(w))
    /\ WF_priceVars(Schedule)
    /\ WF_priceVars(\E saved \in BOOLEAN : ApplyPull(saved))
    /\ WF_priceVars(LanesTake)

----------------------------------------------------------------------------
TypeOK ==
    /\ db \in [Nozzle -> Price] /\ lane \in [Nozzle -> Price]
    /\ site \in Site /\ file \in Site
    /\ commands \in Seq(Wanted) /\ Len(commands) <= QueueCap
    /\ plan \in [Change -> Plan] /\ desk \in [Writer -> Job]
    /\ torn \in BOOLEAN /\ asked \in Tanks
    /\ pushed \in [Change -> Nat] /\ cut \subseteq Change /\ unmarked \subseteq Change
    /\ left \in Budget

(* Once nothing is on its way, the database, the configuration and the lanes   *)
(* have the same prices, and the tank section in force is the one given last,  *)
(* on disk too: whatever order changes, pulls, scheduled prices and restarts   *)
(* come in, if none overlapped another or failed half-way.                     *)
StoresAgree ==
    (commands = <<>> /\ \A w \in Writer : ~Busy(w)) =>
        torn \/ (/\ db = site.price /\ lane = db
                 /\ site.tanks = asked /\ file.tanks = asked)

(* A scheduled price is sent to the lanes at most once, and never when its row *)
(* is pending, cancelled or failed; a row marked as applied was sent, or is    *)
(* about to be, unless the program died with the change in hand, or both its   *)
(* application and the marking of its row failed.                              *)
ScheduleKept ==
    \A c \in Change :
        /\ pushed[c] <= 1
        /\ pushed[c] = 1 => plan[c].status = "APPLIED"
        /\ plan[c].status = "APPLIED" => pushed[c] = 1 \/ InHand(c) \/ c \in cut \cup unmarked

(* A scheduled price that is due is sent, cancelled or marked as failed in the *)
(* end, with the same two exceptions.                                          *)
Settled(c) ==
    pushed[c] = 1 \/ plan[c].status \in {"CANCELLED", "FAILED"} \/ c \in cut \cup unmarked

ScheduleEnds ==
    \A c \in Change : (plan[c].status = "PENDING" /\ plan[c].due) ~> Settled(c)

(* claim_due: "A row that then fails to reach the wire is moved to FAILED by    *)
(* mark_failed": while the program lives, a row is applied only when its price  *)
(* was sent or is in hand.                                                      *)
FailureMarked ==
    \A c \in Change :
        plan[c].status = "APPLIED" => pushed[c] = 1 \/ InHand(c) \/ c \in cut
=============================================================================
