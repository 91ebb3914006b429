# TLA+ models of the fuel-station controller

The repository runs a fuel station: a Rust service (`src/services/dispenser-service`)
talks to pumps over RS-485, keeps sales and shifts in SQLite, and tells a central
backend (`src/apps/backend`) about both. This directory holds TLA+ models of the parts
where money or fuel can go missing, the TLC runs that check them on small instances and
the proofs that TLAPS checks for every instance.

Source paths below are relative to `src/services/dispenser-service/src/` unless they
start with another directory of `src/`.

## 1. Inventory

| Component | State it keeps | Operations | Hard behaviour | What makes it correct |
|---|---|---|---|---|
| AZT 2.0 lane driver (`engine/protocols/azt.rs`, `azt_state.rs`) | per card: status, selected nozzle, current order, stop and cancel intent, outstanding stops, pending confirmation, identity read before arming | poll every hose; live meter; close and confirm a sale; Stop, EStop, CancelPreauth; ResetLane; Authorize, Preauthorize; UpdatePrices, RefreshTotals, ReloadConfig | requests and ACKs are lost, the process dies between any two exchanges, the customer and the keypad move between them | every ordered sale is billed once, in full, to the shift of its order; a stop is pursued until a status proves it |
| AZT recovery journal (`azt_journal.rs`) | one JSON row per card in `azt_recovery`, and the process's copy of it | restore, save | failed and late writes, stops issued while the row is unreadable | what can still deliver or is not yet billed is found again after a crash |
| AZT pump (`src/tools/simulators/azt-sim`) | status, nozzle switch, sale register, transaction number, lifetime totals | authorize, start, stop, confirm, price, dose; nozzle and flow | moves on its own; local presets; panel clear | it stops at the dose; registers stay readable until the next sale |
| Shift coordinator (`shifts.rs`, `db/shift_queries.rs`) | tables `shifts`, `transactions`; the active shift in memory | start, end, handover, backdated starts, credit of a sale, restore and repairs at start | concurrent HTTP requests and the poll loop, several statements each, cancelled requests | one open shift; totals are those of the sales; the copy in memory is the open row |
| Outbound sync (`sync.rs`) | table `sync_queue`; the worker's batch | upsert, select due, send, mark, revive | lost requests and replies, retries, refused records, restart between reply and mark | the backend ends with the state of the station |
| Shared sale commit (`engine/protocols/shared.rs`) | a closed transaction on its way to the tables | persist, tell, credit, tell, mirror | any step fails | a failed step leaves nothing in the shifts that a restart does not repair |
| Poll loop front and command queue (`engine/poll_loop.rs`, `serial.rs`) | bounded channel of commands | choice of the driver, drain commands | full queue, a command applied after the state it was meant for | commands are applied in order, against the lane as it is by then |
| Lane runtime and Wayne driver (`engine/state.rs`, `protocols/wayne.rs`, `wayne_state.rs`) | `RuntimeFp`: status, hose, sale, reservation, stopped sale, windows | one frame of the pump or one command at a time; CONFIG and STOP on the wire; save and release | the pump repeats and leaves out frames, a lift meets an order, a Stop meets a final frame | a fill is billed once and its reading is never forgotten; a waiting order arms nothing |
| Shelf driver (`shelf.rs`, `shelf_state.rs`) | `RuntimeFp`, reservation, the report of a finished sale, pending stop | poll of the side, price and dose of a start, stop and its repetition, commit | a request may be obeyed and its repetition refused; a cancellation comes in the middle of a start | a sale is billed once, in full; a cancelled order starts nothing; a stop is repeated until the gun reports |
| BlueSky driver (`texnouz_bluesky.rs`) | as above, and the last stable reading | as above | the end of a sale is inferred from two equal readings | no sale is closed while fuel flows |
| Gilbarco driver (`gilbarco.rs`) | `RuntimeFp` | status poll; identify, price, preset, authorize; display; transaction and commit | the pump keeps a sale only until the next lift; lost answers within that time | what flowed is billed once, in full, at its nozzle |
| Preauthorization timeout (`engine/preauth_timeout.rs`) | none | reads the lanes, queues a cancellation | the lane moves on before the cancellation is applied | no sale is lost or left unbilled by it |
| Price scheduler and distribution (`price_scheduler.rs`, `db/price_schedule_queries.rs`, `api/admin.rs`, `sync.rs`) | a price in the database, the configuration, its file and the lanes; scheduled changes | claim, apply, fail; change by hand, by catalog, from the backend, by the operator | four copies with awaits between their writes; crash between claim and send; full queue | database, configuration and lanes agree on the prices once nothing is under way; a scheduled change is sent once or marked as failed |
| Tank gauging (`src/crates/atg`) | levels on display, readings in `sync_queue`, `atg_outbox` | rounds over the branches, store, post, delete | the tank section is edited in the middle of a round; lost answers and restarts | what is shown, stored and exported belongs to its layout, in order |
| Central backend (`src/apps/backend/src/sync`) | shifts, transactions, processed record ids | `processBatch` | fails on a record or within a batch | replay changes nothing |
| HTTP/WebSocket API, admin, config, database helpers | sessions, settings | queue commands, reports | - | plumbing |
| Wire codecs (`src/crates/*`) | none | frames, CRC, BCD | numeric edges | encode and decode agree |
| Desktop, web and simulator front ends | none of the station's | - | - | - |

How they interact. The API puts commands into a lane's queue and calls the shift
coordinator directly; the poll loop owns the serial bus, drives one card at a time and
commits closed sales through the coordinator; every change to a shift or a sale is also
an upsert into `sync_queue`; the sync worker sends due rows to the backend and marks
the verdicts. The coordinator's copy of the active shift is the only memory shared by
the API and the poll loop. A restart keeps the pumps and the database and nothing else.

The hazards this leads to, each with its line and the property that catches it, are in
`PROJECT.json`.

## 2. Modules

```
AztPump  <-  AztLane  <-  AztLaneLedger  --implements-->  SaleLedger
                     <-  AztLaneProofs  <-  AztSaleProofs
ShiftDesk  <-  ShiftSync
           <-  ShiftProofs
BlueSkyPump  <-  BlueSkyLane  <-  MCBlueSky
                              <-  BlueSkyProofs
WaynePump  <-  WayneLane  <-  MCWayne
                          <-  WayneProofs
ShelfPump  <-  ShelfLane  <-  MCShelf
                         <-  ShelfProofs
GilbarcoPump  <-  GilbarcoLane  <-  MCGilbarco
                                <-  GilbarcoProofs
PriceDesk  <-  TankDesk  <-  MCOffice
                         <-  OfficeProofs
```

### AztPump: one hose

The status graph of `azt-sim/src/dispenser.rs` and the commands the driver sends. A
command is an operator from a hose to a hose, and a refused one returns its argument.
The sale register is counted in units up to the dose, `MaxVolume`; `serial` stands for
the register that tells one sale from the next: the transaction number when the pump
answers `Y` (`Numbered`), its lifetime counter otherwise. In the first case it moves
when a sale begins, in the second when one ends, so two sales without fuel between
them look the same, as on the real pump.

### AztLane: a card, its driver, its journal

| Variable | Code |
|---|---|
| `pump` | the hoses, outside the service |
| `lane` | `RuntimeFp` and `AztRuntimeState`: `status`, `nozzle`, `order` (the shift of `current_tx`), `stopReq`, `cancelReq`, `stops` (`pending_stops`), `pending` (`pending_confirmation`), `before` (`before_sale_id` while `authorize_uncertain`) |
| `loaded`, `cached` | `journal_loaded`, `journal_json` |
| `journal`, `recorded`, `credit` | tables `azt_recovery`, `transactions`, `shifts.total_volume` |
| `shift` | the active shift |
| `at`, `job` | where the loop's task is, and the locals it holds there |
| `arm`, `arms`, `orders`, `cleared` | history: whose sale a register belongs to, and the registers that were given up |

The loop is a single task, so `at` is one place and not a set. Between two of its steps
everything else may move. One step ends at each wire exchange and each database
access: those are the points where the task waits and the process may die.
A poll is `BeginPoll` (restore), `ProbeStop` per outstanding stop, one of the
`Observe...` actions on the resolved hose, then `LiveReading`, or the closing chain
`ReadRegisters`, `IdentifySale`, `CommitSale`, `ConfirmSaved`, `ConfirmWire` or
`ReleaseIdle`, and always `Checkpoint`. Commands start from `rest`: `StopCommand`,
`StopSave`, `StopWire`; `DismissCommand`; `OrderCommand`, `CheckReady`, `SetOrder`,
`TakeOrder`, `ArmSaved`, `ArmWire`, `StartWire`. Wire steps take parameters `sent`
(the request reached the pump) and `acked` or `heard` (its answer came back), so each
exchange can be lost on either way. `heard` of an observation is the set of hoses that
answer the poll. `SaveOk`, `SaveFails` and `SaveLate` are the outcomes of a journal
write, the last one only for a stop, whose write has 200 ms before the driver goes on
without it.

The surroundings are the customer (`CustomerLifts`, `CustomerHolsters`), the pump
(`PumpStarts`, `FuelFlows`), a pump cleared at its panel, a dose entered at its keypad,
another controller arming it, a handover (`NextShift`) and the death of the process
(`Crash`).

Left out: `UpdatePrices`, `RefreshTotals`, `ReloadConfig` and the comparison of the
journal with the configured hoses (the configuration is fixed); prices and amounts; the
text of errors; the 200 ms and retry clocks, which are choices.

### SaleLedger and AztLaneLedger: what the lane promises

`SaleLedger` knows sales, a meter, a bill and the shifts' credits: fuel flows, a sale is
billed in full in one step with its shift's credit, its meter is given up when nothing
is left to bill. `AztLaneLedger` maps the lane to it: the meter of an arm is the pump's
register, or what the register held when it was given up; its bill is the rows written
for it. `LedgerSpec` says that every step of the lane, of the pump and of a crash is a
step of the ledger or leaves it alone.

### ShiftDesk: shifts, sales and their totals

| Variable | Code |
|---|---|
| `row`, `sale`, `queue` | tables `shifts`, `transactions` (with the sales in progress), `sync_queue`; of a sale its `stage`: open, paused (a STOPPED row that its lane holds), stopped (a STOPPED row no lane holds), booked (COMPLETED) or lost; `unpaid` is history: a paused row that is in no total yet |
| `active` | `ShiftCoordinator::active` |
| `step` | for every HTTP request and for the poll loop: the next statement and its locals |
| `atomic` | the protocol of the site: does its driver commit a sale in one transaction? Fixed from the start |
| `cut` | history: a request or statement was cut off and no restart has made it good |
| `mixed` | history: a count of sales overlapped a booking or another count, or a credit failed, and no restart has recomputed the totals |
| `astray` | history: a paused sale was moved to another shift, or was closed after a count or in another shift than its row's, and no restart has recomputed the totals |

Every SQL statement is one step, because none of these requests runs in a transaction;
the AZT sale commit does, and holds the coordinator's lock, so `CommitSale` is one step.
`Start`, `End` and handover (`End` with `over`) run through `Insert`, `Load`, `Publish`,
`Close`, `Clear`, `CheckAgain`, and with a start time in the past through `CountLoose`,
`AssignLoose`, `CreditLoose` (start) or `CountMove`, `Move`, `Take`, `Give`, `Reload`,
`Republish` (handover). Sales of the other drivers run through `CloseSale`, `Persist`,
`TellSale`, `Bump`, `CreditMirror`. The Wayne driver also puts a row into the table when
a sale is paused (`PauseSale`, `InsertPaused`, `PauseFails`), with the shift active then
and without a credit; closing the sale completes that row, which keeps its shift, and
credits the shift active by then. The operator may close it instead (`CloseStopped`,
`TellStopped`: `routes.rs:808`), and nobody credits it. `CutOff` is a failed statement
or a client that hangs up: the handler stops where it is. `Crash` is the death and the
next start with its repairs in the order of `main.rs`: recompute, restore or close all,
tell the closed shifts that were never synced. A telling (`ReadShift`, `SendShift`)
reads the row in one statement and queues it in another.

A sale counts one unit; the totals of the code are sums of its volume and amount, which
move together. So a resumed sale is credited as a whole at its close, as in the code,
and a pause with nothing delivered, whose sale is aborted and in no total, is left out.
`began` and the numbers of sales share one clock, the order in which sales start, which
is what a backdated start is compared with.

Left out: meter readings at shift boundaries, operator and PIN validation, the slot
warning task, the second STOPPED row of one sale (`WayneLane!StoppedOnce`, section 5), and
the CONTINUED_FROM rows: `RuntimeFp` has a `continuation`, and no lane ever sets one.

### ShiftSync: the worker and the backend

`ShiftSync` extends the desk with the worker (`Revive`, `Send`, `Mark`, one row of the
verdict loop per step) and `processBatch` (`Served`, `ServedUnreadably`, `NoAnswer`).
`known`, `shown` and `sold` are the backend's processed record ids, shift statuses and
transactions. The backend may fail on any record, before or after it took the record in
(`half`), may stop in the middle of a batch, and its reply may be lost or not decode.
`overtaken` remembers that it processed a newer record of a shift before an older one,
which happens only after a failure.

Left out: every other record type, the price pull, the configuration backup, and a
timed-out request that the backend is still working on while its retry arrives.

### BlueSkyPump and BlueSkyLane: a position of the BlueSky driver

There is no simulator of this dispenser, so `BlueSkyPump` is a set of assumptions, taken
from what the driver relies on: a dose is honoured under remote control and clears the
register; Start needs a dose and a lifted nozzle; fuel may begin late, be interrupted
without a status bit showing it, and stop at the dose; Stop closes the valve, and before
fuel flows it may be refused; a last drop may pass the meter until the valve is shut,
which takes less than the 750 ms of `FINISH_SETTLE_MS`; a hose is used from its keypad
only while nobody took remote control of it. A pump that kept the old reading after a
dose would be billed twice when Start is lost: the driver has no way to tell.

| Variable | Code |
|---|---|
| `pump` | the hoses |
| `lane` | `RuntimeFp` and `BlueSkyRuntimeState`: `reserved` (`pre_auth`), `tx` (`current_tx`, by its hose), `target` (`last_preset`), `volume`, `stopReq`, `stopAck`, `paced` (`next_stop_attempt`), `flowSeen`, `completed` (`completed_nozzle`), `candidate` (`finish_candidate`) |
| `at`, `job` | where the task is, and its locals |
| `bill` | table `transactions`, by fill |
| `fill`, `fills`, `claim`, `lost`, `used`, `outlived` | history: whose fill a register holds, how the process came to own it, what was cleared unbilled, which hoses were not returned since their sale was billed, and which of these sales a restart came after |

As in `AztLane` a step ends at each exchange. A poll asks one hose after the other
(`BeginPoll`, `Ask`), and the last reply decides: `PollMissed`, `PollCompleted`,
`PollFlow` then `ReadLive`, `PollSale` then `ReadFinal` and `StatusAfter`,
`PollReserved`, `PollIdle` then perhaps `ClearKeypad`. An order is `OrderCommand`,
`CheckHose` or `AskSide` of the others when the hose is silent, and after the lift
`Prepare`, `SetDose`, `Recheck`, `StartWire`. The clocks (expiry, pacing of stops) are
choices. Prices, amounts and totals are left out; an amount moves with its volume.

A known exception is named and not hidden: `update_live` adopts flow that nobody ordered
but keeps `last_preset`, so a fill adopted after an order with a dose is judged by that
dose (`claim = "misjudged"`). If its flow is interrupted beyond the dose it is billed
and released, and what flows later is neither billed nor stopped. `BilledFinal` leaves
these fills out; `EveryBillFinal` does not, and TLC refutes it on the same instance.
A second one: `completed_nozzle` (`texnouz_bluesky.rs:960`) is memory only, so a service
restarted while the hose of a billed sale is still lifted takes it for a new lift.
`OneSalePerLift` is about `Held`, the billed hoses without these (`used \ outlived`).

### WaynePump and WayneLane: the Wayne state machine

`WaynePump` is the side of a dispenser that `wayne-sim` plays, and the frames it may
answer with. The driver sees the pump through these frames only, and a real pump repeats
them, leaves some out and reports ghost pulses, so `WayneLane` takes any frame the pump
could answer with.

| Variable | Code |
|---|---|
| `lane` | `RuntimeFp` and its `WayneRuntimeState`: `sale`, `volume`, `cap`, `preset`; `pre`, `armed`; `stopped` (`StoppedContext`); the latches of a lift (`hose`, `latch`, `holster`, `echo`), of ghost recovery (`ghost`) and of the deceleration window (`decel`) |
| `at`, `job` | what a frame or command still has to send or save |
| `queue` | commands of the API and of the timeout task |
| `book` | table `transactions`, by fill |
| `fill`, `fills` | history: whose fill the register and the reading are |

A poll applies one frame (`apply_frame`, one action per kind of frame), a second step
does what follows (`Act...`: CONFIG, STOP, save). Timers are choices when a poll begins.
`PreauthTimeout` queues its cancellation from the state it sees, and the command is
applied to the lane as it is by then. `hasty` in a budget allows a command before the
lane has seen the lift or the end it is about.

### ShelfPump and ShelfLane: a side of a Shelf dispenser

`ShelfPump` is the gun of `shelf-sim` with what the driver's comments say of real ones:
the guns share a controller, so that an idle gun may answer about another one; a fill may
be paused; there is a keypad; the last sale is retained. A request is repeated with the
same packet index up to twenty times, so each wire exchange of `ShelfLane` may be lost
with or without having been obeyed (`LoseExchange`, `LoseDose`), again and again.

| Variable | Code |
|---|---|
| `lane` | `RuntimeFp` and `ShelfRuntimeState`: `pre`, `tx`, `order`, `dose`; `started`; `cancel` (`cancel_requested`), `stop` (`stop_pending`), `paced`; `wire`; `final` (`pending_final`) |
| `at`, `job` | the exchange or commit the task is at, and its locals |
| `bill`, `fill`, `claim`, `orders`, `cleared` | table `transactions`; history |

A poll is `Drained`, `BeginPoll`, one `Status...` action per kind of reply, then perhaps
the start of a reservation (`PriceWritten`, `DoseTaken`, `DoseRefused`,
`DoseUnconfirmed`), `AmountInfo`, `CommitSale`, or a stop (`StopWire`, `StopEach`). The
routes raise the cancellation flag at once (`Flagged`) while their command waits in the
queue.

### GilbarcoPump and GilbarcoLane

`GilbarcoPump` is the pump of `gilbarco-sim`; a lift clears its register. A poll of
`GilbarcoLane` is one status exchange (`StatusIdle`, `StatusLifted`, `StatusFlowing`,
`StatusComplete`, `StatusStopped`, `StatusMissed`) and the exchanges that follow from it
(`Identify`, `SendPrice`, `SendPreset`, `SendAuthorize`, `GetDisplay`, `GetTransaction`),
each of which may go unanswered; `CommitSale` and `CommitFails` end it. `lane` is
`RuntimeFp`; `order`, `served`, `forgotten` and `cleared` are history: the order in force
and the one the fill was authorized for, a driver that lost its record of a sale, and the
registers a lift cleared before they were billed.

### PriceDesk and TankDesk: the office

| Variable | Code |
|---|---|
| `db`, `site`, `file`, `lane` | table `fp_nozzles`; the configuration in memory and on disk (prices and tank section); the lanes' prices |
| `commands` | `UpdatePrices` on their way to the poll loop |
| `plan` | table `scheduled_prices` |
| `desk` | for every administrator, the scheduler and the sync worker: the change in progress, with its copy of the configuration |
| `torn`, `asked`, `pushed`, `cut`, `unmarked` | history: a change overlapped, failed half-way or missed its desk; the layout given last; commands sent for a scheduled change; changes a crash found in hand; changes that failed and whose row could not be marked |
| `levels`, `known`, `round`, `rows` | the gauge: display, `previous`, the round in progress, its rows in `sync_queue` |
| `outbox`, `courier`, `exported`, `got` | table `atg_outbox`, a set whose order is that of the samples' rounds (`created_at`); the delivery task; history: the samples stored, and those each service took, in its order |

A change goes through `Snapshot` (copy under the lock), `WritePrice` or `WriteCatalog`,
`Written`, `SaveFile`, `Swap`, and `SendPrices` or `SyncLanes`, with everything else in
between. The scheduler claims (`ClaimDue`) and applies (`ApplyScheduled`) along the same
path, and after a failure marks its row (`MarkFailed`), which may fail as well
(`MarkFails`: `run_once` drops the error); the backend's prices take their own
(`PullPrices`, `ApplyPull`, `WritePrice`, `PullSkips`), and the operator's route only
tells the lanes (`OperatorPrices`). `Crash` lays the database over the file, as
`main.rs` does. The gauge shares the configuration: `Catalog`, `BeginRound`,
`ReadBranch`, `Persist`; the courier runs beside it (`Pick`, `Arrive`, `PostFails`,
`DeleteSent`).

Every scheduled change is for all nozzles of one product, and the branches of the gauge
form one group. `LanesReread` is the Wayne driver's refresh at a lift, one step for all
nozzles; between the two halves of a pull it puts old prices back, which `torn` names.

## 3. Runs

| Run | Question | Result |
|---|---|---|
| `azt_lane` | two orders on one hose with a handover, a crash, a failed or late write, a pump cleared at its panel, any exchange lost: is every ordered sale in the book (`NoSaleLost`), once (`BilledOnce`), on the shift of its order (`BilledToOrderShift`), and found again after a crash (`OrderSurvivesCrash`)? | holds |
| `azt_foreign` | `NoSaleLost` and `BilledOnce` for an order of two units on a pump without transaction numbers, armed by another controller between the loop's steps, with a crash and a failed write | holds |
| `azt_stops` | two hoses on a card, one of them armed by somebody else: is a stop forgotten only when its hose cannot deliver (`StopHeld`)? | holds |
| `azt_live` | does the lane implement the ledger (`LedgerSpec`)? Under fairness: is a finished sale settled (`FinishedSaleSettled`) and a journalled stop carried out (`StopCarriedOut`)? With a crash and a read or write of the journal that fails or is late: is a stop issued meanwhile kept when the older row is restored (`StopHeld`)? | holds |
| `shift_desk` | every interleaving of a request with the sales of a driver that commits in one transaction or statement by statement, with sales that are paused, resumed or closed by the operator, a backdated start or handover, a cut and a restart: are totals (`TotalsMatch`) and the copy in memory (`MirrorTrue`) true once nothing is in progress? | holds |
| `shift_sync` | the desk, the worker and the backend with losses, refusals up to a record that is out of retries, and a restart: do they agree when all is sent (`BackendAgrees`)? Under fairness, does every closed shift get closed there (`ClosedShown`)? | holds |
| `shift_overlap` | `shifts.rs:216` refuses a second shift | violated by two overlapping starts |
| `bluesky_lane` | orders, wrong lifts, interruptions, losses, stops, a crash, a refused commit, a keypad fill: is a fill kept until billed (`OwnedUntilBilled`), billed once and after its end (`BilledFinal`), one per lift (`OneSalePerLift`), and run to the dose of its own order (`DoseOfOrder`)? | holds |
| `wayne_lane` | two customers and two orders, a Stop that is closed, a cancelled order and a lost exchange, a reset, a crash: is a fill billed once (`BilledOnce`), is no reading forgotten (`SaleKept`), and does a waiting order leave the pump unarmed (`HolsteredArmsNothing`)? | holds |
| `shelf_lane` | orders before and after the lift, lost and repeated requests, a pause, stops, a reset, refused sales, a crash: is a sale kept until billed (`SaleKept`), billed once (`BilledOnce`) and at its end (`BilledFinal`)? Is a cancelled order never started (`CancelWins`), an order served once and by its own gun (`ServedOnce`), and a cancelled sale ended (`CancelEnds`)? | holds |
| `gilbarco_lane` | orders, expired and cancelled ones, stops, resets, lost answers, refused sales, a crash: is a sale billed before the pump forgets it (`SaleKept`), once (`BilledOnce`), in full and at its nozzle (`BilledRight`)? Does only what was ordered flow (`ServedAsOrdered`), and does a finished sale settle (`Settles`)? | holds |
| `office` | every change of a price and of the tank section interleaved with rounds, exports, failures and restarts: do database, configuration and lanes agree on the prices in the end, and memory and file on the tank section (`StoresAgree`), is a scheduled price sent once and settled (`ScheduleKept`, `ScheduleEnds`), and are levels, catalogs and exports of their own layout and in order (`LevelsCurrent`, `CatalogFirst`, `ExportKept`)? | holds |

The conditions in `TotalsMatch`, `MirrorTrue`, `BackendAgrees`, `ClosedShown`,
`BilledFinal`, `OneSalePerLift`, `SaleKept` and `BilledRight` of Gilbarco, `StoresAgree`,
`LevelsCurrent`, `ScheduleKept` and `ScheduleEnds` are the disagreements known to be
possible, named by history variables rather than left out of the model:

- `mixed`: a sale booked while a backdated request is counting is moved but not counted
  (`shift_queries.rs:693`), or a credit failed;
- `unpaid` and `astray`: a paused sale is a row before it is credited, and may be credited
  to another shift than its row's, or twice (`wayne.rs:884`, `routes.rs:826`);
- `cut` of the desk: a request stopped half-way;
- `overtaken`: the backend refused a record and took a newer one (`sync.service.ts:67`);
- a CLOSED record that stays out of retries (`Exhausted` in `ClosedShown`, `sync.rs:427`);
- `claim = "misjudged"` and `outlived` (BlueSky, section 2);
- `forgotten` (Gilbarco): a crash or a cancellation made the lane drop its sale;
- `torn`, `cut` and `unmarked` of the office (section 2).

A restart clears `mixed`, `astray`, `unpaid`, the desk's `cut` and, unless the tank
section was lost, `torn`, because the repairs at start undo what they stand for: that
they do is part of what the runs show. The desk's `cut` stays set when a restart finds
two open shifts, which no repair removes. Hazards that one of these names takes out of
a property are listed in `PROJECT.json` without that property.

The `TypeOK` of the other modules (AztLane's is in `azt_lane`) say what the variables
hold; they were checked under the same configurations, and `TypesHold`, `OfficeTypes`,
`TankTypes` and `ShelfTypes` prove four of them. They are not among the runs'
properties, which are kept for what could really go wrong.

### Bounds

Every bound is a constant, or a field of a budget, that the guard of an action names. A
model with budgets starts from one of several, each of which lets some of the costly
events happen together; all others may happen any number of times.

- One hose is enough for the questions about a sale, since an AZT card sells on one hose
  at a time; the stops of a card are per hose, so `azt_stops` has two. It has
  no crash and no fault: with one hose `azt_live` has both.
- Two orders let the second meet everything the first may leave behind: registers, an
  unconfirmed sale, a journal row, a stop.
- One crash and one failed write may fall anywhere, so each step is checked against a
  death just before and just after it, and one failure combined with one crash.
  `MaxVolume = 1` still tells no fuel from fuel and a reading from the one before it.
- `azt_foreign` has a dose of two units, so that a sale of others may leave another
  reading than the order's, and neither a second order, nor a handover, nor a panel: see
  "Behaviours beyond the bounds" for what they add.
- `azt_live` has one order with a crash and a failed write: what it asks is whether this
  sale is settled, and the refinement then covers each step of the lane.
- Two shifts give a handover; the desk's second sale is needed for one to be moved and
  one to be booked meanwhile. One of them may be paused (`Stoppable`): what a pause
  meets is its own close, a count, and the other sale. The sync run keeps one sale and
  has no start times in the past: the desk does not tell the backend of moved sales
  again, so it keeps the shift of the first record.
- A batch of two with two retries and two refusals makes a refusal, a mixed verdict and a
  record out of retries possible; records come from up to two shifts, so a batch holds
  records of one shift or of both. Refusals and the sale share one bound, so the record
  that is refused to the limit belongs to a shift without a sale; the sale changes the
  totals in a record that says CLOSED and nothing else.
- `bluesky_lane` has seven budgets: two orders for a customer at one hose, with a stop and
  a refused commit, or with a crash; two hoses in use with one order, a stop and a crash;
  an order and a fill of the keypad with the customer at either hose (the order may name
  the other one), or with a crash; a fill of the keypad that is stopped, both hoses in use.
  A dose of one unit and a full tank differ although the tank holds one: only the first
  ends by itself.
- `wayne_lane` has six: two orders; a Stop and its close; a cancelled order and a lost
  exchange; a reset; a crash and a lost exchange; a command that misses the lift it is
  about. Except in the last one the customer lifts twice, so that a second sale meets
  what the first left. Frames repeat and leave each other out without a bound. See
  "Behaviours beyond the bounds" for what `hasty = 0` keeps out.
- `shelf_lane` has nine, in `MCShelf`: which guns are touched, whether orders name
  theirs, gas or petrol (on gas a price write precedes each dose), dispensers that retain the
  last sale or clear it, and, within each, two or three of: lost answers, requests that
  do not arrive, stops, an emergency stop, a reset, a pause, a refused commit, a crash.
- `gilbarco_lane` has ten, in `MCGilbarco`: two customers with two orders and one
  failure of each kind, an order expiring at any moment, one order with a stop, cancel or
  reset at any moment, and one customer with up to four failures of the closing exchanges.
- `office` has fifteen, in `MCOffice`, each with two or three costly events: every pair
  of sources of a price that the code lets meet, each with an error or a crash, and the
  gauge with edits, rounds, errors and a crash. Two nozzles let a change be half done,
  two prices and two layouts let one be old, two branches let a round be half done, and a
  queue of one command is full as soon as there is one.

Deadlock is not checked: with the bounds used up and the loop's exchanges done, a
station may rest. `shift_desk` compares states without `queue` (`VIEW WithoutQueue`):
without the worker nothing reads it.

### Fairness

`AztLane`: weak fairness of the loop between its steps, because the task never waits
for anything but an exchange with a timeout; strong fairness of starting a poll with
the stops that are due, because commands are bounded by a queue the loop drains and the
retry interval elapses; strong fairness of each exchange that succeeds, the wire being
lossy but not cut. Nothing is assumed of the customer, the pump, other controllers or
the operator.

`ShiftSync`: weak fairness of every step of a request under way, of the worker's own
steps, and strong fairness of an answered request. Nothing is assumed of new requests,
sales or restarts, and a refusal may be any of the bounded number; two of them put a
record out of retries, and whether it is sent again then depends on a restart, which
nothing promises.

`ShelfLane` and `GilbarcoLane`: weak fairness of the loop's own steps, for the same
reason as in `AztLane`, and on Shelf of the passing of time (`Elapse`, the pacing of a
repeated stop). Lost exchanges are bounded by the budget and compete with the loop's
steps; nothing is assumed of customers, operators or the pump.

`PriceDesk`: weak fairness of each writer's own steps (tasks that wait only for the disk
and the database), of the scheduler's 30 s tick, of the worker's handling of a reply it
has, and of the poll loop draining its queue. Nothing is assumed of administrators, of
the backend or of the gauge.

## 4. Proofs

### AztLaneProofs

About `AztLane`, for any number of hoses, any dose, all bounds, numbered pumps or not,
from the assumptions named in the modules: the card has a first hose and hoses are
numbers (`HoseAssumption`), `None` is no number (`NoneAssumption`), bounds are naturals
(`BoundAssumption`), a dose is positive (`MaxVolumeAssumption`), and a pump has
transaction numbers or has not (`NumberedAssumption`).

- `TypesHold`: `Spec => []TypeOK`. `TypeOK` alone is not inductive: that the register
  stays within the dose needs that an armed pump has room left, that a step of the
  loop finds the locals it uses needs facts about where it is, and that the number of
  arms stays in its range needs them counted by orders and interventions.
- `TypeCorrect`: `Spec => []TypeInv`, with
  `TypeInv == TypeOK /\ PumpsSound /\ StepsSound /\ ArmsCounted`, those three being the
  facts just named.
- `StopsHeld`: `Spec => StopHeld`. It rests on `StopInv`: an order names its hose, in
  memory and in the journal, the hose being closed has no stop outstanding that the
  close could drop unproven, and an order is taken with no stops outstanding.

### AztSaleProofs

Also about `AztLane`, from the same assumptions and `NoneIsApart`: `None` is neither an
identity of a sale nor the state of a lane. All four properties of the lane's sales
follow from one inductive invariant, `SaleInv`, on top of `TypeInv` and `StopInv`; TLC
checked it on the instances of the runs before it was proved.

- `OrdersSurvive`: `Spec => []OrderSurvivesCrash`. The part `OrdersHeld` says that while
  the registers of a hose hold an ordered sale that can still flow or is not in the book,
  the journal holds its order, and a lane that has read the journal does too, with an
  identity read before the sale began. `NewOrder` says why an order that is being set up
  destroys nothing: no sale is live, and the journal is written before the pump is armed.
- `SalesSaved`: `Spec => []NoSaleLost`. `AtRegisters` says that what a close has read is
  what its hose holds, from the reading to the confirmation, and `Books` that the book
  knows either the sale in the registers or only sales whose identity is earlier.
- `SalesBilledOnce` and `SalesOfTheirShift`: `BilledOnce` and `BilledToOrderShift`,
  under `MaxForeign = 0`: no other controller arms the card and no dose is keyed in at it.
  The part `Alone` needs this because an identity tells a sale apart only as long as
  nothing else moves the counters; section 6 has the counterexample without it. Orders,
  handovers, panel clears, lost exchanges, late writes and crashes are unbounded.
- `LaneKeepsLedger`: under `MaxForeign = 0`, `Spec => LedgerSpec`. `LedgerFacts` reads off
  `SaleInv` what meter and bill of an arm are in terms of registers and rows. Each step
  of the lane then maps to a step of `SaleLedger` or to none: flowing fuel to `Deliver`, the
  commit to a bill and its credit in one step, confirming or overwriting registers to
  giving them up when nothing is left to bill.

### OfficeProofs

About `TankDesk`, which contains `PriceDesk`: for any nozzles, prices, layouts,
branches, requests, scheduled changes and budgets, so for any number of failures and
restarts. Assumed: the queue has room for a command (`QueueCapAssumption`), budgets are
budgets (`BudgetsAssumption`), administrators are neither the scheduler nor the worker
(`AdminAssumption`), and `None` is neither a change nor a layout (`NoneAssumption`).

- `OfficeTypes`: `Spec => []TypeOK`. It rests on `TypeInv`, whose `SoundJob` says what a
  change in progress has ready at each point: prices to write, and the changed copy of
  the configuration once it is to be saved.
- `ScheduleIsKept`: `Spec => []ScheduleKept`, a scheduled price is sent at most once, and
  one that is marked applied was sent, is in hand, was in hand at a crash (`cut`), or
  failed together with the marking of its row (`unmarked`).
  `ScheduleKept` alone is not inductive, because nothing in it forbids a change that was
  sent from being in hand again; `ScheduleInv` adds that only the scheduler holds
  changes, and that one in hand is marked, not sent and in hand once.
- `CatalogsComeFirst`: `Spec => []CatalogFirst`, no reading is stored before the catalog
  of its layout, or after that of another. `CatalogInv` adds that the last catalog
  stored is of the layout the loop knows; `GaugeOK` that a round is of that layout.
- `LevelsAreCurrent`: `Spec => []LevelsCurrent`, what is on display was read under the
  layout the configuration has, unless a change overlapped another one, failed half-way or
  missed its desk (`torn`). `LevelsInv` adds that every
  copy of the configuration in hand has that layout too, because a price change saves
  the tank section it copied.
- `StoresAgreed`: `Spec => []StoresAgree`, about the prices of database, configuration
  and lanes and the tank section in memory and on disk. The prices in the file are not
  compared: they may be older, and a restart lays the database over them. Changes are
  caught half-way in most states, so the invariant `StoresInv` says for each point of a
  change what the database, the configuration and the lanes have by then (`Changing`,
  `Ending`, `Pulling`), and, unless something was torn, that one change at most is in
  progress. `Coming(n, p)` is the price a lane will have once it took the commands on
  their way, the last that names it counting.
- `SamplesAreKept`: `Spec => []ExportKept`, on top of `GaugeOK`: samples are numbered by
  their rounds and the courier holds the oldest that waits, or one the service has taken.
- `TankTypes`: `Spec => []TanksTypeOK`.

### ShelfProofs

About `ShelfLane`: for any guns, doses, orders and fills. Assumed: the bounds of the
modules, that there is a gun (`GunAssumption`), and that `None` is not a sale
(`NoneIsApart`).

- `OrdersServedOnce` and `CancelledStaysUnserved`: `ServedOnce` and `CancelWins`. The
  invariant `OrdersInv` adds that an order that waits is unserved and its cancellation is
  known to the lane (`OrderOK`), that a dose goes out only to the gun of its order, with
  its dose and uncancelled, and that the gun of an order already served is not idle any
  more, so that a repeated dose starts nothing (`Sent`). It also counts (`Counted`): each
  order in the queue, in the lane or in the budget still fits the model's bound of fills.
- `ShelfTypes`: `Spec => []TypeOK`, with what the loop holds at each of its steps
  (`JobOK`).

- `ShelfSalesKept`, `ShelfBillsOnce`, `ShelfBillsFinal`: `SaleKept`, `BilledOnce` and
  `BilledFinal`, assuming `KnownEnds`: keypads or lost answers, not both; and at a
  dispenser that retains its last sale no reset, no crash, and a single fill where a
  request may fail to arrive. Each clause is needed, since TLC finds a violation when it is
  dropped (section 6 says what happens). All budgets of the run but the first, a reset
  at a dispenser that retains, satisfy it.
  The invariant `SalesInv` was checked by TLC with these budgets. `SaleHeld` says that a
  fill the driver knows and has not billed is the lane's sale, and its report the one in
  memory; `ReportOK` that a report in memory is the whole of an unbilled fill; `DoseOut`
  that a dose which a gun may still take finds nothing due. `BilledOver` says that what is
  billed is over, and that where its final report is still to be told, because a stop was
  answered with it, the lane knows (`Done`, at that nozzle). `OneHand` holds the two ways
  in which an idle gun is known to be idle for its dose (`NoKeypad`), or a sale without
  a report to be flowing (`NoLosses`).

Most steps leave orders alone and are settled by one lemma (`CalmStep`), and most leave
the sale alone (`CalmSale`); the rest have one lemma each for either invariant.

### ShiftProofs

About `ShiftDesk`: for any number of shifts, sales, backdated starts, cuts and restarts,
from the assumptions of the module (the loop is not a request, bounds are naturals).
`TotalsAreSales` is for any number of concurrent requests, `MirrorKept` for one at a time.

- `TotalsAreSales`: `Spec => []TotalsMatch`. In most states some process is between a
  count, or a sale, and the total it belongs to. `Balanced` says that, unless the books
  are known to be off (`Clean == ~mixed /\ ~astray`), there is one such process at most
  (`Alone`), that its count is still that of the sales it will move (`CountRight`), and
  that every total, with what this process still owes it (`Owed`, negative between the
  two halves of a move), is the number of its rows without the unpaid ones (`Paid`).
  `StagesStand` says which sales may be unpaid, and how the one the loop is closing
  stands to its row. `TablesOK` adds that shifts and sales are numbered as they come,
  so that a new shift has no sales; `StepsOK` what a request knows at each place, above
  all that it moves sales from one shift to another and not to the same. That a total
  never falls short of what `Take` subtracts follows: the floor in
  `reassign_from_shift_since` is never reached while the books are balanced.
- `MirrorKept`: `Spec => []MirrorTrue`, assuming `OneCaller`: requests of the API do not
  overlap one another. They may still overlap the poll loop's sales at every statement,
  be cut off, and be followed by a restart. The assumption is needed, since two starts
  that overlap leave two shifts open (`shift_overlap`). The inductive part is `MirrorInv`,
  which TLC checked before it was proved: `PhaseOK` says at each place of a request which
  shift is open and which is in memory. Between `close` and `publish` they differ, and no
  sale in progress may name the new shift (`Unstamped`); between a credit in the table and
  the one in memory they differ by `Lag`; and while a request publishes totals it read
  again, the loop is between sales, or a count went out of date (`mixed`).

### BlueSkyProofs

About `BlueSkyLane`: for any hoses, doses, orders, stops, crashes and failures. Assumed:
the bounds of the modules, and that there is a hose (`HoseAssumption`).

- `OrdersKept`: `Spec => []OrderKept`. While the process that ordered a fill lives, the
  fill is the lane's sale with nothing billed, or it is over and billed once with all its
  fuel; any number of fills may be started from keypads.
- `DosesAreOrders` and `LiftsSellOnce`: `Spec => []DoseOfOrder` and
  `Spec => []OneSalePerLift`, also for any keypads. The second is about sales billed
  since the last restart: `outlived` names the others, and section 6 what happens to them.
- `SalesOwned` and `BillsFinal`: `OwnedUntilBilled` and `BilledFinal`, which also speak of
  fills the driver only found flowing. They assume `LoneKeypad`: no budget has a second
  fill of the keypad. It is needed, because such a fill clears the register of the first
  whatever the driver does (section 6).
- `BlueTypes`: `Spec => []TypeOK`.

The inductive invariant is `BlueInv`; TLC checked it before it was proved. `SaleOK` says
of each hose how its register, its rows and the lane's sale agree, for the fills that no
keypad can put out of the register (`Sure`). The three exchanges that end a sale need
`PlaceOK`: what a status said of a hose stays true although the hose moves on, since a
fill that was stopped or has reached its dose never flows again (`Saw`, `Ending`), so that
a settled reading taken between two statuses of an end is the last one (`Confirming`).
`PumpOK` has the arithmetic of the dose, `KeypadOver` that an ordered hose is out of reach
of its keypad, and `FillsLeft` that each order on its way still has a fill of the bound.

### GilbarcoProofs

About `GilbarcoLane`: for any nozzles, doses, fills and budgets, in any number of orders,
cancellations, expiries, resets and crashes, late commands included. Assumed: the bounds
of the modules, and that nozzles are numbers above 0, with a nozzle 1
(`NozzleAssumption`), because the driver takes 1 where it knows none. `Typed` is the
inductive invariant of `GilbarcoTypes` (`Spec => []TypeOK`) and goes under the two others.
Each of these has a hypothesis on the budgets, which all budgets of the run satisfy; each
clause is needed, since TLC finds a violation when it is dropped.

- `GilbarcoServes`: `Spec => []ServedAsOrdered`, assuming `FramesArrive`: preset frames
  are not lost, and at most two answers are; none where commands are taken between the
  frames of a poll. The second clause is about another customer: the driver sends the
  authorization to the nozzle it saw up, and the pump keeps two polls' worth of grace in
  each phase, so that after three lost answers in a row it may be another nozzle.
  `OrdersKept` says that the frames on the wire are of the order being served
  (`OrderOnWire`), that an order which waits is at the nozzle it names (`WaitingOrder`),
  that the nozzle the lane shows as up is the lifted one (`ShownIsUp`), and that it has
  polls to spare (`Unhurried`).
- `GilbarcoKeeps`, `GilbarcoBillsOnce`, `GilbarcoBillsRight`: `SaleKept`, `BilledOnce`,
  `BilledRight`. `SaleKept` is about registers that a lift clears, and exempts the fills
  that a crash or a cancellation made the lane drop (`forgotten`); `BilledRight` is about
  volume and nozzle, the nozzle but for the same fills, and not about the preset. They
  assume `OneMishap`: where the nozzle may be lifted again, one answer is
  lost or one sale refused in all, and stops are of a lane with a sale that is not in the
  middle of a poll, with the reset after the nozzle is hung up. With a single fill any
  number of answers may be lost and sales refused. The invariant is `SalesKept`. Its
  heart is `InTime`: a finished pump answers as complete for more polls than mishaps are
  left, so that it is never idle before the lane is through with its sale. `SaleHeld`
  and `SaleOwed` say that fuel which flows, or is not in the book, has a transaction at
  its own nozzle; `BilledOver` that a sale in the book is over for the lane too, so that
  nothing can commit it again; `Commands` what may wait in the queue: one command that
  finds the lane as it was (`Calm`), or, where commands may be late, orders among others
  that are taken before fuel flows or find nothing to do (`Raced`).

### WayneProofs

About `WayneLane`: for any hoses, presets, tank and deceleration window, any number of
customers, fills, orders, lane resets, lost exchanges and failed saves, and whatever the
pump repeats, leaves out or reports as a ghost pulse. Assumed: the bounds of the modules,
that hoses are numbers above 0 (`NozzleAssumption`), and that `None` is neither a number
nor a hose byte (`NoneAssumption`). The three theorems have the hypothesis `OrdersAlone`:
the service is not asked to stop, to cancel or to close a sale and does not crash, the
operator asks when he sees the lift or the end it is about, and one command waits at a
time. Section 6 has what TLC finds when a clause is dropped. Cancellations and crashes
also occur in the run `wayne_lane`, within its budgets.

- `WayneSaleKept`: `Spec => SaleKept`. A metered sale leaves the lane only for the step
  that saves it (`Kept`), and `JobOK` says that until then the step has its row.
- `WayneBillsOnce`: `Spec => []BilledOnce`. `ReadOK` says that what the lane meters is the
  fill in the register, or one the pump has given up, without a row; and that while a
  register holds a fill that is billed, or about to be, the lane is done, so that no
  reading of it begins a sale. `OwnOK` is what keeps an idle lane from taking a reading it
  left behind: it owns no authorization.
- `WayneHolsteredArmsNothing`: `Spec => []HolsteredArmsNothing`. `ArmOK` says who can have
  armed the pump: a CONFIG of the authorization that the lane is still in, or a sale the
  lane meters, took for a ghost pulse or is done with; `WaitOK` that an order queued
  while the lane was idle is overtaken by a lift at most, and not by an arm.

The invariant is `WayneInv`; TLC checked it before it was proved. Frames are the larger
part: what a frame may do with the lane is one of a few outcomes (`Stays`, `Idles`,
`Ends`, `Wakes`, `Configs`, `Lifts`, a metered sale), every kind of frame is shown to have
one of them, and each outcome to keep the invariant (`Good`).

In these modules each action has one lemma for the inductive invariant it must keep, and
the temporal step comes last.

### What is only model-checked

- `ShiftDesk!TypeOK`: that `queue` is a sequence of entries goes through the fold of the
  repairs at start (`ToldShifts`), which needs induction over data. No theorem uses it.
- `BackendAgrees`: a restart tells several shifts at once, through the same fold, and the
  property is about the order in which the queue then has their records. It also holds
  only for the AZT commit without backdated starts (see the bounds and `ClosedTold`).
- Invariants that hold within the budgets and not beyond them (section 6), so that there
  is nothing to prove for every value of the constants: the three of the Wayne lane
  outside `OrdersAlone`, `BilledOnce` of the AZT lane with another controller,
  `OwnedUntilBilled` and `BilledFinal` of the BlueSky lane with a second fill of the
  keypad, the theorems about sales of the Shelf lane outside `KnownEnds`, those of the
  Gilbarco lane outside `FramesArrive` and `OneMishap`.
- The liveness properties, since the prover has neither fairness nor `ENABLED`.

## 5. Known violations

Properties that the project states and the code does not keep. The first is a run; the
others are in none, and the constants under which TLC shows the violation are given.

| Property | What happens | Instance |
|---|---|---|
| `ShiftDesk!OneActive` | two overlapping starts both find no open shift | run `shift_overlap` |
| `AztLane!EverySaleRead` | the comment at `azt.rs:1164` says that every finished sale is read; while a confirmation is outstanding (`azt.rs:1193`) a poll confirms whatever sale the pump has finished meanwhile, one that somebody else armed too | `azt_lane` with `MaxOrders = 1`, `MaxForeign = 1`, `MaxShifts = 1`, `MaxClears = 0` |
| `AztLane!OrphanStopped` | a hose armed by another controller is stopped (`azt.rs:418`) only when it is the one a poll resolves; the second hose of the card is not while it waits | `FairSpec`, `Hose = {1, 2}`, `MaxForeign = 1`, all other bounds 0 |
| `ShiftDesk!ClosedTold` | `shift_queries.rs:456` and `:477` tell the closed shift "so the backend gets the final state", but a sale of the shared commit may be credited after it was read | one caller, `Atomic = {FALSE}`, `MaxShifts = 3`, `MaxSales = 1` |
| `ShiftDesk!EverySaleCredited` | `shared.rs:189` says that saving a sale and crediting it belong together, "do not call these individually"; the operator's close of a paused sale completes its row and credits nobody (`routes.rs:826`) | one caller, `Atomic = {FALSE}`, `AutoClose = {FALSE}`, `MaxShifts = 1`, `MaxSales = 1`, `Stoppable = {1}`, all other bounds 0 |
| `PriceDesk!FailureMarked` | `price_schedule_queries.rs:145` says that a claimed row that does not reach the wire is moved to FAILED by `mark_failed`; the scheduler drops the error of that write (`price_scheduler.rs:63`), and the row stays APPLIED | the budgets of `MCOffice` |
| `BlueSkyLane!EveryBillFinal` | a fill adopted after an order with a dose is judged by that dose, and billed while interrupted beyond it | the budgets of `MCBlueSky` |
| `WayneLane!StoppedOnce` | an emergency stop within the deceleration window of a stop leaves the window open, and its expiry (`wayne.rs:610-682`) inserts a second STOPPED row for the fill | `Budgets <- MCStops`, `DecelWindow = TRUE` |
| `GilbarcoLane!BilledAtNozzle` | an order that expires (`preauth_timeout.rs:72`) after it was authorized wipes the lane's transaction and nozzle; its sale is adopted as one of nozzle 1 | `Budgets <- MCExpired` |

## 6. Behaviours beyond the bounds

What was met while modelling, is possible in the code, and is kept out of the passing
runs by a budget or a named condition. None of it is claimed to be rare.

AZT. `EverySaleRead` and `OrphanStopped` above. With another controller a sale may be
billed twice: it is in the book, the service dies before it confirms, the pump is cleared
at its panel, the restarted service reads the registers, and the other controller arms
the hose before the service reads the identity; the new identity is not in the book, so
the old volume is inserted again (`BilledOnce` with `MaxForeign`, `MaxCrashes` and
`MaxClears` of 1, or with two orders). Without another controller this cannot happen, by
`SalesBilledOnce`; that no sale is lost holds with one, by `SalesSaved`.

BlueSky. A pump that kept the old reading after a dose would be billed twice when Start
is lost; the driver cannot tell, and `BlueSkyPump` assumes it does not. A second fill of
the keypad, without remote control in between, clears the register before the first is
billed (`OwnedUntilBilled` and `BilledFinal` with `keypad = 2`). A fill billed at the dose
of an earlier order (`claim = "misjudged"`) and still flowing is billed a second time by
a restarted service, with its full reading (`orders`, `keypad` and `crashes` of 1). A
service restarted while the hose of a billed sale is still lifted has forgotten the sale
(`completed_nozzle`), takes an order and starts it on the same lift (`outlived`); recovery
across a restart is out of scope in `src/docs/protocols/texnouz_bluesky.md:80`.

Wayne. `Prompt` allows a command that arms, resets or closes only once the lane has seen
the lift or the end that it is about, but for `hasty` times; without it `BilledOnce`
fails in several ways: a late Authorize arms an idle pump; a reset or a close while the
hose is up; a second queued Preauthorize overwrites a live sale; a cancellation while
fuel flows. Outside the budgets it also fails when a stopped lane goes offline and its
next data frame enters delivery again, and after a stop with a lost exchange or a crash
with an emergency stop. A failed save is ignored (`wayne.rs:851`): `SaleKept` leaves out
that one reading. With two orders the lane may forget a pump that it armed: a Stop between
the lift and its CONFIG does not take the CONFIG back, a cancellation sends a STOP that a
pump whose hose was lifted again does not obey, a crash forgets the CONFIG. The next
pre-authorization then waits on an armed pump (`HolsteredArmsNothing` with one stop,
cancellation or crash), and one that is applied after fuel has flowed drops the reading
(`SaleKept` with one stop, or a cancellation or a crash with a lost exchange). A cancelled
sale leaves its latches `holster` and `complete` behind, so that the next sale is billed
while it still flows, and a service that restarts then bills it again (`BilledOnce` with
one cancellation and one crash).

Shelf. A start whose twenty requests all fail keeps its transaction, and an idle gun that
retains its last sale then gives it to be billed again (`shelf.rs:1263`, against
`docs/protocols/shelf_v2_2.md:196`). A pump that still answers a stop with its old
status after ResetLane or a crash is billed twice. A mode-and-reserve request lost
together with an immediate keypad fill loses the sale. An Authorize that names no nozzle
may reserve the first gun. The simulator's answer to a lost reservation leaves the lane
finalizing; `CancelEnds` is therefore stated for dispensers that retain their sale.

Gilbarco. A lost preset frame gives a limited order a full tank. A stop on a finished
lane between two polls, or on an idle one followed by ResetLane, bills a sale twice. A
cancellation applied after the authorization wipes transaction and nozzle (`forgotten`).
Two failed exchanges and an immediate lift lose the sale, and so does a crash at the
moment it completes. A stopped lane whose two closes fail waits for the operator. The
price override is ignored for pre-authorized lanes, prices of 100000 and more wrap on
the wire, and volume presets above 999999 are refused at every poll.

Desk. A paused sale is a STOPPED row of the shift of the pause, and in no total. Closing
it by the lane credits the shift active by then, which after a handover is another one;
the operator's close credits none (`EverySaleCredited`). A backdated start or handover
counts such a row, so that its later close is credited twice, or takes it from a total
that never had it (`astray`). A restart recounts all rows and makes the totals true. A close by
the lane that comes just after the operator's finds no STOPPED row, its insert of the same
id fails, and the Wayne driver releases the pump all the same.

Sync. A CLOSED record that the backend refuses to the limit (`max_retries`) waits for the
next start of the service, and the backend shows the shift open until then. `ClosedShown`
names it (`Exhausted`).

Office. A scheduled price whose application fails and whose row cannot be marked stays
APPLIED, was never sent, and is not due again (`unmarked`). Overlapping changes lose
each other's price or an edit of the tank section (`admin.rs:342`), and the file and the
memory may be left by different ones. A database written before a save that fails
disagrees with the configuration until the next start. The lanes of a catalog may be
overtaken by an older command still in their queue. The operator's route tells the lanes
only; the worker's command may find the queue full (`sync.rs:644`), and its price may
overwrite one that the backend was not yet told. A crash between claim and send leaves
the change APPLIED with the old price in force, one in the middle of a change leaves it
half done. A lift on a Wayne lane between the two halves of a pull puts the lane's old
price back until the next lift, when it is read again; `torn` names it, and no sale is
at the wrong price.

## 7. Not modelled

- AZT: `UpdatePrices`, `RefreshTotals`, `ReloadConfig`, the journal against a changed
  configuration.
- Wayne, Shelf, Gilbarco, BlueSky: prices on the wire, amounts (they move with volumes),
  totalizers, `ReloadConfig`; on Shelf also the exchange of gas pressures and the
  continuation of a stopped fill.
- Office: the price history and the records of price changes for the backend, products,
  settings and shift schedules, the poll loop's own copy of the configuration, the
  validation of prices by the AZT driver, Modbus, the `created_at` clock of the outbox
  (its order is taken to be that of the rounds).
- Desk: meter readings at shift boundaries, operators and PINs, the slot warning task.
- Sync: record types other than shifts and transactions, the configuration backup.
- HTTP and WebSocket plumbing, sessions and authentication, database migrations; frame
  layouts and checksums of the wire crates (of them the pump modules model which requests
  and answers there are); screens of the front ends. They keep no state that the
  properties above are about, or are pure conversions with unit tests.

## 8. Plan

Done: the lanes of all five drivers, the desk with its worker and backend, the office;
proofs about the AZT lane with its refinement, the BlueSky, Gilbarco, Shelf and Wayne
lanes, the office, the totals of the desk and its copy in memory. What is left, most
important first:

1. What the Wayne lane keeps with cancellations alone and with crashes alone: on small
   instances TLC finds `SaleKept` and `BilledOnce` to hold with either, but not with both,
   and the invariant has to let an idle lane have an armed pump.
2. `ReloadConfig`: the poll loop replaces its lanes while sales are open.
3. Pure algorithms: dose limits and rounding of amounts, against a definition.

The runs stay one per question.
