---------------------------- MODULE OfficeProofs ----------------------------
(***************************************************************************)
(* What holds of the office for any nozzles, prices, layouts, requests,    *)
(* scheduled changes, failures and restarts: the types of its stores; what *)
(* becomes of a scheduled price; that database, configuration and lanes    *)
(* agree on every price once nothing is under way, and memory and file on  *)
(* the tank section; that levels and catalogs are those of the layout; and *)
(* that an external service is given every sample in order.                *)
(***************************************************************************)
EXTENDS TankDesk, TLAPS

(* What a change in progress has ready for its next steps. *)
SoundJob ==
    {j \in Job :
        /\ j.todo \subseteq DOMAIN j.want
        /\ j.at \in {"db", "save", "swap"} /\ j.kind # "pull" => j.snap \in Site
        /\ j.at = "apply" => j.kind = "pull"
        /\ j.kind = "pull" => j.at \in {"apply", "db"}
        /\ j.at = "db" /\ j.kind = "catalog" => j.want \in [Nozzle -> Price]}

StoresOK ==
    /\ db \in [Nozzle -> Price] /\ lane \in [Nozzle -> Price]
    /\ site \in Site /\ file \in Site
    /\ commands \in Seq(Wanted) /\ Len(commands) <= QueueCap

DeskOK == desk \in [Writer -> SoundJob]

RowsOK ==
    /\ plan \in [Change -> Plan] /\ pushed \in [Change -> Nat]
    /\ cut \subseteq Change /\ unmarked \subseteq Change

GhostsOK == torn \in BOOLEAN /\ asked \in Tanks /\ left \in Budget

TypeInv == StoresOK /\ DeskOK /\ RowsOK /\ GhostsOK

----------------------------------------------------------------------------
(* Facts about prices and jobs. *)

(* A request names nozzles and gives them prices; one may name them all. *)
LEMMA WantedType ==
    /\ \A want \in Wanted :
          /\ want = [n \in DOMAIN want |-> want[n]] /\ DOMAIN want \subseteq Nozzle
          /\ \A n \in DOMAIN want : want[n] \in Price
    /\ \A S \in SUBSET Nozzle : [S -> Price] \subseteq Wanted
BY DEF Wanted

(* The empty request. *)
LEMMA NothingWanted == <<>> \in Wanted /\ DOMAIN <<>> = {}
<1>1. DOMAIN <<>> = {}
  OBVIOUS
<1>2. <<>> \in [{} -> Price]
  OBVIOUS
<1> QED BY <1>1, <1>2, WantedType

(* Prices laid over a full set of prices are a full set of prices. *)
LEMMA LaidType ==
    ASSUME NEW over \in Wanted, NEW under \in [Nozzle -> Price]
    PROVE  Laid(over, under) \in [Nozzle -> Price]
BY WantedType DEF Laid

(* A writer that rests has a sound job, and nothing of a scheduled change. *)
LEMMA RestType ==
    ASSUME NEW due \in SUBSET Change
    PROVE  Rest(due) \in SoundJob /\ Rest(due).due = due /\ Rest(due).change = None
           /\ Rest(due).at = "rest" /\ Rest(due).kind = "prices"
<1>1. Rest(due) \in Job
  BY NothingWanted DEF Rest, Job
<1> QED BY <1>1 DEF Rest, SoundJob

(* What is spent was there. *)
LEMMA SpendType ==
    ASSUME left \in Budget,
           NEW what \in {"changes", "catalogs", "local", "plans", "cancels", "pulls", "edits",
                         "errors", "crashes", "rounds"},
           Spend(what)
    PROVE  left' \in Budget
BY DEF Spend, Budget

(* A change of one writer's job leaves the others'. *)
LEMMA DeskStep ==
    ASSUME DeskOK, NEW w \in Writer, NEW j \in SoundJob, desk' = [desk EXCEPT ![w] = j]
    PROVE  DeskOK' /\ desk'[w] = j /\ \A v \in Writer \ {w} : desk'[v] = desk[v]
BY DEF DeskOK

(* A writer that is done rests. *)
LEMMA DoneStep ==
    ASSUME DeskOK, NEW w \in Writer, Done(w)
    PROVE  DeskOK' /\ desk'[w] = Rest(desk[w].due) /\ \A v \in Writer \ {w} : desk'[v] = desk[v]
<1>1. desk[w].due \in SUBSET Change
  BY DEF DeskOK, SoundJob, Job
<1>2. desk' = [desk EXCEPT ![w] = Rest(desk[w].due)]
  BY DEF Done
<1> QED BY <1>1, <1>2, RestType, DeskStep

----------------------------------------------------------------------------
(* Each step keeps the types. *)

(* A request takes its copy: it is a sound job. *)
LEMMA SnapshotStep ==
    ASSUME StoresOK, DeskOK, NEW w \in Writer, NEW kind \in {"prices", "catalog"},
           NEW want \in Wanted, kind = "catalog" => want \in [Nozzle -> Price], ~Busy(w),
           Snapshot(w, kind, want)
    PROVE  /\ DeskOK' /\ torn' \in BOOLEAN
           /\ desk'[w].change = desk[w].change /\ desk'[w].due = desk[w].due
           /\ desk'[w].kind = kind /\ desk'[w].at = "db" /\ desk'[w].snap.tanks = site.tanks
           /\ \A v \in Writer \ {w} : desk'[v] = desk[v]
<1> DEFINE snap == [site EXCEPT !.price = Laid(want, @)]
<1> DEFINE todo == {n \in DOMAIN want : kind = "catalog" \/ site.price[n] # want[n]}
<1> DEFINE j == [desk[w] EXCEPT !.at = "db", !.kind = kind, !.want = want, !.todo = todo,
                                !.snap = snap]
<1>1. snap \in Site /\ snap.tanks = site.tanks
  BY LaidType DEF StoresOK, Site
<1>2. todo \in SUBSET Nozzle /\ todo \subseteq DOMAIN want
  BY WantedType
<1>3. desk[w] \in Job
  BY DEF DeskOK, SoundJob
<1>4. desk' = [desk EXCEPT ![w] = j]
  BY DEF Snapshot, DeskOK
<1> HIDE DEF snap, todo
<1>5. /\ j \in Job /\ j.at = "db" /\ j.kind = kind /\ j.want = want /\ j.todo = todo
      /\ j.snap = snap /\ j.change = desk[w].change /\ j.due = desk[w].due
  BY <1>1, <1>2, <1>3 DEF Job
<1>6. j \in SoundJob
  BY <1>1, <1>2, <1>5 DEF SoundJob
<1>7. torn' \in BOOLEAN
  BY DEF Snapshot
<1> HIDE DEF j
<1> QED BY <1>1, <1>4, <1>5, <1>6, <1>7, DeskStep

(* A step of a change that is being made keeps the types. *)
LEMMA ProceedKeeps ==
    ASSUME TypeInv, NEW w \in Writer, Proceed(w)
    PROVE  TypeInv'
<1> USE DEF TypeInv
<1>1. desk[w] \in SoundJob /\ desk[w] \in Job
  BY DEF DeskOK, SoundJob
<1>2. ASSUME NEW n \in Nozzle, WritePrice(w, n) PROVE TypeInv'
  <2>1. desk' = [desk EXCEPT ![w] = [desk[w] EXCEPT !.todo = @ \ {n}]]
    BY <1>2 DEF WritePrice
  <2>2. [desk[w] EXCEPT !.todo = @ \ {n}] \in SoundJob
    BY <1>1 DEF SoundJob, Job
  <2>3. desk[w].want[n] \in Price
    BY <1>1, <1>2, WantedType DEF SoundJob, Job, WritePrice
  <2>4. StoresOK'
    BY <1>2, <2>3 DEF WritePrice, StoresOK
  <2> QED BY <1>2, <2>1, <2>2, <2>4, DeskStep DEF WritePrice, RowsOK, GhostsOK, ghosts
<1>3. CASE WriteCatalog(w)
  <2>1. desk' = [desk EXCEPT ![w] = [desk[w] EXCEPT !.todo = {}]]
    BY <1>3 DEF WriteCatalog
  <2>2. [desk[w] EXCEPT !.todo = {}] \in SoundJob
    BY <1>1 DEF SoundJob, Job
  <2>3. StoresOK'
    BY <1>1, <1>3 DEF WriteCatalog, SoundJob, StoresOK
  <2> QED BY <1>3, <2>1, <2>2, <2>3, DeskStep DEF WriteCatalog, RowsOK, GhostsOK, ghosts
<1>4. CASE Written(w)
  <2>1. CASE desk[w].kind = "pull"
    BY <1>4, <2>1, DoneStep DEF Written, stores, ghosts, StoresOK, RowsOK, GhostsOK
  <2>2. CASE desk[w].kind # "pull"
    <3>1. desk' = [desk EXCEPT ![w] = [desk[w] EXCEPT !.at = "save"]]
      BY <1>4, <2>2 DEF Written
    <3>2. [desk[w] EXCEPT !.at = "save"] \in SoundJob
      BY <1>1, <1>4, <2>2 DEF SoundJob, Job, Written
    <3> QED BY <1>4, <3>1, <3>2, DeskStep DEF Written, stores, ghosts, StoresOK, RowsOK, GhostsOK
  <2> QED BY <2>1, <2>2
<1>5. CASE SaveFile(w)
  <2>1. desk' = [desk EXCEPT ![w] = [desk[w] EXCEPT !.at = "swap"]]
    BY <1>5 DEF SaveFile
  <2>2. [desk[w] EXCEPT !.at = "swap"] \in SoundJob /\ desk[w].snap \in Site
    BY <1>1, <1>5 DEF SoundJob, Job, SaveFile
  <2> QED BY <1>5, <2>1, <2>2, DeskStep DEF SaveFile, ghosts, StoresOK, RowsOK, GhostsOK
<1>6. CASE Swap(w)
  <2>1. desk' = [desk EXCEPT ![w] = [desk[w] EXCEPT !.at = "end"]]
    BY <1>6 DEF Swap
  <2>2. [desk[w] EXCEPT !.at = "end"] \in SoundJob /\ desk[w].snap \in Site
    BY <1>1, <1>6 DEF SoundJob, Job, Swap
  <2> QED BY <1>6, <2>1, <2>2, DeskStep DEF Swap, ghosts, StoresOK, RowsOK, GhostsOK
<1>7. CASE SyncLanes(w)
  BY <1>7, DoneStep DEF SyncLanes, ghosts, StoresOK, RowsOK, GhostsOK, Site
<1>8. CASE SendPrices(w)
  <2>1. desk[w].want \in Wanted
    BY <1>1 DEF Job
  <2>2. StoresOK'
    BY <1>8, <2>1, QueueCapAssumption DEF SendPrices, stores, StoresOK
  <2>3. desk[w].change = None \/ desk[w].change \in Change
    BY <1>1 DEF Job
  <2>4. pushed' \in [Change -> Nat]
    BY <1>8, <2>3 DEF SendPrices, RowsOK
  <2> QED BY <1>8, <2>2, <2>4, DoneStep DEF SendPrices, RowsOK, GhostsOK
<1> QED BY <1>2, <1>3, <1>4, <1>5, <1>6, <1>7, <1>8 DEF Proceed

(* A write that fails keeps the types. *)
LEMMA FailsKeeps ==
    ASSUME TypeInv, NEW w \in Writer, Fails(w)
    PROVE  TypeInv'
<1> USE DEF TypeInv
<1>1. DeskOK'
  <2>1. CASE desk[w].change = None
    BY <2>1, DoneStep DEF Fails
  <2>2. CASE desk[w].change # None
    <3>1. desk[w] \in SoundJob /\ desk[w] \in Job
      BY DEF DeskOK, SoundJob
    <3>2. [desk[w] EXCEPT !.at = "mark"] \in SoundJob
      BY <3>1 DEF SoundJob, Job, Fails
    <3>3. desk' = [desk EXCEPT ![w] = [desk[w] EXCEPT !.at = "mark"]]
      BY <2>2 DEF Fails
    <3> QED BY <3>2, <3>3, DeskStep
  <2> QED BY <2>1, <2>2
<1>2. torn' \in BOOLEAN
  BY DEF Fails
<1>3. left' \in Budget
  BY SpendType DEF Fails, GhostsOK
<1> QED BY <1>1, <1>2, <1>3 DEF Fails, stores, StoresOK, RowsOK, GhostsOK

(* A row is marked, or is not: the types are kept. *)
LEMMA MarkKeeps ==
    ASSUME TypeInv, NEW c \in Change, MarkFailed(c) \/ MarkFails(c)
    PROVE  TypeInv'
<1> USE DEF TypeInv
<1>1. DeskOK'
  BY DoneStep DEF MarkFailed, MarkFails, Writer
<1>2. RowsOK'
  BY DEF MarkFailed, MarkFails, ghosts, RowsOK, Plan, Status
<1>3. left' \in Budget
  BY SpendType DEF MarkFailed, MarkFails, GhostsOK
<1> QED BY <1>1, <1>2, <1>3 DEF MarkFailed, MarkFails, ghosts, stores, StoresOK, GhostsOK

(* Claims and applications of the scheduler keep the types. *)
LEMMA ScheduleKeeps ==
    ASSUME TypeInv, Schedule
    PROVE  TypeInv'
<1> USE DEF TypeInv
<1>1. Scheduler \in Writer /\ desk[Scheduler] \in SoundJob /\ desk[Scheduler] \in Job
  BY DEF Writer, DeskOK, SoundJob
<1>2. CASE ClaimDue
  <2> DEFINE claimed == {c \in Change : plan[c].status = "PENDING" /\ plan[c].due}
  <2>1. desk' = [desk EXCEPT ![Scheduler] = [desk[Scheduler] EXCEPT !.due = claimed]]
    BY <1>2 DEF ClaimDue
  <2>2. [desk[Scheduler] EXCEPT !.due = claimed] \in SoundJob
    BY <1>1 DEF SoundJob, Job
  <2>3. plan' \in [Change -> Plan]
    BY <1>2 DEF ClaimDue, RowsOK, Plan, Status
  <2> QED BY <1>1, <1>2, <2>1, <2>2, <2>3, DeskStep
          DEF ClaimDue, stores, ghosts, StoresOK, RowsOK, GhostsOK
<1>3. ASSUME NEW c \in Change, ApplyScheduled(c) PROVE TypeInv'
  <2> DEFINE want == [n \in Nozzle |-> plan[c].price]
  <2> DEFINE todo == {n \in Nozzle : site.price[n] # want[n]}
  <2> DEFINE snap == [site EXCEPT !.price = want]
  <2> DEFINE j == [desk[Scheduler] EXCEPT !.at = "db", !.want = want, !.todo = todo,
                      !.snap = snap, !.change = c, !.due = @ \ {c}]
  <2>1. want \in [Nozzle -> Price]
    BY DEF RowsOK, Plan
  <2>2. snap \in Site
    BY <2>1 DEF StoresOK, Site
  <2>3. desk' = [desk EXCEPT ![Scheduler] = j]
    BY <1>3 DEF ApplyScheduled
  <2>4. todo \in SUBSET Nozzle /\ DOMAIN want = Nozzle /\ want \in Wanted
    BY <2>1, WantedType
  <2> HIDE DEF want, todo, snap
  <2>5. j \in Job /\ j.at = "db" /\ j.kind = desk[Scheduler].kind /\ j.want = want
        /\ j.todo = todo /\ j.snap = snap
    BY <1>1, <2>2, <2>4 DEF Job
  <2>6. j.kind # "pull"
    BY <1>1, <1>3, <2>5 DEF SoundJob, ApplyScheduled, Busy
  <2>7. j \in SoundJob
    BY <2>1, <2>2, <2>4, <2>5, <2>6 DEF SoundJob
  <2>8. torn' \in BOOLEAN
    BY <1>3 DEF ApplyScheduled
  <2> HIDE DEF j
  <2> QED BY <1>1, <1>3, <2>3, <2>7, <2>8, DeskStep
          DEF ApplyScheduled, stores, StoresOK, RowsOK, GhostsOK
<1> QED BY <1>2, <1>3, MarkKeeps DEF Schedule

(* Requests of administrators and operators keep the types. *)
LEMMA RequestKeeps ==
    ASSUME TypeInv, Request
    PROVE  TypeInv'
<1> USE DEF TypeInv
<1>1. Admin \subseteq Writer
  BY DEF Writer
<1>2. ASSUME NEW a \in Admin, NEW want \in Wanted, RequestPrices(a, want) PROVE TypeInv'
  <2>1. DeskOK' /\ torn' \in BOOLEAN
    BY <1>1, <1>2, SnapshotStep DEF RequestPrices
  <2>2. left' \in Budget
    BY <1>2, SpendType DEF RequestPrices, GhostsOK
  <2> QED BY <1>2, <2>1, <2>2 DEF RequestPrices, stores, StoresOK, RowsOK, GhostsOK
<1>3. ASSUME NEW a \in Admin, NEW want \in [Nozzle -> Price], RequestCatalog(a, want)
      PROVE  TypeInv'
  <2>1. want \in Wanted
    BY WantedType
  <2>2. DeskOK' /\ torn' \in BOOLEAN
    BY <1>1, <1>3, <2>1, SnapshotStep DEF RequestCatalog
  <2>3. left' \in Budget
    BY <1>3, SpendType DEF RequestCatalog, GhostsOK
  <2> QED BY <1>3, <2>2, <2>3 DEF RequestCatalog, stores, StoresOK, RowsOK, GhostsOK
<1>4. ASSUME NEW c \in Change, NEW p \in Price, CreateScheduled(c, p) PROVE TypeInv'
  <2>1. left' \in Budget
    BY <1>4, SpendType DEF CreateScheduled, GhostsOK
  <2> QED BY <1>4, <2>1
          DEF CreateScheduled, stores, ghosts, StoresOK, DeskOK, RowsOK, GhostsOK, Plan, Status
<1>5. ASSUME NEW c \in Change, FallsDue(c) PROVE TypeInv'
  BY <1>5 DEF FallsDue, stores, ghosts, StoresOK, DeskOK, RowsOK, GhostsOK, Plan
<1>6. ASSUME NEW c \in Change, CancelScheduled(c) PROVE TypeInv'
  <2>1. left' \in Budget
    BY <1>6, SpendType DEF CancelScheduled, GhostsOK
  <2> QED BY <1>6, <2>1
          DEF CancelScheduled, stores, ghosts, StoresOK, DeskOK, RowsOK, GhostsOK, Plan, Status
<1>7. ASSUME NEW want \in Wanted, OperatorPrices(want) PROVE TypeInv'
  <2>1. left' \in Budget
    BY <1>7, SpendType DEF OperatorPrices, GhostsOK
  <2>2. StoresOK'
    BY <1>7, QueueCapAssumption DEF OperatorPrices, stores, StoresOK
  <2> QED BY <1>7, <2>1, <2>2 DEF OperatorPrices, DeskOK, RowsOK, GhostsOK
<1> QED BY <1>2, <1>3, <1>4, <1>5, <1>6, <1>7 DEF Request

(* The pull of the backend's prices keeps the types. *)
LEMMA PullKeeps ==
    ASSUME TypeInv, Pull
    PROVE  TypeInv'
<1> USE DEF TypeInv
<1>1. Server \in Writer /\ desk[Server] \in SoundJob /\ desk[Server] \in Job
  BY DEF Writer, DeskOK, SoundJob
<1>2. ASSUME NEW remote \in Wanted, PullPrices(remote) PROVE TypeInv'
  <2> DEFINE want == [n \in {m \in DOMAIN remote : site.price[m] # remote[m]} |-> remote[n]]
  <2> DEFINE j == [desk[Server] EXCEPT !.at = "apply", !.kind = "pull", !.want = want,
                                       !.todo = DOMAIN want]
  <2>1. DOMAIN want \in SUBSET Nozzle /\ want \in [DOMAIN want -> Price]
    BY WantedType
  <2>2. want \in Wanted
    BY <2>1, WantedType
  <2>3. desk' = [desk EXCEPT ![Server] = j]
    BY <1>2 DEF PullPrices
  <2> HIDE DEF want
  <2>4. j \in SoundJob
    BY <1>1, <2>1, <2>2 DEF SoundJob, Job
  <2>5. torn' \in BOOLEAN
    BY <1>2 DEF PullPrices
  <2>6. left' \in Budget
    BY <1>2, SpendType DEF PullPrices, GhostsOK
  <2> HIDE DEF j
  <2> QED BY <1>1, <1>2, <2>3, <2>4, <2>5, <2>6, DeskStep
          DEF PullPrices, stores, StoresOK, RowsOK, GhostsOK
<1>3. ASSUME NEW saved \in BOOLEAN, ApplyPull(saved) PROVE TypeInv'
  <2>1. desk' = [desk EXCEPT ![Server] = [desk[Server] EXCEPT !.at = "db"]]
    BY <1>3 DEF ApplyPull
  <2>2. [desk[Server] EXCEPT !.at = "db"] \in SoundJob /\ desk[Server].want \in Wanted
    BY <1>1, <1>3 DEF SoundJob, Job, ApplyPull
  <2>3. site' \in Site
    BY <1>3, <2>2, LaidType DEF ApplyPull, StoresOK, Site
  <2>4. file' \in Site
    BY <1>3, <2>3 DEF ApplyPull, StoresOK
  <2>5. commands' \in Seq(Wanted) /\ Len(commands') <= QueueCap
    <3>1. CASE Len(commands) < QueueCap
      BY <1>3, <2>2, <3>1, QueueCapAssumption DEF ApplyPull, StoresOK
    <3>2. CASE ~(Len(commands) < QueueCap)
      BY <1>3, <3>2 DEF ApplyPull, StoresOK
    <3> QED BY <3>1, <3>2
  <2>6. torn' \in BOOLEAN
    BY <1>3 DEF ApplyPull, GhostsOK
  <2>7. left' \in Budget
    BY <1>3, SpendType DEF ApplyPull, GhostsOK
  <2> QED BY <1>1, <1>3, <2>1, <2>2, <2>3, <2>4, <2>5, <2>6, <2>7, DeskStep
          DEF ApplyPull, StoresOK, RowsOK, GhostsOK
<1>4. ASSUME NEW n \in Nozzle, PullSkips(n) PROVE TypeInv'
  <2>1. desk' = [desk EXCEPT ![Server] = [desk[Server] EXCEPT !.todo = @ \ {n}]]
    BY <1>4 DEF PullSkips
  <2>2. [desk[Server] EXCEPT !.todo = @ \ {n}] \in SoundJob
    BY <1>1 DEF SoundJob, Job
  <2>3. left' \in Budget
    BY <1>4, SpendType DEF PullSkips, GhostsOK
  <2> QED BY <1>1, <1>4, <2>1, <2>2, <2>3, DeskStep
          DEF PullSkips, stores, StoresOK, RowsOK, GhostsOK
<1> QED BY <1>2, <1>3, <1>4 DEF Pull

(* The lanes keep the types when they take a command or read the database. *)
LEMMA LanesKeep ==
    ASSUME TypeInv, LanesTake \/ LanesReread
    PROVE  TypeInv'
<1> USE DEF TypeInv
<1>1. CASE LanesTake
  <2>1. Head(commands) \in Wanted /\ Tail(commands) \in Seq(Wanted)
        /\ Len(Tail(commands)) <= QueueCap
    BY <1>1, QueueCapAssumption DEF LanesTake, StoresOK
  <2>2. lane' \in [Nozzle -> Price]
    BY <1>1, <2>1, LaidType DEF LanesTake, StoresOK
  <2> QED BY <1>1, <2>1, <2>2 DEF LanesTake, ghosts, StoresOK, DeskOK, RowsOK, GhostsOK
<1>2. CASE LanesReread
  BY <1>2 DEF LanesReread, ghosts, StoresOK, DeskOK, RowsOK, GhostsOK
<1> QED BY <1>1, <1>2

(* An edit of the tank section keeps the types. *)
LEMMA EditKeeps ==
    ASSUME TypeInv, NEW t \in Tanks, EditTanks(t)
    PROVE  TypeInv'
<1> USE DEF TypeInv
<1>1. site' \in Site /\ file' \in Site
  BY DEF EditTanks, StoresOK, Site
<1>2. torn' \in BOOLEAN
  BY DEF EditTanks
<1>3. left' \in Budget
  BY SpendType DEF EditTanks, GhostsOK
<1> QED BY <1>1, <1>2, <1>3 DEF EditTanks, StoresOK, DeskOK, RowsOK, GhostsOK

(* A restart keeps the types. *)
LEMMA CrashKeeps ==
    ASSUME TypeInv, Crash
    PROVE  TypeInv'
<1> USE DEF TypeInv
<1>1. DeskOK'
  BY RestType DEF Crash, Restart, DeskOK
<1>2. site' \in Site /\ lane' \in [Nozzle -> Price]
  BY DEF Crash, Restart, Overlaid, StoresOK, Site
<1>3. commands' \in Seq(Wanted) /\ Len(commands') <= QueueCap
  BY QueueCapAssumption DEF Crash, Restart
<1>4. torn' \in BOOLEAN
  BY DEF Crash
<1>5. left' \in Budget
  BY SpendType DEF Crash, GhostsOK
<1> QED BY <1>1, <1>2, <1>3, <1>4, <1>5 DEF Crash, Restart, StoresOK, RowsOK, GhostsOK

(* The gauge and the courier leave prices, requests and changes alone. *)
LEMMA GaugeFrame ==
    ASSUME TypeInv, Gauge \/ Deliver
    PROVE  UNCHANGED Unpriced /\ TypeInv'
<1> USE DEF TypeInv
<1>1. UNCHANGED left \/ Spend("errors") \/ Spend("rounds")
  BY DEF Gauge, Deliver, Catalog, BeginRound, ReadBranch, Persist, Pick, Arrive, PostFails,
         DeleteSent, priceVars
<1>2. left' \in Budget
  BY <1>1, SpendType DEF GhostsOK
<1>3. UNCHANGED Unpriced
  BY DEF Gauge, Deliver, Catalog, BeginRound, ReadBranch, Persist, Pick, Arrive, PostFails,
         DeleteSent, priceVars, Unpriced
<1> QED BY <1>2, <1>3 DEF Unpriced, stores, ghosts, StoresOK, DeskOK, RowsOK, GhostsOK

(* The types hold at first. *)
LEMMA InitTypes ==
    ASSUME TankInit
    PROVE  TypeInv
<1> USE DEF TankInit, Init
<1>1. PICK p \in Price, t \in Tanks :
          /\ db = [n \in Nozzle |-> p]
          /\ site = [price |-> db, tanks |-> t] /\ file = site /\ lane = db
          /\ asked = t
          /\ plan = [c \in Change |-> [status |-> "NONE", price |-> p, due |-> FALSE]]
  OBVIOUS
<1>2. StoresOK
  BY <1>1, QueueCapAssumption DEF StoresOK, Site
<1>3. DeskOK
  BY RestType DEF DeskOK
<1>4. RowsOK
  BY <1>1 DEF RowsOK, Plan, Status
<1>5. GhostsOK
  BY <1>1, BudgetsAssumption DEF GhostsOK
<1> QED BY <1>2, <1>3, <1>4, <1>5 DEF TypeInv

(* Every step keeps the types. *)
LEMMA NextKeeps ==
    ASSUME TypeInv, [Next]_vars
    PROVE  TypeInv'
<1>1. CASE PriceStep
  BY <1>1, ProceedKeeps, FailsKeeps, MarkKeeps, ScheduleKeeps, RequestKeeps, PullKeeps, LanesKeep
     DEF PriceStep
<1>2. CASE \E t \in Tanks : Edit(t)
  BY <1>2, EditKeeps DEF Edit
<1>3. CASE CrashAll
  BY <1>3, CrashKeeps DEF CrashAll
<1>4. CASE UNCHANGED vars
  BY <1>4 DEF vars, priceVars, stores, ghosts, TypeInv, StoresOK, DeskOK, RowsOK, GhostsOK
<1> QED BY <1>1, <1>2, <1>3, <1>4, GaugeFrame DEF Next

(* The stores of the office keep their types: every copy of the prices has a   *)
(* price for every nozzle, the queue of the lanes is never over its room, and  *)
(* a change in progress holds a whole copy whenever it is about to save it.    *)
THEOREM OfficeTypes == Spec => []TypeOK
<1>1. TypeInv => TypeOK
  <2>1. SoundJob \subseteq Job
    BY DEF SoundJob
  <2> QED BY <2>1 DEF TypeInv, TypeOK, StoresOK, DeskOK, RowsOK, GhostsOK
<1> QED BY <1>1, InitTypes, NextKeeps, PTL DEF Spec

----------------------------------------------------------------------------
(* What becomes of a scheduled price. ScheduleKept alone does not survive a    *)
(* step: that a command is sent once follows from where the change is before   *)
(* it is sent, with the scheduler, either waiting for its turn or in progress. *)

(* Only the scheduler has scheduled changes in hand, and only while it works.  *)
HandsSound ==
    /\ desk[Scheduler].kind = "prices"
    /\ \A w \in Writer : desk[w].change # None => w = Scheduler /\ desk[w].at # "rest"

(* A change in hand is marked, not sent, and in hand once. *)
InHandSound(c) ==
    /\ InHand(c) => plan[c].status = "APPLIED" /\ pushed[c] = 0
    /\ desk[Scheduler].change = c => c \notin desk[Scheduler].due

ScheduleInv == HandsSound /\ (\A c \in Change : InHandSound(c)) /\ ScheduleKept

(* What the invariant is about. *)
Hands == <<desk[Scheduler].due, desk[Scheduler].change, desk[Scheduler].kind>>

(* A step that leaves the rows and the scheduler's hands alone keeps it. *)
LEMMA ScheduleFrame ==
    ASSUME ScheduleInv, UNCHANGED <<plan, pushed, cut, unmarked>>, UNCHANGED Hands, HandsSound'
    PROVE  ScheduleInv'
BY DEF ScheduleInv, ScheduleKept, InHandSound, InHand, Hands

(* Writers other than the scheduler may do what they like, but not rest with a *)
(* change: they have none.                                                     *)
LEMMA OthersKeep ==
    ASSUME TypeInv, ScheduleInv, UNCHANGED <<plan, pushed, cut, unmarked>>, NEW w \in Writer \ {Scheduler},
           \A v \in Writer \ {w} : desk'[v] = desk[v], desk'[w].change = None
    PROVE  ScheduleInv'
<1>1. Scheduler \in Writer
  BY DEF Writer
<1>2. HandsSound'
  BY <1>1 DEF ScheduleInv, HandsSound
<1> QED BY <1>1, <1>2, ScheduleFrame DEF Hands

(* A step of a writer that is only about its job's progress. *)
LEMMA ProgressKeeps ==
    ASSUME TypeInv, ScheduleInv, UNCHANGED <<plan, pushed, cut, unmarked>>, NEW w \in Writer,
           \A v \in Writer \ {w} : desk'[v] = desk[v],
           desk'[w].change = desk[w].change, desk'[w].due = desk[w].due,
           desk'[w].kind = desk[w].kind, desk'[w].at # "rest"
    PROVE  ScheduleInv'
<1>1. Scheduler \in Writer
  BY DEF Writer
<1>2. HandsSound'
  BY <1>1 DEF ScheduleInv, HandsSound
<1>3. UNCHANGED Hands
  BY <1>1 DEF Hands
<1> QED BY <1>2, <1>3, ScheduleFrame

(* The scheduler that is done holds nothing but what waits. *)
LEMMA DoneHands ==
    ASSUME TypeInv, ScheduleInv, NEW w \in Writer, Done(w)
    PROVE  /\ HandsSound'
           /\ desk'[Scheduler].due = desk[Scheduler].due
           /\ desk'[Scheduler].change = IF w = Scheduler THEN None ELSE desk[Scheduler].change
<1>1. Scheduler \in Writer /\ desk[w].due \in SUBSET Change
  BY DEF Writer, TypeInv, DeskOK, SoundJob, Job
<1>2. /\ desk'[w] = Rest(desk[w].due) /\ Rest(desk[w].due).due = desk[w].due
      /\ Rest(desk[w].due).change = None /\ Rest(desk[w].due).kind = "prices"
      /\ \A v \in Writer \ {w} : desk'[v] = desk[v]
  BY <1>1, RestType, DoneStep DEF TypeInv
<1> QED BY <1>1, <1>2 DEF ScheduleInv, HandsSound

(* A step of a change that is being made: it may send the scheduler's command. *)
LEMMA ProceedSchedule ==
    ASSUME TypeInv, ScheduleInv, NEW w \in Writer, Proceed(w)
    PROVE  ScheduleInv'
<1>1. desk \in [Writer -> Job] /\ desk[w] \in Job /\ Scheduler \in Writer
  BY DEF TypeInv, DeskOK, SoundJob, Writer
<1>2. ASSUME NEW n \in Nozzle, WritePrice(w, n) PROVE ScheduleInv'
  BY <1>1, <1>2, ProgressKeeps DEF WritePrice, ghosts, Job
<1>3. CASE WriteCatalog(w)
  BY <1>1, <1>3, ProgressKeeps DEF WriteCatalog, ghosts, Job
<1>4. CASE Written(w) /\ desk[w].kind # "pull"
  BY <1>1, <1>4, ProgressKeeps DEF Written, ghosts, Job
<1>5. CASE Written(w) /\ desk[w].kind = "pull"
  <2>1. w # Scheduler
    BY <1>5 DEF ScheduleInv, HandsSound
  <2> QED BY <1>5, <2>1, DoneHands, ScheduleFrame, <1>1, DoneStep
          DEF Written, ghosts, Hands, TypeInv
<1>6. CASE SaveFile(w)
  BY <1>1, <1>6, ProgressKeeps DEF SaveFile, ghosts, Job
<1>7. CASE Swap(w)
  BY <1>1, <1>7, ProgressKeeps DEF Swap, ghosts, Job
<1>8. CASE SyncLanes(w)
  <2>1. w # Scheduler
    BY <1>8 DEF ScheduleInv, HandsSound, SyncLanes
  <2> QED BY <1>8, <2>1, DoneHands, ScheduleFrame, <1>1, DoneStep
          DEF SyncLanes, ghosts, Hands, TypeInv
<1>9. CASE SendPrices(w)
  <2>1. CASE w # Scheduler
    <3>1. desk[w].change = None
      BY <2>1 DEF ScheduleInv, HandsSound
    <3> QED BY <1>9, <2>1, <3>1, DoneHands, ScheduleFrame, <1>1, DoneStep
            DEF SendPrices, Hands, TypeInv
  <2>2. CASE w = Scheduler
    <3> DEFINE c == desk[w].change
    <3>1. HandsSound' /\ desk'[Scheduler].due = desk[Scheduler].due
          /\ desk'[Scheduler].change = None
      BY <1>9, <2>2, DoneHands DEF SendPrices
    <3>2. CASE c = None
      BY <1>9, <2>2, <3>1, <3>2
         DEF SendPrices, ScheduleInv, ScheduleKept, InHandSound, InHand
    <3>3. CASE c # None
      <4>1. c \in Change /\ InHandSound(c) /\ InHand(c)
        BY <1>1, <2>2, <3>3 DEF Job, ScheduleInv, InHand
      <4>2. plan[c].status = "APPLIED" /\ pushed[c] = 0 /\ c \notin desk[Scheduler].due
        BY <2>2, <4>1 DEF InHandSound
      <4>3. pushed' = [pushed EXCEPT ![c] = 1]
        BY <1>9, <3>3, <4>1, <4>2 DEF SendPrices
      <4> HIDE DEF c
      <4>4. c = desk[Scheduler].change
        BY <2>2 DEF c
      <4> QED BY <1>9, <3>1, <4>1, <4>2, <4>3, <4>4, NoneAssumption
              DEF SendPrices, ScheduleInv, ScheduleKept, InHandSound, InHand, TypeInv, RowsOK
    <3> QED BY <3>2, <3>3
  <2> QED BY <2>1, <2>2
<1> QED BY <1>2, <1>3, <1>4, <1>5, <1>6, <1>7, <1>8, <1>9 DEF Proceed

(* A change that fails stays in hand, until its row is marked. *)
LEMMA FailsSchedule ==
    ASSUME TypeInv, ScheduleInv, NEW w \in Writer, Fails(w)
    PROVE  ScheduleInv'
<1>1. desk \in [Writer -> Job] /\ desk[w] \in Job
  BY DEF TypeInv, DeskOK, SoundJob
<1>2. CASE desk[w].change = None
  <2>1. /\ HandsSound' /\ desk'[Scheduler].due = desk[Scheduler].due
        /\ desk'[Scheduler].change = desk[Scheduler].change
    BY <1>2, DoneHands DEF Fails
  <2> QED BY <2>1 DEF Fails, ScheduleInv, ScheduleKept, InHandSound, InHand
<1>3. CASE desk[w].change # None
  BY <1>1, <1>3, ProgressKeeps DEF Fails, Job
<1> QED BY <1>2, <1>3

(* Once it is, or that failed too, it no longer is. *)
LEMMA MarkSchedule ==
    ASSUME TypeInv, ScheduleInv, NEW c \in Change, MarkFailed(c) \/ MarkFails(c)
    PROVE  ScheduleInv'
<1>1. /\ HandsSound' /\ desk'[Scheduler].due = desk[Scheduler].due
      /\ desk'[Scheduler].change = None /\ desk[Scheduler].change = c
  BY DoneHands DEF MarkFailed, MarkFails, Marking, Writer
<1>2. plan[c].status = "APPLIED" /\ pushed[c] = 0 /\ c \notin desk[Scheduler].due
  BY <1>1 DEF ScheduleInv, InHandSound, InHand
<1>3. CASE MarkFailed(c)
  <2>1. /\ plan'[c].status = "FAILED" /\ UNCHANGED <<pushed, cut, unmarked>>
        /\ \A d \in Change \ {c} : plan'[d] = plan[d]
    BY <1>3 DEF MarkFailed, ghosts, TypeInv, RowsOK, Plan
  <2> QED BY <1>1, <1>2, <2>1, NoneAssumption
          DEF ScheduleInv, ScheduleKept, InHandSound, InHand
<1>4. CASE MarkFails(c)
  BY <1>1, <1>2, <1>4, NoneAssumption
     DEF MarkFails, ScheduleInv, ScheduleKept, InHandSound, InHand
<1> QED BY <1>3, <1>4

(* A claim takes pending changes in hand; one of them becomes the one in       *)
(* progress.                                                                   *)
LEMMA ScheduleSchedule ==
    ASSUME TypeInv, ScheduleInv, Schedule
    PROVE  ScheduleInv'
<1>1. Scheduler \in Writer /\ desk \in [Writer -> Job] /\ desk[Scheduler] \in Job
  BY DEF Writer, TypeInv, DeskOK, SoundJob
<1>2. CASE ClaimDue
  <2> DEFINE claimed == {c \in Change : plan[c].status = "PENDING" /\ plan[c].due}
  <2>1. /\ desk[Scheduler].change = None /\ desk[Scheduler].due = {}
        /\ desk'[Scheduler].due = claimed /\ desk'[Scheduler].change = None
        /\ HandsSound'
    BY <1>1, <1>2 DEF ClaimDue, Busy, ScheduleInv, HandsSound, Job
  <2>2. \A c \in Change :
            /\ c \in claimed => plan[c].status = "PENDING" /\ plan'[c].status = "APPLIED"
            /\ c \notin claimed => plan'[c] = plan[c]
    BY <1>2 DEF ClaimDue, TypeInv, RowsOK, Plan
  <2>3. UNCHANGED <<pushed, cut, unmarked>>
    BY <1>2 DEF ClaimDue, ghosts
  <2>4. \A c \in Change : plan[c].status = "PENDING" => pushed[c] = 0
    BY DEF ScheduleInv, ScheduleKept, TypeInv, RowsOK
  <2> HIDE DEF claimed
  <2> QED BY <2>1, <2>2, <2>3, <2>4, NoneAssumption
          DEF ScheduleInv, ScheduleKept, InHandSound, InHand
<1>3. ASSUME NEW c \in Change, ApplyScheduled(c) PROVE ScheduleInv'
  <2>1. /\ desk[Scheduler].change = None /\ c \in desk[Scheduler].due
        /\ desk'[Scheduler].due = desk[Scheduler].due \ {c}
        /\ desk'[Scheduler].change = c /\ desk'[Scheduler].kind = "prices"
        /\ desk'[Scheduler].at = "db"
        /\ \A v \in Writer \ {Scheduler} : desk'[v] = desk[v]
    BY <1>1, <1>3 DEF ApplyScheduled, Busy, ScheduleInv, HandsSound, Job
  <2>2. HandsSound'
    BY <2>1 DEF ScheduleInv, HandsSound
  <2>3. UNCHANGED <<plan, pushed, cut, unmarked>>
    BY <1>3 DEF ApplyScheduled
  <2> QED BY <2>1, <2>2, <2>3, NoneAssumption
          DEF ScheduleInv, ScheduleKept, InHandSound, InHand
<1> QED BY <1>2, <1>3, MarkSchedule DEF Schedule

(* Administrators create and cancel changes that are not in hand. *)
LEMMA RequestSchedule ==
    ASSUME TypeInv, ScheduleInv, Request
    PROVE  ScheduleInv'
<1>1. \A a \in Admin : a \in Writer \ {Scheduler}
  BY AdminAssumption DEF Writer
<1>2. ASSUME NEW a \in Admin, NEW want \in Wanted, RequestPrices(a, want) PROVE ScheduleInv'
  <2>1. desk'[a].change = desk[a].change /\ \A v \in Writer \ {a} : desk'[v] = desk[v]
    BY <1>1, <1>2, SnapshotStep DEF RequestPrices, TypeInv
  <2>2. desk[a].change = None
    BY <1>1 DEF ScheduleInv, HandsSound
  <2> QED BY <1>1, <1>2, <2>1, <2>2, OthersKeep DEF RequestPrices
<1>3. ASSUME NEW a \in Admin, NEW want \in [Nozzle -> Price], RequestCatalog(a, want)
      PROVE  ScheduleInv'
  <2>1. want \in Wanted
    BY WantedType
  <2>2. desk'[a].change = desk[a].change /\ \A v \in Writer \ {a} : desk'[v] = desk[v]
    BY <1>1, <1>3, <2>1, SnapshotStep DEF RequestCatalog, TypeInv
  <2>3. desk[a].change = None
    BY <1>1 DEF ScheduleInv, HandsSound
  <2> QED BY <1>1, <1>3, <2>2, <2>3, OthersKeep DEF RequestCatalog
<1>4. ASSUME NEW c \in Change, NEW status \in Status \ {"APPLIED"},
             plan[c].status \in {"NONE", "PENDING"}, plan'[c].status = status,
             \A d \in Change \ {c} : plan'[d] = plan[d],
             UNCHANGED <<desk, pushed, cut, unmarked>>
      PROVE  ScheduleInv'
  <2>1. ~InHand(c) /\ pushed[c] = 0
    BY <1>4 DEF ScheduleInv, InHandSound, ScheduleKept, TypeInv, RowsOK
  <2> QED BY <1>4, <2>1 DEF ScheduleInv, HandsSound, ScheduleKept, InHandSound, InHand
<1>5. ASSUME NEW c \in Change, NEW p \in Price, CreateScheduled(c, p) PROVE ScheduleInv'
  BY <1>4, <1>5 DEF CreateScheduled, ghosts, TypeInv, RowsOK, Status
<1>6. ASSUME NEW c \in Change, CancelScheduled(c) PROVE ScheduleInv'
  BY <1>4, <1>6 DEF CancelScheduled, ghosts, TypeInv, RowsOK, Status, Plan
<1>7. ASSUME NEW c \in Change, FallsDue(c) PROVE ScheduleInv'
  <2>1. \A d \in Change : plan'[d].status = plan[d].status
    BY <1>7 DEF FallsDue, TypeInv, RowsOK, Plan
  <2> QED BY <1>7, <2>1
          DEF FallsDue, ghosts, ScheduleInv, HandsSound, ScheduleKept, InHandSound, InHand
<1>8. ASSUME NEW want \in Wanted, OperatorPrices(want) PROVE ScheduleInv'
  BY <1>8 DEF OperatorPrices, ScheduleInv, HandsSound, ScheduleKept, InHandSound, InHand
<1> QED BY <1>2, <1>3, <1>5, <1>6, <1>7, <1>8 DEF Request

(* The pull works for the backend, with no scheduled change. *)
LEMMA PullSchedule ==
    ASSUME TypeInv, ScheduleInv, Pull
    PROVE  ScheduleInv'
<1>1. Server \in Writer \ {Scheduler} /\ desk \in [Writer -> Job] /\ desk[Server] \in Job
  BY DEF Writer, TypeInv, DeskOK, SoundJob, Server, Scheduler
<1>2. desk[Server].change = None
  BY <1>1 DEF ScheduleInv, HandsSound
<1>3. /\ UNCHANGED <<plan, pushed, cut, unmarked>>
      /\ desk'[Server].change = desk[Server].change
      /\ \A v \in Writer \ {Server} : desk'[v] = desk[v]
  <2>1. ASSUME NEW remote \in Wanted, PullPrices(remote)
        PROVE  /\ UNCHANGED <<plan, pushed, cut, unmarked>>
               /\ desk'[Server].change = desk[Server].change
               /\ \A v \in Writer \ {Server} : desk'[v] = desk[v]
    BY <1>1, <2>1 DEF PullPrices, Job
  <2>2. ASSUME NEW saved \in BOOLEAN, ApplyPull(saved)
        PROVE  /\ UNCHANGED <<plan, pushed, cut, unmarked>>
               /\ desk'[Server].change = desk[Server].change
               /\ \A v \in Writer \ {Server} : desk'[v] = desk[v]
    BY <1>1, <2>2 DEF ApplyPull, Job
  <2>3. ASSUME NEW n \in Nozzle, PullSkips(n)
        PROVE  /\ UNCHANGED <<plan, pushed, cut, unmarked>>
               /\ desk'[Server].change = desk[Server].change
               /\ \A v \in Writer \ {Server} : desk'[v] = desk[v]
    BY <1>1, <2>3 DEF PullSkips, Job
  <2> QED BY <2>1, <2>2, <2>3 DEF Pull
<1> QED BY <1>1, <1>2, <1>3, OthersKeep

(* A restart empties the scheduler's hands, and notes what it held. *)
LEMMA CrashSchedule ==
    ASSUME TypeInv, ScheduleInv, Crash
    PROVE  ScheduleInv'
<1>1. \A w \in Writer : desk'[w].change = None /\ desk'[w].kind = "prices" /\ desk'[w].due = {}
  BY RestType DEF Crash, Restart
<1>2. Scheduler \in Writer
  BY DEF Writer
<1>3. HandsSound' /\ \A c \in Change : ~InHand(c)'
  BY <1>1, <1>2, NoneAssumption DEF HandsSound, InHand
<1>4. UNCHANGED <<plan, pushed, unmarked>> /\ cut' = cut \cup {c \in Change : InHand(c)}
  BY DEF Crash, Restart
<1>5. \A c \in Change : InHandSound(c)'
  BY <1>1, <1>2, <1>3, NoneAssumption DEF InHandSound
<1> QED BY <1>3, <1>4, <1>5 DEF ScheduleInv, ScheduleKept

(* Nothing is scheduled at first. *)
LEMMA InitSchedule ==
    ASSUME TankInit
    PROVE  ScheduleInv
<1>1. \A w \in Writer : desk[w].change = None /\ desk[w].kind = "prices" /\ desk[w].due = {}
  BY RestType DEF TankInit, Init
<1>2. Scheduler \in Writer
  BY DEF Writer
<1>3. \A c \in Change : plan[c].status = "NONE" /\ pushed[c] = 0
  BY DEF TankInit, Init
<1> QED BY <1>1, <1>2, <1>3, NoneAssumption
        DEF ScheduleInv, HandsSound, InHandSound, InHand, ScheduleKept

(* Every step keeps the hands sound. *)
LEMMA NextSchedule ==
    ASSUME TypeInv, ScheduleInv, [Next]_vars
    PROVE  ScheduleInv'
<1>1. ASSUME UNCHANGED <<plan, desk, pushed, cut, unmarked>> PROVE ScheduleInv'
  BY <1>1 DEF ScheduleInv, HandsSound, ScheduleKept, InHandSound, InHand
<1>2. CASE PriceStep
  <2>1. CASE LanesTake \/ LanesReread
    BY <1>1, <2>1 DEF LanesTake, LanesReread, ghosts
  <2> QED BY <1>2, <2>1, ProceedSchedule, FailsSchedule, MarkSchedule, ScheduleSchedule, RequestSchedule,
             PullSchedule DEF PriceStep
<1>3. CASE Gauge \/ Deliver
  BY <1>1, <1>3, GaugeFrame DEF Unpriced, ghosts
<1>4. CASE \E t \in Tanks : Edit(t)
  BY <1>1, <1>4 DEF Edit, EditTanks
<1>5. CASE CrashAll
  BY <1>5, CrashSchedule DEF CrashAll
<1>6. CASE UNCHANGED vars
  BY <1>1, <1>6 DEF vars, priceVars, ghosts
<1> QED BY <1>2, <1>3, <1>4, <1>5, <1>6 DEF Next

(* A scheduled price is sent to the lanes at most once, and never one that is  *)
(* cancelled or failed; one that is marked as applied was sent, or is in the   *)
(* scheduler's hands, unless the program died with it there: for any number of *)
(* changes and administrators, whatever fails and whenever it restarts.        *)
THEOREM ScheduleIsKept == Spec => []ScheduleKept
<1>1. TypeInv /\ ScheduleInv /\ [Next]_vars => (TypeInv /\ ScheduleInv)'
  BY NextKeeps, NextSchedule
<1>2. TankInit => TypeInv /\ ScheduleInv
  BY InitTypes, InitSchedule
<1>3. ScheduleInv => ScheduleKept
  BY DEF ScheduleInv
<1> QED BY <1>1, <1>2, <1>3, PTL DEF Spec

----------------------------------------------------------------------------
(* The gauge: its layouts and catalogs. *)

Entry == [kind : {"catalog", "reading"}, of : Tanks]

GaugeOK ==
    /\ levels \in [Branch -> Level \cup {None}] /\ known \in Tanks \cup {None}
    /\ rows \in Seq(Entry)
    /\ round \in [at : {"rest", "read"}, of : Tanks \cup {None}, open : SUBSET Branch,
                  read : SUBSET Branch, number : Nat]
    /\ round.at = "read" => round.of \in Tanks /\ round.of = known

(* The last catalog that was stored, if there is any, is at j. *)
LastCatalog(j) ==
    /\ j \in DOMAIN rows /\ rows[j].kind = "catalog"
    /\ \A k \in j .. Len(rows) : rows[k].kind = "catalog" => k = j

(* CatalogFirst does not survive a reading by itself: the layout the loop      *)
(* knows is that of the last catalog, and a round is of the layout it knows.   *)
CatalogInv ==
    /\ CatalogFirst
    /\ known # None => \E j \in DOMAIN rows : LastCatalog(j) /\ rows[j].of = known

(* Steps that are not the gauge's leave it alone. *)
LEMMA OtherSteps ==
    ASSUME [Next]_vars
    PROVE  \/ UNCHANGED gaugeVars
           \/ \E durable \in BOOLEAN : Catalog(durable)
           \/ BeginRound \/ Persist
           \/ \E b \in Branch, ok \in BOOLEAN : ReadBranch(b, ok)
           \/ \E t \in Tanks : Edit(t)
           \/ CrashAll
BY DEF Next, Gauge, Deliver, Pick, Arrive, PostFails, DeleteSent, vars

(* The layout in force is one of the layouts. *)
LEMMA SiteTanks == TypeInv => site.tanks \in Tanks
BY DEF TypeInv, StoresOK, Site

(* What an appended entry makes of the rows. *)
LEMMA Appended ==
    ASSUME NEW s \in Seq(Entry), NEW e \in Entry
    PROVE  /\ Append(s, e) \in Seq(Entry)
           /\ Len(s) \in Nat /\ DOMAIN s = 1 .. Len(s) /\ \A i \in DOMAIN s : s[i] \in Entry
           /\ Len(Append(s, e)) = Len(s) + 1 /\ DOMAIN Append(s, e) = 1 .. Len(s) + 1
           /\ Append(s, e)[Len(s) + 1] = e
           /\ \A i \in 1 .. Len(s) : Append(s, e)[i] = s[i]
OBVIOUS

(* Every step keeps the types of the gauge. *)
LEMMA GaugeTypes ==
    ASSUME TypeInv, GaugeOK, [Next]_vars
    PROVE  GaugeOK'
<1> USE DEF GaugeOK
<1>1. CASE UNCHANGED gaugeVars
  BY <1>1 DEF gaugeVars
<1>2. ASSUME NEW durable \in BOOLEAN, Catalog(durable) PROVE GaugeOK'
  <2>1. [kind |-> "catalog", of |-> site.tanks] \in Entry
    BY SiteTanks DEF Entry
  <2>2. rows' \in Seq(Entry) /\ known' \in Tanks \cup {None}
    <3>1. CASE durable
      <4>1. /\ rows' = Append(rows, [kind |-> "catalog", of |-> site.tanks])
            /\ known' = site.tanks
        BY <1>2, <3>1 DEF Catalog
      <4> QED BY <2>1, <4>1, SiteTanks, Appended
    <3>2. CASE ~durable
      BY <1>2, <3>2 DEF Catalog
    <3> QED BY <3>1, <3>2
  <2>3. levels' \in [Branch -> Level \cup {None}]
    BY <1>2 DEF Catalog
  <2> QED BY <1>2, <2>2, <2>3 DEF Catalog
<1>3. CASE BeginRound
  <2>1. left.rounds \in Nat
    BY DEF TypeInv, GhostsOK, Budget
  <2> QED BY <1>3, <2>1, SiteTanks DEF BeginRound
<1>4. CASE Persist
  <2>1. round.of \in Tanks
    BY <1>4 DEF Persist
  <2>2. [kind |-> "reading", of |-> round.of] \in Entry
    BY <2>1 DEF Entry
  <2>3. rows' \in Seq(Entry)
    BY <1>4, <2>2, Appended DEF Persist
  <2> QED BY <1>4, <2>3 DEF Persist, NoRound
<1>5. ASSUME NEW b \in Branch, NEW ok \in BOOLEAN, ReadBranch(b, ok) PROVE GaugeOK'
  <2>1. CASE site.tanks = round.of
    <3>1. levels' \in [Branch -> Level \cup {None}]
      <4>1. CASE ok \/ levels[b] = None
        <5>1. [of |-> round.of, error |-> ~ok] \in Level
          BY <1>5 DEF ReadBranch, Level
        <5> QED BY <1>5, <2>1, <4>1, <5>1 DEF ReadBranch, Seen
      <4>2. CASE ~(ok \/ levels[b] = None)
        <5>1. levels[b] \in Level
          BY <4>2
        <5>2. [levels[b] EXCEPT !.error = TRUE] \in Level
          BY <5>1 DEF Level
        <5> QED BY <1>5, <2>1, <4>2, <5>2 DEF ReadBranch, Seen
      <4> QED BY <4>1, <4>2
    <3>2. round' = [round EXCEPT !.open = @ \ {b}, !.read = IF ok THEN @ \cup {b} ELSE @]
          /\ UNCHANGED <<known, rows>>
      BY <1>5, <2>1 DEF ReadBranch
    <3> QED BY <3>1, <3>2
  <2>2. CASE site.tanks # round.of
    BY <1>5, <2>2 DEF ReadBranch, NoRound
  <2> QED BY <2>1, <2>2
<1>6. ASSUME NEW t \in Tanks, Edit(t) PROVE GaugeOK'
  BY <1>6 DEF Edit
<1>7. CASE CrashAll
  BY <1>7 DEF CrashAll, NoRound
<1> QED BY <1>1, <1>2, <1>3, <1>4, <1>5, <1>6, <1>7, OtherSteps

(* The gauge is well formed at first. *)
LEMMA GaugeInit ==
    ASSUME TankInit
    PROVE  GaugeOK /\ CatalogInv
<1>1. GaugeOK
  BY DEF TankInit, GaugeOK, NoRound
<1>2. CatalogInv
  BY DEF TankInit, CatalogInv, CatalogFirst
<1> QED BY <1>1, <1>2

(* A reading after the last catalog of its layout keeps the order. *)
LEMMA ReadingKeeps ==
    ASSUME GaugeOK, CatalogInv, known # None,
           rows' = Append(rows, [kind |-> "reading", of |-> known]), UNCHANGED known
    PROVE  CatalogInv'
<1>1. PICK j \in DOMAIN rows : LastCatalog(j) /\ rows[j].of = known
  BY DEF CatalogInv
<1>2. /\ Len(rows') = Len(rows) + 1 /\ DOMAIN rows' = 1 .. Len(rows')
      /\ \A i \in 1 .. Len(rows) : rows'[i] = rows[i]
      /\ rows'[Len(rows')] = [kind |-> "reading", of |-> known]
      /\ DOMAIN rows = 1 .. Len(rows) /\ Len(rows) \in Nat
      /\ \A i \in DOMAIN rows : rows[i] \in Entry
  <2>1. rows \in Seq(Entry) /\ [kind |-> "reading", of |-> known] \in Entry
    BY DEF GaugeOK, Entry
  <2> QED BY <2>1, Appended
<1>3. rows[j] = [kind |-> "catalog", of |-> known]
  BY <1>1, <1>2 DEF LastCatalog, Entry
<1>4. LastCatalog(j)'
  BY <1>1, <1>2 DEF LastCatalog
<1>5. CatalogFirst'
  <2> SUFFICES ASSUME NEW i \in DOMAIN rows', rows'[i].kind = "reading"
               PROVE  \E m \in 1 .. (i - 1) :
                          /\ rows'[m] = [kind |-> "catalog", of |-> rows'[i].of]
                          /\ \A k \in m .. i : rows'[k].kind = "catalog" => k = m
    BY DEF CatalogFirst
  <2>1. CASE i \in DOMAIN rows
    <3>1. PICK m \in 1 .. (i - 1) :
              /\ rows[m] = [kind |-> "catalog", of |-> rows[i].of]
              /\ \A k \in m .. i : rows[k].kind = "catalog" => k = m
      BY <1>2, <2>1 DEF CatalogInv, CatalogFirst
    <3> QED BY <1>2, <2>1, <3>1
  <2>2. CASE i = Len(rows')
    <3>1. j \in 1 .. (i - 1) /\ rows'[j] = [kind |-> "catalog", of |-> rows'[i].of]
      BY <1>2, <1>3, <2>2
    <3>2. \A k \in j .. i : rows'[k].kind = "catalog" => k = j
      BY <1>4, <2>2 DEF LastCatalog
    <3> QED BY <3>1, <3>2
  <2> QED BY <1>2, <2>1, <2>2
<1> QED BY <1>1, <1>2, <1>4, <1>5 DEF CatalogInv

(* A catalog begins the readings of its layout. *)
LEMMA CatalogKeeps ==
    ASSUME GaugeOK, CatalogInv, NEW t \in Tanks,
           rows' = Append(rows, [kind |-> "catalog", of |-> t]), known' = t
    PROVE  CatalogInv'
<1>1. /\ Len(rows') = Len(rows) + 1 /\ DOMAIN rows' = 1 .. Len(rows')
      /\ \A i \in 1 .. Len(rows) : rows'[i] = rows[i]
      /\ rows'[Len(rows')] = [kind |-> "catalog", of |-> t]
      /\ DOMAIN rows = 1 .. Len(rows) /\ Len(rows) \in Nat
  <2>1. rows \in Seq(Entry) /\ [kind |-> "catalog", of |-> t] \in Entry
    BY DEF GaugeOK, Entry
  <2> QED BY <2>1, Appended
<1>2. LastCatalog(Len(rows))' /\ rows'[Len(rows')].of = t
  BY <1>1 DEF LastCatalog
<1>3. CatalogFirst'
  <2> SUFFICES ASSUME NEW i \in DOMAIN rows', rows'[i].kind = "reading"
               PROVE  \E m \in 1 .. (i - 1) :
                          /\ rows'[m] = [kind |-> "catalog", of |-> rows'[i].of]
                          /\ \A k \in m .. i : rows'[k].kind = "catalog" => k = m
    BY DEF CatalogFirst
  <2>1. i \in DOMAIN rows /\ rows[i].kind = "reading"
    BY <1>1
  <2>2. PICK m \in 1 .. (i - 1) :
            /\ rows[m] = [kind |-> "catalog", of |-> rows[i].of]
            /\ \A k \in m .. i : rows[k].kind = "catalog" => k = m
    BY <2>1 DEF CatalogInv, CatalogFirst
  <2> QED BY <1>1, <2>1, <2>2
<1> QED BY <1>1, <1>2, <1>3 DEF CatalogInv

(* Every step keeps the order of catalogs and readings. *)
LEMMA NextCatalogs ==
    ASSUME TypeInv, GaugeOK, CatalogInv, [Next]_vars
    PROVE  CatalogInv'
<1>1. ASSUME UNCHANGED <<rows, known>> PROVE CatalogInv'
  BY <1>1 DEF CatalogInv, CatalogFirst, LastCatalog
<1>2. ASSUME NEW durable \in BOOLEAN, Catalog(durable) PROVE CatalogInv'
  BY <1>1, <1>2, SiteTanks, CatalogKeeps DEF Catalog
<1>3. CASE Persist
  <2>1. known # None /\ round.of = known
    BY <1>3, NoneAssumption DEF Persist, GaugeOK
  <2> QED BY <1>1, <1>3, <2>1, ReadingKeeps DEF Persist
<1>4. CASE CrashAll
  BY <1>4 DEF CrashAll, CatalogInv, CatalogFirst
<1> QED BY <1>1, <1>2, <1>3, <1>4, OtherSteps DEF gaugeVars, BeginRound, ReadBranch, Edit

(* The backend never gets a reading before the catalog of its layout, nor      *)
(* after another catalog: whatever edits, failed writes and restarts come      *)
(* between the two.                                                            *)
THEOREM CatalogsComeFirst == Spec => []CatalogFirst
<1>1. TankInit => TypeInv /\ GaugeOK /\ CatalogInv
  BY InitTypes, GaugeInit
<1>2. TypeInv /\ GaugeOK /\ CatalogInv /\ [Next]_vars => (TypeInv /\ GaugeOK /\ CatalogInv)'
  BY NextKeeps, GaugeTypes, NextCatalogs
<1>3. CatalogInv => CatalogFirst
  BY DEF CatalogInv
<1> QED BY <1>1, <1>2, <1>3, PTL DEF Spec

----------------------------------------------------------------------------
(* The display: while nothing is torn, every copy that is about to replace the *)
(* configuration has the layout in force, and so has every level.              *)

LevelsOf(t) == \A b \in Branch : levels[b] # None => levels[b].of = t

CopiesOf(t) ==
    \A w \in Writer :
        desk[w].at \in {"db", "save", "swap"} /\ desk[w].kind # "pull" => desk[w].snap.tanks = t

(* Pulls are the server's, and the server does nothing else. *)
ServerPulls == desk[Server].at # "rest" => desk[Server].kind = "pull"

LevelsInv == ServerPulls /\ (torn \/ (LevelsOf(site.tanks) /\ CopiesOf(site.tanks)))

(* What is torn stays so, until a restart. *)
TornKept == torn => torn'

(* The copy of w, when it has one, is of the layout in force. *)
OwnCopy(w) ==
    \/ desk'[w].at \notin {"db", "save", "swap"} \/ desk'[w].kind = "pull"
    \/ torn' \/ desk'[w].snap.tanks = site.tanks

(* Steps of writers that leave the tank section and the levels alone. *)
LEMMA LevelsFrame ==
    ASSUME LevelsInv, ServerPulls', UNCHANGED levels, TornKept,
           ~torn' => site'.tanks = site.tanks /\ CopiesOf(site.tanks)'
    PROVE  LevelsInv'
BY DEF LevelsInv, LevelsOf, CopiesOf, TornKept

(* A step of one writer whose copy is none, or of the layout in force. *)
LEMMA CopyStep ==
    ASSUME TypeInv, LevelsInv, NEW w \in Writer, UNCHANGED levels, TornKept,
           site'.tanks = site.tanks, \A v \in Writer \ {w} : desk'[v] = desk[v], OwnCopy(w),
           w = Server /\ desk'[w].at # "rest" => desk'[w].kind = "pull"
    PROVE  LevelsInv'
<1>1. ServerPulls'
  BY DEF LevelsInv, ServerPulls, Writer
<1>2. ~torn' => CopiesOf(site.tanks)'
  BY DEF LevelsInv, CopiesOf, TornKept, OwnCopy
<1> QED BY <1>1, <1>2, LevelsFrame

(* A step of a change that is being made. *)
LEMMA ProceedLevels ==
    ASSUME TypeInv, LevelsInv, NEW w \in Writer, Proceed(w), UNCHANGED levels
    PROVE  LevelsInv'
<1> DEFINE OfSite == torn \/ desk[w].snap.tanks = site.tanks
<1>1. desk \in [Writer -> Job] /\ desk[w] \in SoundJob /\ desk[w] \in Job
  BY DEF TypeInv, DeskOK, SoundJob
<1>2. /\ desk[w].at \in {"db", "save", "swap"} /\ desk[w].kind # "pull" => OfSite
      /\ w = Server /\ desk[w].at # "rest" => desk[w].kind = "pull"
  BY DEF LevelsInv, CopiesOf, ServerPulls
<1>3. UNCHANGED torn
  BY DEF Proceed, WritePrice, WriteCatalog, Written, SaveFile, Swap, SyncLanes, SendPrices, ghosts
<1>4. ASSUME NEW n \in Nozzle, WritePrice(w, n) PROVE LevelsInv'
  BY <1>1, <1>2, <1>3, <1>4, CopyStep DEF TornKept, OwnCopy, WritePrice, Job
<1>5. CASE WriteCatalog(w)
  BY <1>1, <1>2, <1>3, <1>5, CopyStep DEF TornKept, OwnCopy, WriteCatalog, Job
<1>6. CASE Written(w) /\ desk[w].kind # "pull"
  BY <1>1, <1>2, <1>3, <1>6, CopyStep DEF TornKept, OwnCopy, Written, stores, Job
<1>7. CASE SaveFile(w)
  <2>1. desk[w].kind # "pull"
    BY <1>1, <1>7 DEF SaveFile, SoundJob
  <2> QED BY <1>1, <1>2, <1>3, <1>7, <2>1, CopyStep DEF TornKept, OwnCopy, SaveFile, Job
<1>8. CASE Swap(w)
  <2>1. desk[w].kind # "pull"
    BY <1>1, <1>8 DEF Swap, SoundJob
  <2>2. desk'[w] = [desk[w] EXCEPT !.at = "end"] /\ \A v \in Writer \ {w} : desk'[v] = desk[v]
    BY <1>1, <1>8 DEF Swap
  <2>3. desk'[w].at = "end" /\ desk'[w].kind = desk[w].kind /\ w # Server
    BY <1>1, <1>2, <1>8, <2>1, <2>2 DEF Swap, Job
  <2>4. CASE torn
    BY <1>3, <2>3, <2>2, <2>4 DEF LevelsInv, ServerPulls, Writer
  <2>5. CASE ~torn
    <3>1. site'.tanks = site.tanks
      BY <1>2, <1>8, <2>1, <2>5 DEF Swap
    <3> QED BY <1>3, <2>2, <2>3, <3>1, CopyStep DEF TornKept, OwnCopy
  <2> QED BY <2>4, <2>5
<1>9. ASSUME Done(w), UNCHANGED site PROVE LevelsInv'
  <2>1. desk'[w].at = "rest" /\ \A v \in Writer \ {w} : desk'[v] = desk[v]
    BY <1>1, <1>9, DoneStep, RestType DEF TypeInv, Job
  <2> QED BY <1>3, <1>9, <2>1, CopyStep DEF TornKept, OwnCopy
<1> QED BY <1>4, <1>5, <1>6, <1>7, <1>8, <1>9
        DEF Proceed, Written, SyncLanes, SendPrices, stores

(* Other steps of the desk. *)
LEMMA DeskLevels ==
    ASSUME TypeInv, LevelsInv, PriceStep, UNCHANGED levels
    PROVE  LevelsInv'
<1>1. /\ desk \in [Writer -> Job] /\ Scheduler \in Writer /\ Server \in Writer
      /\ Scheduler # Server /\ \A a \in Admin : a \in Writer /\ a # Server
  BY AdminAssumption DEF TypeInv, DeskOK, SoundJob, Writer, Scheduler, Server
<1>2. ASSUME NEW w \in Writer, Fails(w) PROVE LevelsInv'
  <2>1. /\ desk'[w].at \in {"rest", "mark"} /\ \A v \in Writer \ {w} : desk'[v] = desk[v]
        /\ w # Server
    BY <1>1, <1>2, DoneStep, RestType DEF TypeInv, Job, Fails, LevelsInv, ServerPulls
  <2> QED BY <1>2, <2>1, CopyStep DEF TornKept, OwnCopy, Fails, stores
<1>10. ASSUME NEW c \in Change, MarkFailed(c) \/ MarkFails(c) PROVE LevelsInv'
  <2>1. /\ desk'[Scheduler].at = "rest"
        /\ \A v \in Writer \ {Scheduler} : desk'[v] = desk[v]
    BY <1>1, <1>10, DoneStep, RestType DEF TypeInv, Job, MarkFailed, MarkFails
  <2> QED BY <1>1, <1>10, <2>1, CopyStep DEF TornKept, OwnCopy, MarkFailed, MarkFails, stores, ghosts
<1>3. CASE ClaimDue
  <2>1. /\ desk'[Scheduler].at = "rest" /\ site'.tanks = site.tanks /\ TornKept /\ OwnCopy(Scheduler)
        /\ \A v \in Writer \ {Scheduler} : desk'[v] = desk[v]
    BY <1>1, <1>3 DEF ClaimDue, Busy, TornKept, OwnCopy, stores, ghosts, Job
  <2> QED BY <1>1, <2>1, CopyStep
<1>4. ASSUME NEW c \in Change, ApplyScheduled(c) PROVE LevelsInv'
  <2>1. /\ OwnCopy(Scheduler) /\ site'.tanks = site.tanks /\ TornKept
        /\ \A v \in Writer \ {Scheduler} : desk'[v] = desk[v]
    <3>1. /\ desk'[Scheduler].snap.tanks = site.tanks /\ UNCHANGED site
          /\ \A v \in Writer \ {Scheduler} : desk'[v] = desk[v]
      <4> DEFINE snap == [site EXCEPT !.price = [n \in Nozzle |-> plan[c].price]]
      <4>1. snap.tanks = site.tanks
        BY DEF TypeInv, StoresOK, Site
      <4>2. desk'[Scheduler].snap = snap
        BY <1>1, <1>4 DEF ApplyScheduled, Job
      <4>3. UNCHANGED site /\ \A v \in Writer \ {Scheduler} : desk'[v] = desk[v]
        BY <1>1, <1>4 DEF ApplyScheduled, stores
      <4> QED BY <4>1, <4>2, <4>3
    <3>2. TornKept
      BY <1>4 DEF ApplyScheduled, TornKept
    <3> QED BY <3>1, <3>2 DEF OwnCopy
  <2> QED BY <1>1, <2>1, CopyStep
<1>5. ASSUME NEW a \in Admin, NEW kind \in {"prices", "catalog"}, NEW want \in Wanted,
             kind = "catalog" => want \in [Nozzle -> Price], ~Busy(a),
             Snapshot(a, kind, want), UNCHANGED site
      PROVE  LevelsInv'
  <2>1. /\ OwnCopy(a) /\ site'.tanks = site.tanks /\ TornKept
        /\ \A v \in Writer \ {a} : desk'[v] = desk[v]
    <3>1. /\ desk'[a].snap.tanks = site.tanks
          /\ \A v \in Writer \ {a} : desk'[v] = desk[v]
      BY <1>1, <1>5, SnapshotStep DEF TypeInv
    <3>2. TornKept
      BY <1>5 DEF Snapshot, TornKept
    <3> QED BY <1>5, <3>1, <3>2 DEF OwnCopy
  <2> QED BY <1>1, <1>5, <2>1, CopyStep
<1>6. ASSUME UNCHANGED <<site, desk>>, TornKept PROVE LevelsInv'
  BY <1>6, LevelsFrame DEF LevelsInv, ServerPulls, CopiesOf, TornKept
<1>7. CASE Request
  <2>1. [Nozzle -> Price] \subseteq Wanted
    BY WantedType
  <2> QED BY <1>5, <1>6, <1>7, <2>1 DEF Request, RequestPrices, RequestCatalog, CreateScheduled,
             FallsDue, CancelScheduled, OperatorPrices, stores, ghosts, TornKept
<1>8. CASE Pull
  <2>1. /\ desk'[Server].kind = "pull" /\ TornKept
        /\ \A v \in Writer \ {Server} : desk'[v] = desk[v]
        /\ site'.tanks = site.tanks
    <3>1. desk[Server] \in SoundJob
      BY <1>1 DEF TypeInv, DeskOK
    <3>2. desk[Server].at # "rest" => desk[Server].kind = "pull"
      BY DEF LevelsInv, ServerPulls
    <3>3. ASSUME NEW remote \in Wanted, PullPrices(remote) PROVE <2>1
      BY <1>1, <3>3 DEF PullPrices, TornKept, stores, Job
    <3>4. ASSUME NEW saved \in BOOLEAN, ApplyPull(saved) PROVE <2>1
      BY <1>1, <3>2, <3>4 DEF ApplyPull, TornKept, Job, TypeInv, StoresOK, Site
    <3>5. ASSUME NEW n \in Nozzle, PullSkips(n) PROVE <2>1
      BY <1>1, <3>2, <3>5 DEF PullSkips, TornKept, stores, Job
    <3> QED BY <1>8, <3>3, <3>4, <3>5 DEF Pull
  <2>2. OwnCopy(Server)
    BY <2>1 DEF OwnCopy
  <2> QED BY <1>1, <2>1, <2>2, CopyStep
<1>9. CASE LanesTake \/ LanesReread
  BY <1>6, <1>9 DEF LanesTake, LanesReread, ghosts, TornKept
<1> QED BY <1>2, <1>3, <1>4, <1>7, <1>8, <1>9, <1>10, ProceedLevels DEF PriceStep, Schedule

(* The gauge shows levels of the layout in force: it looks at it again after   *)
(* every read.                                                                 *)
LEMMA GaugeLevels ==
    ASSUME TypeInv, GaugeOK, LevelsInv, Gauge \/ Deliver
    PROVE  LevelsInv'
<1>1. UNCHANGED <<site, desk, torn>>
  BY GaugeFrame DEF Unpriced, stores, ghosts
<1>2. ASSUME LevelsOf(site.tanks) PROVE LevelsOf(site.tanks)'
  <2>1. CASE UNCHANGED levels
    BY <1>1, <1>2, <2>1 DEF LevelsOf
  <2>2. CASE levels' = [b \in Branch |-> None]
    BY <2>2 DEF LevelsOf
  <2>3. ASSUME NEW b \in Branch, NEW ok \in BOOLEAN, Seen(b, ok), site.tanks = round.of
        PROVE  LevelsOf(site.tanks)'
    <3>1. ok \/ levels[b] = None => levels'[b].of = site.tanks
      BY <2>3 DEF Seen, GaugeOK
    <3>2. ASSUME ~(ok \/ levels[b] = None) PROVE levels'[b].of = site.tanks
      <4>1. levels[b] \in Level
        BY <3>2 DEF GaugeOK
      <4>2. levels'[b] = [levels[b] EXCEPT !.error = TRUE]
        BY <2>3, <3>2 DEF Seen, GaugeOK
      <4>3. levels'[b].of = levels[b].of
        BY <4>1, <4>2 DEF Level
      <4> QED BY <1>2, <3>2, <4>3 DEF LevelsOf
    <3>3. \A d \in Branch \ {b} : levels'[d] = levels[d]
      BY <2>3 DEF Seen, GaugeOK
    <3> QED BY <1>1, <1>2, <3>1, <3>2, <3>3 DEF LevelsOf
  <2>4. \/ UNCHANGED levels \/ levels' = [b \in Branch |-> None]
        \/ \E b \in Branch, ok \in BOOLEAN : Seen(b, ok) /\ site.tanks = round.of
    BY DEF Gauge, Deliver, Catalog, BeginRound, ReadBranch, Persist, Pick, Arrive, PostFails,
           DeleteSent, gaugeVars
  <2> QED BY <2>1, <2>2, <2>3, <2>4
<1>3. ServerPulls' /\ (CopiesOf(site.tanks) => CopiesOf(site.tanks)')
  BY <1>1 DEF LevelsInv, ServerPulls, CopiesOf
<1> QED BY <1>1, <1>2, <1>3 DEF LevelsInv

(* An edit empties the display; a copy that is out is stale from then on.      *)
LEMMA EditLevels ==
    ASSUME TypeInv, LevelsInv, NEW t \in Tanks, Edit(t)
    PROVE  LevelsInv'
<1>1. levels' = [b \in Branch |-> None] /\ UNCHANGED desk /\ torn' = (torn \/ CopyOut)
  BY DEF Edit, EditTanks
<1>2. LevelsOf(site.tanks)'
  BY <1>1 DEF LevelsOf
<1>3. ASSUME ~CopyOut PROVE CopiesOf(site.tanks)'
  <2>1. \A w \in Writer : desk[w].at \in {"db", "save", "swap"} => w = Server
    BY <1>3 DEF CopyOut
  <2> QED BY <1>1, <2>1 DEF CopiesOf, LevelsInv, ServerPulls
<1>4. torn' \/ ~CopyOut
  BY <1>1
<1> QED BY <1>1, <1>2, <1>3, <1>4 DEF LevelsInv, ServerPulls

(* A restart empties the display, and no copy is out. *)
LEMMA CrashLevels ==
    ASSUME TypeInv, CrashAll
    PROVE  LevelsInv'
<1>1. \A w \in Writer : desk'[w].at = "rest"
  BY RestType DEF CrashAll, Crash, Restart
<1>2. LevelsOf(site.tanks)'
  BY DEF CrashAll, LevelsOf
<1> QED BY <1>1, <1>2 DEF LevelsInv, ServerPulls, CopiesOf, Writer

(* Nothing is shown at first. *)
LEMMA InitLevels ==
    ASSUME TankInit
    PROVE  LevelsInv
<1>1. \A w \in Writer : desk[w].at = "rest"
  BY RestType DEF TankInit, Init
<1>2. LevelsOf(site.tanks)
  BY DEF TankInit, LevelsOf
<1> QED BY <1>1, <1>2 DEF LevelsInv, ServerPulls, CopiesOf, Writer

(* Every step keeps the levels on display those of the layout in force. *)
LEMMA NextLevels ==
    ASSUME TypeInv, GaugeOK, LevelsInv, [Next]_vars
    PROVE  LevelsInv'
<1>1. CASE UNCHANGED vars
  BY <1>1 DEF vars, priceVars, gaugeVars, stores, ghosts, LevelsInv, ServerPulls, LevelsOf, CopiesOf
<1>2. CASE PriceStep /\ UNCHANGED <<gaugeVars, exportVars>>
  BY <1>2, DeskLevels DEF gaugeVars
<1> QED BY <1>1, <1>2, GaugeLevels, EditLevels, CrashLevels DEF Next

(* A level on display was read under the layout in force, for any number of    *)
(* branches, edits, rounds, price changes and restarts, unless a price change  *)
(* that overlapped an edit put back the older layout.                          *)
THEOREM LevelsAreCurrent == Spec => []LevelsCurrent
<1>1. TankInit => TypeInv /\ GaugeOK /\ LevelsInv
  BY InitTypes, GaugeInit, InitLevels
<1>2. TypeInv /\ GaugeOK /\ LevelsInv /\ [Next]_vars => (TypeInv /\ GaugeOK /\ LevelsInv)'
  BY NextKeeps, GaugeTypes, NextLevels
<1>3. LevelsInv => LevelsCurrent
  BY DEF LevelsInv, LevelsCurrent, LevelsOf
<1> QED BY <1>1, <1>2, <1>3, PTL DEF Spec

----------------------------------------------------------------------------
(* Prices and samples end where they belong. *)

(* The price that nozzle n has once the lanes took the commands on their way. *)
Named(n, i) == n \in DOMAIN commands[i]
Coming(n, p) ==
    \/ lane[n] = p /\ \A i \in DOMAIN commands : ~Named(n, i)
    \/ \E i \in DOMAIN commands :
          /\ Named(n, i) /\ commands[i][n] = p
          /\ \A j \in DOMAIN commands : j > i => ~Named(n, j)

----------------------------------------------------------------------------
(* What a change in progress has reached, at each of its points. *)

(* Before it takes the place of the configuration: the copy has its prices and *)
(* the others of the configuration, the database those it wrote, and the lanes *)
(* what they had or have read back.                                            *)
Changing(w) ==
    LET d == desk[w]
    IN  d.at \in {"db", "save", "swap"} /\ d.kind # "pull" =>
            /\ d.snap.tanks = asked
            /\ \A n \in Nozzle :
                  /\ d.snap.price[n] = IF n \in DOMAIN d.want THEN d.want[n] ELSE site.price[n]
                  /\ db[n] = IF n \in DOMAIN d.want \ d.todo THEN d.want[n] ELSE site.price[n]
                  /\ Coming(n, db[n]) \/ Coming(n, site.price[n])
            /\ d.kind = "catalog" => commands = <<>> /\ DOMAIN d.want = Nozzle
            /\ d.at # "db" => d.todo = {}

(* Once it has: only the lanes have not been told. *)
Ending(w) ==
    LET d == desk[w]
    IN  d.at = "end" =>
            /\ db = site.price
            /\ \A n \in Nozzle :
                  IF n \in DOMAIN d.want THEN db[n] = d.want[n] ELSE Coming(n, db[n])
            /\ d.kind = "catalog" => commands = <<>>

(* A pull tells the lanes first and the database last. *)
Pulling(w) ==
    LET d == desk[w]
    IN  /\ d.at = "apply" =>
              /\ db = site.price /\ d.todo = DOMAIN d.want
              /\ \A n \in Nozzle : Coming(n, db[n])
        /\ d.at = "db" /\ d.kind = "pull" =>
              \A n \in Nozzle :
                  /\ Coming(n, site.price[n])
                  /\ IF n \in d.todo THEN site.price[n] = d.want[n] ELSE db[n] = site.price[n]

Agreed == db = site.price /\ \A n \in Nozzle : Coming(n, db[n])

(* Changes do not overlap, and what each has reached is known; when none is in *)
(* progress, all stores agree.                                                 *)
Untorn ==
    /\ site.tanks = asked /\ file.tanks = asked
    /\ \A v, w \in Writer : Busy(v) /\ Busy(w) => v = w
    /\ \A w \in Writer : Changing(w) /\ Ending(w) /\ Pulling(w)
    /\ (\A w \in Writer : ~Busy(w)) => Agreed

PullsServer == \A w \in Writer : desk[w].kind = "pull" => w = Server

StoresInv == PullsServer /\ ServerPulls /\ (torn \/ Untorn)

Mine(w) == Changing(w) /\ Ending(w) /\ Pulling(w) /\ (~Busy(w) => Agreed)

----------------------------------------------------------------------------
(* Prices on their way. *)

(* With no command on its way, what the lanes have is what they will have. *)
LEMMA ComingNow ==
    ASSUME commands = <<>>, NEW n \in Nozzle
    PROVE  Coming(n, lane[n])
BY DEF Coming

(* A command that is taken gives what was coming. *)
LEMMA ComingTaken ==
    ASSUME StoresOK, LanesTake, NEW n \in Nozzle, NEW p, Coming(n, p)
    PROVE  Coming(n, p)'
<1>1. /\ commands \in Seq(Wanted) /\ commands # <<>> /\ commands' = Tail(commands)
      /\ lane' = [m \in Nozzle |-> IF Named(m, 1) THEN commands[1][m] ELSE lane[m]]
  BY DEF StoresOK, LanesTake, Laid, Named
<1>2. /\ DOMAIN commands = 1 .. Len(commands) /\ DOMAIN commands' = 1 .. (Len(commands) - 1)
      /\ Len(commands) \in Nat \ {0}
      /\ \A i \in DOMAIN commands' : commands'[i] = commands[i + 1]
  BY <1>1
<1>3. CASE lane[n] = p /\ \A i \in DOMAIN commands : ~Named(n, i)
  BY <1>1, <1>2, <1>3 DEF Coming, Named
<1>4. ASSUME NEW i \in DOMAIN commands, Named(n, i), commands[i][n] = p,
             \A j \in DOMAIN commands : j > i => ~Named(n, j)
      PROVE  Coming(n, p)'
  <2>1. CASE i = 1
    <3>1. lane'[n] = p
      BY <1>1, <1>4, <2>1
    <3>2. \A j \in DOMAIN commands' : n \notin DOMAIN commands'[j]
      BY <1>2, <1>4, <2>1 DEF Named
    <3> QED BY <3>1, <3>2 DEF Coming, Named
  <2>2. CASE i > 1
    <3>1. i - 1 \in DOMAIN commands' /\ commands'[i - 1] = commands[i]
      BY <1>2, <2>2
    <3>2. \A j \in DOMAIN commands' : j > i - 1 => n \notin DOMAIN commands'[j]
      BY <1>2, <1>4, <2>2 DEF Named
    <3> QED BY <1>4, <3>1, <3>2 DEF Coming, Named
  <2> QED BY <1>2, <2>1, <2>2
<1> QED BY <1>3, <1>4 DEF Coming

(* A command that is sent brings its own prices and leaves the others. *)
LEMMA ComingSent ==
    ASSUME commands \in Seq(Wanted), NEW want \in Wanted, commands' = Append(commands, want),
           UNCHANGED lane, NEW n \in Nozzle
    PROVE  /\ n \in DOMAIN want => Coming(n, want[n])'
           /\ n \notin DOMAIN want => \A p : Coming(n, p) => Coming(n, p)'
<1>1. /\ DOMAIN commands' = 1 .. (Len(commands) + 1) /\ commands'[Len(commands) + 1] = want
      /\ DOMAIN commands = 1 .. Len(commands) /\ Len(commands) \in Nat
      /\ \A i \in DOMAIN commands : commands'[i] = commands[i]
  OBVIOUS
<1> QED BY <1>1 DEF Coming, Named

(* Lanes that read the database have its prices, or those still on their way. *)
LEMMA ComingReread ==
    ASSUME LanesReread, NEW n \in Nozzle, NEW p, Coming(n, p)
    PROVE  Coming(n, p)' \/ Coming(n, db[n])'
BY DEF Coming, Named, LanesReread

(* Nothing changes for the lanes. *)
LEMMA ComingKept ==
    ASSUME UNCHANGED <<commands, lane>>, NEW n \in Nozzle, NEW p, Coming(n, p)
    PROVE  Coming(n, p)'
BY DEF Coming, Named

----------------------------------------------------------------------------
(* Each step keeps what a change has reached. *)

(* A step of one writer, while no other is busy. *)
LEMMA OneWriter ==
    ASSUME StoresInv, NEW w \in Writer,
           \A v \in Writer \ {w} : desk'[v] = desk[v],
           desk'[w].kind = "pull" => w = Server,
           w = Server /\ desk'[w].at # "rest" => desk'[w].kind = "pull",
           torn' \/ (/\ \A v \in Writer \ {w} : ~Busy(v)
                     /\ site'.tanks = asked' /\ file'.tanks = asked' /\ Mine(w)')
    PROVE  StoresInv'
<1>1. PullsServer' /\ ServerPulls'
  BY DEF StoresInv, PullsServer, ServerPulls, Writer
<1>2. ASSUME ~torn' PROVE Untorn'
  <2>1. \A v \in Writer \ {w} : desk'[v].at \in {"rest", "mark"}
    BY <1>2 DEF Busy
  <2>2. \A v \in Writer \ {w} : (Changing(v) /\ Ending(v) /\ Pulling(v))'
    BY <2>1 DEF Changing, Ending, Pulling
  <2>3. \A v, u \in Writer : Busy(v)' /\ Busy(u)' => v = u
    BY <2>1 DEF Busy
  <2>4. (Changing(w) /\ Ending(w) /\ Pulling(w))' /\ (~Busy(w)' => Agreed') /\ site'.tanks = asked' /\ file'.tanks = asked'
    BY <1>2 DEF Mine
  <2> QED BY <2>2, <2>3, <2>4 DEF Untorn
<1> QED BY <1>1, <1>2 DEF StoresInv

(* While nothing is torn, only one writer is busy. *)
LEMMA OnlyOne ==
    ASSUME StoresInv, ~torn, NEW w \in Writer, Busy(w) \/ Alone(w)
    PROVE  /\ \A v \in Writer \ {w} : ~Busy(v)
           /\ site.tanks = asked /\ file.tanks = asked /\ Mine(w)
BY DEF StoresInv, Untorn, Alone, Mine

(* A price is written to the database. *)
LEMMA WritePriceStores ==
    ASSUME TypeInv, StoresInv, NEW w \in Writer, NEW m \in Nozzle, WritePrice(w, m)
    PROVE  StoresInv'
<1>1. desk \in [Writer -> Job] /\ desk[w] \in Job /\ desk[w] \in SoundJob /\ db \in [Nozzle -> Price]
  BY DEF TypeInv, DeskOK, SoundJob, StoresOK
<1>2. /\ desk'[w] = [desk[w] EXCEPT !.todo = @ \ {m}]
      /\ \A v \in Writer \ {w} : desk'[v] = desk[v]
      /\ desk[w].at = "db" /\ desk[w].kind # "catalog" /\ m \in desk[w].todo
      /\ db' = [db EXCEPT ![m] = desk[w].want[m]]
      /\ UNCHANGED <<site, file, lane, commands, asked, torn>>
  BY <1>1 DEF WritePrice, ghosts
<1>3. /\ desk'[w].at = "db" /\ desk'[w].kind = desk[w].kind /\ desk'[w].want = desk[w].want
      /\ desk'[w].snap = desk[w].snap /\ desk'[w].todo = desk[w].todo \ {m}
      /\ m \in DOMAIN desk[w].want
  BY <1>1, <1>2 DEF Job, SoundJob
<1>4. ASSUME ~torn PROVE Mine(w)'
  <2>1. Mine(w)
    BY <1>2, <1>4, OnlyOne DEF Busy
  <2>2. \A n \in Nozzle : \A p : Coming(n, p) => Coming(n, p)'
    BY <1>2, ComingKept
  <2>3. \A n \in Nozzle : db'[n] = IF n = m THEN desk[w].want[m] ELSE db[n]
    BY <1>1, <1>2
  <2>4. CASE desk[w].kind = "pull"
    <3>1. \A n \in Nozzle :
            /\ Coming(n, site.price[n])'
            /\ IF n \in desk'[w].todo THEN site.price[n] = desk'[w].want[n] ELSE db'[n] = site.price[n]
      BY <1>2, <1>3, <2>1, <2>2, <2>3, <2>4 DEF Mine, Pulling
    <3> QED BY <1>2, <1>3, <2>4, <3>1 DEF Mine, Changing, Ending, Pulling, Busy
  <2>5. CASE desk[w].kind # "pull"
    <3>1. \A n \in Nozzle :
            /\ desk[w].snap.price[n] = IF n \in DOMAIN desk[w].want THEN desk[w].want[n] ELSE site.price[n]
            /\ db'[n] = IF n \in DOMAIN desk[w].want \ desk'[w].todo THEN desk[w].want[n] ELSE site.price[n]
            /\ Coming(n, db[n])' \/ Coming(n, site.price[n])'
      BY <1>2, <1>3, <2>1, <2>2, <2>3, <2>5 DEF Mine, Changing
    <3> QED BY <1>2, <1>3, <2>1, <2>5, <3>1 DEF Mine, Changing, Ending, Pulling, Busy
  <2> QED BY <2>4, <2>5
<1>5. torn \/ (/\ \A v \in Writer \ {w} : ~Busy(v)
               /\ site.tanks = asked /\ file.tanks = asked)
  BY <1>2, OnlyOne DEF Busy
<1>6. (desk[w].kind = "pull" => w = Server) /\ (w = Server => desk[w].kind = "pull")
  BY <1>2 DEF StoresInv, PullsServer, ServerPulls
<1> QED BY <1>2, <1>3, <1>4, <1>5, <1>6, OneWriter

(* A catalog is written to the database. *)
LEMMA WriteCatalogStores ==
    ASSUME TypeInv, StoresInv, NEW w \in Writer, WriteCatalog(w)
    PROVE  StoresInv'
<1>1. desk \in [Writer -> Job] /\ desk[w] \in Job /\ desk[w] \in SoundJob
  BY DEF TypeInv, DeskOK, SoundJob
<1>2. /\ desk'[w] = [desk[w] EXCEPT !.todo = {}]
      /\ \A v \in Writer \ {w} : desk'[v] = desk[v]
      /\ desk[w].at = "db" /\ desk[w].kind = "catalog" /\ db' = desk[w].want
      /\ UNCHANGED <<site, file, lane, commands, asked, torn>>
  BY <1>1 DEF WriteCatalog, ghosts
<1>3. /\ desk'[w].at = "db" /\ desk'[w].kind = "catalog" /\ desk'[w].want = desk[w].want
      /\ desk'[w].snap = desk[w].snap /\ desk'[w].todo = {}
      /\ desk[w].want \in [Nozzle -> Price]
  BY <1>1, <1>2 DEF Job, SoundJob
<1>4. ASSUME ~torn PROVE Mine(w)'
  <2>1. Mine(w)
    BY <1>2, <1>4, OnlyOne DEF Busy
  <2>2. \A n \in Nozzle : \A p : Coming(n, p) => Coming(n, p)'
    BY <1>2, ComingKept
  <2>3. \A n \in Nozzle : n \in DOMAIN desk[w].want /\ db'[n] = desk[w].want[n]
    BY <1>2, <1>3
  <2>4. \A n \in Nozzle :
          /\ desk[w].snap.price[n] = IF n \in DOMAIN desk[w].want THEN desk[w].want[n] ELSE site.price[n]
          /\ Coming(n, db[n])' \/ Coming(n, site.price[n])'
    BY <1>2, <1>3, <2>1, <2>2, <2>3 DEF Mine, Changing
  <2> QED BY <1>2, <1>3, <2>1, <2>3, <2>4 DEF Mine, Changing, Ending, Pulling, Busy
<1>5. torn \/ (/\ \A v \in Writer \ {w} : ~Busy(v)
               /\ site.tanks = asked /\ file.tanks = asked)
  BY <1>2, OnlyOne DEF Busy
<1>6. w # Server
  BY <1>2 DEF StoresInv, ServerPulls
<1> QED BY <1>2, <1>3, <1>4, <1>5, <1>6, OneWriter

(* All is written: a pull is done, another change goes on to the file. *)
LEMMA WrittenStores ==
    ASSUME TypeInv, StoresInv, NEW w \in Writer, Written(w)
    PROVE  StoresInv'
<1>1. desk \in [Writer -> Job] /\ desk[w] \in Job /\ desk[w] \in SoundJob
  BY DEF TypeInv, DeskOK, SoundJob
<1>2. /\ desk[w].at = "db" /\ desk[w].todo = {}
      /\ UNCHANGED <<db, site, file, lane, commands, asked, torn>>
  BY DEF Written, stores, ghosts
<1>3. \A n \in Nozzle : \A p : Coming(n, p) => Coming(n, p)'
  BY <1>2, ComingKept
<1>4. torn \/ (/\ \A v \in Writer \ {w} : ~Busy(v)
               /\ site.tanks = asked /\ file.tanks = asked /\ Mine(w))
  BY <1>2, OnlyOne DEF Busy
<1>5. (desk[w].kind = "pull" => w = Server) /\ (w = Server => desk[w].kind = "pull")
  BY <1>2 DEF StoresInv, PullsServer, ServerPulls
<1>6. CASE desk[w].kind = "pull"
  <2>1. desk'[w].at = "rest" /\ desk'[w].kind = "prices" /\ \A v \in Writer \ {w} : desk'[v] = desk[v]
    BY <1>1, <1>6, DoneStep, RestType DEF Written, TypeInv, Job
  <2>2. ASSUME ~torn PROVE Mine(w)'
    <3>1. \A n \in Nozzle : db[n] = site.price[n] /\ Coming(n, db[n])'
      BY <1>2, <1>3, <1>4, <1>6, <2>2 DEF Mine, Pulling
    <3>2. db = site.price
      BY <3>1 DEF TypeInv, StoresOK, Site
    <3> QED BY <1>2, <2>1, <3>1, <3>2 DEF Mine, Changing, Ending, Pulling, Busy, Agreed
  <2> QED BY <1>2, <1>4, <2>1, <2>2, OneWriter
<1>7. CASE desk[w].kind # "pull"
  <2>1. /\ desk' = [desk EXCEPT ![w].at = "save"] /\ desk'[w].at = "save"
        /\ desk'[w].kind = desk[w].kind /\ desk'[w].want = desk[w].want
        /\ desk'[w].snap = desk[w].snap /\ desk'[w].todo = {}
        /\ \A v \in Writer \ {w} : desk'[v] = desk[v]
    BY <1>1, <1>2, <1>7 DEF Written, Job
  <2>2. ASSUME ~torn PROVE Mine(w)'
    <3>1. \A n \in Nozzle :
            /\ desk[w].snap.price[n] = IF n \in DOMAIN desk[w].want THEN desk[w].want[n] ELSE site.price[n]
            /\ db[n] = IF n \in DOMAIN desk[w].want \ {} THEN desk[w].want[n] ELSE site.price[n]
            /\ Coming(n, db[n])' \/ Coming(n, site.price[n])'
      BY <1>2, <1>3, <1>4, <1>7, <2>2 DEF Mine, Changing
    <3> QED BY <1>2, <1>4, <1>7, <2>1, <2>2, <3>1 DEF Mine, Changing, Ending, Pulling, Busy
  <2> QED BY <1>2, <1>4, <1>5, <1>7, <2>1, <2>2, OneWriter
<1> QED BY <1>6, <1>7

(* The copy is saved. *)
LEMMA SaveFileStores ==
    ASSUME TypeInv, StoresInv, NEW w \in Writer, SaveFile(w)
    PROVE  StoresInv'
<1>1. desk \in [Writer -> Job] /\ desk[w] \in Job /\ desk[w] \in SoundJob
  BY DEF TypeInv, DeskOK, SoundJob
<1>2. /\ desk[w].at = "save" /\ desk[w].kind # "pull"
      /\ desk' = [desk EXCEPT ![w].at = "swap"] /\ file' = desk[w].snap
      /\ UNCHANGED <<db, site, lane, commands, asked, torn>>
  BY <1>1 DEF SaveFile, ghosts, SoundJob
<1>3. /\ desk'[w].at = "swap" /\ desk'[w].kind = desk[w].kind /\ desk'[w].want = desk[w].want
      /\ desk'[w].snap = desk[w].snap /\ desk'[w].todo = desk[w].todo
      /\ \A v \in Writer \ {w} : desk'[v] = desk[v]
  BY <1>1, <1>2 DEF Job
<1>4. ASSUME ~torn PROVE Mine(w)' /\ file'.tanks = asked
  <2>1. Mine(w)
    BY <1>2, <1>4, OnlyOne DEF Busy
  <2>2. \A n \in Nozzle : \A p : Coming(n, p) => Coming(n, p)'
    BY <1>2, ComingKept
  <2>3. \A n \in Nozzle :
          /\ desk[w].snap.price[n] = IF n \in DOMAIN desk[w].want THEN desk[w].want[n] ELSE site.price[n]
          /\ db[n] = IF n \in DOMAIN desk[w].want \ desk[w].todo THEN desk[w].want[n] ELSE site.price[n]
          /\ Coming(n, db[n])' \/ Coming(n, site.price[n])'
    BY <1>2, <2>1, <2>2 DEF Mine, Changing
  <2> QED BY <1>2, <1>3, <2>1, <2>3 DEF Mine, Changing, Ending, Pulling, Busy
<1>5. torn \/ ((\A v \in Writer \ {w} : ~Busy(v)) /\ site.tanks = asked)
  BY <1>2, OnlyOne DEF Busy
<1>6. w # Server
  BY <1>2 DEF StoresInv, ServerPulls
<1> QED BY <1>2, <1>3, <1>4, <1>5, <1>6, OneWriter

(* The copy takes the place of the configuration. *)
LEMMA SwapStores ==
    ASSUME TypeInv, StoresInv, NEW w \in Writer, Swap(w)
    PROVE  StoresInv'
<1>1. desk \in [Writer -> Job] /\ desk[w] \in Job /\ desk[w] \in SoundJob
  BY DEF TypeInv, DeskOK, SoundJob
<1>2. /\ desk[w].at = "swap" /\ desk[w].kind # "pull" /\ desk[w].snap \in Site
      /\ desk' = [desk EXCEPT ![w].at = "end"] /\ site' = desk[w].snap
      /\ UNCHANGED <<db, file, lane, commands, asked, torn>>
  BY <1>1 DEF Swap, ghosts, SoundJob
<1>3. /\ desk'[w].at = "end" /\ desk'[w].kind = desk[w].kind /\ desk'[w].want = desk[w].want
      /\ \A v \in Writer \ {w} : desk'[v] = desk[v]
  BY <1>1, <1>2 DEF Job
<1>4. ASSUME ~torn PROVE Mine(w)' /\ site'.tanks = asked
  <2>1. Mine(w)
    BY <1>2, <1>4, OnlyOne DEF Busy
  <2>2. \A n \in Nozzle : \A p : Coming(n, p) => Coming(n, p)'
    BY <1>2, ComingKept
  <2>3. \A n \in Nozzle :
          /\ db[n] = desk[w].snap.price[n]
          /\ IF n \in DOMAIN desk[w].want THEN db[n] = desk[w].want[n] ELSE Coming(n, db[n])'
    BY <1>2, <2>1, <2>2 DEF Mine, Changing
  <2>4. db' = site'.price
    BY <1>2, <2>3 DEF TypeInv, StoresOK, Site
  <2> QED BY <1>2, <1>3, <2>1, <2>3, <2>4 DEF Mine, Changing, Ending, Pulling, Busy
<1>5. torn \/ ((\A v \in Writer \ {w} : ~Busy(v)) /\ file.tanks = asked)
  BY <1>2, OnlyOne DEF Busy
<1>6. w # Server
  BY <1>2 DEF StoresInv, ServerPulls
<1> QED BY <1>2, <1>3, <1>4, <1>5, <1>6, OneWriter

(* The lanes are told, and the change is done. *)
LEMMA TellStores ==
    ASSUME TypeInv, StoresInv, NEW w \in Writer, SyncLanes(w) \/ SendPrices(w)
    PROVE  StoresInv'
<1>1. desk \in [Writer -> Job] /\ desk[w] \in Job /\ desk[w].want \in Wanted
      /\ commands \in Seq(Wanted) /\ site.price \in [Nozzle -> Price]
  BY DEF TypeInv, DeskOK, SoundJob, StoresOK, Job, Site
<1>2. desk[w].at = "end" /\ UNCHANGED <<db, site, file, asked, torn>>
  BY DEF SyncLanes, SendPrices, ghosts, stores
<1>3. desk'[w].at = "rest" /\ desk'[w].kind = "prices" /\ \A v \in Writer \ {w} : desk'[v] = desk[v]
  BY <1>1, DoneStep, RestType DEF SyncLanes, SendPrices, TypeInv, Job
<1>4. torn \/ (/\ \A v \in Writer \ {w} : ~Busy(v)
               /\ site.tanks = asked /\ file.tanks = asked /\ Mine(w))
  BY <1>2, OnlyOne DEF Busy
<1>5. ASSUME ~torn, NEW n \in Nozzle PROVE Coming(n, db[n])'
  <2>1. CASE SyncLanes(w)
    <3>1. commands' = <<>> /\ lane'[n] = db[n] /\ UNCHANGED db
      BY <1>2, <1>4, <1>5, <2>1 DEF SyncLanes, Mine, Ending
    <3> QED BY <3>1 DEF Coming
  <2>2. CASE SendPrices(w)
    <3>1. commands' = Append(commands, desk[w].want) /\ UNCHANGED <<lane, db>>
      BY <2>2 DEF SendPrices, stores
    <3>2. IF n \in DOMAIN desk[w].want THEN db[n] = desk[w].want[n] ELSE Coming(n, db[n])
      BY <1>2, <1>4, <1>5 DEF Mine, Ending
    <3> QED BY <1>1, <3>1, <3>2, ComingSent
  <2> QED BY <2>1, <2>2
<1>6. ASSUME ~torn PROVE Mine(w)'
  BY <1>2, <1>3, <1>4, <1>5, <1>6 DEF Mine, Changing, Ending, Pulling, Busy, Agreed
<1> QED BY <1>2, <1>3, <1>4, <1>6, OneWriter

(* A write fails: nothing of the change has reached a store, or it is torn. *)
LEMMA FailsStores ==
    ASSUME TypeInv, StoresInv, NEW w \in Writer, Fails(w)
    PROVE  StoresInv'
<1>1. desk \in [Writer -> Job] /\ desk[w] \in Job
  BY DEF TypeInv, DeskOK, SoundJob
<1>2. /\ desk[w].at \in {"db", "save"} /\ desk[w].kind # "pull"
      /\ torn' = (torn \/ db # site.price)
      /\ UNCHANGED <<db, site, file, lane, commands, asked>>
  BY DEF Fails, stores
<1>3. /\ desk'[w].at \in {"rest", "mark"} /\ desk'[w].kind # "pull" /\ w # Server
      /\ \A v \in Writer \ {w} : desk'[v] = desk[v]
  BY <1>1, <1>2, DoneStep, RestType DEF Fails, TypeInv, Job, StoresInv, ServerPulls
<1>4. torn \/ (/\ \A v \in Writer \ {w} : ~Busy(v)
               /\ site.tanks = asked /\ file.tanks = asked /\ Mine(w))
  BY <1>2, OnlyOne DEF Busy
<1>5. ASSUME ~torn' PROVE Mine(w)'
  <2>1. \A n \in Nozzle : \A p : Coming(n, p) => Coming(n, p)'
    BY <1>2, ComingKept
  <2>2. db = site.price /\ \A n \in Nozzle : Coming(n, db[n])'
    BY <1>2, <1>4, <1>5, <2>1 DEF Mine, Changing
  <2> QED BY <1>2, <1>3, <2>2 DEF Mine, Changing, Ending, Pulling, Busy, Agreed
<1> QED BY <1>2, <1>3, <1>4, <1>5, OneWriter

(* What a request or the scheduler starts with: a copy with its prices. *)
LEMMA StartStores ==
    ASSUME TypeInv, StoresInv, NEW w \in Writer \ {Server}, ~Busy(w),
           NEW kind \in {"prices", "catalog"}, NEW want \in Wanted,
           kind = "catalog" => DOMAIN want = Nozzle,
           \A v \in Writer \ {w} : desk'[v] = desk[v],
           desk'[w].at = "db", desk'[w].kind = kind, desk'[w].want = want,
           desk'[w].todo = {n \in DOMAIN want : kind = "catalog" \/ site.price[n] # want[n]},
           desk'[w].snap = [site EXCEPT !.price = Laid(want, @)],
           torn' = (torn \/ ~Alone(w) \/ (kind = "catalog" /\ commands # <<>>)),
           UNCHANGED <<stores, commands, asked>>
    PROVE  StoresInv'
<1>1. site \in Site /\ site.price \in [Nozzle -> Price]
  BY DEF TypeInv, StoresOK, Site
<1>2. UNCHANGED <<db, site, file, lane, commands>>
  BY DEF stores
<1>3. /\ desk'[w].snap.tanks = site.tanks
      /\ \A n \in Nozzle :
            desk'[w].snap.price[n] = IF n \in DOMAIN want THEN want[n] ELSE site.price[n]
  BY <1>1 DEF Site, Laid
<1>4. torn' \/ (/\ \A v \in Writer \ {w} : ~Busy(v)
                /\ site.tanks = asked /\ file.tanks = asked /\ Mine(w))
  BY OnlyOne
<1>5. ASSUME ~torn' PROVE Mine(w)'
  <2>1. db = site.price /\ \A n \in Nozzle : Coming(n, db[n])'
    BY <1>2, <1>4, <1>5, ComingKept DEF Mine, Agreed
  <2>2. \A n \in Nozzle :
          db[n] = IF n \in DOMAIN want \ desk'[w].todo THEN want[n] ELSE site.price[n]
    BY <2>1
  <2>3. kind = "catalog" => commands' = <<>>
    BY <1>2, <1>5
  <2> QED BY <1>2, <1>3, <1>4, <1>5, <2>1, <2>2, <2>3 DEF Mine, Changing, Ending, Pulling, Busy
<1> QED BY <1>2, <1>4, <1>5, OneWriter

(* The scheduler keeps its rows, and changes no store. *)
LEMMA RowStores ==
    ASSUME TypeInv, StoresInv, ~Busy(Scheduler), desk'[Scheduler].at = "rest",
           desk'[Scheduler].kind # "pull", \A v \in Writer \ {Scheduler} : desk'[v] = desk[v],
           UNCHANGED <<db, site, file, lane, commands, asked, torn>>
    PROVE  StoresInv'
<1>1. Scheduler \in Writer /\ Scheduler # Server
  BY DEF Writer, Scheduler, Server
<1>2. /\ desk'[Scheduler].at = "rest" /\ desk[Scheduler].at \in {"rest", "mark"}
      /\ desk'[Scheduler].kind # "pull"
      /\ \A v \in Writer \ {Scheduler} : desk'[v] = desk[v]
      /\ UNCHANGED <<db, site, file, lane, commands, asked, torn>>
  BY DEF Busy
<1>3. \A n \in Nozzle : \A p : Coming(n, p) => Coming(n, p)'
  BY <1>2, ComingKept
<1>4. ASSUME ~torn PROVE Untorn'
  <2>1. Untorn
    BY <1>4 DEF StoresInv
  <2>2. \A v \in Writer : Busy(v)' <=> Busy(v)
    BY <1>1, <1>2 DEF Busy
  <2>3. \A v \in Writer : (Changing(v) /\ Ending(v) /\ Pulling(v))'
    <3> SUFFICES ASSUME NEW v \in Writer PROVE (Changing(v) /\ Ending(v) /\ Pulling(v))'
      OBVIOUS
    <3>1. CASE v = Scheduler
      BY <1>2, <3>1 DEF Changing, Ending, Pulling
    <3>2. CASE v # Scheduler
      <4>1. desk'[v] = desk[v] /\ Changing(v) /\ Ending(v) /\ Pulling(v)
        BY <1>2, <2>1, <3>2 DEF Untorn
      <4>2. Changing(v)'
        BY <1>2, <1>3, <4>1 DEF Changing
      <4>3. Ending(v)'
        BY <1>2, <1>3, <4>1 DEF Ending
      <4>4. Pulling(v)'
        BY <1>2, <1>3, <4>1 DEF Pulling
      <4> QED BY <4>2, <4>3, <4>4
    <3> QED BY <3>1, <3>2
  <2>4. Agreed => Agreed'
    BY <1>2, <1>3 DEF Agreed
  <2> QED BY <1>2, <2>1, <2>2, <2>3, <2>4 DEF Untorn
<1>5. PullsServer' /\ ServerPulls'
  BY <1>1, <1>2 DEF StoresInv, PullsServer, ServerPulls, Writer
<1> QED BY <1>2, <1>4, <1>5 DEF StoresInv

(* It claims what is due. *)
LEMMA ClaimStores ==
    ASSUME TypeInv, HandsSound, StoresInv, ClaimDue
    PROVE  StoresInv'
<1>1. desk \in [Writer -> Job] /\ Scheduler \in Writer
  BY DEF TypeInv, DeskOK, SoundJob, Writer
<1>2. /\ desk[Scheduler].at = "rest" /\ desk'[Scheduler].at = "rest"
      /\ desk'[Scheduler].kind = desk[Scheduler].kind /\ desk[Scheduler].kind = "prices"
      /\ \A v \in Writer \ {Scheduler} : desk'[v] = desk[v]
      /\ UNCHANGED <<db, site, file, lane, commands, asked, torn>>
  BY <1>1 DEF ClaimDue, stores, ghosts, Job, HandsSound
<1> QED BY <1>2, RowStores DEF Busy

(* It marks the row of a change that failed, or cannot. *)
LEMMA MarkStores ==
    ASSUME TypeInv, StoresInv, NEW c \in Change, MarkFailed(c) \/ MarkFails(c)
    PROVE  StoresInv'
<1>1. desk[Scheduler].due \in SUBSET Change
  BY DEF TypeInv, DeskOK, SoundJob, Job, Writer
<1>2. /\ desk[Scheduler].at = "mark" /\ desk'[Scheduler].at = "rest"
      /\ desk'[Scheduler].kind = "prices"
      /\ \A v \in Writer \ {Scheduler} : desk'[v] = desk[v]
      /\ UNCHANGED <<db, site, file, lane, commands, asked, torn>>
  BY <1>1, DoneStep, RestType DEF MarkFailed, MarkFails, Marking, TypeInv, Writer, stores, ghosts
<1> QED BY <1>2, RowStores DEF Busy

(* What is coming may become more of what the database has. *)
LEMMA SameDesk ==
    ASSUME StoresInv, UNCHANGED <<db, site, file, desk, asked>>, torn => torn',
           ~torn' => /\ \A n \in Nozzle : \A p : Coming(n, p) => Coming(n, p)' \/ Coming(n, db[n])'
                     /\ desk[Server].at = "db" /\ desk[Server].todo # {} =>
                           \A n \in Nozzle : \A p : Coming(n, p) => Coming(n, p)'
                     /\ commands = <<>> => commands' = <<>>
    PROVE  StoresInv'
<1>1. ASSUME ~torn' PROVE Untorn'
  <2>1. Untorn
    BY <1>1 DEF StoresInv
  <2>2. \A v \in Writer : (Changing(v) /\ Ending(v) /\ Pulling(v))'
    <3> SUFFICES ASSUME NEW v \in Writer PROVE (Changing(v) /\ Ending(v) /\ Pulling(v))'
      OBVIOUS
    <3>1. Changing(v) /\ Ending(v) /\ Pulling(v)
      BY <2>1 DEF Untorn
    <3>2. Changing(v)'
      BY <1>1, <3>1 DEF Changing
    <3>3. Ending(v)'
      BY <1>1, <3>1 DEF Ending
    <3>4. Pulling(v)'
      <4>1. CASE desk[v].at = "apply"
        BY <1>1, <3>1, <4>1 DEF Pulling
      <4>2. CASE desk[v].at = "db" /\ desk[v].kind = "pull"
        <5>1. v = Server
          BY <4>2 DEF StoresInv, PullsServer
        <5>2. \A n \in Nozzle : Coming(n, site.price[n])'
          BY <1>1, <3>1, <4>2, <5>1 DEF Pulling
        <5> QED BY <3>1, <4>2, <5>2 DEF Pulling
      <4> QED BY <4>1, <4>2 DEF Pulling
    <3> QED BY <3>2, <3>3, <3>4
  <2>3. Agreed => Agreed'
    BY <1>1 DEF Agreed
  <2> QED BY <2>1, <2>2, <2>3 DEF Untorn, Busy
<1>2. PullsServer' /\ ServerPulls'
  BY DEF StoresInv, PullsServer, ServerPulls
<1> QED BY <1>1, <1>2 DEF StoresInv

(* The lanes take a command, or read the database. *)
LEMMA LanesStores ==
    ASSUME TypeInv, StoresInv, LanesTake \/ LanesReread
    PROVE  StoresInv'
<1>1. CASE LanesTake
  <2>1. \A n \in Nozzle : \A p : Coming(n, p) => Coming(n, p)'
    BY <1>1, ComingTaken DEF TypeInv
  <2>2. UNCHANGED <<db, site, file, desk, asked, torn>> /\ commands # <<>>
    BY <1>1 DEF LanesTake, ghosts
  <2> QED BY <2>1, <2>2, SameDesk
<1>2. CASE LanesReread
  <2>1. \A n \in Nozzle : \A p : Coming(n, p) => Coming(n, p)' \/ Coming(n, db[n])'
    BY <1>2, ComingReread
  <2>2. /\ UNCHANGED <<db, site, file, desk, asked, commands>>
        /\ torn' = (torn \/ (desk[Server].at = "db" /\ desk[Server].todo # {}))
    BY <1>2 DEF LanesReread
  <2> QED BY <2>1, <2>2, SameDesk
<1> QED BY <1>1, <1>2

(* Steps that leave the stores, the commands and the desk alone. *)
LEMMA StoresFrame ==
    ASSUME StoresInv, UNCHANGED <<stores, commands, desk, asked>>, torn => torn'
    PROVE  StoresInv'
<1>1. \A n \in Nozzle : \A p : Coming(n, p) => Coming(n, p)'
  BY ComingKept DEF stores
<1> QED BY <1>1, SameDesk DEF stores

(* Requests, and the operator's own command. *)
LEMMA RequestStores ==
    ASSUME TypeInv, StoresInv, Request
    PROVE  StoresInv'
<1>1. ASSUME NEW a \in Admin, NEW kind \in {"prices", "catalog"}, NEW want \in Wanted,
             kind = "catalog" => want \in [Nozzle -> Price], ~Busy(a),
             Snapshot(a, kind, want), UNCHANGED <<stores, commands, asked>>
      PROVE  StoresInv'
  <2>1. a \in Writer \ {Server} /\ desk \in [Writer -> Job]
    BY AdminAssumption DEF TypeInv, DeskOK, SoundJob, Writer
  <2>2. PICK snap, todo :
          /\ snap = [site EXCEPT !.price = Laid(want, @)]
          /\ todo = {n \in DOMAIN want : kind = "catalog" \/ site.price[n] # want[n]}
    OBVIOUS
  <2>3. /\ desk' = [desk EXCEPT ![a] = [desk[a] EXCEPT !.at = "db", !.kind = kind, !.want = want,
                                                     !.todo = todo, !.snap = snap]]
        /\ torn' = (torn \/ ~Alone(a) \/ (kind = "catalog" /\ commands # <<>>))
    BY <1>1, <2>1, <2>2 DEF Snapshot
  <2>4. /\ desk'[a].at = "db" /\ desk'[a].kind = kind /\ desk'[a].want = want
        /\ desk'[a].todo = todo /\ desk'[a].snap = snap
        /\ \A v \in Writer \ {a} : desk'[v] = desk[v]
    BY <2>1, <2>3 DEF Job
  <2>5. kind = "catalog" => DOMAIN want = Nozzle
    BY <1>1
  <2>6. desk'[a].todo = {n \in DOMAIN want : kind = "catalog" \/ site.price[n] # want[n]}
    BY <2>2, <2>4
  <2>7. desk'[a].snap = [site EXCEPT !.price = Laid(want, @)]
    BY <2>2, <2>4
  <2>8. torn' = (torn \/ ~Alone(a) \/ (kind = "catalog" /\ commands # <<>>))
    BY <2>3
  <2>9. ~Busy(a) /\ UNCHANGED <<stores, commands, asked>>
    BY <1>1
  <2> QED BY <2>1, <2>4, <2>5, <2>6, <2>7, <2>8, <2>9, StartStores
<1>2. [Nozzle -> Price] \subseteq Wanted
  BY WantedType
<1>3. ASSUME NEW want \in Wanted, OperatorPrices(want) PROVE StoresInv'
  BY <1>3, SameDesk DEF OperatorPrices, stores
<1>4. ASSUME NEW a \in Admin, NEW want \in Wanted, RequestPrices(a, want) PROVE StoresInv'
  BY <1>1, <1>4 DEF RequestPrices
<1>5. ASSUME NEW a \in Admin, NEW want \in [Nozzle -> Price], RequestCatalog(a, want)
      PROVE  StoresInv'
  BY <1>1, <1>2, <1>5 DEF RequestCatalog
<1>6. ASSUME NEW c \in Change, CancelScheduled(c) \/ FallsDue(c) \/ \E p \in Price : CreateScheduled(c, p)
      PROVE  StoresInv'
  BY <1>6, StoresFrame DEF CancelScheduled, FallsDue, CreateScheduled, ghosts
<1> QED BY <1>3, <1>4, <1>5, <1>6 DEF Request

(* The scheduler starts a change. *)
LEMMA ApplyStores ==
    ASSUME TypeInv, HandsSound, StoresInv, NEW c \in Change, ApplyScheduled(c)
    PROVE  StoresInv'
<1> DEFINE want == [n \in Nozzle |-> plan[c].price]
<1> DEFINE todo == {n \in Nozzle : site.price[n] # want[n]}
<1> DEFINE snap == [site EXCEPT !.price = want]
<1>1. /\ desk \in [Writer -> Job] /\ Scheduler \in Writer \ {Server}
      /\ site \in Site
  BY DEF TypeInv, DeskOK, SoundJob, Writer, Scheduler, Server, StoresOK
<1>2. want \in [Nozzle -> Price] /\ want \in Wanted
  BY WantedType DEF TypeInv, RowsOK, Plan
<1>3. snap = [site EXCEPT !.price = Laid(want, site.price)]
  BY <1>1 DEF Laid, Site
<1>4. /\ desk' = [desk EXCEPT ![Scheduler] =
                     [desk[Scheduler] EXCEPT !.at = "db", !.want = want, !.todo = todo,
                                             !.snap = snap, !.change = c, !.due = @ \ {c}]]
      /\ ~Busy(Scheduler) /\ torn' = (torn \/ ~Alone(Scheduler))
      /\ UNCHANGED <<stores, commands, asked>>
  BY <1>1 DEF ApplyScheduled, Busy
<1>5. todo = {n \in DOMAIN want : site.price[n] # want[n]}
  OBVIOUS
<1> HIDE DEF want, todo, snap
<1>6. /\ desk'[Scheduler].at = "db" /\ desk'[Scheduler].kind = desk[Scheduler].kind
      /\ desk'[Scheduler].want = want /\ desk'[Scheduler].todo = todo
      /\ desk'[Scheduler].snap = snap
      /\ \A v \in Writer \ {Scheduler} : desk'[v] = desk[v]
  BY <1>1, <1>4 DEF Job
<1>7. desk'[Scheduler].kind = "prices"
  BY <1>6 DEF HandsSound
<1>8. /\ todo = {n \in DOMAIN want : "prices" = "catalog" \/ site.price[n] # want[n]}
      /\ torn' = (torn \/ ~Alone(Scheduler) \/ ("prices" = "catalog" /\ commands # <<>>))
  BY <1>4, <1>5
<1> QED BY <1>1, <1>2, <1>3, <1>4, <1>6, <1>7, <1>8, StartStores

(* A pull begins: the configuration is compared, and nothing is written yet. *)
LEMMA PullStarts ==
    ASSUME TypeInv, StoresInv, NEW remote \in Wanted, PullPrices(remote)
    PROVE  StoresInv'
<1> DEFINE want == [n \in {m \in DOMAIN remote : site.price[m] # remote[m]} |-> remote[n]]
<1>1. desk \in [Writer -> Job] /\ Server \in Writer /\ desk[Server] \in Job
  BY DEF TypeInv, DeskOK, SoundJob, Writer
<1>2. /\ desk' = [desk EXCEPT ![Server] = [desk[Server] EXCEPT !.at = "apply", !.kind = "pull",
                                                         !.want = want, !.todo = DOMAIN want]]
      /\ ~Busy(Server) /\ torn' = (torn \/ ~Alone(Server))
      /\ UNCHANGED <<stores, commands, asked>>
  BY <1>1 DEF PullPrices
<1> HIDE DEF want
<1>3. /\ desk'[Server].at = "apply" /\ desk'[Server].kind = "pull" /\ desk'[Server].want = want
      /\ desk'[Server].todo = DOMAIN want /\ \A v \in Writer \ {Server} : desk'[v] = desk[v]
  BY <1>1, <1>2 DEF Job
<1>4. torn' \/ (/\ \A v \in Writer \ {Server} : ~Busy(v)
                /\ site.tanks = asked /\ file.tanks = asked /\ Mine(Server))
  BY <1>1, <1>2, OnlyOne
<1>5. ASSUME ~torn' PROVE Mine(Server)'
  <2>1. db = site.price /\ \A n \in Nozzle : Coming(n, db[n])'
    BY <1>2, <1>4, <1>5, ComingKept DEF Mine, Agreed, stores
  <2> QED BY <1>2, <1>3, <2>1 DEF Mine, Changing, Ending, Pulling, Busy, stores
<1> QED BY <1>1, <1>2, <1>3, <1>4, <1>5, OneWriter DEF stores

(* The configuration has the pulled prices, and the lanes are told. *)
LEMMA PullApplies ==
    ASSUME TypeInv, StoresInv, NEW saved \in BOOLEAN, ApplyPull(saved)
    PROVE  StoresInv'
<1>1. /\ desk \in [Writer -> Job] /\ Server \in Writer /\ desk[Server] \in Job
      /\ site \in Site /\ site.price \in [Nozzle -> Price] /\ commands \in Seq(Wanted)
  BY DEF TypeInv, DeskOK, SoundJob, Writer, StoresOK, Site
<1>0. PICK want \in Wanted : want = desk[Server].want
  BY <1>1 DEF Job
<1>2. /\ desk[Server].at = "apply" /\ desk' = [desk EXCEPT ![Server].at = "db"]
      /\ site' = [site EXCEPT !.price = Laid(want, @)]
      /\ file' \in {file, site'} /\ UNCHANGED <<db, lane, asked>>
      /\ torn' \/ (commands' = Append(commands, want) /\ UNCHANGED torn)
      /\ torn => torn'
  BY <1>0 DEF ApplyPull
<1>3. /\ desk'[Server].at = "db" /\ desk'[Server].kind = desk[Server].kind
      /\ desk'[Server].want = want /\ desk'[Server].todo = desk[Server].todo
      /\ \A v \in Writer \ {Server} : desk'[v] = desk[v]
  BY <1>0, <1>1, <1>2 DEF Job
<1>4. desk[Server].kind = "pull"
  BY <1>2 DEF StoresInv, ServerPulls
<1>5. /\ site'.tanks = site.tanks
      /\ \A n \in Nozzle : site'.price[n] = IF n \in DOMAIN want THEN want[n] ELSE site.price[n]
  BY <1>1, <1>2 DEF Site, Laid
<1>6. torn \/ (/\ \A v \in Writer \ {Server} : ~Busy(v)
               /\ site.tanks = asked /\ file.tanks = asked /\ Mine(Server))
  BY <1>1, <1>2, OnlyOne DEF Busy
<1>7. ASSUME ~torn' PROVE Mine(Server)'
  <2>1. /\ db = site.price /\ desk[Server].todo = DOMAIN want
        /\ \A n \in Nozzle : Coming(n, db[n])
    BY <1>0, <1>2, <1>6, <1>7 DEF Mine, Pulling
  <2>2. \A n \in Nozzle :
          /\ n \in DOMAIN want => Coming(n, want[n])'
          /\ n \notin DOMAIN want => \A p : Coming(n, p) => Coming(n, p)'
    BY <1>1, <1>2, <1>3, <1>7, ComingSent
  <2>3. \A n \in Nozzle : Coming(n, site.price[n])'
    <3> SUFFICES ASSUME NEW n \in Nozzle PROVE Coming(n, site.price[n])'
      OBVIOUS
    <3>1. CASE n \in DOMAIN want
      BY <1>5, <2>2, <3>1 DEF Coming, Named
    <3>2. CASE n \notin DOMAIN want
      BY <1>5, <2>1, <2>2, <3>2 DEF Coming, Named
    <3> QED BY <3>1, <3>2
  <2>4. \A n \in Nozzle :
          IF n \in desk'[Server].todo THEN site'.price[n] = desk'[Server].want[n]
          ELSE db'[n] = site'.price[n]
    BY <1>2, <1>3, <1>5, <2>1
  <2> QED BY <1>3, <1>4, <2>3, <2>4 DEF Mine, Changing, Ending, Pulling, Busy
<1> QED BY <1>1, <1>2, <1>3, <1>4, <1>5, <1>6, <1>7, OneWriter

(* A price that the database refuses tears the stores. *)
LEMMA PullSkipsStores ==
    ASSUME TypeInv, StoresInv, NEW n \in Nozzle, PullSkips(n)
    PROVE  StoresInv'
<1>1. desk \in [Writer -> Job] /\ Server \in Writer /\ desk[Server] \in Job
  BY DEF TypeInv, DeskOK, SoundJob, Writer
<1>2. /\ desk'[Server].kind = desk[Server].kind /\ desk[Server].at = "db" /\ torn'
      /\ \A v \in Writer \ {Server} : desk'[v] = desk[v]
  BY <1>1 DEF PullSkips, Job
<1>3. desk[Server].kind = "pull"
  BY <1>2 DEF StoresInv, ServerPulls
<1> QED BY <1>1, <1>2, <1>3, OneWriter

(* The tank section is edited. *)
LEMMA EditStores ==
    ASSUME TypeInv, StoresInv, NEW t \in Tanks, EditTanks(t)
    PROVE  StoresInv'
<1>1. /\ site \in Site /\ site' = [site EXCEPT !.tanks = t] /\ file' = site' /\ asked' = t
      /\ torn' = (torn \/ CopyOut) /\ UNCHANGED <<db, lane, commands, desk>>
  BY DEF EditTanks, TypeInv, StoresOK
<1>2. site'.tanks = t /\ site'.price = site.price
  BY <1>1 DEF Site
<1>3. \A n \in Nozzle : \A p : Coming(n, p) => Coming(n, p)'
  BY <1>1, ComingKept
<1>4. ASSUME ~torn' PROVE Untorn'
  <2>1. Untorn
    BY <1>1, <1>4 DEF StoresInv
  <2>2. \A v \in Writer : (Changing(v) /\ Ending(v) /\ Pulling(v))'
    <3> SUFFICES ASSUME NEW v \in Writer PROVE (Changing(v) /\ Ending(v) /\ Pulling(v))'
      OBVIOUS
    <3>1. Changing(v) /\ Ending(v) /\ Pulling(v)
      BY <2>1 DEF Untorn
    <3>2. desk[v].at \in {"db", "save", "swap"} => desk[v].kind = "pull"
      BY <1>1, <1>4 DEF CopyOut, StoresInv, ServerPulls
    <3>3. Changing(v)'
      BY <1>1, <3>2 DEF Changing
    <3>4. Ending(v)'
      BY <1>1, <1>2, <1>3, <3>1 DEF Ending
    <3>5. Pulling(v)'
      BY <1>1, <1>2, <1>3, <3>1 DEF Pulling
    <3> QED BY <3>3, <3>4, <3>5
  <2>3. Agreed => Agreed'
    BY <1>1, <1>2, <1>3 DEF Agreed
  <2> QED BY <1>1, <1>2, <2>1, <2>2, <2>3 DEF Untorn, Busy
<1> QED BY <1>1, <1>4 DEF StoresInv, PullsServer, ServerPulls

(* A restart lays the database over the file. *)
LEMMA CrashStores ==
    ASSUME TypeInv, StoresInv, Crash
    PROVE  StoresInv'
<1>1. \A w \in Writer : desk'[w].at = "rest" /\ desk'[w].kind = "prices"
  BY RestType DEF Crash, Restart
<1>2. /\ site'.price = db' /\ site'.tanks = file.tanks /\ lane' = db' /\ commands' = <<>>
      /\ UNCHANGED <<db, file, asked>>
  BY DEF Crash, Restart, Overlaid, TypeInv, StoresOK, Site
<1>3. torn' \/ file.tanks = asked
  BY DEF Crash, StoresInv, Untorn
<1>4. (\A w \in Writer : Changing(w) /\ Ending(w) /\ Pulling(w) /\ ~Busy(w))'
  BY <1>1 DEF Changing, Ending, Pulling, Busy
<1>5. Agreed'
  BY <1>2 DEF Agreed, Coming
<1> QED BY <1>1, <1>2, <1>3, <1>4, <1>5 DEF StoresInv, PullsServer, ServerPulls, Untorn, Writer

LEMMA InitStores ==
    ASSUME TankInit
    PROVE  StoresInv
<1>1. \A w \in Writer : desk[w].at = "rest" /\ desk[w].kind = "prices"
  BY RestType DEF TankInit, Init
<1>2. site.tanks = asked /\ file.tanks = asked /\ site.price = db /\ lane = db /\ commands = <<>>
  BY DEF TankInit, Init
<1>3. \A w \in Writer : Changing(w) /\ Ending(w) /\ Pulling(w) /\ ~Busy(w)
  BY <1>1 DEF Changing, Ending, Pulling, Busy
<1>4. Agreed
  BY <1>2, ComingNow DEF Agreed
<1> QED BY <1>1, <1>2, <1>3, <1>4 DEF StoresInv, PullsServer, ServerPulls, Untorn, Writer

(* Every step keeps what the changes in progress have reached. *)
LEMMA NextStores ==
    ASSUME TypeInv, HandsSound, StoresInv, [Next]_vars
    PROVE  StoresInv'
<1>1. ASSUME NEW w \in Writer, Proceed(w) PROVE StoresInv'
  BY <1>1, WritePriceStores, WriteCatalogStores, WrittenStores, SaveFileStores, SwapStores,
     TellStores DEF Proceed
<1>2. CASE PriceStep
  BY <1>1, <1>2, FailsStores, ClaimStores, MarkStores, ApplyStores, RequestStores, PullStarts, PullApplies,
     PullSkipsStores, LanesStores DEF PriceStep, Schedule, Pull
<1>3. CASE Gauge \/ Deliver \/ UNCHANGED vars
  <2>1. UNCHANGED <<stores, commands, desk, asked, torn>>
    BY <1>3, GaugeFrame DEF Unpriced, ghosts, vars, priceVars
  <2> QED BY <2>1, StoresFrame
<1> QED BY <1>2, <1>3, EditStores, CrashStores DEF Next, Edit, CrashAll

(* When no change is in progress and no command on its way, the database, the  *)
(* configuration and the lanes have the same prices, and the tank section last *)
(* asked for is in force and on disk: for any nozzles, prices, requests,       *)
(* failures and restarts, and any room in the queue, unless a change was torn. *)
(* Nothing is said of the prices in the file, which a restart overwrites.      *)
THEOREM StoresAgreed == Spec => []StoresAgree
<1>1. TankInit => TypeInv /\ ScheduleInv /\ StoresInv
  BY InitTypes, InitSchedule, InitStores
<1>2. TypeInv /\ ScheduleInv /\ StoresInv /\ [Next]_vars => (TypeInv /\ ScheduleInv /\ StoresInv)'
  BY NextKeeps, NextSchedule, NextStores DEF ScheduleInv
<1>3. TypeInv /\ StoresInv => StoresAgree
  <2> SUFFICES ASSUME TypeInv, StoresInv, commands = <<>>, \A w \in Writer : ~Busy(w), ~torn
               PROVE  /\ db = site.price /\ lane = db
                      /\ site.tanks = asked /\ file.tanks = asked
    BY DEF StoresAgree
  <2>1. Untorn /\ Agreed
    BY DEF StoresInv, Untorn
  <2>2. \A n \in Nozzle : lane[n] = db[n]
    <3>1. DOMAIN commands = {}
      OBVIOUS
    <3> QED BY <2>1, <3>1 DEF Agreed, Coming
  <2> QED BY <2>1, <2>2 DEF Untorn, Agreed, TypeInv, StoresOK
<1> QED BY <1>1, <1>2, <1>3, PTL DEF Spec

----------------------------------------------------------------------------
(* The samples. ExportKept does not survive the post of just any sample: the   *)
(* courier's is the oldest that waits for its service, and a sample that is to *)
(* come is younger than every one stored so far.                               *)

SamplesOK ==
    /\ outbox \subseteq Sample /\ exported \subseteq Sample
    /\ got \in [Url -> Seq(Sample)]
    /\ courier \in [at : {"rest", "posting", "taken"}, row : Sample \cup {None}]

(* The rounds are counted down. *)
Younger ==
    /\ \A s \in exported : s.of > left.rounds
    /\ round.at = "read" => /\ round.number > left.rounds
                            /\ \A s \in exported : s.of > round.number

(* What the courier has in hand. *)
InPost ==
    courier.at # "rest" =>
        LET s == courier.row
        IN  /\ s \in outbox /\ \A t \in Waiting(s.to) : ~Older(t, s)
            /\ courier.at = "taken" => got[s.to] # <<>> /\ got[s.to][Len(got[s.to])] = s

ExportInv == SamplesOK /\ Younger /\ InPost /\ ExportKept

(* Rounds are only spent. *)
LEMMA RoundsSpent ==
    ASSUME TypeInv, [Next]_vars
    PROVE  /\ left.rounds \in Nat /\ left'.rounds \in Nat /\ left'.rounds <= left.rounds
           /\ BeginRound => left'.rounds < left.rounds
<1>1. left \in Budget /\ left' \in Budget
  BY NextKeeps DEF TypeInv, GhostsOK
<1>2. left.rounds \in Nat /\ left'.rounds \in Nat
  BY <1>1 DEF Budget
<1>3. ASSUME NEW what \in {"changes", "catalogs", "local", "plans", "cancels", "pulls", "edits",
                           "errors", "crashes"}, Spend(what)
      PROVE  left'.rounds = left.rounds
  BY <1>1, <1>3 DEF Spend, Budget
<1>4. BeginRound => left'.rounds < left.rounds
  BY <1>1 DEF BeginRound, Spend, Budget
<1> SUFFICES left'.rounds <= left.rounds
  BY <1>2, <1>4
<1>5. ASSUME NEW w \in Writer, Proceed(w) PROVE UNCHANGED left
  BY <1>5 DEF Proceed, WritePrice, WriteCatalog, Written, SaveFile, Swap, SyncLanes, SendPrices
<1>6. ASSUME \/ \E w \in Writer : Fails(w)
             \/ \E c \in Change : MarkFailed(c) \/ MarkFails(c)
      PROVE  left'.rounds = left.rounds
  BY <1>3, <1>6 DEF Fails, MarkFailed, MarkFails
<1>7. CASE Schedule \/ LanesTake \/ LanesReread \/ UNCHANGED vars
  <2>1. UNCHANGED left
    BY <1>7 DEF Schedule, ClaimDue, ApplyScheduled, MarkFailed, LanesTake, LanesReread, vars,
                priceVars
  <2> QED BY <1>2, <2>1
<1>8. CASE Request
  <2>1. \/ UNCHANGED left \/ Spend("changes") \/ Spend("catalogs") \/ Spend("plans")
        \/ Spend("cancels") \/ Spend("local")
    BY <1>8 DEF Request, RequestPrices, RequestCatalog, CreateScheduled, FallsDue,
                CancelScheduled, OperatorPrices
  <2> QED BY <1>2, <1>3, <2>1
<1>9. CASE Pull
  <2>1. UNCHANGED left \/ Spend("pulls") \/ Spend("errors")
    BY <1>9 DEF Pull, PullPrices, ApplyPull, PullSkips
  <2> QED BY <1>2, <1>3, <2>1
<1>10. CASE PriceStep
  BY <1>2, <1>5, <1>6, <1>7, <1>8, <1>9, <1>10 DEF PriceStep
<1>11. CASE Gauge \/ Deliver
  <2>1. BeginRound \/ UNCHANGED left \/ Spend("errors")
    BY <1>11 DEF Gauge, Deliver, Catalog, ReadBranch, Persist, Pick, Arrive, PostFails,
                 DeleteSent, priceVars
  <2> QED BY <1>2, <1>3, <1>4, <2>1
<1>12. CASE CrashAll \/ \E t \in Tanks : Edit(t)
  <2>1. Spend("crashes") \/ Spend("edits")
    BY <1>12 DEF CrashAll, Crash, Edit, EditTanks
  <2> QED BY <1>2, <1>3, <2>1
<1> QED BY <1>7, <1>10, <1>11, <1>12 DEF Next

(* Two samples of a service are of different rounds. *)
LEMMA SameSample ==
    ASSUME NEW s \in Sample, NEW t \in Sample, s.to = t.to, s.of = t.of
    PROVE  s = t
BY DEF Sample

(* Steps that leave the samples alone; the courier may come to rest. *)
LEMMA SamplesFrame ==
    ASSUME TypeInv, ExportInv, [Next]_vars, UNCHANGED <<outbox, exported, got>>,
           UNCHANGED courier \/ courier' = Resting
    PROVE  SamplesOK' /\ InPost' /\ ExportKept' /\ \A s \in exported' : s.of > left'.rounds
<1>1. SamplesOK'
  BY DEF ExportInv, SamplesOK, Resting
<1>2. InPost'
  BY DEF ExportInv, InPost, Resting, Waiting
<1>3. ExportKept'
  BY DEF ExportInv, ExportKept, Waiting, Took
<1>4. \A s \in exported' : s.of > left'.rounds
  BY RoundsSpent DEF ExportInv, Younger, SamplesOK, Sample
<1> QED BY <1>1, <1>2, <1>3, <1>4

(* A sample that is stored is younger than all before it. *)
LEMMA PersistKeeps ==
    ASSUME TypeInv, GaugeOK, ExportInv, Persist
    PROVE  ExportInv'
<1>1. PICK new \in SUBSET Sample :
          /\ outbox' = outbox \cup new /\ exported' = exported \cup new
          /\ \A s \in new : s.of = round.number
          /\ \A s, t \in new : s = t
  <2>1. Samples \subseteq Sample /\ \A s \in Samples : s.of = round.number
    BY DEF Persist, GaugeOK, Samples, Sample, Url
  <2>2. \A s, t \in Samples : s = t
    BY DEF Samples
  <2> QED BY <2>1, <2>2 DEF Persist
<1>2. /\ UNCHANGED <<got, courier, left>> /\ round' = NoRound
      /\ round.number > left.rounds /\ \A s \in exported : s.of > round.number
  BY DEF Persist, ExportInv, Younger, priceVars
<1>3. SamplesOK'
  BY <1>1, <1>2 DEF ExportInv, SamplesOK
<1>4. Younger'
  BY <1>1, <1>2 DEF ExportInv, Younger, NoRound
<1>5. outbox \subseteq exported /\ \A u \in Url : \A i \in DOMAIN got[u] : got[u][i] \in exported
  BY DEF ExportInv, ExportKept, SamplesOK, Waiting, Took, Sample
<1>6. \A s \in exported, t \in new : Older(s, t) /\ ~Older(t, s)
  <2>1. round.number \in Nat /\ \A s \in exported : s.of \in Nat
    BY DEF GaugeOK, ExportInv, SamplesOK, Sample
  <2> QED BY <1>1, <1>2, <2>1 DEF Older
<1>7. InPost'
  BY <1>1, <1>2, <1>5, <1>6 DEF ExportInv, InPost, Waiting
<1>8. ASSUME NEW u \in Url
      PROVE  /\ {s \in exported' : s.to = u} = Took(u)' \cup Waiting(u)'
             /\ \A i, j \in DOMAIN got'[u] : i < j => Older(got'[u][i], got'[u][j])
             /\ \A i \in DOMAIN got'[u], s \in Waiting(u)' :
                   Older(got'[u][i], s) \/ (i = Len(got'[u]) /\ s = got'[u][i])
  <2>1. {s \in exported' : s.to = u} = Took(u)' \cup Waiting(u)'
    BY <1>1, <1>2 DEF ExportInv, ExportKept, Waiting, Took
  <2>2. ASSUME NEW i \in DOMAIN got'[u], NEW s \in Waiting(u)'
        PROVE  Older(got'[u][i], s) \/ (i = Len(got'[u]) /\ s = got'[u][i])
    <3>1. CASE s \in new
      BY <1>2, <1>5, <1>6, <3>1
    <3>2. CASE s \in Waiting(u)
      BY <1>2, <3>2 DEF ExportInv, ExportKept
    <3> QED BY <1>1, <3>1, <3>2 DEF Waiting
  <2> QED BY <1>2, <2>1, <2>2 DEF ExportInv, ExportKept
<1> QED BY <1>3, <1>4, <1>7, <1>8 DEF ExportInv, ExportKept

(* The service takes the oldest sample that waits, or has it already. *)
LEMMA ArriveKeeps ==
    ASSUME TypeInv, ExportInv, [Next]_vars, NEW answered \in BOOLEAN, Arrive(answered)
    PROVE  ExportInv'
<1>1. PICK s \in Sample :
          /\ s = courier.row /\ s \in outbox /\ s.to \in Url
          /\ \A t \in Waiting(s.to) : ~Older(t, s)
  BY DEF Arrive, ExportInv, InPost, SamplesOK, Sample
<1> DEFINE old == got[s.to]
<1> DEFINE new == got'[s.to]
<1>2. /\ old \in Seq(Sample) /\ new = Take(s.to, s)
      /\ \A u \in Url \ {s.to} : got'[u] = got[u]
      /\ UNCHANGED <<outbox, exported, round>>
      /\ courier.at = "posting" /\ courier' \in {Resting, [courier EXCEPT !.at = "taken"]}
  BY <1>1 DEF Arrive, ExportInv, SamplesOK, gaugeVars
<1>3. /\ \A t \in Waiting(s.to) : t = s \/ Older(s, t)
      /\ s \in Waiting(s.to)
  <2> SUFFICES ASSUME NEW t \in Waiting(s.to) PROVE t = s \/ Older(s, t)
    BY <1>1 DEF Waiting
  <2>1. t \in Sample /\ t.to = s.to /\ t.of \in Nat /\ s.of \in Nat
    BY DEF Waiting, ExportInv, SamplesOK, Sample
  <2> QED BY <1>1, <2>1, SameSample DEF Older
<1>4. /\ new \in Seq(Sample) /\ new # <<>> /\ new[Len(new)] = s
      /\ \A i \in DOMAIN new : i < Len(new) => i \in DOMAIN old /\ new[i] = old[i] /\ Older(old[i], s)
      /\ \A i \in DOMAIN old : \E j \in DOMAIN new : new[j] = old[i]
      /\ Len(new) \in DOMAIN new /\ DOMAIN new = 1 .. Len(new)
  <2>0. /\ DOMAIN old = 1 .. Len(old) /\ Len(old) \in Nat
        /\ \A i \in DOMAIN old : Older(old[i], s) \/ (i = Len(old) /\ s = old[i])
    BY <1>1, <1>2, <1>3 DEF ExportInv, ExportKept
  <2>1. CASE old # <<>> /\ old[Len(old)] = s
    <3>1. new = old /\ Len(old) \in DOMAIN old
      BY <1>2, <2>0, <2>1 DEF Take
    <3>2. \A i \in DOMAIN old : i < Len(old) => Older(old[i], s)
      BY <2>0
    <3> HIDE DEF old, new
    <3> QED BY <1>2, <2>0, <2>1, <3>1, <3>2
  <2>2. CASE ~(old # <<>> /\ old[Len(old)] = s)
    <3>1. new = Append(old, s)
      BY <1>2, <2>2 DEF Take
    <3>2. \A i \in DOMAIN old : Older(old[i], s)
      BY <2>0, <2>2
    <3> HIDE DEF old, new
    <3> QED BY <1>2, <2>0, <3>1, <3>2
  <2> QED BY <2>1, <2>2
<1> HIDE DEF old, new
<1>5. ASSUME NEW u \in Url
      PROVE  /\ {t \in exported' : t.to = u} = Took(u)' \cup Waiting(u)'
             /\ \A i, j \in DOMAIN got'[u] : i < j => Older(got'[u][i], got'[u][j])
             /\ \A i \in DOMAIN got'[u], t \in Waiting(u)' :
                   Older(got'[u][i], t) \/ (i = Len(got'[u]) /\ t = got'[u][i])
  <2>0. Waiting(u)' = Waiting(u)
    BY <1>2 DEF Waiting
  <2>1. CASE u # s.to
    BY <1>2, <2>0, <2>1 DEF ExportInv, ExportKept, Took
  <2>2. CASE u = s.to
    <3>1. Took(u)' = Took(u) \cup {s}
      BY <1>4, <2>2 DEF Took, old, new
    <3>2. {t \in exported' : t.to = u} = Took(u)' \cup Waiting(u)'
      BY <1>2, <1>3, <2>0, <2>2, <3>1 DEF ExportInv, ExportKept
    <3>3. \A i, j \in DOMAIN old : i < j => Older(old[i], old[j])
      BY <1>1 DEF ExportInv, ExportKept, old
    <3>4. ASSUME NEW i \in DOMAIN new, NEW j \in DOMAIN new, i < j
          PROVE  Older(new[i], new[j])
      <4>1. i < Len(new) /\ (j < Len(new) \/ j = Len(new))
        BY <1>4, <3>4
      <4> QED BY <1>4, <3>3, <3>4, <4>1
    <3>5. ASSUME NEW i \in DOMAIN new, NEW t \in Waiting(u)
          PROVE  Older(new[i], t) \/ (i = Len(new) /\ t = new[i])
      <4>1. CASE i = Len(new)
        BY <1>3, <1>4, <2>2, <4>1
      <4>2. CASE i < Len(new)
        <5>1. new[i] \in Sample /\ t \in Sample
          BY <1>4 DEF Waiting, ExportInv, SamplesOK
        <5>2. new[i].of \in Nat /\ t.of \in Nat /\ s.of \in Nat
          BY <5>1 DEF Sample
        <5> QED BY <1>3, <1>4, <2>2, <4>2, <5>2 DEF Older
      <4> QED BY <1>4, <4>1, <4>2
    <3> QED BY <2>0, <2>2, <3>2, <3>4, <3>5 DEF new
  <2> QED BY <2>1, <2>2
<1>6. SamplesOK'
  <2>1. got' \in [Url -> Seq(Sample)]
    BY <1>1, <1>2, <1>4 DEF ExportInv, SamplesOK, Arrive, new
  <2> QED BY <1>2, <2>1 DEF ExportInv, SamplesOK, Resting
<1>7. InPost'
  <2>1. ASSUME courier' = [courier EXCEPT !.at = "taken"] PROVE InPost'
    <3>1. courier'.row = s
      BY <1>1, <2>1 DEF ExportInv, SamplesOK
    <3>2. \A t \in Waiting(s.to)' : ~Older(t, s)
      BY <1>1, <1>2 DEF Waiting
    <3> QED BY <1>1, <1>2, <1>4, <3>1, <3>2 DEF InPost, new
  <2> QED BY <1>2, <2>1 DEF InPost, Resting
<1>8. Younger'
  <2>1. /\ \A t \in exported : t.of \in Nat
        /\ left'.rounds <= left.rounds /\ left.rounds \in Nat /\ left'.rounds \in Nat
    BY RoundsSpent DEF ExportInv, SamplesOK, Sample
  <2>2. left' = left \/ Spend("errors")
    BY DEF Arrive
  <2>3. left'.rounds = left.rounds
    BY <2>2 DEF Spend, TypeInv, GhostsOK, Budget
  <2> QED BY <1>2, <2>3 DEF ExportInv, Younger
<1> QED BY <1>5, <1>6, <1>7, <1>8 DEF ExportInv, ExportKept

(* What was taken is deleted. *)
LEMMA DeleteKeeps ==
    ASSUME ExportInv, DeleteSent
    PROVE  ExportInv'
<1>1. PICK s \in Sample :
          /\ s = courier.row /\ s.to \in Url /\ got[s.to] # <<>>
          /\ got[s.to][Len(got[s.to])] = s
  BY DEF DeleteSent, ExportInv, InPost, SamplesOK, Sample
<1>2. /\ outbox' = outbox \ {s} /\ courier' = Resting
      /\ UNCHANGED <<exported, got, round, left>>
  BY <1>1 DEF DeleteSent, priceVars, gaugeVars
<1>3. s \in Took(s.to)
  <2>1. got[s.to] \in Seq(Sample)
    BY <1>1 DEF ExportInv, SamplesOK
  <2>2. Len(got[s.to]) \in DOMAIN got[s.to]
    BY <1>1, <2>1
  <2> QED BY <1>1, <2>2 DEF Took
<1>4. \A u \in Url : Took(u)' = Took(u) /\ Waiting(u)' = Waiting(u) \ {s}
  BY <1>2 DEF Took, Waiting
<1>5. \A u \in Url : {t \in exported' : t.to = u} = Took(u)' \cup Waiting(u)'
  BY <1>2, <1>3, <1>4 DEF ExportInv, ExportKept, Waiting
<1>6. ExportKept'
  BY <1>2, <1>4, <1>5 DEF ExportInv, ExportKept
<1>7. SamplesOK' /\ Younger' /\ InPost'
  BY <1>2 DEF ExportInv, SamplesOK, Younger, InPost, Resting
<1> QED BY <1>6, <1>7 DEF ExportInv

LEMMA InitSamples ==
    ASSUME TankInit
    PROVE  ExportInv
BY DEF TankInit, ExportInv, SamplesOK, Younger, InPost, ExportKept, Resting, NoRound, Waiting, Took

(* Every step keeps the samples in order. *)
LEMMA NextSamples ==
    ASSUME TypeInv, GaugeOK, ExportInv, [Next]_vars
    PROVE  ExportInv'
<1>1. ASSUME UNCHANGED <<outbox, exported, got>>, UNCHANGED courier \/ courier' = Resting,
             round'.at = "read" => round.at = "read" /\ round'.number = round.number
      PROVE  ExportInv'
  <2>1. Younger'
    <3>2. left.rounds \in Nat /\ left'.rounds \in Nat /\ left'.rounds <= left.rounds
      BY RoundsSpent
    <3>3. round.number \in Nat
      BY DEF GaugeOK
    <3> QED BY <1>1, <3>2, <3>3, SamplesFrame DEF ExportInv, Younger
  <2> QED BY <1>1, <2>1, SamplesFrame DEF ExportInv
<1>2. CASE BeginRound
  <2>1. /\ UNCHANGED <<outbox, exported, got, courier>>
        /\ round'.at = "read" /\ round'.number = left.rounds /\ left'.rounds < left.rounds
    BY <1>2, RoundsSpent DEF BeginRound, exportVars
  <2>2. Younger'
    BY <2>1, SamplesFrame DEF ExportInv, Younger
  <2> QED BY <2>1, <2>2, SamplesFrame DEF ExportInv
<1>3. CASE Pick
  <2>1. PICK s \in outbox :
            /\ \A t \in Waiting(s.to) : ~Older(t, s)
            /\ courier' = [at |-> "posting", row |-> s]
    BY <1>3 DEF Pick, Waiting
  <2>2. UNCHANGED <<outbox, exported, got, round, left>>
    BY <1>3 DEF Pick, priceVars, gaugeVars
  <2>3. SamplesOK' /\ Younger' /\ ExportKept'
    BY <2>1, <2>2 DEF ExportInv, SamplesOK, Younger, ExportKept, Waiting, Took
  <2>4. InPost'
    BY <2>1, <2>2 DEF InPost, Waiting
  <2> QED BY <2>3, <2>4 DEF ExportInv
<1>4. ASSUME NEW b \in Branch, NEW ok \in BOOLEAN, ReadBranch(b, ok) PROVE ExportInv'
  <2>1. round' = NoRound \/ \E open, read : round' = [round EXCEPT !.open = open, !.read = read]
    BY <1>4 DEF ReadBranch
  <2>2. round'.at = "read" => round.at = "read" /\ round'.number = round.number
    <3>1. round \in [at : {"rest", "read"}, of : Tanks \cup {None}, open : SUBSET Branch,
                     read : SUBSET Branch, number : Nat]
      BY DEF GaugeOK
    <3>2. ASSUME NEW open, NEW read, round' = [round EXCEPT !.open = open, !.read = read]
          PROVE  round'.at = round.at /\ round'.number = round.number
      BY <3>1, <3>2
    <3>3. CASE round' = NoRound
      BY <3>3 DEF NoRound
    <3>4. CASE \E open, read : round' = [round EXCEPT !.open = open, !.read = read]
      BY <3>2, <3>4
    <3> QED BY <2>1, <3>3, <3>4
  <2> QED BY <1>1, <1>4, <2>2 DEF ReadBranch, exportVars
<1>5. CASE PriceStep /\ UNCHANGED <<gaugeVars, exportVars>>
  BY <1>1, <1>5 DEF gaugeVars, exportVars
<1>6. CASE UNCHANGED vars \/ CrashAll \/ (\E t \in Tanks : Edit(t)) \/ PostFails
           \/ \E durable \in BOOLEAN : Catalog(durable)
  BY <1>1, <1>6 DEF vars, gaugeVars, exportVars, CrashAll, Edit, PostFails, Catalog, NoRound
<1> QED BY <1>2, <1>3, <1>4, <1>5, <1>6, PersistKeeps, ArriveKeeps, DeleteKeeps
        DEF Next, Gauge, Deliver

(* Every sample stored for an external service waits for it or was taken by    *)
(* it, in their order and, repeats of the last one aside, once: for any        *)
(* layouts, branches, rounds, lost answers, failures and restarts.             *)
THEOREM SamplesAreKept == Spec => []ExportKept
<1>1. TankInit => TypeInv /\ GaugeOK /\ ExportInv
  BY InitTypes, GaugeInit, InitSamples
<1>2. TypeInv /\ GaugeOK /\ ExportInv /\ [Next]_vars => (TypeInv /\ GaugeOK /\ ExportInv)'
  BY NextKeeps, GaugeTypes, NextSamples
<1>3. ExportInv => ExportKept
  BY DEF ExportInv
<1> QED BY <1>1, <1>2, <1>3, PTL DEF Spec

(* The gauge and the courier keep their types: what is posted is a sample, and *)
(* every service is given a sequence of samples.                               *)
THEOREM TankTypes == Spec => []TanksTypeOK
<1>1. TankInit => TypeInv /\ GaugeOK /\ ExportInv
  BY InitTypes, GaugeInit, InitSamples
<1>2. TypeInv /\ GaugeOK /\ ExportInv /\ [Next]_vars => (TypeInv /\ GaugeOK /\ ExportInv)'
  BY NextKeeps, GaugeTypes, NextSamples
<1>3. GaugeOK /\ ExportInv => TanksTypeOK
  BY DEF GaugeOK, Entry, ExportInv, SamplesOK, TanksTypeOK
<1> QED BY <1>1, <1>2, <1>3, PTL DEF Spec
=============================================================================
