------------------------------ MODULE TankDesk ------------------------------
(***************************************************************************)
(* The tank gauge beside the prices of a station: the loop of the crate    *)
(* atg reads its branches in rounds, shows the levels, stores the readings *)
(* for the backend and a sample for an external service in one             *)
(* transaction, and a second task, the courier, delivers the samples.      *)
(* Both read the configuration that administrators edit and price changes  *)
(* replace, so the two parts are checked together.                         *)
(***************************************************************************)
EXTENDS PriceDesk

CONSTANTS
    Branch,     \* controllers of the gauge, each with a slot of the same fuel
    Target      \* [Tanks -> Url or None]: the service a layout exports to

Url == {Target[t] : t \in Tanks} \ {None}

ASSUME BranchAssumption == Branch # {}

VARIABLES
    levels,     \* [Branch -> Level or None]: what the displays show
    known,      \* the layout the loop knows (previous), None at its start
    rows,       \* readings and catalogs in sync_queue, oldest first
    round,      \* the round the loop is in
    outbox,     \* atg_outbox: the samples that wait
    courier,    \* the delivery task: the sample it posts
    exported,   \* history: the samples stored so far
    got         \* [Url -> Seq(sample)] history: what the service took, repeats aside

gaugeVars == <<levels, known, rows, round>>
exportVars == <<outbox, courier, exported, got>>
vars == <<priceVars, gaugeVars, exportVars>>

(* A sample is named by the rounds that were left when it was taken, which     *)
(* stands for created_at: the older, the more were left.                       *)
Sample == [to : Url, of : Nat]
Older(s, t) == s.of > t.of
Level == [of : Tanks, error : BOOLEAN]
NoRound == [at |-> "rest", of |-> None, open |-> {}, read |-> {}, number |-> 0]
Resting == [at |-> "rest", row |-> None]

Unpriced == <<stores, commands, plan, desk, ghosts>>

----------------------------------------------------------------------------
(* The loop: run *)

(* Faulty: the layout is known before its catalog is durable. *)
CatalogForgotten(durable) ==
    /\ round.at = "rest" /\ known # site.tanks
    /\ levels' = [b \in Branch |-> None] /\ known' = site.tanks
    /\ IF durable
       THEN rows' = Append(rows, [kind |-> "catalog", of |-> site.tanks]) /\ UNCHANGED left
       ELSE Spend("errors") /\ UNCHANGED rows
    /\ UNCHANGED <<Unpriced, round, exportVars>>

(* A new layout empties the display; its catalog is stored before it is known. *)
Catalog(durable) ==
    /\ round.at = "rest" /\ known # site.tanks
    /\ levels' = [b \in Branch |-> None]
    /\ IF durable
       THEN /\ rows' = Append(rows, [kind |-> "catalog", of |-> site.tanks])
            /\ known' = site.tanks /\ UNCHANGED left
       ELSE Spend("errors") /\ UNCHANGED <<rows, known>>
    /\ UNCHANGED <<Unpriced, round, exportVars>>

BeginRound ==
    /\ round.at = "rest" /\ known = site.tanks /\ Spend("rounds")
    /\ round' = [at |-> "read", of |-> site.tanks, open |-> Branch, read |-> {},
                 number |-> left.rounds]
    /\ UNCHANGED <<Unpriced, levels, known, rows, exportVars>>

Seen(b, ok) ==
    levels' = [levels EXCEPT ![b] =
                  IF ok \/ @ = None THEN [of |-> round.of, error |-> ~ok]
                  ELSE [@ EXCEPT !.error = TRUE]]

(* Faulty: the layout is not looked at again after the read. *)
ReadBranchBlind(b, ok) ==
    /\ round.at = "read" /\ b \in round.open
    /\ IF ok THEN UNCHANGED left ELSE Spend("errors")
    /\ Seen(b, ok)
    /\ round' = [round EXCEPT !.open = @ \ {b}, !.read = IF ok THEN @ \cup {b} ELSE @]
    /\ UNCHANGED <<Unpriced, known, rows, exportVars>>

(* poll_round: a branch answered, or did not, and the layout may have changed   *)
(* meanwhile.  A level that is already shown stays with the error beside it.    *)
ReadBranch(b, ok) ==
    /\ round.at = "read" /\ b \in round.open
    /\ IF ok THEN UNCHANGED left ELSE Spend("errors")
    /\ IF site.tanks = round.of
       THEN /\ Seen(b, ok)
            /\ round' = [round EXCEPT !.open = @ \ {b}, !.read = IF ok THEN @ \cup {b} ELSE @]
       ELSE round' = NoRound /\ UNCHANGED levels
    /\ UNCHANGED <<Unpriced, known, rows, exportVars>>

(* build_round: a group with a branch that failed gives no sample. *)
Samples ==
    IF round.read = Branch /\ Target[round.of] # None
    THEN {[to |-> Target[round.of], of |-> round.number]} ELSE {}

(* outbox::persist: the readings and the sample in one transaction, tried again *)
(* until it succeeds.                                                           *)
Persist ==
    /\ round.at = "read" /\ round.open = {}
    /\ rows' = IF round.read = {} THEN rows
               ELSE Append(rows, [kind |-> "reading", of |-> round.of])
    /\ outbox' = outbox \cup Samples
    /\ exported' = exported \cup Samples
    /\ round' = NoRound
    /\ UNCHANGED <<priceVars, levels, known, courier, got>>

----------------------------------------------------------------------------
(* The courier: outbox::deliver and Poster::post *)

Waiting(u) == {s \in outbox : s.to = u}

(* Faulty: any sample of the service, not the oldest. *)
PickAny ==
    /\ courier.at = "rest"
    /\ \E s \in Waiting(Target[site.tanks]) : courier' = [at |-> "posting", row |-> s]
    /\ UNCHANGED <<priceVars, gaugeVars, outbox, exported, got>>

(* The oldest sample of the service the configuration names now. *)
Pick ==
    /\ courier.at = "rest"
    /\ \E s \in Waiting(Target[site.tanks]) :
          /\ \A t \in Waiting(Target[site.tanks]) : ~Older(t, s)
          /\ courier' = [at |-> "posting", row |-> s]
    /\ UNCHANGED <<priceVars, gaugeVars, outbox, exported, got>>

Took(u) == {got[u][i] : i \in DOMAIN got[u]}
Take(u, s) == IF got[u] # <<>> /\ got[u][Len(got[u])] = s THEN got[u] ELSE Append(got[u], s)

(* The service takes the sample; its answer may be lost, or the row not deleted. *)
Arrive(answered) ==
    /\ courier.at = "posting"
    /\ got' = [got EXCEPT ![courier.row.to] = Take(courier.row.to, courier.row)]
    /\ IF answered
       THEN courier' = [courier EXCEPT !.at = "taken"] /\ UNCHANGED left
       ELSE Spend("errors") /\ courier' = Resting
    /\ UNCHANGED <<Unpriced, gaugeVars, outbox, exported>>

(* The sample stays, to be posted again after a pause. *)
PostFails ==
    /\ courier.at = "posting" /\ Spend("errors")
    /\ courier' = Resting
    /\ UNCHANGED <<Unpriced, gaugeVars, outbox, exported, got>>

DeleteSent ==
    /\ courier.at = "taken"
    /\ outbox' = outbox \ {courier.row}
    /\ courier' = Resting
    /\ UNCHANGED <<priceVars, gaugeVars, exported, got>>

----------------------------------------------------------------------------
(* The tank section is edited, or the program restarts. *)

Edit(t) ==
    /\ EditTanks(t)
    /\ levels' = [b \in Branch |-> None]
    /\ UNCHANGED <<known, rows, round, exportVars>>

CrashAll ==
    /\ Crash
    /\ levels' = [b \in Branch |-> None] /\ known' = None
    /\ round' = NoRound /\ courier' = Resting
    /\ UNCHANGED <<rows, outbox, exported, got>>

Gauge ==
    \/ \E durable \in BOOLEAN : Catalog(durable)
    \/ BeginRound \/ Persist
    \/ \E b \in Branch, ok \in BOOLEAN : ReadBranch(b, ok)

Deliver == Pick \/ PostFails \/ DeleteSent \/ \E answered \in BOOLEAN : Arrive(answered)

TankInit ==
    /\ Init
    /\ levels = [b \in Branch |-> None] /\ known = None /\ rows = <<>>
    /\ round = NoRound /\ outbox = {} /\ courier = Resting
    /\ exported = {} /\ got = [u \in Url |-> <<>>]

Next ==
    \/ PriceStep /\ UNCHANGED <<gaugeVars, exportVars>>
    \/ Gauge
    \/ Deliver
    \/ \E t \in Tanks : Edit(t)
    \/ CrashAll

Spec == TankInit /\ [][Next]_vars
FairSpec == Spec /\ PriceFairness

----------------------------------------------------------------------------
TanksTypeOK ==
    /\ levels \in [Branch -> Level \cup {None}] /\ known \in Tanks \cup {None}
    /\ rows \in Seq([kind : {"catalog", "reading"}, of : Tanks])
    /\ round \in [at : {"rest", "read"}, of : Tanks \cup {None}, open : SUBSET Branch,
                  read : SUBSET Branch, number : Nat]
    /\ outbox \subseteq Sample
    /\ courier \in [at : {"rest", "posting", "taken"}, row : Sample \cup {None}]
    /\ exported \subseteq Sample /\ got \in [Url -> Seq(Sample)]

(* A level on display was read under the layout in force, whichever way edits, *)
(* rounds, price changes and restarts interleave, as long as no price change   *)
(* put back an older layout.                                                   *)
LevelsCurrent ==
    torn \/ \A b \in Branch : levels[b] # None => levels[b].of = site.tanks

(* The backend is given the catalog of a layout before any reading of it, and  *)
(* no other catalog in between.                                                *)
CatalogFirst ==
    \A i \in DOMAIN rows : rows[i].kind = "reading" =>
        \E j \in 1 .. (i - 1) :
            /\ rows[j] = [kind |-> "catalog", of |-> rows[i].of]
            /\ \A k \in j .. i : rows[k].kind = "catalog" => k = j

(* outbox.rs: "Preserve order within a destination".  Every sample stored for  *)
(* a service was taken by it or waits for it; it took them in their order, and *)
(* what waits is younger than what it took, but that its last one may not have *)
(* been deleted yet: none is lost or overtaken, and none is taken again once   *)
(* another one was.                                                            *)
ExportKept ==
    \A u \in Url :
        /\ {s \in exported : s.to = u} = Took(u) \cup Waiting(u)
        /\ \A i, j \in DOMAIN got[u] : i < j => Older(got[u][i], got[u][j])
        /\ \A i \in DOMAIN got[u], s \in Waiting(u) :
              Older(got[u][i], s) \/ (i = Len(got[u]) /\ s = got[u][i])
=============================================================================
