------------------------------ MODULE ShiftSync ------------------------------
(***************************************************************************)
(* The shift desk, the sync worker of the service (sync.rs) and what the   *)
(* central backend makes of the records it is sent (sync.service.ts).  The *)
(* worker sends the oldest unsynced records in batches; a request or its   *)
(* reply is lost, the backend fails on a record or in the middle of a      *)
(* batch, and the service crashes between a reply and the marks.           *)
(***************************************************************************)
EXTENDS ShiftDesk

CONSTANTS
    BatchSize,   \* sync.batch_size
    MaxRetries,  \* sync.max_retries
    MaxRefusals  \* bound: records the backend fails on and batches without verdicts,
                 \* together with the sales

ASSUME SyncAssumption == {BatchSize, MaxRetries} \subseteq Nat \ {0} /\ MaxRefusals \in Nat

VARIABLES
    worker,     \* the worker's place, the batch it has read and the answer to it
    known,      \* backend: processed record ids
    shown,      \* backend: the status of every shift, "none" when it has no row
    sold,       \* backend: its transactions
    refusals,   \* counter for the bound
    overtaken   \* history: the backend processed a record of a shift before an older one

backend == <<known, shown, sold>>
syncVars == <<worker, backend, refusals, overtaken>>
vars == <<deskVars, syncVars>>

Away == [at |-> "start", batch |-> <<>>, accepted |-> {}, rejected |-> {}]
Resume == [Away EXCEPT !.at = "rest"]

Due == SelectSeq(queue, LAMBDA e : ~e.synced /\ e.tries < MaxRetries)

Least(a, b) == IF a < b THEN a ELSE b

(* Faulty: the newest records first. *)
BatchNewest ==
    LET due == Reverse([i \in DOMAIN Due |-> Due[i].record])
    IN  SubSeq(due, 1, Least(Len(due), BatchSize))

(* The first records of the queue: created_at gives its order. *)
Batch ==
    LET due == [i \in DOMAIN Due |-> Due[i].record]
    IN  SubSeq(due, 1, Least(Len(due), BatchSize))

----------------------------------------------------------------------------
(* The worker. *)

(* revive_no_verdict_records, once as the worker starts. *)
Revive ==
    /\ worker.at = "start"
    /\ queue' = [i \in DOMAIN queue |->
                    IF ~queue[i].synced /\ ~queue[i].verdict
                    THEN [queue[i] EXCEPT !.tries = 0, !.verdict = TRUE] ELSE queue[i]]
    /\ worker' = Resume
    /\ UNCHANGED <<row, sale, active, step, history, backend, refusals, overtaken>>

Send ==
    /\ worker.at = "rest"
    /\ Batch # <<>>
    /\ worker' = [worker EXCEPT !.at = "sent", !.batch = Batch]
    /\ UNCHANGED <<deskVars, backend, refusals, overtaken>>

(* One row of the verdict loop. *)
Marked(e) ==
    IF e.record \in worker.accepted
    THEN [e EXCEPT !.synced = TRUE]
    ELSE [e EXCEPT !.tries = @ + 1, !.verdict = e.record \in worker.rejected]

Mark ==
    /\ worker.at = "mark"
    /\ LET r == Head(worker.batch)
           rest == Tail(worker.batch)
       IN  /\ queue' = [i \in DOMAIN queue |->
                          IF queue[i].record = r THEN Marked(queue[i]) ELSE queue[i]]
           /\ worker' = IF rest = <<>> THEN Resume ELSE [worker EXCEPT !.batch = rest]
    /\ UNCHANGED <<row, sale, active, step, history, backend, refusals, overtaken>>

----------------------------------------------------------------------------
(* The backend. *)

(* processBatch takes the records in order and skips those it has processed; a *)
(* shift takes the status of its record, and its totals are counted from the   *)
(* transactions, whose shift is the one of the first record.                   *)
Applied(batch, done) == {i \in done : batch[i] \notin known}

(* The last of the records applied decides. *)
ShownAfter(batch, done) ==
    [s \in ShiftId |->
        LET mine == {i \in Applied(batch, done) : batch[i].entity = "shift" /\ batch[i].id = s}
        IN  IF mine = {} THEN shown[s] ELSE batch[Max(mine)].status]

SoldAfter(batch, done) ==
    sold \cup {<<batch[i].id, batch[i].shift>> :
                 i \in {j \in Applied(batch, done) :
                           /\ batch[j].entity = "transaction"
                           /\ \A t \in sold : t[1] # batch[j].id}}

(* A record of a shift is processed while an older one is still to come. *)
Overtakes(after) ==
    \E i, j \in DOMAIN queue :
        /\ i < j
        /\ queue[i].record.entity = "shift" /\ queue[j].record.entity = "shift"
        /\ queue[i].record.id = queue[j].record.id
        /\ queue[i].record \notin after /\ queue[j].record \in after

(* The backend gets as far as record n; it fails on those in refused, on some *)
(* of them after it has taken them in but before it has noted their ids.      *)
Processed(n, refused) ==
    LET noted == (1 .. n) \ refused
    IN  \E half \in SUBSET refused :
            /\ shown' = ShownAfter(worker.batch, noted \cup half)
            /\ sold' = SoldAfter(worker.batch, noted \cup half)
            /\ known' = known \cup {worker.batch[i] : i \in noted}
            /\ overtaken' = (overtaken \/ Overtakes(known'))

(* What the bound counts. *)
Spent == refusals + Started

Answer(refused) ==
    worker' = [worker EXCEPT
                 !.at = "mark",
                 !.accepted = {worker.batch[i] : i \in DOMAIN worker.batch \ refused},
                 !.rejected = {worker.batch[i] : i \in refused}]

Served ==
    /\ worker.at = "sent"
    /\ \E refused \in SUBSET DOMAIN worker.batch :
          /\ Spent + Cardinality(refused) <= MaxRefusals
          /\ refusals' = refusals + Cardinality(refused)
          /\ Processed(Len(worker.batch), refused)
          /\ Answer(refused)
    /\ UNCHANGED deskVars

(* A 2xx answer the service cannot decode: no record gets a verdict. *)
ServedUnreadably ==
    /\ worker.at = "sent"
    /\ Spent < MaxRefusals
    /\ refusals' = refusals + 1
    /\ Processed(Len(worker.batch), {})
    /\ worker' = [worker EXCEPT !.at = "mark"]
    /\ UNCHANGED deskVars

(* The request never arrives, the backend stops within the batch, or its reply *)
(* is lost: do_batch returns an error and marks nothing.                       *)
NoAnswer ==
    /\ worker.at = "sent"
    /\ \E n \in 0 .. Len(worker.batch) : Processed(n, {})
    /\ worker' = Resume
    /\ UNCHANGED <<deskVars, refusals>>

----------------------------------------------------------------------------
SyncInit ==
    /\ Init
    /\ worker = Away
    /\ known = {} /\ sold = {}
    /\ shown = [s \in ShiftId |-> "none"]
    /\ refusals = 0
    /\ overtaken = FALSE

SyncNext ==
    \/ Running /\ UNCHANGED syncVars /\ Spent' <= MaxRefusals
    \/ Revive \/ Send \/ Mark
    \/ Served \/ ServedUnreadably \/ NoAnswer
    \/ Crash /\ worker' = Away /\ UNCHANGED <<backend, refusals, overtaken>>

SyncSpec == SyncInit /\ [][SyncNext]_vars

(* A request under way goes on, the worker comes round, and the backend, asked *)
(* again and again, answers in the end.                                        *)
SyncFair ==
    /\ \A c \in Caller : WF_vars((Proceed(c) \/ Tell(c)) /\ UNCHANGED syncVars)
    /\ WF_vars(Revive) /\ WF_vars(Send) /\ WF_vars(Mark)
    /\ SF_vars(Served)

SyncLive == SyncSpec /\ SyncFair

----------------------------------------------------------------------------
Settled == Quiet /\ worker.at = "rest" /\ \A e \in Range(queue) : e.synced

(* Once every record has been sent the backend shows every closed shift closed *)
(* and with exactly the sales it has at the station, whatever was lost,        *)
(* repeated or crashed, unless a request was cut off since the last start or a *)
(* refusal let a record overtake an older one of its shift (close_shift,       *)
(* backfill_unsynced_closed_shifts, do_batch, processBatch).                   *)
BackendAgrees ==
    Settled /\ ~cut /\ ~overtaken =>
        \A s \in ShiftId :
            row[s].status = "CLOSED" =>
                /\ shown[s] = "CLOSED"
                /\ {t \in sold : t[2] = s} = {<<n, s>> : n \in Booked(s)}

(* The record of the closed shift was refused or went unanswered to the limit: *)
(* the worker leaves it out of its batches until the service is restarted.     *)
Exhausted(s) ==
    \E e \in Range(queue) :
        /\ e.record.entity = "shift" /\ e.record.id = s /\ e.record.status = "CLOSED"
        /\ ~e.synced /\ e.tries >= MaxRetries

(* A shift closed at the station is closed in the backend sooner or later, also *)
(* when the service crashes before it has told or while it is telling, unless  *)
(* its record runs out of retries for good, or a refusal let a record overtake *)
(* an older one.  A record out of retries is due again after a restart         *)
(* (close_shift, get_unsynced_records, backfill_unsynced_closed_shifts,        *)
(* revive_no_verdict_records).                                                 *)
ClosedShown ==
    \A s \in ShiftId :
        ([]<>~Exhausted(s)) =>
            (row[s].status = "CLOSED" ~> (shown[s] = "CLOSED" \/ overtaken))
=============================================================================
