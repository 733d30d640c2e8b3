---------------------------- MODULE FilamentLedger ----------------------------
(***************************************************************************)
(* The filament ledger of the print-job service: how much plastic each     *)
(* spool has left, and how much of it every print job holds.               *)
(*                                                                         *)
(* Starting a job moves grams from the spool row (CurrentWeight) to the    *)
(* job row (ConsumedWeight); re-estimates, completion, failure and         *)
(* deletion move some of them back.  Jobs are opened and closed by         *)
(* snapshots of a Bambu printer that a monitor polls, by people through    *)
(* the HTTP API, and, for manual jobs, by a wall-clock synchronizer.       *)
(*                                                                         *)
(* Every service call is one step here; module CloudPoll interleaves the   *)
(* snapshots that several pollers collect before they write.               *)
(*                                                                         *)
(* Source: internal/usecase/printjob, internal/usecase/spool,              *)
(* internal/domain/printjob, internal/domain/spool,                        *)
(* internal/usecase/runtime, internal/infrastructure/printer/bambu.        *)
(***************************************************************************)
EXTENDS Integers

CONSTANTS
  Spools,           \* spool ids, each used by at most one row
  NoSpool,          \* uuid.Nil in PrintJob.SpoolID
  Prints,           \* prints sent to the printer
  Nameless,         \* those without a task id: files that may be printed again
  NoPrint,          \* nothing on the plate
  DeviceTask,       \* the per-device id a cloud snapshot falls back to
  NoTask,           \* the empty ExternalTaskID of a manual job
  Feeds,            \* ways a poll may see the printer, a subset of AllFeeds
  InitialWeight,    \* [Spools -> grams] a new spool is registered with
  TaskWeight,       \* [Prints -> grams] the cloud reports for a task
  Guesses,          \* grams a product or the time heuristic suggests
  Counts,           \* grams a person may enter for a spool
  DeletableSpools,  \* spools a person may delete
  Percents,         \* progress values a printer passes through
  MaxRuns,          \* bound: how often a file is printed
  MaxJobs           \* bound: job rows created in one behaviour

LanFeeds == {"lan", "stale"}
AllFeeds == LanFeeds \cup {"mqtt", "rest", "offline"}
JobIds   == 1..MaxJobs

\* Task ids: the local network and the cloud name one print differently, and a
\* file without an id of its own is told apart by its start time (0: none yet).
PrintTasks(p) == [kind : {"lan", "cloud"}, print : {p}, start : 0..MaxRuns]
Tasks == [kind : {"lan", "cloud"}, print : Prints, start : 0..MaxRuns] \cup {DeviceTask}

ASSUME NamesAreDistinct ==
  /\ NoSpool \notin Spools
  /\ NoPrint \notin Prints
  /\ \A p \in Prints : DeviceTask \notin PrintTasks(p)
  /\ NoTask \notin Tasks

ASSUME GramsArePositive ==
  /\ InitialWeight \in [Spools -> Nat \ {0}]
  /\ TaskWeight \in [Prints -> Nat \ {0}]
  /\ Guesses \subseteq Nat \ {0}
  /\ Counts \subseteq Nat

ASSUME OtherConstants ==
  /\ Feeds \subseteq AllFeeds /\ Nameless \subseteq Prints
  /\ Nameless # {} => Feeds \cap {"mqtt", "rest"} = {}
  /\ DeletableSpools \subseteq Spools
  /\ {0, 100} \subseteq Percents /\ Percents \subseteq 0..100
  /\ MaxRuns \in Nat \ {0} /\ MaxJobs \in Nat

VARIABLES
  grams,    \* [Spools -> Nat]: CurrentWeight of each spool row
  stocked,  \* spools whose row exists
  bought,   \* spool ids ever used
  jobs,     \* rows of print_jobs: a function from the ids that exist
  nextJob,  \* the next job id; ids order rows by created_at
  stocktakes, \* how often a person counted a spool, modulo 2 (history only)
  plate,    \* [Prints -> PlateRow]: what the printer really did
  onPlate,  \* the print the printer now reports
  feed      \* how a poll now reaches the printer

stockVars   == <<stocked, bought, stocktakes>>
printerVars == <<plate, onPlate, feed>>
vars == <<grams, stocked, bought, stocktakes, jobs, nextJob, plate, onPlate, feed>>

-----------------------------------------------------------------------------
(* Statuses, job rows and the arithmetic of filament_ledger.go.            *)

Live     == {"preparing", "printing", "paused"}
Terminal == {"completed", "failed", "cancelled"}

JobRow == [task     : Tasks \cup {NoTask},
           spool    : Spools \cup {NoSpool},
           status   : Live \cup Terminal,
           draft    : BOOLEAN,
           progress : 0..100,
           est      : Nat,
           consumed : Nat,
           finished : BOOLEAN]

Lesser(a, b) == IF a <= b THEN a ELSE b

\* int(math.Round(planned * progress / 100)): half a gram rounds up
Extruded(planned, progress) == (2 * planned * progress + 100) \div 200

\* Mutant: the share of the reservation, not of the whole print
UnusedShareOfHold(job) ==
  job.consumed - Lesser(Extruded(job.consumed, job.progress), job.consumed)

UnusedReservedGrams(job) ==
  LET planned == IF job.est > 0 THEN job.est ELSE job.consumed
  IN  job.consumed - Lesser(Extruded(planned, job.progress), job.consumed)

NeedsFilamentTopUp(job) ==
  ~job.draft /\ job.status \in Live /\ job.est > 0 /\ job.consumed < job.est

(***************************************************************************)
(* A service call works on its copy of one job row and on the spool rows:  *)
(* w = [job, grams].                                                       *)
(***************************************************************************)

\* Mutant: takes what is wanted, not what is there
ReserveUnbounded(w, s, want) ==
  [job   |-> [w.job EXCEPT !.consumed = @ + want],
   grams |-> [w.grams EXCEPT ![s] = @ - want]]

\* reserveAvailable: up to want grams of spool s, onto the job
Reserve(w, s, want) ==
  LET got == Lesser(want, w.grams[s])
  IN  [job   |-> [w.job EXCEPT !.consumed = @ + got],
       grams |-> [w.grams EXCEPT ![s] = @ - got]]

\* refundFilament: nothing comes back to a spool whose row is gone
Refund(g, s, n) == IF s \in stocked THEN [g EXCEPT ![s] = @ + n] ELSE g

\* Mutant: a linked job remains a draft
EnsureDraftLinkedStillDraft(w, match) ==
  IF ~w.job.draft \/ match = NoSpool
  THEN w
  ELSE Reserve([w EXCEPT !.job.spool = match], match, w.job.est - w.job.consumed)

EnsureDraftLinked(w, match) ==
  IF ~w.job.draft \/ match = NoSpool
  THEN w
  ELSE Reserve([w EXCEPT !.job = [@ EXCEPT !.spool = match, !.draft = FALSE]],
               match, w.job.est - w.job.consumed)

\* Mutant: an increase the spool cannot cover is an error
WeightAppliesInFull(w, weight) ==
  (weight # 0 /\ ~w.job.draft /\ w.job.spool # NoSpool)
    => w.job.spool \in stocked /\ weight - w.job.consumed <= w.grams[w.job.spool]

\* The spool of a reserving job is read before its weight changes; if the
\* row is gone the whole sync returns that error.
WeightApplies(w, weight) ==
  (weight \notin {0, w.job.consumed} /\ ~w.job.draft /\ w.job.spool # NoSpool)
    => w.job.spool \in stocked

\* Mutants: a lighter estimate refunds nothing; a known estimate is left alone
ApplyJobWeightNoRefund(w, weight) ==
  LET u == [w EXCEPT !.job.est = weight]
  IN  IF weight = 0 THEN w
      ELSE IF w.job.draft \/ w.job.spool = NoSpool \/ weight < w.job.consumed THEN u
      ELSE Reserve(u, w.job.spool, weight - w.job.consumed)

ApplyJobWeightOnce(w, weight) ==
  LET u == [w EXCEPT !.job.est = weight]
  IN  IF weight \in {0, w.job.est} THEN w
      ELSE IF w.job.draft \/ w.job.spool = NoSpool THEN u
      ELSE Reserve(u, w.job.spool, weight - w.job.consumed)

\* A negative delta is a refund of the surplus.
ApplyJobWeight(w, weight) ==
  LET u == [w EXCEPT !.job.est = weight]
  IN  CASE weight = 0                           -> w
        [] weight > 0 /\ (w.job.draft \/ w.job.spool = NoSpool) -> u
        [] OTHER -> Reserve(u, w.job.spool, weight - w.job.consumed)

Close(job, status) ==
  [job EXCEPT !.status = status, !.draft = FALSE, !.finished = TRUE]

\* Mutant: the actual weight is recorded only if the spool covers it
FinalizeCompleteIfCovered(w, actual) ==
  LET s    == w.job.spool
      want == actual - w.job.consumed
      done == [w EXCEPT !.job = [Close(w.job, "completed") EXCEPT !.progress = 100]]
  IN  IF actual = 0 \/ s \notin stocked \/ want > w.grams[s] THEN done
      ELSE Reserve(done, s, want)

\* A failed reservation is ignored; the job records the actual weight anyway.
FinalizeComplete(w, actual) ==
  LET s     == w.job.spool
      delta == actual - w.job.consumed
      done  == [Close(w.job, "completed") EXCEPT !.progress = 100]
      known == actual > 0 /\ s # NoSpool
      took  == IF s \in stocked /\ delta <= w.grams[s] THEN delta ELSE 0
  IN  CASE ~known -> [w EXCEPT !.job = done]
        [] known /\ delta > 0 /\ s \notin stocked ->
             [w EXCEPT !.job = [done EXCEPT !.est = actual]]
        [] OTHER ->
             [job   |-> [done EXCEPT !.est = actual, !.consumed = actual],
              grams |-> IF took = 0 THEN w.grams
                        ELSE [w.grams EXCEPT ![s] = @ - took]]

\* Mutant: the whole reservation goes back to the spool
FinalizeRefundingAll(w, status) ==
  LET unused == IF w.job.spool = NoSpool THEN 0 ELSE UnusedReservedGrams(w.job)
  IN  [job   |-> [Close(w.job, status) EXCEPT !.consumed = @ - unused],
       grams |-> Refund(w.grams, w.job.spool, w.job.consumed)]

FinalizeCancelOrFail(w, status) ==
  LET unused == IF w.job.spool = NoSpool THEN 0 ELSE UnusedReservedGrams(w.job)
  IN  [job   |-> [Close(w.job, status) EXCEPT !.consumed = @ - unused],
       grams |-> Refund(w.grams, w.job.spool, unused)]

-----------------------------------------------------------------------------
(* Snapshots: what one poll of the printer reports.                        *)

SanitizeJobProgress(status, progress, remaining) ==
  IF status \in Live /\ remaining /\ progress >= 100 THEN 99 ELSE progress

(***************************************************************************)
(* lan     : local telemetry, no weight                                    *)
(* stale   : local telemetry that says 100% while a print still runs       *)
(* mqtt    : cloud task list and cloud telemetry together                  *)
(* rest    : cloud task list alone: no live percentage                     *)
(* offline : the device list alone, read when the device is off line: no   *)
(*           task list, so neither the task's id nor its weight            *)
(***************************************************************************)

\* The id that a poll now sees print p under: task_id of the telemetry, or the
\* file name with its start time; cloud-task-<id>; cloud-<device>
TaskId(p) ==
  IF feed = "offline" THEN DeviceTask
  ELSE [kind  |-> IF feed \in LanFeeds THEN "lan" ELSE "cloud", print |-> p,
        start |-> IF p \in Nameless THEN plate[p].start ELSE 0]

Snapshot(p) ==
  LET state == plate[p].state
      ahead == feed = "stale" /\ state \in Live
      seen  == IF ahead \/ state = "completed" THEN 100
               ELSE IF feed \in {"rest", "offline"} THEN 0 ELSE plate[p].done
  IN  [id       |-> TaskId(p),
       status   |-> state,
       progress |-> SanitizeJobProgress(state, seen, ahead),
       weight   |-> IF feed \in {"mqtt", "rest"} THEN TaskWeight[p] ELSE 0]

-----------------------------------------------------------------------------
(* SyncFromBambu.                                                          *)

JobsOf(t) == {j \in DOMAIN jobs : jobs[j].task = t}

\* GetByExternalTaskID: ORDER BY created_at DESC LIMIT 1
Newest(t) == {j \in JobsOf(t) : \A k \in JobsOf(t) : k <= j}

\* matchResources: some spool with plastic left, or none
Matches == {NoSpool} \cup {s \in stocked : grams[s] > 0}

\* Mutant: a row at 100 percent counts as closed
OpensNewJobWhenDone(snap) ==
  \A j \in Newest(snap.id) : jobs[j].progress = 100 /\ snap.status \in Live

\* No row yet, or the newest is closed while the printer is at work
OpensNewJob(snap) ==
  \A j \in Newest(snap.id) : jobs[j].status \in Terminal /\ snap.status \in Live

\* createFromBambu: the row is a draft exactly when no spool matched
CreateFromBambu(snap, match, guess) ==
  LET est == IF snap.weight > 0 THEN snap.weight ELSE guess
      row == [task |-> snap.id, spool |-> match, status |-> snap.status,
              draft |-> match = NoSpool, progress |-> snap.progress,
              est |-> est, consumed |-> 0, finished |-> FALSE]
      w   == [job |-> row, grams |-> grams]
  IN  IF match = NoSpool THEN w ELSE Reserve(w, match, est)

ApplyStatus(w, snap) ==
  CASE w.job.status \in Terminal -> w
    [] w.job.status \notin Terminal /\ snap.status \in Live ->
         [w EXCEPT !.job.status = snap.status]
    [] w.job.status \notin Terminal /\ snap.status = "completed" ->
         FinalizeComplete(w, snap.weight)
    [] OTHER -> FinalizeCancelOrFail(w, snap.status)

PutJob(j, row) == [k \in DOMAIN jobs \cup {j} |-> IF k = j THEN row ELSE jobs[k]]

\* Mutant: progress only ever grows
SyncRowRatchet(j, w, snap, match) ==
  \E pct \in {IF snap.progress > w.job.progress THEN snap.progress ELSE w.job.progress} :
  \E linked \in {EnsureDraftLinked([w EXCEPT !.job.progress = pct], match)} :
    /\ WeightApplies(linked, snap.weight)
    /\ \E done \in {ApplyStatus(ApplyJobWeight(linked, snap.weight), snap)} :
         /\ jobs' = PutJob(j, done.job)
         /\ grams' = done.grams

\* The part of SyncFromBambu after the row is found or created
SyncRow(j, w, snap, match) ==
  \E linked \in {EnsureDraftLinked([w EXCEPT !.job.progress = snap.progress], match)} :
    /\ WeightApplies(linked, snap.weight)
    /\ \E done \in {ApplyStatus(ApplyJobWeight(linked, snap.weight), snap)} :
         /\ jobs' = PutJob(j, done.job)
         /\ grams' = done.grams

SyncNew(snap, match, guess) ==
  /\ OpensNewJob(snap)
  /\ nextJob <= MaxJobs
  /\ nextJob' = nextJob + 1
  /\ \E w \in {CreateFromBambu(snap, match, guess)} : SyncRow(nextJob, w, snap, match)

SyncExisting(snap, match) ==
  /\ ~OpensNewJob(snap)
  /\ \E j \in Newest(snap.id) :
       SyncRow(j, [job |-> jobs[j], grams |-> grams], snap, match)
  /\ UNCHANGED nextJob

\* One poll of the monitor that reaches SyncFromBambu
Poll(snap) ==
  /\ \E match \in Matches :
       \/ \E guess \in Guesses : SyncNew(snap, match, guess)
       \/ SyncExisting(snap, match)
  /\ UNCHANGED <<stockVars, printerVars>>

-----------------------------------------------------------------------------
(* The HTTP API for jobs.                                                  *)

Start(s, need) ==
  /\ s \in stocked
  /\ nextJob <= MaxJobs
  /\ LET row == [task |-> NoTask, spool |-> s, status |-> "printing",
                 draft |-> FALSE, progress |-> 0, est |-> need,
                 consumed |-> 0, finished |-> FALSE]
         w   == Reserve([job |-> row, grams |-> grams], s, need)
     IN  /\ jobs' = PutJob(nextJob, w.job)
         /\ grams' = w.grams
  /\ nextJob' = nextJob + 1
  /\ UNCHANGED <<stockVars, printerVars>>

\* Mutant: a confirmed job prints, whatever became of it
ConfirmDraftAsPrinting(j, s, weight) ==
  /\ jobs[j].draft
  /\ s \in stocked
  /\ LET row == [jobs[j] EXCEPT !.spool = s, !.est = weight, !.consumed = 0,
                                !.draft = FALSE, !.status = "printing"]
         w   == Reserve([job |-> row, grams |-> grams], s, weight)
     IN  /\ jobs' = PutJob(j, w.job)
         /\ grams' = w.grams
  /\ UNCHANGED <<stockVars, nextJob, printerVars>>

ConfirmDraft(j, s, weight) ==
  /\ jobs[j].draft
  /\ s \in stocked
  /\ LET row == [jobs[j] EXCEPT !.spool = s, !.est = weight, !.consumed = 0,
                                !.draft = FALSE]
         w   == Reserve([job |-> row, grams |-> grams], s, weight)
     IN  /\ jobs' = PutJob(j, w.job)
         /\ grams' = w.grams
  /\ UNCHANGED <<stockVars, nextJob, printerVars>>

\* Neither Pause nor Resume looks at the status it replaces.
Pause(j) ==
  /\ jobs' = PutJob(j, [jobs[j] EXCEPT !.status = "paused"])
  /\ UNCHANGED <<grams, stockVars, nextJob, printerVars>>

Resume(j) ==
  /\ jobs' = PutJob(j, [jobs[j] EXCEPT !.status = "printing"])
  /\ UNCHANGED <<grams, stockVars, nextJob, printerVars>>

\* What the two buttons are for (the page has none for a completed job)
PauseOpen(j) == jobs[j].status \notin Terminal /\ (Pause(j) \/ Resume(j))

\* An open job gives its unused grams back first; if their spool is gone,
\* the job cannot be deleted.
Delete(j) ==
  LET unused == IF jobs[j].status \in Terminal THEN 0
                ELSE UnusedReservedGrams(jobs[j])
  IN  /\ unused > 0 => jobs[j].spool \in stocked
      /\ grams' = IF unused = 0 THEN grams ELSE Refund(grams, jobs[j].spool, unused)
      /\ jobs' = [k \in DOMAIN jobs \ {j} |-> jobs[k]]
      /\ UNCHANGED <<stockVars, nextJob, printerVars>>

\* Synchronizer.Sync on manual jobs: elapsed time is their progress, and the
\* last percent completes them without a word to the ledger.
RuntimeSync ==
  LET running == {j \in DOMAIN jobs : jobs[j].task = NoTask
                                      /\ jobs[j].status = "printing"}
      Tick(row, pct) == IF pct = 100
                        THEN [Close(row, "completed") EXCEPT !.progress = 100]
                        ELSE [row EXCEPT !.progress = pct]
  IN  /\ running # {}
      /\ \E clock \in [running -> Percents] :
           /\ \A j \in running : clock[j] >= jobs[j].progress
           /\ jobs' = [j \in DOMAIN jobs |-> IF j \in running
                                             THEN Tick(jobs[j], clock[j])
                                             ELSE jobs[j]]
      /\ UNCHANGED <<grams, stockVars, nextJob, printerVars>>

-----------------------------------------------------------------------------
(* The HTTP API for spools.                                                *)

CreateSpool(s) ==
  /\ s \notin bought
  /\ bought' = bought \cup {s}
  /\ stocked' = stocked \cup {s}
  /\ grams' = [grams EXCEPT ![s] = InitialWeight[s]]
  /\ UNCHANGED <<stocktakes, jobs, nextJob, printerVars>>

UpdateRemaining(s, n) ==
  /\ s \in stocked
  /\ grams' = [grams EXCEPT ![s] = n]
  /\ stocktakes' = 1 - stocktakes
  /\ UNCHANGED <<stocked, bought, jobs, nextJob, printerVars>>

\* spool.Service.Consume and inventory.RecordConsumption
Consume(s, n) ==
  /\ s \in stocked
  /\ n > 0 /\ n <= grams[s]
  /\ grams' = [grams EXCEPT ![s] = @ - n]
  /\ stocktakes' = 1 - stocktakes
  /\ UNCHANGED <<stocked, bought, jobs, nextJob, printerVars>>

DeleteSpool(s) ==
  /\ s \in stocked \cap DeletableSpools
  /\ stocked' = stocked \ {s}
  /\ grams' = [grams EXCEPT ![s] = 0]
  /\ UNCHANGED <<bought, stocktakes, jobs, nextJob, printerVars>>

-----------------------------------------------------------------------------
(* The printer: one plate, prints one after another.                       *)

PlateRow == [state : Live \cup Terminal \cup {"waiting"}, done : Percents,
             run : 0..MaxRuns, start : 0..MaxRuns]

Moves == {<<"preparing", "printing">>, <<"printing", "paused">>,
          <<"paused", "printing">>}

\* start is the run whose start time the telemetry shows: a reprint may begin
\* with its own, with that of the run before it, or with none.
BeginPrint(p) ==
  /\ plate[p].state = "waiting" \/ p \in Nameless
  /\ plate[p].run < MaxRuns
  /\ onPlate # NoPrint => plate[onPlate].state \in Terminal
  /\ onPlate' = p
  /\ LET run == plate[p].run + 1
     IN  \E shown \in IF p \in Nameless THEN {0, plate[p].start, run} ELSE {0} :
           plate' = [plate EXCEPT ![p] = [state |-> "preparing", done |-> 0,
                                          run |-> run, start |-> shown]]
  /\ UNCHANGED <<grams, stockVars, jobs, nextJob, feed>>

\* done is the share of the plastic that has left the nozzle.  The start time
\* of a run may reach the telemetry while it prints.
PrinterStep ==
  /\ onPlate # NoPrint
  /\ LET now == plate[onPlate] IN
     \/ \E move \in Moves :
          /\ now.state = move[1]
          /\ plate' = [plate EXCEPT ![onPlate].state = move[2]]
     \/ \E pct \in Percents :
          /\ now.state = "printing" /\ pct > now.done
          /\ plate' = [plate EXCEPT ![onPlate].done = pct]
     \/ /\ now.state = "printing" /\ now.done = 100
        /\ plate' = [plate EXCEPT ![onPlate].state = "completed"]
     \/ /\ now.state \in Live
        /\ plate' = [plate EXCEPT ![onPlate].state = "failed"]
     \/ /\ onPlate \in Nameless /\ now.start # now.run
        /\ plate' = [plate EXCEPT ![onPlate].start = now.run]
  /\ UNCHANGED <<grams, stockVars, jobs, nextJob, onPlate, feed>>

\* A person takes the print off: an idle printer reports no job.
ClearPlate ==
  /\ onPlate # NoPrint /\ plate[onPlate].state \in Terminal
  /\ onPlate' = NoPrint
  /\ UNCHANGED <<grams, stockVars, jobs, nextJob, plate, feed>>

\* The connection comes and goes on its own; a person links a printer to the
\* cloud, or back to the local network.
Relink ==
  /\ feed' \in Feeds \ {feed}
  /\ UNCHANGED <<grams, stockVars, jobs, nextJob, plate, onPlate>>

-----------------------------------------------------------------------------
Init ==
  /\ grams = [s \in Spools |-> 0]
  /\ stocked = {} /\ bought = {} /\ stocktakes = 0
  /\ jobs = [j \in {} |-> {}]
  /\ nextJob = 1
  /\ plate = [p \in Prints |-> [state |-> "waiting", done |-> 0,
                            run |-> 0, start |-> 0]]
  /\ onPlate = NoPrint
  /\ feed \in Feeds

PollNext == onPlate # NoPrint /\ \E snap \in {Snapshot(onPlate)} : Poll(snap)

PeopleNext ==
  \/ \E s \in Spools :
       \/ CreateSpool(s)
       \/ DeleteSpool(s)
       \/ \E n \in Counts : UpdateRemaining(s, n)
       \/ \E n \in Counts : Consume(s, n)
       \/ \E need \in Guesses : Start(s, need)
  \/ \E j \in DOMAIN jobs :
       \/ Delete(j) \/ PauseOpen(j)
       \/ \E s \in Spools, weight \in Guesses : ConfirmDraft(j, s, weight)

PauseNext == \E j \in DOMAIN jobs : Pause(j) \/ Resume(j)

PrinterNext == PrinterStep \/ ClearPlate \/ Relink \/ \E p \in Prints : BeginPrint(p)

\* Without Pause and Resume of closed jobs
CoreNext == PollNext \/ PeopleNext \/ RuntimeSync \/ PrinterNext
Next     == CoreNext \/ PauseNext

CoreSpec == Init /\ [][CoreNext]_vars
Spec     == Init /\ [][Next]_vars

\* The monitor polls on a ticker for as long as the program runs.
FairSpec == CoreSpec /\ WF_vars(PollNext)

\* More than the ticker gives: no chance of a useful poll is missed for ever.
LuckySpec == CoreSpec /\ SF_vars(PollNext)

-----------------------------------------------------------------------------
(* Properties.                                                             *)

TypeOK ==
  /\ grams \in [Spools -> Nat]
  /\ stocked \subseteq bought /\ bought \subseteq Spools
  /\ stocktakes \in {0, 1}
  /\ DOMAIN jobs \subseteq 1..(nextJob - 1)
  /\ \A j \in DOMAIN jobs : jobs[j] \in JobRow
  /\ nextJob \in 1..(MaxJobs + 1)
  /\ plate \in [Prints -> PlateRow]
  /\ \A p \in Prints : plate[p].state = "waiting" <=> plate[p].run = 0
  /\ onPlate \in {NoPrint} \cup {p \in Prints : plate[p].state # "waiting"}
  /\ feed \in Feeds

\* A job without a confirmed spool reserves nothing, and a job that reserves
\* names the spool it reserves from, through every way of linking, weighing
\* and closing it (bambu_sync.go: "IsDraft means the spool is not confirmed").
DraftHoldsNothing ==
  \A j \in DOMAIN jobs :
    /\ jobs[j].draft => jobs[j].spool = NoSpool /\ jobs[j].consumed = 0
    /\ jobs[j].consumed > 0 => jobs[j].spool # NoSpool

\* No sequence of top-ups, re-weighings, confirmations and closings lets a job
\* hold more than the weight it is estimated at: what LiveRemaining and
\* NeedsFilamentTopUp take for granted.
HoldWithinEstimate == \A j \in DOMAIN jobs : jobs[j].consumed <= jobs[j].est

\* Polls under one task id map to one open job, over reprints under the same id,
\* closed and deleted rows: no run is charged twice under it (cloud.go: "so
\* REST/MQTT polls map to the same job").  A print is seen under another id when
\* its printer is linked to the cloud or back, or is off line, and a file when
\* its start time shows; each of them may have its row (offline_close).
OneOpenJobPerTask ==
  \A i, j \in DOMAIN jobs :
    (/\ jobs[i].task = jobs[j].task /\ jobs[i].task \in Tasks
     /\ {jobs[i].status, jobs[j].status} \cap Terminal = {}) => i = j

KeepsClosed ==
  \A j \in DOMAIN jobs \cap DOMAIN jobs' :
    jobs[j].status \in Terminal => jobs'[j].status \in Terminal

\* A closed job is history: no poll, synchronizer tick or API call other than
\* Pause and Resume of the closed job opens it again, and only Delete removes it, also when the
\* same file is printed again under the same task id (bambu_sync.go opens a
\* new row for a live snapshot of a closed task).
ClosedJobStaysClosed == [][KeepsClosed]_vars

\* After a print failed, its job keeps no more than the plastic that left the
\* nozzle, however often the printer goes on reporting the failure, as long as the
\* file is not printed again (the project's description: only unspent plastic
\* returns to stock, and of 1000 g with 1 g spent 999 g remain).
FailedReturnsUnprinted ==
  \A p \in Prints, j \in DOMAIN jobs :
    (/\ jobs[j].finished /\ jobs[j].status = "failed"
     /\ jobs[j].task \in PrintTasks(p) /\ plate[p].run = 1)
    => jobs[j].consumed <= Extruded(jobs[j].est, plate[p].done)

KeepsPrinted ==
  \A p \in Prints, j \in DOMAIN jobs \cap DOMAIN jobs' :
    (/\ jobs[j].status \notin Terminal /\ jobs'[j].status = "failed"
     /\ jobs[j].task \in PrintTasks(p))
    => jobs'[j].consumed
         >= Lesser(jobs[j].consumed, Extruded(jobs'[j].est, plate[p].done))

\* Closing a job as failed returns nothing that was printed: of what the job
\* held it keeps the share the printer really extruded.
StopKeepsPrintedGrams == [][KeepsPrinted]_vars

\* A cloud print that was seen running is charged the weight the cloud gives
\* for it once it completes, also when its spool ran out on the way or it was
\* linked to a spool only in its last poll.
CompletedJobCharged ==
  \A p \in Prints, j \in DOMAIN jobs :
    (/\ jobs[j].finished /\ jobs[j].status = "completed"
     /\ jobs[j].task \in PrintTasks(p) /\ jobs[j].spool # NoSpool)
    => jobs[j].consumed = TaskWeight[p]

\* Every step is a step of the double-entry account, or none of its business.
Account == INSTANCE FilamentAccount WITH
  Holders <- JobIds,
  stock   <- grams,
  shelf   <- stocked,
  hold    <- [j \in JobIds |-> IF j \in DOMAIN jobs THEN jobs[j].consumed ELSE 0],
  from    <- [j \in JobIds |-> IF j \in DOMAIN jobs THEN jobs[j].spool ELSE NoSpool]

\* Plastic is never minted and never moves between spools or jobs in passing:
\* the ledger implements the account (filament_ledger.go, bambu_sync.go).
LedgerImplementsAccount == Account!Spec

\* The printer still shows p as over, and job j, one of those with a task in ids,
\* is open.  (A poll that must create a row finds room for it: the bound is none
\* of the program's.)
OpenAfter(p, j, ids) ==
  /\ nextJob <= MaxJobs
  /\ onPlate = p /\ plate[p].state \in Terminal
  /\ j \in DOMAIN jobs /\ jobs[j].task \in ids /\ jobs[j].status \notin Terminal

\* Job j goes by the id that polls now see p under.
LeftOpen(p, j) == OpenAfter(p, j, {TaskId(p)})

\* A job whose print ended is closed while the printer still shows that print
\* under the id of the job (monitor.go: "Still sync terminal print_status so a
\* finished job can close").
EndedPrintIsClosed ==
  \A p \in Prints, j \in JobIds : LeftOpen(p, j) ~> ~LeftOpen(p, j)

\* Job j goes by any id of p: that of the device included.
LeftOver(p, j) == OpenAfter(p, j, PrintTasks(p) \cup {DeviceTask})

\* The same of every job of the print: what that comment of monitor.go says, where
\* it makes no difference how the printer was seen before.
EndedPrintLeavesNoJob ==
  \A p \in Prints, j \in JobIds : LeftOver(p, j) ~> ~LeftOver(p, j)

\* Job j of the print in the printer holds less than it needs, and its spool
\* has plastic.
Short(j) ==
  /\ onPlate # NoPrint
  /\ j \in JobsOf(TaskId(onPlate))
  /\ NeedsFilamentTopUp(jobs[j])
  /\ grams[jobs[j].spool] > 0

\* A job short of plastic is topped up once its spool is refilled ("load
\* plastic during the print"), unless the spool runs dry or the print is over.
ShortJobIsToppedUp == \A j \in JobIds : Short(j) ~> ~Short(j)

\* No error on the way (a spool that cannot cover an increase, a weight that
\* cannot be applied) stops the polls from getting through to a job that is left
\* open or is short: one of them changes something.
EndIsPolled ==
  (\E p \in Prints, j \in JobIds : LeftOpen(p, j)) => ENABLED <<PollNext>>_vars
TopUpIsPolled == (\E j \in JobIds : Short(j)) => ENABLED <<PollNext>>_vars
PollsGoOn == EndIsPolled /\ TopUpIsPolled
=============================================================================
