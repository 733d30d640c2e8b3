------------------------------ MODULE StockAlerts ------------------------------
(***************************************************************************)
(* The status of a spool, the two loops that keep it, and the alerts.      *)
(*                                                                         *)
(* The scheduler (every 10 s) and the runtime synchronizer (every 2 s)     *)
(* each list the jobs and then the spools, and write whole rows back from  *)
(* those copies while print jobs take and return plastic and people weigh  *)
(* spools.  The scheduler publishes an alert when a spool it listed is low *)
(* or empty, and remembers in memory that it did.                          *)
(*                                                                         *)
(* Source: internal/worker/scheduler.go, internal/usecase/runtime,         *)
(* internal/usecase/spool/service.go, internal/domain/spool/entity.go.     *)
(***************************************************************************)
EXTENDS Naturals

CONSTANTS
  LowWeightGrams,
  Full,      \* what a spool may weigh at most (a bound)
  Changes,   \* how often its weight is changed (a bound)
  Lives      \* how often the process restarts (a bound)

ASSUME StockConstants ==
  /\ LowWeightGrams \in Nat /\ Full \in Nat \ {0}
  /\ Changes \in Nat /\ Lives \in Nat

VARIABLES
  spool,      \* the row: [weight, status]
  active,     \* the status of the row of its one job is an active one
  sched,      \* Scheduler.Scan: [step, active, spool], its copies of the rows
  sync,       \* Synchronizer.Sync: the same
  lowAlerted, emptyAlerted,   \* Scheduler.lowAlerted and emptyAlerted of the spool
  changes, lives,    \* how often, for the bounds
  calm,       \* from now on nobody changes anything and nothing restarts
  lowSent, emptySent,         \* history: alerts published
  rises, fills,               \* history: times it rose to enough, to something
  toldLow, toldEmpty          \* history: an alert was published in this life

loops  == <<sched, sync>>
flags  == <<lowAlerted, emptyAlerted>>
counts == <<changes, lives, calm>>
alerts == <<lowSent, emptySent, toldLow, toldEmpty>>
vars   == <<spool, active, loops, flags, counts, alerts, rises, fills>>

-----------------------------------------------------------------------------
(* The row of the spool.                                                   *)

Statuses == {"available", "low", "in_use", "empty"}
Spool    == [weight : 0 .. Full, status : Statuses]

\* The status that a weight gives a spool that is not in use
ByWeight(weight) ==
  CASE weight = 0 -> "empty"
    [] 0 < weight /\ weight < LowWeightGrams -> "low"
    [] OTHER -> "available"

\* Mutant: a spool in use shows its weight
WeightDecides(row, inUse) == ByWeight(row.weight)

EffectiveStatus(row, inUse) == IF inUse THEN "in_use" ELSE ByWeight(row.weight)

\* Every write of the row, with what it does to the weight
Stored(row) ==
  /\ spool' = row
  /\ rises' = IF spool.weight < LowWeightGrams /\ row.weight >= LowWeightGrams
              THEN rises + 1 ELSE rises
  /\ fills' = IF spool.weight = 0 /\ row.weight > 0 THEN fills + 1 ELSE fills

Changed == ~calm /\ changes < Changes /\ changes' = changes + 1
           /\ UNCHANGED <<lives, calm>>

\* A person weighs the spool: UpdateRemaining.
UpdateRemaining(weight) ==
  /\ Changed /\ weight # spool.weight
  /\ Stored([weight |-> weight, status |-> ByWeight(weight)])
  /\ UNCHANGED <<active, loops, flags, alerts>>

\* Spool.Consume: a job is made or needs more, or a person takes plastic for none
Consume(grams) ==
  /\ Changed /\ 0 < grams /\ grams <= spool.weight
  /\ Stored([weight |-> spool.weight - grams,
             status |-> IF grams = spool.weight THEN "empty" ELSE "in_use"])
  /\ active' \in {TRUE, active}
  /\ UNCHANGED <<loops, flags, alerts>>

\* Spool.Refill, when a job ends before its plastic does; without a refund the
\* row of the spool is left alone.
Refill(grams) ==
  /\ active /\ Changed /\ grams + spool.weight <= Full
  /\ IF grams = 0 THEN UNCHANGED <<spool, rises, fills>>
     ELSE Stored([weight |-> spool.weight + grams, status |-> "available"])
  /\ active' = FALSE
  /\ UNCHANGED <<loops, flags, alerts>>

-----------------------------------------------------------------------------
(* The loops.                                                              *)

Idle == [step |-> "idle", active |-> FALSE, spool |-> [weight |-> 0, status |-> "empty"]]

\* When the list of jobs fails, no spool counts as in use.
SchedLists ==
  /\ sched.step = "idle"
  /\ \/ sched' = [Idle EXCEPT !.step = IF active THEN "touch" ELSE "spools", !.active = active]
     \/ ~calm /\ sched' = [Idle EXCEPT !.step = "spools"]
  /\ UNCHANGED <<spool, active, sync, flags, counts, alerts, rises, fills>>

\* The row of an active job is written back whole, with a new UpdatedAt, unless the
\* write fails or the row is gone.
SchedTouchesJob ==
  /\ sched.step = "touch"
  /\ active' \in {TRUE, active} /\ sched' = [sched EXCEPT !.step = "spools"]
  /\ UNCHANGED <<spool, sync, flags, counts, alerts, rises, fills>>

SchedListsSpools ==
  /\ sched.step = "spools"
  /\ sched' = [sched EXCEPT !.step = "write", !.spool = spool]
  /\ UNCHANGED <<spool, active, sync, flags, counts, alerts, rises, fills>>

\* Mutant: what was announced is forgotten
AlertAgain(kind) ==
  /\ lowSent' = lowSent + (IF kind = "low" THEN 1 ELSE 0)
  /\ emptySent' = emptySent + (IF kind = "empty" THEN 1 ELSE 0)
  /\ toldLow' = (toldLow \/ kind = "low") /\ toldEmpty' = (toldEmpty \/ kind = "empty")
  /\ UNCHANGED flags

\* publishSpoolLow and publishSpoolEmpty: once until the flag is taken back
Alert(kind) ==
  IF (IF kind = "low" THEN lowAlerted ELSE emptyAlerted)
  THEN UNCHANGED <<flags, alerts>>
  ELSE /\ lowAlerted' = (lowAlerted \/ kind = "low")
       /\ emptyAlerted' = (emptyAlerted \/ kind = "empty")
       /\ lowSent' = lowSent + (IF kind = "low" THEN 1 ELSE 0)
       /\ emptySent' = emptySent + (IF kind = "empty" THEN 1 ELSE 0)
       /\ toldLow' = (toldLow \/ kind = "low")
       /\ toldEmpty' = (toldEmpty \/ kind = "empty")

\* Enough plastic again: both alerts may come again.
ForgetAlerts == lowAlerted' = FALSE /\ emptyAlerted' = FALSE /\ UNCHANGED alerts

\* Mutant: a spool in use is not looked at
AlertsWhenIdle(row, next) ==
  IF ~sched.active /\ next \in {"low", "empty"} THEN Alert(next) ELSE UNCHANGED <<flags, alerts>>

\* notifySpoolStatusChange and checkSpoolWeightAlerts
CheckWeightAlerts(row, next) ==
  IF ByWeight(row.weight) \in {"low", "empty"} THEN Alert(ByWeight(row.weight))
                                              ELSE ForgetAlerts

\* The row is written from the copy when its status is not what it should be; that
\* the write failed does not matter to the alert.
SchedWrites ==
  LET next == EffectiveStatus(sched.spool, sched.active) IN
  /\ sched.step = "write" /\ sched' = Idle
  /\ \/ sched.spool.status # next /\ Stored([sched.spool EXCEPT !.status = next])
     \/ (sched.spool.status = next \/ ~calm) /\ UNCHANGED <<spool, rises, fills>>
  /\ CheckWeightAlerts(sched.spool, next)
  /\ UNCHANGED <<active, sync, counts>>

SyncLists ==
  /\ sync.step = "idle"
  /\ sync' = [Idle EXCEPT !.step = "jobs", !.active = active]
  /\ UNCHANGED <<spool, active, sched, flags, counts, alerts, rises, fills>>

\* The row of a job made by hand is written from the copy, with its progress or, when
\* its time is over, as completed; then the jobs are listed again.
SyncWritesJob ==
  /\ sync.step = "jobs" /\ sync.active
  /\ active' \in (IF calm THEN {TRUE} ELSE BOOLEAN) /\ sync' = [sync EXCEPT !.step = "reload"]
  /\ UNCHANGED <<spool, sched, flags, counts, alerts, rises, fills>>

SyncReloads ==
  /\ sync.step = "reload"
  /\ sync' = [sync EXCEPT !.step = "spools", !.active = active]
  /\ UNCHANGED <<spool, active, sched, flags, counts, alerts, rises, fills>>

SyncListsSpools ==
  /\ sync.step \in {"jobs", "spools"}
  /\ sync' = [sync EXCEPT !.step = "write", !.spool = spool]
  /\ UNCHANGED <<spool, active, sched, flags, counts, alerts, rises, fills>>

SyncWrites ==
  LET next == EffectiveStatus(sync.spool, sync.active) IN
  /\ sync.step = "write" /\ sync' = Idle
  /\ IF sync.spool.status = next THEN UNCHANGED <<spool, rises, fills>>
     ELSE Stored([sync.spool EXCEPT !.status = next])
  /\ UNCHANGED <<active, sched, flags, counts, alerts>>

\* RuntimeSyncTimeout is over, or a statement fails.
SyncGivesUp ==
  /\ sync.step # "idle" /\ ~calm /\ sync' = Idle
  /\ UNCHANGED <<spool, active, sched, flags, counts, alerts, rises, fills>>

-----------------------------------------------------------------------------

Restart ==
  /\ ~calm /\ lives < Lives /\ lives' = lives + 1
  /\ sched' = Idle /\ sync' = Idle
  /\ lowAlerted' = FALSE /\ emptyAlerted' = FALSE
  /\ toldLow' = FALSE /\ toldEmpty' = FALSE
  /\ UNCHANGED <<spool, active, changes, calm, lowSent, emptySent, rises, fills>>

Calm ==
  /\ ~calm /\ calm' = TRUE
  /\ UNCHANGED <<spool, active, loops, flags, changes, lives, alerts,
                 rises, fills>>

\* A spool is registered with some weight and status available.
Init ==
  /\ \E weight \in 1 .. Full : spool = [weight |-> weight, status |-> "available"]
  /\ active = FALSE /\ sched = Idle /\ sync = Idle
  /\ lowAlerted = FALSE /\ emptyAlerted = FALSE
  /\ changes = 0 /\ lives = 0 /\ calm = FALSE
  /\ lowSent = 0 /\ emptySent = 0 /\ rises = 0 /\ fills = 0
  /\ toldLow = FALSE /\ toldEmpty = FALSE

Scheduler    == SchedLists \/ SchedTouchesJob \/ SchedListsSpools \/ SchedWrites
Synchronizer == SyncLists \/ SyncWritesJob \/ SyncReloads \/ SyncListsSpools \/ SyncWrites

Next ==
  \/ \E grams \in 0 .. Full : UpdateRemaining(grams) \/ Consume(grams) \/ Refill(grams)
  \/ Scheduler \/ Synchronizer \/ SyncGivesUp
  \/ Restart \/ Calm

\* Both loops go on for ever.
Fairness == WF_vars(Scheduler) /\ WF_vars(Synchronizer)

Spec == Init /\ [][Next]_vars /\ Fairness

-----------------------------------------------------------------------------
(* Properties.                                                             *)

TypeOK ==
  /\ spool \in Spool /\ active \in BOOLEAN
  /\ \A loop \in {sched, sync} :
       loop.active \in BOOLEAN /\ loop.spool \in Spool
       /\ loop.step \in {"idle", "touch", "jobs", "reload", "spools", "write"}

\* A shortage is announced once: beyond the first in a life of the process, a
\* low spool costs one alert for each time it had enough again, an empty one for
\* each time it had something again, however stale the rows that are written.
AlertsAreEarned ==
  /\ lowSent <= 1 + lives + rises
  /\ emptySent <= 1 + lives + fills

\* When weights and jobs stop changing, the status comes to be what they say.
StatusSettles == <>calm => 
  <>[](spool.status = IF active THEN "in_use" ELSE ByWeight(spool.weight))

\* A spool that stays low or empty has been announced in this life of the
\* process, in use or not, whichever loop gave it its status.
ShortageIsAnnounced ==
  <>calm => <>[](/\ ByWeight(spool.weight) = "low" => toldLow
                 /\ spool.weight = 0 => toldEmpty)
=============================================================================
