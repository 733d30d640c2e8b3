------------------------------- MODULE CloudPoll -------------------------------
(***************************************************************************)
(* How the monitor puts one picture of a cloud printer together.           *)
(*                                                                         *)
(* A poll asks the cloud for the list of devices, then for the list of     *)
(* tasks, then looks at what MQTT brought last, and hands the merged       *)
(* snapshot to SyncFromBambu.  The printer goes on between these reads,    *)
(* MQTT lags, calls fail, and several goroutines poll at once (the ticker  *)
(* of the monitor, the cloud-sync loop, a request).  FilamentLedger takes  *)
(* a poll for one step that sees the truth; here is what it may see.       *)
(*                                                                         *)
(* Source: internal/infrastructure/printer/bambu/{cloud,monitor}.go,       *)
(* internal/usecase/printjob/bambu_sync.go.                                *)
(***************************************************************************)
EXTENDS Naturals

CONSTANTS
  Pollers,
  Prints,    \* how many prints the printer makes (a bound)
  Percents   \* progress values that it passes through

ASSUME CloudPollConstants ==
  /\ Prints \in Nat \ {0}
  /\ {0, 100} \subseteq Percents /\ Percents \subseteq 0 .. 100

VARIABLES
  printer,  \* external: [print, state, done, left] as they are now
  cache,    \* external: what MQTT brought last, the same record
  poll,     \* [Pollers -> what the goroutine read so far]
  row,      \* [Ids -> status of the newest job row with that ExternalTaskID]
  calm      \* the printer stands still and every call succeeds from now on

vars == <<printer, cache, poll, row, calm>>

Live  == {"printing"}  \* or preparing, calibrating, paused: they fare alike
Ended == {"completed", "failed"}
Idle  == "idle"        \* any other state: StatusQueued, not active

Device == 0            \* the id cloud-<device>, when no task is known
Ids    == 0 .. Prints  \* the others are cloud-task-<n>

States    == Live \cup Ended \cup {Idle}
Report    == [print : Ids, state : States, done : Percents, left : BOOLEAN]
Snapshot  == [id : Ids, status : States, progress : 0 .. 100, left : BOOLEAN, cost : BOOLEAN]
PollState == [step : {"idle", "tasks", "data", "apply"}, device : States, listed : Ids,
              snap : Snapshot]

-----------------------------------------------------------------------------
(* The printer and MQTT: external.                                         *)

Begin ==
  /\ ~calm /\ printer.state \notin Live /\ printer.print < Prints
  /\ printer' = [print |-> printer.print + 1, state |-> "printing", done |-> 0, left |-> TRUE]
  /\ UNCHANGED <<cache, poll, row, calm>>

\* A printer may show all percent with time left.
Work ==
  /\ ~calm /\ printer.state \in Live
  /\ \E done \in {d \in Percents : d >= printer.done}, left \in BOOLEAN :
       /\ done < 100 => left
       /\ printer' = [printer EXCEPT !.done = done, !.left = left]
  /\ UNCHANGED <<cache, poll, row, calm>>

End ==
  /\ ~calm /\ printer.state \in Live
  /\ \/ printer' = [printer EXCEPT !.state = "completed", !.done = 100, !.left = FALSE]
     \/ printer' = [printer EXCEPT !.state = "failed", !.left = FALSE]
  /\ UNCHANGED <<cache, poll, row, calm>>

\* Somebody takes the print off the plate.
Clear ==
  /\ ~calm /\ printer.state \in Ended
  /\ printer' = [printer EXCEPT !.state = Idle]
  /\ UNCHANGED <<cache, poll, row, calm>>

MqttBrings ==
  /\ cache # printer /\ cache' = printer
  /\ UNCHANGED <<printer, poll, row, calm>>

-----------------------------------------------------------------------------
(* Snapshots.                                                              *)

\* The second result of mapGcodeState and MapCloudPrintStatus
Active(status) == status \in Live \cup Ended

IsLivePrintStatus(status) == status \in Live

\* Mutant: all percent is all percent
LeaveProgress(status, progress, left) == progress

SanitizeLiveProgress(status, progress, left) ==
  IF IsLivePrintStatus(status) /\ left /\ progress > 99 THEN 99 ELSE progress

\* The device and the task the list begins with, if there is one; cost: the task
\* says how long it takes
SnapshotFromCloudDevice(status, task, cost) ==
  [id |-> task, status |-> status, progress |-> IF status = "completed" THEN 100 ELSE 0,
   left |-> cost /\ status # "completed", cost |-> cost]

SnapshotFromCloudData(data) ==
  [id |-> data.print, status |-> data.state, progress |-> data.done, left |-> data.left]

\* Mutant: MQTT is the fresher of the two
StatusOfMqtt(rest, mqtt) ==
  IF Active(mqtt.status) THEN mqtt.status
  ELSE IF Active(rest.status) THEN rest.status ELSE mqtt.status

MergedStatus(rest, mqtt) ==
  CASE IsLivePrintStatus(rest.status) -> rest.status
    [] ~IsLivePrintStatus(rest.status) /\ IsLivePrintStatus(mqtt.status) -> mqtt.status
    [] ~IsLivePrintStatus(rest.status) /\ ~IsLivePrintStatus(mqtt.status)
       /\ Active(rest.status) -> rest.status
    [] OTHER -> mqtt.status

\* Live telemetry has the percentage; what is left over from a print that ended has
\* none for a print that the device list calls live.
MergedProgress(rest, mqtt) ==
  CASE IsLivePrintStatus(mqtt.status) -> mqtt.progress
    [] ~IsLivePrintStatus(mqtt.status) /\ IsLivePrintStatus(rest.status) -> rest.progress
    [] OTHER -> IF mqtt.progress > rest.progress THEN mqtt.progress ELSE rest.progress

MergeCloudSnapshots(rest, mqtt) ==
  LET status   == MergedStatus(rest, mqtt)
      progress == MergedProgress(rest, mqtt)
      left     == \/ rest.left \/ mqtt.left
                  \/ rest.cost /\ 0 < progress /\ progress < 100 IN
  [id |-> IF rest.id # Device THEN rest.id ELSE mqtt.id, status |-> status,
   progress |-> SanitizeLiveProgress(status, progress, left), left |-> left, cost |-> rest.cost]

-----------------------------------------------------------------------------
(* pollCloudPrinter.                                                       *)

NoSnapshot == SnapshotFromCloudDevice(Idle, Device, FALSE)
NotPolling == [step |-> "idle", device |-> Idle, listed |-> Device, snap |-> NoSnapshot]

\* applySnapshot goes on to the job only with an active snapshot.
Hand(g, next, snap) ==
  poll' = [poll EXCEPT ![g] = IF Active(snap.status)
                              THEN [next EXCEPT !.step = "apply", !.snap = snap]
                              ELSE NotPolling]

\* A printer that is off line is not asked further.
ListDevices(g) ==
  LET seen == [NotPolling EXCEPT !.step = "tasks", !.device = printer.state,
                                 !.listed = printer.print] IN
  /\ poll[g].step = "idle"
  /\ \/ poll' = [poll EXCEPT ![g] = seen]
     \/ ~calm /\ Hand(g, seen, SnapshotFromCloudDevice(printer.state, Device, FALSE))
  /\ UNCHANGED <<printer, cache, row, calm>>

\* Without an answer the device is all that is known.
GetTasks(g) ==
  /\ poll[g].step = "tasks"
  /\ \E task \in {printer.print} \cup (IF calm THEN {} ELSE {Device}), cost \in BOOLEAN :
       /\ task = Device => ~cost
       /\ poll' = [poll EXCEPT ![g].step = "data",
                     ![g].snap = SnapshotFromCloudDevice(poll[g].device, task, cost)]
  /\ UNCHANGED <<printer, cache, row, calm>>

\* Without the pool, or before its first message, there is the REST picture only.
GetData(g) ==
  /\ poll[g].step = "data"
  /\ \/ Hand(g, poll[g], MergeCloudSnapshots(poll[g].snap, SnapshotFromCloudData(cache)))
     \/ ~calm /\ Hand(g, poll[g], poll[g].snap)
  /\ UNCHANGED <<printer, cache, row, calm>>

\* Mutant: a print that failed leaves the row open
FailureIsForgotten(g) ==
  LET snap == poll[g].snap IN
  /\ poll[g].step = "apply"
  /\ row' = IF snap.status = "failed" /\ row[snap.id] # "none" THEN row
            ELSE [row EXCEPT ![snap.id] = snap.status]
  /\ poll' = [poll EXCEPT ![g] = NotPolling]
  /\ UNCHANGED <<printer, cache, calm>>

\* SyncFromBambu: a row is opened when there is none, or when the newest is closed
\* and the printer is at work; one that is closed stays as it was closed.  A call
\* that fails leaves the rows as they were.
SyncFromBambu(g) ==
  LET snap == poll[g].snap IN
  /\ poll[g].step = "apply"
  /\ \/ row[snap.id] \in Ended /\ snap.status \in Ended /\ row' = row
     \/ ~(row[snap.id] \in Ended /\ snap.status \in Ended)
        /\ row' = [row EXCEPT ![snap.id] = snap.status]
     \/ ~calm /\ row' = row
  /\ poll' = [poll EXCEPT ![g] = NotPolling]
  /\ UNCHANGED <<printer, cache, calm>>

PollStep(g) == ListDevices(g) \/ GetTasks(g) \/ GetData(g) \/ SyncFromBambu(g)

Calm ==
  /\ ~calm /\ calm' = TRUE
  /\ UNCHANGED <<printer, cache, poll, row>>

Init ==
  /\ printer = [print |-> 0, state |-> Idle, done |-> 0, left |-> FALSE]
  /\ cache = printer /\ poll = [g \in Pollers |-> NotPolling]
  /\ row = [id \in Ids |-> "none"] /\ calm = FALSE

Next ==
  \/ Begin \/ Work \/ End \/ Clear \/ MqttBrings \/ Calm
  \/ \E g \in Pollers : PollStep(g)

\* Pollers go on, and messages arrive in the end (external).
Fairness == WF_vars(MqttBrings) /\ \A g \in Pollers : WF_vars(PollStep(g))

Spec == Init /\ [][Next]_vars /\ Fairness

-----------------------------------------------------------------------------
(* Properties.                                                             *)

\* Records have their fields, and only the picture of a print is handed on.
TypeOK ==
  /\ printer \in Report /\ cache \in Report /\ calm \in BOOLEAN
  /\ row \in [Ids -> {"none"} \cup Live \cup Ended]
  /\ poll \in [Pollers -> PollState]
  /\ \A g \in Pollers : poll[g].step = "apply" => Active(poll[g].snap.status)

\* What is left in MQTT of a print that ended never ends, or fills, a print that
\* the device list calls live: mergeCloudSnapshots.
LiveStaysLive ==
  \A g \in Pollers : (poll[g].step = "apply" /\ poll[g].device \in Live) =>
    /\ poll[g].snap.status = poll[g].device
    /\ poll[g].snap.left => poll[g].snap.progress < 100

HasEnded(p) == p < printer.print \/ (p = printer.print /\ printer.state \notin Live)

\* A job is closed only for a print that has ended, however late MQTT is and
\* whatever fails, unless the print began after the poll had listed the devices.
OnlyEndedAreClosed ==
  \A g \in Pollers :
    (poll[g].step = "apply" /\ poll[g].snap.status \in Ended /\ poll[g].snap.id # Device) =>
      HasEnded(poll[g].snap.id) \/ poll[g].snap.id > poll[g].listed

\* The job of a print whose end the printer goes on showing is closed in the end.
EndIsReported ==
  <>calm => <>[](printer.state \in Ended => row[printer.print] \in Ended)
=============================================================================
