---------------------------- MODULE CloudPollProofs ----------------------------
(***************************************************************************)
(* Proofs about CloudPoll, for any number of pollers and of prints: the    *)
(* types, and that a picture put together from late and partial answers    *)
(* ends no print too early.                                                *)
(***************************************************************************)
EXTENDS CloudPoll, TLAPS

\* What a poll in progress knows: it listed the devices when `listed' was the
\* newest print; a device that was not at work then had ended that one, and the
\* task that it read is not an older one.
ReadSoFar(q) ==
  /\ q.step # "idle" => /\ q.listed <= printer.print
                        /\ q.device \notin Live => HasEnded(q.listed)
  /\ q.step = "data" => /\ q.snap.status = q.device
                        /\ q.snap.id \in {Device} \cup q.listed .. printer.print
                        /\ q.device \in Live => q.snap.progress = 0

\* What MQTT brought last was true once.
CacheWasTrue ==
  /\ cache.print <= printer.print
  /\ cache.state \notin Live => HasEnded(cache.print)

\* The inductive invariant
Inv ==
  /\ TypeOK /\ CacheWasTrue
  /\ \A g \in Pollers : ReadSoFar(poll[g])
  /\ LiveStaysLive /\ OnlyEndedAreClosed

\* The invariant holds when the process starts.
LEMMA StartsRight == Init => Inv
<1> USE CloudPollConstants
<1> SUFFICES ASSUME Init PROVE Inv
  OBVIOUS
<1>1. /\ 0 \in Ids /\ Idle \in States /\ 0 \in Percents /\ 0 \in 0 .. 100
      /\ NoSnapshot \in Snapshot /\ NoSnapshot.status = Idle
  BY DEF Ids, States, Idle, NoSnapshot, SnapshotFromCloudDevice, Snapshot, Device
<1>2. NotPolling \in PollState /\ NotPolling.step = "idle"
  BY <1>1 DEF NotPolling, PollState, Device
<1>3. printer \in Report /\ cache = printer
  BY <1>1 DEF Init, Report
<1>4. TypeOK
  BY <1>2, <1>3 DEF Init, TypeOK
<1>5. CacheWasTrue
  BY <1>3 DEF Init, CacheWasTrue, HasEnded, Live, Idle
<1>6. \A g \in Pollers : ReadSoFar(poll[g])
  BY <1>2 DEF Init, ReadSoFar
<1>7. LiveStaysLive /\ OnlyEndedAreClosed
  BY <1>2 DEF Init, LiveStaysLive, OnlyEndedAreClosed
<1> QED
  BY <1>4, <1>5, <1>6, <1>7 DEF Inv

\* Only Begin takes the next print.
LEMMA PrintStays ==
  ASSUME printer \in Report, Work \/ End \/ Clear
  PROVE  printer'.print = printer.print
<1>1. CASE Work
  <2>1. PICK d \in Percents, l \in BOOLEAN :
           printer' = [printer EXCEPT !.done = d, !.left = l]
    BY <1>1 DEF Work
  <2> QED
    BY <2>1 DEF Report
<1>2. CASE End
  BY <1>2 DEF End, Report
<1>3. CASE Clear
  BY <1>3 DEF Clear, Report
<1> QED
  BY <1>1, <1>2, <1>3

\* The number of the newest print only grows.
LEMMA PrintsGrow ==
  ASSUME printer \in Report, Begin \/ Work \/ End \/ Clear \/ printer' = printer
  PROVE  printer.print \in Nat /\ printer.print <= printer'.print
<1>1. printer.print \in Nat
  BY CloudPollConstants DEF Report, Ids
<1>2. CASE Begin
  BY <1>1, <1>2 DEF Begin
<1>3. CASE Work \/ End \/ Clear
  BY <1>1, <1>3, PrintStays
<1>4. CASE printer' = printer
  BY <1>1, <1>4
<1> QED
  BY <1>1, <1>2, <1>3, <1>4

\* A print that has ended remains so.
LEMMA EndsAreFinal ==
  ASSUME printer \in Report, NEW p \in Ids, HasEnded(p),
         Begin \/ Work \/ End \/ Clear \/ printer' = printer
  PROVE  HasEnded(p)'
<1>1. printer.print \in Nat /\ p \in Nat
  BY CloudPollConstants DEF Report, Ids
<1>2. CASE Begin
  <2>1. printer'.print = printer.print + 1
    BY <1>2 DEF Begin
  <2> QED
    BY <1>1, <2>1 DEF HasEnded
<1>3. CASE Work \/ End
  <2>1. printer.state \in Live /\ printer'.print = printer.print
    BY <1>3, PrintStays DEF Work, End
  <2> QED
    BY <1>1, <2>1 DEF HasEnded
<1>4. CASE Clear
  <2>1. printer'.print = printer.print /\ printer'.state \notin Live
    BY <1>4, PrintStays DEF Clear, Report, Live, Idle
  <2> QED
    BY <1>1, <2>1 DEF HasEnded
<1>5. CASE printer' = printer
  BY <1>5 DEF HasEnded
<1> QED
  BY <1>2, <1>3, <1>4, <1>5

\* The printer's own steps and what MQTT brings
LEMMA PrinterKeepsInv ==
  ASSUME Inv, Begin \/ Work \/ End \/ Clear \/ MqttBrings
  PROVE  Inv'
<1> USE CloudPollConstants
<1>1. UNCHANGED <<poll, row, calm>>
  BY DEF Begin, Work, End, Clear, MqttBrings
<1>2. Begin \/ Work \/ End \/ Clear \/ printer' = printer
  BY DEF MqttBrings
<1>3. printer' \in Report /\ cache' \in Report
  <2>1. printer \in Report /\ cache \in Report
    BY DEF Inv, TypeOK
  <2>2. CASE Begin
    BY <2>1, <2>2 DEF Begin, Report, Ids, States, Live
  <2>3. CASE Work
    BY <2>1, <2>3 DEF Work, Report
  <2>4. CASE End
    BY <2>1, <2>4 DEF End, Report, States, Ended
  <2>5. CASE Clear
    BY <2>1, <2>5 DEF Clear, Report, States
  <2>6. CASE MqttBrings
    BY <2>1, <2>6 DEF MqttBrings
  <2> QED
    BY <2>2, <2>3, <2>4, <2>5, <2>6
<1>4. TypeOK'
  BY <1>1, <1>3 DEF Inv, TypeOK
<1>5. /\ \A p \in Ids : HasEnded(p) => HasEnded(p)'
      /\ printer.print \in Nat /\ printer.print <= printer'.print
  <2>1. printer \in Report
    BY DEF Inv, TypeOK
  <2> QED
    BY <1>2, <2>1, EndsAreFinal, PrintsGrow
<1>6. CacheWasTrue'
  <2>1. CASE MqttBrings
    BY <2>1, <1>3 DEF MqttBrings, CacheWasTrue, HasEnded, Report, Ids
  <2>2. CASE cache' = cache
    BY <2>2, <1>3, <1>5 DEF Inv, TypeOK, CacheWasTrue, Report, Ids
  <2> QED
    BY <2>1, <2>2 DEF Begin, Work, End, Clear
<1>7. \A g \in Pollers : ReadSoFar(poll[g])'
  <2> SUFFICES ASSUME NEW g \in Pollers PROVE ReadSoFar(poll[g])'
    OBVIOUS
  <2>1. ReadSoFar(poll[g]) /\ poll[g] \in PollState /\ poll'[g] = poll[g]
    BY <1>1 DEF Inv, TypeOK
  <2> QED
    BY <2>1, <1>3, <1>5 DEF ReadSoFar, PollState, Report, Ids, Inv, TypeOK
<1>8. LiveStaysLive'
  BY <1>1 DEF Inv, LiveStaysLive
<1>9. OnlyEndedAreClosed'
  BY <1>1, <1>5 DEF Inv, TypeOK, PollState, Snapshot, OnlyEndedAreClosed
<1> QED
  BY <1>4, <1>6, <1>7, <1>8, <1>9 DEF Inv

-----------------------------------------------------------------------------

\* What must be known of the next picture of one poller
Fits(q) ==
  /\ q \in PollState
  /\ ReadSoFar(q)
  /\ q.step = "apply" => Active(q.snap.status)
  /\ (q.step = "apply" /\ q.device \in Live) =>
       q.snap.status = q.device /\ (q.snap.left => q.snap.progress < 100)
  /\ (q.step = "apply" /\ q.snap.status \in Ended /\ q.snap.id # Device) =>
       HasEnded(q.snap.id) \/ q.snap.id > q.listed

\* A step of a poller leaves the rest as it was.
LEMMA OnePictureChanges ==
  ASSUME Inv, NEW g \in Pollers, NEW q, Fits(q), poll' = [poll EXCEPT ![g] = q],
         UNCHANGED <<printer, cache, calm>>,
         row' \in [Ids -> {"none"} \cup Live \cup Ended]
  PROVE  Inv'
<1>1. /\ poll' \in [Pollers -> PollState]
      /\ \A h \in Pollers : poll'[h] = IF h = g THEN q ELSE poll[h]
  BY DEF Inv, TypeOK, Fits
<1>2. TypeOK'
  BY <1>1 DEF Inv, TypeOK, Fits
<1>3. CacheWasTrue'
  BY DEF Inv, CacheWasTrue, HasEnded
<1>4. \A h \in Pollers : ReadSoFar(poll[h])'
  BY <1>1 DEF Inv, ReadSoFar, HasEnded, Fits
<1>5. LiveStaysLive'
  BY <1>1 DEF Inv, LiveStaysLive, Fits
<1>6. OnlyEndedAreClosed'
  BY <1>1 DEF Inv, OnlyEndedAreClosed, HasEnded, Fits
<1> QED
  BY <1>2, <1>3, <1>4, <1>5, <1>6 DEF Inv

\* The state between two polls
LEMMA NotPollingIsIdle == NotPolling \in PollState /\ NotPolling.step = "idle"
BY CloudPollConstants DEF NotPolling, PollState, Device, Ids, States, Idle, NoSnapshot,
   SnapshotFromCloudDevice, Snapshot

\* An idle poller fits whatever the state is.
LEMMA NotPollingFits == Fits(NotPolling)
BY NotPollingIsIdle DEF Fits, ReadSoFar

\* The picture that REST alone gives of a device, with or without its task
LEMMA RestFits ==
  ASSUME NEW status \in States, NEW task \in Ids, NEW cost \in BOOLEAN
  PROVE  LET snap == SnapshotFromCloudDevice(status, task, cost) IN
         /\ snap \in Snapshot /\ snap.status = status /\ snap.id = task
         /\ status \in Live => snap.progress = 0
<1>1. \A pct \in {0, 100} : pct \in 0 .. 100
  OBVIOUS
<1> QED
  BY <1>1 DEF SnapshotFromCloudDevice, Snapshot, Live

\* A device that was not at work when it was listed had ended its print.
LEMMA ListDevicesKeepsInv ==
  ASSUME Inv, NEW g \in Pollers, ListDevices(g)
  PROVE  Inv'
<1> DEFINE seen == [NotPolling EXCEPT !.step = "tasks", !.device = printer.state,
                                      !.listed = printer.print]
           rest == SnapshotFromCloudDevice(printer.state, Device, FALSE)
           hand == [seen EXCEPT !.step = "apply", !.snap = rest]
<1>1. /\ printer.state \in States /\ printer.print \in Ids /\ printer.print \in Nat
      /\ row \in [Ids -> {"none"} \cup Live \cup Ended] /\ Device \in Ids
  BY CloudPollConstants DEF Inv, TypeOK, Report, Ids, Device
<1>2. NotPolling \in PollState
  BY NotPollingFits DEF Fits
<1>3. /\ seen \in PollState /\ seen.step = "tasks"
      /\ seen.device = printer.state /\ seen.listed = printer.print
  BY <1>1, <1>2 DEF PollState
<1>4. Fits(seen)
  BY <1>1, <1>3 DEF Fits, ReadSoFar, HasEnded
<1>5. rest \in Snapshot /\ rest.status = printer.state /\ rest.id = Device
      /\ (printer.state \in Live => rest.progress = 0)
  BY <1>1, RestFits
<1>6. ASSUME Active(rest.status) PROVE Fits(hand)
  <2> HIDE DEF rest
  <2>1. /\ hand \in PollState /\ hand.step = "apply" /\ hand.snap = rest
        /\ hand.device = printer.state /\ hand.listed = printer.print
    BY <1>1, <1>2, <1>5 DEF PollState
  <2> QED
    BY <1>1, <1>5, <1>6, <2>1 DEF Fits, ReadSoFar, HasEnded
<1>7. \E q \in {seen, NotPolling} \cup (IF Active(rest.status) THEN {hand} ELSE {}) :
        poll' = [poll EXCEPT ![g] = q]
  BY DEF ListDevices, Hand
<1>8. row' = row /\ UNCHANGED <<printer, cache, calm>>
  BY DEF ListDevices
<1> QED
  <2> HIDE DEF seen, rest, hand
  <2> QED
    BY <1>1, <1>4, <1>6, <1>7, <1>8, NotPollingFits, OnePictureChanges

\* The task that the list begins with is not older than the device list.
LEMMA GetTasksKeepsInv ==
  ASSUME Inv, NEW g \in Pollers, GetTasks(g)
  PROVE  Inv'
<1>1. PICK task \in {printer.print, Device}, cost \in BOOLEAN :
        poll' = [poll EXCEPT ![g].step = "data",
                   ![g].snap = SnapshotFromCloudDevice(poll[g].device, task, cost)]
  BY DEF GetTasks
<1> DEFINE rest == SnapshotFromCloudDevice(poll[g].device, task, cost)
           q    == [poll[g] EXCEPT !.step = "data", !.snap = rest]
<1>2. /\ poll \in [Pollers -> PollState] /\ poll[g] \in PollState
      /\ printer.print \in Ids /\ printer.print \in Nat /\ Device \in Ids
      /\ row \in [Ids -> {"none"} \cup Live \cup Ended]
  BY CloudPollConstants DEF Inv, TypeOK, Report, Ids, Device
<1>3. poll[g].device \in States /\ poll[g].listed \in Ids /\ task \in Ids
  BY <1>2 DEF PollState
<1>4. /\ rest \in Snapshot /\ rest.status = poll[g].device /\ rest.id = task
      /\ (poll[g].device \in Live => rest.progress = 0)
  BY <1>3, RestFits
<1> HIDE DEF rest
<1>5. ReadSoFar(poll[g]) /\ poll[g].step # "idle"
  BY DEF Inv, GetTasks
<1>6. /\ q \in PollState /\ q.step = "data" /\ q.snap = rest
      /\ q.device = poll[g].device /\ q.listed = poll[g].listed
  BY <1>2, <1>4 DEF PollState
<1>7. Fits(q)
  BY <1>2, <1>3, <1>4, <1>5, <1>6 DEF Fits, ReadSoFar, Ids
<1>8. poll' = [poll EXCEPT ![g] = q]
  BY <1>1, <1>2 DEF rest
<1>9. row' = row /\ UNCHANGED <<printer, cache, calm>>
  BY DEF GetTasks
<1> HIDE DEF q
<1> QED
  BY <1>2, <1>7, <1>8, <1>9, OnePictureChanges

\* What merging does: what REST calls live is live, and an end is one of both.
LEMMA MergeFits ==
  ASSUME NEW rest \in Snapshot, NEW data \in Report
  PROVE  LET mqtt == SnapshotFromCloudData(data)
             snap == MergeCloudSnapshots(rest, mqtt) IN
         /\ snap \in Snapshot
         /\ snap.id = IF rest.id # Device THEN rest.id ELSE data.print
         /\ rest.status \in Live => /\ snap.status = rest.status
                                    /\ snap.left => snap.progress < 100
         /\ snap.status \in Ended => rest.status \notin Live /\ data.state \notin Live
<1> DEFINE mqtt     == SnapshotFromCloudData(data)
           status   == MergedStatus(rest, mqtt)
           progress == MergedProgress(rest, mqtt)
           left     == \/ rest.left \/ mqtt.left
                       \/ rest.cost /\ 0 < progress /\ progress < 100
           shown    == SanitizeLiveProgress(status, progress, left)
<1>1. /\ mqtt.id = data.print /\ mqtt.status = data.state /\ mqtt.progress = data.done
      /\ mqtt.left = data.left
  BY DEF SnapshotFromCloudData
<1>2. /\ data.print \in Ids /\ data.state \in States /\ data.done \in 0 .. 100
      /\ data.left \in BOOLEAN
  BY CloudPollConstants DEF Report
<1>3. /\ rest.id \in Ids /\ rest.status \in States /\ rest.progress \in 0 .. 100
      /\ rest.left \in BOOLEAN /\ rest.cost \in BOOLEAN
  BY DEF Snapshot
<1>4. /\ status \in States
      /\ rest.status \in Live => status = rest.status
      /\ status \in Ended => rest.status \notin Live /\ data.state \notin Live
  BY <1>1, <1>2, <1>3 DEF MergedStatus, IsLivePrintStatus, Live, Ended, States, Idle
<1>5. progress \in 0 .. 100
  BY <1>1, <1>2, <1>3 DEF MergedProgress, IsLivePrintStatus
<1>6. left \in BOOLEAN
  BY <1>1, <1>2, <1>3
<1> HIDE DEF mqtt, status, progress, left
<1>7. shown \in 0 .. 100 /\ (status \in Live /\ left => shown < 100)
  BY <1>5, <1>6 DEF SanitizeLiveProgress, IsLivePrintStatus
<1> HIDE DEF shown
<1>8. MergeCloudSnapshots(rest, mqtt) =
        [id |-> IF rest.id # Device THEN rest.id ELSE mqtt.id, status |-> status,
         progress |-> shown, left |-> left, cost |-> rest.cost]
  BY DEF MergeCloudSnapshots, status, progress, left, shown
<1>9. (IF rest.id # Device THEN rest.id ELSE mqtt.id) \in Ids
  BY <1>1, <1>2, <1>3
<1>10. MergeCloudSnapshots(rest, mqtt) \in Snapshot
  BY <1>3, <1>4, <1>6, <1>7, <1>8, <1>9 DEF Snapshot
<1> QED
  BY <1>1, <1>4, <1>7, <1>8, <1>10 DEF mqtt

\* Whatever became of the call to the pool, what is handed on fits.
LEMMA GetDataKeepsInv ==
  ASSUME Inv, NEW g \in Pollers, GetData(g)
  PROVE  Inv'
<1> DEFINE rest   == poll[g].snap
           merged == MergeCloudSnapshots(rest, SnapshotFromCloudData(cache))
<1>1. /\ poll \in [Pollers -> PollState] /\ poll[g] \in PollState
      /\ printer.print \in Nat /\ cache \in Report /\ cache.print \in Ids
      /\ row \in [Ids -> {"none"} \cup Live \cup Ended]
  BY CloudPollConstants DEF Inv, TypeOK, Report, Ids
<1>2. /\ rest \in Snapshot /\ poll[g].device \in States /\ poll[g].listed \in Ids
      /\ rest.id \in Ids /\ rest.status \in States
  BY <1>1 DEF PollState, Snapshot
<1>3. ReadSoFar(poll[g]) /\ poll[g].step = "data"
  BY DEF Inv, GetData
<1>4. /\ rest.status = poll[g].device
      /\ poll[g].listed <= printer.print
      /\ poll[g].device \notin Live => HasEnded(poll[g].listed)
      /\ rest.id \in {Device} \cup poll[g].listed .. printer.print
      /\ poll[g].device \in Live => rest.progress = 0
  BY <1>3 DEF ReadSoFar
<1>5. cache.state \notin Live => HasEnded(cache.print)
  BY DEF Inv, CacheWasTrue
<1>6. ASSUME NEW snap \in {rest, merged}, Active(snap.status)
      PROVE  Fits([poll[g] EXCEPT !.step = "apply", !.snap = snap])
  <2> DEFINE q == [poll[g] EXCEPT !.step = "apply", !.snap = snap]
  <2>1. /\ merged \in Snapshot
        /\ merged.id = IF rest.id # Device THEN rest.id ELSE cache.print
        /\ rest.status \in Live => /\ merged.status = rest.status
                                   /\ merged.left => merged.progress < 100
        /\ merged.status \in Ended => rest.status \notin Live /\ cache.state \notin Live
    BY <1>1, <1>2, MergeFits
  <2>2. rest.status \in Ended => rest.status \notin Live
    BY DEF Live, Ended
  <2> HIDE DEF merged, rest
  <2>3. /\ q \in PollState /\ q.step = "apply" /\ q.snap = snap
        /\ q.device = poll[g].device /\ q.listed = poll[g].listed
    BY <1>1, <1>2, <2>1 DEF PollState
  <2>4. ReadSoFar(q)
    BY <1>4, <2>3 DEF ReadSoFar
  <2>5. poll[g].device \in Live =>
          snap.status = poll[g].device /\ (snap.left => snap.progress < 100)
    BY <1>4, <2>1
  <2>6. (snap.status \in Ended /\ snap.id # Device) =>
          HasEnded(snap.id) \/ snap.id > poll[g].listed
    <3> SUFFICES ASSUME snap.status \in Ended, snap.id # Device
                 PROVE  HasEnded(snap.id) \/ snap.id > poll[g].listed
      OBVIOUS
    <3>1. poll[g].device \notin Live
      BY <1>4, <2>1, <2>2
    <3>2. CASE snap.id = rest.id
      BY <1>1, <1>2, <1>4, <3>1, <3>2 DEF Ids
    <3>3. CASE snap.id # rest.id
      BY <1>5, <2>1, <3>3
    <3> QED
      BY <3>2, <3>3
  <2> QED
    BY <1>6, <2>3, <2>4, <2>5, <2>6 DEF Fits
<1>7. PICK snap \in {rest, merged} : Hand(g, poll[g], snap)
  BY DEF GetData
<1> HIDE DEF rest, merged
<1>8. \E q : Fits(q) /\ poll' = [poll EXCEPT ![g] = q]
  BY <1>6, <1>7, NotPollingFits DEF Hand
<1>9. row' = row /\ UNCHANGED <<printer, cache, calm>>
  BY DEF GetData
<1> QED
  BY <1>1, <1>8, <1>9, OnePictureChanges

\* Only the row of the picture's id changes, to the status of the picture.
LEMMA SyncKeepsInv ==
  ASSUME Inv, NEW g \in Pollers, SyncFromBambu(g)
  PROVE  Inv'
<1>1. /\ poll[g] \in PollState /\ row \in [Ids -> {"none"} \cup Live \cup Ended]
      /\ Active(poll[g].snap.status)
  BY DEF Inv, TypeOK, SyncFromBambu
<1>2. poll[g].snap.status \in Live \cup Ended
  BY <1>1 DEF Active
<1>3. row' = row \/ row' = [row EXCEPT ![poll[g].snap.id] = poll[g].snap.status]
  BY DEF SyncFromBambu
<1>4. row' \in [Ids -> {"none"} \cup Live \cup Ended]
  BY <1>1, <1>2, <1>3
<1> QED
  BY <1>4, NotPollingFits, OnePictureChanges DEF SyncFromBambu

\* That the printer stands still from now on changes nothing yet.
LEMMA CalmKeepsInv ==
  ASSUME Inv, Calm
  PROVE  Inv'
BY DEF Inv, Calm, TypeOK, CacheWasTrue, HasEnded, ReadSoFar, LiveStaysLive,
       OnlyEndedAreClosed

\* Nor does a step that changes nothing.
LEMMA StutterKeepsInv ==
  ASSUME Inv, UNCHANGED vars
  PROVE  Inv'
BY DEF Inv, vars, TypeOK, CacheWasTrue, HasEnded, ReadSoFar, LiveStaysLive,
       OnlyEndedAreClosed

\* Every step keeps the invariant.
LEMMA StepKeepsInv == Inv /\ [Next]_vars => Inv'
<1> SUFFICES ASSUME Inv, [Next]_vars PROVE Inv'
  OBVIOUS
<1>1. CASE Begin \/ Work \/ End \/ Clear \/ MqttBrings
  BY <1>1, PrinterKeepsInv
<1>2. CASE Calm
  BY <1>2, CalmKeepsInv
<1>3. ASSUME NEW g \in Pollers, PollStep(g) PROVE Inv'
  BY <1>3, ListDevicesKeepsInv, GetTasksKeepsInv, GetDataKeepsInv, SyncKeepsInv
     DEF PollStep
<1>4. CASE UNCHANGED vars
  BY <1>4, StutterKeepsInv
<1> QED
  BY <1>1, <1>2, <1>3, <1>4 DEF Next

\* The invariant holds throughout, and with it the three properties.
THEOREM InvariantHolds == Spec => []Inv
BY StartsRight, StepKeepsInv, PTL DEF Spec

\* Records have their form, and only a picture of a print is handed on: the second
\* results of MapCloudPrintStatus and mapGcodeState.
THEOREM TypesHold == Spec => []TypeOK
<1>1. Inv => TypeOK
  BY DEF Inv
<1> QED
  BY <1>1, InvariantHolds, PTL

\* mergeCloudSnapshots never ends or fills what the device list calls live, for
\* any percentages and any number of prints and pollers.
THEOREM LiveStaysLiveHolds == Spec => []LiveStaysLive
<1>1. Inv => LiveStaysLive
  BY DEF Inv
<1> QED
  BY <1>1, InvariantHolds, PTL

\* pollCloudPrinter closes the job of no print that has not ended, but for a print
\* that began between its two lists.
THEOREM OnlyEndedAreClosedHolds == Spec => []OnlyEndedAreClosed
<1>1. Inv => OnlyEndedAreClosed
  BY DEF Inv
<1> QED
  BY <1>1, InvariantHolds, PTL
-----------------------------------------------------------------------------
(* Liveness.  Once the printer stands still and MQTT has caught up, a poll *)
(* that goes on gets rid of what it read before, and the polls after that  *)
(* agree: none of them opens the row of an ended print, and each closes it.*)

Settled == calm /\ cache = printer

At(g, step) == poll[g].step = step

\* What a goroutine carries is what the printer shows.
UpToDate(g) ==
  /\ At(g, "tasks") => poll[g].device = printer.state
  /\ (At(g, "data") \/ At(g, "apply"))
       => poll[g].snap.id = printer.print /\ poll[g].snap.status = printer.state

EndIsClosed == printer.state \in Ended => row[printer.print] \in Ended

\* mergeCloudSnapshots of two pictures that agree
LEMMA MergeOfEqual ==
  ASSUME NEW rest, rest.id = printer.print, rest.status = printer.state, cache = printer
  PROVE  LET snap == MergeCloudSnapshots(rest, SnapshotFromCloudData(cache)) IN
         snap.id = printer.print /\ snap.status = printer.state
<1>1. /\ SnapshotFromCloudData(cache).id = printer.print
      /\ SnapshotFromCloudData(cache).status = printer.state
  BY DEF SnapshotFromCloudData
<1>2. MergedStatus(rest, SnapshotFromCloudData(cache)) = printer.state
  BY <1>1 DEF MergedStatus
<1> QED
  BY <1>1, <1>2 DEF MergeCloudSnapshots

\* The four steps of a poll of a printer that stands still.
LEMMA TurnOfPoll ==
  ASSUME Inv, Settled, NEW g \in Pollers, PollStep(g)
  PROVE  /\ At(g, "idle") => At(g, "tasks")'
         /\ At(g, "tasks") => At(g, "data")'
         /\ At(g, "data") => (At(g, "apply") \/ At(g, "idle"))'
         /\ At(g, "apply") => At(g, "idle")'
         /\ UpToDate(g) => UpToDate(g)'
         /\ UpToDate(g) /\ EndIsClosed => EndIsClosed'
         /\ UpToDate(g) /\ At(g, "data") /\ ~EndIsClosed => At(g, "apply")'
         /\ UpToDate(g) /\ At(g, "apply") => EndIsClosed'
<1>1. /\ poll \in [Pollers -> PollState] /\ poll[g] \in PollState
      /\ row \in [Ids -> {"none"} \cup Live \cup Ended]
      /\ printer.print \in Ids /\ printer.state \in States
  BY DEF Inv, TypeOK, Report
<1>2. calm /\ cache = printer /\ printer' = printer
  BY DEF Settled, PollStep, ListDevices, GetTasks, GetData, SyncFromBambu
<1>3. NotPolling \in PollState /\ NotPolling.step = "idle"
  BY NotPollingIsIdle
<1>4. CASE ListDevices(g)
  <2> DEFINE seen == [NotPolling EXCEPT !.step = "tasks", !.device = printer.state,
                                        !.listed = printer.print]
  <2>1. poll' = [poll EXCEPT ![g] = seen] /\ row' = row /\ poll[g].step = "idle"
    BY <1>2, <1>4 DEF ListDevices
  <2>2. seen.step = "tasks" /\ seen.device = printer.state
    BY <1>3 DEF PollState
  <2> HIDE DEF seen
  <2>3. poll'[g] = seen
    BY <1>1, <2>1
  <2> QED
    BY <1>2, <2>1, <2>2, <2>3 DEF At, UpToDate, EndIsClosed
<1>5. CASE GetTasks(g)
  <2>1. PICK cost \in BOOLEAN :
          poll' = [poll EXCEPT ![g].step = "data",
             ![g].snap = SnapshotFromCloudDevice(poll[g].device, printer.print, cost)]
    BY <1>2, <1>5 DEF GetTasks
  <2> DEFINE rest == SnapshotFromCloudDevice(poll[g].device, printer.print, cost)
  <2>2. rest.id = printer.print /\ rest.status = poll[g].device
    BY DEF SnapshotFromCloudDevice
  <2> HIDE DEF rest
  <2>3. poll'[g].step = "data" /\ poll'[g].snap = rest
    BY <1>1, <2>1 DEF PollState, rest
  <2>4. row' = row /\ poll[g].step = "tasks"
    BY <1>5 DEF GetTasks
  <2> QED
    BY <1>2, <2>2, <2>3, <2>4 DEF At, UpToDate, EndIsClosed
<1>6. CASE GetData(g)
  <2> DEFINE snap == MergeCloudSnapshots(poll[g].snap, SnapshotFromCloudData(cache))
             hand == [poll[g] EXCEPT !.step = "apply", !.snap = snap]
  <2>1. UpToDate(g) => snap.id = printer.print /\ snap.status = printer.state
    BY <1>2, <1>6, MergeOfEqual DEF GetData, UpToDate, At
  <2>2. /\ poll' = [poll EXCEPT ![g] = IF Active(snap.status) THEN hand ELSE NotPolling]
        /\ row' = row /\ poll[g].step = "data"
    BY <1>2, <1>6 DEF GetData, Hand
  <2> HIDE DEF snap
  <2>3. hand.step = "apply" /\ hand.snap = snap
    BY <1>1 DEF PollState
  <2> HIDE DEF hand
  <2>4. poll'[g] = IF Active(snap.status) THEN hand ELSE NotPolling
    BY <1>1, <2>2
  <2>5. CASE Active(snap.status)
    BY <1>2, <2>1, <2>2, <2>3, <2>4, <2>5 DEF At, UpToDate, EndIsClosed
  <2>6. CASE ~Active(snap.status)
    <3>1. UpToDate(g) => printer.state \notin Ended
      BY <2>1, <2>6 DEF Active
    <3> QED
      BY <1>2, <1>3, <2>2, <2>4, <2>6, <3>1 DEF At, UpToDate, EndIsClosed
  <2> QED
    BY <2>5, <2>6
<1>7. CASE SyncFromBambu(g)
  <2>1. poll'[g] = NotPolling /\ poll[g].step = "apply"
    BY <1>1, <1>7 DEF SyncFromBambu
  <2>2. UpToDate(g) => poll[g].snap.id = printer.print /\ poll[g].snap.status = printer.state
    BY <2>1 DEF UpToDate, At
  <2>3. UpToDate(g) => EndIsClosed'
    <3> SUFFICES ASSUME UpToDate(g), printer.state \in Ended
                 PROVE  row'[printer.print] \in Ended
      BY <1>2 DEF EndIsClosed
    <3>1. \/ row[printer.print] \in Ended /\ row' = row
          \/ row' = [row EXCEPT ![printer.print] = printer.state]
      BY <1>2, <1>7, <2>2 DEF SyncFromBambu
    <3> QED
      BY <1>1, <3>1
  <2> QED
    BY <1>3, <2>1, <2>3 DEF At, UpToDate
<1> QED
  BY <1>4, <1>5, <1>6, <1>7 DEF PollStep

\* Whoever else takes a step leaves the poll of g alone.
LEMMA OthersTurn ==
  ASSUME Inv, Settled, NEW g \in Pollers, [Next]_vars, ~PollStep(g)
  PROVE  poll'[g] = poll[g] /\ printer' = printer
<1>1. poll \in [Pollers -> PollState] /\ calm
  BY DEF Inv, TypeOK, Settled
<1>2. ASSUME NEW h \in Pollers, PollStep(h) PROVE poll'[g] = poll[g] /\ printer' = printer
  <2>1. g # h
    BY <1>2
  <2>2. printer' = printer /\ \E q : poll' = [poll EXCEPT ![h] = q]
    <3>1. CASE ListDevices(h)
      BY <3>1 DEF ListDevices, Hand
    <3>2. CASE GetTasks(h)
      BY <3>2 DEF GetTasks
    <3>3. CASE GetData(h)
      BY <3>3 DEF GetData, Hand
    <3>4. CASE SyncFromBambu(h)
      BY <3>4 DEF SyncFromBambu
    <3> QED
      BY <1>2, <3>1, <3>2, <3>3, <3>4 DEF PollStep
  <2> QED
    BY <1>1, <2>1, <2>2
<1>3. CASE MqttBrings
  BY <1>3 DEF MqttBrings
<1>4. CASE UNCHANGED vars
  BY <1>4 DEF vars
<1> QED
  BY <1>1, <1>2, <1>3, <1>4 DEF Next, Begin, Work, End, Clear, Calm

\* Fairness with what enables a step written out: a poller never waits, as each of
\* its steps is guarded by its program counter alone, and a message is on its way
\* while MQTT does not show the printer as it is.
GoesOn(g) == []<><<PollStep(g)>>_vars

AllGoOn == \A g \in Pollers : GoesOn(g)

MessagesArrive == []<>(cache = printer) \/ []<><<MqttBrings>>_vars

\* The premises of the theorem, as the next lemmas use them
Going(g) ==
  /\ [][Next]_vars /\ []Inv /\ MessagesArrive /\ GoesOn(g)

\* MQTT catches up with a printer that stands still.
LEMMA MqttCatchesUp ==
  ASSUME NEW g \in Pollers
  PROVE  Going(g) /\ <>calm => <>[]Settled
<1> DEFINE CaughtUp == cache = printer
<1>2. calm /\ [Next]_vars => calm' /\ printer' = printer /\ (CaughtUp => CaughtUp')
  <2> SUFFICES ASSUME calm, [Next]_vars
               PROVE  calm' /\ printer' = printer /\ (CaughtUp => CaughtUp')
    OBVIOUS
  <2> QED
    BY DEF Next, Begin, Work, End, Clear, MqttBrings, Calm, PollStep, ListDevices, GetTasks,
           GetData, SyncFromBambu, vars
<1>3. calm /\ <<MqttBrings>>_vars => CaughtUp'
  BY DEF MqttBrings
<1>4. Settled <=> calm /\ CaughtUp
  BY DEF Settled
<1>1. MessagesArrive => []<>CaughtUp \/ []<><<MqttBrings>>_vars
  BY PTL DEF MessagesArrive
<1> HIDE DEF CaughtUp
<1> QED
  BY <1>1, <1>2, <1>3, <1>4, PTL DEF Going

\* A goroutine finishes the poll it is in, and what it reads after that is true.
LEMMA GetsUpToDate ==
  ASSUME NEW g \in Pollers
  PROVE  Going(g) /\ <>calm => <>[](Settled /\ UpToDate(g))
<1>1. Going(g) /\ <>calm => <>[]Settled
  BY MqttCatchesUp
<1>3. Inv => At(g, "idle") \/ At(g, "tasks") \/ At(g, "data") \/ At(g, "apply")
  BY DEF Inv, TypeOK, PollState, At
<1>4. At(g, "idle") => UpToDate(g)
  BY DEF At, UpToDate
<1>5. Inv /\ Settled /\ <<PollStep(g)>>_vars =>
        /\ At(g, "tasks") => At(g, "data")'
        /\ At(g, "data") => At(g, "apply")' \/ At(g, "idle")'
        /\ At(g, "apply") => At(g, "idle")'
  BY TurnOfPoll DEF At
<1>6. Inv /\ Settled /\ [Next]_vars =>
        /\ UpToDate(g) => UpToDate(g)'
        /\ At(g, "tasks") => At(g, "tasks")' \/ At(g, "data")'
        /\ At(g, "data") => At(g, "data")' \/ At(g, "apply")' \/ At(g, "idle")'
        /\ At(g, "apply") => At(g, "apply")' \/ At(g, "idle")'
  <2> SUFFICES ASSUME Inv, Settled, [Next]_vars
               PROVE  /\ UpToDate(g) => UpToDate(g)'
                      /\ At(g, "tasks") => At(g, "tasks")' \/ At(g, "data")'
                      /\ At(g, "data") => At(g, "data")' \/ At(g, "apply")' \/ At(g, "idle")'
                      /\ At(g, "apply") => At(g, "apply")' \/ At(g, "idle")'
    OBVIOUS
  <2>1. CASE PollStep(g)
    BY <2>1, TurnOfPoll DEF At
  <2>2. CASE ~PollStep(g)
    BY <2>2, OthersTurn DEF At, UpToDate
  <2> QED
    BY <2>1, <2>2
<1> QED
  BY <1>1, <1>3, <1>4, <1>5, <1>6, PTL DEF Going, GoesOn

\* Once all goroutines are up to date, any one of them closes the row, and it stays
\* closed.
LEMMA EndGetsClosed ==
  ASSUME NEW g \in Pollers
  PROVE  Going(g) /\ <>[](Settled /\ \A h \in Pollers : UpToDate(h)) => <>[]EndIsClosed
<1> DEFINE Agreed == Settled /\ \A h \in Pollers : UpToDate(h)
<1>2. Inv => At(g, "idle") \/ At(g, "tasks") \/ At(g, "data") \/ At(g, "apply")
  BY DEF Inv, TypeOK, PollState, At
<1>3. Inv /\ Agreed /\ <<PollStep(g)>>_vars =>
        /\ At(g, "idle") => At(g, "tasks")'
        /\ At(g, "tasks") => At(g, "data")'
        /\ At(g, "data") /\ ~EndIsClosed => At(g, "apply")'
        /\ At(g, "apply") => EndIsClosed'
  BY TurnOfPoll DEF At
<1>4. Inv /\ Agreed /\ [Next]_vars =>
        /\ EndIsClosed => EndIsClosed'
        /\ At(g, "idle") => At(g, "idle")' \/ At(g, "tasks")'
        /\ At(g, "tasks") => At(g, "tasks")' \/ At(g, "data")'
        /\ At(g, "data") /\ ~EndIsClosed => At(g, "data")' \/ At(g, "apply")'
        /\ At(g, "apply") => At(g, "apply")' \/ EndIsClosed'
  <2> SUFFICES ASSUME Inv, Agreed, [Next]_vars
               PROVE  /\ EndIsClosed => EndIsClosed'
                      /\ At(g, "idle") => At(g, "idle")' \/ At(g, "tasks")'
                      /\ At(g, "tasks") => At(g, "tasks")' \/ At(g, "data")'
                      /\ At(g, "data") /\ ~EndIsClosed => At(g, "data")' \/ At(g, "apply")'
                      /\ At(g, "apply") => At(g, "apply")' \/ EndIsClosed'
    OBVIOUS
  <2>1. CASE PollStep(g)
    BY <2>1, TurnOfPoll DEF At
  <2>2. CASE ~PollStep(g)
    <3>1. poll'[g] = poll[g] /\ printer' = printer
      BY <2>2, OthersTurn
    <3>2. CASE \E h \in Pollers : PollStep(h)
      BY <3>1, <3>2, TurnOfPoll DEF At
    <3>3. CASE ~\E h \in Pollers : PollStep(h)
      <4>1. row' = row
        BY <3>3 DEF Next, Begin, Work, End, Clear, MqttBrings, Calm, vars
      <4> QED
        BY <3>1, <4>1 DEF At, EndIsClosed
    <3> QED
      BY <3>2, <3>3
  <2> QED
    BY <2>1, <2>2
<1> HIDE DEF Agreed
<1>5. Going(g) /\ <>[]Agreed => <>[]EndIsClosed
  BY <1>2, <1>3, <1>4, PTL DEF Going, GoesOn
<1> QED
  BY <1>5 DEF Agreed

LEMMA EachGoesOn ==
  ASSUME NEW g \in Pollers
  PROVE  Init /\ [][Next]_vars /\ MessagesArrive /\ AllGoOn => Going(g)
<1>1. AllGoOn => GoesOn(g)
  BY DEF AllGoOn
<1>2. Init /\ [][Next]_vars => []Inv
  BY StartsRight, StepKeepsInv, PTL
<1> QED
  BY <1>1, <1>2, PTL DEF Going

\* The job of a print whose end the printer goes on showing is closed in the end,
\* for any number of prints and any percentages, with the goroutines of the code: the
\* ticker of the monitor, the cloud-sync loop and a request (or fewer: the names
\* need not differ).  That all of them get rid of what they read before is
\* what takes their number to be known.
THEOREM EndIsReportedHolds ==
  ASSUME NEW ticker, NEW loop, NEW request, Pollers = {ticker, loop, request}
  PROVE  Init /\ [][Next]_vars /\ MessagesArrive /\ AllGoOn => EndIsReported
<1> DEFINE Agreed     == Settled /\ \A h \in Pollers : UpToDate(h)
           F          == Init /\ [][Next]_vars /\ MessagesArrive /\ AllGoOn
           Reaches(g) == F /\ <>calm => <>[](Settled /\ UpToDate(g))
<1>1. ASSUME NEW g \in Pollers PROVE Reaches(g)
  BY EachGoesOn, GetsUpToDate, PTL
<1>2. Reaches(ticker) /\ Reaches(loop) /\ Reaches(request)
  <2> HIDE DEF Reaches
  <2> QED
    BY <1>1
<1>3. Settled /\ UpToDate(ticker) /\ UpToDate(loop) /\ UpToDate(request) => Agreed
  OBVIOUS
<1> HIDE DEF Agreed
<1>4. F /\ <>calm => <>[]Agreed
  BY <1>2, <1>3, PTL
<1>5. F => Going(ticker)
  BY EachGoesOn
<1>6. Going(ticker) /\ <>[]Agreed => <>[]EndIsClosed
  BY EndGetsClosed DEF Agreed
<1> QED
  BY <1>4, <1>5, <1>6, PTL DEF EndIsReported, EndIsClosed
=============================================================================
