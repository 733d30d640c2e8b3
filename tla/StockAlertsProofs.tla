--------------------------- MODULE StockAlertsProofs ---------------------------
(***************************************************************************)
(* Proofs about StockAlerts, for any threshold, any weight of a spool and  *)
(* any number of changes and restarts: types, and that no alert is sent    *)
(* that the spool has not earned.                                          *)
(***************************************************************************)
EXTENDS StockAlerts, TLAPS

\* What a loop holds
LoopOK(loop) ==
  /\ loop \in [step : {"idle", "touch", "jobs", "reload", "spools", "write"},
               active : BOOLEAN, spool : Spool]

Counted == changes \in Nat /\ lives \in Nat /\ calm \in BOOLEAN

Sent ==
  /\ lowSent \in Nat /\ emptySent \in Nat /\ rises \in Nat /\ fills \in Nat
  /\ lowAlerted \in BOOLEAN /\ emptyAlerted \in BOOLEAN

\* The inductive invariant for the types
Types ==
  /\ spool \in Spool /\ active \in BOOLEAN
  /\ LoopOK(sched) /\ LoopOK(sync)
  /\ Counted /\ Sent

LEMMA ByWeightTypes ==
  ASSUME NEW weight \in Nat
  PROVE  ByWeight(weight) \in {"available", "low", "empty"}
BY DEF ByWeight

LEMMA EffectiveStatusTypes ==
  ASSUME NEW row \in Spool, NEW inUse \in BOOLEAN
  PROVE  EffectiveStatus(row, inUse) \in Statuses
<1>1. row.weight \in Nat
  BY StockConstants DEF Spool
<1> QED
  BY <1>1, ByWeightTypes DEF EffectiveStatus, Statuses

\* A row that is written keeps its type and is counted when it rises.
LEMMA StoredTypes ==
  ASSUME Types, NEW row \in Spool, Stored(row)
  PROVE  spool' \in Spool /\ rises' \in Nat /\ fills' \in Nat
BY DEF Stored, Types, Sent

LEMMA IdleTypes == LoopOK(Idle)
BY StockConstants DEF LoopOK, Idle, Spool, Statuses

\* People and print jobs
LEMMA ChangeKeepsTypes ==
  ASSUME Types, NEW grams \in 0 .. Full,
         UpdateRemaining(grams) \/ Consume(grams) \/ Refill(grams)
  PROVE  Types'
<1>1. /\ changes' = changes + 1 /\ lives' = lives /\ calm' = calm
      /\ active' \in {active, TRUE, FALSE} /\ UNCHANGED <<loops, flags, alerts>>
  BY DEF UpdateRemaining, Consume, Refill, Changed
<1>2. spool.weight \in Nat /\ grams \in Nat /\ Full \in Nat /\ spool \in Spool
      /\ spool.weight <= Full
  BY StockConstants DEF Types, Spool
<1>3. spool' \in Spool /\ rises' \in Nat /\ fills' \in Nat
  <2>1. CASE UpdateRemaining(grams)
    <3>1. [weight |-> grams, status |-> ByWeight(grams)] \in Spool
      BY <1>2, ByWeightTypes DEF Spool, Statuses
    <3> QED
      BY <2>1, <3>1, StoredTypes DEF UpdateRemaining
  <2>2. CASE Consume(grams)
    <3>1. spool.weight - grams \in 0 .. Full
      BY <1>2, <2>2 DEF Consume
    <3>2. [weight |-> spool.weight - grams,
           status |-> IF grams = spool.weight THEN "empty" ELSE "in_use"] \in Spool
      BY <3>1 DEF Spool, Statuses
    <3> QED
      BY <2>2, <3>2, StoredTypes DEF Consume
  <2>3. CASE Refill(grams)
    <3>1. spool.weight + grams \in 0 .. Full
      BY <1>2, <2>3 DEF Refill
    <3>2. [weight |-> spool.weight + grams, status |-> "available"] \in Spool
      BY <3>1 DEF Spool, Statuses
    <3> QED
      BY <1>2, <2>3, <3>2, StoredTypes DEF Refill, Types, Sent
  <2> QED
    BY <2>1, <2>2, <2>3
<1> QED
  <2>1. changes' \in Nat /\ lives' \in Nat
    BY <1>1 DEF Types, Counted
  <2>2. active' \in BOOLEAN /\ calm' \in BOOLEAN
    BY <1>1, Zenon DEF Types, Counted
  <2>3. Sent' /\ LoopOK(sched)' /\ LoopOK(sync)'
    BY <1>1, <1>3 DEF Types, Sent, LoopOK, loops, flags, alerts
  <2> QED
    BY <1>3, <2>1, <2>2, <2>3, Zenon DEF Types, Counted

\* What the scheduler makes of a row it has listed
LEMMA AlertTypes ==
  ASSUME Types, NEW row \in Spool, NEW next, CheckWeightAlerts(row, next)
  PROVE  /\ lowSent' \in Nat /\ emptySent' \in Nat
         /\ lowAlerted' \in BOOLEAN /\ emptyAlerted' \in BOOLEAN
<1>1. \A n \in Nat, b \in BOOLEAN : n + (IF b THEN 1 ELSE 0) \in Nat
  OBVIOUS
<1> QED
  BY <1>1 DEF CheckWeightAlerts, Alert, ForgetAlerts, Types, Sent, flags, alerts

LEMMA LoopsKeepTypes ==
  ASSUME Types, Scheduler \/ Synchronizer \/ SyncGivesUp
  PROVE  Types'
<1>1. CASE SchedWrites
  <2>1. /\ sched.spool \in Spool /\ sched.active \in BOOLEAN
        /\ UNCHANGED <<active, sync, counts>> /\ sched' = Idle
    BY <1>1 DEF SchedWrites, Types, LoopOK
  <2>2. PICK next \in Statuses :
          /\ \/ Stored([sched.spool EXCEPT !.status = next])
             \/ UNCHANGED <<spool, rises, fills>>
          /\ CheckWeightAlerts(sched.spool, next)
    BY <1>1, <2>1, EffectiveStatusTypes DEF SchedWrites
  <2>3. [sched.spool EXCEPT !.status = next] \in Spool
    BY <2>1 DEF Spool
  <2>4. spool' \in Spool /\ rises' \in Nat /\ fills' \in Nat
    BY <2>2, <2>3, StoredTypes DEF Types, Sent
  <2>5. LoopOK(sched)'
    BY <2>1, IdleTypes DEF LoopOK
  <2> QED
    BY <2>1, <2>2, <2>4, <2>5, AlertTypes DEF Types, Counted, Sent, counts, LoopOK
<1>2. CASE SyncWrites
  <2>1. /\ sync.spool \in Spool /\ sync.active \in BOOLEAN
        /\ UNCHANGED <<active, sched, flags, counts, alerts>> /\ sync' = Idle
    BY <1>2 DEF SyncWrites, Types, LoopOK
  <2>2. PICK next \in Statuses :
          \/ Stored([sync.spool EXCEPT !.status = next])
          \/ UNCHANGED <<spool, rises, fills>>
    BY <1>2, <2>1, EffectiveStatusTypes DEF SyncWrites
  <2>3. [sync.spool EXCEPT !.status = next] \in Spool
    BY <2>1 DEF Spool
  <2>4. spool' \in Spool /\ rises' \in Nat /\ fills' \in Nat
    BY <2>2, <2>3, StoredTypes DEF Types, Sent
  <2>5. LoopOK(sync)'
    BY <2>1, IdleTypes DEF LoopOK
  <2> QED
    BY <2>1, <2>4, <2>5 DEF Types, Counted, Sent, counts, LoopOK, flags, alerts
<1>3. CASE ~SchedWrites /\ ~SyncWrites
  <2>1. /\ UNCHANGED <<spool, flags, counts, alerts, rises, fills>>
        /\ active' \in BOOLEAN
    BY <1>3 DEF Scheduler, Synchronizer, SchedLists, SchedTouchesJob, SchedListsSpools,
       SyncLists, SyncWritesJob, SyncReloads, SyncListsSpools, SyncGivesUp, Types
  <2>2. LoopOK(sched)'
    BY <1>3, IdleTypes DEF Scheduler, Synchronizer, SchedLists, SchedTouchesJob,
       SchedListsSpools, SyncLists, SyncWritesJob, SyncReloads, SyncListsSpools,
       SyncGivesUp, Types, LoopOK, Idle
  <2>3. LoopOK(sync)'
    BY <1>3, IdleTypes DEF Scheduler, Synchronizer, SchedLists, SchedTouchesJob,
       SchedListsSpools, SyncLists, SyncWritesJob, SyncReloads, SyncListsSpools,
       SyncGivesUp, Types, LoopOK, Idle
  <2> QED
    BY <2>1, <2>2, <2>3 DEF Types, Counted, Sent, flags, counts, alerts
<1> QED
  BY <1>1, <1>2, <1>3

\* Every step
LEMMA StepKeepsTypes ==
  ASSUME Types, [Next]_vars
  PROVE  Types'
<1>1. CASE Restart
  <2>1. /\ lives' = lives + 1 /\ sched' = Idle /\ sync' = Idle
        /\ lowAlerted' = FALSE /\ emptyAlerted' = FALSE
        /\ UNCHANGED <<spool, active, changes, calm, lowSent, emptySent, rises, fills>>
    BY <1>1 DEF Restart
  <2>2. LoopOK(sched)' /\ LoopOK(sync)'
    BY <2>1, IdleTypes DEF LoopOK
  <2>3. lives' \in Nat
    BY <2>1 DEF Types, Counted
  <2>4. Sent'
    BY <2>1 DEF Types, Sent
  <2> QED
    BY <2>1, <2>2, <2>3, <2>4, Zenon DEF Types, Counted
<1>2. CASE Calm
  BY <1>2 DEF Calm, Types, Counted, Sent, LoopOK, loops, flags, alerts
<1>3. CASE UNCHANGED vars
  BY <1>3 DEF vars, Types, Counted, Sent, LoopOK, loops, flags, alerts, counts
<1> QED
  BY <1>1, <1>2, <1>3, ChangeKeepsTypes, LoopsKeepTypes DEF Next

LEMMA InitTypes == Init => Types
<1> SUFFICES ASSUME Init PROVE Types
  OBVIOUS
<1>1. spool \in Spool
  BY StockConstants DEF Init, Spool, Statuses
<1> QED
  BY <1>1, IdleTypes DEF Init, Types, Counted, Sent

\* Weights stay between nothing and a full spool, and each loop holds a copy of a
\* row as the table could have it.
THEOREM TypesHold == Spec => []TypeOK
<1>1. Types => TypeOK
  BY DEF Types, TypeOK, LoopOK
<1>2. Types /\ [Next]_vars => Types'
  BY StepKeepsTypes
<1> QED
  BY InitTypes, <1>1, <1>2, PTL DEF Spec

-----------------------------------------------------------------------------
(* Alerts.                                                                 *)

\* Every alert that a spool was empty was paid for: by a life of the process, by a
\* time it was filled, or by its being empty now.  A scheduler that is about to
\* take the alert back has a copy with plastic, one about to send it a copy
\* without, and what has happened to the row since is counted.
EmptyEarned ==
  /\ emptySent <= lives + fills + (IF emptyAlerted /\ spool.weight = 0 THEN 1 ELSE 0)
  /\ sched.step = "write" =>
       /\ sched.spool.weight > 0 => emptySent <= lives + fills
       /\ (sched.spool.weight = 0 /\ ~emptyAlerted /\ spool.weight > 0)
            => emptySent + 1 <= lives + fills

\* The same of the other alert
LowEarned ==
  /\ lowSent <= lives + rises + (IF lowAlerted /\ spool.weight < LowWeightGrams
                                 THEN 1 ELSE 0)
  /\ sched.step = "write" =>
       /\ sched.spool.weight >= LowWeightGrams => lowSent <= lives + rises
       /\ (sched.spool.weight < LowWeightGrams /\ ~lowAlerted
           /\ spool.weight >= LowWeightGrams) => lowSent + 1 <= lives + rises

Earned == EmptyEarned /\ LowEarned

LEMMA WeightTypes ==
  ASSUME Types
  PROVE  /\ spool.weight \in Nat /\ sched.spool.weight \in Nat /\ sync.spool.weight \in Nat
         /\ lowSent \in Nat /\ emptySent \in Nat /\ rises \in Nat /\ fills \in Nat
         /\ lives \in Nat /\ LowWeightGrams \in Nat
BY StockConstants DEF Types, LoopOK, Spool, Sent, Counted

\* The row is written, from whatever copy, and the scheduler is where it was.
LEMMA StoredKeepsEarned ==
  ASSUME Types, Types', Earned, NEW row \in Spool, Stored(row),
         UNCHANGED <<sched, flags, alerts, lives>>
  PROVE  Earned'
<1>1. /\ spool' = row /\ UNCHANGED <<sched, lowAlerted, emptyAlerted, lowSent, emptySent, lives>>
      /\ rises' = IF spool.weight < LowWeightGrams /\ row.weight >= LowWeightGrams
                  THEN rises + 1 ELSE rises
      /\ fills' = IF spool.weight = 0 /\ row.weight > 0 THEN fills + 1 ELSE fills
  BY DEF Stored, flags, alerts
<1>2. row.weight \in Nat
  BY DEF Spool
<1>3. EmptyEarned'
  BY <1>1, <1>2, WeightTypes DEF Earned, EmptyEarned
<1>4. LowEarned'
  BY <1>1, <1>2, WeightTypes DEF Earned, LowEarned
<1> QED
  BY <1>3, <1>4 DEF Earned

\* Nothing is written or sent; the scheduler goes on to list the spools, or starts
\* anew.
LEMMA QuietKeepsEarned ==
  ASSUME Types, Earned, UNCHANGED <<spool, flags, alerts, lives, rises, fills>>,
         \/ sched' = sched
         \/ sched'.step # "write"
         \/ sched'.spool = spool
  PROVE  Earned'
<1>1. UNCHANGED <<spool, lowAlerted, emptyAlerted, lowSent, emptySent, lives, rises, fills>>
  BY DEF flags, alerts
<1>2. EmptyEarned'
  BY <1>1, WeightTypes DEF Earned, EmptyEarned
<1>3. LowEarned'
  BY <1>1, WeightTypes DEF Earned, LowEarned
<1> QED
  BY <1>2, <1>3 DEF Earned

\* The scheduler writes its copy, or does not, and decides by the copy.
LEMMA SchedWritesKeepsEarned ==
  ASSUME Types, Types', Earned, SchedWrites
  PROVE  Earned'
<1> DEFINE w == sched.spool.weight
<1>1. /\ sched.step = "write" /\ sched' = Idle /\ lives' = lives /\ sched.spool \in Spool
  BY DEF SchedWrites, counts, Types, LoopOK
<1>2. sched'.step = "idle"
  BY <1>1 DEF Idle
<1>3. /\ rises' = IF spool.weight < LowWeightGrams /\ spool'.weight >= LowWeightGrams
                  THEN rises + 1 ELSE rises
      /\ fills' = IF spool.weight = 0 /\ spool'.weight > 0 THEN fills + 1 ELSE fills
      /\ spool'.weight \in {spool.weight, w}
  <2>1. PICK next \in Statuses :
          \/ Stored([sched.spool EXCEPT !.status = next])
          \/ UNCHANGED <<spool, rises, fills>>
    <3>1. sched.active \in BOOLEAN
      BY DEF Types, LoopOK
    <3> QED
      BY <1>1, <3>1, EffectiveStatusTypes DEF SchedWrites
  <2>2. [sched.spool EXCEPT !.status = next].weight = w
    BY <1>1 DEF Spool
  <2>3. CASE Stored([sched.spool EXCEPT !.status = next])
    BY <2>2, <2>3 DEF Stored
  <2>4. CASE UNCHANGED <<spool, rises, fills>>
    BY <2>4, WeightTypes
  <2> QED
    BY <2>1, <2>3, <2>4
<1>4. CheckWeightAlerts(sched.spool, EffectiveStatus(sched.spool, sched.active))
  BY DEF SchedWrites
<1>5. /\ w = 0 => ByWeight(w) = "empty"
      /\ (0 < w /\ w < LowWeightGrams) => ByWeight(w) = "low"
      /\ (0 < w /\ w >= LowWeightGrams) => ByWeight(w) = "available"
  BY WeightTypes DEF ByWeight
<1>6. EmptyEarned'
  <2>1. CASE w = 0 /\ ~emptyAlerted
    <3>1. emptySent' = emptySent + 1 /\ emptyAlerted'
      BY <1>4, <1>5, <2>1 DEF CheckWeightAlerts, Alert
    <3>2. /\ emptySent <= lives + fills
          /\ spool.weight > 0 => emptySent + 1 <= lives + fills
      BY <1>1, <2>1, WeightTypes DEF Earned, EmptyEarned
    <3>3. spool'.weight = 0 \/ spool'.weight = spool.weight
      BY <1>3, <2>1
    <3> QED
      BY <1>1, <1>2, <1>3, <3>1, <3>2, <3>3, WeightTypes DEF EmptyEarned
  <2>2. CASE w = 0 /\ emptyAlerted
    <3>1. emptySent' = emptySent /\ emptyAlerted' = emptyAlerted
      BY <1>4, <1>5, <2>2 DEF CheckWeightAlerts, Alert, flags, alerts
    <3> QED
      BY <1>1, <1>2, <1>3, <2>2, <3>1, WeightTypes DEF Earned, EmptyEarned
  <2>3. CASE w > 0
    <3>1. emptySent' = emptySent
      <4>1. CASE w < LowWeightGrams
        <5>1. Alert("low")
          BY <1>4, <1>5, <2>3, <4>1 DEF CheckWeightAlerts
        <5> QED
          BY <5>1, WeightTypes DEF Alert, alerts
      <4>2. CASE w >= LowWeightGrams
        BY <1>4, <1>5, <2>3, <4>2 DEF CheckWeightAlerts, ForgetAlerts, alerts
      <4> QED
        BY <4>1, <4>2, WeightTypes
    <3>2. emptySent <= lives + fills
      BY <1>1, <2>3 DEF Earned, EmptyEarned
    <3> QED
      BY <1>1, <1>2, <1>3, <3>1, <3>2, WeightTypes DEF EmptyEarned
  <2> QED
    BY <2>1, <2>2, <2>3, WeightTypes
<1>7. LowEarned'
  <2>1. CASE 0 < w /\ w < LowWeightGrams /\ ~lowAlerted
    <3>1. lowSent' = lowSent + 1 /\ lowAlerted'
      BY <1>4, <1>5, <2>1 DEF CheckWeightAlerts, Alert
    <3>2. /\ lowSent <= lives + rises
          /\ spool.weight >= LowWeightGrams => lowSent + 1 <= lives + rises
      BY <1>1, <2>1, WeightTypes DEF Earned, LowEarned
    <3> QED
      BY <1>1, <1>2, <1>3, <2>1, <3>1, <3>2, WeightTypes DEF LowEarned
  <2>2. CASE w < LowWeightGrams /\ (w = 0 \/ lowAlerted)
    <3>1. lowSent' = lowSent /\ lowAlerted' = lowAlerted
      <4>1. CASE w = 0
        <5>1. Alert("empty")
          BY <1>4, <1>5, <4>1 DEF CheckWeightAlerts
        <5>2. CASE emptyAlerted
          BY <5>1, <5>2 DEF Alert, flags, alerts
        <5>3. CASE ~emptyAlerted
          <6>1. lowSent' = lowSent
            BY <5>1, <5>3, WeightTypes DEF Alert
          <6>2. lowAlerted' = (lowAlerted \/ "empty" = "low")
            BY <5>1, <5>3 DEF Alert
          <6>3. lowAlerted \in BOOLEAN
            BY DEF Types, Sent
          <6> QED
            BY <6>1, <6>2, <6>3
        <5> QED
          BY <5>2, <5>3
      <4>2. CASE w > 0
        BY <1>4, <1>5, <2>2, <4>2, WeightTypes DEF CheckWeightAlerts, Alert, flags, alerts
      <4> QED
        BY <4>1, <4>2, WeightTypes
    <3> QED
      BY <1>1, <1>2, <1>3, <2>2, <3>1, WeightTypes DEF Earned, LowEarned
  <2>3. CASE w >= LowWeightGrams
    <3>1. lowSent' = lowSent
      <4>1. CASE w = 0
        <5>1. Alert("empty")
          BY <1>4, <1>5, <4>1 DEF CheckWeightAlerts
        <5> QED
          BY <5>1, WeightTypes DEF Alert, alerts
      <4>2. CASE w > 0
        BY <1>4, <1>5, <2>3, <4>2 DEF CheckWeightAlerts, ForgetAlerts, alerts
      <4> QED
        BY <4>1, <4>2, WeightTypes
    <3>2. lowSent <= lives + rises
      BY <1>1, <2>3 DEF Earned, LowEarned
    <3> QED
      BY <1>1, <1>2, <1>3, <3>1, <3>2, WeightTypes DEF LowEarned
  <2> QED
    BY <2>1, <2>2, <2>3, WeightTypes
<1> QED
  BY <1>6, <1>7 DEF Earned

\* Every step
LEMMA StepKeepsEarned ==
  ASSUME Types, Types', Earned, [Next]_vars
  PROVE  Earned'
<1>1. ASSUME NEW grams \in 0 .. Full,
             UpdateRemaining(grams) \/ Consume(grams) \/ Refill(grams)
      PROVE  Earned'
  <2>1. UNCHANGED <<sched, flags, alerts, lives>>
    BY <1>1 DEF UpdateRemaining, Consume, Refill, Changed, loops
  <2>2. Stored(spool') \/ UNCHANGED <<spool, rises, fills>>
    BY <1>1 DEF UpdateRemaining, Consume, Refill, Stored
  <2>3. spool' \in Spool
    BY DEF Types
  <2> QED
    BY <2>1, <2>2, <2>3, StoredKeepsEarned, QuietKeepsEarned
<1>2. CASE SyncWrites
  <2>1. UNCHANGED <<sched, flags, alerts, lives>>
    BY <1>2 DEF SyncWrites, counts
  <2>2. Stored(spool') \/ UNCHANGED <<spool, rises, fills>>
    BY <1>2 DEF SyncWrites, Stored
  <2>3. spool' \in Spool
    BY DEF Types
  <2> QED
    BY <2>1, <2>2, <2>3, StoredKeepsEarned, QuietKeepsEarned
<1>3. CASE SchedLists \/ SchedTouchesJob \/ SchedListsSpools
  <2>1. UNCHANGED <<spool, flags, alerts, lives, rises, fills>>
    BY <1>3 DEF SchedLists, SchedTouchesJob, SchedListsSpools, counts
  <2>2. sched'.step # "write" \/ sched'.spool = spool
    BY <1>3 DEF SchedLists, SchedTouchesJob, SchedListsSpools, Types, LoopOK, Idle
  <2> QED
    BY <2>1, <2>2, QuietKeepsEarned
<1>4. CASE \/ SyncLists \/ SyncWritesJob \/ SyncReloads \/ SyncListsSpools \/ SyncGivesUp
           \/ Calm \/ UNCHANGED vars
  <2>1. UNCHANGED <<sched, spool, flags, alerts, lives, rises, fills>>
    BY <1>4 DEF SyncLists, SyncWritesJob, SyncReloads, SyncListsSpools, SyncGivesUp, Calm,
       vars, loops, counts
  <2> QED
    BY <2>1, QuietKeepsEarned
<1>5. CASE Restart
  <2>1. /\ lives' = lives + 1 /\ sched'.step = "idle" /\ ~lowAlerted' /\ ~emptyAlerted'
        /\ UNCHANGED <<spool, lowSent, emptySent, rises, fills>>
    BY <1>5 DEF Restart, Idle
  <2>2. EmptyEarned'
    BY <2>1, WeightTypes DEF Earned, EmptyEarned
  <2>3. LowEarned'
    BY <2>1, WeightTypes DEF Earned, LowEarned
  <2> QED
    BY <2>2, <2>3 DEF Earned
<1> QED
  BY <1>1, <1>2, <1>3, <1>4, <1>5, SchedWritesKeepsEarned
     DEF Next, Scheduler, Synchronizer

\* However old the copies are that the loops write back and decide by, each alert
\* beyond the first of a life of the process answers to a time the spool rose.
THEOREM AlertsAreEarnedHolds == Spec => []AlertsAreEarned
<1>1. Init => Earned
  <2> SUFFICES ASSUME Init PROVE Earned
    OBVIOUS
  <2>1. sched.step = "idle" /\ lowSent = 0 /\ emptySent = 0 /\ lives = 0 /\ rises = 0
        /\ fills = 0
    BY DEF Init, Idle
  <2> QED
    BY <2>1 DEF Earned, EmptyEarned, LowEarned
<1>2. Types /\ Earned /\ [Next]_vars => Types' /\ Earned'
  BY StepKeepsTypes, StepKeepsEarned
<1>3. Types /\ Earned => AlertsAreEarned
  BY WeightTypes DEF Earned, EmptyEarned, LowEarned, AlertsAreEarned
<1> QED
  BY InitTypes, <1>1, <1>2, <1>3, PTL DEF Spec

-----------------------------------------------------------------------------
(* The loops when nothing else happens.                                    *)

\* Each loop is at a step of its own, and what was announced was told.
Orderly ==
  /\ Types
  /\ sched.step \in {"idle", "touch", "spools", "write"}
  /\ sync.step \in {"idle", "jobs", "reload", "spools", "write"}
  /\ lowAlerted => toldLow
  /\ emptyAlerted => toldEmpty

LEMMA SchedulerKeepsOrder ==
  ASSUME Orderly, Types', Scheduler
  PROVE  Orderly'
<1>1. CASE SchedLists
  <2>1. sched'.step \in {"touch", "spools"}
    BY <1>1 DEF SchedLists, Idle
  <2> QED
    BY <1>1, <2>1 DEF SchedLists, Orderly, flags, alerts
<1>2. CASE SchedTouchesJob \/ SchedListsSpools
  <2>1. sched'.step \in {"spools", "write"}
    BY <1>2 DEF SchedTouchesJob, SchedListsSpools, Orderly, Types, LoopOK
  <2>2. UNCHANGED <<sync, flags, alerts>>
    BY <1>2 DEF SchedTouchesJob, SchedListsSpools
  <2> QED
    BY <2>1, <2>2 DEF Orderly, flags, alerts
<1>3. CASE SchedWrites
  <2>1. sched'.step = "idle" /\ sync' = sync
    BY <1>3 DEF SchedWrites, Idle
  <2>2. (lowAlerted' => toldLow') /\ (emptyAlerted' => toldEmpty')
    BY <1>3 DEF SchedWrites, CheckWeightAlerts, Alert, ForgetAlerts, Orderly, flags, alerts
  <2> QED
    BY <2>1, <2>2 DEF Orderly
<1> QED
  BY <1>1, <1>2, <1>3 DEF Scheduler

LEMMA SynchronizerKeepsOrder ==
  ASSUME Orderly, Types', Synchronizer \/ SyncGivesUp
  PROVE  Orderly'
<1>1. UNCHANGED <<sched, flags, alerts>>
  BY DEF Synchronizer, SyncLists, SyncWritesJob, SyncReloads, SyncListsSpools, SyncWrites,
         SyncGivesUp
<1>2. sync'.step \in {"idle", "jobs", "reload", "spools", "write"}
  <2>1. CASE SyncLists \/ SyncWrites \/ SyncGivesUp
    <3>1. sync' = Idle \/ sync' = [Idle EXCEPT !.step = "jobs", !.active = active]
      BY <2>1, Zenon DEF SyncLists, SyncWrites, SyncGivesUp
    <3>2. sync'.step \in {"idle", "jobs"}
      <4>1. CASE sync' = Idle
        BY <4>1 DEF Idle
      <4>2. CASE sync' = [Idle EXCEPT !.step = "jobs", !.active = active]
        BY <4>2 DEF Idle
      <4> QED
        BY <3>1, <4>1, <4>2
    <3> QED
      BY <3>2
  <2>2. CASE SyncWritesJob \/ SyncReloads \/ SyncListsSpools
    <3>1. \/ sync' = [sync EXCEPT !.step = "reload"]
          \/ sync' = [sync EXCEPT !.step = "spools", !.active = active]
          \/ sync' = [sync EXCEPT !.step = "write", !.spool = spool]
      BY <2>2, Zenon DEF SyncWritesJob, SyncReloads, SyncListsSpools
    <3>2. LoopOK(sync)
      BY DEF Orderly, Types
    <3> QED
      BY <3>1, <3>2 DEF LoopOK
  <2> QED
    BY <2>1, <2>2 DEF Synchronizer
<1> QED
  BY <1>1, <1>2 DEF Orderly, flags, alerts

LEMMA StepKeepsOrder ==
  ASSUME Orderly, [Next]_vars
  PROVE  Orderly'
<1>1. Types'
  BY StepKeepsTypes DEF Orderly
<1>2. ASSUME NEW grams \in 0 .. Full,
             UpdateRemaining(grams) \/ Consume(grams) \/ Refill(grams)
      PROVE  Orderly'
  <2>1. UNCHANGED <<loops, flags, alerts>>
    BY <1>2 DEF UpdateRemaining, Consume, Refill
  <2> QED
    BY <1>1, <2>1 DEF Orderly, loops, flags, alerts
<1>3. CASE Restart
  BY <1>1, <1>3 DEF Restart, Orderly, Idle
<1>4. CASE Calm \/ UNCHANGED vars
  BY <1>1, <1>4 DEF Calm, vars, loops, flags, alerts, Orderly
<1> QED
  BY <1>1, <1>2, <1>3, <1>4, SchedulerKeepsOrder, SynchronizerKeepsOrder DEF Next

LEMMA InitOrder == Init => Orderly
BY InitTypes DEF Init, Orderly, Idle

\* A row has the status it should have.
Right(row) == row.status = EffectiveStatus(row, active)

\* What is due for the row has been announced.
Told(row) ==
  /\ ByWeight(row.weight) = "low" => toldLow
  /\ row.weight = 0 => toldEmpty

\* A row with the status that a loop finds for it
Mended(row, inUse) == [row EXCEPT !.status = EffectiveStatus(row, inUse)]

\* The steps of the scheduler, as far as the two properties depend on them
SchedMoves ==
  /\ sync' = sync /\ (toldLow => toldLow') /\ (toldEmpty => toldEmpty')
  /\ \/ /\ sched.step = "idle" /\ sched'.step \in {"touch", "spools"}
        /\ sched'.active = active /\ spool' = spool
     \/ /\ sched.step = "touch" /\ sched'.step = "spools"
        /\ sched'.active = sched.active /\ spool' = spool
     \/ /\ sched.step = "spools" /\ sched'.step = "write"
        /\ sched'.active = sched.active /\ sched'.spool = spool /\ spool' = spool
     \/ /\ sched.step = "write" /\ sched'.step = "idle"
        /\ \/ /\ sched.spool.status # EffectiveStatus(sched.spool, sched.active)
              /\ spool' = Mended(sched.spool, sched.active)
           \/ sched.spool.status = EffectiveStatus(sched.spool, sched.active) /\ spool' = spool
        /\ ByWeight(sched.spool.weight) = "low" => toldLow'
        /\ sched.spool.weight = 0 => toldEmpty'

\* The same of the synchronizer
SyncMoves ==
  /\ sched' = sched /\ toldLow' = toldLow /\ toldEmpty' = toldEmpty
  /\ \/ /\ sync.step = "idle" /\ sync'.step = "jobs"
        /\ sync'.active = active /\ spool' = spool
     \/ /\ sync.step = "jobs" /\ sync'.step = "reload"
        /\ sync'.active = sync.active /\ spool' = spool
     \/ /\ sync.step = "reload" /\ sync'.step = "spools"
        /\ sync'.active = active /\ spool' = spool
     \/ /\ sync.step \in {"jobs", "spools"} /\ sync'.step = "write"
        /\ sync'.active = sync.active /\ sync'.spool = spool /\ spool' = spool
     \/ /\ sync.step = "write" /\ sync'.step = "idle"
        /\ \/ /\ sync.spool.status # EffectiveStatus(sync.spool, sync.active)
              /\ spool' = Mended(sync.spool, sync.active)
           \/ sync.spool.status = EffectiveStatus(sync.spool, sync.active) /\ spool' = spool

LEMMA SchedulerMoves ==
  ASSUME Orderly, calm, Scheduler
  PROVE  SchedMoves
<1>0. LoopOK(sched)
  BY DEF Orderly, Types
<1>1. CASE SchedLists
  BY <1>1 DEF SchedLists, SchedMoves, Idle, flags, alerts
<1>2. CASE SchedTouchesJob
  BY <1>0, <1>2 DEF SchedTouchesJob, SchedMoves, LoopOK, flags, alerts
<1>3. CASE SchedListsSpools
  BY <1>0, <1>3 DEF SchedListsSpools, SchedMoves, LoopOK, flags, alerts
<1>4. CASE SchedWrites
  <2>1. sched.step = "write" /\ sched'.step = "idle" /\ sync' = sync
    BY <1>4 DEF SchedWrites, Idle
  <2>2. \/ /\ sched.spool.status # EffectiveStatus(sched.spool, sched.active)
           /\ spool' = Mended(sched.spool, sched.active)
        \/ sched.spool.status = EffectiveStatus(sched.spool, sched.active) /\ spool' = spool
    BY <1>4 DEF SchedWrites, Stored, Mended
  <2>3. CheckWeightAlerts(sched.spool, EffectiveStatus(sched.spool, sched.active))
    BY <1>4 DEF SchedWrites
  <2>4. /\ toldLow => toldLow'
        /\ toldEmpty => toldEmpty'
        /\ ByWeight(sched.spool.weight) = "low" => toldLow'
        /\ ByWeight(sched.spool.weight) = "empty" => toldEmpty'
    BY <2>3 DEF CheckWeightAlerts, Alert, ForgetAlerts, Orderly, flags, alerts
  <2>5. sched.spool.weight = 0 => ByWeight(sched.spool.weight) = "empty"
    BY DEF ByWeight
  <2> QED
    BY <2>1, <2>2, <2>4, <2>5 DEF SchedMoves
<1> QED
  BY <1>1, <1>2, <1>3, <1>4 DEF Scheduler

LEMMA SynchronizerMoves ==
  ASSUME Orderly, Synchronizer
  PROVE  SyncMoves
<1>0. LoopOK(sync)
  BY DEF Orderly, Types
<1>1. CASE SyncLists
  BY <1>1 DEF SyncLists, SyncMoves, Idle, flags, alerts
<1>2. CASE SyncWritesJob
  BY <1>0, <1>2 DEF SyncWritesJob, SyncMoves, LoopOK, flags, alerts
<1>3. CASE SyncReloads \/ SyncListsSpools
  BY <1>0, <1>3 DEF SyncReloads, SyncListsSpools, SyncMoves, LoopOK, flags, alerts
<1>4. CASE SyncWrites
  <2>1. sync.step = "write" /\ sync'.step = "idle" /\ UNCHANGED <<sched, flags, alerts>>
    BY <1>4 DEF SyncWrites, Idle
  <2>2. \/ /\ sync.spool.status # EffectiveStatus(sync.spool, sync.active)
           /\ spool' = Mended(sync.spool, sync.active)
        \/ sync.spool.status = EffectiveStatus(sync.spool, sync.active) /\ spool' = spool
    BY <1>4 DEF SyncWrites, Stored, Mended
  <2> QED
    BY <2>1, <2>2 DEF SyncMoves, alerts
<1> QED
  BY <1>1, <1>2, <1>3, <1>4 DEF Synchronizer

\* In the calm nobody else moves.
LEMMA CalmMoves ==
  ASSUME Orderly, calm, [Next]_vars
  PROVE  /\ calm'
         /\ SchedMoves \/ SyncMoves \/ UNCHANGED vars
         /\ active => active'
<1>1. CASE Scheduler
  <2>1. calm' = calm
    BY <1>1 DEF Scheduler, SchedLists, SchedTouchesJob, SchedListsSpools, SchedWrites, counts
  <2>2. active' = active \/ active' = TRUE
    BY <1>1 DEF Scheduler, SchedLists, SchedTouchesJob, SchedListsSpools, SchedWrites
  <2> QED
    BY <1>1, <2>1, <2>2, SchedulerMoves
<1>2. CASE Synchronizer
  <2>1. calm' = calm
    BY <1>2 DEF Synchronizer, SyncLists, SyncWritesJob, SyncReloads, SyncListsSpools,
       SyncWrites, counts
  <2>2. active' = active \/ active' = TRUE
    <3>1. CASE SyncWritesJob
      <4>1. active' \in {TRUE}
        BY <3>1, Zenon DEF SyncWritesJob
      <4> QED
        BY <4>1
    <3>2. CASE ~SyncWritesJob
      BY <1>2, <3>2 DEF Synchronizer, SyncLists, SyncReloads, SyncListsSpools, SyncWrites
    <3> QED
      BY <3>1, <3>2
  <2> QED
    BY <1>2, <2>1, <2>2, SynchronizerMoves
<1>3. CASE UNCHANGED vars
  BY <1>3 DEF vars, counts
<1> QED
  BY <1>1, <1>2, <1>3 DEF Next, UpdateRemaining, Consume, Refill, Changed, SyncGivesUp,
     Restart, Calm

-----------------------------------------------------------------------------
(* What comes of it.                                                       *)

\* Both loops go on for ever.  That is their weak fairness (Fairness), as each of
\* their steps is guarded by the program counter of its loop alone.
LoopsGoOn == []<><<Scheduler>>_vars /\ []<><<Synchronizer>>_vars

\* Nothing but the loops happens any more, they go on, and the job stays as it is.
Loops ==
  /\ [][Next]_vars /\ []Orderly /\ []calm /\ [][UNCHANGED active]_vars
  /\ LoopsGoOn

SchedAt(step) == sched.step = step
SyncAt(step)  == sync.step = step

\* A loop that has listed the jobs knows whether the spool is in use.
SchedKnows == sched.step # "idle" => sched.active = active
SyncKnows  == sync.step # "idle" => sync.active = active

\* The copy that a loop is about to decide by needs no mending,
SchedAgrees == sched.step = "write" => Right(sched.spool)
SyncAgrees  == sync.step = "write" => Right(sync.spool)

\* or is the row as it is.
SchedFresh == sched.step = "write" => sched.spool = spool

LEMMA LoopsMove == Loops => []<><<Scheduler>>_vars /\ []<><<Synchronizer>>_vars
BY PTL DEF Loops, LoopsGoOn

\* One loop stays where it is while the other moves.
LEMMA SchedTurns ==
  ASSUME Orderly, calm
  PROVE  /\ [Next]_vars =>
              /\ SchedAt("idle") => SchedAt("idle")' \/ SchedAt("touch")' \/ SchedAt("spools")'
              /\ SchedAt("touch") => SchedAt("touch")' \/ SchedAt("spools")'
              /\ SchedAt("spools") => SchedAt("spools")' \/ SchedAt("write")'
              /\ SchedAt("write") => SchedAt("write")' \/ SchedAt("idle")'
         /\ <<Scheduler>>_vars =>
              /\ SchedAt("idle") => SchedAt("touch")' \/ SchedAt("spools")'
              /\ SchedAt("touch") => SchedAt("spools")'
              /\ SchedAt("spools") => SchedAt("write")'
              /\ SchedAt("write") => SchedAt("idle")'
<1>1. [Next]_vars => SchedMoves \/ sched' = sched
  BY CalmMoves DEF SyncMoves, vars, loops
<1>2. <<Scheduler>>_vars => SchedMoves
  BY SchedulerMoves
<1> QED
  BY <1>1, <1>2 DEF SchedMoves, SchedAt

LEMMA SyncTurns ==
  ASSUME Orderly, calm
  PROVE  /\ [Next]_vars =>
              /\ SyncAt("idle") => SyncAt("idle")' \/ SyncAt("jobs")'
              /\ SyncAt("jobs") => SyncAt("jobs")' \/ SyncAt("reload")' \/ SyncAt("write")'
              /\ SyncAt("reload") => SyncAt("reload")' \/ SyncAt("spools")'
              /\ SyncAt("spools") => SyncAt("spools")' \/ SyncAt("write")'
              /\ SyncAt("write") => SyncAt("write")' \/ SyncAt("idle")'
         /\ <<Synchronizer>>_vars =>
              /\ SyncAt("idle") => SyncAt("jobs")'
              /\ SyncAt("jobs") => SyncAt("reload")' \/ SyncAt("write")'
              /\ SyncAt("reload") => SyncAt("spools")'
              /\ SyncAt("spools") => SyncAt("write")'
              /\ SyncAt("write") => SyncAt("idle")'
<1>1. [Next]_vars => SyncMoves \/ sync' = sync
  BY CalmMoves DEF SchedMoves, vars, loops
<1>2. <<Synchronizer>>_vars => SyncMoves
  BY SynchronizerMoves
<1> QED
  BY <1>1, <1>2 DEF SyncMoves, SyncAt

\* Both loops go round for ever.
LEMMA SchedGoesRound ==
  Loops => []<>SchedAt("idle") /\ []<>SchedAt("spools") /\ []<>SchedAt("write")
<1>1. Orderly => SchedAt("idle") \/ SchedAt("touch") \/ SchedAt("spools") \/ SchedAt("write")
  BY DEF Orderly, SchedAt
<1>2. Orderly /\ calm /\ [Next]_vars =>
        /\ SchedAt("idle") => SchedAt("idle")' \/ SchedAt("touch")' \/ SchedAt("spools")'
        /\ SchedAt("touch") => SchedAt("touch")' \/ SchedAt("spools")'
        /\ SchedAt("spools") => SchedAt("spools")' \/ SchedAt("write")'
        /\ SchedAt("write") => SchedAt("write")' \/ SchedAt("idle")'
  BY SchedTurns
<1>3. Orderly /\ calm /\ <<Scheduler>>_vars =>
        /\ SchedAt("idle") => SchedAt("touch")' \/ SchedAt("spools")'
        /\ SchedAt("touch") => SchedAt("spools")'
        /\ SchedAt("spools") => SchedAt("write")'
        /\ SchedAt("write") => SchedAt("idle")'
  BY SchedTurns
<1> QED
  BY <1>1, <1>2, <1>3, LoopsMove, PTL DEF Loops

LEMMA SyncGoesRound == Loops => []<>SyncAt("idle")
<1>1. Orderly => SyncAt("idle") \/ SyncAt("jobs") \/ SyncAt("reload") \/ SyncAt("spools")
                 \/ SyncAt("write")
  BY DEF Orderly, SyncAt
<1>2. Orderly /\ calm /\ [Next]_vars =>
        /\ SyncAt("idle") => SyncAt("idle")' \/ SyncAt("jobs")'
        /\ SyncAt("jobs") => SyncAt("jobs")' \/ SyncAt("reload")' \/ SyncAt("write")'
        /\ SyncAt("reload") => SyncAt("reload")' \/ SyncAt("spools")'
        /\ SyncAt("spools") => SyncAt("spools")' \/ SyncAt("write")'
        /\ SyncAt("write") => SyncAt("write")' \/ SyncAt("idle")'
  BY SyncTurns
<1>3. Orderly /\ calm /\ <<Synchronizer>>_vars =>
        /\ SyncAt("idle") => SyncAt("jobs")'
        /\ SyncAt("jobs") => SyncAt("reload")' \/ SyncAt("write")'
        /\ SyncAt("reload") => SyncAt("spools")'
        /\ SyncAt("spools") => SyncAt("write")'
        /\ SyncAt("write") => SyncAt("idle")'
  BY SyncTurns
<1> QED
  BY <1>1, <1>2, <1>3, LoopsMove, PTL DEF Loops

\* After its next list of jobs a loop knows.
LEMMA LoopsLearn == Loops => <>[](SchedKnows /\ SyncKnows)
<1>1. (SchedAt("idle") => SchedKnows) /\ (SyncAt("idle") => SyncKnows)
  BY DEF SchedAt, SyncAt, SchedKnows, SyncKnows
<1>2. Orderly /\ calm /\ [Next]_vars /\ [UNCHANGED active]_vars =>
        (SchedKnows => SchedKnows') /\ (SyncKnows => SyncKnows')
  <2> SUFFICES ASSUME Orderly, calm, [Next]_vars, [UNCHANGED active]_vars
               PROVE  (SchedKnows => SchedKnows') /\ (SyncKnows => SyncKnows')
    OBVIOUS
  <2>1. active' = active
    BY DEF vars
  <2>2. SchedMoves \/ SyncMoves \/ UNCHANGED <<sched, sync>>
    BY CalmMoves DEF vars, loops
  <2> QED
    BY <2>1, <2>2 DEF SchedMoves, SyncMoves, SchedKnows, SyncKnows
<1> QED
  BY <1>1, <1>2, SchedGoesRound, SyncGoesRound, PTL DEF Loops

\* A step of a loop that knows leaves the row as it is, or gives it the status it
\* should have.
LEMMA KnowingMends ==
  ASSUME Orderly, calm, [Next]_vars, [UNCHANGED active]_vars, SchedKnows, SyncKnows
  PROVE  /\ spool' = spool \/ Right(spool)'
         /\ (SchedAgrees /\ SyncAgrees) => spool' = spool
<1>1. active' = active /\ sched.spool \in Spool /\ sync.spool \in Spool
  BY DEF vars, Orderly, Types, LoopOK
<1>2. ASSUME NEW row \in Spool, spool' = Mended(row, active)
      PROVE  Right(spool)'
  BY <1>1, <1>2 DEF Mended, Right, EffectiveStatus, Spool
<1>3. SchedMoves \/ SyncMoves \/ spool' = spool
  BY CalmMoves DEF vars
<1> QED
  BY <1>1, <1>2, <1>3 DEF SchedMoves, SyncMoves, SchedKnows, SyncKnows, SchedAgrees,
     SyncAgrees, Right

\* The next round of the scheduler mends the row, if no one else has, and it stays so.
LEMMA RowIsMended == Loops /\ [](SchedKnows /\ SyncKnows) => <>[]Right(spool)
<1> DEFINE Seen == SchedAt("write") /\ sched.spool = spool
<1>1. Orderly /\ calm /\ [Next]_vars /\ [UNCHANGED active]_vars /\ SchedKnows /\ SyncKnows =>
        /\ Right(spool) => Right(spool)'
        /\ SchedAt("spools") => SchedAt("spools")' \/ Seen'
        /\ Seen => Seen' \/ Right(spool)'
  <2> SUFFICES ASSUME Orderly, calm, [Next]_vars, [UNCHANGED active]_vars, SchedKnows, SyncKnows
               PROVE  /\ Right(spool) => Right(spool)'
                      /\ SchedAt("spools") => SchedAt("spools")' \/ Seen'
                      /\ Seen => Seen' \/ Right(spool)'
    OBVIOUS
  <2>1. spool' = spool \/ Right(spool)'
    BY KnowingMends
  <2>2. Right(spool) => Right(spool)'
    BY <2>1 DEF Right, vars
  <2>3. SchedMoves \/ sched' = sched
    BY CalmMoves DEF SyncMoves, vars, loops
  <2>4. SchedAt("spools") => SchedAt("spools")' \/ Seen'
    BY <2>3 DEF SchedMoves, SchedAt
  <2>5. Seen => Seen' \/ Right(spool)'
    <3>1. CASE sched' = sched
      BY <2>1, <3>1 DEF SchedAt
    <3>2. ASSUME SchedMoves, Seen, spool' = spool PROVE Right(spool)'
      <4>1. sched.spool \in Spool /\ sched.spool = spool /\ sched.active = active
            /\ active' = active
        BY <3>2 DEF Orderly, Types, LoopOK, SchedKnows, SchedAt, vars
      <4>2. sched.spool.status = EffectiveStatus(sched.spool, sched.active)
            \/ spool' = Mended(sched.spool, sched.active)
        BY <3>2 DEF SchedMoves, SchedAt
      <4> QED
        BY <3>2, <4>1, <4>2 DEF Right, Mended, EffectiveStatus, Spool
    <3> QED
      BY <2>1, <2>3, <3>1, <3>2
  <2> QED
    BY <2>2, <2>4, <2>5
<1>2. Orderly /\ calm /\ <<Scheduler>>_vars => (SchedAt("spools") => ~SchedAt("spools")')
  BY SchedTurns DEF SchedAt
<1>3. Orderly /\ calm /\ <<Scheduler>>_vars => (Seen => ~Seen')
  BY SchedTurns DEF SchedAt
<1> HIDE DEF Seen
<1> QED
  BY <1>1, <1>2, <1>3, SchedGoesRound, LoopsMove, PTL DEF Loops

\* From then on nothing is written: the copies of the next rounds agree.
LEMMA CopiesAgree ==
  Loops /\ [](SchedKnows /\ SyncKnows) /\ []Right(spool) => <>[](SchedAgrees /\ SyncAgrees)
<1>1. (SchedAt("idle") => SchedAgrees) /\ (SyncAt("idle") => SyncAgrees)
  BY DEF SchedAt, SyncAt, SchedAgrees, SyncAgrees
<1>2. Orderly /\ calm /\ [Next]_vars /\ [UNCHANGED active]_vars /\ Right(spool) =>
        (SchedAgrees => SchedAgrees') /\ (SyncAgrees => SyncAgrees')
  <2> SUFFICES ASSUME Orderly, calm, [Next]_vars, [UNCHANGED active]_vars, Right(spool)
               PROVE  (SchedAgrees => SchedAgrees') /\ (SyncAgrees => SyncAgrees')
    OBVIOUS
  <2>1. active' = active
    BY DEF vars
  <2>2. SchedMoves \/ SyncMoves \/ UNCHANGED <<sched, sync>>
    BY CalmMoves DEF vars, loops
  <2> QED
    BY <2>1, <2>2 DEF SchedMoves, SyncMoves, SchedAgrees, SyncAgrees, Right
<1> QED
  BY <1>1, <1>2, SchedGoesRound, SyncGoesRound, PTL DEF Loops

\* The scheduler then decides by the row as it is.
LEMMA SchedIsFresh ==
  Loops /\ [](SchedKnows /\ SyncKnows) /\ [](SchedAgrees /\ SyncAgrees) => <>[]SchedFresh
<1>1. SchedAt("idle") => SchedFresh
  BY DEF SchedAt, SchedFresh
<1>2. Orderly /\ calm /\ [Next]_vars /\ [UNCHANGED active]_vars /\ SchedKnows /\ SyncKnows
      /\ SchedAgrees /\ SyncAgrees => (SchedFresh => SchedFresh')
  <2> SUFFICES ASSUME Orderly, calm, [Next]_vars, [UNCHANGED active]_vars, SchedKnows, SyncKnows,
                      SchedAgrees, SyncAgrees, SchedFresh
               PROVE  SchedFresh'
    OBVIOUS
  <2>1. spool' = spool
    BY KnowingMends
  <2>2. SchedMoves \/ sched' = sched
    BY CalmMoves DEF SyncMoves, vars, loops
  <2> QED
    BY <2>1, <2>2 DEF SchedMoves, SchedFresh
<1> QED
  BY <1>1, <1>2, SchedGoesRound, PTL DEF Loops

\* And it announces what is due.
LEMMA DueIsTold ==
  Loops /\ [](SchedKnows /\ SyncKnows) /\ [](SchedAgrees /\ SyncAgrees) /\ []SchedFresh
  => <>[]Told(spool)
<1>1. Orderly /\ calm /\ [Next]_vars /\ [UNCHANGED active]_vars /\ SchedKnows /\ SyncKnows
      /\ SchedAgrees /\ SyncAgrees => (Told(spool) => Told(spool)')
  <2> SUFFICES ASSUME Orderly, calm, [Next]_vars, [UNCHANGED active]_vars, SchedKnows, SyncKnows,
                      SchedAgrees, SyncAgrees, Told(spool)
               PROVE  Told(spool)'
    OBVIOUS
  <2>1. spool' = spool
    BY KnowingMends
  <2>2. (toldLow => toldLow') /\ (toldEmpty => toldEmpty')
    BY CalmMoves DEF SchedMoves, SyncMoves, vars, alerts
  <2> QED
    BY <2>1, <2>2 DEF Told
<1>2. Orderly /\ calm /\ [Next]_vars /\ [UNCHANGED active]_vars /\ SchedKnows /\ SyncKnows
      /\ SchedAgrees /\ SyncAgrees /\ SchedFresh /\ SchedAt("write")
      => SchedAt("write")' \/ Told(spool)'
  <2> SUFFICES ASSUME Orderly, calm, [Next]_vars, [UNCHANGED active]_vars, SchedKnows, SyncKnows,
                      SchedAgrees, SyncAgrees, SchedFresh, SchedAt("write")
               PROVE  SchedAt("write")' \/ Told(spool)'
    OBVIOUS
  <2>1. spool' = spool /\ sched.spool = spool
    BY KnowingMends DEF SchedFresh, SchedAt
  <2>2. SchedMoves \/ sched' = sched
    BY CalmMoves DEF SyncMoves, vars, loops
  <2> QED
    BY <2>1, <2>2 DEF SchedMoves, SchedAt, Told
<1>3. Orderly /\ calm /\ <<Scheduler>>_vars => (SchedAt("write") => ~SchedAt("write")')
  BY SchedTurns DEF SchedAt
<1> QED
  BY <1>1, <1>2, <1>3, SchedGoesRound, LoopsMove, PTL DEF Loops

\* From the calm on, the loops are alone, and once the job is active it stays so.
LEMMA CalmLeavesLoops == Init /\ [][Next]_vars /\ LoopsGoOn /\ <>calm => <>Loops
<1>1. Init => Orderly
  BY InitOrder
<1>2. Orderly /\ [Next]_vars => Orderly'
  BY StepKeepsOrder
<1>3. Orderly /\ calm /\ [Next]_vars => calm' /\ (active => active')
  BY CalmMoves
<1>4. /\ Orderly /\ Orderly' /\ active /\ active' => [UNCHANGED active]_vars
      /\ Orderly /\ Orderly' /\ ~active /\ ~active' => [UNCHANGED active]_vars
  BY DEF Orderly, Types
<1> QED
  BY <1>1, <1>2, <1>3, <1>4, PTL DEF Loops, LoopsGoOn

\* When weights and jobs stop changing, the status of the spool comes to be what
\* they say, for any weights and however stale the copies that the loops held
\* then, if both go on (updateSpoolStatus, Synchronizer.Sync).
THEOREM StatusSettlesHolds == Init /\ [][Next]_vars /\ LoopsGoOn => StatusSettles
<1>1. Right(spool) => (spool.status = IF active THEN "in_use" ELSE ByWeight(spool.weight))
  BY DEF Right, EffectiveStatus
<1> QED
  BY <1>1, CalmLeavesLoops, LoopsLearn, RowIsMended, PTL DEF StatusSettles, Loops, LoopsGoOn

\* And a spool that stays short has been announced in this life of the process
\* (checkSpoolWeightAlerts).
THEOREM ShortageIsAnnouncedHolds == Init /\ [][Next]_vars /\ LoopsGoOn => ShortageIsAnnounced
<1>1. Told(spool) => /\ ByWeight(spool.weight) = "low" => toldLow
                     /\ spool.weight = 0 => toldEmpty
  BY DEF Told
<1> QED
  BY <1>1, CalmLeavesLoops, LoopsLearn, RowIsMended, CopiesAgree, SchedIsFresh, DueIsTold, PTL
     DEF ShortageIsAnnounced, Loops, LoopsGoOn
=============================================================================
