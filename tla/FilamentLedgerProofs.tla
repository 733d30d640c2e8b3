------------------------- MODULE FilamentLedgerProofs -------------------------
(***************************************************************************)
(* Proofs about the filament ledger, for any spools, prints, weights and   *)
(* number of jobs.  Sound is the inductive invariant: types, what a draft  *)
(* may hold, and the estimate as a bound on what any job holds.  The bound *)
(* is not inductive alone: a weight report leaves the reservation of a job *)
(* without a spool alone, which keeps it within the new estimate only      *)
(* because such a job holds nothing.                                       *)
(*                                                                         *)
(* On it rest the theorems about what the pages show (LiveStock) and about *)
(* the double-entry account (FilamentAccount).                             *)
(***************************************************************************)
EXTENDS LiveStock, TLAPS

SoundRow(r) ==
  /\ r \in JobRow
  /\ r.draft => r.spool = NoSpool /\ r.consumed = 0
  /\ r.consumed > 0 => r.spool # NoSpool
  /\ r.consumed <= r.est

Stock == [Spools -> Nat]

\* What a service call works on: a sound row and a stock
SoundWork(w) ==
  /\ w = [job |-> w.job, grams |-> w.grams]
  /\ SoundRow(w.job)
  /\ w.grams \in Stock

Sound == TypeOK /\ DraftHoldsNothing /\ HoldWithinEstimate

-----------------------------------------------------------------------------
(* Arithmetic.                                                             *)

\* What has left the nozzle is a whole number of grams (int(math.Round(...))).
LEMMA ExtrudedIsNat ==
  ASSUME NEW planned \in Nat, NEW progress \in 0..100
  PROVE  Extruded(planned, progress) \in Nat
<1>1. 2 * planned \in Nat
  OBVIOUS
<1>2. ASSUME NEW a \in Nat, NEW b \in Nat PROVE a * b \in Nat
  OBVIOUS
<1>3. 2 * planned * progress \in Nat
  BY <1>1, <1>2
<1>4. ASSUME NEW n \in Nat PROVE (n + 100) \div 200 \in Nat
  OBVIOUS
<1> QED BY <1>3, <1>4 DEF Extruded

\* A refund never exceeds what the job holds (unusedReservedGrams clamps used
\* to the reservation).
LEMMA UnusedIsWithinHold ==
  ASSUME NEW row \in JobRow
  PROVE  UnusedReservedGrams(row) \in 0..row.consumed
<1> DEFINE planned == IF row.est > 0 THEN row.est ELSE row.consumed
<1>1. planned \in Nat /\ row.progress \in 0..100 /\ row.consumed \in Nat
  BY DEF JobRow
<1>2. Extruded(planned, row.progress) \in Nat
  BY <1>1, ExtrudedIsNat
<1> HIDE DEF planned
<1>3. row.consumed - Lesser(Extruded(planned, row.progress), row.consumed)
        \in 0..row.consumed
  BY <1>1, <1>2 DEF Lesser
<1> QED BY <1>3 DEF UnusedReservedGrams, planned

-----------------------------------------------------------------------------
(* Rows and stocks.                                                        *)

\* Reserving up to the estimate, or giving a surplus back, is sound.
LEMMA ReserveIsSound ==
  ASSUME NEW row \in JobRow, NEW g \in Stock, NEW s \in Spools, NEW want \in Int,
         row.spool = s, ~row.draft, row.consumed + want \in 0..row.est
  PROVE  SoundWork(Reserve([job |-> row, grams |-> g], s, want))
<1> DEFINE got == Lesser(want, g[s])
           r   == [row EXCEPT !.consumed = @ + got]
           h   == [g EXCEPT ![s] = @ - got]
<1>1. g[s] \in Nat /\ row.consumed \in Nat /\ row.est \in Nat
  BY DEF JobRow, Stock
<1>2. got \in Int /\ got <= want /\ got <= g[s] /\ (got = want \/ got >= 0)
  BY <1>1 DEF Lesser
<1>3. row.consumed + got \in 0..row.est
  BY <1>1, <1>2
<1>4. g[s] - got \in Nat
  BY <1>1, <1>2
<1> HIDE DEF got
<1>5. r \in JobRow /\ r.consumed = row.consumed + got /\ r.est = row.est
      /\ r.spool = s /\ ~r.draft
  BY <1>1, <1>3 DEF JobRow
<1>6. SoundRow(r)
  BY <1>3, <1>5, NamesAreDistinct DEF SoundRow
<1>7. h \in Stock
  BY <1>4 DEF Stock
<1>8. Reserve([job |-> row, grams |-> g], s, want) = [job |-> r, grams |-> h]
  BY DEF Reserve, got
<1> HIDE DEF r, h
<1> QED BY <1>6, <1>7, <1>8 DEF SoundWork

\* A refund only adds to a spool.
LEMMA RefundIsSound ==
  ASSUME NEW g \in Stock, NEW s, NEW n \in Nat
  PROVE  Refund(g, s, n) \in Stock
<1> g \in [Spools -> Nat]
  BY DEF Stock
<1>1. CASE s \in Spools
  <2>1. g[s] + n \in Nat
    BY <1>1
  <2> QED BY <2>1 DEF Refund, Stock
<1>2. CASE s \notin Spools
  BY <1>2 DEF Refund, Stock
<1> QED BY <1>1, <1>2

-----------------------------------------------------------------------------
(* The steps of SyncFromBambu.                                             *)

SnapshotType ==
  [id : Tasks, status : Live \cup Terminal, progress : 0..100, weight : Nat]

\* createFromBambu
LEMMA CreateIsSound ==
  ASSUME NEW snap \in SnapshotType, NEW match \in Spools \cup {NoSpool},
         NEW guess \in Nat, grams \in Stock
  PROVE  SoundWork(CreateFromBambu(snap, match, guess))
<1> DEFINE est == IF snap.weight > 0 THEN snap.weight ELSE guess
           row == [task |-> snap.id, spool |-> match, status |-> snap.status,
                   draft |-> match = NoSpool, progress |-> snap.progress,
                   est |-> est, consumed |-> 0, finished |-> FALSE]
<1>1. est \in Nat
  BY DEF SnapshotType
<1>2. (match = NoSpool) \in BOOLEAN
  OBVIOUS
<1> HIDE DEF est
<1>3. row \in JobRow /\ row.consumed = 0 /\ row.est = est /\ row.spool = match
      /\ (row.draft <=> match = NoSpool)
  BY <1>1, <1>2 DEF SnapshotType, JobRow
<1>4. CreateFromBambu(snap, match, guess)
        = IF match = NoSpool THEN [job |-> row, grams |-> grams]
          ELSE Reserve([job |-> row, grams |-> grams], match, est)
  BY DEF CreateFromBambu, est
<1> HIDE DEF row
<1>5. CASE match = NoSpool
  BY <1>1, <1>3, <1>4, <1>5 DEF SoundWork, SoundRow
<1>6. CASE match # NoSpool
  <2>1. row.consumed + est \in 0..row.est /\ ~row.draft /\ est \in Int
    BY <1>1, <1>3, <1>6
  <2>2. SoundWork(Reserve([job |-> row, grams |-> grams], match, est))
    BY <1>3, <1>6, <2>1, ReserveIsSound
  <2> QED BY <1>4, <1>6, <2>2
<1> QED BY <1>5, <1>6

\* ensureDraftLinked
LEMMA LinkIsSound ==
  ASSUME NEW w, SoundWork(w), NEW match \in Spools \cup {NoSpool}
  PROVE  SoundWork(EnsureDraftLinked(w, match))
<1> DEFINE row  == [w.job EXCEPT !.spool = match, !.draft = FALSE]
           want == w.job.est - w.job.consumed
<1>1. w.job \in JobRow /\ SoundRow(w.job) /\ w.grams \in Stock
      /\ w = [job |-> w.job, grams |-> w.grams]
  BY DEF SoundWork, SoundRow
<1>2. CASE ~w.job.draft \/ match = NoSpool
  BY <1>2 DEF EnsureDraftLinked
<1>3. CASE w.job.draft /\ match # NoSpool
  <2>1. row \in JobRow /\ row.spool = match /\ ~row.draft /\ row.est = w.job.est
        /\ row.consumed = w.job.consumed /\ row.est \in Nat /\ row.consumed \in Nat
    BY <1>1, <1>3 DEF JobRow
  <2>2. want \in Int /\ row.consumed + want \in 0..row.est
    BY <2>1
  <2>3. [w EXCEPT !.job = [@ EXCEPT !.spool = match, !.draft = FALSE]]
          = [job |-> row, grams |-> w.grams]
    BY <1>1
  <2> HIDE DEF row
  <2>4. SoundWork(Reserve([job |-> row, grams |-> w.grams], match, want))
    BY <1>1, <1>3, <2>1, <2>2, ReserveIsSound
  <2> QED BY <1>3, <2>3, <2>4 DEF EnsureDraftLinked
<1> QED BY <1>2, <1>3

\* applyJobWeight
LEMMA WeightIsSound ==
  ASSUME NEW w, SoundWork(w), NEW weight \in Nat
  PROVE  SoundWork(ApplyJobWeight(w, weight))
<1> DEFINE row  == [w.job EXCEPT !.est = weight]
           want == weight - w.job.consumed
           idle == w.job.draft \/ w.job.spool = NoSpool
<1>1. w.job \in JobRow /\ SoundRow(w.job) /\ w.grams \in Stock
      /\ w = [job |-> w.job, grams |-> w.grams]
  BY DEF SoundWork, SoundRow
<1>2. row \in JobRow /\ row.est = weight /\ row.spool = w.job.spool
      /\ row.draft = w.job.draft /\ row.consumed = w.job.consumed
      /\ row.consumed \in Nat /\ row.draft \in BOOLEAN
      /\ w.job.spool \in Spools \cup {NoSpool}
  BY <1>1 DEF JobRow
<1>3. [w EXCEPT !.job.est = weight] = [job |-> row, grams |-> w.grams]
  BY <1>1
<1> HIDE DEF row
<1>4. CASE weight = 0
  BY <1>4 DEF ApplyJobWeight
<1>5. CASE weight > 0 /\ idle
  <2>1. row.consumed = 0
    BY <1>1, <1>2, <1>5 DEF SoundRow
  <2>2. SoundRow(row)
    BY <1>1, <1>2, <2>1 DEF SoundRow
  <2>3. SoundWork([job |-> row, grams |-> w.grams])
    BY <1>1, <2>2 DEF SoundWork
  <2> QED BY <1>3, <1>5, <2>3 DEF ApplyJobWeight
<1>6. CASE weight > 0 /\ ~idle
  <2>1. want \in Int /\ row.consumed + want \in 0..row.est
    BY <1>2
  <2>2. SoundWork(Reserve([job |-> row, grams |-> w.grams], w.job.spool, want))
    BY <1>1, <1>2, <1>6, <2>1, ReserveIsSound
  <2> QED BY <1>3, <1>6, <2>2 DEF ApplyJobWeight
<1> QED BY <1>4, <1>5, <1>6

\* A closed row is sound if it names a spool or holds nothing.
LEMMA CloseIsSound ==
  ASSUME NEW row, SoundRow(row), NEW status \in Terminal
  PROVE  /\ SoundRow(Close(row, status))
         /\ Close(row, status).consumed = row.consumed
         /\ Close(row, status).est = row.est
         /\ Close(row, status).spool = row.spool
         /\ Close(row, status).draft = FALSE
         /\ Close(row, status).status = status
<1>1. row \in JobRow
  BY DEF SoundRow
<1>2. Close(row, status) \in JobRow
  BY <1>1 DEF Close, JobRow
<1>3. /\ Close(row, status).consumed = row.consumed
      /\ Close(row, status).est = row.est
      /\ Close(row, status).spool = row.spool
      /\ Close(row, status).draft = FALSE
      /\ Close(row, status).status = status
  BY <1>1 DEF Close, JobRow
<1> QED BY <1>2, <1>3 DEF SoundRow

\* finalizeComplete
LEMMA CompleteIsSound ==
  ASSUME NEW w, SoundWork(w), NEW actual \in Nat
  PROVE  SoundWork(FinalizeComplete(w, actual))
<1> DEFINE s     == w.job.spool
           delta == actual - w.job.consumed
           shut  == Close(w.job, "completed")
           done  == [shut EXCEPT !.progress = 100]
           known == actual > 0 /\ s # NoSpool
           took  == IF s \in stocked /\ delta <= w.grams[s] THEN delta ELSE 0
           left  == IF took = 0 THEN w.grams ELSE [w.grams EXCEPT ![s] = @ - took]
           paid  == [done EXCEPT !.est = actual, !.consumed = actual]
           owed  == [done EXCEPT !.est = actual]
<1>1. w.job \in JobRow /\ SoundRow(w.job) /\ w.grams \in Stock
      /\ w = [job |-> w.job, grams |-> w.grams]
  BY DEF SoundWork, SoundRow
<1>2. w.job.consumed \in Nat /\ w.job.est \in Nat /\ s \in Spools \cup {NoSpool}
  BY <1>1 DEF JobRow
<1>3. SoundRow(shut) /\ shut.consumed = w.job.consumed /\ shut.est = w.job.est
      /\ shut.spool = s /\ shut.draft = FALSE
  BY <1>1, CloseIsSound DEF Terminal
<1> HIDE DEF shut
<1>4. done \in JobRow /\ done.consumed = w.job.consumed /\ done.est = w.job.est
      /\ done.spool = s /\ done.draft = FALSE
  BY <1>3 DEF SoundRow, JobRow
<1>5. SoundRow(done)
  BY <1>1, <1>4 DEF SoundRow
<1> HIDE DEF done
<1>6. FinalizeComplete(w, actual) =
        CASE ~known -> [w EXCEPT !.job = done]
          [] known /\ delta > 0 /\ s \notin stocked -> [w EXCEPT !.job = owed]
          [] OTHER -> [job |-> paid, grams |-> left]
  BY DEF FinalizeComplete, done, shut
<1>7. ASSUME NEW row PROVE [w EXCEPT !.job = row] = [job |-> row, grams |-> w.grams]
  BY <1>1
<1>8. CASE ~known
  <2>1. FinalizeComplete(w, actual) = [job |-> done, grams |-> w.grams]
    BY <1>6, <1>7, <1>8
  <2> QED BY <1>1, <1>5, <2>1 DEF SoundWork
<1>9. CASE known /\ delta > 0 /\ s \notin stocked
  <2>1. owed \in JobRow /\ owed.consumed = w.job.consumed /\ owed.est = actual
        /\ owed.spool = s /\ owed.draft = FALSE
    BY <1>4 DEF JobRow
  <2>2. SoundRow(owed)
    BY <1>2, <1>9, <2>1 DEF SoundRow
  <2>3. FinalizeComplete(w, actual) = [job |-> owed, grams |-> w.grams]
    BY <1>6, <1>7, <1>9
  <2> HIDE DEF owed
  <2> QED BY <1>1, <2>2, <2>3 DEF SoundWork
<1>10. CASE known /\ ~(delta > 0 /\ s \notin stocked)
  <2>1. paid \in JobRow /\ paid.consumed = actual /\ paid.est = actual
        /\ paid.spool = s /\ paid.draft = FALSE
    BY <1>4 DEF JobRow
  <2>2. SoundRow(paid)
    BY <1>10, <2>1 DEF SoundRow
  <2>3. s \in Spools /\ w.grams[s] \in Nat /\ delta \in Int
    BY <1>1, <1>2, <1>10 DEF Stock
  <2>4. took \in Int /\ took <= w.grams[s]
    BY <2>3
  <2>5. w.grams[s] - took \in Nat
    BY <2>3, <2>4
  <2> HIDE DEF took
  <2>6. left \in Stock
    BY <1>1, <2>5 DEF Stock
  <2>7. FinalizeComplete(w, actual) = [job |-> paid, grams |-> left]
    BY <1>6, <1>10
  <2> HIDE DEF left, paid
  <2> QED BY <2>2, <2>6, <2>7 DEF SoundWork
<1> QED BY <1>8, <1>9, <1>10

\* finalizeCancelOrFail
LEMMA StopIsSound ==
  ASSUME NEW w, SoundWork(w), NEW status \in Terminal
  PROVE  SoundWork(FinalizeCancelOrFail(w, status))
<1> DEFINE unused == IF w.job.spool = NoSpool THEN 0 ELSE UnusedReservedGrams(w.job)
           shut   == Close(w.job, status)
           row    == [shut EXCEPT !.consumed = @ - unused]
           left   == Refund(w.grams, w.job.spool, unused)
<1>1. w.job \in JobRow /\ SoundRow(w.job) /\ w.grams \in Stock
  BY DEF SoundWork, SoundRow
<1>2. w.job.consumed \in Nat /\ unused \in 0..w.job.consumed
  BY <1>1, UnusedIsWithinHold DEF JobRow
<1>3. SoundRow(shut) /\ shut.consumed = w.job.consumed
  BY <1>1, CloseIsSound
<1> HIDE DEF unused, shut
<1>4. row \in JobRow /\ row.consumed = shut.consumed - unused /\ row.est = shut.est
      /\ row.spool = shut.spool /\ row.draft = shut.draft /\ row.est \in Nat
  BY <1>2, <1>3 DEF SoundRow, JobRow
<1>5. SoundRow(row)
  BY <1>2, <1>3, <1>4 DEF SoundRow
<1>6. left \in Stock
  BY <1>1, <1>2, RefundIsSound
<1>7. FinalizeCancelOrFail(w, status) = [job |-> row, grams |-> left]
  BY DEF FinalizeCancelOrFail, unused, shut
<1> HIDE DEF row, left
<1> QED BY <1>5, <1>6, <1>7 DEF SoundWork

\* The status switch of SyncFromBambu
LEMMA StatusIsSound ==
  ASSUME NEW w, SoundWork(w), NEW snap \in SnapshotType
  PROVE  SoundWork(ApplyStatus(w, snap))
<1> DEFINE row == [w.job EXCEPT !.status = snap.status]
<1>1. w.job \in JobRow /\ SoundRow(w.job) /\ w.grams \in Stock
      /\ w = [job |-> w.job, grams |-> w.grams]
  BY DEF SoundWork, SoundRow
<1>2. snap.status \in Live \cup Terminal /\ snap.weight \in Nat
  BY DEF SnapshotType
<1>3. CASE w.job.status \in Terminal
  BY <1>3 DEF ApplyStatus
<1>4. CASE w.job.status \notin Terminal /\ snap.status \in Live
  <2>1. row \in JobRow /\ row.consumed = w.job.consumed /\ row.est = w.job.est
        /\ row.spool = w.job.spool /\ row.draft = w.job.draft
    BY <1>1, <1>2 DEF JobRow
  <2>2. SoundRow(row)
    BY <1>1, <2>1 DEF SoundRow
  <2>3. [w EXCEPT !.job.status = snap.status] = [job |-> row, grams |-> w.grams]
    BY <1>1
  <2>4. ApplyStatus(w, snap) = [w EXCEPT !.job.status = snap.status]
    BY <1>4 DEF ApplyStatus, Live
  <2> HIDE DEF row
  <2> QED BY <1>1, <2>2, <2>3, <2>4 DEF SoundWork
<1>5. CASE w.job.status \notin Terminal /\ snap.status = "completed"
  <2>1. ApplyStatus(w, snap) = FinalizeComplete(w, snap.weight)
    BY <1>5 DEF ApplyStatus, Live
  <2> QED BY <1>2, <2>1, CompleteIsSound
<1>6. CASE w.job.status \notin Terminal /\ snap.status \notin Live
           /\ snap.status # "completed"
  <2>1. ApplyStatus(w, snap) = FinalizeCancelOrFail(w, snap.status)
    BY <1>6 DEF ApplyStatus
  <2> QED BY <1>2, <1>6, <2>1, StopIsSound
<1> QED BY <1>3, <1>4, <1>5, <1>6

-----------------------------------------------------------------------------
(* The invariant, by the part of the state it speaks of.                   *)

LedgerOK ==
  /\ grams \in Stock
  /\ DOMAIN jobs \subseteq 1..(nextJob - 1)
  /\ nextJob \in 1..(MaxJobs + 1)
  /\ \A j \in DOMAIN jobs : SoundRow(jobs[j])

ShopOK ==
  /\ stocked \subseteq bought /\ bought \subseteq Spools
  /\ stocktakes \in {0, 1}

PrinterOK ==
  /\ plate \in [Prints -> PlateRow]
  /\ \A p \in Prints : plate[p].state = "waiting" <=> plate[p].run = 0
  /\ onPlate \in {NoPrint} \cup {p \in Prints : plate[p].state # "waiting"}
  /\ feed \in Feeds

LEMMA SoundParts == Sound <=> LedgerOK /\ ShopOK /\ PrinterOK
BY DEF Sound, TypeOK, DraftHoldsNothing, HoldWithinEstimate,
       LedgerOK, ShopOK, PrinterOK, SoundRow, Stock

\* Writing a sound row next to sound rows
LEMMA PutIsSound ==
  ASSUME LedgerOK, NEW j, NEW row, SoundRow(row), jobs' = PutJob(j, row)
  PROVE  /\ DOMAIN jobs' = DOMAIN jobs \cup {j}
         /\ \A k \in DOMAIN jobs' : SoundRow(jobs'[k])
<1>1. DOMAIN jobs' = DOMAIN jobs \cup {j}
  BY DEF PutJob
<1>2. ASSUME NEW k \in DOMAIN jobs' PROVE SoundRow(jobs'[k])
  <2>1. jobs'[k] = IF k = j THEN row ELSE jobs[k]
    BY <1>1, <1>2 DEF PutJob
  <2>2. CASE k = j
    BY <2>1, <2>2
  <2>3. CASE k # j
    BY <1>1, <1>2, <2>1, <2>3 DEF LedgerOK
  <2> QED BY <2>2, <2>3
<1> QED BY <1>1, <1>2

\* One service call that writes one row and the stock
LEMMA CallIsSound ==
  ASSUME LedgerOK, NEW j, NEW w, SoundWork(w),
         jobs' = PutJob(j, w.job), grams' = w.grams,
         \/ j \in DOMAIN jobs /\ nextJob' = nextJob
         \/ j = nextJob /\ nextJob <= MaxJobs /\ nextJob' = nextJob + 1
  PROVE  LedgerOK'
<1>1. SoundRow(w.job) /\ w.grams \in Stock
  BY DEF SoundWork
<1>2. /\ DOMAIN jobs' = DOMAIN jobs \cup {j}
      /\ \A k \in DOMAIN jobs' : SoundRow(jobs'[k])
  BY <1>1, PutIsSound
<1>3. nextJob' \in 1..(MaxJobs + 1) /\ DOMAIN jobs' \subseteq 1..(nextJob' - 1)
  BY <1>2, OtherConstants DEF LedgerOK
<1>4. grams' \in Stock
  BY <1>1
<1> QED BY <1>2, <1>3, <1>4 DEF LedgerOK, SoundRow, Stock

\* Every print has a task id, under any feed.
LEMMA TaskIdIsTask ==
  ASSUME NEW p \in Prints, plate[p].start \in 0..MaxRuns
  PROVE  /\ TaskId(p) \in Tasks
         /\ TaskId(p) \in PrintTasks(p) \/ TaskId(p) = DeviceTask
<1>1. 0 \in 0..MaxRuns
  BY OtherConstants
<1>2. CASE feed = "offline"
  BY <1>2 DEF TaskId, Tasks
<1>3. CASE feed # "offline"
  <2>1. PICK kind \in {"lan", "cloud"}, start \in 0..MaxRuns :
          TaskId(p) = [kind |-> kind, print |-> p, start |-> start]
    BY <1>1, <1>3 DEF TaskId
  <2> QED BY <2>1 DEF Tasks, PrintTasks
<1> QED BY <1>2, <1>3

\* What a poll reads is a snapshot.
LEMMA SnapshotIsTyped ==
  ASSUME PrinterOK, onPlate # NoPrint
  PROVE  Snapshot(onPlate) \in SnapshotType
<1> DEFINE state == plate[onPlate].state
           ahead == feed = "stale" /\ state \in Live
           seen  == IF ahead \/ state = "completed" THEN 100
                    ELSE IF feed \in {"rest", "offline"} THEN 0 ELSE plate[onPlate].done
           id     == TaskId(onPlate)
           weight == IF feed \in {"mqtt", "rest"} THEN TaskWeight[onPlate] ELSE 0
<1>1. /\ onPlate \in Prints /\ state \in Live \cup Terminal
      /\ plate[onPlate].done \in 0..100 /\ plate[onPlate].start \in 0..MaxRuns
  BY OtherConstants DEF PrinterOK, PlateRow
<1>2. seen \in 0..100
  BY <1>1
<1>3. id \in Tasks
  BY <1>1, TaskIdIsTask DEF PrinterOK, PlateRow
<1>4. weight \in Nat
  BY <1>1, GramsArePositive
<1> HIDE DEF seen
<1>5. SanitizeJobProgress(state, seen, ahead) \in 0..100
  BY <1>2 DEF SanitizeJobProgress
<1>6. Snapshot(onPlate) = [id |-> id, status |-> state, weight |-> weight,
                           progress |-> SanitizeJobProgress(state, seen, ahead)]
  BY DEF Snapshot, seen
<1> HIDE DEF state, ahead, id, weight
<1> QED BY <1>1, <1>3, <1>4, <1>5, <1>6 DEF SnapshotType

\* SyncFromBambu from the row on, for a row found or created
LEMMA SyncRowIsSound ==
  ASSUME LedgerOK, NEW j, NEW w, SoundWork(w), NEW snap \in SnapshotType,
         NEW match \in Spools \cup {NoSpool}, SyncRow(j, w, snap, match),
         \/ j \in DOMAIN jobs /\ nextJob' = nextJob
         \/ j = nextJob /\ nextJob <= MaxJobs /\ nextJob' = nextJob + 1
  PROVE  LedgerOK'
<1> DEFINE row    == [w.job EXCEPT !.progress = snap.progress]
           seen   == [w EXCEPT !.job.progress = snap.progress]
           linked == EnsureDraftLinked(seen, match)
           done   == ApplyStatus(ApplyJobWeight(linked, snap.weight), snap)
<1>1. snap.progress \in 0..100 /\ snap.weight \in Nat
  BY DEF SnapshotType
<1>2. w.job \in JobRow /\ SoundRow(w.job) /\ w.grams \in Stock
      /\ w = [job |-> w.job, grams |-> w.grams]
  BY DEF SoundWork, SoundRow
<1>3. row \in JobRow /\ row.consumed = w.job.consumed /\ row.est = w.job.est
      /\ row.spool = w.job.spool /\ row.draft = w.job.draft
  BY <1>1, <1>2 DEF JobRow
<1>4. SoundRow(row)
  BY <1>2, <1>3 DEF SoundRow
<1>5. seen = [job |-> row, grams |-> w.grams]
  BY <1>2
<1> HIDE DEF row
<1>6. SoundWork(seen)
  BY <1>2, <1>4, <1>5 DEF SoundWork
<1> HIDE DEF seen
<1>7. SoundWork(linked)
  BY <1>6, LinkIsSound
<1> HIDE DEF linked
<1>8. SoundWork(ApplyJobWeight(linked, snap.weight))
  BY <1>1, <1>7, WeightIsSound
<1>9. SoundWork(done)
  BY <1>8, StatusIsSound
<1>10. jobs' = PutJob(j, done.job) /\ grams' = done.grams
  BY DEF SyncRow, linked, seen
<1> HIDE DEF done
<1> QED BY <1>9, <1>10, CallIsSound

\* A poll
LEMMA PollIsSound ==
  ASSUME LedgerOK, ShopOK, PrinterOK, PollNext
  PROVE  LedgerOK'
<1>1. PICK snap \in {Snapshot(onPlate)} : Poll(snap)
  BY DEF PollNext
<1>2. snap \in SnapshotType
  BY <1>1, SnapshotIsTyped DEF PollNext
<1>3. PICK match \in Matches :
        (\E guess \in Guesses : SyncNew(snap, match, guess)) \/ SyncExisting(snap, match)
  BY <1>1 DEF Poll
<1>4. match \in Spools \cup {NoSpool}
  BY DEF Matches, ShopOK
<1>5. ASSUME NEW guess \in Guesses, SyncNew(snap, match, guess) PROVE LedgerOK'
  <2>1. PICK w \in {CreateFromBambu(snap, match, guess)} : SyncRow(nextJob, w, snap, match)
    BY <1>5 DEF SyncNew
  <2>2. SoundWork(w)
    BY <1>2, <1>4, <2>1, CreateIsSound, GramsArePositive DEF LedgerOK
  <2> QED BY <1>2, <1>4, <1>5, <2>1, <2>2, SyncRowIsSound DEF SyncNew
<1>6. ASSUME SyncExisting(snap, match) PROVE LedgerOK'
  <2>1. PICK j \in Newest(snap.id) :
          SyncRow(j, [job |-> jobs[j], grams |-> grams], snap, match)
    BY <1>6 DEF SyncExisting
  <2>2. j \in DOMAIN jobs
    BY DEF Newest, JobsOf
  <2>3. SoundWork([job |-> jobs[j], grams |-> grams])
    BY <2>2 DEF LedgerOK, SoundWork
  <2> QED BY <1>2, <1>4, <1>6, <2>1, <2>2, <2>3, SyncRowIsSound DEF SyncExisting
<1> QED BY <1>3, <1>5, <1>6

\* A row taken from a spool by a person: Start and ConfirmDraft
LEMMA TakeIsSound ==
  ASSUME LedgerOK, NEW row \in JobRow, NEW s \in Spools, NEW want \in Nat,
         row.spool = s, ~row.draft, row.consumed = 0, row.est = want
  PROVE  SoundWork(Reserve([job |-> row, grams |-> grams], s, want))
<1>1. row.consumed + want \in 0..row.est /\ want \in Int
  OBVIOUS
<1> QED BY <1>1, ReserveIsSound DEF LedgerOK

LEMMA StartIsSound ==
  ASSUME LedgerOK, ShopOK, NEW s \in Spools, NEW need \in Guesses, Start(s, need)
  PROVE  LedgerOK'
<1> DEFINE row == [task |-> NoTask, spool |-> s, status |-> "printing",
                   draft |-> FALSE, progress |-> 0, est |-> need,
                   consumed |-> 0, finished |-> FALSE]
           w   == Reserve([job |-> row, grams |-> grams], s, need)
<1>1. need \in Nat
  BY GramsArePositive
<1>2. row \in JobRow /\ row.spool = s /\ ~row.draft /\ row.consumed = 0 /\ row.est = need
  BY <1>1 DEF JobRow, Live
<1>3. jobs' = PutJob(nextJob, w.job) /\ grams' = w.grams
      /\ nextJob <= MaxJobs /\ nextJob' = nextJob + 1
  BY DEF Start
<1> HIDE DEF row
<1>4. SoundWork(w)
  BY <1>1, <1>2, TakeIsSound
<1> HIDE DEF w
<1> QED BY <1>3, <1>4, CallIsSound

LEMMA ConfirmIsSound ==
  ASSUME LedgerOK, ShopOK, NEW j \in DOMAIN jobs, NEW s \in Spools,
         NEW weight \in Guesses, ConfirmDraft(j, s, weight)
  PROVE  LedgerOK'
<1> DEFINE row == [jobs[j] EXCEPT !.spool = s, !.est = weight, !.consumed = 0,
                                  !.draft = FALSE]
           w   == Reserve([job |-> row, grams |-> grams], s, weight)
<1>1. weight \in Nat /\ jobs[j] \in JobRow
  BY GramsArePositive DEF LedgerOK, SoundRow
<1>2. row \in JobRow /\ row.spool = s /\ ~row.draft /\ row.consumed = 0 /\ row.est = weight
  BY <1>1 DEF JobRow
<1>3. jobs' = PutJob(j, w.job) /\ grams' = w.grams /\ nextJob' = nextJob
  BY DEF ConfirmDraft
<1> HIDE DEF row
<1>4. SoundWork(w)
  BY <1>1, <1>2, TakeIsSound
<1> HIDE DEF w
<1> QED BY <1>3, <1>4, CallIsSound

\* Pause and Resume
LEMMA RestatusIsSound ==
  ASSUME LedgerOK, NEW j \in DOMAIN jobs, NEW status \in Live,
         jobs' = PutJob(j, [jobs[j] EXCEPT !.status = status]),
         grams' = grams, nextJob' = nextJob
  PROVE  LedgerOK'
<1> DEFINE row == [jobs[j] EXCEPT !.status = status]
<1>1. SoundRow(jobs[j]) /\ jobs[j] \in JobRow
  BY DEF LedgerOK, SoundRow
<1>2. row \in JobRow /\ row.consumed = jobs[j].consumed /\ row.est = jobs[j].est
      /\ row.spool = jobs[j].spool /\ row.draft = jobs[j].draft
  BY <1>1 DEF JobRow
<1>3. SoundRow(row)
  BY <1>1, <1>2 DEF SoundRow
<1>4. jobs' = PutJob(j, row)
  OBVIOUS
<1> HIDE DEF row
<1>5. DOMAIN jobs' = DOMAIN jobs \cup {j} /\ \A k \in DOMAIN jobs' : SoundRow(jobs'[k])
  BY <1>3, <1>4, PutIsSound
<1> QED BY <1>5 DEF LedgerOK, SoundRow, Stock

LEMMA DeleteIsSound ==
  ASSUME LedgerOK, NEW j \in DOMAIN jobs, Delete(j)
  PROVE  LedgerOK'
<1> DEFINE unused == IF jobs[j].status \in Terminal THEN 0
                     ELSE UnusedReservedGrams(jobs[j])
<1>1. jobs[j] \in JobRow
  BY DEF LedgerOK, SoundRow
<1>2. unused \in Nat
  BY <1>1, UnusedIsWithinHold DEF JobRow
<1>3. grams' = (IF unused = 0 THEN grams ELSE Refund(grams, jobs[j].spool, unused))
      /\ jobs' = [k \in DOMAIN jobs \ {j} |-> jobs[k]] /\ nextJob' = nextJob
  BY DEF Delete
<1> HIDE DEF unused
<1>4. grams' \in Stock
  BY <1>2, <1>3, RefundIsSound DEF LedgerOK
<1>5. DOMAIN jobs' \subseteq DOMAIN jobs
      /\ \A k \in DOMAIN jobs' : jobs'[k] = jobs[k]
  BY <1>3
<1>6. \A k \in DOMAIN jobs' : SoundRow(jobs'[k])
  BY <1>5 DEF LedgerOK
<1> QED BY <1>3, <1>4, <1>5, <1>6 DEF LedgerOK, SoundRow, Stock

LEMMA RuntimeSyncIsSound ==
  ASSUME LedgerOK, RuntimeSync
  PROVE  LedgerOK'
<1> DEFINE running == {j \in DOMAIN jobs : jobs[j].task = NoTask
                                           /\ jobs[j].status = "printing"}
           Tick(row, pct) == IF pct = 100
                             THEN [Close(row, "completed") EXCEPT !.progress = 100]
                             ELSE [row EXCEPT !.progress = pct]
<1>1. PICK clock \in [running -> Percents] :
        jobs' = [j \in DOMAIN jobs |-> IF j \in running THEN Tick(jobs[j], clock[j])
                                        ELSE jobs[j]]
  BY DEF RuntimeSync
<1>2. grams' = grams /\ nextJob' = nextJob
  BY DEF RuntimeSync
<1>3. DOMAIN jobs' = DOMAIN jobs
  BY <1>1
<1>4. ASSUME NEW j \in DOMAIN jobs PROVE SoundRow(jobs'[j])
  <2>1. SoundRow(jobs[j]) /\ jobs[j] \in JobRow
    BY DEF LedgerOK, SoundRow
  <2>2. CASE j \notin running
    BY <1>1, <2>1, <2>2
  <2>3. CASE j \in running /\ clock[j] = 100
    <3> DEFINE shut == Close(jobs[j], "completed")
               row  == [shut EXCEPT !.progress = 100]
    <3>1. SoundRow(shut)
      BY <2>1, CloseIsSound DEF Terminal
    <3>2. jobs'[j] = row
      BY <1>1, <2>3
    <3> HIDE DEF shut
    <3>3. row \in JobRow /\ row.consumed = shut.consumed /\ row.est = shut.est
          /\ row.spool = shut.spool /\ row.draft = shut.draft
      BY <3>1 DEF SoundRow, JobRow
    <3> QED BY <3>1, <3>2, <3>3 DEF SoundRow
  <2>4. CASE j \in running /\ clock[j] # 100
    <3> DEFINE row == [jobs[j] EXCEPT !.progress = clock[j]]
    <3>1. clock[j] \in 0..100
      BY <2>4, OtherConstants
    <3>2. row \in JobRow /\ row.consumed = jobs[j].consumed /\ row.est = jobs[j].est
          /\ row.spool = jobs[j].spool /\ row.draft = jobs[j].draft
      BY <2>1, <3>1 DEF JobRow
    <3>3. jobs'[j] = row
      BY <1>1, <2>4
    <3> QED BY <2>1, <3>2, <3>3 DEF SoundRow
  <2> QED BY <2>2, <2>3, <2>4
<1> QED BY <1>2, <1>3, <1>4 DEF LedgerOK, SoundRow, Stock

\* The spool calls change one entry of the stock.
LEMMA RestockIsSound ==
  ASSUME LedgerOK, NEW s \in Spools, NEW n \in Nat,
         grams' = [grams EXCEPT ![s] = n], UNCHANGED <<jobs, nextJob>>
  PROVE  LedgerOK'
<1>1. grams' \in Stock
  BY DEF LedgerOK, Stock
<1> QED BY <1>1 DEF LedgerOK, SoundRow, Stock

-----------------------------------------------------------------------------
(* The theorems.                                                           *)

LEMMA InitIsSound == Init => Sound
<1> SUFFICES ASSUME Init PROVE Sound
  OBVIOUS
<1>1. LedgerOK
  BY OtherConstants DEF Init, LedgerOK, Stock
<1>2. ShopOK
  BY DEF Init, ShopOK
<1>3. PrinterOK
  <2>1. PICK idle : idle = [state |-> "waiting", done |-> 0, run |-> 0, start |-> 0]
    OBVIOUS
  <2>2. idle \in PlateRow /\ idle.state = "waiting" /\ idle.run = 0
    BY <2>1, OtherConstants DEF PlateRow
  <2>3. plate = [p \in Prints |-> idle] /\ onPlate = NoPrint /\ feed \in Feeds
    BY <2>1 DEF Init
  <2> QED BY <2>2, <2>3 DEF PrinterOK
<1> QED BY <1>1, <1>2, <1>3, SoundParts

LEMMA LedgerStep ==
  ASSUME LedgerOK, ShopOK, PrinterOK, Next
  PROVE  LedgerOK'
<1> USE DEF stockVars, printerVars
<1>1. CASE PollNext
  BY <1>1, PollIsSound
<1>2. CASE PeopleNext
  <2>1. ASSUME NEW s \in Spools, CreateSpool(s) PROVE LedgerOK'
    <3>1. InitialWeight[s] \in Nat
      BY GramsArePositive
    <3> QED BY <2>1, <3>1, RestockIsSound DEF CreateSpool
  <2>2. ASSUME NEW s \in Spools, DeleteSpool(s) PROVE LedgerOK'
    BY <2>2, RestockIsSound DEF DeleteSpool
  <2>3. ASSUME NEW s \in Spools, NEW n \in Counts, UpdateRemaining(s, n) PROVE LedgerOK'
    <3>1. n \in Nat
      BY GramsArePositive
    <3> QED BY <2>3, <3>1, RestockIsSound DEF UpdateRemaining
  <2>4. ASSUME NEW s \in Spools, NEW n \in Counts, Consume(s, n) PROVE LedgerOK'
    <3>1. n \in Nat /\ grams[s] \in Nat
      BY GramsArePositive DEF LedgerOK, Stock
    <3>2. grams[s] - n \in Nat /\ grams' = [grams EXCEPT ![s] = grams[s] - n]
      BY <2>4, <3>1 DEF Consume
    <3> QED BY <2>4, <3>2, RestockIsSound DEF Consume
  <2>5. ASSUME NEW s \in Spools, NEW need \in Guesses, Start(s, need) PROVE LedgerOK'
    BY <2>5, StartIsSound
  <2>6. ASSUME NEW j \in DOMAIN jobs, Delete(j) PROVE LedgerOK'
    BY <2>6, DeleteIsSound
  <2>7. ASSUME NEW j \in DOMAIN jobs, NEW s \in Spools, NEW weight \in Guesses,
               ConfirmDraft(j, s, weight)
        PROVE LedgerOK'
    BY <2>7, ConfirmIsSound
  <2>8. ASSUME NEW j \in DOMAIN jobs, PauseOpen(j) PROVE LedgerOK'
    BY <2>8, RestatusIsSound DEF PauseOpen, Pause, Resume, Live
  <2> QED BY <1>2, <2>1, <2>2, <2>3, <2>4, <2>5, <2>6, <2>7, <2>8 DEF PeopleNext
<1>3. CASE RuntimeSync
  BY <1>3, RuntimeSyncIsSound
<1>4. CASE PrinterNext
  <2>1. UNCHANGED <<grams, jobs, nextJob>>
    BY <1>4 DEF PrinterNext, PrinterStep, ClearPlate, Relink, BeginPrint
  <2> QED BY <2>1 DEF LedgerOK, SoundRow, Stock
<1>5. CASE PauseNext
  <2>1. ASSUME NEW j \in DOMAIN jobs, Pause(j) PROVE LedgerOK'
    BY <2>1, RestatusIsSound DEF Pause, Live
  <2>2. ASSUME NEW j \in DOMAIN jobs, Resume(j) PROVE LedgerOK'
    BY <2>2, RestatusIsSound DEF Resume, Live
  <2> QED BY <1>5, <2>1, <2>2 DEF PauseNext
<1> QED BY <1>1, <1>2, <1>3, <1>4, <1>5 DEF Next, CoreNext

LEMMA ShopStep ==
  ASSUME ShopOK, Next
  PROVE  ShopOK'
<1> USE DEF stockVars, printerVars
<1>1. CASE PollNext \/ RuntimeSync \/ PrinterNext \/ PauseNext
  <2>1. UNCHANGED stockVars
    BY <1>1 DEF PollNext, Poll, RuntimeSync, PrinterNext, PrinterStep, ClearPlate,
                Relink, BeginPrint, PauseNext, Pause, Resume
  <2> QED BY <2>1 DEF ShopOK
<1>2. CASE PeopleNext
  <2>1. ASSUME NEW s \in Spools, CreateSpool(s) \/ DeleteSpool(s) PROVE ShopOK'
    BY <2>1 DEF ShopOK, CreateSpool, DeleteSpool
  <2>2. ASSUME NEW s \in Spools, NEW n \in Counts, UpdateRemaining(s, n) \/ Consume(s, n)
        PROVE ShopOK'
    BY <2>2 DEF ShopOK, UpdateRemaining, Consume
  <2>3. CASE \/ \E s \in Spools, need \in Guesses : Start(s, need)
             \/ \E j \in DOMAIN jobs : Delete(j) \/ PauseOpen(j)
             \/ \E j \in DOMAIN jobs, s \in Spools, weight \in Guesses :
                  ConfirmDraft(j, s, weight)
    <3>1. UNCHANGED stockVars
      BY <2>3 DEF Start, Delete, ConfirmDraft, PauseOpen, Pause, Resume
    <3> QED BY <3>1 DEF ShopOK
  <2> QED BY <1>2, <2>1, <2>2, <2>3 DEF PeopleNext
<1> QED BY <1>1, <1>2 DEF Next, CoreNext

LEMMA PrinterStepIsTyped ==
  ASSUME PrinterOK, Next
  PROVE  PrinterOK'
<1> USE DEF stockVars, printerVars
<1>1. CASE PollNext \/ PeopleNext \/ RuntimeSync \/ PauseNext
  <2>1. UNCHANGED printerVars
    BY <1>1 DEF PollNext, Poll, RuntimeSync, PauseNext, Pause, Resume, PeopleNext,
                CreateSpool, DeleteSpool, UpdateRemaining, Consume, Start, Delete,
                ConfirmDraft, PauseOpen
  <2> QED BY <2>1 DEF PrinterOK
<1>2. ASSUME NEW p \in Prints, BeginPrint(p) PROVE PrinterOK'
  <2>1. /\ plate[p] \in PlateRow /\ plate[p].run \in Nat /\ plate[p].run < MaxRuns
        /\ onPlate' = p /\ feed' = feed
    BY <1>2 DEF BeginPrint, PrinterOK, PlateRow
  <2>2. PICK shown \in {0, plate[p].start, plate[p].run + 1} :
          plate' = [plate EXCEPT ![p] = [state |-> "preparing", done |-> 0,
                                         run |-> plate[p].run + 1, start |-> shown]]
    BY <1>2 DEF BeginPrint
  <2>3. PICK next : next = [state |-> "preparing", done |-> 0,
                            run |-> plate[p].run + 1, start |-> shown]
    OBVIOUS
  <2>4. next \in PlateRow /\ next.state # "waiting" /\ next.run # 0
    <3>1. {0, plate[p].start, plate[p].run + 1} \subseteq 0..MaxRuns
      BY <2>1, OtherConstants DEF PlateRow
    <3>2. plate[p].run + 1 \in 0..MaxRuns /\ plate[p].run + 1 # 0 /\ 0 \in Percents
      BY <2>1, OtherConstants
    <3> QED BY <2>2, <2>3, <3>1, <3>2 DEF PlateRow, Live
  <2>5. plate' = [plate EXCEPT ![p] = next]
    BY <2>2, <2>3
  <2>6. /\ plate' \in [Prints -> PlateRow] /\ plate'[p] = next
        /\ \A q \in Prints : q # p => plate'[q] = plate[q]
    BY <2>4, <2>5 DEF PrinterOK
  <2> QED BY <2>1, <2>4, <2>6 DEF PrinterOK
<1>3. CASE PrinterStep
  <2> DEFINE now == plate[onPlate]
  <2>0. /\ onPlate \in Prints /\ now \in PlateRow
        /\ now.state # "waiting" /\ now.run # 0
    BY <1>3, NamesAreDistinct DEF PrinterOK, PrinterStep
  <2>1. PICK next \in PlateRow :
          /\ plate' = [plate EXCEPT ![onPlate] = next]
          /\ next.state # "waiting" /\ next.run = now.run
    <3>1. CASE \E state \in Live \cup Terminal :
                 plate' = [plate EXCEPT ![onPlate].state = state]
      <4>1. PICK state \in Live \cup Terminal :
              plate' = [plate EXCEPT ![onPlate].state = state]
        BY <3>1
      <4>2. /\ [now EXCEPT !.state = state] \in PlateRow
            /\ [now EXCEPT !.state = state].state # "waiting"
            /\ [now EXCEPT !.state = state].run = now.run
        BY <2>0 DEF PlateRow, Live, Terminal
      <4> QED BY <4>1, <4>2
    <3>2. CASE \E pct \in Percents : plate' = [plate EXCEPT ![onPlate].done = pct]
      <4>1. PICK pct \in Percents : plate' = [plate EXCEPT ![onPlate].done = pct]
        BY <3>2
      <4>2. /\ [now EXCEPT !.done = pct] \in PlateRow
            /\ [now EXCEPT !.done = pct].state # "waiting"
            /\ [now EXCEPT !.done = pct].run = now.run
        BY <2>0 DEF PlateRow
      <4> QED BY <4>1, <4>2
    <3>3. CASE plate' = [plate EXCEPT ![onPlate].start = now.run]
      <4>1. /\ [now EXCEPT !.start = now.run] \in PlateRow
            /\ [now EXCEPT !.start = now.run].state # "waiting"
            /\ [now EXCEPT !.start = now.run].run = now.run
        BY <2>0 DEF PlateRow
      <4> QED BY <3>3, <4>1
    <3>4. \A move \in Moves : move[2] \in Live
      BY DEF Moves, Live
    <3> QED BY <1>3, <3>1, <3>2, <3>3, <3>4 DEF PrinterStep, Terminal
  <2>2. /\ plate' \in [Prints -> PlateRow] /\ plate'[onPlate] = next
        /\ \A q \in Prints : q # onPlate => plate'[q] = plate[q]
    BY <2>0, <2>1 DEF PrinterOK
  <2>3. onPlate' = onPlate /\ feed' = feed
    BY <1>3 DEF PrinterStep
  <2> QED BY <2>0, <2>1, <2>2, <2>3 DEF PrinterOK
<1>4. CASE ClearPlate \/ Relink
  BY <1>4 DEF PrinterOK, ClearPlate, Relink
<1> QED BY <1>1, <1>2, <1>3, <1>4 DEF Next, CoreNext, PrinterNext

LEMMA StepIsSound == Sound /\ [Next]_vars => Sound'
<1> SUFFICES ASSUME Sound, [Next]_vars PROVE Sound'
  OBVIOUS
<1>1. LedgerOK /\ ShopOK /\ PrinterOK
  BY SoundParts
<1>2. LedgerOK' /\ ShopOK' /\ PrinterOK'
  <2>1. CASE Next
    BY <1>1, <2>1, LedgerStep, ShopStep, PrinterStepIsTyped
  <2>2. CASE UNCHANGED vars
    BY <1>1, <2>2 DEF vars, LedgerOK, ShopOK, PrinterOK, SoundRow, Stock
  <2> QED BY <2>1, <2>2
<1> QED BY <1>2 DEF Sound, TypeOK, DraftHoldsNothing, HoldWithinEstimate,
                    LedgerOK, ShopOK, PrinterOK, SoundRow, Stock

\* Every reachable state of the ledger is sound, with all feeds and all calls,
\* Pause and Resume of closed jobs included.
THEOREM SpecIsSound == Spec => []Sound
<1> QED BY InitIsSound, StepIsSound, PTL DEF Spec

\* Grams stay natural numbers: no reservation, top-up, refund or stocktake
\* drives a spool or a job below zero.
THEOREM SpecTypeOK == Spec => []TypeOK
<1>1. Sound => TypeOK
  BY DEF Sound
<1> QED BY <1>1, SpecIsSound, PTL

\* Drafts hold nothing and what is held names its spool.
THEOREM SpecDraftHoldsNothing == Spec => []DraftHoldsNothing
<1>1. Sound => DraftHoldsNothing
  BY DEF Sound
<1> QED BY <1>1, SpecIsSound, PTL

\* No job ever holds more than its estimate.
THEOREM SpecHoldWithinEstimate == Spec => []HoldWithinEstimate
<1>1. Sound => HoldWithinEstimate
  BY DEF Sound
<1> QED BY <1>1, SpecIsSound, PTL

-----------------------------------------------------------------------------
(* Closed jobs stay closed, unless they are paused or resumed.             *)

\* Linking and weighing leave the status of a job alone.
LEMMA WeighingKeepsStatus ==
  ASSUME NEW w, SoundWork(w), NEW match \in Spools \cup {NoSpool}, NEW weight \in Nat
  PROVE  ApplyJobWeight(EnsureDraftLinked(w, match), weight).job.status = w.job.status
<1>1. ASSUME NEW row \in JobRow, NEW g, NEW s, NEW want
      PROVE  Reserve([job |-> row, grams |-> g], s, want).job.status = row.status
  BY DEF Reserve, JobRow
<1>2. ASSUME NEW v, SoundWork(v) PROVE v.job \in JobRow /\ v = [job |-> v.job, grams |-> v.grams]
  BY <1>2 DEF SoundWork, SoundRow
<1> DEFINE v   == EnsureDraftLinked(w, match)
           row == [w.job EXCEPT !.spool = match, !.draft = FALSE]
           est == [v.job EXCEPT !.est = weight]
<1>3. v.job.status = w.job.status
  <2>1. CASE ~w.job.draft \/ match = NoSpool
    BY <2>1 DEF EnsureDraftLinked
  <2>2. CASE w.job.draft /\ match # NoSpool
    <3>1. row \in JobRow /\ row.status = w.job.status
      BY <1>2, <2>2 DEF JobRow
    <3>2. [w EXCEPT !.job = [@ EXCEPT !.spool = match, !.draft = FALSE]]
            = [job |-> row, grams |-> w.grams]
      BY <1>2
    <3> HIDE DEF row
    <3>3. v = Reserve([job |-> row, grams |-> w.grams], match, w.job.est - w.job.consumed)
      BY <2>2, <3>2 DEF EnsureDraftLinked
    <3> QED BY <1>1, <3>1, <3>3
  <2> QED BY <2>1, <2>2
<1>4. SoundWork(v)
  BY LinkIsSound
<1> HIDE DEF v
<1>5. est \in JobRow /\ est.status = v.job.status
  BY <1>2, <1>4 DEF JobRow
<1>6. [v EXCEPT !.job.est = weight] = [job |-> est, grams |-> v.grams]
  BY <1>2, <1>4
<1> HIDE DEF est
<1>7. ApplyJobWeight(v, weight).job.status = v.job.status
  <2>1. CASE weight = 0
    BY <2>1 DEF ApplyJobWeight
  <2>2. CASE weight > 0 /\ (v.job.draft \/ v.job.spool = NoSpool)
    BY <1>5, <1>6, <2>2 DEF ApplyJobWeight
  <2>3. CASE weight > 0 /\ ~(v.job.draft \/ v.job.spool = NoSpool)
    <3>1. ApplyJobWeight(v, weight) = Reserve([job |-> est, grams |-> v.grams],
                                              v.job.spool, weight - v.job.consumed)
      BY <1>6, <2>3 DEF ApplyJobWeight
    <3> QED BY <1>1, <1>5, <3>1
  <2> QED BY <2>1, <2>2, <2>3
<1> QED BY <1>3, <1>7 DEF v

\* A poll that finds a closed job leaves it closed.
LEMMA PollKeepsClosed ==
  ASSUME Sound, PollNext
  PROVE  KeepsClosed
<1>0. LedgerOK /\ ShopOK /\ PrinterOK
  BY SoundParts
<1>1. PICK snap \in {Snapshot(onPlate)} : Poll(snap)
  BY DEF PollNext
<1>2. snap.progress \in 0..100 /\ snap.weight \in Nat
  BY <1>0, <1>1, SnapshotIsTyped DEF PollNext, SnapshotType
<1>3. PICK match \in Matches :
        (\E guess \in Guesses : SyncNew(snap, match, guess)) \/ SyncExisting(snap, match)
  BY <1>1 DEF Poll
<1>4. match \in Spools \cup {NoSpool}
  BY <1>0 DEF Matches, ShopOK
<1>5. ASSUME NEW guess \in Guesses, SyncNew(snap, match, guess) PROVE KeepsClosed
  <2>1. PICK w : SyncRow(nextJob, w, snap, match)
    BY <1>5 DEF SyncNew
  <2>2. PICK row : jobs' = PutJob(nextJob, row)
    BY <2>1 DEF SyncRow
  <2>3. nextJob \notin DOMAIN jobs
    BY <1>0 DEF LedgerOK
  <2> QED BY <2>2, <2>3 DEF KeepsClosed, PutJob
<1>6. ASSUME SyncExisting(snap, match) PROVE KeepsClosed
  <2>1. PICK j \in Newest(snap.id) :
          SyncRow(j, [job |-> jobs[j], grams |-> grams], snap, match)
    BY <1>6 DEF SyncExisting
  <2>2. j \in DOMAIN jobs
    BY DEF Newest, JobsOf
  <2>3. SoundRow(jobs[j]) /\ jobs[j] \in JobRow /\ grams \in Stock
    BY <1>0, <2>2 DEF LedgerOK, SoundRow
  <2> DEFINE row  == [jobs[j] EXCEPT !.progress = snap.progress]
             seen == [job |-> row, grams |-> grams]
             v    == ApplyJobWeight(EnsureDraftLinked(seen, match), snap.weight)
  <2>4. row \in JobRow /\ row.status = jobs[j].status /\ SoundRow(row)
    BY <1>2, <2>3 DEF SoundRow, JobRow
  <2>5. [[job |-> jobs[j], grams |-> grams] EXCEPT !.job.progress = snap.progress] = seen
    OBVIOUS
  <2> HIDE DEF row
  <2>6. SoundWork(seen)
    BY <2>3, <2>4 DEF SoundWork
  <2>7. v.job.status = jobs[j].status
    BY <1>2, <1>4, <2>4, <2>6, WeighingKeepsStatus
  <2>8. jobs' = PutJob(j, ApplyStatus(v, snap).job)
    BY <2>1, <2>5 DEF SyncRow
  <2> HIDE DEF v
  <2>9. jobs[j].status \in Terminal => ApplyStatus(v, snap) = v
    BY <2>7 DEF ApplyStatus
  <2> QED BY <2>2, <2>7, <2>8, <2>9 DEF KeepsClosed, PutJob
<1> QED BY <1>3, <1>5, <1>6

LEMMA CoreStepKeepsClosed ==
  ASSUME Sound, CoreNext
  PROVE  KeepsClosed
<1>1. LedgerOK
  BY SoundParts
<1>2. CASE PollNext
  BY <1>2, PollKeepsClosed
<1>3. CASE RuntimeSync
  <2>1. ASSUME NEW j \in DOMAIN jobs, jobs[j].status \in Terminal PROVE jobs'[j] = jobs[j]
    BY <1>3, <2>1 DEF RuntimeSync, Terminal
  <2> QED BY <2>1 DEF KeepsClosed
<1>4. ASSUME NEW s \in Spools, NEW need \in Guesses, Start(s, need) PROVE KeepsClosed
  <2>1. PICK row : jobs' = PutJob(nextJob, row)
    BY <1>4 DEF Start
  <2>2. nextJob \notin DOMAIN jobs
    BY <1>1 DEF LedgerOK
  <2> QED BY <2>1, <2>2 DEF KeepsClosed, PutJob
<1>5. ASSUME NEW j \in DOMAIN jobs, NEW s \in Spools, NEW weight \in Guesses,
             ConfirmDraft(j, s, weight)
      PROVE  KeepsClosed
  <2> DEFINE row == [jobs[j] EXCEPT !.spool = s, !.est = weight, !.consumed = 0,
                                    !.draft = FALSE]
             w   == Reserve([job |-> row, grams |-> grams], s, weight)
  <2>1. jobs[j] \in JobRow
    BY <1>1 DEF LedgerOK, SoundRow
  <2>2. row.status = jobs[j].status /\ row \in JobRow
    BY <2>1, GramsArePositive DEF JobRow
  <2>3. jobs' = PutJob(j, w.job)
    BY <1>5 DEF ConfirmDraft
  <2> HIDE DEF row
  <2>4. w.job.status = row.status
    BY <2>2 DEF Reserve, JobRow
  <2> HIDE DEF w
  <2> QED BY <2>2, <2>3, <2>4 DEF KeepsClosed, PutJob
<1>6. ASSUME NEW j \in DOMAIN jobs, Delete(j) PROVE KeepsClosed
  BY <1>6 DEF Delete, KeepsClosed
<1>7. ASSUME UNCHANGED jobs PROVE KeepsClosed
  BY <1>7 DEF KeepsClosed
<1>8. CASE PrinterNext
  BY <1>7, <1>8 DEF PrinterNext, PrinterStep, ClearPlate, Relink, BeginPrint
<1>9. CASE PeopleNext
  <2>1. ASSUME NEW s \in Spools, CreateSpool(s) \/ DeleteSpool(s) PROVE KeepsClosed
    BY <1>7, <2>1 DEF CreateSpool, DeleteSpool
  <2>2. ASSUME NEW s \in Spools, NEW n \in Counts, UpdateRemaining(s, n) \/ Consume(s, n)
        PROVE KeepsClosed
    BY <1>7, <2>2 DEF UpdateRemaining, Consume
  <2>3. ASSUME NEW j \in DOMAIN jobs, PauseOpen(j) PROVE KeepsClosed
    BY <2>3 DEF PauseOpen, Pause, Resume, KeepsClosed, PutJob
  <2> QED BY <1>4, <1>5, <1>6, <1>9, <2>1, <2>2, <2>3 DEF PeopleNext
<1> QED BY <1>2, <1>3, <1>8, <1>9 DEF CoreNext

\* Only Pause and Resume of a closed job reopen it.
THEOREM CoreSpecClosedJobStaysClosed == CoreSpec => ClosedJobStaysClosed
<1>1. Init => Sound
  BY InitIsSound
<1>2. Sound /\ [CoreNext]_vars => Sound'
  BY StepIsSound DEF Next
<1>3. Sound /\ [CoreNext]_vars => [KeepsClosed]_vars
  BY CoreStepKeepsClosed
<1> QED BY <1>1, <1>2, <1>3, PTL DEF CoreSpec, ClosedJobStaysClosed

-----------------------------------------------------------------------------
(* What the pages show (LiveStock).                                        *)

\* A share of a product, split by a percentage: what int(...) keeps of the rest
\* and what int(math.Round(...)) takes of the part are a gram apart at most.
LEMMA SharesMeet ==
  ASSUME NEW est \in Nat, NEW share \in 0..(100 * est)
  PROVE  /\ est - (2 * share + 100) \div 200 <= (100 * est - share) \div 100 + 1
         /\ (100 * est - share) \div 100 <= est - (2 * share + 100) \div 200
         /\ (100 * est - share) \div 100 \in Nat
OBVIOUS

\* A row that holds no more than its estimate would get back what is shown of it.
LEMMA RowIsShown ==
  ASSUME NEW row \in JobRow, row.consumed <= row.est
  PROVE  /\ UnusedReservedGrams(row) <= NotYetUsed(row) + 1
         /\ row.consumed = row.est => NotYetUsed(row) <= UnusedReservedGrams(row)
<1> DEFINE est   == row.est
           share == row.est * row.progress
<1>1. est \in Nat /\ row.consumed \in Nat /\ row.progress \in 0..100
  BY DEF JobRow
<1>2. ASSUME NEW a \in Nat, NEW b \in 0..100
      PROVE  /\ a * b \in 0..(100 * a)
             /\ a * (100 - b) = 100 * a - a * b
             /\ 2 * a * b = 2 * (a * b)
  <2>1. a * b \in Nat /\ a * (100 - b) \in Nat
    <3>1. 100 - b \in Nat
      OBVIOUS
    <3>2. ASSUME NEW m \in Nat, NEW n \in Nat PROVE m * n \in Nat
      OBVIOUS
    <3> QED BY <3>1, <3>2
  <2>2. a * (100 - b) = 100 * a - a * b /\ 2 * a * b = 2 * (a * b)
    OBVIOUS
  <2> QED BY <2>1, <2>2
<1>3. /\ share \in 0..(100 * est)
      /\ est * (100 - row.progress) = 100 * est - share
      /\ 2 * est * row.progress = 2 * share
  BY <1>1, <1>2
<1>4. CASE est = 0
  <2>1. row.consumed = 0
    BY <1>1, <1>4
  <2>2. UnusedReservedGrams(row) = 0
    BY <2>1, UnusedIsWithinHold
  <2>3. NotYetUsed(row) = 0
    BY <1>1, <1>4, <2>1 DEF NotYetUsed
  <2> QED BY <2>2, <2>3
<1>5. CASE est > 0
  <2>1. NotYetUsed(row) = (100 * est - share) \div 100
    BY <1>1, <1>3, <1>5 DEF NotYetUsed
  <2>2. Extruded(est, row.progress) = (2 * share + 100) \div 200
    BY <1>3 DEF Extruded
  <2>3. UnusedReservedGrams(row)
          = row.consumed - Lesser((2 * share + 100) \div 200, row.consumed)
    BY <1>5, <2>2 DEF UnusedReservedGrams
  <2> HIDE DEF est, share
  <2>4. (2 * share + 100) \div 200 \in Nat
    <3>1. ASSUME NEW n \in Nat PROVE (2 * n + 100) \div 200 \in Nat
      OBVIOUS
    <3>2. share \in Nat
      BY <1>1, <1>3
    <3> QED BY <3>1, <3>2
  <2> DEFINE used  == (2 * share + 100) \div 200
             shown == (100 * est - share) \div 100
  <2>5. est - used <= shown + 1 /\ shown <= est - used /\ shown \in Nat
    <3>1. est \in Nat /\ share \in 0..(100 * est)
      BY <1>1, <1>3
    <3> QED BY <3>1, SharesMeet DEF used, shown
  <2>6. NotYetUsed(row) = shown /\ UnusedReservedGrams(row) = row.consumed - Lesser(used, row.consumed)
    BY <2>1, <2>3
  <2>7. row.consumed <= est /\ (row.consumed = row.est => row.consumed = est)
    BY DEF est
  <2> HIDE DEF used, shown
  <2>8. used \in Nat
    BY <2>4 DEF used
  <2>9. ASSUME NEW e \in Nat, NEW c \in Nat, NEW x \in Nat, NEW n \in Nat, c <= e,
               e - x <= n + 1, n <= e - x
        PROVE  c - Lesser(x, c) <= n + 1 /\ (c = e => n <= c - Lesser(x, c))
    BY <2>9 DEF Lesser
  <2>10. /\ row.consumed - Lesser(used, row.consumed) <= shown + 1
         /\ row.consumed = est => shown <= row.consumed - Lesser(used, row.consumed)
    BY <1>1, <2>5, <2>7, <2>8, <2>9
  <2> QED BY <2>6, <2>7, <2>10
<1> QED BY <1>1, <1>4, <1>5

\* What a job would return is what the page shows of it, for every weight and
\* every percentage.
THEOREM RefundIsShownHolds == Spec => []RefundIsShown
<1>1. Sound => RefundIsShown
  <2> SUFFICES ASSUME Sound, NEW s \in Spools, NEW j \in OpenJobsOf(s)
               PROVE  /\ UnusedReservedGrams(jobs[j]) <= NotYetUsed(jobs[j]) + 1
                      /\ jobs[j].consumed = jobs[j].est
                           => NotYetUsed(jobs[j]) <= UnusedReservedGrams(jobs[j])
    BY DEF RefundIsShown
  <2>1. jobs[j] \in JobRow /\ jobs[j].consumed <= jobs[j].est
    BY DEF Sound, TypeOK, HoldWithinEstimate, OpenJobsOf
  <2> QED BY <2>1, RowIsShown
<1> QED BY <1>1, SpecIsSound, PTL

-----------------------------------------------------------------------------
(***************************************************************************)
(* The ledger implements the double-entry account (FilamentAccount).       *)
(*                                                                         *)
(* A call works on a copy of one row and on the stock.  Even says that the *)
(* copy, compared with the row and stock the call began with, moved plastic*)
(* between the job and one spool only.  Every operator a call is built     *)
(* from keeps it Even; only the last one, closing a job as completed, may  *)
(* overdraw, and does so only with an empty spool, because the same poll   *)
(* has just reserved whatever there was.                                   *)
(***************************************************************************)

HoldOf == [j \in JobIds |-> IF j \in DOMAIN jobs THEN jobs[j].consumed ELSE 0]
FromOf == [j \in JobIds |-> IF j \in DOMAIN jobs THEN jobs[j].spool ELSE NoSpool]

\* A job that held n grams of spool s, over stock g, is now w.
Even(n, s, g, w) ==
  \/ /\ w.job.spool = NoSpool /\ s = NoSpool
     /\ w.job.consumed = n /\ w.grams = g
  \/ /\ w.job.spool \in stocked /\ s \in {NoSpool, w.job.spool}
     /\ w.grams = [g EXCEPT ![w.job.spool] = w.grams[w.job.spool]]
     /\ w.grams[w.job.spool] + w.job.consumed = g[w.job.spool] + n
  \/ /\ w.job.spool \in Spools \ stocked /\ s = w.job.spool
     /\ w.job.consumed <= n /\ w.grams = g

Overdrawn(n, s, g, w) ==
  /\ w.job.spool \in stocked /\ s \in {NoSpool, w.job.spool}
  /\ w.grams = [g EXCEPT ![w.job.spool] = 0]
  /\ w.job.consumed > g[w.job.spool] + n

\* What applyJobWeight leaves to finalizeComplete
Weighed(w, weight) ==
  (weight > 0 /\ w.job.spool # NoSpool) =>
    \/ w.job.consumed = weight
    \/ /\ w.job.spool \in stocked
       /\ w.grams[w.job.spool] = 0 /\ w.job.consumed < weight

-----------------------------------------------------------------------------
(* The operators a call is built from.                                     *)

\* What reserveAvailable does to the two rows
LEMMA ReserveValue ==
  ASSUME NEW row \in JobRow, NEW g \in Stock, NEW s \in Spools, NEW want \in Int,
         NEW v, v = Reserve([job |-> row, grams |-> g], s, want)
  PROVE  /\ v.job.spool = row.spool /\ v.job.status = row.status
         /\ v.job.draft = row.draft /\ v.job.est = row.est
         /\ v.job.consumed = row.consumed + Lesser(want, g[s])
         /\ v.grams = [g EXCEPT ![s] = v.grams[s]]
         /\ v.grams[s] = g[s] - Lesser(want, g[s])
         /\ g[s] \in Nat /\ Lesser(want, g[s]) \in Int
<1> DEFINE got == Lesser(want, g[s])
           r   == [row EXCEPT !.consumed = @ + got]
           h   == [g EXCEPT ![s] = @ - got]
<1>1. g[s] \in Nat /\ got \in Int
  BY DEF Stock, Lesser
<1>2. v = [job |-> r, grams |-> h]
  BY DEF Reserve
<1> HIDE DEF got
<1>3. /\ r.spool = row.spool /\ r.status = row.status /\ r.draft = row.draft
      /\ r.est = row.est /\ r.consumed = row.consumed + got
  BY DEF JobRow
<1>4. h[s] = g[s] - got /\ h = [g EXCEPT ![s] = h[s]]
  BY DEF Stock
<1> HIDE DEF r, h
<1>5. v.job = r /\ v.grams = h
  BY <1>2
<1>6. v.grams[s] = g[s] - got /\ v.grams = [g EXCEPT ![s] = v.grams[s]]
  BY <1>4, <1>5
<1>7. /\ v.job.spool = row.spool /\ v.job.status = row.status
      /\ v.job.draft = row.draft /\ v.job.est = row.est
      /\ v.job.consumed = row.consumed + got
  BY <1>3, <1>5
<1> QED BY <1>1, <1>6, <1>7 DEF got

\* Reserving from the spool of a job keeps the books even.
LEMMA ReserveIsEven ==
  ASSUME ShopOK, NEW n \in Nat, NEW s, NEW g \in Stock,
         NEW row \in JobRow, NEW h \in Stock, NEW want \in Int,
         row.spool \in stocked, s \in {NoSpool, row.spool},
         h = [g EXCEPT ![row.spool] = h[row.spool]],
         h[row.spool] + row.consumed = g[row.spool] + n,
         NEW v, v = Reserve([job |-> row, grams |-> h], row.spool, want)
  PROVE  Even(n, s, g, v)
<1> DEFINE t == row.spool
           got == Lesser(want, h[t])
<1>1. t \in Spools /\ row.consumed \in Nat
  BY DEF ShopOK, JobRow
<1>2. /\ v.job.spool = t /\ v.job.consumed = row.consumed + got
      /\ v.grams = [h EXCEPT ![t] = v.grams[t]]
      /\ v.grams[t] = h[t] - got
      /\ h[t] \in Nat /\ got \in Int
  BY <1>1, ReserveValue
<1>3. g[t] \in Nat
  BY <1>1 DEF Stock
<1> HIDE DEF got
<1>4. v.grams[t] + v.job.consumed = g[t] + n
  BY <1>1, <1>2, <1>3
<1>5. v.grams = [g EXCEPT ![t] = v.grams[t]]
  BY <1>1, <1>2 DEF Stock
<1> QED BY <1>2, <1>4, <1>5 DEF Even

\* ensureDraftLinked
LEMMA LinkIsEven ==
  ASSUME ShopOK, NEW n \in Nat, NEW s, NEW g \in Stock, NEW w, SoundWork(w),
         Even(n, s, g, w), NEW match \in Matches
  PROVE  Even(n, s, g, EnsureDraftLinked(w, match))
<1> DEFINE row  == [w.job EXCEPT !.spool = match, !.draft = FALSE]
           want == w.job.est - w.job.consumed
<1>1. w.job \in JobRow /\ SoundRow(w.job) /\ w.grams \in Stock
      /\ w = [job |-> w.job, grams |-> w.grams]
  BY DEF SoundWork, SoundRow
<1>2. CASE ~w.job.draft \/ match = NoSpool
  BY <1>2 DEF EnsureDraftLinked
<1>3. CASE w.job.draft /\ match # NoSpool
  <2>1. match \in stocked /\ match \in Spools
    BY <1>3 DEF Matches, ShopOK
  <2>2. row \in JobRow /\ row.spool = match /\ row.consumed = w.job.consumed
        /\ w.job.est \in Nat /\ w.job.consumed \in Nat
    BY <1>1, <2>1 DEF JobRow
  <2>3. w.job.spool = NoSpool
    BY <1>1, <1>3 DEF SoundRow
  <2>4. s = NoSpool /\ w.job.consumed = n /\ w.grams = g
    BY <2>3, NamesAreDistinct DEF Even, ShopOK
  <2>5. w.grams = [g EXCEPT ![match] = w.grams[match]]
        /\ w.grams[match] + w.job.consumed = g[match] + n
    BY <2>1, <2>4 DEF Stock
  <2>6. [w EXCEPT !.job = [@ EXCEPT !.spool = match, !.draft = FALSE]]
          = [job |-> row, grams |-> w.grams]
    BY <1>1
  <2>7. EnsureDraftLinked(w, match)
          = Reserve([job |-> row, grams |-> w.grams], match, want)
    BY <1>3, <2>6 DEF EnsureDraftLinked
  <2>8. want \in Int
    BY <2>2
  <2> HIDE DEF row, want
  <2> QED BY <1>1, <2>1, <2>2, <2>4, <2>5, <2>7, <2>8, ReserveIsEven
<1> QED BY <1>2, <1>3

\* applyJobWeight: the job then has the weight reported, or its spool is empty.
LEMMA WeightIsEven ==
  ASSUME ShopOK, NEW n \in Nat, NEW s, NEW g \in Stock, NEW w, SoundWork(w),
         Even(n, s, g, w), NEW weight \in Nat, WeightApplies(w, weight)
  PROVE  /\ Even(n, s, g, ApplyJobWeight(w, weight))
         /\ Weighed(ApplyJobWeight(w, weight), weight)
<1> DEFINE row  == [w.job EXCEPT !.est = weight]
           want == weight - w.job.consumed
           t    == w.job.spool
           v    == ApplyJobWeight(w, weight)
           idle == w.job.draft \/ t = NoSpool
<1>1. w.job \in JobRow /\ SoundRow(w.job) /\ w.grams \in Stock
      /\ w = [job |-> w.job, grams |-> w.grams]
  BY DEF SoundWork, SoundRow
<1>2. row \in JobRow /\ row.spool = t /\ row.consumed = w.job.consumed
      /\ w.job.consumed \in Nat /\ t \in Spools \cup {NoSpool}
  BY <1>1 DEF JobRow
<1>3. [w EXCEPT !.job.est = weight] = [job |-> row, grams |-> w.grams]
  BY <1>1
<1>4. want \in Int
  BY <1>2
<1> HIDE DEF row
<1>5. CASE weight = 0
  BY <1>5 DEF ApplyJobWeight, Weighed
<1>6. CASE weight > 0 /\ idle
  <2>1. v = [job |-> row, grams |-> w.grams]
    BY <1>3, <1>6 DEF ApplyJobWeight
  <2>2. t = NoSpool
    BY <1>1, <1>6 DEF SoundRow
  <2> HIDE DEF v
  <2>3. v.job = row /\ v.grams = w.grams
    BY <2>1
  <2>4. v.job.spool = NoSpool /\ v.job.consumed = w.job.consumed
    BY <1>2, <2>2, <2>3
  <2>5. Even(n, s, g, w) => s = NoSpool /\ w.job.consumed = n /\ w.grams = g
    BY <2>2, NamesAreDistinct DEF Even, ShopOK
  <2>6. Even(n, s, g, v) /\ Weighed(v, weight)
    BY <2>3, <2>4, <2>5 DEF Even, Weighed
  <2> QED BY <2>6 DEF v
<1>7. CASE weight > 0 /\ ~idle
  <2>1. v = Reserve([job |-> row, grams |-> w.grams], t, want)
    BY <1>3, <1>7 DEF ApplyJobWeight
  <2>2. t \in Spools /\ w.job.spool # NoSpool /\ ~w.job.draft
    BY <1>2, <1>7
  <2> HIDE DEF v
  <2>3. /\ v.job.spool = t /\ v.job.consumed = row.consumed + Lesser(want, w.grams[t])
        /\ v.grams = [w.grams EXCEPT ![t] = v.grams[t]]
        /\ v.grams[t] = w.grams[t] - Lesser(want, w.grams[t])
        /\ w.grams[t] \in Nat
    BY <1>1, <1>2, <1>4, <2>1, <2>2, ReserveValue
  <2>4. CASE t \in stocked
    <3>1. s \in {NoSpool, t} /\ w.grams = [g EXCEPT ![t] = w.grams[t]]
          /\ w.grams[t] + row.consumed = g[t] + n
      BY <1>2, <2>4, NamesAreDistinct DEF Even, ShopOK
    <3>2. Even(n, s, g, v)
      BY <1>1, <1>2, <1>4, <2>1, <2>4, <3>1, ReserveIsEven
    <3>3. v.job.consumed = weight \/ (v.grams[t] = 0 /\ v.job.consumed < weight)
      <4>1. CASE want <= w.grams[t]
        BY <1>2, <2>3, <4>1 DEF Lesser
      <4>2. CASE ~(want <= w.grams[t])
        BY <1>2, <2>3, <4>2 DEF Lesser
      <4> QED BY <4>1, <4>2
    <3>4. Weighed(v, weight)
      BY <2>3, <2>4, <3>3 DEF Weighed
    <3> QED BY <3>2, <3>4 DEF v
  <2>5. CASE t \notin stocked
    <3>1. w.job.consumed = weight
      BY <1>7, <2>2, <2>5 DEF WeightApplies
    <3>2. Lesser(want, w.grams[t]) = 0
      BY <1>2, <2>3, <3>1 DEF Lesser
    <3>3. v.job.consumed = w.job.consumed /\ v.grams[t] = w.grams[t]
      BY <1>2, <2>3, <3>2
    <3>4. v.grams = w.grams
      BY <1>1, <2>2, <2>3, <3>3 DEF Stock
    <3>5. Even(n, s, g, w) => s = t /\ w.job.consumed <= n /\ w.grams = g
      BY <2>2, <2>5, NamesAreDistinct DEF Even
    <3>6. Even(n, s, g, v)
      BY <2>2, <2>3, <2>5, <3>3, <3>4, <3>5 DEF Even
    <3>7. Weighed(v, weight)
      BY <3>1, <3>3 DEF Weighed
    <3> QED BY <3>6, <3>7 DEF v
  <2> QED BY <2>4, <2>5
<1> QED BY <1>5, <1>6, <1>7

\* finalizeComplete: nothing to do but to record what a spool that is now
\* empty did not have.
LEMMA CompleteIsEvenOrOverdrawn ==
  ASSUME ShopOK, NEW n \in Nat, NEW s, NEW g \in Stock, NEW w, SoundWork(w),
         Even(n, s, g, w), NEW actual \in Nat, Weighed(w, actual),
         NEW v, v = FinalizeComplete(w, actual)
  PROVE  Even(n, s, g, v) \/ Overdrawn(n, s, g, v)
<1> DEFINE t     == w.job.spool
           delta == actual - w.job.consumed
           shut  == Close(w.job, "completed")
           done  == [shut EXCEPT !.progress = 100]
           known == actual > 0 /\ t # NoSpool
           took  == IF t \in stocked /\ delta <= w.grams[t] THEN delta ELSE 0
           left  == IF took = 0 THEN w.grams ELSE [w.grams EXCEPT ![t] = @ - took]
           paid  == [done EXCEPT !.est = actual, !.consumed = actual]
           owed  == [done EXCEPT !.est = actual]
<1>1. w.job \in JobRow /\ SoundRow(w.job) /\ w.grams \in Stock
      /\ w = [job |-> w.job, grams |-> w.grams]
  BY DEF SoundWork, SoundRow
<1>2. w.job.consumed \in Nat /\ t \in Spools \cup {NoSpool}
  BY <1>1 DEF JobRow
<1>3. SoundRow(shut) /\ shut.consumed = w.job.consumed /\ shut.spool = t
  BY <1>1, CloseIsSound DEF Terminal
<1> HIDE DEF shut
<1>4. done \in JobRow /\ done.consumed = w.job.consumed /\ done.spool = t
  BY <1>3 DEF SoundRow, JobRow
<1> HIDE DEF done
<1>5. v = CASE ~known -> [w EXCEPT !.job = done]
            [] known /\ delta > 0 /\ t \notin stocked -> [w EXCEPT !.job = owed]
            [] OTHER -> [job |-> paid, grams |-> left]
  BY DEF FinalizeComplete, done, shut
<1>6. [w EXCEPT !.job = done] = [job |-> done, grams |-> w.grams]
  BY <1>1
<1>7. CASE ~known
  <2>1. v.job = done /\ v.grams = w.grams
    BY <1>5, <1>6, <1>7
  <2>2. v.job.spool = t /\ v.job.consumed = w.job.consumed
    BY <1>4, <2>1
  <2> QED BY <2>1, <2>2 DEF Even
<1>8. CASE known /\ w.job.consumed = actual
  <2>1. delta = 0 /\ took = 0
    BY <1>2, <1>8
  <2>2. v = [job |-> paid, grams |-> left] /\ left = w.grams
    BY <1>5, <1>8, <2>1
  <2>3. paid.spool = t /\ paid.consumed = actual
    BY <1>4 DEF JobRow
  <2> HIDE DEF paid, left
  <2>4. v.job.spool = t /\ v.job.consumed = w.job.consumed /\ v.grams = w.grams
    BY <1>8, <2>2, <2>3
  <2> QED BY <2>4 DEF Even
<1>9. CASE known /\ w.job.consumed # actual
  <2>1. t \in stocked /\ w.grams[t] = 0 /\ w.job.consumed < actual
    BY <1>9 DEF Weighed
  <2>2. took = 0
    BY <1>2, <2>1
  <2>3. v = [job |-> paid, grams |-> left] /\ left = w.grams
    BY <1>5, <1>9, <2>1, <2>2
  <2>4. paid.spool = t /\ paid.consumed = actual
    BY <1>4 DEF JobRow
  <2> HIDE DEF paid, left
  <2>5. v.job.spool = t /\ v.job.consumed = actual /\ v.grams = w.grams
    BY <2>3, <2>4
  <2>6. s \in {NoSpool, t} /\ w.grams = [g EXCEPT ![t] = w.grams[t]]
        /\ w.grams[t] + w.job.consumed = g[t] + n
    BY <2>1, NamesAreDistinct DEF Even, ShopOK
  <2>7. g[t] \in Nat
    BY <2>1 DEF Stock, ShopOK
  <2>8. actual > g[t] + n
    BY <1>2, <2>1, <2>6, <2>7
  <2> QED BY <2>1, <2>5, <2>6, <2>8 DEF Overdrawn
<1> QED BY <1>7, <1>8, <1>9

\* finalizeCancelOrFail
LEMMA StopIsEven ==
  ASSUME ShopOK, NEW n \in Nat, NEW s, NEW g \in Stock, NEW w, SoundWork(w),
         Even(n, s, g, w), NEW status \in Terminal,
         NEW v, v = FinalizeCancelOrFail(w, status)
  PROVE  Even(n, s, g, v)
<1> DEFINE t      == w.job.spool
           unused == IF t = NoSpool THEN 0 ELSE UnusedReservedGrams(w.job)
           shut   == Close(w.job, status)
           row    == [shut EXCEPT !.consumed = @ - unused]
           left   == Refund(w.grams, t, unused)
<1>1. w.job \in JobRow /\ SoundRow(w.job) /\ w.grams \in Stock
  BY DEF SoundWork, SoundRow
<1>2. w.job.consumed \in Nat /\ unused \in 0..w.job.consumed
      /\ t \in Spools \cup {NoSpool} /\ (t = NoSpool => unused = 0)
  BY <1>1, UnusedIsWithinHold DEF JobRow
<1>3. SoundRow(shut) /\ shut.consumed = w.job.consumed /\ shut.spool = t
  BY <1>1, CloseIsSound
<1>4. v = [job |-> row, grams |-> left]
  BY DEF FinalizeCancelOrFail
<1> HIDE DEF unused, shut
<1>5. row.consumed = w.job.consumed - unused /\ row.spool = t
  BY <1>3 DEF SoundRow, JobRow
<1> HIDE DEF row
<1>6. v.job.consumed = w.job.consumed - unused /\ v.job.spool = t /\ v.grams = left
  BY <1>4, <1>5
<1>7. CASE t = NoSpool
  <2>1. left = w.grams
    BY <1>7, NamesAreDistinct DEF Refund, ShopOK
  <2>2. v.job.consumed = w.job.consumed /\ v.grams = w.grams
    BY <1>2, <1>6, <1>7, <2>1
  <2> QED BY <1>6, <2>2 DEF Even
<1>8. CASE t \in stocked
  <2>1. t \in Spools /\ w.grams[t] \in Nat /\ g[t] \in Nat
    BY <1>1, <1>8 DEF ShopOK, Stock
  <2>2. s \in {NoSpool, t} /\ w.grams = [g EXCEPT ![t] = w.grams[t]]
        /\ w.grams[t] + w.job.consumed = g[t] + n
    BY <1>8, NamesAreDistinct DEF Even, ShopOK
  <2>3. left = [w.grams EXCEPT ![t] = w.grams[t] + unused]
    BY <1>8 DEF Refund
  <2>4. left[t] = w.grams[t] + unused /\ left = [g EXCEPT ![t] = left[t]]
    BY <1>1, <2>1, <2>2, <2>3 DEF Stock
  <2> HIDE DEF left
  <2>5. left[t] + (w.job.consumed - unused) = g[t] + n
    BY <1>2, <2>1, <2>2, <2>4
  <2> QED BY <1>6, <1>8, <2>2, <2>4, <2>5 DEF Even
<1>9. CASE t \in Spools \ stocked
  <2>1. left = w.grams
    BY <1>9 DEF Refund
  <2>2. s = t /\ w.job.consumed <= n /\ w.grams = g
    BY <1>9, NamesAreDistinct DEF Even
  <2>3. v.job.consumed <= n
    BY <1>2, <1>6, <2>2
  <2> QED BY <1>6, <1>9, <2>1, <2>2, <2>3 DEF Even
<1> QED BY <1>2, <1>7, <1>8, <1>9

\* The status switch of SyncFromBambu
LEMMA StatusIsEvenOrOverdrawn ==
  ASSUME ShopOK, NEW n \in Nat, NEW s, NEW g \in Stock, NEW w, SoundWork(w),
         Even(n, s, g, w), NEW snap \in SnapshotType, Weighed(w, snap.weight)
  PROVE  \/ Even(n, s, g, ApplyStatus(w, snap))
         \/ Overdrawn(n, s, g, ApplyStatus(w, snap))
<1> DEFINE row == [w.job EXCEPT !.status = snap.status]
<1>1. w.job \in JobRow /\ w = [job |-> w.job, grams |-> w.grams]
  BY DEF SoundWork, SoundRow
<1>2. snap.status \in Live \cup Terminal /\ snap.weight \in Nat
  BY DEF SnapshotType
<1>3. CASE w.job.status \in Terminal
  BY <1>3 DEF ApplyStatus
<1>4. CASE w.job.status \notin Terminal /\ snap.status \in Live
  <2>1. row.spool = w.job.spool /\ row.consumed = w.job.consumed
    BY <1>1 DEF JobRow
  <2>2. [w EXCEPT !.job.status = snap.status] = [job |-> row, grams |-> w.grams]
    BY <1>1
  <2>3. ApplyStatus(w, snap) = [w EXCEPT !.job.status = snap.status]
    BY <1>4 DEF ApplyStatus, Live
  <2> HIDE DEF row
  <2>4. Even(n, s, g, [job |-> row, grams |-> w.grams])
    BY <2>1 DEF Even
  <2> QED BY <2>2, <2>3, <2>4
<1>5. CASE w.job.status \notin Terminal /\ snap.status = "completed"
  <2>1. ApplyStatus(w, snap) = FinalizeComplete(w, snap.weight)
    BY <1>5 DEF ApplyStatus, Live
  <2> QED BY <1>2, <2>1, CompleteIsEvenOrOverdrawn
<1>6. CASE w.job.status \notin Terminal /\ snap.status \notin Live
           /\ snap.status # "completed"
  <2>1. ApplyStatus(w, snap) = FinalizeCancelOrFail(w, snap.status)
    BY <1>6 DEF ApplyStatus
  <2> QED BY <1>2, <1>6, <2>1, StopIsEven
<1> QED BY <1>3, <1>4, <1>5, <1>6

-----------------------------------------------------------------------------
(* From working copies to steps of the account.                            *)

LEMMA HoldsAreTyped ==
  ASSUME LedgerOK
  PROVE  /\ HoldOf \in [JobIds -> Nat]
         /\ DOMAIN jobs \subseteq JobIds
         /\ FromOf \in [JobIds -> Spools \cup {NoSpool}]
<1>1. \A j \in DOMAIN jobs : jobs[j].consumed \in Nat
                             /\ jobs[j].spool \in Spools \cup {NoSpool}
  BY DEF LedgerOK, SoundRow, JobRow
<1>2. DOMAIN jobs \subseteq JobIds
  BY OtherConstants DEF LedgerOK, JobIds
<1> QED BY <1>1, <1>2 DEF HoldOf, FromOf

\* Writing one row changes one holder.
LEMMA PutIsBooked ==
  ASSUME LedgerOK, NEW j \in JobIds, NEW row, jobs' = PutJob(j, row)
  PROVE  /\ HoldOf' = [HoldOf EXCEPT ![j] = row.consumed]
         /\ FromOf' = [FromOf EXCEPT ![j] = row.spool]
BY HoldsAreTyped DEF HoldOf, FromOf, PutJob

\* A call whose books are even, or overdrawn, is a step of the account.
LEMMA CallIsBooked ==
  ASSUME LedgerOK, ShopOK, NEW j \in JobIds, NEW w, SoundWork(w),
         \/ Even(HoldOf[j], FromOf[j], grams, w)
         \/ Overdrawn(HoldOf[j], FromOf[j], grams, w),
         jobs' = PutJob(j, w.job), grams' = w.grams, UNCHANGED stockVars
  PROVE  [Account!Next]_Account!vars
<1> DEFINE t == w.job.spool
           n == w.job.consumed
<1>1. /\ HoldOf' = [HoldOf EXCEPT ![j] = n] /\ FromOf' = [FromOf EXCEPT ![j] = t]
      /\ HoldOf \in [JobIds -> Nat]
      /\ FromOf \in [JobIds -> Spools \cup {NoSpool}]
  BY PutIsBooked, HoldsAreTyped
<1>2. n \in Nat /\ w.grams \in Stock /\ t \in Spools \cup {NoSpool} /\ grams \in Stock
  BY DEF SoundWork, SoundRow, JobRow, LedgerOK
<1>3. stocked' = stocked /\ stocktakes' = stocktakes /\ stocked \subseteq Spools
  BY DEF stockVars, ShopOK
<1>4. HoldOf'[j] = n /\ HoldOf' = [HoldOf EXCEPT ![j] = HoldOf'[j]] /\ FromOf'[j] = t
  BY <1>1
<1> HIDE DEF t, n
<1>5. CASE grams' = grams /\ n = HoldOf[j] /\ t = FromOf[j]
  <2>1. HoldOf' = HoldOf /\ FromOf' = FromOf
    BY <1>1, <1>5
  <2> QED BY <1>3, <1>5, <2>1 DEF Account!vars, HoldOf, FromOf
<1>6. CASE /\ t \in stocked /\ FromOf[j] \in {NoSpool, t}
           /\ grams' = [grams EXCEPT ![t] = grams'[t]]
           /\ grams'[t] + n = grams[t] + HoldOf[j]
  <2>1. grams'[t] \in Nat /\ grams[t] \in Nat /\ HoldOf[j] \in Nat
    BY <1>1, <1>2, <1>3, <1>6 DEF Stock
  <2>2. grams'[t] = grams[t] + HoldOf[j] - HoldOf'[j]
    BY <1>2, <1>4, <1>6, <2>1
  <2>3. Account!Transfer(j, t)
    BY <1>1, <1>2, <1>3, <1>4, <1>6, <2>1, <2>2
       DEF Account!Transfer, Account!Binds, HoldOf, FromOf
  <2> QED BY <1>3, <1>6, <2>3 DEF Account!Next
<1>7. CASE /\ t \in stocked /\ FromOf[j] \in {NoSpool, t}
           /\ grams' = [grams EXCEPT ![t] = 0] /\ n > grams[t] + HoldOf[j]
  <2>1. HoldOf'[j] > HoldOf[j] + grams[t]
    <3>1. grams[t] \in Nat /\ HoldOf[j] \in Nat
      BY <1>1, <1>2, <1>3, <1>7 DEF Stock
    <3> QED BY <1>2, <1>4, <1>7, <3>1
  <2>2. Account!Overdraw(j, t)
    BY <1>1, <1>2, <1>3, <1>4, <1>7, <2>1
       DEF Account!Overdraw, Account!Binds, HoldOf, FromOf
  <2> QED BY <1>3, <1>7, <2>2 DEF Account!Next
<1>8. CASE /\ t \in Spools \ stocked /\ FromOf[j] = t /\ n < HoldOf[j] /\ grams' = grams
  <2>1. Account!Forfeit(j, t)
    BY <1>1, <1>2, <1>3, <1>4, <1>8
       DEF Account!Forfeit, Account!Binds, HoldOf, FromOf
  <2> QED BY <1>8, <2>1 DEF Account!Next
<1>9. HoldOf[j] \in Nat
  BY <1>1
<1>10. CASE Even(HoldOf[j], FromOf[j], grams, w)
  <2>1. CASE t \in Spools \ stocked /\ FromOf[j] = t /\ n <= HoldOf[j] /\ grams' = grams
    BY <1>2, <1>5, <1>8, <1>9, <2>1
  <2> QED BY <1>5, <1>6, <1>10, <2>1 DEF Even, t, n
<1>11. CASE Overdrawn(HoldOf[j], FromOf[j], grams, w)
  BY <1>7, <1>11 DEF Overdrawn, t, n
<1> QED BY <1>10, <1>11

\* SyncFromBambu from the row on, for a row found or created
LEMMA SyncRowIsBooked ==
  ASSUME LedgerOK, ShopOK, NEW j \in JobIds, NEW w, SoundWork(w),
         NEW snap \in SnapshotType, NEW match \in Matches,
         Even(HoldOf[j], FromOf[j], grams, w),
         SyncRow(j, w, snap, match), UNCHANGED stockVars
  PROVE  [Account!Next]_Account!vars
<1> DEFINE row    == [w.job EXCEPT !.progress = snap.progress]
           seen   == [w EXCEPT !.job.progress = snap.progress]
           linked == EnsureDraftLinked(seen, match)
           heavy  == ApplyJobWeight(linked, snap.weight)
           done   == ApplyStatus(heavy, snap)
           n      == HoldOf[j]
           s      == FromOf[j]
<1>1. snap.progress \in 0..100 /\ snap.weight \in Nat /\ match \in Spools \cup {NoSpool}
  BY DEF SnapshotType, Matches, ShopOK
<1>2. SoundRow(w.job) /\ w.job \in JobRow /\ w.grams \in Stock
      /\ w = [job |-> w.job, grams |-> w.grams]
  BY DEF SoundWork, SoundRow
<1>3. row \in JobRow /\ row.consumed = w.job.consumed /\ row.est = w.job.est
      /\ row.spool = w.job.spool /\ row.draft = w.job.draft
  BY <1>1, <1>2 DEF JobRow
<1>4. SoundRow(row)
  BY <1>2, <1>3 DEF SoundRow
<1>5. seen = [job |-> row, grams |-> w.grams]
  BY <1>2
<1>6. n \in Nat /\ grams \in Stock
  BY HoldsAreTyped DEF LedgerOK
<1>7. /\ WeightApplies(linked, snap.weight)
      /\ jobs' = PutJob(j, done.job) /\ grams' = done.grams
  BY DEF SyncRow
<1> HIDE DEF row, n, s
<1>8. SoundWork(seen) /\ Even(n, s, grams, seen)
  BY <1>2, <1>3, <1>4, <1>5 DEF SoundWork, Even, n, s
<1> HIDE DEF seen
<1>9. SoundWork(linked) /\ Even(n, s, grams, linked)
  BY <1>1, <1>6, <1>8, LinkIsSound, LinkIsEven
<1> HIDE DEF linked
<1>10. /\ SoundWork(heavy) /\ Even(n, s, grams, heavy)
       /\ Weighed(heavy, snap.weight)
  BY <1>1, <1>6, <1>7, <1>9, WeightIsSound, WeightIsEven
<1> HIDE DEF heavy
<1>11. SoundWork(done) /\ (Even(n, s, grams, done) \/ Overdrawn(n, s, grams, done))
  BY <1>6, <1>10, StatusIsSound, StatusIsEvenOrOverdrawn
<1> HIDE DEF done
<1> QED BY <1>7, <1>11, CallIsBooked DEF n, s

\* A row created by a call starts with nothing and takes from one spool.
LEMMA FreshIsEven ==
  ASSUME LedgerOK, ShopOK, NEW row \in JobRow, NEW want \in Nat,
         row.spool \in stocked, row.consumed = 0
  PROVE  Even(0, NoSpool, grams, Reserve([job |-> row, grams |-> grams], row.spool, want))
<1>1. row.spool \in Spools /\ grams \in Stock
  BY DEF ShopOK, LedgerOK
<1>2. grams = [grams EXCEPT ![row.spool] = grams[row.spool]]
      /\ grams[row.spool] + row.consumed = grams[row.spool] + 0
  BY <1>1 DEF Stock
<1>3. 0 \in Nat /\ want \in Int /\ NoSpool \in {NoSpool, row.spool}
  OBVIOUS
<1>4. ASSUME NEW v, v = Reserve([job |-> row, grams |-> grams], row.spool, want)
      PROVE  Even(0, NoSpool, grams, v)
  BY <1>1, <1>2, <1>3, <1>4, ReserveIsEven
<1> QED BY <1>4

LEMMA NewJobHoldsNothing ==
  ASSUME LedgerOK, nextJob <= MaxJobs
  PROVE  nextJob \in JobIds /\ HoldOf[nextJob] = 0 /\ FromOf[nextJob] = NoSpool
<1>1. nextJob \in JobIds /\ nextJob \notin DOMAIN jobs
  BY OtherConstants DEF LedgerOK, JobIds
<1> QED BY <1>1 DEF HoldOf, FromOf

\* A poll
LEMMA PollIsBooked ==
  ASSUME LedgerOK, ShopOK, PrinterOK, PollNext
  PROVE  [Account!Next]_Account!vars
<1>1. PICK snap \in {Snapshot(onPlate)} : Poll(snap)
  BY DEF PollNext
<1>2. snap \in SnapshotType
  BY <1>1, SnapshotIsTyped DEF PollNext
<1>3. PICK match \in Matches :
        (\E guess \in Guesses : SyncNew(snap, match, guess)) \/ SyncExisting(snap, match)
  BY <1>1 DEF Poll
<1>4. UNCHANGED stockVars
  BY <1>1 DEF Poll
<1>5. match \in stocked \cup {NoSpool} /\ match \in Spools \cup {NoSpool}
  BY DEF Matches, ShopOK
<1>6. ASSUME NEW guess \in Guesses, SyncNew(snap, match, guess)
      PROVE  [Account!Next]_Account!vars
  <2> DEFINE est == IF snap.weight > 0 THEN snap.weight ELSE guess
             row == [task |-> snap.id, spool |-> match, status |-> snap.status,
                     draft |-> match = NoSpool, progress |-> snap.progress,
                     est |-> est, consumed |-> 0, finished |-> FALSE]
  <2>1. PICK w \in {CreateFromBambu(snap, match, guess)} : SyncRow(nextJob, w, snap, match)
    BY <1>6 DEF SyncNew
  <2>2. SoundWork(w)
    BY <1>2, <1>5, <2>1, CreateIsSound, GramsArePositive DEF LedgerOK
  <2>3. nextJob \in JobIds /\ HoldOf[nextJob] = 0 /\ FromOf[nextJob] = NoSpool
    BY <1>6, NewJobHoldsNothing DEF SyncNew
  <2>4. est \in Nat /\ (match = NoSpool) \in BOOLEAN
    BY <1>2, GramsArePositive DEF SnapshotType
  <2>5. w = IF match = NoSpool THEN [job |-> row, grams |-> grams]
            ELSE Reserve([job |-> row, grams |-> grams], match, est)
    BY <2>1 DEF CreateFromBambu
  <2> HIDE DEF est
  <2>6. row \in JobRow /\ row.spool = match /\ row.consumed = 0
    BY <1>2, <1>5, <2>4 DEF SnapshotType, JobRow
  <2> HIDE DEF row
  <2>7. Even(0, NoSpool, grams, w)
    <3>1. CASE match = NoSpool
      BY <2>5, <2>6, <3>1 DEF Even
    <3>2. CASE match # NoSpool
      BY <1>5, <2>4, <2>5, <2>6, <3>2, FreshIsEven
    <3> QED BY <3>1, <3>2
  <2> QED BY <1>2, <1>4, <2>1, <2>2, <2>3, <2>7, SyncRowIsBooked
<1>7. ASSUME SyncExisting(snap, match) PROVE [Account!Next]_Account!vars
  <2>1. PICK j \in Newest(snap.id) :
          SyncRow(j, [job |-> jobs[j], grams |-> grams], snap, match)
    BY <1>7 DEF SyncExisting
  <2>2. j \in DOMAIN jobs /\ j \in JobIds
    BY HoldsAreTyped DEF Newest, JobsOf
  <2> DEFINE w == [job |-> jobs[j], grams |-> grams]
  <2>3. SoundWork(w)
    BY <2>2 DEF LedgerOK, SoundWork
  <2>4. HoldOf[j] = jobs[j].consumed /\ FromOf[j] = jobs[j].spool
    BY <2>2 DEF HoldOf, FromOf
  <2>5. jobs[j].consumed \in Nat /\ jobs[j].spool \in Spools \cup {NoSpool}
        /\ grams \in Stock
    BY <2>2 DEF LedgerOK, SoundRow, JobRow
  <2>6. Even(HoldOf[j], FromOf[j], grams, w)
    <3>1. w.job = jobs[j] /\ w.grams = grams
      OBVIOUS
    <3> HIDE DEF w
    <3>2. \A t \in Spools : grams = [grams EXCEPT ![t] = grams[t]]
      BY <2>5 DEF Stock
    <3> QED BY <2>4, <2>5, <3>1, <3>2 DEF Even, ShopOK
  <2> QED BY <1>2, <1>4, <2>1, <2>2, <2>3, <2>6, SyncRowIsBooked
<1> QED BY <1>3, <1>6, <1>7

\* Start and ConfirmDraft take a row that holds nothing and reserve for it.
LEMMA TakeIsBooked ==
  ASSUME LedgerOK, ShopOK, NEW j \in JobIds, HoldOf[j] = 0, FromOf[j] = NoSpool,
         NEW row \in JobRow, NEW s \in stocked, NEW want \in Nat,
         row.spool = s, ~row.draft, row.consumed = 0, row.est = want,
         NEW w, w = Reserve([job |-> row, grams |-> grams], s, want),
         jobs' = PutJob(j, w.job), grams' = w.grams, UNCHANGED stockVars
  PROVE  [Account!Next]_Account!vars
<1>1. s \in Spools
  BY DEF ShopOK
<1>2. SoundWork(w)
  BY <1>1, TakeIsSound
<1>3. Even(HoldOf[j], FromOf[j], grams, w)
  BY FreshIsEven
<1> QED BY <1>2, <1>3, CallIsBooked

LEMMA StartIsBooked ==
  ASSUME LedgerOK, ShopOK, NEW s \in Spools, NEW need \in Guesses, Start(s, need)
  PROVE  [Account!Next]_Account!vars
<1> DEFINE row == [task |-> NoTask, spool |-> s, status |-> "printing",
                   draft |-> FALSE, progress |-> 0, est |-> need,
                   consumed |-> 0, finished |-> FALSE]
           w   == Reserve([job |-> row, grams |-> grams], s, need)
<1>1. need \in Nat
  BY GramsArePositive
<1>2. row \in JobRow /\ row.spool = s /\ ~row.draft /\ row.consumed = 0 /\ row.est = need
  BY <1>1 DEF JobRow, Live
<1>3. jobs' = PutJob(nextJob, w.job) /\ grams' = w.grams /\ s \in stocked
      /\ nextJob <= MaxJobs /\ UNCHANGED stockVars
  BY DEF Start
<1>4. nextJob \in JobIds /\ HoldOf[nextJob] = 0 /\ FromOf[nextJob] = NoSpool
  BY <1>3, NewJobHoldsNothing
<1> HIDE DEF row
<1> QED BY <1>1, <1>2, <1>3, <1>4, TakeIsBooked

LEMMA ConfirmIsBooked ==
  ASSUME LedgerOK, ShopOK, NEW j \in DOMAIN jobs, NEW s \in Spools,
         NEW weight \in Guesses, ConfirmDraft(j, s, weight)
  PROVE  [Account!Next]_Account!vars
<1> DEFINE row == [jobs[j] EXCEPT !.spool = s, !.est = weight, !.consumed = 0,
                                  !.draft = FALSE]
           w   == Reserve([job |-> row, grams |-> grams], s, weight)
<1>1. weight \in Nat /\ jobs[j] \in JobRow /\ SoundRow(jobs[j])
  BY GramsArePositive DEF LedgerOK, SoundRow
<1>2. row \in JobRow /\ row.spool = s /\ ~row.draft /\ row.consumed = 0 /\ row.est = weight
  BY <1>1 DEF JobRow
<1>3. jobs' = PutJob(j, w.job) /\ grams' = w.grams /\ s \in stocked
      /\ jobs[j].draft /\ UNCHANGED stockVars
  BY DEF ConfirmDraft
<1>4. j \in JobIds /\ HoldOf[j] = 0 /\ FromOf[j] = NoSpool
  BY <1>1, <1>3, HoldsAreTyped DEF HoldOf, FromOf, SoundRow
<1> HIDE DEF row
<1> QED BY <1>1, <1>2, <1>3, <1>4, TakeIsBooked

\* Calls that leave what jobs hold, and the spools, alone
LEMMA SameHoldsIsBooked ==
  ASSUME DOMAIN jobs' = DOMAIN jobs,
         \A j \in DOMAIN jobs : /\ jobs'[j].consumed = jobs[j].consumed
                                /\ jobs'[j].spool = jobs[j].spool,
         UNCHANGED <<grams, stockVars>>
  PROVE  [Account!Next]_Account!vars
<1>1. HoldOf' = HoldOf
  BY DEF HoldOf
<1>2. FromOf' = FromOf
  BY DEF FromOf
<1> QED BY <1>1, <1>2 DEF Account!vars, HoldOf, FromOf, stockVars

LEMMA RestatusIsBooked ==
  ASSUME LedgerOK, NEW j \in DOMAIN jobs, NEW status,
         jobs' = PutJob(j, [jobs[j] EXCEPT !.status = status]),
         UNCHANGED <<grams, stockVars>>
  PROVE  [Account!Next]_Account!vars
<1> DEFINE row == [jobs[j] EXCEPT !.status = status]
<1>1. jobs[j] \in JobRow
  BY DEF LedgerOK, SoundRow
<1>2. row.consumed = jobs[j].consumed /\ row.spool = jobs[j].spool
  BY <1>1 DEF JobRow
<1>3. jobs' = PutJob(j, row)
  OBVIOUS
<1> HIDE DEF row
<1> QED BY <1>2, <1>3, SameHoldsIsBooked DEF PutJob

LEMMA RuntimeSyncIsBooked ==
  ASSUME LedgerOK, RuntimeSync
  PROVE  [Account!Next]_Account!vars
<1> DEFINE running == {j \in DOMAIN jobs : jobs[j].task = NoTask
                                           /\ jobs[j].status = "printing"}
           Tick(row, pct) == IF pct = 100
                             THEN [Close(row, "completed") EXCEPT !.progress = 100]
                             ELSE [row EXCEPT !.progress = pct]
<1>1. PICK clock \in [running -> Percents] :
        jobs' = [j \in DOMAIN jobs |-> IF j \in running THEN Tick(jobs[j], clock[j])
                                        ELSE jobs[j]]
  BY DEF RuntimeSync
<1>2. DOMAIN jobs' = DOMAIN jobs
  BY <1>1
<1>3. ASSUME NEW row \in JobRow, NEW pct
      PROVE  Tick(row, pct).consumed = row.consumed /\ Tick(row, pct).spool = row.spool
  BY DEF Close, JobRow
<1>4. ASSUME NEW j \in DOMAIN jobs
      PROVE  jobs'[j].consumed = jobs[j].consumed /\ jobs'[j].spool = jobs[j].spool
  <2>1. jobs[j] \in JobRow
    BY DEF LedgerOK, SoundRow
  <2>2. jobs'[j] = IF j \in running THEN Tick(jobs[j], clock[j]) ELSE jobs[j]
    BY <1>1
  <2> HIDE DEF running, Tick
  <2> QED BY <1>3, <2>1, <2>2
<1>5. UNCHANGED <<grams, stockVars>>
  BY DEF RuntimeSync
<1> QED BY <1>2, <1>4, <1>5, SameHoldsIsBooked

LEMMA DeleteIsBooked ==
  ASSUME LedgerOK, ShopOK, NEW j \in DOMAIN jobs, Delete(j)
  PROVE  [Account!Next]_Account!vars
<1> DEFINE unused == IF jobs[j].status \in Terminal THEN 0
                     ELSE UnusedReservedGrams(jobs[j])
           s == jobs[j].spool
<1>1. jobs[j] \in JobRow /\ grams \in Stock
  BY DEF LedgerOK, SoundRow
<1>2. jobs[j].consumed \in Nat /\ unused \in 0..jobs[j].consumed
  BY <1>1, UnusedIsWithinHold DEF JobRow
<1>3. /\ unused > 0 => s \in stocked
      /\ grams' = (IF unused = 0 THEN grams ELSE Refund(grams, s, unused))
      /\ jobs' = [k \in DOMAIN jobs \ {j} |-> jobs[k]]
      /\ stocked' = stocked /\ stocktakes' = stocktakes
  BY DEF Delete, stockVars
<1> HIDE DEF unused
<1>4. j \in JobIds /\ HoldOf \in [JobIds -> Nat]
      /\ HoldOf[j] = jobs[j].consumed /\ FromOf[j] = s
  BY HoldsAreTyped DEF HoldOf, FromOf
<1>5. HoldOf' = [HoldOf EXCEPT ![j] = 0] /\ FromOf' = [FromOf EXCEPT ![j] = NoSpool]
  BY <1>3, <1>4 DEF HoldOf, FromOf
<1>6. CASE unused = 0
  <2>1. Account!Remove(j)
    BY <1>3, <1>5, <1>6 DEF Account!Remove, HoldOf, FromOf
  <2> QED BY <1>4, <2>1 DEF Account!Next
<1>7. CASE unused # 0
  <2>1. s \in stocked /\ s \in Spools /\ grams[s] \in Nat
    BY <1>1, <1>2, <1>3, <1>7 DEF ShopOK, Stock
  <2>2. grams' = [grams EXCEPT ![s] = grams[s] + unused]
    BY <1>3, <1>7, <2>1 DEF Refund
  <2>3. grams'[s] = grams[s] + unused /\ grams' = [grams EXCEPT ![s] = grams'[s]]
    BY <1>1, <2>1, <2>2 DEF Stock
  <2>4. grams'[s] - grams[s] \in 0..HoldOf[j]
    BY <1>2, <1>4, <2>1, <2>3
  <2>5. Account!Remove(j)
    <3> HIDE DEF s
    <3> QED BY <1>3, <1>4, <1>5, <2>1, <2>3, <2>4 DEF Account!Remove, HoldOf, FromOf
  <2> QED BY <1>4, <2>5 DEF Account!Next
<1> QED BY <1>6, <1>7

\* The spool calls
LEMMA ShopIsBooked ==
  ASSUME LedgerOK, ShopOK, NEW s \in Spools,
         \/ CreateSpool(s) \/ DeleteSpool(s)
         \/ \E n \in Counts : UpdateRemaining(s, n) \/ Consume(s, n)
  PROVE  [Account!Next]_Account!vars
<1>1. grams[s] \in Nat /\ DOMAIN grams = Spools /\ InitialWeight[s] \in Nat \ {0}
  BY GramsArePositive DEF LedgerOK, Stock
<1>2. jobs' = jobs
  BY DEF CreateSpool, DeleteSpool, UpdateRemaining, Consume
<1>3. HoldOf' = HoldOf /\ FromOf' = FromOf
  BY <1>2 DEF HoldOf, FromOf
<1>4. CASE CreateSpool(s)
  <2>1. s \notin stocked /\ stocked' = stocked \cup {s} /\ stocktakes' = stocktakes
        /\ grams' = [grams EXCEPT ![s] = InitialWeight[s]]
    BY <1>4 DEF CreateSpool, ShopOK
  <2>2. grams'[s] = InitialWeight[s]
    BY <1>1, <2>1
  <2>3. Account!Deliver(s)
    BY <1>1, <1>3, <2>1, <2>2 DEF Account!Deliver, HoldOf, FromOf
  <2> QED BY <2>3 DEF Account!Next
<1>5. CASE DeleteSpool(s)
  <2>1. Account!Discard(s)
    BY <1>3, <1>5 DEF DeleteSpool, Account!Discard, HoldOf, FromOf
  <2> QED BY <2>1 DEF Account!Next
<1>6. ASSUME NEW n \in Counts, UpdateRemaining(s, n) \/ Consume(s, n)
      PROVE  [Account!Next]_Account!vars
  <2>1. n \in Nat
    BY GramsArePositive
  <2>2. /\ s \in stocked /\ stocked' = stocked /\ stocktakes' = 1 - stocktakes
        /\ grams' = [grams EXCEPT ![s] = n] \/ grams' = [grams EXCEPT ![s] = grams[s] - n]
        /\ n <= grams[s] \/ grams' = [grams EXCEPT ![s] = n]
    BY <1>6 DEF UpdateRemaining, Consume
  <2>3. grams'[s] \in Nat /\ grams' = [grams EXCEPT ![s] = grams'[s]]
    BY <1>1, <2>1, <2>2
  <2>4. Account!Stocktake(s)
    BY <1>3, <2>2, <2>3 DEF Account!Stocktake, HoldOf, FromOf
  <2> QED BY <2>4 DEF Account!Next
<1> QED BY <1>4, <1>5, <1>6

-----------------------------------------------------------------------------
(* The theorem.                                                            *)

LEMMA StepIsBooked == Sound /\ [Next]_vars => [Account!Next]_Account!vars
<1> SUFFICES ASSUME Sound, [Next]_vars PROVE [Account!Next]_Account!vars
  OBVIOUS
<1>1. LedgerOK /\ ShopOK /\ PrinterOK
  BY SoundParts
<1>2. CASE PollNext
  BY <1>1, <1>2, PollIsBooked
<1>3. CASE PeopleNext
  <2>1. ASSUME NEW s \in Spools,
               \/ CreateSpool(s) \/ DeleteSpool(s)
               \/ \E n \in Counts : UpdateRemaining(s, n) \/ Consume(s, n)
        PROVE  [Account!Next]_Account!vars
    BY <1>1, <2>1, ShopIsBooked
  <2>2. ASSUME NEW s \in Spools, NEW need \in Guesses, Start(s, need)
        PROVE  [Account!Next]_Account!vars
    BY <1>1, <2>2, StartIsBooked
  <2>3. ASSUME NEW j \in DOMAIN jobs, Delete(j) PROVE [Account!Next]_Account!vars
    BY <1>1, <2>3, DeleteIsBooked
  <2>4. ASSUME NEW j \in DOMAIN jobs, NEW s \in Spools, NEW weight \in Guesses,
               ConfirmDraft(j, s, weight)
        PROVE  [Account!Next]_Account!vars
    BY <1>1, <2>4, ConfirmIsBooked
  <2>5. ASSUME NEW j \in DOMAIN jobs, PauseOpen(j) PROVE [Account!Next]_Account!vars
    BY <1>1, <2>5, RestatusIsBooked DEF PauseOpen, Pause, Resume
  <2> QED BY <1>3, <2>1, <2>2, <2>3, <2>4, <2>5 DEF PeopleNext
<1>4. CASE RuntimeSync
  BY <1>1, <1>4, RuntimeSyncIsBooked
<1>5. CASE PauseNext
  <2>1. PICK j \in DOMAIN jobs : Pause(j) \/ Resume(j)
    BY <1>5 DEF PauseNext
  <2> QED BY <1>1, <2>1, RestatusIsBooked DEF Pause, Resume
<1>6. CASE PrinterNext \/ UNCHANGED vars
  <2>1. UNCHANGED <<jobs, grams, stockVars>>
    BY <1>6 DEF PrinterNext, PrinterStep, ClearPlate, Relink, BeginPrint, vars, stockVars
  <2> QED BY <2>1, SameHoldsIsBooked
<1> QED BY <1>2, <1>3, <1>4, <1>5, <1>6 DEF Next, CoreNext

\* Every behaviour of the ledger, with all feeds and all calls, is one of the
\* double-entry account: no poll, call or wall-clock tick mints plastic, moves
\* it between spools, or loses it in a way the account does not name.
THEOREM SpecImplementsAccount == Spec => LedgerImplementsAccount
<1>1. Init => Account!Init
  BY DEF Init, Account!Init
<1> QED BY <1>1, SpecIsSound, StepIsBooked, PTL
        DEF Spec, LedgerImplementsAccount, Account!Spec
=============================================================================
