-------------------------- MODULE FilamentJobsProofs --------------------------
(***************************************************************************)
(* Proofs about the rows of one task in the filament ledger: it never has  *)
(* two open ones, a completed one is charged what the cloud weighed, and a *)
(* failed one keeps no more than it extruded.  All three need to know what *)
(* a poll does to a row, field by field: the first part follows a row      *)
(* through linking, weighing and closing.                                  *)
(***************************************************************************)
EXTENDS FilamentLedgerProofs

-----------------------------------------------------------------------------
(* One row in one poll.                                                    *)

\* An open row that is no draft has a spool.
Linked(r) == r.status \notin Terminal /\ ~r.draft => r.spool # NoSpool

\* A reservation changes only what the row holds.
LEMMA ReserveMoves ==
  ASSUME NEW row \in JobRow, NEW g, NEW s, NEW want
  PROVE  LET r == Reserve([job |-> row, grams |-> g], s, want).job IN
         /\ r.task = row.task /\ r.spool = row.spool /\ r.status = row.status
         /\ r.draft = row.draft /\ r.finished = row.finished
         /\ r.progress = row.progress /\ r.est = row.est
         /\ r.consumed = row.consumed + Lesser(want, g[s])
BY DEF Reserve, JobRow

\* createFromBambu
LEMMA CreateMoves ==
  ASSUME NEW snap \in SnapshotType, NEW match \in Spools \cup {NoSpool}, NEW guess \in Nat
  PROVE  LET r == CreateFromBambu(snap, match, guess).job IN
         r.task = snap.id /\ ~r.finished /\ r.spool = match /\ Linked(r)
<1> DEFINE est == IF snap.weight > 0 THEN snap.weight ELSE guess
<1>1. est \in Nat /\ (match = NoSpool) \in BOOLEAN
  BY DEF SnapshotType
<1>2. PICK row : row = [task |-> snap.id, spool |-> match, status |-> snap.status,
                        draft |-> match = NoSpool, progress |-> snap.progress,
                        est |-> est, consumed |-> 0, finished |-> FALSE]
  OBVIOUS
<1>3. /\ row \in JobRow /\ row.task = snap.id /\ ~row.finished /\ row.spool = match
      /\ Linked(row)
  BY <1>1, <1>2 DEF SnapshotType, JobRow, Linked
<1>4. CreateFromBambu(snap, match, guess)
        = IF match = NoSpool THEN [job |-> row, grams |-> grams]
          ELSE Reserve([job |-> row, grams |-> grams], match, est)
  BY <1>2 DEF CreateFromBambu
<1>5. est \in Nat
  BY <1>1
<1> HIDE DEF est
<1>6. CASE match = NoSpool
  BY <1>3, <1>4, <1>6
<1>7. CASE match # NoSpool
  <2>1. PICK r : r = Reserve([job |-> row, grams |-> grams], match, est).job
    OBVIOUS
  <2>2. /\ r.task = row.task /\ r.finished = row.finished /\ r.spool = row.spool
        /\ r.status = row.status /\ r.draft = row.draft
    BY <1>3, <2>1, ReserveMoves
  <2> QED BY <1>3, <1>4, <1>7, <2>1, <2>2 DEF Linked
<1> QED BY <1>6, <1>7

\* ensureDraftLinked: only a draft is given a spool.
LEMMA LinkMoves ==
  ASSUME NEW w, SoundWork(w), NEW match \in Spools \cup {NoSpool}
  PROVE  LET r == EnsureDraftLinked(w, match).job IN
         /\ r.task = w.job.task /\ r.status = w.job.status
         /\ r.finished = w.job.finished /\ r.progress = w.job.progress
         /\ ~w.job.draft => EnsureDraftLinked(w, match) = w
         /\ r.spool \in {w.job.spool, match}
         /\ Linked(w.job) => Linked(r)
<1> DEFINE row == [w.job EXCEPT !.spool = match, !.draft = FALSE]
<1>1. w.job \in JobRow /\ w = [job |-> w.job, grams |-> w.grams]
  BY DEF SoundWork, SoundRow
<1>2. CASE ~w.job.draft \/ match = NoSpool
  BY <1>2 DEF EnsureDraftLinked, Linked
<1>3. CASE w.job.draft /\ match # NoSpool
  <2>1. /\ row \in JobRow /\ row.task = w.job.task /\ row.status = w.job.status
        /\ row.finished = w.job.finished /\ row.spool = match
        /\ row.progress = w.job.progress
    BY <1>1, <1>3 DEF JobRow
  <2>2. [w EXCEPT !.job = [@ EXCEPT !.spool = match, !.draft = FALSE]]
          = [job |-> row, grams |-> w.grams]
    BY <1>1
  <2> HIDE DEF row
  <2>3. EnsureDraftLinked(w, match)
          = Reserve([job |-> row, grams |-> w.grams], match, w.job.est - w.job.consumed)
    BY <1>3, <2>2 DEF EnsureDraftLinked
  <2> QED BY <1>3, <2>1, <2>3, ReserveMoves DEF Linked
<1> QED BY <1>2, <1>3

\* No more is extruded than was planned.
LEMMA ExtrudedIsShare ==
  ASSUME NEW planned \in Nat, NEW progress \in 0..100
  PROVE  Extruded(planned, progress) <= planned
<1>1. planned * progress \in Nat /\ planned * progress <= planned * 100
  OBVIOUS
<1>2. ASSUME NEW a \in Nat, a <= planned * 100
      PROVE  (2 * a + 100) \div 200 <= planned
  BY <1>2
<1> QED BY <1>1, <1>2 DEF Extruded

\* applyJobWeight: the same weight again changes nothing that the row holds.
LEMMA WeightMoves ==
  ASSUME NEW w, SoundWork(w), NEW weight \in Nat
  PROVE  LET r == ApplyJobWeight(w, weight).job IN
         /\ r.task = w.job.task /\ r.status = w.job.status
         /\ r.finished = w.job.finished /\ r.draft = w.job.draft
         /\ r.spool = w.job.spool
         /\ w.job.consumed = weight => r.consumed = weight
         /\ r.progress = w.job.progress
         /\ r.consumed >= Lesser(w.job.consumed, r.est)
<1> DEFINE row == [w.job EXCEPT !.est = weight]
<1>1. w.job \in JobRow /\ w = [job |-> w.job, grams |-> w.grams] /\ w.grams \in Stock
  BY DEF SoundWork, SoundRow
<1>2. /\ row \in JobRow /\ row.task = w.job.task /\ row.status = w.job.status
      /\ row.finished = w.job.finished /\ row.draft = w.job.draft
      /\ row.spool = w.job.spool /\ row.consumed = w.job.consumed
      /\ row.progress = w.job.progress /\ row.est = weight
      /\ w.job.spool \in Spools \cup {NoSpool}
      /\ w.job.consumed \in Nat /\ w.job.est \in Nat
  BY <1>1 DEF JobRow
<1>3. [w EXCEPT !.job.est = weight] = [job |-> row, grams |-> w.grams]
  BY <1>1
<1> HIDE DEF row
<1>4. CASE weight = 0
  BY <1>2, <1>4 DEF ApplyJobWeight, Lesser
<1>5. CASE weight > 0 /\ (w.job.draft \/ w.job.spool = NoSpool)
  BY <1>2, <1>3, <1>5 DEF ApplyJobWeight, Lesser
<1>6. CASE weight > 0 /\ ~(w.job.draft \/ w.job.spool = NoSpool)
  <2>1. ApplyJobWeight(w, weight)
          = Reserve([job |-> row, grams |-> w.grams], w.job.spool, weight - w.job.consumed)
    BY <1>3, <1>6 DEF ApplyJobWeight
  <2>2. w.grams[w.job.spool] \in Nat
    BY <1>1, <1>2, <1>6 DEF Stock
  <2>3. w.job.consumed = weight => Lesser(weight - w.job.consumed, w.grams[w.job.spool]) = 0
    BY <2>2 DEF Lesser
  <2>4. PICK more : more = ApplyJobWeight(w, weight).job
    OBVIOUS
  <2>5. /\ more.task = row.task /\ more.status = row.status /\ more.finished = row.finished
        /\ more.draft = row.draft /\ more.spool = row.spool
        /\ more.progress = row.progress /\ more.est = row.est
        /\ more.consumed = row.consumed
             + Lesser(weight - w.job.consumed, w.grams[w.job.spool])
    BY <1>2, <2>1, <2>4, ReserveMoves
  <2>6. more.consumed >= Lesser(w.job.consumed, more.est)
    BY <1>2, <2>2, <2>5 DEF Lesser
  <2> QED BY <1>2, <2>3, <2>4, <2>5, <2>6
<1> QED BY <1>4, <1>5, <1>6

\* finalizeComplete: a spool that is there is charged the actual weight, whether it
\* covers it or not.
LEMMA CompleteMoves ==
  ASSUME NEW w, SoundWork(w), NEW actual \in Nat
  PROVE  LET r == FinalizeComplete(w, actual).job IN
         /\ r.task = w.job.task /\ r.spool = w.job.spool
         /\ r.finished /\ ~r.draft /\ r.status = "completed"
         /\ (actual > 0 /\ w.job.spool # NoSpool /\ w.job.spool \in stocked)
              => r.consumed = actual
<1>1. w.job \in JobRow /\ w = [job |-> w.job, grams |-> w.grams]
  BY DEF SoundWork, SoundRow
<1>2. PICK shut \in JobRow : shut = Close(w.job, "completed")
  BY <1>1 DEF Close, JobRow, Terminal
<1>3. /\ shut.task = w.job.task /\ shut.spool = w.job.spool /\ shut.finished
      /\ ~shut.draft /\ shut.status = "completed"
  BY <1>1, <1>2 DEF Close, JobRow
<1> DEFINE done == [shut EXCEPT !.progress = 100]
           owed == [done EXCEPT !.est = actual]
           paid == [done EXCEPT !.est = actual, !.consumed = actual]
           fits == actual > 0 /\ w.job.spool # NoSpool /\ w.job.spool \in stocked
<1>4. /\ done.task = w.job.task /\ done.spool = w.job.spool
      /\ done.finished /\ ~done.draft /\ done.status = "completed" /\ done \in JobRow
  BY <1>3 DEF JobRow
<1>5. /\ FinalizeComplete(w, actual).job \in {done, owed, paid}
      /\ fits => FinalizeComplete(w, actual).job = paid
  BY <1>1, <1>2 DEF FinalizeComplete
<1> HIDE DEF done
<1>6. /\ owed.task = done.task /\ owed.spool = done.spool
      /\ owed.finished = done.finished /\ owed.draft = done.draft
      /\ owed.status = done.status
      /\ paid.task = done.task /\ paid.spool = done.spool
      /\ paid.finished = done.finished /\ paid.draft = done.draft
      /\ paid.status = done.status /\ paid.consumed = actual
  BY <1>4 DEF JobRow
<1> HIDE DEF owed, paid
<1> QED BY <1>4, <1>5, <1>6

\* finalizeCancelOrFail: what stays with the job is what the progress says was
\* extruded, or all of it.
LEMMA StopMoves ==
  ASSUME NEW w, SoundWork(w), NEW status \in Terminal
  PROVE  LET r == FinalizeCancelOrFail(w, status).job IN
         /\ r.task = w.job.task /\ r.spool = w.job.spool
         /\ r.finished /\ ~r.draft /\ r.status = status /\ r.est = w.job.est
         /\ r.consumed <= Extruded(r.est, w.job.progress)
         /\ r.consumed >= Lesser(w.job.consumed, Extruded(r.est, w.job.progress))
<1>1. w.job \in JobRow /\ SoundRow(w.job)
  BY DEF SoundWork, SoundRow
<1>2. PICK shut \in JobRow : shut = Close(w.job, status)
  BY <1>1 DEF Close, JobRow
<1>3. /\ shut.task = w.job.task /\ shut.spool = w.job.spool /\ shut.finished
      /\ ~shut.draft /\ shut.status = status
      /\ shut.consumed = w.job.consumed /\ shut.est = w.job.est
  BY <1>1, <1>2 DEF Close, JobRow
<1>4. PICK unused : unused = IF w.job.spool = NoSpool THEN 0 ELSE UnusedReservedGrams(w.job)
  OBVIOUS
<1>5. PICK row : row = [shut EXCEPT !.consumed = @ - unused]
  OBVIOUS
<1>6. FinalizeCancelOrFail(w, status).job = row
  BY <1>2, <1>4, <1>5 DEF FinalizeCancelOrFail
<1>7. /\ row.task = shut.task /\ row.spool = shut.spool /\ row.finished = shut.finished
      /\ row.draft = shut.draft /\ row.status = shut.status
      /\ row.est = w.job.est /\ row.consumed = w.job.consumed - unused
  BY <1>3, <1>5 DEF JobRow
<1>8. LET kept == w.job.consumed - unused IN
      /\ kept <= Extruded(w.job.est, w.job.progress)
      /\ kept >= Lesser(w.job.consumed, Extruded(w.job.est, w.job.progress))
  <2>1. /\ w.job.consumed \in Nat /\ w.job.est \in Nat /\ w.job.progress \in 0..100
        /\ w.job.consumed <= w.job.est
    BY <1>1 DEF SoundRow, JobRow
  <2>2. PICK worn \in Nat : worn = Extruded(w.job.est, w.job.progress)
    BY <2>1, ExtrudedIsNat
  <2>3. CASE w.job.spool = NoSpool \/ w.job.est = 0
    <3>1. w.job.consumed = 0
      BY <1>1, <2>1, <2>3 DEF SoundRow
    <3>2. unused \in 0..w.job.consumed
      BY <1>1, <1>4, <2>1, UnusedIsWithinHold
    <3> QED BY <2>2, <3>1, <3>2 DEF Lesser
  <2>4. CASE w.job.spool # NoSpool /\ w.job.est > 0
    <3>1. unused = w.job.consumed - Lesser(worn, w.job.consumed)
      BY <1>4, <2>2, <2>4 DEF UnusedReservedGrams
    <3> QED BY <2>1, <2>2, <3>1 DEF Lesser
  <2> QED BY <2>1, <2>3, <2>4
<1> QED BY <1>3, <1>6, <1>7, <1>8

\* The switch on the status: a closed row is left alone, an open one is closed by
\* the end of its print.
LEMMA StatusMoves ==
  ASSUME NEW w, SoundWork(w), NEW snap \in SnapshotType
  PROVE  LET r == ApplyStatus(w, snap).job IN
         /\ r.task = w.job.task /\ r.spool = w.job.spool
         /\ w.job.status \in Terminal => ApplyStatus(w, snap) = w
         /\ w.job.status \notin Terminal =>
              \/ /\ r.finished = w.job.finished /\ r.status \in Live
                 /\ snap.status \in Live /\ r.draft = w.job.draft
                 /\ r.est = w.job.est /\ r.consumed = w.job.consumed
                 /\ ApplyStatus(w, snap).grams = w.grams
              \/ /\ r.finished /\ ~r.draft /\ r.status \in Terminal
                 /\ r.status = snap.status
                 /\ (/\ r.status = "completed" /\ snap.weight > 0
                     /\ w.job.spool # NoSpool /\ w.job.spool \in stocked)
                      => r.consumed = snap.weight
                 /\ r.status = "failed" =>
                      /\ r.est = w.job.est
                      /\ r.consumed <= Extruded(r.est, w.job.progress)
                      /\ r.consumed >= Lesser(w.job.consumed,
                                               Extruded(r.est, w.job.progress))
<1>1. w.job \in JobRow /\ snap.status \in Live \cup Terminal /\ snap.weight \in Nat
      /\ w = [job |-> w.job, grams |-> w.grams]
  BY DEF SoundWork, SoundRow, SnapshotType
<1>2. CASE w.job.status \in Terminal
  BY <1>2 DEF ApplyStatus
<1>3. CASE w.job.status \notin Terminal /\ snap.status \in Live
  <2>1. ApplyStatus(w, snap) = [w EXCEPT !.job.status = snap.status]
    BY <1>3 DEF ApplyStatus, Live
  <2>2. PICK row : row = [w.job EXCEPT !.status = snap.status]
    OBVIOUS
  <2>3. ApplyStatus(w, snap).job = row /\ ApplyStatus(w, snap).grams = w.grams
    BY <1>1, <2>1, <2>2
  <2>4. /\ row.task = w.job.task /\ row.spool = w.job.spool /\ row.draft = w.job.draft
        /\ row.finished = w.job.finished /\ row.est = w.job.est
        /\ row.consumed = w.job.consumed /\ row.status = snap.status
    BY <1>1, <2>2 DEF JobRow
  <2> QED BY <1>3, <2>3, <2>4
<1>4. CASE w.job.status \notin Terminal /\ snap.status = "completed"
  <2>1. ApplyStatus(w, snap) = FinalizeComplete(w, snap.weight)
    BY <1>4 DEF ApplyStatus, Live
  <2> QED BY <1>1, <1>4, <2>1, CompleteMoves DEF Terminal
<1>5. CASE w.job.status \notin Terminal /\ snap.status \notin Live
           /\ snap.status # "completed"
  <2>1. ApplyStatus(w, snap) = FinalizeCancelOrFail(w, snap.status)
    BY <1>5 DEF ApplyStatus
  <2> QED BY <1>1, <1>5, <2>1, StopMoves
<1> QED BY <1>2, <1>3, <1>4, <1>5
-----------------------------------------------------------------------------
(* One poll.                                                               *)

\* What a poll that reports snap may make of the row old
Follows(old, row, snap) ==
  /\ row.task = old.task
  /\ row.spool \in {old.spool} \cup Matches
  /\ Linked(old) => Linked(row)
  /\ old.status \in Terminal =>
       /\ row.status = old.status /\ row.finished = old.finished
       /\ ~old.draft => /\ ~row.draft /\ row.spool = old.spool
                        /\ old.consumed = snap.weight => row.consumed = snap.weight
                        /\ snap.weight = 0 => /\ row.est = old.est
                                               /\ row.consumed = old.consumed
  /\ old.status \notin Terminal =>
       \/ row.finished = old.finished /\ {row.status, snap.status} \subseteq Live
       \/ /\ row.finished /\ ~row.draft /\ row.status \in Terminal
          /\ row.status = snap.status
          /\ (/\ row.status = "completed" /\ snap.weight > 0
              /\ row.spool # NoSpool /\ row.spool \in stocked)
             => row.consumed = snap.weight
          /\ row.status = "failed"
             => /\ row.consumed <= Extruded(row.est, snap.progress)
                /\ ~old.draft => row.consumed >= Lesser(old.consumed,
                                                        Extruded(row.est, snap.progress))

\* The row a poll found or created, after it
LEMMA SyncRowFollows ==
  ASSUME ShopOK, NEW j, NEW w, SoundWork(w), NEW snap \in SnapshotType,
         NEW match \in Matches, SyncRow(j, w, snap, match)
  PROVE  \E row : jobs' = PutJob(j, row) /\ Follows(w.job, row, snap)
<1>1. /\ w.job \in JobRow /\ SoundRow(w.job) /\ w.grams \in Stock
      /\ w = [job |-> w.job, grams |-> w.grams]
      /\ snap.progress \in 0..100 /\ snap.weight \in Nat
      /\ match \in Spools \cup {NoSpool}
  BY DEF SoundWork, SoundRow, SnapshotType, Matches, ShopOK
<1>2. PICK row \in JobRow : row = [w.job EXCEPT !.progress = snap.progress]
  BY <1>1 DEF JobRow
<1>3. /\ row.task = w.job.task /\ row.spool = w.job.spool /\ row.status = w.job.status
      /\ row.draft = w.job.draft /\ row.finished = w.job.finished
      /\ row.consumed = w.job.consumed /\ row.est = w.job.est
      /\ row.progress = snap.progress
  BY <1>1, <1>2 DEF JobRow
<1>4. PICK seen : seen = [job |-> row, grams |-> w.grams]
  OBVIOUS
<1>5. [w EXCEPT !.job.progress = snap.progress] = seen
  BY <1>1, <1>2, <1>4
<1>6. SoundWork(seen) /\ seen.job = row
  BY <1>1, <1>3, <1>4 DEF SoundWork, SoundRow
<1>7. PICK linked : linked = EnsureDraftLinked(seen, match)
  OBVIOUS
<1>8. /\ SoundWork(linked)
      /\ linked.job.task = row.task /\ linked.job.status = row.status
      /\ linked.job.finished = row.finished /\ linked.job.progress = row.progress
      /\ ~row.draft => linked = seen
      /\ linked.job.spool \in {row.spool, match}
      /\ Linked(w.job) => Linked(linked.job)
  <2>1. Linked(w.job) => Linked(row)
    BY <1>3 DEF Linked
  <2> QED BY <1>1, <1>6, <1>7, <2>1, LinkMoves, LinkIsSound
<1>9. PICK weighed : weighed = ApplyJobWeight(linked, snap.weight)
  OBVIOUS
<1>10. /\ SoundWork(weighed)
       /\ weighed.job.task = linked.job.task /\ weighed.job.status = linked.job.status
       /\ weighed.job.finished = linked.job.finished
       /\ weighed.job.draft = linked.job.draft /\ weighed.job.spool = linked.job.spool
       /\ linked.job.consumed = snap.weight => weighed.job.consumed = snap.weight
       /\ weighed.job.progress = linked.job.progress
       /\ weighed.job.consumed >= Lesser(linked.job.consumed, weighed.job.est)
       /\ snap.weight = 0 => weighed = linked
  <2>1. SoundWork(weighed)
    BY <1>1, <1>8, <1>9, WeightIsSound
  <2>2. snap.weight = 0 => weighed = linked
    BY <1>9 DEF ApplyJobWeight
  <2> QED BY <1>1, <1>8, <1>9, <2>1, <2>2, WeightMoves
<1>11. PICK done : done = ApplyStatus(weighed, snap)
  OBVIOUS
<1>12. /\ done.job.task = weighed.job.task /\ done.job.spool = weighed.job.spool
       /\ weighed.job.status \in Terminal => done = weighed
       /\ weighed.job.status \notin Terminal =>
            \/ /\ done.job.finished = weighed.job.finished /\ done.job.status \in Live
               /\ snap.status \in Live /\ done.job.draft = weighed.job.draft
            \/ /\ done.job.finished /\ ~done.job.draft /\ done.job.status \in Terminal
               /\ done.job.status = snap.status
               /\ (/\ done.job.status = "completed" /\ snap.weight > 0
                   /\ weighed.job.spool # NoSpool /\ weighed.job.spool \in stocked)
                    => done.job.consumed = snap.weight
               /\ done.job.status = "failed" =>
                    /\ done.job.est = weighed.job.est
                    /\ done.job.consumed <= Extruded(done.job.est, weighed.job.progress)
                    /\ done.job.consumed >= Lesser(weighed.job.consumed,
                          Extruded(done.job.est, weighed.job.progress))
  BY <1>10, <1>11, StatusMoves
<1>13. jobs' = PutJob(j, done.job)
  BY <1>5, <1>7, <1>9, <1>11 DEF SyncRow
<1>14. Follows(w.job, done.job, snap)
  <2>1. done.job.task = w.job.task /\ done.job.spool \in {w.job.spool} \cup Matches
    BY <1>3, <1>8, <1>10, <1>12
  <2>4. Linked(w.job) => Linked(done.job)
    <3>1. Linked(linked.job) => Linked(weighed.job)
      BY <1>10 DEF Linked
    <3>2. Linked(weighed.job) => Linked(done.job)
      BY <1>12 DEF Linked
    <3> QED BY <1>8, <3>1, <3>2
  <2>2. CASE w.job.status \in Terminal
    <3>1. done = weighed
      BY <1>3, <1>8, <1>10, <1>12, <2>2
    <3>2. done.job.status = w.job.status /\ done.job.finished = w.job.finished
      BY <1>3, <1>8, <1>10, <3>1
    <3>3. ASSUME ~w.job.draft
          PROVE  /\ ~done.job.draft /\ done.job.spool = w.job.spool
                 /\ w.job.consumed = snap.weight => done.job.consumed = snap.weight
                 /\ snap.weight = 0 => /\ done.job.est = w.job.est
                                        /\ done.job.consumed = w.job.consumed
      <4>1. linked = seen
        BY <1>3, <1>8, <3>3
      <4> QED BY <1>3, <1>6, <1>10, <3>1, <3>3, <4>1
    <3> QED BY <2>1, <2>2, <2>4, <3>2, <3>3 DEF Follows
  <2>3. CASE w.job.status \notin Terminal
    <3>1. weighed.job.status \notin Terminal /\ weighed.job.finished = w.job.finished
      BY <1>3, <1>8, <1>10, <2>3
    <3>2. weighed.job.progress = snap.progress
      BY <1>3, <1>8, <1>10
    <3>3. ~w.job.draft => weighed.job.consumed >= Lesser(w.job.consumed, weighed.job.est)
      BY <1>3, <1>6, <1>8, <1>10
    <3>4. ASSUME ~w.job.draft, done.job.finished # w.job.finished \/ done.job.status \notin Live,
                 done.job.status = "failed"
          PROVE  done.job.consumed >= Lesser(w.job.consumed,
                                             Extruded(done.job.est, snap.progress))
      <4>1. /\ done.job.est = weighed.job.est
            /\ done.job.consumed >= Lesser(weighed.job.consumed,
                                           Extruded(weighed.job.est, snap.progress))
        BY <1>12, <3>1, <3>2, <3>4
      <4>2. /\ weighed.job.est \in Nat /\ weighed.job.consumed \in Nat
            /\ w.job.consumed \in Nat
        BY <1>1, <1>10 DEF SoundWork, SoundRow, JobRow
      <4>3. PICK worn \in Nat : worn = Extruded(weighed.job.est, snap.progress)
        BY <1>1, <4>2, ExtrudedIsNat
      <4>4. worn <= weighed.job.est
        BY <1>1, <4>2, <4>3, ExtrudedIsShare
      <4>5. done.job.consumed \in Nat
        BY <1>10, <1>11, StatusIsSound DEF SoundWork, SoundRow, JobRow
      <4> QED BY <3>3, <3>4, <4>1, <4>2, <4>3, <4>4, <4>5 DEF Lesser
    <3> QED BY <1>12, <2>1, <2>3, <2>4, <3>1, <3>2, <3>4 DEF Follows, Live
  <2> QED BY <2>2, <2>3
<1> QED BY <1>13, <1>14

\* A poll writes one row: the newest of its task, or a new one.
LEMMA PollFollows ==
  ASSUME Sound, PollNext
  PROVE  \E j, old, row :
           /\ jobs' = PutJob(j, row) /\ Follows(old, row, Snapshot(onPlate))
           /\ old.task = Snapshot(onPlate).id
           /\ \/ j \in DOMAIN jobs /\ old = jobs[j]
              \/ /\ j = nextJob /\ OpensNewJob(Snapshot(onPlate))
                 /\ ~old.finished /\ old.spool \in Matches /\ Linked(old)
<1>0. LedgerOK /\ ShopOK /\ PrinterOK
  BY SoundParts
<1>1. PICK snap \in {Snapshot(onPlate)} : Poll(snap)
  BY DEF PollNext
<1>2. snap \in SnapshotType /\ snap = Snapshot(onPlate)
  BY <1>0, <1>1, SnapshotIsTyped DEF PollNext
<1>3. PICK match \in Matches :
        (\E guess \in Guesses : SyncNew(snap, match, guess)) \/ SyncExisting(snap, match)
  BY <1>1 DEF Poll
<1>4. match \in Spools \cup {NoSpool}
  BY <1>0 DEF Matches, ShopOK
<1>5. CASE \E guess \in Guesses : SyncNew(snap, match, guess)
  <2>1. PICK guess \in Guesses : SyncNew(snap, match, guess)
    BY <1>5
  <2>2. PICK w : w = CreateFromBambu(snap, match, guess) /\ SyncRow(nextJob, w, snap, match)
    BY <2>1 DEF SyncNew
  <2>3. SoundWork(w)
    BY <1>0, <1>2, <1>4, <2>2, CreateIsSound, GramsArePositive DEF LedgerOK
  <2>4. w.job.task = snap.id /\ ~w.job.finished /\ w.job.spool = match /\ Linked(w.job)
    BY <1>2, <1>4, <2>2, CreateMoves, GramsArePositive
  <2>5. \E row : jobs' = PutJob(nextJob, row) /\ Follows(w.job, row, snap)
    BY <1>0, <1>2, <2>2, <2>3, SyncRowFollows
  <2>6. OpensNewJob(snap)
    BY <2>1 DEF SyncNew
  <2> QED BY <1>2, <2>4, <2>5, <2>6
<1>6. CASE SyncExisting(snap, match)
  <2>1. PICK j \in Newest(snap.id) :
          SyncRow(j, [job |-> jobs[j], grams |-> grams], snap, match)
    BY <1>6 DEF SyncExisting
  <2>2. j \in DOMAIN jobs /\ jobs[j].task = snap.id
    BY DEF Newest, JobsOf
  <2>3. SoundWork([job |-> jobs[j], grams |-> grams])
    BY <1>0, <2>2 DEF LedgerOK, SoundWork
  <2>4. \E row : jobs' = PutJob(j, row) /\ Follows(jobs[j], row, snap)
    BY <1>0, <1>2, <2>1, <2>3, SyncRowFollows
  <2> QED BY <1>2, <2>2, <2>4
<1> QED BY <1>3, <1>5, <1>6
-----------------------------------------------------------------------------
(* Everything but a poll.                                                  *)

\* What people, the clock and the printer may make of row j of jobs
Confirmed(old, row) ==
  /\ old.draft /\ ~row.draft /\ row.spool \in stocked
  /\ row.task = old.task /\ row.status = old.status /\ row.finished = old.finished

StartedByHand(row) ==
  row.task = NoTask /\ row.spool \in stocked /\ ~row.draft /\ ~row.finished

Clocked(old, row) ==
  /\ old.task = NoTask /\ row.task = NoTask /\ row.spool = old.spool
  /\ \/ row.status = "completed" /\ ~row.draft
     \/ /\ row.status = old.status /\ row.draft = old.draft
        /\ row.finished = old.finished

\* Paused or resumed, and open as before
Repaused(old, row) ==
  /\ old.status \notin Terminal /\ row.status \notin Terminal
  /\ row.task = old.task /\ row.spool = old.spool /\ row.draft = old.draft
  /\ row.finished = old.finished

OtherStep(j) ==
  \/ j \in DOMAIN jobs /\ jobs'[j] = jobs[j]
  \/ j \in DOMAIN jobs /\ Confirmed(jobs[j], jobs'[j])
  \/ j \in DOMAIN jobs /\ Clocked(jobs[j], jobs'[j])
  \/ j \in DOMAIN jobs /\ Repaused(jobs[j], jobs'[j])
  \/ j = nextJob /\ StartedByHand(jobs'[j])

LEMMA StartByHand ==
  ASSUME NEW s \in Spools, NEW need \in Guesses, Start(s, need), NEW j \in DOMAIN jobs'
  PROVE  OtherStep(j)
<1>1. need \in Nat
  BY GramsArePositive
<1>2. PICK row : row = [task |-> NoTask, spool |-> s, status |-> "printing",
                        draft |-> FALSE, progress |-> 0, est |-> need,
                        consumed |-> 0, finished |-> FALSE]
  OBVIOUS
<1>3. row \in JobRow /\ StartedByHand(row)
  BY <1>1, <1>2 DEF Start, StartedByHand, JobRow, Live
<1>4. PICK w : w = Reserve([job |-> row, grams |-> grams], s, need)
  OBVIOUS
<1>5. jobs' = PutJob(nextJob, w.job)
  BY <1>2, <1>4 DEF Start
<1>6. StartedByHand(w.job)
  BY <1>3, <1>4, ReserveMoves DEF StartedByHand
<1> QED BY <1>5, <1>6 DEF PutJob, OtherStep

LEMMA ConfirmByHand ==
  ASSUME LedgerOK, NEW k \in DOMAIN jobs, NEW s \in Spools, NEW weight \in Guesses,
         ConfirmDraft(k, s, weight), NEW j \in DOMAIN jobs'
  PROVE  OtherStep(j)
<1>1. weight \in Nat /\ jobs[k] \in JobRow
  BY GramsArePositive DEF LedgerOK, SoundRow
<1>2. PICK row : row = [jobs[k] EXCEPT !.spool = s, !.est = weight, !.consumed = 0,
                                       !.draft = FALSE]
  OBVIOUS
<1>3. row \in JobRow /\ Confirmed(jobs[k], row)
  BY <1>1, <1>2 DEF ConfirmDraft, Confirmed, JobRow
<1>4. PICK w : w = Reserve([job |-> row, grams |-> grams], s, weight)
  OBVIOUS
<1>5. jobs' = PutJob(k, w.job)
  BY <1>2, <1>4 DEF ConfirmDraft
<1>6. Confirmed(jobs[k], w.job)
  BY <1>3, <1>4, ReserveMoves DEF Confirmed
<1> QED BY <1>5, <1>6 DEF PutJob, OtherStep

LEMMA ClockMoves ==
  ASSUME LedgerOK, RuntimeSync, NEW j \in DOMAIN jobs'
  PROVE  OtherStep(j)
<1> DEFINE running == {k \in DOMAIN jobs : jobs[k].task = NoTask
                                           /\ jobs[k].status = "printing"}
           Tick(row, pct) == IF pct = 100
                             THEN [Close(row, "completed") EXCEPT !.progress = 100]
                             ELSE [row EXCEPT !.progress = pct]
<1>1. PICK clock \in [running -> Percents] :
        jobs' = [k \in DOMAIN jobs |-> IF k \in running THEN Tick(jobs[k], clock[k])
                                        ELSE jobs[k]]
  BY DEF RuntimeSync
<1>2. j \in DOMAIN jobs /\ jobs[j] \in JobRow
  BY <1>1 DEF LedgerOK, SoundRow
<1>3. CASE j \notin running
  BY <1>1, <1>2, <1>3 DEF OtherStep
<1>4. CASE j \in running /\ clock[j] = 100
  <2>1. PICK shut : shut = Close(jobs[j], "completed")
    OBVIOUS
  <2>2. PICK row : row = [shut EXCEPT !.progress = 100]
    OBVIOUS
  <2>3. jobs'[j] = row
    BY <1>1, <1>2, <1>4, <2>1, <2>2
  <2>4. /\ shut \in JobRow /\ shut.task = jobs[j].task /\ shut.spool = jobs[j].spool
        /\ shut.status = "completed" /\ ~shut.draft
    BY <1>2, <2>1 DEF Close, JobRow, Terminal
  <2>5. /\ row.task = shut.task /\ row.spool = shut.spool
        /\ row.status = shut.status /\ row.draft = shut.draft
    BY <2>2, <2>4 DEF JobRow
  <2> QED BY <1>2, <1>4, <2>3, <2>4, <2>5 DEF OtherStep, Clocked
<1>5. CASE j \in running /\ clock[j] # 100
  <2>1. PICK row : row = [jobs[j] EXCEPT !.progress = clock[j]]
    OBVIOUS
  <2>2. jobs'[j] = row
    BY <1>1, <1>2, <1>5, <2>1
  <2>3. /\ row.task = jobs[j].task /\ row.spool = jobs[j].spool
        /\ row.status = jobs[j].status /\ row.draft = jobs[j].draft
        /\ row.finished = jobs[j].finished
    BY <1>2, <2>1 DEF JobRow
  <2> QED BY <1>2, <1>5, <2>2, <2>3 DEF OtherStep, Clocked
<1> QED BY <1>3, <1>4, <1>5

LEMMA PauseMoves ==
  ASSUME LedgerOK, NEW k \in DOMAIN jobs, PauseOpen(k), NEW j \in DOMAIN jobs'
  PROVE  OtherStep(j)
<1>1. PICK status \in Live : jobs' = PutJob(k, [jobs[k] EXCEPT !.status = status])
  BY DEF PauseOpen, Pause, Resume, Live
<1>2. jobs[k] \in JobRow /\ jobs[k].status \notin Terminal
  BY DEF LedgerOK, SoundRow, PauseOpen
<1>3. Repaused(jobs[k], [jobs[k] EXCEPT !.status = status])
  BY <1>2 DEF Repaused, JobRow, Live, Terminal
<1> QED BY <1>1, <1>3 DEF PutJob, OtherStep

LEMMA OthersStep ==
  ASSUME Sound, PeopleNext \/ RuntimeSync \/ PrinterNext, NEW j \in DOMAIN jobs'
  PROVE  OtherStep(j)
<1>1. LedgerOK
  BY SoundParts
<1>2. ASSUME UNCHANGED jobs PROVE OtherStep(j)
  BY <1>2 DEF OtherStep
<1>3. CASE RuntimeSync
  BY <1>1, <1>3, ClockMoves
<1>4. CASE PrinterNext
  BY <1>2, <1>4 DEF PrinterNext, PrinterStep, ClearPlate, Relink, BeginPrint
<1>5. CASE PeopleNext
  <2>1. ASSUME NEW s \in Spools, CreateSpool(s) \/ DeleteSpool(s) PROVE OtherStep(j)
    BY <1>2, <2>1 DEF CreateSpool, DeleteSpool
  <2>2. ASSUME NEW s \in Spools, NEW n \in Counts, UpdateRemaining(s, n) \/ Consume(s, n)
        PROVE OtherStep(j)
    BY <1>2, <2>2 DEF UpdateRemaining, Consume
  <2>3. ASSUME NEW k \in DOMAIN jobs, Delete(k) PROVE OtherStep(j)
    BY <2>3 DEF Delete, OtherStep
  <2> QED BY <1>1, <1>5, <2>1, <2>2, <2>3, StartByHand, ConfirmByHand, PauseMoves
          DEF PeopleNext
<1> QED BY <1>3, <1>4, <1>5
-----------------------------------------------------------------------------
(* One open job per task.                                                  *)

\* Of the rows of one task only the newest may be open: a poll looks at the
\* newest alone (GetByExternalTaskID), so this is what keeps the others shut.
OlderAreClosed ==
  \A i, k \in DOMAIN jobs :
    (i < k /\ jobs[i].task = jobs[k].task /\ jobs[k].task \in Tasks)
      => jobs[i].status \in Terminal

LEMMA InitIsSingle == Init => OlderAreClosed
BY DEF Init, OlderAreClosed

\* No step but a poll opens a row of a task.
LEMMA OthersKeepSingle ==
  ASSUME Sound, OlderAreClosed, KeepsClosed, PeopleNext \/ RuntimeSync \/ PrinterNext
  PROVE  OlderAreClosed'
<1>1. ASSUME NEW j \in DOMAIN jobs', jobs'[j].task \in Tasks
      PROVE  j \in DOMAIN jobs /\ jobs'[j].task = jobs[j].task
  <2>1. OtherStep(j) /\ jobs'[j].task # NoTask
    BY <1>1, OthersStep, NamesAreDistinct
  <2> QED BY <2>1 DEF OtherStep, Confirmed, Clocked, Repaused, StartedByHand
<1>2. ASSUME NEW i \in DOMAIN jobs', NEW k \in DOMAIN jobs', i < k,
             jobs'[i].task = jobs'[k].task, jobs'[k].task \in Tasks
      PROVE  jobs'[i].status \in Terminal
  <2>1. i \in DOMAIN jobs /\ k \in DOMAIN jobs /\ jobs[i].task = jobs[k].task
        /\ jobs[k].task \in Tasks
    BY <1>1, <1>2
  <2>2. jobs[i].status \in Terminal
    BY <1>2, <2>1 DEF OlderAreClosed
  <2> QED BY <1>2, <2>1, <2>2 DEF KeepsClosed
<1> QED BY <1>2 DEF OlderAreClosed

\* A poll opens a row only when the newest of the task is closed.
LEMMA PollKeepsSingle ==
  ASSUME Sound, OlderAreClosed, KeepsClosed, PollNext
  PROVE  OlderAreClosed'
<1>1. PICK j, old, row :
        /\ jobs' = PutJob(j, row) /\ Follows(old, row, Snapshot(onPlate))
        /\ old.task = Snapshot(onPlate).id
        /\ \/ j \in DOMAIN jobs /\ old = jobs[j]
           \/ j = nextJob /\ OpensNewJob(Snapshot(onPlate))
  BY PollFollows
<1>2. PICK snap \in SnapshotType : snap = Snapshot(onPlate)
  BY SnapshotIsTyped, SoundParts DEF PollNext
<1>3. row.task = old.task
  BY <1>1 DEF Follows
<1>4. DOMAIN jobs' = DOMAIN jobs \cup {j} /\ jobs'[j] = row
      /\ \A k \in DOMAIN jobs : k # j => jobs'[k] = jobs[k]
  BY <1>1 DEF PutJob
<1>5. CASE j \in DOMAIN jobs /\ old = jobs[j]
  <2>1. DOMAIN jobs' = DOMAIN jobs
        /\ \A k \in DOMAIN jobs : jobs'[k].task = jobs[k].task
    BY <1>3, <1>4, <1>5
  <2>2. ASSUME NEW i \in DOMAIN jobs', NEW k \in DOMAIN jobs', i < k,
               jobs'[i].task = jobs'[k].task, jobs'[k].task \in Tasks
        PROVE  jobs'[i].status \in Terminal
    <3>1. jobs[i].status \in Terminal
      BY <2>1, <2>2 DEF OlderAreClosed
    <3> QED BY <2>1, <2>2, <3>1 DEF KeepsClosed
  <2> QED BY <2>2 DEF OlderAreClosed
<1>6. CASE j = nextJob /\ OpensNewJob(snap) /\ old.task = snap.id
  <2>1. \A k \in DOMAIN jobs : k \in Int /\ k < j
    BY <1>6, SoundParts DEF LedgerOK
  <2>3. ASSUME NEW i \in DOMAIN jobs, jobs[i].task = snap.id
        PROVE  jobs[i].status \in Terminal
    <3>1. CASE i \in Newest(snap.id)
      BY <1>6, <3>1 DEF OpensNewJob
    <3>2. CASE i \notin Newest(snap.id)
      <4>1. PICK k \in JobsOf(snap.id) : ~(k <= i)
        BY <2>3, <3>2 DEF Newest, JobsOf
      <4>2. k \in DOMAIN jobs /\ jobs[k].task = snap.id /\ i < k
        BY <2>1, <4>1 DEF JobsOf
      <4>3. snap.id \in Tasks
        BY DEF SnapshotType
      <4> QED BY <2>3, <4>2, <4>3 DEF OlderAreClosed
    <3> QED BY <3>1, <3>2
  <2>4. ASSUME NEW i \in DOMAIN jobs', NEW k \in DOMAIN jobs', i < k,
               jobs'[i].task = jobs'[k].task, jobs'[k].task \in Tasks
        PROVE  jobs'[i].status \in Terminal
    <3>1. i \in DOMAIN jobs /\ jobs'[i] = jobs[i]
      <4>1. i # j
        BY <1>4, <1>6, <2>1, <2>4, SoundParts DEF LedgerOK
      <4> QED BY <1>4, <4>1
    <3>2. CASE k = j
      BY <1>3, <1>4, <1>6, <2>3, <2>4, <3>1, <3>2
    <3>3. CASE k # j
      BY <1>4, <2>4, <3>1, <3>3 DEF OlderAreClosed
    <3> QED BY <3>2, <3>3
  <2> QED BY <2>4 DEF OlderAreClosed
<1> QED BY <1>1, <1>2, <1>5, <1>6

Single == Sound /\ OlderAreClosed

LEMMA SingleHolds == CoreSpec => []Single
<1>1. Init => Single
  BY InitIsSound, InitIsSingle DEF Single
<1>2. Single /\ [CoreNext]_vars => Single'
  <2> SUFFICES ASSUME Single, [CoreNext]_vars PROVE Single'
    OBVIOUS
  <2> USE DEF Single
  <2>1. Sound'
    BY StepIsSound DEF Next
  <2>2. CASE CoreNext
    <3>1. KeepsClosed
      BY <2>2, CoreStepKeepsClosed
    <3> QED BY <2>1, <2>2, <3>1, OthersKeepSingle, PollKeepsSingle DEF CoreNext
  <2>3. CASE UNCHANGED vars
    BY <2>1, <2>3 DEF vars, OlderAreClosed
  <2> QED BY <2>2, <2>3
<1> QED BY <1>1, <1>2, PTL DEF CoreSpec

\* Polls under one task id map to one open job, for any prints, ids, feeds and
\* interleaving of polls, people, reprints and changes of the connection.
THEOREM OneOpenJobPerTaskHolds == CoreSpec => []OneOpenJobPerTask
<1>1. CoreSpec => []Single
  BY SingleHolds
<1>2. Single => OneOpenJobPerTask
  <2> SUFFICES ASSUME Single, NEW i \in DOMAIN jobs, NEW k \in DOMAIN jobs,
                      jobs[i].task = jobs[k].task, jobs[i].task \in Tasks,
                      {jobs[i].status, jobs[k].status} \cap Terminal = {}
               PROVE  i = k
    BY DEF OneOpenJobPerTask
  <2> USE DEF Single
  <2>1. i \in Int /\ k \in Int
    BY SoundParts DEF LedgerOK
  <2>2. ~(i < k) /\ ~(k < i)
    BY DEF OlderAreClosed
  <2> QED BY <2>1, <2>2
<1> QED BY <1>1, <1>2, PTL
-----------------------------------------------------------------------------
(* A completed cloud print is charged its weight.                          *)

\* The ids of a print are those of no other print, of no device and no manual job.
LEMMA TasksOfPrint ==
  ASSUME NEW p \in Prints
  PROVE  /\ NoTask \notin PrintTasks(p) /\ DeviceTask \notin PrintTasks(p)
         /\ \A q \in Prints : TaskId(q) \in PrintTasks(p) => p = q /\ feed # "offline"
<1>1. PrintTasks(p) \subseteq Tasks
  BY DEF PrintTasks, Tasks
<1>2. DeviceTask \notin PrintTasks(p) /\ NoTask \notin Tasks
  BY NamesAreDistinct
<1>3. ASSUME NEW q \in Prints, TaskId(q) \in PrintTasks(p)
      PROVE  p = q /\ feed # "offline"
  <2>1. feed # "offline"
    BY <1>2, <1>3 DEF TaskId
  <2>2. TaskId(q).print = q
    BY <2>1 DEF TaskId
  <2>3. TaskId(q).print = p
    BY <1>3 DEF PrintTasks
  <2> QED BY <2>1, <2>2, <2>3
<1> QED BY <1>1, <1>2, <1>3

\* What a row keeps true: its spool is on the shelf, a finished row is closed
\* and linked for good, and a completed print has paid for itself.
Paid(r) ==
  /\ r.spool \in stocked \cup {NoSpool}
  /\ r.finished => ~r.draft /\ r.status \in Terminal
  /\ \A p \in Prints :
       (r.finished /\ r.status = "completed" /\ r.task \in PrintTasks(p) /\ r.spool # NoSpool)
         => r.consumed = TaskWeight[p]

AllPaid == \A j \in DOMAIN jobs : Paid(jobs[j])

\* Without DeleteSpool the shelf only fills.
LEMMA ShelfGrows ==
  ASSUME Sound, CoreNext, DeletableSpools = {}
  PROVE  stocked \subseteq stocked'
<1> USE DEF stockVars, printerVars
<1>1. CASE PollNext \/ RuntimeSync \/ PrinterNext
  BY <1>1 DEF PollNext, Poll, RuntimeSync, PrinterNext, PrinterStep, ClearPlate,
              Relink, BeginPrint
<1>2. CASE PeopleNext
  <2>1. ASSUME NEW s \in Spools, CreateSpool(s) \/ DeleteSpool(s)
        PROVE  stocked \subseteq stocked'
    BY <2>1 DEF CreateSpool, DeleteSpool
  <2>2. ASSUME NEW s \in Spools, NEW n \in Counts, UpdateRemaining(s, n) \/ Consume(s, n)
        PROVE  stocked \subseteq stocked'
    BY <2>2 DEF UpdateRemaining, Consume
  <2>3. CASE \/ \E s \in Spools, need \in Guesses : Start(s, need)
             \/ \E j \in DOMAIN jobs : Delete(j) \/ PauseOpen(j)
             \/ \E j \in DOMAIN jobs, s \in Spools, weight \in Guesses :
                  ConfirmDraft(j, s, weight)
    BY <2>3 DEF Start, Delete, ConfirmDraft, PauseOpen, Pause, Resume
  <2> QED BY <1>2, <2>1, <2>2, <2>3 DEF PeopleNext
<1> QED BY <1>1, <1>2 DEF CoreNext

LEMMA OthersKeepPaid ==
  ASSUME Sound, AllPaid, stocked \subseteq stocked',
         PeopleNext \/ RuntimeSync \/ PrinterNext
  PROVE  AllPaid'
<1>1. ASSUME NEW j \in DOMAIN jobs'
      PROVE  LET r == jobs'[j] IN
             /\ r.spool \in stocked' \cup {NoSpool}
             /\ r.finished => ~r.draft /\ r.status \in Terminal
             /\ \A p \in Prints :
                  (/\ r.finished /\ r.status = "completed"
                   /\ r.task \in PrintTasks(p) /\ r.spool # NoSpool)
                    => r.consumed = TaskWeight[p]
  <2>1. OtherStep(j)
    BY <1>1, OthersStep
  <2>2. \A p \in Prints : NoTask \notin PrintTasks(p)
    BY TasksOfPrint
  <2>3. CASE j \in DOMAIN jobs /\ jobs'[j] = jobs[j]
    BY <2>3 DEF AllPaid, Paid
  <2>4. CASE j \in DOMAIN jobs /\ Confirmed(jobs[j], jobs'[j])
    BY <2>4 DEF AllPaid, Paid, Confirmed
  <2>5. CASE j \in DOMAIN jobs /\ Clocked(jobs[j], jobs'[j])
    BY <2>2, <2>5 DEF AllPaid, Paid, Clocked, Terminal
  <2>6. CASE StartedByHand(jobs'[j])
    BY <2>2, <2>6 DEF StartedByHand
  <2>7. CASE j \in DOMAIN jobs /\ Repaused(jobs[j], jobs'[j])
    BY <2>7 DEF AllPaid, Paid, Repaused
  <2> QED BY <2>1, <2>3, <2>4, <2>5, <2>6, <2>7 DEF OtherStep
<1> QED BY <1>1 DEF AllPaid, Paid

\* The last poll of a print charges what the cloud weighed; the polls after it
\* change nothing.
LEMMA PollKeepsPaid ==
  ASSUME Sound, AllPaid, PollNext, stocked \subseteq stocked',
         Feeds \subseteq {"mqtt", "rest", "offline"}
  PROVE  AllPaid'
<1>1. PICK j, old, row :
        /\ jobs' = PutJob(j, row) /\ Follows(old, row, Snapshot(onPlate))
        /\ old.task = Snapshot(onPlate).id
        /\ \/ j \in DOMAIN jobs /\ old = jobs[j]
           \/ /\ j = nextJob /\ OpensNewJob(Snapshot(onPlate))
              /\ ~old.finished /\ old.spool \in Matches
  BY PollFollows
<1>2. PICK snap \in SnapshotType : snap = Snapshot(onPlate)
  BY SnapshotIsTyped, SoundParts DEF PollNext
<1>3. /\ old.spool \in stocked \cup {NoSpool}
      /\ \/ Paid(old)
         \/ ~old.finished
  BY <1>1 DEF AllPaid, Paid, Matches
<1>4. /\ row.task = old.task /\ row.spool \in stocked \cup {NoSpool}
  BY <1>1, <1>3 DEF Follows, Matches
<1>5. ASSUME NEW p \in Prints, row.task \in PrintTasks(p)
      PROVE  snap.weight = TaskWeight[p] /\ snap.weight > 0
  <2>1. PrinterOK
    BY SoundParts
  <2>2. onPlate \in Prints /\ feed \in {"mqtt", "rest", "offline"}
    BY <2>1 DEF PrinterOK, PollNext
  <2>3. row.task = TaskId(onPlate)
    BY <1>1, <1>2, <1>4 DEF Snapshot
  <2>4. p = onPlate /\ feed # "offline"
    BY <1>5, <2>2, <2>3, TasksOfPrint
  <2>5. snap.weight = TaskWeight[onPlate]
    BY <1>2, <2>2, <2>4 DEF Snapshot
  <2>6. TaskWeight[onPlate] \in Nat \ {0}
    BY <2>2, GramsArePositive
  <2> QED BY <2>4, <2>5, <2>6
<1>6. Paid(row)
  <2>1. CASE old.status \in Terminal
    <3>1. row.status = old.status /\ row.finished = old.finished
      BY <1>1, <2>1 DEF Follows
    <3>2. CASE ~old.finished
      BY <1>4, <3>1, <3>2 DEF Paid
    <3>3. CASE old.finished
      <4>1. ~old.draft /\ Paid(old)
        BY <1>3, <3>3 DEF Paid
      <4>2. /\ ~row.draft /\ row.spool = old.spool
            /\ old.consumed = snap.weight => row.consumed = snap.weight
        BY <1>1, <1>2, <2>1, <4>1 DEF Follows
      <4> QED BY <1>4, <1>5, <2>1, <3>1, <4>1, <4>2 DEF Paid
    <3> QED BY <3>2, <3>3
  <2>2. CASE old.status \notin Terminal
    <3>1. ~old.finished
      BY <1>3, <2>2 DEF Paid
    <3>2. \/ row.finished = old.finished
          \/ /\ row.finished /\ ~row.draft /\ row.status \in Terminal
             /\ (/\ row.status = "completed" /\ snap.weight > 0
                 /\ row.spool # NoSpool /\ row.spool \in stocked)
                  => row.consumed = snap.weight
      BY <1>1, <1>2, <2>2 DEF Follows
    <3> QED BY <1>4, <1>5, <3>1, <3>2 DEF Paid
  <2> QED BY <2>1, <2>2
<1>7. ASSUME NEW k \in DOMAIN jobs'
      PROVE  Paid(jobs'[k])
  <2>1. CASE k = j
    BY <1>1, <1>6, <2>1 DEF PutJob
  <2>2. CASE k # j
    BY <1>1, <2>2 DEF PutJob, AllPaid
  <2> QED BY <2>1, <2>2
<1> QED BY <1>7 DEF AllPaid, Paid

\* A cloud print that completed is charged the weight the cloud gives for it,
\* for any spools, weights, prints and people, as long as the cloud is what the
\* polls see, with the printer on line or off, and no spool is deleted.
THEOREM CompletedJobChargedHolds ==
  ASSUME DeletableSpools = {}, Feeds \subseteq {"mqtt", "rest", "offline"}
  PROVE  CoreSpec => []CompletedJobCharged
<1>1. Init => Sound /\ AllPaid
  BY InitIsSound DEF Init, AllPaid
<1>2. Sound /\ AllPaid /\ [CoreNext]_vars => (Sound /\ AllPaid)'
  <2> SUFFICES ASSUME Sound, AllPaid, [CoreNext]_vars PROVE Sound' /\ AllPaid'
    OBVIOUS
  <2>1. Sound'
    BY StepIsSound DEF Next
  <2>2. CASE CoreNext
    <3>1. stocked \subseteq stocked'
      BY <2>2, ShelfGrows
    <3> QED BY <2>1, <2>2, <3>1, OthersKeepPaid, PollKeepsPaid DEF CoreNext
  <2>3. CASE UNCHANGED vars
    BY <2>1, <2>3 DEF vars, AllPaid, Paid
  <2> QED BY <2>2, <2>3
<1>3. AllPaid => CompletedJobCharged
  BY DEF AllPaid, Paid, CompletedJobCharged
<1> QED BY <1>1, <1>2, <1>3, PTL DEF CoreSpec
-----------------------------------------------------------------------------
(* A failed print keeps no more than it extruded.                          *)

\* A finished row is closed and linked for good; if its print failed, the
\* printer is past it, and what the row holds has left the nozzle.
Stopped(r) ==
  /\ r.finished => ~r.draft /\ r.status \in Terminal
  /\ \A p \in Prints :
       (/\ r.finished /\ r.status = "failed" /\ r.task \in PrintTasks(p)
        /\ plate[p].run <= 1)
         => plate[p].state \in Terminal /\ r.consumed <= Extruded(r.est, plate[p].done)

AllStopped == \A j \in DOMAIN jobs : Stopped(jobs[j])

\* A print that is over stays as it is, or begins another run.
PlateKeeps ==
  \A p \in Prints :
    plate[p].state \in Terminal =>
      \/ plate'[p].run > 1
      \/ /\ plate'[p].run = plate[p].run /\ plate'[p].state = plate[p].state
         /\ plate'[p].done = plate[p].done

\* A print that has not begun stays so, or begins its first run.
PlateBegins ==
  \A p \in Prints :
    plate'[p].run <= 1 => plate[p].run <= 1

LEMMA CoreStepKeepsPlate ==
  ASSUME Sound, CoreNext
  PROVE  PlateKeeps /\ PlateBegins
<1> USE DEF printerVars
<1>0. PrinterOK
  BY SoundParts
<1>1. CASE PollNext \/ PeopleNext \/ RuntimeSync
  <2>1. UNCHANGED plate
    BY <1>1 DEF PollNext, Poll, PeopleNext, CreateSpool, DeleteSpool, UpdateRemaining,
                Consume, Start, Delete, PauseOpen, Pause, Resume, ConfirmDraft, RuntimeSync
  <2> QED BY <2>1 DEF PlateKeeps, PlateBegins
<1>2. ASSUME NEW p \in Prints, BeginPrint(p) PROVE PlateKeeps /\ PlateBegins
  <2>1. /\ plate'[p].run = plate[p].run + 1 /\ plate[p].run \in Nat
        /\ plate[p].state \in Terminal => plate[p].run # 0
        /\ \A q \in Prints : q # p => plate'[q] = plate[q]
    BY <1>0, <1>2 DEF BeginPrint, PrinterOK, PlateRow, Terminal
  <2>2. ASSUME NEW q \in Prints
        PROVE  /\ plate'[q].run <= 1 => plate[q].run <= 1
               /\ plate[q].state \in Terminal =>
                    \/ plate'[q].run > 1
                    \/ /\ plate'[q].run = plate[q].run /\ plate'[q].state = plate[q].state
                       /\ plate'[q].done = plate[q].done
    BY <2>1, <2>2
  <2> QED BY <2>2 DEF PlateKeeps, PlateBegins
<1>3. CASE PrinterStep
  <2> DEFINE now == plate[onPlate]
  <2>1. onPlate \in Prints /\ now \in PlateRow
    BY <1>0, <1>3 DEF PrinterStep, PrinterOK
  <2>2. \A q \in Prints : q # onPlate => plate'[q] = plate[q]
    BY <1>0, <1>3 DEF PrinterStep, PrinterOK
  <2>3. CASE now.state \notin Terminal
    <3>1. plate'[onPlate].run = now.run
      BY <1>0, <1>3, <2>1 DEF PrinterStep, PrinterOK, PlateRow
    <3> QED BY <2>2, <2>3, <3>1 DEF PlateKeeps, PlateBegins
  <2>4. CASE now.state \in Terminal
    <3>1. plate' = [plate EXCEPT ![onPlate].start = now.run]
      BY <1>3, <2>4 DEF PrinterStep, Moves, Live, Terminal
    <3>2. /\ plate'[onPlate].run = now.run /\ plate'[onPlate].state = now.state
          /\ plate'[onPlate].done = now.done
      BY <1>0, <2>1, <3>1 DEF PrinterOK, PlateRow
    <3> QED BY <2>2, <3>2 DEF PlateKeeps, PlateBegins
  <2> QED BY <2>3, <2>4
<1>4. CASE ClearPlate \/ Relink
  BY <1>4 DEF ClearPlate, Relink, PlateKeeps, PlateBegins
<1> QED BY <1>1, <1>2, <1>3, <1>4 DEF CoreNext, PrinterNext

\* A row that is not written stays stopped.
LEMMA UnwrittenStaysStopped ==
  ASSUME PrinterOK', PlateKeeps, PlateBegins, NEW r, Stopped(r)
  PROVE  /\ r.finished => ~r.draft /\ r.status \in Terminal
         /\ \A p \in Prints :
              (/\ r.finished /\ r.status = "failed" /\ r.task \in PrintTasks(p)
               /\ plate'[p].run <= 1)
                => plate'[p].state \in Terminal /\ r.consumed <= Extruded(r.est, plate'[p].done)
<1>1. ASSUME NEW p \in Prints, r.finished, r.status = "failed", r.task \in PrintTasks(p),
             plate'[p].run <= 1
      PROVE  plate'[p].state \in Terminal /\ r.consumed <= Extruded(r.est, plate'[p].done)
  <2>1. plate[p].state \in Terminal /\ r.consumed <= Extruded(r.est, plate[p].done)
    BY <1>1 DEF PlateBegins, Stopped
  <2>2. plate'[p].run \in Nat
    BY DEF PrinterOK, PlateRow
  <2> QED BY <1>1, <2>1, <2>2 DEF PlateKeeps
<1> QED BY <1>1 DEF Stopped

LEMMA OthersKeepStopped ==
  ASSUME Sound, Sound', AllStopped, PlateKeeps, PlateBegins,
         PeopleNext \/ RuntimeSync \/ PrinterNext
  PROVE  AllStopped'
<1>1. ASSUME NEW j \in DOMAIN jobs'
      PROVE  LET r == jobs'[j] IN
             /\ r.finished => ~r.draft /\ r.status \in Terminal
             /\ \A p \in Prints :
                  (/\ r.finished /\ r.status = "failed" /\ r.task \in PrintTasks(p)
                   /\ plate'[p].run <= 1)
                    => /\ plate'[p].state \in Terminal
                       /\ r.consumed <= Extruded(r.est, plate'[p].done)
  <2>1. OtherStep(j)
    BY <1>1, OthersStep
  <2>2. \A p \in Prints : NoTask \notin PrintTasks(p)
    BY TasksOfPrint
  <2>3. CASE j \in DOMAIN jobs /\ jobs'[j] = jobs[j]
    <3>1. Stopped(jobs[j])
      BY <2>3 DEF AllStopped
    <3>2. PrinterOK'
      BY DEF Sound, TypeOK, PrinterOK
    <3> QED BY <2>3, <3>1, <3>2, UnwrittenStaysStopped
  <2>4. CASE j \in DOMAIN jobs /\ Confirmed(jobs[j], jobs'[j])
    <3>1. ~jobs'[j].finished
      BY <2>4 DEF AllStopped, Stopped, Confirmed
    <3> QED BY <3>1
  <2>5. CASE j \in DOMAIN jobs /\ Clocked(jobs[j], jobs'[j])
    BY <2>2, <2>5 DEF AllStopped, Stopped, Clocked, Terminal
  <2>6. CASE StartedByHand(jobs'[j])
    BY <2>6 DEF StartedByHand
  <2>7. CASE j \in DOMAIN jobs /\ Repaused(jobs[j], jobs'[j])
    BY <2>7 DEF AllStopped, Stopped, Repaused
  <2> QED BY <2>1, <2>3, <2>4, <2>5, <2>6, <2>7 DEF OtherStep
<1> QED BY <1>1 DEF AllStopped, Stopped

\* The poll that sees the failure returns the rest; the polls after it, which
\* bring no weight, change nothing.
LEMMA PollKeepsStopped ==
  ASSUME Sound, AllStopped, PollNext, Feeds \subseteq {"lan", "stale", "offline"}
  PROVE  AllStopped'
<1>1. PICK j, old, row :
        /\ jobs' = PutJob(j, row) /\ Follows(old, row, Snapshot(onPlate))
        /\ \/ j \in DOMAIN jobs /\ old = jobs[j]
           \/ ~old.finished
        /\ old.task = Snapshot(onPlate).id
  BY PollFollows
<1>2. PICK snap \in SnapshotType : snap = Snapshot(onPlate)
  BY SnapshotIsTyped, SoundParts DEF PollNext
<1>3. Stopped(old) \/ ~old.finished
  BY <1>1 DEF AllStopped
<1>4. row.task = old.task
  BY <1>1 DEF Follows
<1>5. /\ onPlate \in Prints /\ feed \in {"lan", "stale", "offline"} /\ plate' = plate
      /\ snap.id = TaskId(onPlate)
      /\ snap.weight = 0 /\ snap.status = plate[onPlate].state
  <2>1. PrinterOK
    BY SoundParts
  <2>2. onPlate \in Prints /\ feed \in {"lan", "stale", "offline"} /\ plate' = plate
    BY <2>1 DEF PrinterOK, PollNext, Poll, printerVars
  <2> QED BY <1>2, <2>2 DEF Snapshot
<1>6. (snap.status = "failed" /\ feed # "offline") => snap.progress = plate[onPlate].done
  <2>1. ASSUME snap.status = "failed", feed # "offline"
        PROVE  snap.progress = plate[onPlate].done
    BY <1>2, <1>5, <2>1 DEF Snapshot, SanitizeJobProgress, Live
  <2> QED BY <2>1
<1>7. \A p \in Prints : row.task \in PrintTasks(p) => p = onPlate /\ feed # "offline"
  BY <1>1, <1>2, <1>4, <1>5, TasksOfPrint
<1>8. Stopped(row)
  <2>1. CASE old.status \in Terminal
    <3>1. row.status = old.status /\ row.finished = old.finished
      BY <1>1, <2>1 DEF Follows
    <3>2. CASE ~old.finished
      BY <3>1, <3>2 DEF Stopped
    <3>3. CASE old.finished
      <4>1. ~old.draft /\ Stopped(old)
        BY <1>3, <3>3 DEF Stopped
      <4>2. ~row.draft /\ row.est = old.est /\ row.consumed = old.consumed
        BY <1>1, <1>2, <1>5, <2>1, <4>1 DEF Follows
      <4> QED BY <1>4, <2>1, <3>1, <4>1, <4>2 DEF Stopped
    <3> QED BY <3>2, <3>3
  <2>2. CASE old.status \notin Terminal
    <3>1. ~old.finished
      BY <1>3, <2>2 DEF Stopped
    <3>2. \/ row.finished = old.finished
          \/ /\ row.finished /\ ~row.draft /\ row.status \in Terminal
             /\ row.status = snap.status
             /\ row.status = "failed" => row.consumed <= Extruded(row.est, snap.progress)
      BY <1>1, <1>2, <2>2 DEF Follows
    <3>3. CASE row.finished = old.finished
      BY <3>1, <3>3 DEF Stopped
    <3>4. CASE row.finished /\ row.finished # old.finished
      <4>1. ~row.draft /\ row.status \in Terminal /\ row.status = plate[onPlate].state
        BY <1>5, <3>1, <3>2, <3>4
      <4>2. (row.status = "failed" /\ feed # "offline")
              => row.consumed <= Extruded(row.est, plate[onPlate].done)
        BY <1>5, <1>6, <3>1, <3>2, <3>4
      <4> QED BY <1>7, <4>1, <4>2 DEF Stopped
    <3> QED BY <3>2, <3>3, <3>4
  <2> QED BY <2>1, <2>2
<1>9. ASSUME NEW k \in DOMAIN jobs'
      PROVE  Stopped(jobs'[k])
  <2>1. CASE k = j
    BY <1>1, <1>8, <2>1 DEF PutJob
  <2>2. CASE k # j
    BY <1>1, <2>2 DEF PutJob, AllStopped
  <2> QED BY <2>1, <2>2
<1> QED BY <1>5, <1>9 DEF AllStopped, Stopped

\* After a print failed, its job keeps no more than the plastic that left the
\* nozzle, for any weights, percents and number of polls, when the printer is
\* seen through the local network (a stale percentage included) or is off line.
\* A poll that brings the cloud's weight takes the rest again: the run cloud_refund
\* shows that.
THEOREM FailedReturnsUnprintedHolds ==
  ASSUME Feeds \subseteq {"lan", "stale", "offline"}
  PROVE  CoreSpec => []FailedReturnsUnprinted
<1>1. Init => Sound /\ AllStopped
  BY InitIsSound DEF Init, AllStopped
<1>2. Sound /\ AllStopped /\ [CoreNext]_vars => (Sound /\ AllStopped)'
  <2> SUFFICES ASSUME Sound, AllStopped, [CoreNext]_vars PROVE Sound' /\ AllStopped'
    OBVIOUS
  <2>1. Sound'
    BY StepIsSound DEF Next
  <2>2. CASE CoreNext
    <3>1. PlateKeeps /\ PlateBegins
      BY <2>2, CoreStepKeepsPlate
    <3> QED BY <2>1, <2>2, <3>1, OthersKeepStopped, PollKeepsStopped DEF CoreNext
  <2>3. CASE UNCHANGED vars
    BY <2>1, <2>3 DEF vars, AllStopped, Stopped
  <2> QED BY <2>2, <2>3
<1>3. AllStopped => FailedReturnsUnprinted
  BY DEF AllStopped, Stopped, FailedReturnsUnprinted
<1> QED BY <1>1, <1>2, <1>3, PTL DEF CoreSpec

\* Only the poll that sees the failure closes a job as failed.
LEMMA CoreStepKeepsPrinted ==
  ASSUME Sound, CoreNext, "rest" \notin Feeds
  PROVE  KeepsPrinted
<1>1. LedgerOK /\ nextJob \notin DOMAIN jobs
  BY SoundParts DEF LedgerOK
<1>2. SUFFICES ASSUME NEW p \in Prints, NEW j \in DOMAIN jobs \cap DOMAIN jobs',
                      jobs[j].status \notin Terminal, jobs'[j].status = "failed",
                      jobs[j].task \in PrintTasks(p)
               PROVE  jobs'[j].consumed >=
                        Lesser(jobs[j].consumed, Extruded(jobs'[j].est, plate[p].done))
  BY DEF KeepsPrinted
<1>3. CASE PeopleNext \/ RuntimeSync \/ PrinterNext
  <2>1. OtherStep(j)
    BY <1>3, OthersStep
  <2> QED BY <1>1, <1>2, <2>1, TasksOfPrint
          DEF OtherStep, Confirmed, Clocked, Repaused, Terminal
<1>4. CASE PollNext
  <2>1. PICK k, old, row :
          /\ jobs' = PutJob(k, row) /\ Follows(old, row, Snapshot(onPlate))
          /\ (k \in DOMAIN jobs /\ old = jobs[k]) \/ k = nextJob
          /\ old.task = Snapshot(onPlate).id
    BY <1>4, PollFollows
  <2>2. PICK snap \in SnapshotType : snap = Snapshot(onPlate)
    BY <1>4, SnapshotIsTyped, SoundParts DEF PollNext
  <2>3. k = j /\ old = jobs[j] /\ jobs'[j] = row
    BY <1>1, <1>2, <2>1 DEF PutJob, Terminal
  <2>4. /\ onPlate \in Prints /\ feed \in {"lan", "stale", "mqtt", "offline"}
        /\ snap.id = TaskId(onPlate)
        /\ snap.status = plate[onPlate].state
    <3>1. PrinterOK
      BY SoundParts
    <3>2. onPlate \in Prints /\ feed \in {"lan", "stale", "mqtt", "offline"}
      BY <1>4, <3>1, OtherConstants DEF PrinterOK, PollNext, AllFeeds, LanFeeds
    <3> QED BY <2>2, <3>2 DEF Snapshot
  <2>5. onPlate = p /\ feed # "offline"
    BY <1>2, <2>1, <2>2, <2>3, <2>4, TasksOfPrint
  <2>6. /\ row.status = snap.status
        /\ ~old.draft => row.consumed >= Lesser(old.consumed,
                                                Extruded(row.est, snap.progress))
    BY <1>2, <2>1, <2>2, <2>3, <2>4 DEF Follows, Live, Terminal
  <2>7. snap.progress = plate[onPlate].done
    BY <1>2, <2>2, <2>3, <2>4, <2>5, <2>6 DEF Snapshot, SanitizeJobProgress, Live
  <2>8. CASE ~old.draft
    BY <2>3, <2>5, <2>6, <2>7, <2>8
  <2>9. CASE old.draft
    <3>1. old.consumed = 0
      BY <1>1, <2>3, <2>9 DEF LedgerOK, SoundRow
    <3>2. LedgerOK'
      BY SoundParts, LedgerStep DEF Next
    <3>3. row.consumed \in Nat /\ row.est \in Nat
      BY <1>2, <2>3, <3>2 DEF LedgerOK, SoundRow, JobRow
    <3>4. Extruded(row.est, snap.progress) \in Nat
      BY <3>3, ExtrudedIsNat DEF SnapshotType
    <3> QED BY <2>3, <2>5, <2>7, <3>1, <3>3, <3>4 DEF Lesser
  <2> QED BY <2>8, <2>9
<1> QED BY <1>3, <1>4 DEF CoreNext

\* Closing a job as failed returns nothing that was printed, also when the same
\* poll brings another weight: what is extruded stays charged, rounding and stale
\* percentages included, unless a poll sees the cloud's task list alone, which has
\* no percentage.
THEOREM StopKeepsPrintedGramsHolds ==
  ASSUME "rest" \notin Feeds
  PROVE  CoreSpec => StopKeepsPrintedGrams
<1>1. Init => Sound
  BY InitIsSound
<1>2. Sound /\ [CoreNext]_vars => Sound'
  BY StepIsSound DEF Next
<1>3. Sound /\ [CoreNext]_vars => [KeepsPrinted]_vars
  BY CoreStepKeepsPrinted
<1> QED BY <1>1, <1>2, <1>3, PTL DEF CoreSpec, StopKeepsPrintedGrams
-----------------------------------------------------------------------------
(* What polls bring about.                                                 *)

\* A poll looks at the one open row of the task it sees.
LEMMA PollMeetsOpenRow ==
  ASSUME Single, PollNext,
         NEW j \in JobsOf(TaskId(onPlate)), jobs[j].status \notin Terminal
  PROVE  \E match \in Matches :
           SyncRow(j, [job |-> jobs[j], grams |-> grams], Snapshot(onPlate), match)
<1>1. LedgerOK /\ PrinterOK
  BY SoundParts DEF Single
<1>2. onPlate \in Prints /\ plate[onPlate].start \in 0..MaxRuns
  BY <1>1 DEF PrinterOK, PollNext, PlateRow
<1>3. PICK snap : snap = Snapshot(onPlate) /\ Poll(snap)
  BY DEF PollNext
<1>4. snap.id = TaskId(onPlate) /\ snap.id \in Tasks
  BY <1>2, <1>3, TaskIdIsTask DEF Snapshot
<1>5. j \in Newest(snap.id)
  <2>1. ASSUME NEW k \in JobsOf(snap.id) PROVE k <= j
    <3>1. k \in DOMAIN jobs /\ j \in DOMAIN jobs /\ k \in Int /\ j \in Int
      BY <1>1, <1>4 DEF JobsOf, LedgerOK
    <3>2. ~(j < k)
      BY <1>4, <3>1 DEF Single, OlderAreClosed, JobsOf
    <3> QED BY <3>1, <3>2
  <2> QED BY <1>4, <2>1 DEF Newest
<1>6. ~OpensNewJob(snap)
  BY <1>5 DEF OpensNewJob
<1>7. \A k \in Newest(snap.id) : k = j
  <2>1. \A k \in Newest(snap.id) : k <= j /\ j <= k
    BY <1>5 DEF Newest
  <2>2. \A k \in Newest(snap.id) \cup {j} : k \in Int
    BY <1>1, <1>5 DEF Newest, JobsOf, LedgerOK
  <2> QED BY <2>1, <2>2
<1> QED BY <1>3, <1>6, <1>7 DEF Poll, SyncNew, SyncExisting

\* The first poll that gets through to a job whose print ended closes it.
LEMMA PollClosesEnded ==
  ASSUME Single, PollNext,
         NEW p \in Prints, NEW j \in JobIds, LeftOpen(p, j)
  PROVE  ~LeftOpen(p, j)'
<1>1. /\ onPlate = p /\ plate[p].state \in Terminal
      /\ j \in JobsOf(TaskId(onPlate)) /\ jobs[j].status \notin Terminal
  BY DEF LeftOpen, OpenAfter, JobsOf
<1>2. PICK match \in Matches :
        SyncRow(j, [job |-> jobs[j], grams |-> grams], Snapshot(onPlate), match)
  BY <1>1, PollMeetsOpenRow
<1>3. PICK snap \in SnapshotType : snap = Snapshot(onPlate)
  BY SnapshotIsTyped, SoundParts DEF PollNext, Single
<1>4. SoundWork([job |-> jobs[j], grams |-> grams]) /\ ShopOK
  BY <1>1, SoundParts DEF Single, LedgerOK, SoundWork, JobsOf
<1>5. PICK row : jobs' = PutJob(j, row) /\ Follows(jobs[j], row, snap)
  BY <1>2, <1>3, <1>4, SyncRowFollows
<1>6. snap.status \in Terminal
  BY <1>1, <1>3 DEF Snapshot
<1>7. row.status \in Terminal
  BY <1>1, <1>5, <1>6 DEF Follows, Live, Terminal
<1>8. jobs'[j].status \in Terminal
  BY <1>5, <1>7 DEF PutJob
<1> QED BY <1>8 DEF LeftOpen, OpenAfter

\* A job whose print ended is closed while the printer still shows that print
\* under the id of the job, for any spools, weights, prints, feeds and people, as
\* long as the polls get through to the job.  A job of another id of the print
\* is left as it is: the run offline_close shows that.
THEOREM EndedPrintIsClosedHolds == FairSpec /\ []EndIsPolled => EndedPrintIsClosed
<1> DEFINE Closes(p, j) == LeftOpen(p, j) ~> ~LeftOpen(p, j)
<1>1. ASSUME NEW p \in Prints, NEW j \in JobIds
      PROVE  FairSpec /\ []EndIsPolled => Closes(p, j)
  <2>1. CoreSpec => []Single
    BY SingleHolds
  <2>2. EndIsPolled /\ LeftOpen(p, j) => ENABLED <<PollNext>>_vars
    BY DEF EndIsPolled
  <2>3. Single /\ LeftOpen(p, j) /\ <<PollNext>>_vars => ~LeftOpen(p, j)'
    BY PollClosesEnded
  <2> QED BY <2>1, <2>2, <2>3, PTL DEF FairSpec
<1>2. FairSpec /\ []EndIsPolled => \A p \in Prints, j \in JobIds : Closes(p, j)
  BY <1>1
<1>3. EndedPrintIsClosed <=> \A p \in Prints, j \in JobIds : Closes(p, j)
  BY DEF EndedPrintIsClosed
<1> QED BY <1>2, <1>3

\* applyJobWeight: a job is brought to the weight, or its spool is empty.
LEMMA WeightTopsUp ==
  ASSUME NEW w, SoundWork(w), NEW weight \in Nat \ {0},
         ~w.job.draft, w.job.spool \in Spools
  PROVE  LET u == ApplyJobWeight(w, weight) IN
         u.job.consumed >= u.job.est \/ u.grams[w.job.spool] = 0
<1> DEFINE row == [w.job EXCEPT !.est = weight]
<1>1. w.job \in JobRow /\ w = [job |-> w.job, grams |-> w.grams] /\ w.grams \in Stock
  BY DEF SoundWork, SoundRow
<1>2. /\ row \in JobRow /\ row.consumed = w.job.consumed /\ row.est = weight
      /\ w.job.consumed \in Nat /\ w.grams[w.job.spool] \in Nat
      /\ w.grams = [s \in Spools |-> w.grams[s]]
  BY <1>1 DEF JobRow, Stock
<1>3. [w EXCEPT !.job.est = weight] = [job |-> row, grams |-> w.grams]
  BY <1>1
<1> HIDE DEF row
<1>4. PICK want \in Int : want = weight - w.job.consumed
  BY <1>2
<1>5. ApplyJobWeight(w, weight) = Reserve([job |-> row, grams |-> w.grams], w.job.spool, want)
  <2>1. weight > 0 /\ w.job.spool # NoSpool
    BY NamesAreDistinct
  <2> QED BY <1>3, <1>4, <2>1 DEF ApplyJobWeight
<1>6. PICK got \in Int : got = Lesser(want, w.grams[w.job.spool])
  <2>1. w.grams[w.job.spool] \in Int
    BY <1>1 DEF Stock
  <2>2. Lesser(want, w.grams[w.job.spool]) \in {want, w.grams[w.job.spool]}
    BY DEF Lesser
  <2> QED BY <2>1, <2>2
<1>7. PICK u : u = ApplyJobWeight(w, weight)
  OBVIOUS
<1>8. u.job.est = weight /\ u.job.consumed = w.job.consumed + got
  BY <1>2, <1>5, <1>6, <1>7, ReserveMoves
<1>9. u.grams[w.job.spool] = w.grams[w.job.spool] - got
  <2>1. u.grams = [w.grams EXCEPT ![w.job.spool] = @ - got]
    BY <1>5, <1>6, <1>7 DEF Reserve
  <2> QED BY <1>2, <2>1
<1>10. want = got \/ w.grams[w.job.spool] = got
  BY <1>6 DEF Lesser
<1> QED BY <1>2, <1>4, <1>7, <1>8, <1>9, <1>10

\* One poll of an open row that has a spool
LEMMA SyncRowTopsUp ==
  ASSUME ShopOK, NEW j, NEW w, SoundWork(w), NEW snap \in SnapshotType, snap.weight > 0,
         NEW match \in Matches, SyncRow(j, w, snap, match),
         ~w.job.draft, w.job.spool \in Spools, w.job.status \notin Terminal
  PROVE  \E row : /\ jobs' = PutJob(j, row) /\ row.spool = w.job.spool
                  /\ \/ row.status \in Terminal \/ row.consumed >= row.est
                     \/ grams'[row.spool] = 0
<1>1. /\ w.job \in JobRow /\ w.grams \in Stock
      /\ w = [job |-> w.job, grams |-> w.grams]
      /\ snap.progress \in 0..100 /\ snap.weight \in Nat \ {0}
  BY DEF SoundWork, SoundRow, SnapshotType
<1>2. PICK row \in JobRow : row = [w.job EXCEPT !.progress = snap.progress]
  BY <1>1 DEF JobRow
<1>3. /\ row.task = w.job.task /\ row.spool = w.job.spool /\ row.status = w.job.status
      /\ row.draft = w.job.draft /\ row.finished = w.job.finished
      /\ row.consumed = w.job.consumed /\ row.est = w.job.est
  BY <1>1, <1>2 DEF JobRow
<1>4. PICK seen : seen = [job |-> row, grams |-> w.grams]
  OBVIOUS
<1>5. [w EXCEPT !.job.progress = snap.progress] = seen
  BY <1>1, <1>2, <1>4
<1>6. SoundWork(seen) /\ seen.job = row
  BY <1>1, <1>3, <1>4 DEF SoundWork, SoundRow
<1>7. EnsureDraftLinked(seen, match) = seen
  BY <1>3, <1>6 DEF EnsureDraftLinked
<1>8. PICK weighed : weighed = ApplyJobWeight(seen, snap.weight)
  OBVIOUS
<1>9. /\ SoundWork(weighed)
      /\ weighed.job.spool = w.job.spool /\ weighed.job.status \notin Terminal
      /\ weighed.job.consumed >= weighed.job.est \/ weighed.grams[w.job.spool] = 0
  BY <1>1, <1>3, <1>6, <1>8, WeightMoves, WeightIsSound, WeightTopsUp
<1>10. PICK done : done = ApplyStatus(weighed, snap)
  OBVIOUS
<1>11. /\ done.job.spool = weighed.job.spool
       /\ \/ done.job.status \in Terminal
          \/ /\ done.job.est = weighed.job.est /\ done.job.consumed = weighed.job.consumed
             /\ done.grams = weighed.grams
  BY <1>9, <1>10, StatusMoves
<1>12. jobs' = PutJob(j, done.job) /\ grams' = done.grams
  BY <1>5, <1>7, <1>8, <1>10 DEF SyncRow
<1> QED BY <1>9, <1>11, <1>12

AllLinked == \A j \in DOMAIN jobs : Linked(jobs[j])

\* Whoever links a job to a spool, or makes one, names the spool.
LEMMA StepKeepsLinked ==
  ASSUME Sound, AllLinked, CoreNext
  PROVE  AllLinked'
<1>1. ShopOK /\ LedgerOK
  BY SoundParts
<1>2. CASE PeopleNext \/ RuntimeSync \/ PrinterNext
  <2>1. ASSUME NEW j \in DOMAIN jobs' PROVE Linked(jobs'[j])
    <3>1. OtherStep(j)
      BY <1>2, OthersStep
    <3>2. NoSpool \notin stocked
      BY <1>1, NamesAreDistinct DEF ShopOK
    <3> QED BY <3>1, <3>2
            DEF AllLinked, Linked, OtherStep, Confirmed, Clocked, Repaused, StartedByHand,
                Terminal
  <2> QED BY <2>1 DEF AllLinked, Linked
<1>3. CASE PollNext
  <2>1. PICK j, old, row :
          /\ jobs' = PutJob(j, row) /\ Follows(old, row, Snapshot(onPlate))
          /\ Linked(old) \/ (j \in DOMAIN jobs /\ old = jobs[j])
    BY <1>3, PollFollows
  <2>2. Linked(row)
    BY <2>1 DEF Follows, AllLinked
  <2>3. ASSUME NEW k \in DOMAIN jobs' PROVE Linked(jobs'[k])
    BY <2>1, <2>2, <2>3 DEF PutJob, AllLinked
  <2> QED BY <2>3 DEF AllLinked, Linked
<1> QED BY <1>2, <1>3 DEF CoreNext

LEMMA LinkedHolds == CoreSpec => []AllLinked
<1>1. CoreSpec => []Sound
  <2>1. Init => Sound
    BY InitIsSound
  <2>2. Sound /\ [CoreNext]_vars => Sound'
    BY StepIsSound DEF Next
  <2> QED BY <2>1, <2>2, PTL DEF CoreSpec
<1>2. Init => AllLinked
  BY DEF Init, AllLinked
<1>3. Sound /\ AllLinked /\ [CoreNext]_vars => AllLinked'
  <2>1. UNCHANGED vars /\ AllLinked => AllLinked'
    BY DEF vars, AllLinked, Linked
  <2> QED BY <2>1, StepKeepsLinked
<1> QED BY <1>1, <1>2, <1>3, PTL DEF CoreSpec

\* The first poll that gets through to a short job tops it up, or empties its spool.
LEMMA PollTopsUp ==
  ASSUME Single, AllLinked, PollNext, Feeds \subseteq {"mqtt", "rest"},
         NEW j \in JobIds, Short(j)
  PROVE  ~Short(j)'
<1>1. LedgerOK /\ ShopOK /\ PrinterOK
  BY SoundParts DEF Single
<1>2. /\ j \in JobsOf(TaskId(onPlate)) /\ j \in DOMAIN jobs
      /\ ~jobs[j].draft /\ jobs[j].status \notin Terminal
  BY DEF Short, NeedsFilamentTopUp, JobsOf, Live, Terminal
<1>3. jobs[j].spool \in Spools
  BY <1>1, <1>2 DEF AllLinked, Linked, LedgerOK, SoundRow, JobRow
<1>4. PICK match \in Matches :
        SyncRow(j, [job |-> jobs[j], grams |-> grams], Snapshot(onPlate), match)
  BY <1>2, PollMeetsOpenRow
<1>5. PICK snap \in SnapshotType : snap = Snapshot(onPlate)
  BY <1>1, SnapshotIsTyped DEF PollNext
<1>6. snap.weight > 0
  <2>1. onPlate \in Prints /\ feed \in {"mqtt", "rest"}
    BY <1>1 DEF PrinterOK, PollNext
  <2>2. TaskWeight[onPlate] \in Nat \ {0}
    BY <2>1, GramsArePositive
  <2> QED BY <1>5, <2>1, <2>2 DEF Snapshot
<1>7. SoundWork([job |-> jobs[j], grams |-> grams])
  BY <1>1, <1>2 DEF LedgerOK, SoundWork
<1>8. PICK row : /\ jobs' = PutJob(j, row)
                 /\ \/ row.status \in Terminal \/ row.consumed >= row.est
                    \/ grams'[row.spool] = 0
  BY <1>1, <1>2, <1>3, <1>4, <1>5, <1>6, <1>7, SyncRowTopsUp
<1>9. jobs'[j] = row
  BY <1>8 DEF PutJob
<1>10. ~(NeedsFilamentTopUp(row) /\ grams'[row.spool] > 0)
  <2>1. row \in JobRow
    <3>1. LedgerOK'
      BY SoundParts, LedgerStep DEF Single, Next, CoreNext
    <3> QED BY <1>8, <1>9, <3>1 DEF PutJob, LedgerOK, SoundRow
  <2> QED BY <1>8, <2>1 DEF NeedsFilamentTopUp, JobRow, Live, Terminal
<1> QED BY <1>9, <1>10 DEF Short

\* A job short of plastic is topped up once its spool is refilled, or the spool runs
\* dry, or the print is over, for any spools, weights, prints and people, as
\* long as polls bring the cloud's weight and get through to the job.
THEOREM ShortJobIsToppedUpHolds ==
  ASSUME Feeds \subseteq {"mqtt", "rest"}
  PROVE  FairSpec /\ []TopUpIsPolled => ShortJobIsToppedUp
<1> DEFINE ToppedUp(j) == Short(j) ~> ~Short(j)
<1>1. ASSUME NEW j \in JobIds
      PROVE  FairSpec /\ []TopUpIsPolled => ToppedUp(j)
  <2>1. CoreSpec => []Single /\ []AllLinked
    BY SingleHolds, LinkedHolds
  <2>2. TopUpIsPolled /\ Short(j) => ENABLED <<PollNext>>_vars
    BY DEF TopUpIsPolled
  <2>3. Single /\ AllLinked /\ Short(j) /\ <<PollNext>>_vars => ~Short(j)'
    BY PollTopsUp
  <2> QED BY <2>1, <2>2, <2>3, PTL DEF FairSpec
<1>2. FairSpec /\ []TopUpIsPolled => \A j \in JobIds : ToppedUp(j)
  BY <1>1
<1>3. ShortJobIsToppedUp <=> \A j \in JobIds : ToppedUp(j)
  BY DEF ShortJobIsToppedUp
<1> QED BY <1>2, <1>3
=============================================================================
