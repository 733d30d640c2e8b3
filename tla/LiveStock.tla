------------------------------ MODULE LiveStock ------------------------------
(***************************************************************************)
(* The two remainders of a spool that the pages show: the one after all    *)
(* open jobs is the weight of the row; that of this moment (LiveRemaining) *)
(* adds what each open job has still to print, which is computed from its  *)
(* row, apart from the ledger that will settle it.                         *)
(*                                                                         *)
(* Source: internal/usecase/spool/remaining.go.                            *)
(***************************************************************************)
EXTENDS FilamentLedger

\* Mutant: the share that is printed
AlreadyUsed(job) ==
  LET weight == IF job.est > 0 THEN job.est ELSE job.consumed
  IN  (weight * job.progress) \div 100

\* What of the print is still to come, whole grams of it.  A row that has time
\* left has at most 99 percent: that of SanitizeJobProgress, which the code
\* repeats here for rows that no poll leaves behind.
NotYetUsed(job) ==
  LET weight == IF job.est > 0 THEN job.est ELSE job.consumed
  IN  (weight * (100 - job.progress)) \div 100

\* The jobs that LiveRemaining adds to the weight of spool s
OpenJobsOf(s) == {j \in DOMAIN jobs : jobs[j].spool = s /\ jobs[j].status \in Live}

-----------------------------------------------------------------------------
(* Properties.                                                             *)

\* If an open job stopped now, the spool would be what the page shows of it: the
\* ledger returns no more than the page counts for that job, up to a gram of
\* rounding, and no less when the job holds its whole estimate.  Two packages
\* compute the two, one from the estimate and one from the hold.
RefundIsShown ==
  \A s \in Spools : \A j \in OpenJobsOf(s) :
    /\ UnusedReservedGrams(jobs[j]) <= NotYetUsed(jobs[j]) + 1
    /\ jobs[j].consumed = jobs[j].est => NotYetUsed(jobs[j]) <= UnusedReservedGrams(jobs[j])
=============================================================================
