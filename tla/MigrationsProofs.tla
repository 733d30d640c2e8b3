---------------------------- MODULE MigrationsProofs ----------------------------
(***************************************************************************)
(* Proofs about the migrations, for any processes, releases and files.     *)
(*                                                                         *)
(* A process looks a file up before its transaction begins, so what it     *)
(* found may be old when it writes.  The invariant says what it may rely   *)
(* on all the same: files that it passed are recorded, and rows are never  *)
(* taken back; and whoever holds the row of a file, not yet committed, is  *)
(* the only one, and the file is not recorded.                             *)
(***************************************************************************)
EXTENDS Migrations, TLAPS

\* A process at work on a file has passed those before it, and no others it lacks.
Works(p) ==
  /\ proc[p].pending <=> proc[p].step \in {"record", "commit"}
  /\ proc[p].step \in InTx =>
       /\ proc[p].file \in proc[p].image \ proc[p].done
       /\ {f \in proc[p].image : f < proc[p].file} \subseteq proc[p].done

Holds(p) ==
  proc[p].step = "commit" =>
    /\ proc[p].file \notin versions
    /\ \A q \in Processes : (proc[q].step = "commit" /\ proc[q].file = proc[p].file) => q = p

Passed(p) ==
  /\ proc[p].done \subseteq versions
  /\ proc[p].step = "up" => proc[p].image \subseteq proc[p].done

Inv ==
  /\ TypeOK /\ RecordedIsApplied
  /\ \A p \in Processes : Works(p) /\ Holds(p) /\ Passed(p)

-----------------------------------------------------------------------------
(* The pieces.                                                             *)

\* The program's own transaction is the only one: a file's COMMIT is dropped.
LEMMA NoCommitInside == ASSUME NEW file PROVE "COMMIT" \notin SplitSQLStatements(Body(file))
BY DEF SplitSQLStatements

\* A step of p leaves the locals of all others alone.
LEMMA GoesAlone ==
  ASSUME TypeOK, NEW p \in Processes, NEW to, Goes(p, to)
  PROVE  /\ proc'[p] = to
         /\ \A q \in Processes \ {p} : proc'[q] = proc[q]
BY DEF Goes, TypeOK

\* One more file at the end
LEMMA AppendRecords ==
  ASSUME NEW S, NEW s \in Seq(S), NEW e \in S
  PROVE  /\ Append(s, e) \in Seq(S)
         /\ {Append(s, e)[i] : i \in 1 .. Len(Append(s, e))} = {s[i] : i \in 1 .. Len(s)} \cup {e}
         /\ (/\ e \notin {s[i] : i \in 1 .. Len(s)}
             /\ \A i, j \in 1 .. Len(s) : s[i] = s[j] => i = j)
            => \A i, j \in 1 .. Len(Append(s, e)) : Append(s, e)[i] = Append(s, e)[j] => i = j
<1> DEFINE t == Append(s, e)
<1>1. t \in Seq(S) /\ Len(t) = Len(s) + 1 /\ Len(s) \in Nat
  OBVIOUS
<1>2. t[Len(s) + 1] = e /\ \A i \in 1 .. Len(s) : t[i] = s[i]
  OBVIOUS
<1> HIDE DEF t
<1>3. {t[i] : i \in 1 .. Len(t)} = {s[i] : i \in 1 .. Len(s)} \cup {e}
  <2>1. \A i \in 1 .. Len(t) : i \in 1 .. Len(s) \/ i = Len(s) + 1
    BY <1>1
  <2>2. 1 .. Len(s) \subseteq 1 .. Len(t) /\ Len(s) + 1 \in 1 .. Len(t)
    BY <1>1
  <2> QED BY <1>2, <2>1, <2>2
<1>4. ASSUME e \notin {s[i] : i \in 1 .. Len(s)},
             \A i, j \in 1 .. Len(s) : s[i] = s[j] => i = j,
             NEW i \in 1 .. Len(t), NEW j \in 1 .. Len(t), t[i] = t[j]
      PROVE  i = j
  <2>1. (i \in 1 .. Len(s) \/ i = Len(s) + 1) /\ (j \in 1 .. Len(s) \/ j = Len(s) + 1)
    BY <1>1
  <2> QED BY <1>2, <1>4, <2>1
<1> QED BY <1>1, <1>3, <1>4 DEF t

\* Files are numbers.
LEMMA FilesAreNumbers == Files \subseteq Nat
BY MigrationConstants DEF Files

\* p goes to a place that the invariant allows, and writes nothing.
Quiet(p, to) ==
  /\ to \in Migration /\ Goes(p, to)
  /\ UNCHANGED <<schema, versions>> /\ calm' \in BOOLEAN
  /\ to.done \subseteq to.image /\ to.done \subseteq versions
  /\ to.step = "up" => to.image \subseteq to.done
  /\ to.pending <=> to.step \in {"record", "commit"}
  /\ to.step \in InTx =>
       /\ to.file \in to.image \ to.done
       /\ {f \in to.image : f < to.file} \subseteq to.done
  /\ to.step = "commit" => to.file \notin versions /\ ~Claimed(p) /\ to.file = proc[p].file

\* Such a step keeps the invariant.
LEMMA QuietStep == ASSUME Inv, NEW p \in Processes, NEW to, Quiet(p, to) PROVE Inv'
<1>1. TypeOK
  BY DEF Inv
<1>2. proc'[p] = to /\ \A q \in Processes \ {p} : proc'[q] = proc[q]
  BY <1>1, GoesAlone DEF Quiet
<1>3. TypeOK'
  <2>1. proc' \in [Processes -> Migration]
    BY <1>1 DEF TypeOK, Goes, Quiet
  <2>2. \A q \in Processes : proc'[q].done \subseteq proc'[q].image
    BY <1>1, <1>2 DEF TypeOK, Quiet
  <2> QED BY <1>1, <2>1, <2>2 DEF TypeOK, Quiet
<1>4. RecordedIsApplied'
  BY DEF Inv, RecordedIsApplied, Quiet
<1>5. ASSUME NEW q \in Processes PROVE (Works(q) /\ Holds(q) /\ Passed(q))'
  <2>1. Works(q)' /\ Passed(q)'
    BY <1>2 DEF Inv, Works, Passed, Quiet
  <2>2. Holds(q)'
    <3>1. CASE q = p
      <4>1. ASSUME to.step = "commit", NEW r \in Processes \ {p}
            PROVE  ~(proc'[r].step = "commit" /\ proc'[r].file = to.file)
        BY <1>2, <4>1 DEF Claimed, Quiet
      <4> QED BY <1>2, <3>1, <4>1 DEF Holds, Quiet
    <3>2. CASE q # p
      <4>1. ASSUME proc[q].step = "commit", to.step = "commit" PROVE proc[q].file # to.file
        BY <3>2, <4>1 DEF Claimed, Quiet
      <4>2. Holds(q) /\ proc'[q] = proc[q]
        BY <1>2, <3>2 DEF Inv
      <4> QED BY <1>2, <3>2, <4>1, <4>2 DEF Holds, Quiet
    <3> QED BY <3>1, <3>2
  <2> QED BY <2>1, <2>2
<1> QED BY <1>3, <1>4, <1>5 DEF Inv

-----------------------------------------------------------------------------
(* One lemma per action.                                                   *)

LEMMA DownIsTyped == Down \in Migration
BY DEF Down, Migration, Steps

LEMMA StartKeeps == ASSUME Inv, NEW p \in Processes, Start(p) PROVE Inv'
<1>1. PICK image \in Images : Goes(p, [Down EXCEPT !.step = "check", !.image = image])
  BY DEF Start
<1> DEFINE to == [Down EXCEPT !.step = "check", !.image = image]
<1>2. /\ to \in Migration /\ to.done = {} /\ to.step = "check" /\ ~to.pending
  BY DEF Down, Migration, Steps
<1>3. calm' \in BOOLEAN /\ UNCHANGED <<schema, versions>> /\ Goes(p, to)
  BY <1>1 DEF Inv, TypeOK, Start
<1> HIDE DEF to
<1>4. Quiet(p, to)
  BY <1>2, <1>3 DEF Quiet, InTx
<1> QED BY <1>4, QuietStep

LEMMA FailsKeeps == ASSUME Inv, NEW p \in Processes, Fails(p) PROVE Inv'
<1>1. /\ Down.done = {} /\ Down.step = "down" /\ ~Down.pending
  BY DEF Down
<1>2. calm' \in BOOLEAN /\ UNCHANGED <<schema, versions>> /\ Goes(p, Down)
  BY DEF Inv, TypeOK, Fails
<1>3. Quiet(p, Down)
  BY <1>1, <1>2, DownIsTyped DEF Quiet, InTx
<1> QED BY <1>3, QuietStep

LEMMA SkipsKeeps == ASSUME Inv, NEW p \in Processes, Skips(p) PROVE Inv'
<1>1. PICK file \in FirstLeft(p) :
        file \in versions /\ Goes(p, [proc[p] EXCEPT !.done = @ \cup {file}])
  BY DEF Skips
<1> DEFINE to == [proc[p] EXCEPT !.done = @ \cup {file}]
<1>2. /\ proc[p] \in Migration /\ proc[p].step = "check" /\ ~proc[p].pending
      /\ proc[p].done \subseteq versions /\ proc[p].done \subseteq proc[p].image
      /\ versions \subseteq Files
  BY DEF Inv, TypeOK, Skips, Passed, Works
<1>3. file \in proc[p].image
  BY DEF FirstLeft
<1>4. /\ to \in Migration /\ to.step = "check" /\ ~to.pending
      /\ to.done \subseteq versions /\ to.done \subseteq to.image
  BY <1>1, <1>2, <1>3 DEF Migration
<1>5. calm' \in BOOLEAN /\ UNCHANGED <<schema, versions>> /\ Goes(p, to)
  BY <1>1 DEF Inv, TypeOK, Skips
<1> HIDE DEF to
<1>6. Quiet(p, to)
  BY <1>4, <1>5 DEF Quiet, InTx
<1> QED BY <1>6, QuietStep

LEMMA BeginsKeeps == ASSUME Inv, NEW p \in Processes, Begins(p) PROVE Inv'
<1>1. PICK file \in FirstLeft(p) :
        file \notin versions /\ Goes(p, [proc[p] EXCEPT !.step = "exec", !.file = file])
  BY DEF Begins
<1> DEFINE to == [proc[p] EXCEPT !.step = "exec", !.file = file]
<1>2. /\ proc[p] \in Migration /\ proc[p].step = "check" /\ ~proc[p].pending
      /\ proc[p].done \subseteq versions /\ proc[p].done \subseteq proc[p].image
  BY DEF Inv, TypeOK, Begins, Passed, Works
<1>3. /\ file \in proc[p].image \ proc[p].done
      /\ \A g \in proc[p].image \ proc[p].done : file <= g
  BY DEF FirstLeft
<1>4. proc[p].image \in Images \cup {{}}
  BY <1>2 DEF Migration
<1>5. proc[p].image \subseteq Nat /\ file \in Files
  BY <1>3, <1>4, FilesAreNumbers DEF Files
<1>6. {f \in proc[p].image : f < file} \subseteq proc[p].done
  <2> SUFFICES ASSUME NEW f \in proc[p].image, f < file, f \notin proc[p].done PROVE FALSE
    OBVIOUS
  <2>1. file <= f /\ file \in Nat /\ f \in Nat
    BY <1>3, <1>5
  <2> QED BY <2>1
<1>7. /\ to \in Migration /\ to.step = "exec" /\ to.file = file /\ ~to.pending
      /\ to.done = proc[p].done /\ to.image = proc[p].image
  BY <1>1, <1>2, <1>5 DEF Migration, Steps, InTx
<1>8. calm' \in BOOLEAN /\ UNCHANGED <<schema, versions>> /\ Goes(p, to)
  BY <1>1 DEF Inv, TypeOK, Begins
<1> HIDE DEF to
<1>9. Quiet(p, to)
  BY <1>2, <1>3, <1>6, <1>7, <1>8 DEF Quiet, InTx
<1> QED BY <1>9, QuietStep

LEMMA ExecutesKeeps == ASSUME Inv, NEW p \in Processes, Executes(p) PROVE Inv'
<1> DEFINE to == [proc[p] EXCEPT !.step = "record", !.pending = TRUE]
<1>1. Goes(p, to) /\ UNCHANGED <<schema, versions>> /\ calm' \in BOOLEAN
  BY NoCommitInside DEF Executes, Inv, TypeOK
<1>2. /\ proc[p] \in Migration /\ proc[p].step = "exec"
      /\ proc[p].done \subseteq versions /\ proc[p].done \subseteq proc[p].image
      /\ proc[p].file \in proc[p].image \ proc[p].done
      /\ {f \in proc[p].image : f < proc[p].file} \subseteq proc[p].done
  BY DEF Inv, TypeOK, Executes, Passed, Works, InTx
<1>3. /\ to \in Migration /\ to.step = "record" /\ to.pending
      /\ to.file = proc[p].file /\ to.done = proc[p].done /\ to.image = proc[p].image
  BY <1>2 DEF Migration, Steps, InTx
<1> HIDE DEF to
<1>4. Quiet(p, to)
  BY <1>1, <1>2, <1>3 DEF Quiet, InTx
<1> QED BY <1>4, QuietStep

LEMMA RecordsKeeps == ASSUME Inv, NEW p \in Processes, Records(p) PROVE Inv'
<1> DEFINE on == [proc[p] EXCEPT !.step = "commit"]
<1>1. /\ UNCHANGED <<schema, versions>> /\ calm' \in BOOLEAN /\ ~Claimed(p)
      /\ proc[p].file \in versions => Goes(p, Down)
      /\ proc[p].file \notin versions => Goes(p, on)
  BY DEF Records, Inv, TypeOK
<1>2. /\ proc[p] \in Migration /\ proc[p].step = "record" /\ proc[p].pending
      /\ proc[p].done \subseteq versions /\ proc[p].done \subseteq proc[p].image
      /\ proc[p].file \in proc[p].image \ proc[p].done
      /\ {f \in proc[p].image : f < proc[p].file} \subseteq proc[p].done
  BY DEF Inv, TypeOK, Records, Passed, Works, InTx
<1>3. /\ on \in Migration /\ on.step = "commit" /\ on.pending
      /\ on.file = proc[p].file /\ on.done = proc[p].done /\ on.image = proc[p].image
  BY <1>2 DEF Migration, Steps, InTx
<1>4. /\ Down.done = {} /\ Down.step = "down" /\ ~Down.pending
  BY DEF Down
<1> HIDE DEF on
<1>5. CASE proc[p].file \in versions
  <2>1. Quiet(p, Down)
    BY <1>1, <1>4, <1>5, DownIsTyped DEF Quiet, InTx
  <2> QED BY <2>1, QuietStep
<1>6. CASE proc[p].file \notin versions
  <2>1. Quiet(p, on)
    BY <1>1, <1>2, <1>3, <1>6 DEF Quiet, InTx
  <2> QED BY <2>1, QuietStep
<1> QED BY <1>5, <1>6

LEMMA ServesKeeps == ASSUME Inv, NEW p \in Processes, Serves(p) PROVE Inv'
<1> DEFINE to == [proc[p] EXCEPT !.step = "up"]
<1>1. Goes(p, to) /\ UNCHANGED <<schema, versions>> /\ calm' \in BOOLEAN
  BY DEF Serves, Inv, TypeOK
<1>2. /\ proc[p] \in Migration /\ proc[p].step = "check" /\ ~proc[p].pending
      /\ proc[p].done \subseteq versions /\ proc[p].image = proc[p].done
  BY DEF Inv, TypeOK, Serves, Passed, Works
<1>3. /\ to \in Migration /\ to.step = "up" /\ ~to.pending
      /\ to.done = proc[p].done /\ to.image = proc[p].image
  BY <1>2 DEF Migration, Steps, InTx
<1> HIDE DEF to
<1>4. Quiet(p, to)
  BY <1>1, <1>2, <1>3 DEF Quiet, InTx
<1> QED BY <1>4, QuietStep

\* A commit takes effect and records at once, what nobody recorded before.
LEMMA CommitsApply ==
  ASSUME Inv, NEW p \in Processes, Commits(p)
  PROVE  /\ schema' = Append(schema, proc[p].file) /\ versions' = versions \cup {proc[p].file}
         /\ proc[p].file \notin versions /\ proc[p].file \in Files
         /\ proc[p].image \in Images /\ proc[p].file \in proc[p].image
         /\ {f \in proc[p].image : f < proc[p].file} \subseteq versions
<1>1. /\ proc[p] \in Migration /\ proc[p].pending
      /\ proc[p].done \subseteq versions
      /\ proc[p].file \in proc[p].image /\ proc[p].file \notin versions
      /\ {f \in proc[p].image : f < proc[p].file} \subseteq proc[p].done
  BY DEF Inv, TypeOK, Commits, Passed, Works, Holds, InTx
<1>2. proc[p].image \in Images
  BY <1>1 DEF Migration
<1> QED BY <1>1, <1>2 DEF Commits, Files

LEMMA CommitsKeeps == ASSUME Inv, NEW p \in Processes, Commits(p) PROVE Inv'
<1> DEFINE file == proc[p].file
           to   == [proc[p] EXCEPT !.step = "check", !.done = @ \cup {file},
                                   !.file = 0, !.pending = FALSE]
<1>1. TypeOK /\ RecordedIsApplied
  BY DEF Inv
<1>2. /\ schema' = Append(schema, file) /\ versions' = versions \cup {file}
      /\ file \notin versions /\ file \in Files /\ file \in proc[p].image
  BY CommitsApply
<1>3. proc'[p] = to /\ \A q \in Processes \ {p} : proc'[q] = proc[q]
  <2>1. Goes(p, to)
    BY DEF Commits
  <2> HIDE DEF to
  <2> QED BY <1>1, <2>1, GoesAlone
<1>4. proc[p] \in Migration /\ proc[p].done \subseteq versions
      /\ proc[p].done \subseteq proc[p].image /\ proc[p].step = "commit"
  BY DEF Inv, TypeOK, Passed, Commits
<1>5. /\ to \in Migration /\ to.done = proc[p].done \cup {file} /\ to.image = proc[p].image
      /\ to.step = "check" /\ ~to.pending
  BY <1>2, <1>4 DEF Migration, Steps
<1> HIDE DEF to
<1>6. TypeOK' /\ RecordedIsApplied'
  <2>1. proc' \in [Processes -> Migration]
    BY <1>1, <1>3, <1>5 DEF TypeOK, Commits, Goes
  <2>2. \A q \in Processes : proc'[q].done \subseteq proc'[q].image
    BY <1>1, <1>2, <1>3, <1>4, <1>5 DEF TypeOK
  <2>3. versions' \subseteq Files /\ calm' \in BOOLEAN
    BY <1>1, <1>2 DEF TypeOK, Commits
  <2>4. schema \in Seq(Files) /\ file \notin {schema[i] : i \in 1 .. Len(schema)}
    BY <1>1, <1>2 DEF TypeOK, RecordedIsApplied
  <2>5. schema' \in Seq(Files) /\ RecordedIsApplied'
    BY <1>1, <1>2, <2>4, AppendRecords DEF RecordedIsApplied
  <2> QED BY <2>1, <2>2, <2>3, <2>5 DEF TypeOK
<1>7. ASSUME NEW q \in Processes PROVE (Works(q) /\ Holds(q) /\ Passed(q))'
  <2>1. CASE q = p
    <3>1. proc'[q] = to
      BY <1>3, <2>1
    <3>2. Works(q)' /\ Holds(q)'
      BY <1>5, <3>1 DEF Works, Holds, InTx
    <3>3. Passed(q)'
      BY <1>2, <1>4, <1>5, <3>1 DEF Passed
    <3> QED BY <3>2, <3>3
  <2>2. CASE q # p
    <3>1. Works(q) /\ Holds(q) /\ Passed(q) /\ proc'[q] = proc[q]
      BY <1>3, <2>2 DEF Inv
    <3>2. proc[q].step = "commit" => proc[q].file # file
      BY <1>4, <2>2 DEF Inv, Holds
    <3>3. Works(q)' /\ Passed(q)'
      BY <1>2, <3>1 DEF Works, Passed
    <3>4. Holds(q)'
      BY <1>2, <1>3, <1>5, <3>1, <3>2 DEF Holds
    <3> QED BY <3>3, <3>4
  <2> QED BY <2>1, <2>2
<1> QED BY <1>6, <1>7 DEF Inv

LEMMA InitHolds == Init => Inv
<1> SUFFICES ASSUME Init PROVE Inv
  OBVIOUS
<1>1. Down.step = "down" /\ Down.done = {} /\ Down.image = {} /\ ~Down.pending
  BY DEF Down
<1>2. TypeOK
  <2>1. schema \in Seq(Files)
    <3>1. schema = <<>>
      BY DEF Init
    <3> QED BY <3>1
  <2>2. versions \subseteq Files /\ calm \in BOOLEAN
    BY DEF Init
  <2>3. proc \in [Processes -> Migration] /\ \A p \in Processes : proc[p] = Down
    BY DownIsTyped DEF Init
  <2> QED BY <1>1, <2>1, <2>2, <2>3 DEF TypeOK
<1>3. RecordedIsApplied
  BY DEF Init, RecordedIsApplied
<1>4. \A p \in Processes : Works(p) /\ Holds(p) /\ Passed(p)
  BY <1>1 DEF Init, Works, Holds, Passed, InTx
<1> QED BY <1>2, <1>3, <1>4 DEF Inv

LEMMA NextKeeps == Inv /\ [Next]_vars => Inv'
<1> SUFFICES ASSUME Inv, [Next]_vars PROVE Inv'
  OBVIOUS
<1>1. ASSUME UNCHANGED <<schema, versions, proc>>, calm' \in BOOLEAN PROVE Inv'
  BY <1>1 DEF Inv, TypeOK, RecordedIsApplied, Works, Holds, Passed
<1>2. CASE Calm
  BY <1>1, <1>2 DEF Calm
<1>3. CASE UNCHANGED vars
  BY <1>1, <1>3 DEF vars, Inv, TypeOK
<1>4. ASSUME NEW p \in Processes, Step(p) \/ Fails(p) PROVE Inv'
  BY <1>4, StartKeeps, SkipsKeeps, BeginsKeeps, ExecutesKeeps, RecordsKeeps, CommitsKeeps,
     ServesKeeps, FailsKeeps DEF Step
<1> QED BY <1>2, <1>3, <1>4 DEF Next

-----------------------------------------------------------------------------
(* The theorems.                                                           *)

\* Whatever the processes race for, and wherever they end, the invariant holds.
THEOREM MigrationsInvHolds == Spec => []Inv
<1> QED BY InitHolds, NextKeeps, PTL DEF Spec

\* Rows and locals have their form.
THEOREM MigrationTypesHold == Spec => []TypeOK
<1>1. Inv => TypeOK
  BY DEF Inv
<1> QED BY <1>1, MigrationsInvHolds, PTL

\* What schema_migrations records is what took effect, once.
THEOREM RecordedIsAppliedHolds == Spec => []RecordedIsApplied
<1>1. Inv => RecordedIsApplied
  BY DEF Inv
<1> QED BY <1>1, MigrationsInvHolds, PTL

\* Nobody serves on a schema that lacks a file of its release.
THEOREM ServedSchemaIsCompleteHolds == Spec => []ServedSchemaIsComplete
<1>1. Inv => ServedSchemaIsComplete
  BY DEF Inv, ServedSchemaIsComplete, Passed
<1> QED BY <1>1, MigrationsInvHolds, PTL

\* A commit is a step of the history, and every other step is none of its business.
LEMMA StepIsHistory == Inv /\ [Next]_vars => [History!Next]_schema
<1> SUFFICES ASSUME Inv, [Next]_vars, schema' # schema PROVE History!Next
  OBVIOUS
<1>1. PICK p \in Processes : Step(p) \/ Fails(p)
  BY DEF Next, Calm, vars
<1>2. Commits(p)
  BY <1>1, NoCommitInside DEF Step, Start, Skips, Begins, Executes, Records, Serves, Fails
<1>3. /\ schema' = Append(schema, proc[p].file)
      /\ proc[p].image \in Images /\ proc[p].file \in proc[p].image \ versions
      /\ {f \in proc[p].image : f < proc[p].file} \subseteq versions
  BY <1>2, CommitsApply
<1>4. versions = History!Applied
  BY DEF Inv, RecordedIsApplied, History!Applied
<1>5. History!Apply(proc[p].image, proc[p].file)
  BY <1>3, <1>4 DEF History!Apply
<1> QED BY <1>3, <1>5 DEF History!Next

\* However many processes migrate at once, the schema is one that a single process
\* could have made: the migrations implement SchemaHistory.
THEOREM MigrationsImplementHistoryHolds == Spec => MigrationsImplementHistory
<1>1. Init => History!Init
  BY DEF Init, History!Init
<1> QED BY <1>1, StepIsHistory, MigrationsInvHolds, PTL
        DEF Spec, MigrationsImplementHistory, History!Spec
=============================================================================
