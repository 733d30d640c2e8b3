----------------------------- MODULE Migrations -----------------------------
(***************************************************************************)
(* Migrations of the database.                                             *)
(*                                                                         *)
(* A container applies the files of its own release and then serves.       *)
(* Replicas, and the old and the new release of a deployment, do so at the *)
(* same time; any of them may be killed, or refused by the database, at    *)
(* any point, and is started again.  There is no lock: a file is looked up *)
(* outside the transaction that applies and records it, and what keeps two *)
(* processes apart is the primary key of schema_migrations.                *)
(*                                                                         *)
(* Source: internal/repository/postgres/migrate.go, cmd/migrate/main.go,   *)
(* and the command of the Dockerfile (migrate && exec app).                *)
(***************************************************************************)
EXTENDS Naturals, Sequences

CONSTANTS
  Processes,
  Images,    \* releases, each a set of files; a file is the number its name begins with
  Wrapped    \* files that begin a transaction and commit it themselves

ASSUME MigrationConstants ==
  /\ \A image \in Images : image \subseteq Nat
  /\ Wrapped \subseteq Nat

VARIABLES
  schema,    \* external: the files whose changes took effect, in that order
  versions,  \* external: the rows of schema_migrations
  proc,      \* [Processes -> where it is, and its locals]
  calm       \* nobody is killed, and no statement fails but for another process

vars == <<schema, versions, proc, calm>>

Files     == UNION Images
InTx      == {"exec", "record", "commit"}
Steps     == {"down", "check", "up"} \cup InTx
Migration == [step : Steps, image : Images \cup {{}}, done : SUBSET Files,
              file : Files \cup {0}, pending : BOOLEAN]

\* pending: its transaction has changes that have not taken effect
Down == [step |-> "down", image |-> {}, done |-> {}, file |-> 0, pending |-> FALSE]

Goes(p, to) == proc' = [proc EXCEPT ![p] = to]

-----------------------------------------------------------------------------
(* ApplyMigrations.                                                        *)

\* What is in a file
Body(file) == IF file \in Wrapped THEN {"BEGIN", "change", "COMMIT"} ELSE {"change"}

\* Mutant: runs what the file says
AllStatements(body) == body

\* The wrappers are dropped: the transaction is that of the program.
SplitSQLStatements(body) == body \ {"BEGIN", "COMMIT", "ROLLBACK"}

Start(p) ==
  /\ proc[p].step = "down"
  /\ \E image \in Images : Goes(p, [Down EXCEPT !.step = "check", !.image = image])
  /\ UNCHANGED <<schema, versions, calm>>

\* Mutant: files come as they lie in the folder
AnyLeft(p) == proc[p].image \ proc[p].done

\* The files are sorted by name.
FirstLeft(p) ==
  {f \in proc[p].image \ proc[p].done : \A g \in proc[p].image \ proc[p].done : f <= g}

\* migrationApplied finds a row: on to the next file.
Skips(p) ==
  /\ proc[p].step = "check"
  /\ \E file \in FirstLeft(p) :
       file \in versions /\ Goes(p, [proc[p] EXCEPT !.done = @ \cup {file}])
  /\ UNCHANGED <<schema, versions, calm>>

\* It finds none: a transaction begins.
Begins(p) ==
  /\ proc[p].step = "check"
  /\ \E file \in FirstLeft(p) :
       file \notin versions /\ Goes(p, [proc[p] EXCEPT !.step = "exec", !.file = file])
  /\ UNCHANGED <<schema, versions, calm>>

\* A commit among the statements would let the changes take effect at once.
Executes(p) ==
  LET file == proc[p].file
      ends == "COMMIT" \in SplitSQLStatements(Body(file)) IN
  /\ proc[p].step = "exec"
  /\ schema' = IF ends THEN Append(schema, file) ELSE schema
  /\ Goes(p, [proc[p] EXCEPT !.step = "record", !.pending = ~ends])
  /\ UNCHANGED <<versions, calm>>

\* Someone's transaction has inserted the row of the file and is not over.
Claimed(p) ==
  \E q \in Processes \ {p} : proc[q].step = "commit" /\ proc[q].file = proc[p].file

\* Mutant: a row that is there is not an error
WaitsForRow(p) ==
  /\ proc[p].step = "record" /\ ~Claimed(p) /\ proc[p].file \notin versions
  /\ Goes(p, [proc[p] EXCEPT !.step = "commit"])
  /\ UNCHANGED <<schema, versions, calm>>

\* The insert waits for a claim; a row that is there refuses it, and the process
\* rolls back and ends.
Records(p) ==
  /\ proc[p].step = "record" /\ ~Claimed(p)
  /\ Goes(p, IF proc[p].file \in versions THEN Down ELSE [proc[p] EXCEPT !.step = "commit"])
  /\ UNCHANGED <<schema, versions, calm>>

Commits(p) ==
  LET file == proc[p].file IN
  /\ proc[p].step = "commit"
  /\ schema' = IF proc[p].pending THEN Append(schema, file) ELSE schema
  /\ versions' = versions \cup {file}
  /\ Goes(p, [proc[p] EXCEPT !.step = "check", !.done = @ \cup {file},
                             !.file = 0, !.pending = FALSE])
  /\ UNCHANGED calm

\* All files are there: the application begins to serve.
Serves(p) ==
  /\ proc[p].step = "check" /\ proc[p].image = proc[p].done
  /\ Goes(p, [proc[p] EXCEPT !.step = "up"])
  /\ UNCHANGED <<schema, versions, calm>>

\* Mutant: an error of one file is logged
GoesOnWithoutFile(p) ==
  /\ ~calm /\ proc[p].step \in InTx
  /\ Goes(p, [proc[p] EXCEPT !.step = "check", !.done = @ \cup {proc[p].file},
                             !.file = 0, !.pending = FALSE])
  /\ UNCHANGED <<schema, versions, calm>>

\* Its statements meet those of a transaction that has run the same file
Collides(p) ==
  /\ proc[p].step = "exec"
  /\ \E q \in Processes \ {p} : proc[q].file = proc[p].file /\ proc[q].step \in {"record", "commit"}

\* A statement fails, or the container is killed or replaced by another release:
\* the database rolls back what was not committed, and the process has ended.
Fails(p) ==
  /\ ~calm \/ Collides(p)
  /\ proc[p].step # "down" /\ Goes(p, Down)
  /\ UNCHANGED <<schema, versions, calm>>

Calm == ~calm /\ calm' = TRUE /\ UNCHANGED <<schema, versions, proc>>

Init ==
  /\ schema = <<>> /\ versions = {} /\ calm = FALSE
  /\ proc = [p \in Processes |-> Down]

Step(p) ==
  Start(p) \/ Skips(p) \/ Begins(p) \/ Executes(p) \/ Records(p) \/ Commits(p) \/ Serves(p)

Next == Calm \/ \E p \in Processes : Step(p) \/ Fails(p)

\* A process goes on, and a container that ended is started again.
Spec == Init /\ [][Next]_vars /\ \A p \in Processes : WF_vars(Step(p))

-----------------------------------------------------------------------------
(* Properties.                                                             *)

\* Rows and locals have their form, and a process passes files of its own release.
TypeOK ==
  /\ schema \in Seq(Files) /\ versions \subseteq Files /\ calm \in BOOLEAN
  /\ proc \in [Processes -> Migration]
  /\ \A p \in Processes : proc[p].done \subseteq proc[p].image

\* What is recorded is what took effect, and nothing took effect twice, however
\* many processes find a file unapplied and wherever they are killed ("a second
\* run is safe": the map of the project, section 7).
RecordedIsApplied ==
  /\ versions = {schema[i] : i \in 1 .. Len(schema)}
  /\ \A i, j \in 1 .. Len(schema) : schema[i] = schema[j] => i = j

\* No container serves on a schema that lacks a file of its release, also when
\* another one was applying that file.
ServedSchemaIsComplete ==
  \A p \in Processes : proc[p].step = "up" => proc[p].image \subseteq versions

\* The database goes through schemas that one process alone could have made.
History == INSTANCE SchemaHistory

MigrationsImplementHistory == History!Spec

\* Processes that race for a file do not stop each other for good: in the end
\* all serve, though one of them had to be started again.
EveryoneServes == <>calm => <>[](\A p \in Processes : proc[p].step = "up")
=============================================================================
