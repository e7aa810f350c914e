----------------------------- MODULE Deployment -----------------------------
(***************************************************************************)
(* A deployment: the pipeline runs the migrations in a Job, applies the    *)
(* image, waits for the rollout and takes it back if it does not end; the  *)
(* cluster replaces replicas one at a time; a replica boots, serves, is    *)
(* told to stop.  Where onBoot holds there is no Job, each replica of the  *)
(* new image migrates before it listens.  The old image is a release that  *)
(* knows the first two migrations only.                                    *)
(***************************************************************************)
EXTENDS Migrations

CONSTANTS
  Pods,      \* replicas that can exist: those desired and one to surge
  Job,       \* the runner soat-migrate
  Watched,   \* BOUND: the replicas whose requests are followed
  Desired,   \* replicas the autoscaler wants
  MaxCrash   \* BOUND: crashes of replicas, and failures of the database while one migrates

ASSUME RunnersAssumption == Runners = Pods \union {Job} /\ Job \notin Pods
ASSUME DesiredAssumption == Desired \in Nat /\ Desired < Cardinality(Pods)

VARIABLES
  onBoot,   \* DB_MIGRATIONS_ON_BOOT is not 'false'
  step,     \* of the pipeline
  tries,    \* attempts of the Job that failed
  before,   \* the image in service before this deployment
  image,    \* the image of the Deployment
  pods,     \* per replica: its image, how far it is, the requests in flight
  crashes

dvars == <<onBoot, step, tries, before, image, pods, crashes>>
allvars == <<mvars, dvars>>

Stage == {"absent", "booting", "up", "closing"}
Absent == [image |-> "none", at |-> "absent", load |-> 0]

Serves == [image |-> "old", at |-> "up", load |-> 0]

\* Either nothing was ever deployed, or Desired replicas of the old release serve.
DeployInit ==
  /\ onBoot \in BOOLEAN /\ step = "idle" /\ tries = 0 /\ crashes = 0 /\ flaws = {}
  /\ runner = [r \in Runners |-> Resting]
  /\ before \in {"none", "old"} /\ image = before
  /\ journal = IF before = "none" THEN <<>> ELSE <<1, 2>>
  /\ schema = Replay(journal)
  /\ \E first \in {P \in SUBSET Pods : Cardinality(P) = Desired} :
       pods = [p \in Pods |-> IF before = "old" /\ p \in first THEN Serves ELSE Absent]

-----------------------------------------------------------------------------
(* The pipeline.                                                           *)

Push ==
  /\ step \in {"idle", "failed"}
  /\ step' = IF onBoot THEN "apply" ELSE "job"
  /\ before' = image /\ tries' = 0
  /\ runner' = [runner EXCEPT ![Job] = Resting]
  /\ UNCHANGED <<schema, journal, flaws, onBoot, image, pods, crashes>>

StartJob ==
  /\ step = "job" /\ runner[Job].mode = "idle"
  /\ Begin(Job, "each")
  /\ UNCHANGED dvars

\* backoffLimit: 1.
RetryJob ==
  /\ step = "job" /\ runner[Job].mode = "failed" /\ tries = 0
  /\ tries' = 1
  /\ Begin(Job, "each")
  /\ UNCHANGED <<onBoot, step, before, image, pods, crashes>>

\* The Job has failed for good, or is not over in time: then it may still run on.
JobFails ==
  /\ step = "job"
  /\ runner[Job].mode = "failed" => tries = 1
  /\ runner[Job].mode \notin {"idle", "done"}
  /\ step' = "failed"
  /\ UNCHANGED <<mvars, onBoot, tries, before, image, pods, crashes>>

JobCompletes ==
  /\ step = "job" /\ runner[Job].mode = "done"
  /\ step' = "apply"
  /\ UNCHANGED <<mvars, onBoot, tries, before, image, pods, crashes>>

Apply ==
  /\ step = "apply"
  /\ step' = "rollout" /\ image' = "new"
  /\ UNCHANGED <<mvars, onBoot, tries, before, pods, crashes>>

Serving(i) == {p \in Pods : pods[p].at = "up" /\ pods[p].image = i}

RolloutEnds ==
  /\ step \in {"rollout", "undo"}
  /\ Cardinality(Serving(image)) >= Desired
  /\ \A p \in Pods : pods[p].at = "absent" \/ pods[p].image = image
  /\ step' = IF step = "rollout" THEN "done" ELSE "failed"
  /\ UNCHANGED <<mvars, onBoot, tries, before, image, pods, crashes>>

\* Fault: rollout status waits for ever, and its failure is not looked at.
RollBackUnbounded == FALSE

\* The rollout is not over in time, or the smoke test fails: rollout undo, of
\* the image and not of the schema, if this run changed it.  So may the undo.
RollBack ==
  /\ step \in {"rollout", "undo"}
  /\ step' = IF step = "rollout" /\ before = "old" THEN "undo" ELSE "failed"
  /\ image' = IF before = "old" THEN "old" ELSE image
  /\ UNCHANGED <<mvars, onBoot, tries, before, pods, crashes>>

-----------------------------------------------------------------------------
(* The replicas.                                                           *)

StartPod(p) ==
  /\ image # "none" /\ pods[p].at = "absent"
  /\ Cardinality({q \in Pods : pods[q].at # "absent" /\ pods[q].image = image}) < Desired
  /\ pods' = [pods EXCEPT ![p] = [image |-> image, at |-> "booting", load |-> 0]]
  /\ runner' = [runner EXCEPT ![p] = Resting]
  /\ UNCHANGED <<schema, journal, flaws, onBoot, step, tries, before, image, crashes>>

Migrates(p) == onBoot /\ pods[p].image = "new"

\* Fault: it listens while its migrations run.
BootUnawaited(p) ==
  /\ pods[p].at = "booting"
  /\ pods' = [pods EXCEPT ![p].at = "up"]
  /\ UNCHANGED <<mvars, onBoot, step, tries, before, image, crashes>>

\* Fault: no second attempt.
MigrateOnBootOnce(p) ==
  /\ pods[p].at = "booting" /\ Migrates(p) /\ runner[p].mode = "idle"
  /\ Begin(p, "all")
  /\ UNCHANGED dvars

\* migrationsRun; the database module tries again after a failure.
MigrateOnBoot(p) ==
  /\ pods[p].at = "booting" /\ Migrates(p)
  /\ Begin(p, "all")
  /\ UNCHANGED dvars

\* NestFactory.create, then listen: from now on /health answers.
Boot(p) ==
  /\ pods[p].at = "booting"
  /\ Migrates(p) => runner[p].mode = "done"
  /\ pods' = [pods EXCEPT ![p].at = "up"]
  /\ UNCHANGED <<mvars, onBoot, step, tries, before, image, crashes>>

\* The container starts again, with the image it had.
Crash(p) ==
  /\ pods[p].at \in {"booting", "up"} /\ crashes < MaxCrash
  /\ pods' = [pods EXCEPT ![p].at = "booting", ![p].load = 0]
  /\ runner' = [runner EXCEPT ![p] = Resting]
  /\ crashes' = crashes + 1
  /\ UNCHANGED <<schema, journal, flaws, onBoot, step, tries, before, image>>

Request(p) ==
  /\ p \in Watched /\ pods[p].at = "up" /\ pods[p].load = 0
  /\ pods' = [pods EXCEPT ![p].load = 1]
  /\ UNCHANGED <<mvars, onBoot, step, tries, before, image, crashes>>

Answer(p) ==
  /\ pods[p].load = 1
  /\ pods' = [pods EXCEPT ![p].load = 0]
  /\ UNCHANGED <<mvars, onBoot, step, tries, before, image, crashes>>

\* maxUnavailable: 0.  SIGTERM to a replica of the other image, when enough
\* others serve; one that does not serve yet is given up at once.
Terminate(p) ==
  /\ pods[p].at \in {"booting", "up"} /\ pods[p].image # image
  /\ pods[p].at = "up" => Cardinality({q \in Pods : pods[q].at = "up"}) > Desired
  /\ pods' = [pods EXCEPT ![p] = IF @.at = "up" THEN [@ EXCEPT !.at = "closing"] ELSE Absent]
  /\ runner' = [runner EXCEPT ![p] = Resting]
  /\ UNCHANGED <<schema, journal, flaws, onBoot, step, tries, before, image, crashes>>

\* enableShutdownHooks: the server is closed when its requests are answered.
CloseServer(p) ==
  /\ pods[p].at = "closing" /\ pods[p].load = 0
  /\ pods' = [pods EXCEPT ![p] = Absent]
  /\ UNCHANGED <<mvars, onBoot, step, tries, before, image, crashes>>

\* The other listener of SIGTERM: the telemetry is flushed, then process.exit(0).
FlushTelemetry(p) ==
  /\ pods[p].at = "closing"
  /\ pods' = [pods EXCEPT ![p] = Absent]
  /\ UNCHANGED <<mvars, onBoot, step, tries, before, image, crashes>>

-----------------------------------------------------------------------------
\* Rows are imported, and migrations reverted by hand, where no replica of the
\* new image is or will soon be there and nothing else migrates.
Maintained ==
  /\ step \in {"idle", "failed"} /\ image # "new"
  /\ \A r \in Runners : runner[r].mode \in {"idle", "done", "failed"}
  /\ \A p \in Pods : pods[p].image # "new"

Pipeline ==
  Push \/ StartJob \/ RetryJob \/ JobFails \/ JobCompletes \/ Apply \/ RolloutEnds \/ RollBack

Replace(p) ==
  StartPod(p) \/ MigrateOnBoot(p) \/ Boot(p) \/ Terminate(p) \/ CloseServer(p) \/ FlushTelemetry(p)

Migrate(r) == (RunNext(r) \/ EndRun(r)) /\ UNCHANGED dvars

DatabaseFails(r) ==
  /\ crashes < MaxCrash /\ InterruptRun(r)
  /\ crashes' = crashes + 1
  /\ UNCHANGED <<onBoot, step, tries, before, image, pods>>

DeployNext ==
  \/ Pipeline
  \/ \E p \in Pods : Replace(p) \/ Crash(p) \/ Request(p) \/ Answer(p)
  \/ \E r \in Runners : Migrate(r) \/ DatabaseFails(r)
  \/ (ImportOrphans \/ ReuseKey \/ MendOrphans) /\ UNCHANGED dvars
  \/ Maintained /\ UndoLast /\ UNCHANGED dvars

\* Who runs the Job, replaces a replica or migrates goes on; nobody has to push,
\* crash, revert or mend anything.  The last conjunct follows from weak fairness of
\* Migrate(r), which is enabled exactly while r runs.
DeployFairness ==
  /\ WF_allvars(step \notin {"idle", "failed"} /\ Pipeline)
  /\ \A p \in Pods : WF_allvars(Replace(p)) /\ WF_allvars(Terminate(p))
  /\ \A r \in Runners : \/ []<>(runner[r].mode \notin {"each", "all"})
                         \/ []<><<runner'[r] # runner[r]>>_allvars

DeploySpec == DeployInit /\ [][DeployNext]_allvars /\ DeployFairness

-----------------------------------------------------------------------------
\* "If a migration fails the new version does not come up": a replica of this
\* release that answers has every table, column, index and key its entities
\* need, after failed, repeated and interrupted attempts, and where replicas
\* raced to migrate.
NewPodsWork ==
  \A p \in Pods : pods[p].at = "up" /\ pods[p].image = "new" => ENTITIES \subseteq schema

\* Every deployment comes to an end, whether rows let its Job through or not, the
\* replicas of its image come up or not; and one that fails where an image was in
\* service leaves that image in the Deployment.
DeployEnds ==
  step \in {"job", "apply"} ~> step = "done" \/ (step = "failed" /\ (before = "old" => image = "old"))

\* Replicas that boot together and race for the same migrations all come up,
\* are given up with their image, or are kept back by orphans.
ReplicasComeUp ==
  \A p \in Pods : pods[p].at = "booting" ~> pods[p].at # "booting" \/ "orphans" \in flaws

\* "Nest closes the HTTP server and the pool before it exits, instead of cutting
\* connections in a rolling update": a replica told to stop answers what it has.
DrainsInFlight ==
  [][\A p \in Pods : (pods[p].at = "closing" /\ pods'[p].at = "absent") => pods[p].load = 0]_allvars
=============================================================================
