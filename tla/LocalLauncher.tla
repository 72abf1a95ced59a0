-------------------------------- MODULE LocalLauncher -------------------------------
(***************************************************************************)
(* The launcher of the local system on a Linux machine: start-local.js and         *)
(* stop-local.js with the database preparation they run (prisma generate, the      *)
(* cleanup of duplicate idempotency keys, prisma db push, seed-admin.js), the        *)
(* containers, and the dev processes.  Scripts started twice, or started while the   *)
(* system is being stopped, work on the same files, processes and containers.        *)
(*                                                                         *)
(* The backend it starts is the one of MerchantSettings.                          *)
(***************************************************************************)
EXTENDS MerchantSettings

CONSTANTS
    Starts,        \* runs of start-local.js, each with the backend it spawns
    Stops          \* runs of stop-local.js

ASSUME LauncherAssumption == Processes = Starts

VARIABLES
    step,          \* where each start is; the step of its dev processes once spawned
    stopping,      \* where each stop is
    engine,        \* the Docker engine runs
    services,      \* the postgres and redis containers
    schema,        \* the tables: none, without the unique index on keys, as schema.prisma
    duplicates,    \* rows with equal (merchantId, idempotencyKey)
    client,        \* node_modules/.prisma holds a generated client
    cause,         \* auxiliary: why a start failed
    raced          \* auxiliary: starts whose backend came up between another start's
                   \*   kill and its removal of the client

machine == <<step, stopping, engine, services, schema, duplicates, client, cause, raced>>
vars == <<settings, machine>>

Preparation == {"generate", "cleanup", "push", "seed"}

Steps == {"idle", "install", "engine", "compose", "health", "clear", "remove"} \cup Preparation
            \cup {"ports", "spawn", "boot", "running", "broken", "ended", "failed"}

Causes == {"none", "install", "engine", "services", "tables", "rows", "prompt",
           "client", "killed", "crash", "interrupt"}

LauncherTypeOK ==
    /\ TypeOK
    /\ step \in [Starts -> Steps]
    /\ stopping \in [Stops -> {"idle", "down", "done"}]
    /\ engine \in BOOLEAN /\ duplicates \in BOOLEAN /\ client \in BOOLEAN
    /\ services \in {"absent", "running", "healthy"}
    /\ schema \in {"none", "old", "current"}
    /\ cause \in [Starts -> Causes]
    /\ raced \subseteq Starts

\* Starts whose `npm run dev` is alive.
Apps == {s \in Starts : step[s] \in {"boot", "running", "broken"}}

-----------------------------------------------------------------------------------
\* One step of a start, which goes on, or stops with its message and exit code 1.
Go(s, from, to) ==
    /\ step[s] = from
    /\ step' = [step EXCEPT ![s] = to]
    /\ UNCHANGED <<stopping, cause, raced>>

Fail(s, from, why) ==
    /\ step[s] = from
    /\ step' = [step EXCEPT ![s] = "failed"]
    /\ cause' = [cause EXCEPT ![s] = why]
    /\ UNCHANGED <<settings, stopping, engine, services, schema, duplicates, client, raced>>

\* Everything outside the scripts' own bookkeeping stays.
Quiet == UNCHANGED <<settings, engine, services, schema, duplicates, client>>

\* ensureEnvFiles, and [1/5], [2/5]: node and npm are there, npm install.
Install(s) ==
    \/ Go(s, "idle", "install") /\ Quiet
    \/ Go(s, "install", "engine") /\ Quiet
    \/ Fail(s, "install", "install")

\* [3/5] waitForDockerEngine asks for the version of the compose plugin, which
\* answers whether or not the engine runs.
WaitForDockerEngine(s) == Go(s, "engine", "compose") /\ Quiet

\* [4/5] docker compose up -d postgres redis.
Compose(s) ==
    \/ /\ engine
       /\ Go(s, "compose", "health")
       /\ services' = IF services = "absent" THEN "running" ELSE services
       /\ UNCHANGED <<settings, engine, schema, duplicates, client>>
    \/ ~engine /\ Fail(s, "compose", "engine")

\* waitForHealthy: both containers are in state running, which they are before
\* they accept connections; thirty polls, then an error.
WaitForHealthy(s) ==
    \/ services # "absent" /\ Go(s, "health", "clear") /\ Quiet
    \/ services = "absent" /\ Fail(s, "health", "services")

\* Mutant of ClearProjectNodeProcesses: nothing is killed.
ClearNothing(s) == Go(s, "clear", "remove") /\ Quiet

\* [5/5] clearProjectNodeProcesses: kill -9 on every process of the project, the apps
\* and, where their command lines name it, the preparations of other starts.
ClearProjectNodeProcesses(s) ==
    /\ step[s] = "clear"
    /\ \E hit \in SUBSET {t \in Starts \ {s} : step[t] \in Preparation} :
           /\ step' = [t \in Starts |-> CASE t = s -> "remove"
                                          [] t \in hit -> "failed"
                                          [] t \in Apps -> "ended"
                                          [] OTHER -> step[t]]
           /\ cause' = [t \in Starts |-> IF t \in hit \cup Apps THEN "killed" ELSE cause[t]]
    /\ Stop
    /\ UNCHANGED <<stopping, engine, services, schema, duplicates, client, raced>>

\* clearPrismaClientLocks then removes the generated client, if it is there and can be
\* removed; by now another start may have brought its app up.
ClearPrismaClientLocks(s) ==
    /\ Go(s, "remove", "generate")
    /\ client' \in {FALSE, client}
    /\ UNCHANGED <<settings, engine, services, schema, duplicates>>

\* Mutant of Generate: the preparation does not begin with prisma generate.
GenerateSkipped(s) == Go(s, "generate", "cleanup") /\ Quiet

\* db:prepare begins with prisma generate.
Generate(s) ==
    /\ Go(s, "generate", "cleanup")
    /\ client' = TRUE
    /\ UNCHANGED <<settings, engine, services, schema, duplicates>>

\* A preparation step that talks to the database through the generated client.
Needs(s, at) ==
    \/ ~client /\ Fail(s, at, "client")
    \/ client /\ services # "healthy" /\ Fail(s, at, "services")

Ready == client /\ services = "healthy"

\* cleanup-duplicate-idempotency.js: the query fails when there is no table.  The
\* ids it wants to delete are those whose group has another latestDate than their
\* group, so there are none and the duplicates stay.
Cleanup(s) ==
    \/ Needs(s, "cleanup")
    \/ Ready /\ schema = "none" /\ Fail(s, "cleanup", "tables")
    \/ Ready /\ schema # "none" /\ Go(s, "cleanup", "push") /\ Quiet

\* prisma db push: the unique index is a change it asks about first, and duplicates
\* refuse it; the client is generated again.
Push(s) ==
    \/ services # "healthy" /\ Fail(s, "push", "services")
    \/ services = "healthy" /\ schema = "old" /\ Fail(s, "push", "prompt")
    \/ services = "healthy" /\ schema = "old" /\ duplicates /\ Fail(s, "push", "rows")
    \/ /\ services = "healthy"
       /\ schema = "old" => ~duplicates
       /\ Go(s, "push", "seed")
       /\ schema' = "current" /\ client' = TRUE
       /\ UNCHANGED <<settings, engine, services, duplicates>>

\* seed-admin.js, its merchant; the admin user is reset in DashboardSession.
Seed(s) ==
    \/ Needs(s, "seed")
    \/ /\ Ready /\ SeedMerchant
       /\ Go(s, "seed", "ports")
       /\ UNCHANGED <<engine, services, schema, duplicates, client>>

\* clearPortIfInUse: whatever listens on the ports is killed; the npm process and
\* the watcher above it stay.
ClearPorts(s) ==
    /\ step[s] = "ports"
    /\ step' = [t \in Starts |-> CASE t = s -> "spawn"
                                   [] t = backend -> "broken"
                                   [] OTHER -> step[t]]
    /\ Stop
    /\ UNCHANGED <<stopping, engine, services, schema, duplicates, client, cause, raced>>

\* startApp spawns npm run dev.
Spawn(s) == Go(s, "spawn", "boot") /\ Quiet

\* The backend comes up: it needs the port, the client and the database.  The
\* watcher does not try again.
BootApp(s) ==
    \/ /\ Ready /\ schema = "current"
       /\ Boot(s)
       /\ step[s] = "boot" /\ step' = [step EXCEPT ![s] = "running"]
       /\ raced' = IF \E t \in Starts : step[t] = "remove" THEN raced \cup {s} ELSE raced
       /\ UNCHANGED <<stopping, engine, services, schema, duplicates, client, cause>>
    \/ /\ backend # None \/ ~Ready \/ schema # "current"
       /\ Go(s, "boot", "broken") /\ Quiet

\* The insert of an audit entry fails: nobody handles the rejection, which ends the
\* backend; the watcher waits for a change of a file.
Crash(s) ==
    /\ backend = s /\ auditing # {}
    /\ step' = [step EXCEPT ![s] = "broken"]
    /\ cause' = [cause EXCEPT ![s] = "crash"]
    /\ Stop
    /\ UNCHANGED <<stopping, engine, services, schema, duplicates, client, raced>>

\* Ctrl+C reaches the script and its children.
Interrupt(s) ==
    /\ step[s] \notin {"idle", "ended", "failed"}
    /\ step' = [step EXCEPT ![s] = "ended"]
    /\ cause' = [cause EXCEPT ![s] = "interrupt"]
    /\ IF backend = s THEN Stop ELSE UNCHANGED settings
    /\ UNCHANGED <<stopping, engine, services, schema, duplicates, client, raced>>

\* stop-local.js: `sh -c 'pkill -f "next dev" || true'` names what it looks for, so the
\* shell kills itself with the frontend; execSync throws, and the three commands
\* behind it, the backend's among them, are not run ...
KillApps(z) ==
    /\ stopping[z] = "idle"
    /\ stopping' = [stopping EXCEPT ![z] = "down"]
    /\ UNCHANGED <<settings, step, engine, services, schema, duplicates, client, cause, raced>>

\* ... and takes the containers down; the data stays in the volumes.
Down(z) ==
    /\ stopping[z] = "down"
    /\ stopping' = [stopping EXCEPT ![z] = "done"]
    /\ services' = IF engine THEN "absent" ELSE services
    /\ UNCHANGED <<settings, step, engine, schema, duplicates, client, cause, raced>>

\* Docker's side: the engine comes up, the containers begin to accept connections.
EngineUp ==
    /\ ~engine /\ engine' = TRUE
    /\ UNCHANGED <<settings, step, stopping, services, schema, duplicates, client, cause, raced>>

Healthy ==
    /\ services = "running" /\ services' = "healthy"
    /\ UNCHANGED <<settings, step, stopping, engine, schema, duplicates, client, cause, raced>>

-----------------------------------------------------------------------------------
\* A machine that never ran the system, one whose tables an older revision left,
\* or one that is up to date.
Init ==
    /\ SettingsInit
    /\ step = [s \in Starts |-> "idle"]
    /\ stopping = [z \in Stops |-> "idle"]
    /\ engine \in BOOLEAN
    /\ services \in IF engine THEN {"absent", "healthy"} ELSE {"absent"}
    /\ schema \in IF Rows = {} THEN {"none", "old"} ELSE {"old", "current"}
    /\ duplicates \in IF schema = "old" /\ Rows # {} THEN BOOLEAN ELSE {FALSE}
    /\ client \in BOOLEAN
    /\ cause = [s \in Starts |-> "none"]
    /\ raced = {}

Script(s) ==
    \/ Install(s) \/ WaitForDockerEngine(s) \/ Compose(s) \/ WaitForHealthy(s)
    \/ ClearProjectNodeProcesses(s) \/ ClearPrismaClientLocks(s)
    \/ Generate(s) \/ Cleanup(s) \/ Push(s) \/ Seed(s)
    \/ ClearPorts(s) \/ Spawn(s) \/ BootApp(s)

Next ==
    \/ \E s \in Starts : Script(s) \/ Crash(s) \/ Interrupt(s)
    \/ \E z \in Stops : KillApps(z) \/ Down(z)
    \/ EngineUp \/ Healthy
    \/ Browse /\ UNCHANGED machine
    \/ services = "healthy" /\ Serve /\ UNCHANGED machine
    \/ services # "healthy" /\ (\E r \in Requests : ServeNothing(r)) /\ UNCHANGED machine

Spec == Init /\ [][Next]_vars

-----------------------------------------------------------------------------------
(* Safety. *)

\* A start is about to generate the client, or the terminal ended one.
ClientAwaited ==
    \E s \in Starts : step[s] = "generate" \/ (step[s] = "ended" /\ cause[s] = "interrupt")

\* A backend that serves has its app and the current tables with a merchant in them.
\* Its client is there too, but for a backend that came up when another start had done
\* its killing and was about to remove the client, and then only until the client is
\* generated again; its containers are up, unless a stop went on to take them down.
BackendPrepared ==
    backend # None =>
        /\ step[backend] = "running" /\ schema = "current" /\ Rows # {}
        /\ client \/ (backend \in raced /\ ClientAwaited)
        /\ services = "healthy" \/ \E z \in Stops : stopping[z] = "done"

Settled(s) == step[s] \in {"idle", "running", "broken", "ended", "failed"}

\* Nothing went wrong but what overlapping starts do to each other, and nobody stops.
Undisturbed ==
    /\ \A s \in Starts : cause[s] \in {"none", "client", "killed"}
    /\ \A z \in Stops : stopping[z] = "idle"

Begun == \E s \in Starts : step[s] # "idle"

\* Starts that overlap kill each other's apps and remove each other's client, but
\* not both of them: once all have settled and nothing else went wrong, an app that
\* one of them started is running.
SurvivorRuns ==
    Begun /\ Undisturbed /\ (\A s \in Starts : Settled(s)) => backend # None

-----------------------------------------------------------------------------------
(* The inductive invariants behind BackendPrepared and SurvivorRuns. *)

\* A start that is past the seed has a merchant in the table.
SeededFirst ==
    \A s \in Starts : step[s] \in {"ports", "spawn", "boot", "running"} => Rows # {}

\* A start that is past the push has the current tables.
PushedFirst ==
    \A s \in Starts : step[s] \in {"seed", "ports", "spawn", "boot"} => schema = "current"

\* Only a start that has come to its end has a cause for it.
CausesAtTheEnd ==
    \A s \in Starts : step[s] \notin {"broken", "ended", "failed"} => cause[s] = "none"

\* A start that will bring an app up unless something else goes wrong: it has yet to
\* generate the client, or has one, and in the end the containers too.
Carries(s) ==
    \/ step[s] \in {"install", "engine", "compose", "health", "clear", "remove",
                   "generate", "push"}
    \/ step[s] \in {"cleanup", "seed"} /\ client
    \/ step[s] \in {"ports", "spawn", "boot"} /\ Ready

\* Whoever removed the client last is still on its way, or an app is running.
SomeoneCarries ==
    Begun /\ Undisturbed => backend # None \/ \E s \in Starts : Carries(s)

\* A backend next to a start that is about to remove the client came up after its kill.
RacesKnown ==
    backend # None /\ (\E s \in Starts : step[s] = "remove") => backend \in raced

LauncherIInv ==
    SettingsIInv /\ LauncherTypeOK /\ SeededFirst /\ RacesKnown /\ BackendPrepared

\* Inductive together with LauncherIInv.
SurvivorIInv == PushedFirst /\ CausesAtTheEnd /\ SomeoneCarries

-----------------------------------------------------------------------------------
(* What the README says of the launcher and the scripts do not do; a run refutes it. *)

\* `npm run start` syncs the schema to the database: that its tables are not there yet
\* does not make it fail.
FirstStartPrepares == \A s \in Starts : cause[s] # "tables"

===================================================================================
