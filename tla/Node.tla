-------------------------------- MODULE Node --------------------------------
(***************************************************************************)
(* node: one run of the collator binary, from the parsed command line to   *)
(* its exit.  Three actors interleave: the main thread, which goes through *)
(* command.rs and service.rs and may fail at every `?`; the tasks it has   *)
(* spawned, any of which may end at any time; and the operator, who may    *)
(* send a signal.                                                          *)
(*                                                                         *)
(* The runner, the task manager and the tasks that libraries spawn are     *)
(* external: a task manager stops its tasks when it is dropped, remembers  *)
(* that an essential task has ended, and is asked about it only by         *)
(* run_node_until_exit, once start-up has returned it.  Logging, metrics   *)
(* and the values handed from one service to the next are left out.        *)
(***************************************************************************)
EXTENDS FiniteSets

CONSTANT LibraryEssential   \* tasks that libraries given the whole task
                            \* manager may spawn as essential

\* Subcommand, by what its branch of run() does; "run" is no subcommand.
AsyncCommands ==
  {"check-block", "export-blocks", "export-state", "import-blocks", "revert"}
PartialCommands ==
  {"export-genesis-head", "benchmark-block", "benchmark-storage"}
PlainCommands ==
  {"build-spec", "purge-chain", "export-genesis-wasm", "benchmark-pallet",
   "benchmark-machine", "benchmark-other"}
Commands == AsyncCommands \cup PartialCommands \cup PlainCommands \cup {"run"}

\* What the command line and the build decide: role.is_authority(), telemetry
\* endpoints that are not empty, the offchain worker, a hardware benchmark
\* (not switched off, and a database path to do it in), and the feature
\* runtime-benchmarks.
Config ==
  [authority : BOOLEAN, telemetry : BOOLEAN, offchain : BOOLEAN,
   hwbench : BOOLEAN, benchmarks : BOOLEAN]

\* Spawned by this code, or by the library call that the name stands for.
Tasks ==
  {"telemetry", "transaction-pool", "import-queue", "relay-chain", "network",
   "offchain", "services", "telemetry-hwbench", "relay-tasks", "aura"}

\* Only these library calls are given more than a plain spawn handle.
ASSUME LibraryTasks ==
  LibraryEssential \subseteq {"relay-chain", "services", "relay-tasks"}

\* Where the main thread is: the call it makes next.
Points ==
  {"create_runner", "plain_work", "chain_spec", "new_partial", "work",
   "build_relay_chain_interface", "build_network", "offchain_workers",
   "spawn_tasks", "hwbench_telemetry", "overseer_handle",
   "start_relay_chain_tasks", "start_consensus", "up", "exited"}

VARIABLES
  command,     \* the subcommand, or "run"
  config,      \* the configuration of this run
  pc,          \* where the main thread is
  started,     \* history: tasks spawned so far
  essential,   \* those of them spawned as essential
  died,        \* history: tasks that have ended by themselves
  tasks,       \* tasks that are running
  database,    \* whether the client's database is open
  recovery,    \* the DARecoveryProfile handed over, or "none"
  signalled,   \* whether the operator has sent SIGINT or SIGTERM
  outcome      \* what run() returned: "none" yet, "ok" or "err"

vars == <<command, config, pc, started, essential, died, tasks, database,
          recovery, signalled, outcome>>

-----------------------------------------------------------------------------
(* Spawning and leaving *)

If(condition, task) == IF condition THEN {task} ELSE {}

\* Tasks spawned with spawn_handle() and with spawn_essential_handle().
Spawn(plain, ess) ==
  /\ started' = started \cup plain \cup ess
  /\ tasks' = tasks \cup plain \cup ess
  /\ essential' = essential \cup ess

SpawnByLibrary(task) ==
  Spawn({task} \ LibraryEssential, {task} \cap LibraryEssential)

\* run() returns: the task manager and the client go out of scope.
Exit(result) ==
  /\ pc' = "exited"
  /\ outcome' = result
  /\ tasks' = {}
  /\ database' = FALSE
  /\ UNCHANGED <<command, config, started, essential, died, recovery, signalled>>

GoTo(point) ==
  /\ pc' = point
  /\ UNCHANGED <<command, config, died, signalled, outcome>>

\* A step of the main thread whose error is propagated with `?`.
OrFail(step) == step \/ Exit("err")

-----------------------------------------------------------------------------
Init ==
  /\ command \in Commands
  /\ config \in Config
  /\ pc = "create_runner"
  /\ started = {} /\ essential = {} /\ died = {} /\ tasks = {}
  /\ database = FALSE
  /\ recovery = "none"
  /\ signalled = FALSE
  /\ outcome = "none"

\* The benchmarks that this build refuses after the runner is created.
Unsupported ==
  \/ command \in {"benchmark-pallet", "benchmark-storage"} /\ ~config.benchmarks
  \/ command = "benchmark-other"

CreateRunner ==
  /\ pc = "create_runner"
  /\ OrFail(/\ ~Unsupported
            /\ GoTo(CASE command = "run" -> "chain_spec"
                      [] command \in PlainCommands -> "plain_work"
                      [] OTHER -> "new_partial")
            /\ UNCHANGED <<started, essential, tasks, database, recovery>>)

\* Mutant: run() drops the result of the command.
PlainWorkUnreported ==
  /\ pc = "plain_work"
  /\ pc' = "exited"
  /\ UNCHANGED <<command, config, started, essential, died, tasks, database,
                 recovery, signalled, outcome>>

\* build-spec, purge-chain and the others that open no client.
PlainWork ==
  /\ pc = "plain_work"
  /\ Exit("ok") \/ Exit("err")

\* The hardware benchmark, whose errors are ignored, then the parachain id
\* and the relay chain's configuration, either of which may be missing.
ReadChainSpec ==
  /\ pc = "chain_spec"
  /\ OrFail(/\ GoTo("new_partial")
            /\ UNCHANGED <<started, essential, tasks, database, recovery>>)

\* Mutant: the macro lets the task manager go with the other components.
NewPartialDropsManager ==
  /\ pc = "new_partial"
  /\ OrFail(/\ database' = TRUE
            /\ started' = started \cup {"transaction-pool", "import-queue"}
                            \cup If(config.telemetry, "telemetry")
            /\ essential' = essential \cup {"transaction-pool", "import-queue"}
            /\ tasks' = IF command = "run" THEN started' ELSE {}
            /\ GoTo(IF command = "run" THEN "build_relay_chain_interface"
                    ELSE "work")
            /\ UNCHANGED recovery)

\* new_partial, in the node and in the subcommands that need a client.
NewPartial ==
  /\ pc = "new_partial"
  /\ OrFail(/\ database' = TRUE
            /\ Spawn(If(config.telemetry, "telemetry"),
                     {"transaction-pool", "import-queue"})
            /\ GoTo(IF command = "run" THEN "build_relay_chain_interface"
                    ELSE "work")
            /\ UNCHANGED recovery)

\* The subcommand's own work ends.  async_run and sync_run hold the task
\* manager until then, and neither asks it for essential tasks that ended.
WorkEnds ==
  /\ pc = "work"
  /\ Exit("ok") \/ Exit("err")

\* Mutant: the macro hands the work to sync_run.
WorkUninterrupted == FALSE

\* async_run stops at a signal; sync_run does not look for one.
WorkInterrupted ==
  /\ pc = "work"
  /\ command \in AsyncCommands
  /\ signalled
  /\ Exit("ok")

BuildRelayChainInterface ==
  /\ pc = "build_relay_chain_interface"
  /\ OrFail(/\ SpawnByLibrary("relay-chain")
            /\ GoTo("build_network")
            /\ UNCHANGED <<database, recovery>>)

BuildNetwork ==
  /\ pc = "build_network"
  /\ OrFail(/\ Spawn({"network"}, {})
            /\ GoTo("offchain_workers")
            /\ UNCHANGED <<database, recovery>>)

StartOffchainWorkers ==
  /\ pc = "offchain_workers"
  /\ \/ /\ Spawn(If(config.offchain, "offchain"), {})
        /\ GoTo("spawn_tasks")
        /\ UNCHANGED <<database, recovery>>
     \/ config.offchain /\ Exit("err")

SpawnTasks ==
  /\ pc = "spawn_tasks"
  /\ OrFail(/\ SpawnByLibrary("services")
            /\ GoTo("hwbench_telemetry")
            /\ UNCHANGED <<database, recovery>>)

HwbenchTelemetry ==
  /\ pc = "hwbench_telemetry"
  /\ Spawn(If(config.hwbench /\ config.telemetry, "telemetry-hwbench"), {})
  /\ GoTo("overseer_handle")
  /\ UNCHANGED <<database, recovery>>

OverseerHandle ==
  /\ pc = "overseer_handle"
  /\ OrFail(/\ GoTo("start_relay_chain_tasks")
            /\ UNCHANGED <<started, essential, tasks, database, recovery>>)

\* Mutant: the recovery profile is the full node's, whatever the role.
StartRelayChainTasksAsFullNode ==
  /\ pc = "start_relay_chain_tasks"
  /\ OrFail(/\ SpawnByLibrary("relay-tasks")
            /\ recovery' = "FullNode"
            /\ GoTo(IF config.authority THEN "start_consensus" ELSE "up")
            /\ UNCHANGED database)

StartRelayChainTasks ==
  /\ pc = "start_relay_chain_tasks"
  /\ OrFail(/\ SpawnByLibrary("relay-tasks")
            /\ recovery' = IF config.authority THEN "Collator" ELSE "FullNode"
            /\ GoTo(IF config.authority THEN "start_consensus" ELSE "up")
            /\ UNCHANGED database)

\* Mutant: aura is spawned with the plain handle.
StartConsensusPlain ==
  /\ pc = "start_consensus"
  /\ Spawn({"aura"}, {})
  /\ GoTo("up")
  /\ UNCHANGED <<database, recovery>>

\* Nothing in it returns an error, and an authority has its collator key.
StartConsensus ==
  /\ pc = "start_consensus"
  /\ Spawn({}, {"aura"})
  /\ GoTo("up")
  /\ UNCHANGED <<database, recovery>>

-----------------------------------------------------------------------------
(* The runner, the tasks and the operator *)

\* run_node_until_exit: an essential task has ended, perhaps long before
\* start-up was over.
EssentialTaskEnded ==
  /\ pc = "up"
  /\ died \cap essential # {}
  /\ Exit("err")

\* run_node_until_exit: a signal.
NodeInterrupted ==
  /\ pc = "up"
  /\ signalled
  /\ Exit("ok")

TaskEnds(task) ==
  /\ task \in tasks
  /\ tasks' = tasks \ {task}
  /\ died' = died \cup {task}
  /\ UNCHANGED <<command, config, pc, started, essential, database, recovery,
                 signalled, outcome>>

\* The runner has captured the signals when it was created.
Signal ==
  /\ pc \notin {"create_runner", "exited"}
  /\ ~signalled
  /\ signalled' = TRUE
  /\ UNCHANGED <<command, config, pc, started, essential, died, tasks,
                 database, recovery, outcome>>

Next ==
  \/ CreateRunner \/ PlainWork \/ ReadChainSpec \/ NewPartial
  \/ WorkEnds \/ WorkInterrupted
  \/ BuildRelayChainInterface \/ BuildNetwork \/ StartOffchainWorkers
  \/ SpawnTasks \/ HwbenchTelemetry \/ OverseerHandle
  \/ StartRelayChainTasks \/ StartConsensus
  \/ EssentialTaskEnded \/ NodeInterrupted
  \/ \E task \in Tasks : TaskEnds(task)
  \/ Signal

\* The runner polls what it waits for.  Nothing is assumed of the calls that
\* start-up awaits, of a subcommand's work, of tasks or of the operator.
Fairness ==
  /\ WF_vars(EssentialTaskEnded)
  /\ WF_vars(NodeInterrupted)
  /\ WF_vars(WorkInterrupted)

Spec == Init /\ [][Next]_vars /\ Fairness

-----------------------------------------------------------------------------
(* Properties *)

\* The state of a run has its type, and a run that has not exited has no
\* outcome.
TypeOK ==
  /\ command \in Commands
  /\ config \in Config
  /\ pc \in Points
  /\ {started, essential, died, tasks} \subseteq SUBSET Tasks
  /\ {database, signalled} \subseteq BOOLEAN
  /\ recovery \in {"none", "Collator", "FullNode"}
  /\ outcome \in {"none", "ok", "err"}
  /\ pc = "exited" <=> outcome # "none"

\* What a node of the given configuration is made of.
Services(c) ==
  {"transaction-pool", "import-queue", "relay-chain", "network", "services",
   "relay-tasks"}
    \cup If(c.telemetry, "telemetry")
    \cup If(c.offchain, "offchain")
    \cup If(c.telemetry /\ c.hwbench, "telemetry-hwbench")
    \cup If(c.authority, "aura")

\* start_parachain_node: aura, once spawned, has every service of the node's
\* configuration beside it and recovers blocks as a collator, and no start-up
\* step is left that could fail under it; a node that is up as a full node
\* has everything but aura.
AuthorsInCompleteNode ==
  "aura" \in started \/ pc = "up" =>
    /\ command = "run"
    /\ pc \in {"up", "exited"}
    /\ started = Services(config)
    /\ recovery = IF config.authority THEN "Collator" ELSE "FullNode"
    /\ outcome = "err" => died \cap essential # {}

\* construct_async_run and start_parachain_node: the task manager is held
\* exactly as long as the run.  A task that is missing while the run goes on
\* ended by itself, and from whichever step a run exits, it leaves no task
\* running and no database open.
TasksLastAsLongAsRun ==
  IF pc = "exited" THEN tasks = {} /\ ~database
  ELSE tasks = started \ died /\ (pc \in {"work", "up"} => database)

\* service.rs spawns the transaction pool, the import queue and aura as
\* essential: a node that is up without one of them exits, also when the task
\* ended while start-up was still waiting for the relay chain or the network.
LostServiceEndsNode ==
  (pc = "up" /\ died \cap {"transaction-pool", "import-queue", "aura"} # {})
    ~> pc = "exited"

\* run(): a signal ends a node that is up, also one sent during start-up, and
\* a subcommand of construct_async_run.
SignalEndsRun ==
  (signalled /\ (pc = "up" \/ (pc = "work" /\ command \in AsyncCommands)))
    ~> pc = "exited"
=============================================================================
