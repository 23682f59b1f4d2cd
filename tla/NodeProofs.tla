----------------------------- MODULE NodeProofs -----------------------------
(* Theorems about Node, whichever tasks the libraries make essential. *)
EXTENDS Node, TLAPS

-----------------------------------------------------------------------------
(* The inductive invariant *)

\* What start-up has spawned, call after call.
Partial    ==
  {"transaction-pool", "import-queue"} \cup If(config.telemetry, "telemetry")
WithRelay  == Partial \cup {"relay-chain"}
WithNet    == WithRelay \cup {"network"}
WithWorker == WithNet \cup If(config.offchain, "offchain")
WithRpc    == WithWorker \cup {"services"}
WithBench  ==
  WithRpc \cup If(config.hwbench /\ config.telemetry, "telemetry-hwbench")
WithTasks  == WithBench \cup {"relay-tasks"}
WithAura   == WithTasks \cup If(config.authority, "aura")

\* The tasks spawned by the time the main thread is at a point.
Spawned ==
  /\ pc \in {"create_runner", "plain_work", "chain_spec", "new_partial"}
       => started = {}
  /\ pc \in {"work", "build_relay_chain_interface"} => started = Partial
  /\ pc = "build_network" => started = WithRelay
  /\ pc = "offchain_workers" => started = WithNet
  /\ pc = "spawn_tasks" => started = WithWorker
  /\ pc = "hwbench_telemetry" => started = WithRpc
  /\ pc \in {"overseer_handle", "start_relay_chain_tasks"} => started = WithBench
  /\ pc = "start_consensus" => started = WithTasks
  /\ pc = "up" => started = WithAura

StartUp ==
  {"build_relay_chain_interface", "build_network", "offchain_workers",
   "spawn_tasks", "hwbench_telemetry", "overseer_handle",
   "start_relay_chain_tasks", "start_consensus", "up"}

Profile == IF config.authority THEN "Collator" ELSE "FullNode"

\* Where the main thread is tells the command, the database and the profile.
Placed ==
  /\ pc \in StartUp \cup {"chain_spec"} => command = "run"
  /\ pc \in StartUp \cup {"work"} => database
  /\ pc = "start_consensus" => config.authority
  /\ pc \in {"start_consensus", "up"} => recovery = Profile

\* Tasks run from their start to their end or to the end of the run.
Held ==
  /\ died \subseteq started
  /\ IF pc = "exited" THEN tasks = {} /\ ~database ELSE tasks = started \ died

\* A run that has started aura and is over was a complete node.
EndedComplete ==
  pc = "exited" /\ "aura" \in started =>
    /\ command = "run"
    /\ started = WithAura
    /\ recovery = Profile
    /\ outcome = "err" => died \cap essential # {}

Inv == TypeOK /\ Spawned /\ Placed /\ Held /\ EndedComplete

\* Aura is spawned last.
LEMMA AuraIsLast ==
  ASSUME TypeOK, Spawned, pc \notin {"up", "exited"}
  PROVE  "aura" \notin started
<1>1. "aura" \notin WithTasks
  BY DEF WithTasks, WithBench, WithRpc, WithWorker, WithNet, WithRelay,
         Partial, If
<1>2. /\ Partial \subseteq WithTasks /\ WithRelay \subseteq WithTasks
      /\ WithNet \subseteq WithTasks /\ WithWorker \subseteq WithTasks
      /\ WithRpc \subseteq WithTasks /\ WithBench \subseteq WithTasks
  BY DEF WithTasks, WithBench, WithRpc, WithWorker, WithNet, WithRelay
<1>3. QED
  BY <1>1, <1>2 DEF TypeOK, Points, Spawned

\* Leaving keeps the invariant: from every step of start-up, because aura is
\* not yet there, and from a node that is up, with its reason.
LEMMA ExitStep ==
  ASSUME Inv, NEW result \in {"ok", "err"}, Exit(result), pc # "exited",
         pc = "up" => result = "ok" \/ died \cap essential # {}
  PROVE  Inv'
<1>1. TypeOK'
  BY DEF Inv, TypeOK, Exit, Points
<1>2. Spawned' /\ Placed'
  BY DEF Exit, Spawned, Placed, StartUp
<1>3. Held'
  BY DEF Inv, Held, Exit
<1>4. EndedComplete'
  <2>1. CASE pc = "up"
    BY <2>1 DEF Inv, Exit, EndedComplete, Spawned, Placed, StartUp, Profile,
                WithAura, WithTasks, WithBench, WithRpc, WithWorker, WithNet,
                WithRelay, Partial
  <2>2. CASE pc # "up"
    <3>1. "aura" \notin started
      BY <2>2, AuraIsLast DEF Inv
    <3>2. QED
      BY <3>1 DEF Exit, EndedComplete
  <2>3. QED
    BY <2>1, <2>2
<1>5. QED
  BY <1>1, <1>2, <1>3, <1>4 DEF Inv

\* Spawning tasks that have not been started keeps every task accounted for.
LEMMA SpawnStep ==
  ASSUME Inv, NEW plain \in SUBSET Tasks, NEW ess \in SUBSET Tasks,
         Spawn(plain, ess), (plain \cup ess) \cap started = {},
         pc # "exited", pc' # "exited", UNCHANGED died
  PROVE  /\ Held'
         /\ {started', essential', died', tasks'} \subseteq SUBSET Tasks
<1>1. /\ started' = started \cup plain \cup ess
      /\ tasks' = tasks \cup plain \cup ess
      /\ essential' = essential \cup ess
  BY DEF Spawn
<1>2. died \subseteq started /\ tasks = started \ died
  BY DEF Inv, Held
<1>3. tasks' = started' \ died'
  BY <1>1, <1>2
<1>4. QED
  BY <1>1, <1>2, <1>3 DEF Inv, Held, TypeOK

\* The same for a task that a library call spawns, essential or not.
LEMMA SpawnByLibraryStep ==
  ASSUME Inv, NEW task \in Tasks, SpawnByLibrary(task), task \notin started,
         pc # "exited", pc' # "exited", UNCHANGED died
  PROVE  /\ Held'
         /\ {started', essential', died', tasks'} \subseteq SUBSET Tasks
<1>1. PICK plain \in SUBSET Tasks, ess \in SUBSET Tasks :
        plain = {task} \ LibraryEssential /\ ess = {task} \cap LibraryEssential
  OBVIOUS
<1>2. Spawn(plain, ess) /\ (plain \cup ess) \cap started = {}
  BY <1>1 DEF SpawnByLibrary
<1>3. QED
  BY <1>2, SpawnStep

\* Every step of the main thread, of a task and of the operator.
LEMMA InvStep == Inv /\ [Next]_vars => Inv'
<1> SUFFICES ASSUME Inv, [Next]_vars PROVE Inv'
  OBVIOUS
<1> USE DEF OrFail, GoTo
<1>1. ASSUME Exit("err"), pc \notin {"up", "exited"} PROVE Inv'
  BY <1>1, ExitStep
<1>2. ASSUME Exit("ok"), pc # "exited" PROVE Inv'
  BY <1>2, ExitStep
<1>3. CASE CreateRunner
  <2>1. CASE Exit("err")
    BY <1>1, <1>3, <2>1 DEF CreateRunner
  <2>2. CASE ~Exit("err")
    BY <1>3, <2>2
       DEF CreateRunner, Inv, TypeOK, Points, Commands, PlainCommands, Spawned,
           Placed, StartUp, Held, EndedComplete
  <2>3. QED
    BY <2>1, <2>2
<1>4. CASE PlainWork
  BY <1>1, <1>2, <1>4 DEF PlainWork
<1>5. CASE ReadChainSpec
  <2>1. CASE Exit("err")
    BY <1>1, <1>5, <2>1 DEF ReadChainSpec
  <2>2. CASE ~Exit("err")
    BY <1>5, <2>2
       DEF ReadChainSpec, Inv, TypeOK, Points, Spawned, Placed, StartUp, Held,
           EndedComplete
  <2>3. QED
    BY <2>1, <2>2
<1>6. CASE NewPartial
  <2>1. CASE Exit("err")
    BY <1>1, <1>6, <2>1 DEF NewPartial
  <2>2. CASE ~Exit("err")
    <3>1. /\ pc = "new_partial"
          /\ Spawn(If(config.telemetry, "telemetry"),
                   {"transaction-pool", "import-queue"})
          /\ pc' = IF command = "run" THEN "build_relay_chain_interface" ELSE "work"
          /\ database'
          /\ UNCHANGED <<command, config, died, signalled, outcome, recovery>>
      BY <1>6, <2>2 DEF NewPartial
    <3>2. started = {} /\ started' = Partial
      BY <3>1 DEF Inv, Spawned, Spawn, Partial
    <3>3. /\ If(config.telemetry, "telemetry") \in SUBSET Tasks
          /\ {"transaction-pool", "import-queue"} \in SUBSET Tasks
      BY DEF If, Tasks
    <3>4. /\ Held'
          /\ {started', essential', died', tasks'} \subseteq SUBSET Tasks
      BY <3>1, <3>2, <3>3, SpawnStep
    <3>5. TypeOK'
      BY <3>1, <3>4 DEF Inv, TypeOK, Points
    <3>6. Spawned' /\ Placed' /\ EndedComplete'
      BY <3>1, <3>2 DEF Spawned, Placed, StartUp, EndedComplete, Partial
    <3>7. QED
      BY <3>4, <3>5, <3>6 DEF Inv
  <2>3. QED
    BY <2>1, <2>2
<1>7. CASE WorkEnds \/ WorkInterrupted
  BY <1>1, <1>2, <1>7 DEF WorkEnds, WorkInterrupted
<1>8. CASE BuildRelayChainInterface
  <2>1. CASE Exit("err")
    BY <1>1, <1>8, <2>1 DEF BuildRelayChainInterface
  <2>2. CASE ~Exit("err")
    <3>1. /\ pc = "build_relay_chain_interface"
          /\ SpawnByLibrary("relay-chain")
          /\ pc' = "build_network"
          /\ UNCHANGED <<command, config, died, signalled, outcome, database,
                         recovery>>
      BY <1>8, <2>2 DEF BuildRelayChainInterface
    <3>2. started = Partial /\ started' = WithRelay
      BY <3>1 DEF Inv, Spawned, Spawn, SpawnByLibrary, WithRelay
    <3>3. "relay-chain" \in Tasks /\ "relay-chain" \notin started
      BY <3>2 DEF Tasks, If, Partial
    <3>4. /\ Held'
          /\ {started', essential', died', tasks'} \subseteq SUBSET Tasks
      BY <3>1, <3>2, <3>3, SpawnByLibraryStep
    <3>5. TypeOK'
      BY <3>1, <3>4 DEF Inv, TypeOK, Points
    <3>6. WithRelay' = WithRelay
      BY <3>1 DEF WithRelay, Partial
    <3>7. Spawned' /\ Placed' /\ EndedComplete'
      BY <3>1, <3>2, <3>6
         DEF Inv, TypeOK, Config, Spawned, Placed, StartUp, EndedComplete,
             Profile
    <3>8. QED
      BY <3>4, <3>5, <3>7 DEF Inv
  <2>3. QED
    BY <2>1, <2>2
<1>9. CASE BuildNetwork
  <2>1. CASE Exit("err")
    BY <1>1, <1>9, <2>1 DEF BuildNetwork
  <2>2. CASE ~Exit("err")
    <3>1. /\ pc = "build_network"
          /\ Spawn({"network"}, {})
          /\ pc' = "offchain_workers"
          /\ UNCHANGED <<command, config, died, signalled, outcome, database,
                         recovery>>
      BY <1>9, <2>2 DEF BuildNetwork
    <3>2. started = WithRelay /\ started' = WithNet
      BY <3>1 DEF Inv, Spawned, Spawn, WithNet
    <3>3. /\ {"network"} \in SUBSET Tasks
          /\ {} \in SUBSET Tasks
          /\ ({"network"} \cup {}) \cap started = {}
      BY <3>2 DEF Tasks, If, WithRelay, Partial
    <3>4. /\ Held'
          /\ {started', essential', died', tasks'} \subseteq SUBSET Tasks
      BY <3>1, <3>2, <3>3, SpawnStep
    <3>5. TypeOK'
      BY <3>1, <3>4 DEF Inv, TypeOK, Points
    <3>6. WithNet' = WithNet
      BY <3>1 DEF WithNet, WithRelay, Partial
    <3>7. Spawned' /\ Placed' /\ EndedComplete'
      BY <3>1, <3>2, <3>6
         DEF Inv, TypeOK, Config, Spawned, Placed, StartUp, EndedComplete,
             Profile
    <3>8. QED
      BY <3>4, <3>5, <3>7 DEF Inv
  <2>3. QED
    BY <2>1, <2>2
<1>10. CASE StartOffchainWorkers
  <2>1. CASE Exit("err")
    BY <1>1, <1>10, <2>1 DEF StartOffchainWorkers
  <2>2. CASE ~Exit("err")
    <3>1. /\ pc = "offchain_workers"
          /\ Spawn(If(config.offchain, "offchain"), {})
          /\ pc' = "spawn_tasks"
          /\ UNCHANGED <<command, config, died, signalled, outcome, database,
                         recovery>>
      BY <1>10, <2>2 DEF StartOffchainWorkers
    <3>2. started = WithNet /\ started' = WithWorker
      BY <3>1 DEF Inv, Spawned, Spawn, WithWorker
    <3>3. /\ If(config.offchain, "offchain") \in SUBSET Tasks
          /\ {} \in SUBSET Tasks
          /\ (If(config.offchain, "offchain") \cup {}) \cap started = {}
      BY <3>2 DEF Tasks, If, WithNet, WithRelay, Partial
    <3>4. /\ Held'
          /\ {started', essential', died', tasks'} \subseteq SUBSET Tasks
      BY <3>1, <3>2, <3>3, SpawnStep
    <3>5. TypeOK'
      BY <3>1, <3>4 DEF Inv, TypeOK, Points
    <3>6. WithWorker' = WithWorker
      BY <3>1 DEF WithWorker, WithNet, WithRelay, Partial
    <3>7. Spawned' /\ Placed' /\ EndedComplete'
      BY <3>1, <3>2, <3>6
         DEF Inv, TypeOK, Config, Spawned, Placed, StartUp, EndedComplete,
             Profile
    <3>8. QED
      BY <3>4, <3>5, <3>7 DEF Inv
  <2>3. QED
    BY <2>1, <2>2
<1>11. CASE SpawnTasks
  <2>1. CASE Exit("err")
    BY <1>1, <1>11, <2>1 DEF SpawnTasks
  <2>2. CASE ~Exit("err")
    <3>1. /\ pc = "spawn_tasks"
          /\ SpawnByLibrary("services")
          /\ pc' = "hwbench_telemetry"
          /\ UNCHANGED <<command, config, died, signalled, outcome, database,
                         recovery>>
      BY <1>11, <2>2 DEF SpawnTasks
    <3>2. started = WithWorker /\ started' = WithRpc
      BY <3>1 DEF Inv, Spawned, Spawn, SpawnByLibrary, WithRpc
    <3>3. "services" \in Tasks /\ "services" \notin started
      BY <3>2 DEF Tasks, If, WithWorker, WithNet, WithRelay, Partial
    <3>4. /\ Held'
          /\ {started', essential', died', tasks'} \subseteq SUBSET Tasks
      BY <3>1, <3>2, <3>3, SpawnByLibraryStep
    <3>5. TypeOK'
      BY <3>1, <3>4 DEF Inv, TypeOK, Points
    <3>6. WithRpc' = WithRpc
      BY <3>1 DEF WithRpc, WithWorker, WithNet, WithRelay, Partial
    <3>7. Spawned' /\ Placed' /\ EndedComplete'
      BY <3>1, <3>2, <3>6
         DEF Inv, TypeOK, Config, Spawned, Placed, StartUp, EndedComplete,
             Profile
    <3>8. QED
      BY <3>4, <3>5, <3>7 DEF Inv
  <2>3. QED
    BY <2>1, <2>2
<1>12. CASE HwbenchTelemetry
  <2>1. /\ pc = "hwbench_telemetry"
        /\ Spawn(If(config.hwbench /\ config.telemetry, "telemetry-hwbench"), {})
        /\ pc' = "overseer_handle"
        /\ UNCHANGED <<command, config, died, signalled, outcome, database,
                       recovery>>
    BY <1>12 DEF HwbenchTelemetry
  <2>2. started = WithRpc /\ started' = WithBench
    BY <2>1 DEF Inv, Spawned, Spawn, WithBench
  <2>3. /\ If(config.hwbench /\ config.telemetry, "telemetry-hwbench") \in SUBSET Tasks
        /\ {} \in SUBSET Tasks
        /\ (If(config.hwbench /\ config.telemetry, "telemetry-hwbench") \cup {}) \cap started = {}
    BY <2>2 DEF Tasks, If, WithRpc, WithWorker, WithNet, WithRelay, Partial
  <2>4. /\ Held'
        /\ {started', essential', died', tasks'} \subseteq SUBSET Tasks
    BY <2>1, <2>2, <2>3, SpawnStep
  <2>5. TypeOK'
    BY <2>1, <2>4 DEF Inv, TypeOK, Points
  <2>6. WithBench' = WithBench
    BY <2>1 DEF WithBench, WithRpc, WithWorker, WithNet, WithRelay, Partial
  <2>7. Spawned' /\ Placed' /\ EndedComplete'
    BY <2>1, <2>2, <2>6
       DEF Inv, TypeOK, Config, Spawned, Placed, StartUp, EndedComplete,
           Profile
  <2>8. QED
    BY <2>4, <2>5, <2>7 DEF Inv
<1>13. CASE OverseerHandle
  <2>1. CASE Exit("err")
    BY <1>1, <1>13, <2>1 DEF OverseerHandle
  <2>2. CASE ~Exit("err")
    <3>1. WithBench' = WithBench
      BY <1>13, <2>2
         DEF OverseerHandle, WithBench, WithRpc, WithWorker, WithNet,
             WithRelay, Partial
    <3>2. QED
      BY <1>13, <2>2, <3>1
         DEF OverseerHandle, Inv, TypeOK, Points, Spawned, Placed, StartUp, Held,
             EndedComplete
  <2>3. QED
    BY <2>1, <2>2
<1>14. CASE StartRelayChainTasks
  <2>1. CASE Exit("err")
    BY <1>1, <1>14, <2>1 DEF StartRelayChainTasks
  <2>2. CASE ~Exit("err")
    <3>1. /\ pc = "start_relay_chain_tasks"
          /\ SpawnByLibrary("relay-tasks")
          /\ pc' = IF config.authority THEN "start_consensus" ELSE "up"
          /\ UNCHANGED <<command, config, died, signalled, outcome, database>>
          /\ recovery' = Profile
      BY <1>14, <2>2 DEF StartRelayChainTasks, Profile
    <3>2. started = WithBench /\ started' = WithTasks
      BY <3>1 DEF Inv, Spawned, Spawn, SpawnByLibrary, WithTasks
    <3>3. "relay-tasks" \in Tasks /\ "relay-tasks" \notin started
      BY <3>2
         DEF Tasks, If, WithBench, WithRpc, WithWorker, WithNet, WithRelay,
             Partial
    <3>4. /\ Held'
          /\ {started', essential', died', tasks'} \subseteq SUBSET Tasks
      BY <3>1, <3>2, <3>3, SpawnByLibraryStep
    <3>5. TypeOK'
      BY <3>1, <3>4 DEF Inv, TypeOK, Points, Profile
    <3>6. WithTasks' = WithTasks
      BY <3>1
         DEF WithTasks, WithBench, WithRpc, WithWorker, WithNet, WithRelay,
             Partial
    <3>7. Spawned' /\ Placed' /\ EndedComplete'
      BY <3>1, <3>2, <3>6
         DEF Inv, TypeOK, Config, Spawned, Placed, StartUp, EndedComplete,
             Profile, WithAura, If
    <3>8. QED
      BY <3>4, <3>5, <3>7 DEF Inv
  <2>3. QED
    BY <2>1, <2>2
<1>15. CASE StartConsensus
  <2>1. /\ pc = "start_consensus"
        /\ Spawn({}, {"aura"})
        /\ pc' = "up"
        /\ UNCHANGED <<command, config, died, signalled, outcome, database,
                       recovery>>
    BY <1>15 DEF StartConsensus
  <2>2. started = WithTasks /\ started' = WithAura
    BY <2>1 DEF Inv, Spawned, Spawn, WithAura, Placed, If
  <2>3. /\ {} \in SUBSET Tasks
        /\ {"aura"} \in SUBSET Tasks
        /\ ({} \cup {"aura"}) \cap started = {}
    BY <2>2
       DEF Tasks, If, WithTasks, WithBench, WithRpc, WithWorker, WithNet,
           WithRelay, Partial
  <2>4. /\ Held'
        /\ {started', essential', died', tasks'} \subseteq SUBSET Tasks
    BY <2>1, <2>2, <2>3, SpawnStep
  <2>5. TypeOK'
    BY <2>1, <2>4 DEF Inv, TypeOK, Points
  <2>6. WithAura' = WithAura
    BY <2>1
       DEF WithAura, WithTasks, WithBench, WithRpc, WithWorker, WithNet,
           WithRelay, Partial
  <2>7. Spawned' /\ Placed' /\ EndedComplete'
    BY <2>1, <2>2, <2>6
       DEF Inv, TypeOK, Config, Spawned, Placed, StartUp, EndedComplete,
           Profile
  <2>8. QED
    BY <2>4, <2>5, <2>7 DEF Inv
<1>16. CASE EssentialTaskEnded
  BY <1>16, ExitStep DEF EssentialTaskEnded
<1>17. CASE NodeInterrupted
  BY <1>2, <1>17 DEF NodeInterrupted
<1>18. ASSUME NEW task \in Tasks, TaskEnds(task) PROVE Inv'
  <2>1. /\ task \in tasks
        /\ tasks' = tasks \ {task}
        /\ died' = died \cup {task}
        /\ UNCHANGED <<command, config, pc, started, essential, database,
                       recovery,
                       signalled, outcome>>
    BY <1>18 DEF TaskEnds
  <2>2. pc # "exited" /\ task \in started
    BY <2>1 DEF Inv, Held
  <2>3. TypeOK' /\ Held' /\ EndedComplete'
    BY <2>1, <2>2 DEF Inv, TypeOK, Held, EndedComplete
  <2>4. Spawned' /\ Placed'
    BY <2>1
       DEF Inv, Spawned, Placed, Profile, WithAura, WithTasks, WithBench,
           WithRpc, WithWorker, WithNet, WithRelay, Partial
  <2>5. QED
    BY <2>3, <2>4 DEF Inv
<1>19. CASE Signal \/ UNCHANGED vars
  <2>1. UNCHANGED <<command, config, pc, started, essential, died, tasks,
                    database, recovery, outcome>>
    BY <1>19 DEF Signal, vars
  <2>2. TypeOK' /\ Held'
    BY <1>19, <2>1 DEF Inv, TypeOK, Held, Signal, vars
  <2>3. Spawned' /\ Placed' /\ EndedComplete'
    BY <2>1
       DEF Inv, Spawned, Placed, EndedComplete, Profile, WithAura, WithTasks,
           WithBench, WithRpc, WithWorker, WithNet, WithRelay, Partial
  <2>4. QED
    BY <2>2, <2>3 DEF Inv
<1>20. QED
  BY <1>3, <1>4, <1>5, <1>6, <1>7, <1>8, <1>9, <1>10, <1>11, <1>12, <1>13,
     <1>14, <1>15, <1>16, <1>17, <1>18, <1>19
     DEF Next

\* The invariant holds when a run begins.
LEMMA InvInit == Init => Inv
BY DEF Init, Inv, TypeOK, Points, Spawned, Placed, StartUp, Held, EndedComplete

\* The invariant holds throughout a run.
LEMMA InvHolds == Spec => []Inv
BY InvInit, InvStep, PTL DEF Spec

\* What start-up has spawned in the end is what the configuration asks for.
LEMMA ServicesSpawned == Services(config) = WithAura
BY DEF Services, If, WithAura, WithTasks, WithBench, WithRpc, WithWorker,
       WithNet, WithRelay, Partial

-----------------------------------------------------------------------------
(* Theorems *)

\* The state of a run has its type, and it has an outcome exactly when it is
\* over.
THEOREM NodeTypes == Spec => []TypeOK
BY InvHolds, PTL DEF Inv

\* Whatever fails or ends, and whenever, tasks and database last exactly as
\* long as the run that started them.
THEOREM NodeTasksLast == Spec => []TasksLastAsLongAsRun
<1>1. Inv => TasksLastAsLongAsRun
  BY DEF Inv, Held, Placed, StartUp, TasksLastAsLongAsRun
<1>2. QED
  BY <1>1, InvHolds, PTL

\* Aura runs only in a complete node, with the collator's recovery profile.
THEOREM NodeAuthorsComplete == Spec => []AuthorsInCompleteNode
<1>1. Inv => AuthorsInCompleteNode
  <2> SUFFICES ASSUME Inv, "aura" \in started \/ pc = "up"
               PROVE  /\ command = "run"
                      /\ pc \in {"up", "exited"}
                      /\ started = Services(config)
                      /\ recovery = Profile
                      /\ outcome = "err" => died \cap essential # {}
    BY DEF AuthorsInCompleteNode, Profile
  <2>1. pc \in {"up", "exited"}
    BY AuraIsLast DEF Inv
  <2>2. CASE pc = "up"
    BY <2>2, ServicesSpawned DEF Inv, TypeOK, Spawned, Placed, StartUp
  <2>3. CASE pc = "exited"
    BY <2>3, ServicesSpawned DEF Inv, EndedComplete
  <2>4. QED
    BY <2>1, <2>2, <2>3
<1>2. QED
  BY <1>1, InvHolds, PTL
=============================================================================
