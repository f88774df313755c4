------------------------------- MODULE NodeService -------------------------------
(* The node of the demo chain (task4/substrate-demo/node/src/service.rs and     *)
(* command.rs) and that of the example chain (examples/substrate-dev/node/src/  *)
(* service.rs): how a process is put together step by step from tasks, what     *)
(* happens when a step or a task fails, and which processes sign with a key.    *)
(* On top of it, the slots in which the "aura" task of an authority authors.    *)
(*                                                                              *)
(* A process is off, starting, up, or running a command that needs the          *)
(* database only.  Its keystore is on disk and survives it.  All processes      *)
(* follow one chain and read the same clock.                                    *)
EXTENDS Integers, Sequences

CONSTANTS
    Nodes,          \* machines, each with its own base path
    Services,       \* whose service.rs the nodes may run: "demo", "dev"
    Chain,          \* the chain specification: "dev" or "local"
    Configs,        \* the configurations that the operator starts nodes with
    FirstHolder,    \* the machine whose keystore holds the keys at first
    SLOT_DURATION   \* length of a slot, in ticks of the clock

ASSUME NodeAssumption ==
    /\ Services \subseteq {"demo", "dev"}
    /\ Chain \in {"dev", "local"}
    /\ Configs \subseteq [authority: BOOLEAN, grandpa: BOOLEAN,
                          offchain: BOOLEAN, telemetry: BOOLEAN]
    /\ Configs # {}
    /\ FirstHolder \in Nodes
    /\ SLOT_DURATION \in Nat /\ SLOT_DURATION >= 2

\* The authorities of the genesis presets.
Authorities == IF Chain = "dev" THEN <<"alice">> ELSE <<"alice", "bob">>
Keys == {Authorities[i] : i \in DOMAIN Authorities}

VARIABLES
    service,    \* whose service.rs all the nodes of this network run
    phase,      \* node -> "off", "starting", "up" or "command"
    config,     \* node -> the configuration of its last process
    done,       \* node -> how many start-up steps it has completed
    tasks,      \* node -> its running tasks
    failed,     \* node -> an essential task has ended and the manager knows
    keystore,   \* node -> keys on its disk
    slot,       \* the current slot, modulo the number of authorities
    offset,     \* ticks since the slot began
    lag,        \* slots since the last block's slot, 2 for more
    drift       \* the last block's timestamp, in ticks since its slot began

processes == <<phase, config, done, tasks, failed>>
time == <<slot, offset>>
head == <<lag, drift>>
vars == <<service, processes, keystore, time, head>>

-----------------------------------------------------------------------------
(* The start-up, as a sequence of steps.  A step that may fail is one with a   *)
(* question mark: the error goes up, and the task manager is dropped with all  *)
(* of its tasks.                                                               *)

Step(may_fail, spawns) == [may_fail |-> may_fail, spawns |-> spawns]
StepIf(condition, may_fail, spawns) ==
    IF condition THEN <<Step(may_fail, spawns)>> ELSE <<>>

\* Client, backend and telemetry; transaction pool; import queue.
new_partial(c) ==
    << Step(TRUE, IF c.telemetry THEN {"telemetry"} ELSE {}),
       Step(FALSE, {"txpool"}),
       Step(TRUE, {"import-queue"}) >>

\* Mutant of new_full_demo: the role is not asked before authoring is started.
new_full_demo_AnyRole(c) ==
    new_partial(c)
    \o << Step(TRUE, {"network"}) >>
    \o StepIf(c.offchain, TRUE, {"offchain"})
    \o << Step(TRUE, {"rpc"}) >>
    \o << Step(TRUE, {"aura"}) >>
    \o StepIf(c.grandpa, TRUE, {"grandpa-voter"})

\* The demo node: the network is on as soon as it is built.
new_full_demo(c) ==
    new_partial(c)
    \o << Step(TRUE, {"network"}) >>
    \o StepIf(c.offchain, TRUE, {"offchain"})
    \o << Step(TRUE, {"rpc"}) >>
    \o StepIf(c.authority, TRUE, {"aura"})
    \o StepIf(c.grandpa, TRUE, {"grandpa-voter"})

\* The example node: the network is built early and started last.
new_full_dev(c) ==
    new_partial(c)
    \o << Step(TRUE, {}) >>
    \o StepIf(c.offchain, FALSE, {"offchain"})
    \o << Step(TRUE, {"rpc"}) >>
    \o StepIf(c.authority, TRUE, {"aura"})
    \o StepIf(c.grandpa, TRUE, {"grandpa-voter"})
    \o << Step(FALSE, {"network"}) >>

new_full(c) == IF service = "demo" THEN new_full_demo(c) ELSE new_full_dev(c)

Tasks == {"telemetry", "txpool", "import-queue", "network", "offchain", "rpc",
          "aura", "grandpa-voter"}

\* Mutant of Essential: the authoring task is spawned like any other.
Essential_NotAura == {"txpool", "import-queue", "grandpa-voter"}

\* The tasks spawned with spawn_essential_handle.
Essential == {"txpool", "import-queue", "aura", "grandpa-voter"}

\* Mutant of VoterKeystore: every voter gets the keystore.
VoterKeystore_Always(n) == keystore[n]

\* The keys that the GRANDPA voter of a node may sign with.
VoterKeystore(n) ==
    IF service = "dev" \/ config[n].authority THEN keystore[n] ELSE {}

-----------------------------------------------------------------------------
Init ==
    /\ service \in Services
    /\ phase = [n \in Nodes |-> "off"]
    /\ config \in [Nodes -> {CHOOSE c \in Configs : TRUE}]
    /\ done = [n \in Nodes |-> 0]
    /\ tasks = [n \in Nodes |-> {}]
    /\ failed = [n \in Nodes |-> FALSE]
    /\ keystore = [n \in Nodes |-> IF n = FirstHolder THEN Keys ELSE {}]
    /\ slot = 0 /\ offset = 0
    /\ lag = 2 /\ drift = 0

\* A validator with keys: started as an authority, and not off.
Validates(n) == phase[n] # "off" /\ config[n].authority /\ keystore[n] # {}

\* The operator's rule: at most one validator with the keys.  He starts no
\* second one, and gives no keys to a running authority beside it.
MayValidate(n) == \A m \in Nodes \ {n} : ~Validates(m)

\* The process of n is gone, and so are its tasks.
Exit(n) ==
    /\ phase' = [phase EXCEPT ![n] = "off"]
    /\ done' = [done EXCEPT ![n] = 0]
    /\ tasks' = [tasks EXCEPT ![n] = {}]
    /\ failed' = [failed EXCEPT ![n] = FALSE]
    /\ UNCHANGED <<service, config, keystore, time, head>>

Launch(n, c, p) ==
    /\ phase[n] = "off"
    /\ phase' = [phase EXCEPT ![n] = p]
    /\ config' = [config EXCEPT ![n] = c]
    /\ UNCHANGED <<service, done, tasks, failed, keystore, time, head>>

\* command.rs: no subcommand runs the node until it exits.
run_node(n, c) ==
    /\ c.authority /\ keystore[n] # {} => MayValidate(n)
    /\ Launch(n, c, "starting")

\* check-block, export-blocks, export-state, import-blocks, revert and the
\* benchmarks build the partial components, do their work and end.  (Key,
\* build-spec, purge-chain and chain-info start no task at all.)
run_command(n) == \E c \in Configs : ~c.authority /\ Launch(n, c, "command")

Program(n) == IF phase[n] = "command" THEN new_partial(config[n]) ELSE new_full(config[n])

\* The next step of the start-up succeeds.
StartStep(n) ==
    /\ phase[n] \in {"starting", "command"}
    /\ done[n] < Len(Program(n))
    /\ done' = [done EXCEPT ![n] = @ + 1]
    /\ tasks' = [tasks EXCEPT ![n] = @ \cup Program(n)[done[n] + 1].spawns]
    /\ UNCHANGED <<service, phase, config, failed, keystore, time, head>>

\* It returns an error: new_partial or new_full returns it, the process ends.
StartFails(n) ==
    /\ phase[n] \in {"starting", "command"}
    /\ done[n] < Len(Program(n))
    /\ Program(n)[done[n] + 1].may_fail
    /\ Exit(n)

\* new_full returns the task manager; from now on its signal is listened to.
Started(n) ==
    /\ phase[n] = "starting" /\ done[n] = Len(Program(n))
    /\ phase' = [phase EXCEPT ![n] = "up"]
    /\ UNCHANGED <<service, config, done, tasks, failed, keystore, time, head>>

CommandEnds(n) ==
    /\ phase[n] = "command" /\ done[n] = Len(Program(n))
    /\ Exit(n)

\* What a node of this configuration must do as long as it is up.
Duties(c) ==
    {"txpool", "import-queue"}
    \cup (IF c.authority THEN {"aura"} ELSE {})
    \cup (IF c.grandpa THEN {"grandpa-voter"} ELSE {})

\* One of these tasks ends, by itself or by a panic, at any time.  (Nobody
\* notices the end of another task, nor a second end once the first is known.)
TaskEnds(n, t) ==
    /\ t \in tasks[n] \cap Duties(config[n]) /\ ~failed[n]
    /\ tasks' = [tasks EXCEPT ![n] = @ \ {t}]
    /\ failed' = [failed EXCEPT ![n] = @ \/ t \in Essential]
    /\ UNCHANGED <<service, phase, config, done, keystore, time, head>>

\* The task manager has learned of the end of an essential task.
TakenDown(n) == phase[n] = "up" /\ failed[n] /\ Exit(n)

Killed(n) == phase[n] # "off" /\ Exit(n)

\* The operator copies the keys to a machine; nothing ever removes them.
InsertKeys(n) ==
    /\ keystore[n] = {}
    /\ phase[n] # "off" /\ config[n].authority => MayValidate(n)
    /\ keystore' = [keystore EXCEPT ![n] = Keys]
    /\ UNCHANGED <<service, processes, time, head>>

-----------------------------------------------------------------------------
(* Slots (configs/mod.rs, create_inherent_data_providers).                     *)

\* Mutant of MinimumPeriod: twice the slot instead of half of it.
MinimumPeriod_TwoSlots == 2 * SLOT_DURATION

MinimumPeriod == SLOT_DURATION \div 2

\* pallet_aura::MinimumPeriodTimesTwo, at an even number of ticks.
SlotDuration == 2 * (SLOT_DURATION \div 2)

Tick ==
    /\ IF offset + 1 < SlotDuration
       THEN offset' = offset + 1 /\ UNCHANGED <<slot, lag>>
       ELSE /\ offset' = 0
            /\ slot' = (slot + 1) % Len(Authorities)
            /\ lag' = IF lag < 2 THEN lag + 1 ELSE 2
    /\ UNCHANGED <<service, processes, keystore, drift>>

\* The timestamp inherent, counted from the beginning of the last block's slot:
\* the system time, but at least MinimumPeriod after the last timestamp.
InherentTimestamp ==
    LET system_time == lag * SlotDuration + offset
    IN  IF system_time >= drift + MinimumPeriod THEN system_time ELSE drift + MinimumPeriod

\* The aura task authors in its slot, once; the runtime insists that the
\* timestamp lies in the slot that the block claims.
Author(n) ==
    /\ "aura" \in tasks[n] /\ Authorities[slot + 1] \in keystore[n]
    /\ lag > 0
    /\ InherentTimestamp \div SlotDuration = lag
    /\ lag' = 0
    /\ drift' = InherentTimestamp % SlotDuration
    /\ UNCHANGED <<service, processes, keystore, time>>

Next ==
    \/ \E n \in Nodes :
        \/ \E c \in Configs : run_node(n, c)
        \/ run_command(n)
        \/ StartStep(n) \/ StartFails(n) \/ Started(n) \/ CommandEnds(n)
        \/ \E t \in tasks[n] : TaskEnds(n, t)
        \/ TakenDown(n) \/ Killed(n)
        \/ InsertKeys(n)
        \/ Author(n)
    \/ Tick

Spec == Init /\ [][Next]_vars

\* A process goes on with its start-up, and its task manager is polled.
FairSpec ==
    /\ Spec
    /\ \A n \in Nodes : WF_vars(StartStep(n)) /\ WF_vars(Started(n)) /\ WF_vars(TakenDown(n))

-----------------------------------------------------------------------------
(* Properties.                                                                 *)

\* The types of the variables.
Types ==
    /\ service \in Services
    /\ phase \in [Nodes -> {"off", "starting", "up", "command"}]
    /\ config \in [Nodes -> Configs]
    /\ done \in [Nodes -> Nat] /\ tasks \in [Nodes -> SUBSET Tasks]
    /\ \A n \in Nodes : phase[n] # "off" => done[n] <= Len(Program(n))
    /\ failed \in [Nodes -> BOOLEAN]
    /\ keystore \in [Nodes -> SUBSET Keys]
    /\ slot \in 0 .. Len(Authorities) - 1 /\ offset \in 0 .. SlotDuration - 1
    /\ lag \in 0 .. 2 /\ drift \in 0 .. SlotDuration - 1

\* A process that is off has left nothing behind but its disk, and only an
\* authority runs the authoring task.
RolesKept ==
    \A n \in Nodes :
        /\ phase[n] = "off" => tasks[n] = {} /\ done[n] = 0
        /\ "aura" \in tasks[n] => config[n].authority

\* Processes, tasks, keystores and the clock have their types (service.rs), and
\* no process runs a task that its role or its last start does not account for,
\* whatever role the machine had before it crashed.
TypeOK == Types /\ RolesKept

\* The keys that a running process signs with, blocks or finality votes.
SignsWith(n) ==
    (IF "aura" \in tasks[n] THEN keystore[n] ELSE {})
    \cup (IF "grandpa-voter" \in tasks[n] THEN VoterKeystore(n) ELSE {})

\* A full node that votes with a keystore, as that of the example chain does.
VotesUnasked(n) ==
    service = "dev" /\ ~config[n].authority /\ "grandpa-voter" \in tasks[n]

\* Two processes of the demo chain never sign with the same key: a validator
\* that was moved to another machine and goes on as a full node with its old
\* keystore keeps quiet, through every crash, failed start and restart with
\* another role.  On the example chain, only such a full node breaks this.
OneSignerPerKey ==
    \A n, m \in Nodes : n # m /\ SignsWith(n) \cap SignsWith(m) # {} =>
        VotesUnasked(n) \/ VotesUnasked(m)

\* "if it fails we take down the service with it": a node that is up and has
\* lost its pool, its import queue, its authoring or its voter goes down, also
\* when the task was lost while the rest of the node was still being started.
NoCrippledNode ==
    \A n \in Nodes :
        (phase[n] = "up" /\ ~(Duties(config[n]) \subseteq tasks[n])) ~> phase[n] = "off"

\* Pushing the timestamp to MinimumPeriod after the last one never pushes it
\* out of the slot that is being authored: no author is stopped by the check of
\* the runtime, however late in its slot the last block came.
InherentFitsSlot == lag > 0 => InherentTimestamp \div SlotDuration = lag

=============================================================================
