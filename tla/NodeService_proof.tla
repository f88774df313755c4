--------------------------- MODULE NodeService_proof ---------------------------
(* Proofs about the nodes: types, one signer per key, and timestamps that stay  *)
(* in their slot, for any number of machines, any configurations and any length *)
(* of a slot.                                                                   *)
EXTENDS NodeService, TLAPS

-----------------------------------------------------------------------------
(* The start-up steps.                                                         *)

StepRecords == [may_fail: BOOLEAN, spawns: SUBSET Tasks]

\* A start-up none of whose steps spawns the authoring task.
Quiet(steps) == \A i \in 1 .. Len(steps) : "aura" \notin steps[i].spawns

\* One step is a sequence of steps, and a quiet one unless it spawns "aura".
LEMMA OneStep ==
    ASSUME NEW f \in BOOLEAN, NEW S \in SUBSET Tasks
    PROVE  /\ <<Step(f, S)>> \in Seq(StepRecords)
           /\ "aura" \notin S => Quiet(<<Step(f, S)>>)
BY DEF Step, StepRecords, Quiet

\* The same for a step under a condition.
LEMMA OneStepIf ==
    ASSUME NEW b \in BOOLEAN, NEW f \in BOOLEAN, NEW S \in SUBSET Tasks
    PROVE  /\ StepIf(b, f, S) \in Seq(StepRecords)
           /\ ~b \/ "aura" \notin S => Quiet(StepIf(b, f, S))
<1>1. CASE b
  BY <1>1, OneStep DEF StepIf
<1>2. CASE ~b
  <2>1. StepIf(b, f, S) = <<>>
    BY <1>2 DEF StepIf
  <2> QED
    BY <2>1 DEF Quiet
<1> QED
  BY <1>1, <1>2

\* Putting two start-ups one after the other keeps both facts.
LEMMA Joined ==
    ASSUME NEW s \in Seq(StepRecords), NEW t \in Seq(StepRecords)
    PROVE  /\ s \o t \in Seq(StepRecords)
           /\ Quiet(s) /\ Quiet(t) => Quiet(s \o t)
<1>1. s \o t \in Seq(StepRecords)
  OBVIOUS
<1>2. ASSUME Quiet(s), Quiet(t), NEW i \in 1 .. Len(s \o t)
      PROVE  "aura" \notin (s \o t)[i].spawns
  <2>1. CASE i <= Len(s)
    BY <1>2, <2>1 DEF Quiet
  <2>2. CASE i > Len(s)
    <3>1. i - Len(s) \in 1 .. Len(t) /\ (s \o t)[i] = t[i - Len(s)]
      BY <2>2, <1>2
    <3> QED
      BY <1>2, <3>1 DEF Quiet
  <2> QED
    BY <2>1, <2>2
<1> QED
  BY <1>1, <1>2 DEF Quiet

\* new_partial never spawns the authoring task.
LEMMA PartialSteps ==
    ASSUME NEW c \in Configs
    PROVE  new_partial(c) \in Seq(StepRecords) /\ Quiet(new_partial(c))
<1> DEFINE T == IF c.telemetry THEN {"telemetry"} ELSE {}
<1>1. T \in SUBSET Tasks /\ "aura" \notin T
  BY DEF Tasks
<1> DEFINE a1 == Step(TRUE, T)
           a2 == Step(FALSE, {"txpool"})
           a3 == Step(TRUE, {"import-queue"})
<1>2. a1 \in StepRecords /\ a2 \in StepRecords /\ a3 \in StepRecords
  BY <1>1 DEF Step, StepRecords, Tasks
<1>3. "aura" \notin a1.spawns /\ "aura" \notin a2.spawns /\ "aura" \notin a3.spawns
  BY <1>1 DEF Step
<1>4. new_partial(c) = <<a1, a2, a3>>
  BY DEF new_partial
<1> HIDE DEF a1, a2, a3
<1>5. <<a1, a2, a3>> \in Seq(StepRecords)
  BY <1>2
<1>6. Quiet(<<a1, a2, a3>>)
  BY <1>3 DEF Quiet
<1> QED
  BY <1>4, <1>5, <1>6

\* new_full spawns it in an authority only, in either service.rs.
LEMMA FullSteps ==
    ASSUME NEW c \in Configs
    PROVE  /\ new_full(c) \in Seq(StepRecords)
           /\ ~c.authority => Quiet(new_full(c))
<1>1. c.authority \in BOOLEAN /\ c.grandpa \in BOOLEAN /\ c.offchain \in BOOLEAN
  BY NodeAssumption
<1> DEFINE N == <<Step(TRUE, {"network"})>>
           N0 == <<Step(TRUE, {})>>
           N1 == <<Step(FALSE, {"network"})>>
           O == StepIf(c.offchain, TRUE, {"offchain"})
           O1 == StepIf(c.offchain, FALSE, {"offchain"})
           R == <<Step(TRUE, {"rpc"})>>
           A == StepIf(c.authority, TRUE, {"aura"})
           G == StepIf(c.grandpa, TRUE, {"grandpa-voter"})
           Good(s) == s \in Seq(StepRecords) /\ (~c.authority => Quiet(s))
<1>2. \A s, t : Good(s) /\ Good(t) => Good(s \o t)
  BY Joined
<1>3. Good(new_partial(c))
  BY PartialSteps
<1>4. Good(N) /\ Good(N0) /\ Good(N1) /\ Good(R)
  BY OneStep DEF Tasks
<1>5. Good(O) /\ Good(O1) /\ Good(G)
  BY <1>1, OneStepIf DEF Tasks
<1>6. Good(A)
  BY <1>1, OneStepIf DEF Tasks
<1> HIDE DEF N, N0, N1, O, O1, R, A, G, Good
<1>7. Good(new_partial(c) \o N \o O \o R \o A \o G)
  BY <1>2, <1>3, <1>4, <1>5, <1>6
<1>8. Good(new_partial(c) \o N0 \o O1 \o R \o A \o G \o N1)
  BY <1>2, <1>3, <1>4, <1>5, <1>6
<1>9. new_full(c) = new_partial(c) \o N \o O \o R \o A \o G
      \/ new_full(c) = new_partial(c) \o N0 \o O1 \o R \o A \o G \o N1
  BY DEF new_full, new_full_demo, new_full_dev, N, N0, N1, O, O1, R, A, G
<1> QED
  BY <1>7, <1>8, <1>9 DEF Good

\* What a process still has to do, by its kind.
LEMMA ProgramSteps ==
    ASSUME NEW n \in Nodes, config[n] \in Configs
    PROVE  /\ Program(n) \in Seq(StepRecords)
           /\ ~config[n].authority => Quiet(Program(n))
BY PartialSteps, FullSteps DEF Program

-----------------------------------------------------------------------------
(* The inductive invariant.                                                    *)

\* The operator's rule: no two validators hold keys.
OneValidator ==
    \A n, m \in Nodes : n # m => ~(Validates(n) /\ Validates(m))

IInv == Types /\ RolesKept /\ OneValidator

\* Length of a slot and number of authorities.
LEMMA Slots ==
    /\ SlotDuration \in Nat \ {0} /\ SlotDuration >= 2 /\ 2 * MinimumPeriod = SlotDuration
    /\ MinimumPeriod \in Nat
    /\ Len(Authorities) \in {1, 2}
<1>1. SlotDuration \in Nat \ {0} /\ SlotDuration >= 2 /\ 2 * MinimumPeriod = SlotDuration
      /\ MinimumPeriod \in Nat
  BY NodeAssumption DEF SlotDuration, MinimumPeriod
<1>2. Len(Authorities) \in {1, 2}
  BY DEF Authorities
<1> QED
  BY <1>1, <1>2

\* A division by a slot's length, for the two slots that matter.
LEMMA InSlot ==
    ASSUME NEW x \in Nat, NEW d \in Nat \ {0}
    PROVE  /\ d <= x /\ x < 2 * d => x \div d = 1
           /\ 2 * d <= x /\ x < 3 * d => x \div d = 2
           /\ x % d \in 0 .. d - 1
OBVIOUS

\* The invariant holds in every initial state.
LEMMA InitIInv == Init => IInv
<1> SUFFICES ASSUME Init PROVE IInv
  OBVIOUS
<1>1. \A n \in Nodes : phase[n] = "off" /\ tasks[n] = {} /\ done[n] = 0
  BY DEF Init
<1>2. Types
  <2>1. config \in [Nodes -> Configs]
    BY NodeAssumption DEF Init
  <2>2. keystore \in [Nodes -> SUBSET Keys]
    BY DEF Init
  <2>3. slot \in 0 .. Len(Authorities) - 1 /\ offset \in 0 .. SlotDuration - 1
        /\ lag \in 0 .. 2 /\ drift \in 0 .. SlotDuration - 1
    <3>1. slot = 0 /\ offset = 0 /\ lag = 2 /\ drift = 0
      BY DEF Init
    <3>2. 0 \in 0 .. Len(Authorities) - 1 /\ 0 \in 0 .. SlotDuration - 1
      BY Slots
    <3> QED
      BY <3>1, <3>2
  <2>4. service \in Services /\ phase \in [Nodes -> {"off", "starting", "up", "command"}]
        /\ done \in [Nodes -> Nat] /\ tasks \in [Nodes -> SUBSET Tasks]
        /\ failed \in [Nodes -> BOOLEAN]
    BY DEF Init
  <2> QED
    BY <1>1, <2>1, <2>2, <2>3, <2>4 DEF Types
<1>3. RolesKept /\ OneValidator
  BY <1>1 DEF RolesKept, OneValidator, Validates
<1> QED
  BY <1>2, <1>3 DEF IInv

-----------------------------------------------------------------------------
(* Steps of processes: clock and chain stay, and so do services.               *)

\* The conjuncts of Types about the clock and the chain.
ClockOK ==
    /\ slot \in 0 .. Len(Authorities) - 1 /\ offset \in 0 .. SlotDuration - 1
    /\ lag \in 0 .. 2 /\ drift \in 0 .. SlotDuration - 1

\* The end of a process, for whatever reason, keeps the invariant.
LEMMA ExitIInv ==
    ASSUME NEW n \in Nodes, IInv, Exit(n)
    PROVE  IInv'
<1> USE DEF IInv, Exit
<1>1. \A m \in Nodes : phase'[m] # "off" =>
        /\ m # n /\ phase[m] = phase'[m] /\ config'[m] = config[m] /\ done'[m] = done[m]
        /\ tasks'[m] = tasks[m] /\ Program(m)' = Program(m)
  BY DEF Types, Program, new_full, new_full_demo, new_full_dev, new_partial
<1>2. Types'
  <2>1. phase' \in [Nodes -> {"off", "starting", "up", "command"}]
        /\ done' \in [Nodes -> Nat] /\ tasks' \in [Nodes -> SUBSET Tasks]
        /\ failed' \in [Nodes -> BOOLEAN]
    BY DEF Types
  <2>2. ClockOK'
    BY DEF Types, ClockOK, time, head
  <2> QED
    BY <1>1, <2>1, <2>2 DEF Types, ClockOK
<1>3. RolesKept'
  BY <1>1 DEF RolesKept, Types
<1>4. OneValidator'
  <2>1. \A m \in Nodes : Validates(m)' => Validates(m)
    BY <1>1 DEF Validates
  <2> QED
    BY <2>1 DEF OneValidator
<1> QED
  BY <1>2, <1>3, <1>4

\* Starting a process keeps it, if the process obeys the operator's rule.
LEMMA LaunchIInv ==
    ASSUME NEW n \in Nodes, NEW c \in Configs, NEW p \in {"starting", "command"},
           IInv, Launch(n, c, p),
           c.authority /\ keystore[n] # {} => MayValidate(n)
    PROVE  IInv'
<1> USE DEF IInv, Launch
<1>1. \A m \in Nodes \ {n} : phase'[m] = phase[m] /\ config'[m] = config[m]
                             /\ Program(m)' = Program(m)
  BY DEF Types, Program, new_full, new_full_demo, new_full_dev, new_partial
<1>2. config'[n] = c /\ phase'[n] = p
  BY DEF Types
<1>3. Types'
  <2>1. phase' \in [Nodes -> {"off", "starting", "up", "command"}]
        /\ config' \in [Nodes -> Configs]
    BY DEF Types
  <2>2. Program(n)' \in Seq(StepRecords)
    <3>1. new_partial(c) \in Seq(StepRecords) /\ new_full(c)' \in Seq(StepRecords)
      <4>1. new_full(c)' = new_full(c)
        BY DEF new_full, new_full_demo, new_full_dev, new_partial
      <4> QED
        BY <4>1, PartialSteps, FullSteps
    <3>2. CASE p = "command"
      <4>1. Program(n)' = new_partial(c)
        BY <1>2, <3>2 DEF Program, new_partial
      <4> QED
        BY <3>1, <4>1
    <3>3. CASE p = "starting"
      <4>1. Program(n)' = new_full(c)'
        BY <1>2, <3>3 DEF Program, new_full
      <4> QED
        BY <3>1, <4>1
    <3> QED
      BY <3>2, <3>3
  <2>3. done'[n] = 0 /\ 0 <= Len(Program(n)')
    BY <2>2 DEF RolesKept
  <2>4. \A m \in Nodes : phase'[m] # "off" => done'[m] <= Len(Program(m)')
    BY <1>1, <2>3 DEF Types
  <2>5. ClockOK'
    BY DEF Types, ClockOK, time, head
  <2> QED
    BY <2>1, <2>4, <2>5 DEF Types, ClockOK
<1>4. RolesKept'
  BY <1>1, <1>2 DEF RolesKept, Types
<1>5. OneValidator'
  <2>1. \A m \in Nodes \ {n} : Validates(m)' <=> Validates(m)
    BY <1>1 DEF Validates
  <2>2. Validates(n)' => \A m \in Nodes \ {n} : ~Validates(m)
    BY <1>2 DEF Validates, MayValidate
  <2> QED
    BY <2>1, <2>2 DEF OneValidator
<1> QED
  BY <1>3, <1>4, <1>5

\* The next step of the start-up keeps it.
LEMMA StartStepIInv ==
    ASSUME NEW n \in Nodes, IInv, StartStep(n)
    PROVE  IInv'
<1> USE DEF IInv, StartStep
<1>1. config[n] \in Configs /\ done[n] \in Nat
  BY DEF Types
<1>2. \A m \in Nodes : Program(m)' = Program(m)
  BY DEF Program, new_full, new_full_demo, new_full_dev, new_partial
<1>3. /\ Program(n) \in Seq(StepRecords)
      /\ ~config[n].authority => Quiet(Program(n))
  BY <1>1, ProgramSteps
<1> DEFINE s == Program(n)[done[n] + 1]
<1>4. s \in StepRecords /\ (~config[n].authority => "aura" \notin s.spawns)
  <2>1. done[n] + 1 \in 1 .. Len(Program(n))
    BY <1>1, <1>3
  <2> QED
    BY <1>3, <2>1 DEF Quiet
<1>5. tasks' = [tasks EXCEPT ![n] = @ \cup s.spawns] /\ s.spawns \subseteq Tasks
  BY <1>4 DEF StepRecords
<1> HIDE DEF s
<1>6. Types'
  <2>1. done' \in [Nodes -> Nat] /\ tasks' \in [Nodes -> SUBSET Tasks]
    BY <1>5 DEF Types
  <2>2. \A m \in Nodes : phase'[m] # "off" => done'[m] <= Len(Program(m)')
    <3>1. TAKE m \in Nodes
    <3>2. CASE m = n
      BY <3>2, <1>1, <1>2, <1>3 DEF Types
    <3>3. CASE m # n
      BY <3>3, <1>2 DEF Types
    <3> QED
      BY <3>2, <3>3
  <2>3. ClockOK'
    BY DEF Types, ClockOK, time, head
  <2> QED
    BY <2>1, <2>2, <2>3 DEF Types, ClockOK
<1>7. RolesKept'
  BY <1>4, <1>5 DEF RolesKept, Types
<1>8. OneValidator'
  BY DEF OneValidator, Validates
<1> QED
  BY <1>6, <1>7, <1>8

\* The service is complete: only the phase changes, and not the program.
LEMMA StartedIInv ==
    ASSUME NEW n \in Nodes, IInv, Started(n)
    PROVE  IInv'
<1> USE DEF IInv, Started
<1>1. \A m \in Nodes : /\ phase'[m] = "off" <=> phase[m] = "off"
                       /\ phase'[m] = "command" <=> phase[m] = "command"
  BY DEF Types
<1>2. \A m \in Nodes : Program(m)' = Program(m)
  BY <1>1 DEF Program, new_full
<1>3. Types'
  <2>1. phase' \in [Nodes -> {"off", "starting", "up", "command"}]
    BY DEF Types
  <2>2. ClockOK'
    BY DEF Types, ClockOK, time, head
  <2> QED
    BY <1>1, <1>2, <2>1, <2>2 DEF Types, ClockOK
<1>4. RolesKept' /\ OneValidator'
  BY <1>1 DEF RolesKept, OneValidator, Validates
<1> QED
  BY <1>3, <1>4

\* A task is lost: tasks get fewer.
LEMMA TaskEndsIInv ==
    ASSUME NEW n \in Nodes, NEW t, IInv, TaskEnds(n, t)
    PROVE  IInv'
<1> USE DEF IInv, TaskEnds
<1>1. \A m \in Nodes : Program(m)' = Program(m)
  BY DEF Program, new_full
<1>2. \A m \in Nodes : tasks'[m] \subseteq tasks[m]
  BY DEF Types
<1>3. Types'
  <2>1. tasks' \in [Nodes -> SUBSET Tasks]
    BY DEF Types
  <2>2. failed' \in [Nodes -> BOOLEAN]
    <3>1. (failed[n] \/ t \in Essential) \in BOOLEAN
      BY DEF Types
    <3> QED
      BY <3>1, Zenon DEF Types
  <2>3. ClockOK'
    BY DEF Types, ClockOK, time, head
  <2> QED
    BY <1>1, <2>1, <2>2, <2>3 DEF Types, ClockOK
<1>4. RolesKept' /\ OneValidator'
  BY <1>2 DEF RolesKept, OneValidator, Validates
<1> QED
  BY <1>3, <1>4

\* New keys: the operator's rule again.
LEMMA InsertKeysIInv ==
    ASSUME NEW n \in Nodes, IInv, InsertKeys(n)
    PROVE  IInv'
<1> USE DEF IInv, InsertKeys, processes
<1>1. \A m \in Nodes : Program(m)' = Program(m)
  BY DEF Program, new_full
<1>2. Types'
  <2>1. keystore' \in [Nodes -> SUBSET Keys]
    BY DEF Types
  <2>2. ClockOK'
    BY DEF Types, ClockOK, time, head
  <2> QED
    BY <1>1, <2>1, <2>2 DEF Types, ClockOK
<1>3. RolesKept'
  BY DEF RolesKept
<1>4. OneValidator'
  <2>1. \A m \in Nodes \ {n} : Validates(m)' <=> Validates(m)
    BY DEF Validates, Types
  <2>2. Validates(n)' => \A m \in Nodes \ {n} : ~Validates(m)
    BY DEF Validates, MayValidate
  <2> QED
    BY <2>1, <2>2 DEF OneValidator
<1> QED
  BY <1>2, <1>3, <1>4

\* The clock and authoring leave the processes alone.
LEMMA ClockIInv ==
    ASSUME IInv, Tick \/ \E n \in Nodes : Author(n)
    PROVE  IInv'
<1> USE DEF IInv
<1>1. UNCHANGED <<service, processes, keystore>>
  BY DEF Tick, Author
<1>2. \A m \in Nodes : Program(m)' = Program(m)
  BY <1>1 DEF Program, new_full, processes
<1>3. ClockOK'
  <2>0. ClockOK
    BY DEF Types, ClockOK
  <2>1. CASE Tick
    <3>1. slot' \in 0 .. Len(Authorities) - 1
      BY <2>0, <2>1, Slots DEF Tick, ClockOK
    <3>2. offset' \in 0 .. SlotDuration - 1 /\ lag' \in 0 .. 2 /\ drift' = drift
      BY <2>0, <2>1, Slots DEF Tick, ClockOK
    <3> QED
      BY <2>0, <3>1, <3>2, Slots DEF ClockOK
  <2>2. ASSUME NEW n \in Nodes, Author(n) PROVE ClockOK'
    <3>1. InherentTimestamp \in Nat
      BY <2>0, Slots DEF ClockOK, InherentTimestamp
    <3>2. drift' \in 0 .. SlotDuration - 1
      BY <2>2, <3>1, Slots, InSlot DEF Author
    <3>3. lag' = 0 /\ slot' = slot /\ offset' = offset
      BY <2>2 DEF Author, time
    <3> QED
      BY <2>0, <3>2, <3>3 DEF ClockOK
  <2> QED
    BY <2>1, <2>2
<1>4. Types'
  BY <1>1, <1>2, <1>3 DEF Types, ClockOK, processes
<1>5. RolesKept' /\ OneValidator'
  BY <1>1 DEF RolesKept, OneValidator, Validates, processes
<1> QED
  BY <1>4, <1>5

\* Every step keeps the invariant.
LEMMA NextIInv == IInv /\ [Next]_vars => IInv'
<1> SUFFICES ASSUME IInv, [Next]_vars PROVE IInv'
  OBVIOUS
<1>1. ASSUME NEW n \in Nodes, NEW c \in Configs, run_node(n, c) PROVE IInv'
  BY <1>1, LaunchIInv DEF run_node
<1>2. ASSUME NEW n \in Nodes, run_command(n) PROVE IInv'
  <2>1. PICK c \in Configs : ~c.authority /\ Launch(n, c, "command")
    BY <1>2 DEF run_command
  <2> QED
    BY <2>1, LaunchIInv
<1>3. ASSUME NEW n \in Nodes, StartStep(n) \/ Started(n) PROVE IInv'
  BY <1>3, StartStepIInv, StartedIInv
<1>4. ASSUME NEW n \in Nodes,
             StartFails(n) \/ CommandEnds(n) \/ TakenDown(n) \/ Killed(n)
      PROVE  IInv'
  BY <1>4, ExitIInv DEF StartFails, CommandEnds, TakenDown, Killed
<1>5. ASSUME NEW n \in Nodes, NEW t \in tasks[n], TaskEnds(n, t) PROVE IInv'
  BY <1>5, TaskEndsIInv
<1>6. ASSUME NEW n \in Nodes, InsertKeys(n) PROVE IInv'
  BY <1>6, InsertKeysIInv
<1>7. ASSUME NEW n \in Nodes, Author(n) PROVE IInv'
  BY <1>7, ClockIInv
<1>8. CASE Tick
  BY <1>8, ClockIInv
<1>9. CASE UNCHANGED vars
  <2>1. \A m \in Nodes : Program(m)' = Program(m)
    BY <1>9 DEF Program, new_full, vars, processes
  <2>2. Types'
    BY <1>9, <2>1 DEF IInv, Types, vars, processes, time, head
  <2>3. RolesKept' /\ OneValidator'
    BY <1>9 DEF IInv, RolesKept, OneValidator, Validates, vars, processes
  <2> QED
    BY <2>2, <2>3 DEF IInv
<1> QED
  BY <1>1, <1>2, <1>3, <1>4, <1>5, <1>6, <1>7, <1>8, <1>9 DEF Next

\* The inductive invariant is one of the specification.
LEMMA Inductive == Spec => []IInv
BY InitIInv, NextIInv, PTL DEF Spec

-----------------------------------------------------------------------------
(* Theorems.                                                                   *)

\* Processes, tasks, keystores, clock and chain keep their types, no process is
\* further than its start-up is long, and only an authority runs "aura", through
\* every failed start, crash and change of role (new_full).
THEOREM TypeCorrect == Spec => []TypeOK
<1>1. IInv => TypeOK
  BY DEF IInv, TypeOK
<1> QED
  BY <1>1, Inductive, PTL

\* No two processes of the demo chain sign with one key, as long as the operator
\* starts one validator at a time: a node that was made a full node is silent
\* although its keystore still holds the keys.
THEOREM OneSigner == Spec => []OneSignerPerKey
<1>1. IInv => OneSignerPerKey
  <2> SUFFICES ASSUME IInv, NEW n \in Nodes, NEW m \in Nodes, n # m,
                      SignsWith(n) \cap SignsWith(m) # {},
                      ~VotesUnasked(n), ~VotesUnasked(m)
               PROVE  FALSE
    BY DEF OneSignerPerKey
  <2>1. ASSUME NEW k \in Nodes, SignsWith(k) # {}, ~VotesUnasked(k)
        PROVE  Validates(k)
    <3>1. tasks[k] # {} /\ keystore[k] # {}
      BY <2>1 DEF SignsWith, VoterKeystore
    <3>2. phase[k] # "off"
      BY <3>1 DEF IInv, RolesKept
    <3>3. config[k].authority
      <4>1. CASE "aura" \in tasks[k]
        BY <4>1 DEF IInv, RolesKept
      <4>2. CASE "aura" \notin tasks[k]
        BY <4>2, <2>1 DEF SignsWith, VoterKeystore, VotesUnasked
      <4> QED
        BY <4>1, <4>2
    <3> QED
      BY <3>1, <3>2, <3>3 DEF Validates
  <2>2. Validates(n) /\ Validates(m)
    BY <2>1
  <2> QED
    BY <2>2 DEF IInv, OneValidator
<1> QED
  BY <1>1, Inductive, PTL

\* A timestamp that is pushed to half a slot after the last one still lies in
\* the slot that is being authored, whatever the length of a slot.
THEOREM TimestampInSlot == Spec => []InherentFitsSlot
<1>1. IInv => InherentFitsSlot
  <2> SUFFICES ASSUME IInv, lag > 0
               PROVE  InherentTimestamp \div SlotDuration = lag
    BY DEF InherentFitsSlot
  <2>1. lag \in {1, 2} /\ offset \in 0 .. SlotDuration - 1 /\ drift \in 0 .. SlotDuration - 1
    BY DEF IInv, Types
  <2>2. CASE lag = 1
    <3>1. InherentTimestamp \in Nat /\ SlotDuration <= InherentTimestamp
          /\ InherentTimestamp < 2 * SlotDuration
      BY <2>1, <2>2, Slots DEF InherentTimestamp
    <3> QED
      BY <2>2, <3>1, Slots, InSlot
  <2>3. CASE lag = 2
    <3>1. InherentTimestamp \in Nat /\ 2 * SlotDuration <= InherentTimestamp
          /\ InherentTimestamp < 3 * SlotDuration
      BY <2>1, <2>3, Slots DEF InherentTimestamp
    <3> QED
      BY <2>3, <3>1, Slots, InSlot
  <2> QED
    BY <2>1, <2>2, <2>3
<1> QED
  BY <1>1, Inductive, PTL

=============================================================================
