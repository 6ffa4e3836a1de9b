-------------------------- MODULE AimContainerProofs --------------------------
(***************************************************************************)
(* The liveness probe is patient enough: a container that is killed was    *)
(* slow to start, or its probes timed out, or a program of it died.  The   *)
(* argument is an account of time: every probe that failed in a container  *)
(* without deaths was due no earlier than the delay and a period for each  *)
(* failure before it, and none can fail after the programs are running     *)
(* unless it times out.                                                    *)
(***************************************************************************)
EXTENDS AimContainer, TLAPS

States == {"STOPPED", "STARTING", "RUNNING", "BACKOFF", "FATAL"}

TypeOK ==
    /\ lp \in LivenessProbes
    /\ phase \in {"submitted", "rejected", "init", "serving"}
    /\ age \in Nat /\ took \in Nat /\ timer \in Nat /\ failures \in Nat
    /\ progs \in [Programs -> [state : States, up : Nat, retries : Nat]]
    /\ sick \subseteq Programs /\ died \in BOOLEAN
    /\ timeouts \in Nat /\ outages \in Nat /\ slow \in Nat

Rpc == progs["aim-rpc"]

\* Without deaths the programs start together, and the slowest is aim-rpc.
InStep ==
    /\ phase = "init" => progs = Stopped /\ age < took
    /\ phase = "serving" =>
          /\ age = took
          /\ progs["aim-event"] = Rpc
          /\ \/ Rpc.state = "RUNNING" /\ progs["aim-aid"].state = "RUNNING"
             \/ /\ Rpc.state = "STARTING" /\ Rpc.up * Tick <= 10
                /\ \/ progs["aim-aid"].state = "RUNNING"
                   \/ progs["aim-aid"].state = "STARTING" /\ Rpc.up = 0

\* Seconds since the start, as long as probes must fail.
Elapsed == (IF phase = "init" THEN age ELSE took + Rpc.up) * Tick

OnTime ==
    /\ ~(phase = "serving" /\ Rpc.state = "RUNNING") =>
          timeouts = 0 /\ Elapsed + timer * Tick >= 30 + 10 * failures
    /\ failures > timeouts => took * Tick + 10 >= 30 + 10 * (failures - timeouts - 1)

Account == Alive /\ ~died => InStep /\ (Probed(lp) /\ Patient(lp) => OnTime)

-------------------------------------------------------------------------------
(* Lemmas on the probe *)

\* The settings of the probe are numbers, and no stricter than the defaults if the
\* user asked for nothing stricter.
LEMMA ProbeSettings ==
    ASSUME NEW p \in LivenessProbes
    PROVE  /\ Probe(p).initialDelay \in Nat /\ Probe(p).period \in Nat
           /\ Probe(p).failureThreshold \in Nat
           /\ Patient(p) => /\ Probe(p).initialDelay >= 30 /\ Probe(p).period >= 10
                            /\ Probe(p).failureThreshold >= 3
  <1>1. CASE p = NoProbe
    BY <1>1 DEF Probe, Setting
  <1>2. CASE p # NoProbe
    <2>1. p \in LivenessProbeSpec
      BY <1>2, AimContainerAssumption
    <2>2. /\ p.initialDelay \in Nat /\ p.period \in Nat /\ p.failureThreshold \in Nat
      BY <2>1 DEF LivenessProbeSpec
    <2>3. /\ Probe(p).initialDelay = IF p.initialDelay > 0 THEN p.initialDelay ELSE 30
          /\ Probe(p).period = IF p.period > 0 THEN p.period ELSE 10
          /\ Probe(p).failureThreshold = IF p.failureThreshold > 0 THEN p.failureThreshold ELSE 3
      BY <1>2 DEF Probe, Setting
    <2> QED
      BY <1>2, <2>2, <2>3 DEF Patient
  <1> QED
    BY <1>1, <1>2

\* Whole ticks do not shorten the default delay and period.
LEMMA WholeTicks ==
    ASSUME Tick \in {1, 2, 5, 10}, NEW s \in Nat
    PROVE  /\ s \div Tick \in Nat
           /\ s >= 10 => (s \div Tick) * Tick >= 10
           /\ s >= 30 => (s \div Tick) * Tick >= 30
  <1>1. CASE Tick = 1
    BY <1>1
  <1>2. CASE Tick = 2
    BY <1>2
  <1>3. CASE Tick = 5
    BY <1>3
  <1>4. CASE Tick = 10
    BY <1>4
  <1> QED
    BY <1>1, <1>2, <1>3, <1>4

\* The first probe of a container is due after the delay.
LEMMA FirstIsLate ==
    ASSUME Tick \in {1, 2, 5, 10}, NEW p \in LivenessProbes, NEW t \in FirstProbe(p)
    PROVE  t \in Nat /\ (Patient(p) => t * Tick >= 30)
  <1> DEFINE delay == Probe(p).initialDelay \div Tick
             span == Probe(p).period \div Tick
  <1>1. delay \in Nat /\ span \in Nat /\ (Patient(p) => delay * Tick >= 30)
    BY ProbeSettings, WholeTicks
  <1>2. t \in delay .. (delay + span - 1)
    BY DEF FirstProbe
  <1> HIDE DEF delay, span
  <1>3. t \in Nat /\ t >= delay
    BY <1>1, <1>2
  <1>4. t * Tick >= delay * Tick
    BY <1>1, <1>3
  <1> QED
    BY <1>1, <1>3, <1>4

-------------------------------------------------------------------------------
(* Types *)

LEMMA InitTypeC == Init => TypeOK
  <1> SUFFICES ASSUME Init PROVE TypeOK
    OBVIOUS
  <1>1. progs \in [Programs -> [state : States, up : Nat, retries : Nat]]
    BY DEF Init, Stopped, States
  <1>2. died \in BOOLEAN
    BY Zenon DEF Init
  <1> QED
    BY <1>1, <1>2 DEF Init, TypeOK

\* A new container.
LEMMA StartTypes ==
    ASSUME Tick \in {1, 2, 5, 10}, TypeOK, StartContainer
    PROVE  /\ phase' = "init" /\ age' = 0 /\ took' \in Nat \ {0} /\ timer' \in Nat
           /\ failures' = 0 /\ ~died' /\ died' \in BOOLEAN /\ timeouts' = 0
           /\ progs' = Stopped
           /\ progs' \in [Programs -> [state : States, up : Nat, retries : Nat]]
           /\ Probed(lp) /\ Patient(lp) => timer' * Tick >= 30
  <1>1. took' \in Nat \ {0}
    BY AimContainerAssumption DEF StartContainer
  <1>2. ~died' /\ died' \in BOOLEAN
    BY Zenon DEF StartContainer
  <1>3. progs' \in [Programs -> [state : States, up : Nat, retries : Nat]]
    BY DEF StartContainer, Stopped, States
  <1>4. timer' \in Nat /\ (Probed(lp) /\ Patient(lp) => timer' * Tick >= 30)
    <2>1. CASE Probed(lp)
      BY <2>1, FirstIsLate DEF StartContainer, TypeOK
    <2>2. CASE ~Probed(lp)
      BY <2>2 DEF StartContainer
    <2> QED
      BY <2>1, <2>2
  <1> QED
    BY <1>1, <1>2, <1>3, <1>4 DEF StartContainer

LEMMA NextTypeC ==
    ASSUME Tick \in {1, 2, 5, 10}, TypeOK, [Next]_vars
    PROVE  TypeOK'
  <1>0. Probe(lp).period \div Tick \in Nat
    BY ProbeSettings, WholeTicks DEF TypeOK
  <1>1. CASE Create
    BY <1>1, StartTypes DEF Create, TypeOK
  <1>2. CASE Reject
    BY <1>2 DEF Reject, TypeOK
  <1>3. CASE ProbeSucceeds
    BY <1>0, <1>3 DEF ProbeSucceeds, TypeOK
  <1>4. CASE ProbeFails
    <2>1. slow' \in Nat
      BY <1>4 DEF ProbeFails, TypeOK
    <2>2. CASE StartContainer
      BY <1>4, <2>1, <2>2, StartTypes DEF ProbeFails, TypeOK
    <2>3. CASE /\ failures' = failures + 1 /\ timer' = Probe(lp).period \div Tick
               /\ timeouts' = IF HealthCheck THEN timeouts + 1 ELSE timeouts
               /\ UNCHANGED <<phase, age, took, progs, died>>
      BY <1>0, <1>4, <2>1, <2>3 DEF ProbeFails, TypeOK
    <2> QED
      BY <1>4, <2>2, <2>3 DEF ProbeFails
  <1>5. CASE Passes
    <2>1. /\ timer' \in Nat /\ age' \in Nat /\ phase' \in {"init", "serving"}
      BY <1>5 DEF Passes, TypeOK, Alive
    <2>2. progs' \in [Programs -> [state : States, up : Nat, retries : Nat]]
      <3>1. \A p \in Programs : /\ Older(progs[p], p) \in [state : States, up : Nat, retries : Nat]
                                /\ Starting \in [state : States, up : Nat, retries : Nat]
        BY DEF TypeOK, Older, Starting, States
      <3> QED
        BY <1>5, <3>1 DEF Passes, TypeOK
    <2> QED
      BY <1>5, <2>1, <2>2 DEF Passes, TypeOK
  <1>6. ASSUME NEW p \in Programs, Dies(p)
        PROVE  TypeOK'
    <2>1. progs[p] \in [state : States, up : Nat, retries : Nat]
      BY DEF TypeOK
    <2> DEFINE new == IF progs[p].state = "RUNNING" THEN Starting
                      ELSE [state |-> IF progs[p].retries < startretries THEN "BACKOFF" ELSE "FATAL",
                            up |-> 0,
                            retries |-> IF progs[p].retries < startretries
                                        THEN progs[p].retries + 1 ELSE 0]
    <2>2. new \in [state : States, up : Nat, retries : Nat]
      BY <2>1 DEF Starting, States
    <2>3. progs' = [progs EXCEPT ![p] = new]
      BY <1>6 DEF Dies
    <2> HIDE DEF new
    <2> QED
      BY <1>6, <2>2, <2>3 DEF Dies, TypeOK
  <1>7. ASSUME NEW p \in Programs, Retry(p)
        PROVE  TypeOK'
    BY <1>7 DEF Retry, TypeOK, States
  <1>8. ASSUME NEW p \in Programs, Fails(p) \/ Recovers(p)
        PROVE  TypeOK'
    BY <1>8 DEF Fails, Recovers, TypeOK
  <1>9. CASE UNCHANGED vars
    BY <1>9 DEF vars, TypeOK
  <1> QED
    BY <1>1, <1>2, <1>3, <1>4, <1>5, <1>6, <1>7, <1>8, <1>9 DEF Next, System

-------------------------------------------------------------------------------
(* The account is kept *)

\* Without deaths, the check succeeds exactly when aim-rpc is running.
LEMMA HealthIsRpc ==
    ASSUME TypeOK, Alive, InStep
    PROVE  HealthCheck <=> phase = "serving" /\ Rpc.state = "RUNNING"
  BY DEF InStep, HealthCheck, Rpc, Programs

\* Until aim-rpc is running, no more than the start and ten seconds have passed.
LEMMA ElapsedBounded ==
    ASSUME Tick \in {1, 2, 5, 10}, TypeOK, Alive, InStep,
           ~(phase = "serving" /\ Rpc.state = "RUNNING")
    PROVE  took * Tick + 10 >= Elapsed
  <1>1. CASE phase = "init"
    BY <1>1 DEF InStep, Elapsed, TypeOK
  <1>2. CASE phase = "serving"
    <2>1. Rpc.up * Tick <= 10 /\ Rpc.up \in Nat
      BY <1>2 DEF InStep, Rpc, TypeOK, Programs
    <2>2. Elapsed = took * Tick + Rpc.up * Tick
      BY <1>2, <2>1 DEF Elapsed, TypeOK
    <2> QED
      BY <2>1, <2>2 DEF TypeOK
  <1> QED
    BY <1>1, <1>2 DEF Alive

\* A new container starts with a clean account.
LEMMA StartKeepsAccount ==
    ASSUME Tick \in {1, 2, 5, 10}, TypeOK, StartContainer, UNCHANGED lp
    PROVE  Account'
  <1>1. /\ phase' = "init" /\ age' = 0 /\ took' \in Nat \ {0} /\ timer' \in Nat
        /\ failures' = 0 /\ timeouts' = 0 /\ progs' = Stopped
        /\ Probed(lp) /\ Patient(lp) => timer' * Tick >= 30
    BY StartTypes
  <1>2. InStep'
    BY <1>1 DEF InStep, Stopped
  <1>3. Probed(lp) /\ Patient(lp) => OnTime'
    <2>1. Elapsed' = 0
      BY <1>1 DEF Elapsed
    <2>2. ASSUME Probed(lp), Patient(lp)
          PROVE  Elapsed' + timer' * Tick >= 30 + 10 * failures'
      <3>1. timer' * Tick \in Nat
        <4>1. timer' \in Nat /\ Tick \in Nat
          BY <1>1
        <4>2. \A a, b \in Nat : a * b \in Nat
          OBVIOUS
        <4> QED
          BY <4>1, <4>2
      <3>2. timer' * Tick >= 30
        BY <1>1, <2>2
      <3>3. \A x \in Nat : x >= 30 => 0 + x >= 30 + 10 * 0
        OBVIOUS
      <3> QED
        BY <1>1, <2>1, <3>1, <3>2, <3>3
    <2>3. ~(failures' > timeouts')
      BY <1>1
    <2> QED
      BY <1>1, <2>2, <2>3 DEF OnTime
  <1> QED
    BY <1>2, <1>3 DEF Account, Probed, Patient

\* A probe that fails without killing.
LEMMA FailureKeepsAccount ==
    ASSUME Tick \in {1, 2, 5, 10}, TypeOK, Account, Alive, ~died, ProbeFails,
           failures' = failures + 1, timer' = Probe(lp).period \div Tick,
           timeouts' = IF HealthCheck THEN timeouts + 1 ELSE timeouts,
           UNCHANGED <<phase, age, took, progs, died>>
    PROVE  Account'
  <1>1. InStep /\ InStep' /\ UNCHANGED <<lp, phase, age, took, progs>> /\ timer = 0 /\ Probed(lp)
    BY DEF Account, InStep, Rpc, Stopped, ProbeFails, ProbeIsDue
  <1>2. SUFFICES ASSUME Patient(lp) PROVE OnTime'
    BY <1>1 DEF Account, Patient
  <1>3. OnTime
    BY <1>1, <1>2 DEF Account
  <1>4. timer' \in Nat /\ timer' * Tick >= 10
    BY <1>2, ProbeSettings, WholeTicks DEF TypeOK
  <1>5. CASE phase = "serving" /\ Rpc.state = "RUNNING"
    <2>1. timeouts' = timeouts + 1
      BY <1>1, <1>5, HealthIsRpc
    <2> QED
      BY <1>1, <1>3, <1>5, <2>1 DEF OnTime, Rpc, TypeOK
  <1>6. CASE ~(phase = "serving" /\ Rpc.state = "RUNNING")
    <2>1. timeouts' = timeouts /\ timeouts = 0
      BY <1>1, <1>3, <1>6, HealthIsRpc DEF OnTime
    <2>2. Elapsed' = Elapsed /\ Elapsed \in Nat /\ Elapsed >= 30 + 10 * failures
      BY <1>1, <1>3, <1>6 DEF OnTime, Elapsed, Rpc, TypeOK, Programs
    <2>3. Elapsed' + timer' * Tick >= 30 + 10 * failures'
      BY <1>4, <2>2 DEF TypeOK
    <2>4. took * Tick + 10 >= Elapsed
      BY <1>1, <1>6, ElapsedBounded
    <2>5. took * Tick + 10 >= 30 + 10 * failures
      BY <2>2, <2>4 DEF TypeOK
    <2> QED
      BY <1>1, <2>1, <2>3, <2>5 DEF OnTime, TypeOK
  <1> QED
    BY <1>5, <1>6

\* A probe that succeeds: the programs are running from now on.
LEMMA SuccessKeepsAccount ==
    ASSUME TypeOK, Account, Alive, ~died, ProbeSucceeds
    PROVE  Account'
  <1>1. InStep /\ UNCHANGED <<lp, phase, age, took, progs, timeouts>> /\ failures' = 0
    BY DEF Account, ProbeSucceeds
  <1>2. phase = "serving" /\ Rpc.state = "RUNNING"
    BY <1>1, HealthIsRpc DEF ProbeSucceeds
  <1>3. InStep'
    BY <1>1 DEF InStep, Rpc, Stopped
  <1>4. OnTime'
    BY <1>1, <1>2 DEF OnTime, Rpc, TypeOK
  <1> QED
    BY <1>3, <1>4 DEF Account

\* A tick passes.
LEMMA TickKeepsAccount ==
    ASSUME Tick \in {1, 2, 5, 10}, TypeOK, Account, Alive, ~died, Passes
    PROVE  Account'
  <1>0. InStep /\ UNCHANGED <<lp, took, failures, timeouts>>
    BY DEF Account, Passes
  <1>1. CASE phase = "init" /\ age + 1 # took
    <2>1. /\ phase' = "init" /\ age' = age + 1 /\ progs' = progs
      BY <1>1 DEF Passes
    <2>2. InStep'
      BY <1>0, <1>1, <2>1 DEF InStep, TypeOK, Stopped
    <2>3. ASSUME Probed(lp), Patient(lp) PROVE OnTime'
      <3>1. OnTime /\ timer' = timer - 1 /\ timer > 0
        BY <2>3 DEF Account, Passes, ProbeIsDue, TypeOK
      <3>2. Elapsed' + timer' * Tick = Elapsed + timer * Tick
        BY <1>1, <2>1, <3>1 DEF Elapsed, TypeOK
      <3> QED
        BY <1>0, <1>1, <2>1, <3>1, <3>2 DEF OnTime, TypeOK
    <2> QED
      BY <1>0, <2>2, <2>3 DEF Account, Probed, Patient
  <1>2. CASE phase = "init" /\ age + 1 = took
    <2>1. /\ phase' = "serving" /\ age' = took /\ progs' = [p \in Programs |-> Starting]
      BY <1>2 DEF Passes
    <2>2. /\ Rpc' = Starting /\ progs'["aim-event"] = Starting /\ progs'["aim-aid"] = Starting
      BY <2>1 DEF Rpc, Programs
    <2>3. InStep'
      BY <1>0, <2>1, <2>2 DEF InStep, Starting
    <2>4. ASSUME Probed(lp), Patient(lp) PROVE OnTime'
      <3>1. OnTime /\ timer' = timer - 1 /\ timer > 0
        BY <2>4 DEF Account, Passes, ProbeIsDue, TypeOK
      <3>2. Elapsed' = took * Tick /\ Elapsed = age * Tick
        BY <1>0, <1>2, <2>1, <2>2 DEF Elapsed, Starting, TypeOK
      <3>3. Elapsed' + timer' * Tick = Elapsed + timer * Tick
        BY <1>2, <3>1, <3>2 DEF TypeOK
      <3> QED
        BY <1>0, <1>2, <2>1, <2>2, <3>1, <3>3 DEF OnTime, TypeOK
    <2> QED
      BY <1>0, <2>3, <2>4 DEF Account, Probed, Patient
  <1>3. CASE phase = "serving"
    <2>1. /\ UNCHANGED <<phase, age>> /\ progs' = [p \in Programs |-> Older(progs[p], p)]
      BY <1>3 DEF Passes
    <2>2. /\ Rpc' = Older(Rpc, "aim-rpc") /\ progs'["aim-event"] = Older(progs["aim-event"], "aim-event")
          /\ progs'["aim-aid"] = Older(progs["aim-aid"], "aim-aid")
      BY <2>1 DEF Rpc, Programs
    <2>3. /\ startsecs["aim-rpc"] = 10 /\ startsecs["aim-event"] = 10 /\ startsecs["aim-aid"] = 0
      BY DEF startsecs, Programs
    <2>4. /\ Rpc \in [state : States, up : Nat, retries : Nat]
          /\ progs["aim-aid"] \in [state : States, up : Nat, retries : Nat]
      BY DEF Rpc, TypeOK, Programs
    <2>5. progs'["aim-event"] = Rpc'
      BY <1>0, <1>3, <2>2, <2>3 DEF InStep, Older
    <2>6. progs'["aim-aid"].state = "RUNNING"
      BY <1>0, <1>3, <2>2, <2>3, <2>4 DEF InStep, Older
    <2>7. CASE Rpc.state = "RUNNING"
      <3>1. Rpc' = Rpc
        BY <2>2, <2>7 DEF Older
      <3>2. InStep'
        BY <1>0, <1>3, <2>1, <2>5, <2>6, <2>7, <3>1 DEF InStep
      <3>3. OnTime => OnTime'
        BY <1>0, <1>3, <2>1, <2>7, <3>1 DEF OnTime
      <3> QED
        BY <1>0, <3>2, <3>3 DEF Account, Probed, Patient
    <2>8. CASE Rpc.state = "STARTING" /\ (Rpc.up + 1) * Tick > 10
      <3>1. Rpc'.state = "RUNNING"
        BY <2>2, <2>3, <2>8 DEF Older
      <3>2. InStep'
        BY <1>0, <1>3, <2>1, <2>5, <2>6, <3>1 DEF InStep
      <3>3. OnTime => OnTime'
        BY <1>0, <1>3, <2>1, <3>1 DEF OnTime
      <3> QED
        BY <1>0, <3>2, <3>3 DEF Account, Probed, Patient
    <2>9. CASE Rpc.state = "STARTING" /\ ~((Rpc.up + 1) * Tick > 10)
      <3>1. Rpc'.state = "STARTING" /\ Rpc'.up = Rpc.up + 1 /\ Rpc'.up * Tick <= 10
        BY <2>2, <2>3, <2>4, <2>9 DEF Older
      <3>2. InStep'
        BY <1>0, <1>3, <2>1, <2>5, <2>6, <3>1 DEF InStep
      <3>3. ASSUME Probed(lp), Patient(lp) PROVE OnTime'
        <4>1. OnTime /\ timer' = timer - 1 /\ timer > 0
          BY <3>3 DEF Account, Passes, ProbeIsDue, TypeOK
        <4>2. Elapsed' = (took + Rpc.up + 1) * Tick /\ Elapsed = (took + Rpc.up) * Tick
          BY <1>0, <1>3, <2>1, <2>4, <3>1 DEF Elapsed, TypeOK
        <4>3. Elapsed' + timer' * Tick = Elapsed + timer * Tick
          BY <2>4, <4>1, <4>2 DEF TypeOK
        <4> QED
          BY <1>0, <1>3, <2>1, <2>9, <3>1, <4>1, <4>3 DEF OnTime, TypeOK
      <3> QED
        BY <1>0, <3>2, <3>3 DEF Account, Probed, Patient
    <2> QED
      BY <1>0, <1>3, <2>7, <2>8, <2>9 DEF InStep
  <1> QED
    BY <1>1, <1>2, <1>3 DEF Alive

LEMMA NextAccount ==
    ASSUME Tick \in {1, 2, 5, 10}, TypeOK, Account, [Next]_vars
    PROVE  Account'
  <1>1. CASE Create
    BY <1>1, StartKeepsAccount DEF Create
  <1>2. CASE Reject
    BY <1>2 DEF Reject, Account, Alive
  <1>3. CASE ProbeFails
    <2>1. CASE StartContainer
      BY <1>3, <2>1, StartKeepsAccount DEF ProbeFails
    <2>2. CASE /\ failures' = failures + 1 /\ timer' = Probe(lp).period \div Tick
               /\ timeouts' = IF HealthCheck THEN timeouts + 1 ELSE timeouts
               /\ UNCHANGED <<phase, age, took, progs, died>>
      <3>1. CASE died
        BY <2>2, <3>1 DEF Account
      <3>2. CASE ~died
        BY <1>3, <2>2, <3>2, FailureKeepsAccount DEF ProbeFails, ProbeIsDue
      <3> QED
        BY <3>1, <3>2
    <2> QED
      BY <1>3, <2>1, <2>2 DEF ProbeFails
  <1>4. CASE ProbeSucceeds \/ Passes
    <2>1. Alive /\ died' = died
      BY <1>4 DEF ProbeSucceeds, Passes, ProbeIsDue
    <2>2. CASE died
      BY <2>1, <2>2 DEF Account
    <2>3. CASE ~died
      BY <1>4, <2>1, <2>3, SuccessKeepsAccount, TickKeepsAccount
    <2> QED
      BY <2>2, <2>3
  <1>5. ASSUME NEW p \in Programs, Dies(p)
        PROVE  Account'
    BY <1>5 DEF Dies, Account
  <1>6. ASSUME NEW p \in Programs, Retry(p)
        PROVE  Account'
    <2>1. CASE ~Alive \/ died
      BY <1>6, <2>1 DEF Retry, Account, Alive
    <2>2. CASE Alive /\ ~died
      <3>1. progs[p].state \in {"STOPPED", "STARTING", "RUNNING"}
        BY <2>2 DEF Account, InStep, Rpc, Programs, Stopped, Alive
      <3> QED
        BY <1>6, <3>1 DEF Retry
    <2> QED
      BY <2>1, <2>2
  <1>7. CASE UNCHANGED <<lp, phase, age, took, timer, failures, progs, died, timeouts>>
    BY <1>7 DEF Account, Alive, InStep, OnTime, Elapsed, Rpc, Probed, Patient, Stopped
  <1>8. ASSUME NEW p \in Programs, Fails(p) \/ Recovers(p)
        PROVE  Account'
    BY <1>7, <1>8 DEF Fails, Recovers
  <1> QED
    BY <1>1, <1>2, <1>3, <1>4, <1>5, <1>6, <1>7, <1>8 DEF Next, System, vars

\* For every setting of the probe, every duration of init.sh and any number of
\* outages and probes that time out: a probe that is no stricter than the default
\* never kills a container that started in time, kept its programs and answered.
THEOREM KillsAreJustified ==
    ASSUME Tick \in {1, 2, 5, 10}
    PROVE  Spec => KillsHaveCause
  <1> DEFINE Cause == ProbeFails /\ Killed /\ ~died /\ Patient(lp)
                        => LET lost == timeouts + slow' - slow
                           IN  lost >= 3 \/ took * Tick + 10 + 10 * lost >= 30 + 2 * 10
  <1>1. Init => TypeOK /\ Account
    BY InitTypeC DEF Init, Account, Alive
  <1>2. TypeOK /\ Account /\ [Next]_vars => TypeOK' /\ Account'
    BY NextTypeC, NextAccount
  <1>3. TypeOK /\ Account => Cause
    <2> SUFFICES ASSUME TypeOK, Account, ProbeFails, Killed, ~died, Patient(lp)
                 PROVE  \/ timeouts + slow' - slow >= 3
                        \/ took * Tick + 10 + 10 * (timeouts + slow' - slow) >= 30 + 2 * 10
      OBVIOUS
    <2>1. Alive /\ Probed(lp) /\ timer = 0 /\ InStep /\ OnTime
      BY DEF ProbeFails, ProbeIsDue, Account
    <2>2. failures + 1 >= 3
      BY ProbeSettings DEF ProbeFails, Killed, TypeOK
    <2>3. CASE phase = "serving" /\ Rpc.state = "RUNNING"
      <3>1. slow' = slow + 1
        BY <2>1, <2>3, HealthIsRpc DEF ProbeFails
      <3> QED
        BY <2>1, <2>2, <3>1 DEF OnTime, TypeOK
    <2>4. CASE ~(phase = "serving" /\ Rpc.state = "RUNNING")
      <3>1. slow' = slow /\ timeouts = 0
        BY <2>1, <2>4, HealthIsRpc DEF ProbeFails, OnTime
      <3>2. Elapsed >= 30 + 10 * failures /\ Elapsed \in Nat
        BY <2>1, <2>4 DEF OnTime, Elapsed, Rpc, TypeOK, Programs
      <3>3. took * Tick + 10 >= Elapsed
        BY <2>1, <2>4, ElapsedBounded
      <3> QED
        BY <2>2, <3>1, <3>2, <3>3 DEF TypeOK
    <2> QED
      BY <2>3, <2>4
  <1> QED
    BY <1>1, <1>2, <1>3, PTL DEF Spec, KillsHaveCause
===============================================================================
