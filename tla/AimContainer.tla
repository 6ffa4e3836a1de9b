----------------------------- MODULE AimContainer -----------------------------
(***************************************************************************)
(* The AIM container under its two supervisors.  Inside, supervisord keeps  *)
(* three programs alive and gives up on one that keeps dying; outside, the  *)
(* kubelet runs aim_healthcheck and kills the container after several       *)
(* failures in a row.  The check does not exist before kolla has copied it, *)
(* so probes fail while init.sh runs: the probe must be patient enough for  *)
(* a slow start and strict enough to notice a program that is given up.     *)
(*                                                                         *)
(* Time passes in ticks of Tick seconds; events within a tick happen in any *)
(* order, and the delays of supervisord's retries are less than a tick.     *)
(***************************************************************************)
EXTENDS Naturals

CONSTANTS LivenessProbes,  \* values of Spec.LivenessProbe
          NoProbe,         \* the field is omitted
          Tick,            \* seconds in a tick
          InitTimes,       \* ticks init.sh and kolla may take
          MaxOutages,      \* bound on failures of programs
          MaxTimeouts      \* bound on probes that time out on a healthy container

\* The settings that the resource type admits, in seconds.
LivenessProbeSpec ==
    [initialDelay : Nat, period : Nat \ {0}, successThreshold : Nat \ {0},
     failureThreshold : Nat \ {0}, disable : BOOLEAN]

ASSUME AimContainerAssumption ==
    /\ LivenessProbes \subseteq LivenessProbeSpec \cup {NoProbe}
    /\ Tick \in Nat \ {0} /\ InitTimes \subseteq Nat \ {0}
    /\ MaxOutages \in Nat /\ MaxTimeouts \in Nat

VARIABLES
    lp,        \* Spec.LivenessProbe
    phase,     \* "submitted", "rejected", "init" or "serving"
    age,       \* ticks since init.sh started, no more than init.sh takes
    took,      \* ticks init.sh takes in this container
    timer,     \* ticks until the next probe
    failures,  \* probes failed in a row
    progs,     \* supervisord's view of each program
    sick,      \* the programs that die whenever they are started
    died,      \* a program has died in this container
    timeouts,  \* probes of this container that timed out
    outages, slow

vars == <<lp, phase, age, took, timer, failures, progs, sick, died, timeouts, outages, slow>>

-------------------------------------------------------------------------------
(* The probe of the StatefulSet builder *)

Probed(p) == p # NoProbe => ~p.disable

\* Mutant: zero is taken as it is.
Setting_Literal(p, field, default) == IF p # NoProbe THEN p[field] ELSE default

\* A setting greater than zero replaces the default.
Setting(p, field, default) == IF p # NoProbe /\ p[field] > 0 THEN p[field] ELSE default

Probe(p) == [initialDelay     |-> Setting(p, "initialDelay", 30),
             period           |-> Setting(p, "period", 10),
             successThreshold |-> Setting(p, "successThreshold", 1),
             failureThreshold |-> Setting(p, "failureThreshold", 3)]

\* External: the API server refuses a liveness probe with another threshold.
Accepted(p) == Probed(p) => Probe(p).successThreshold = 1

\* External: the kubelet's first probe comes up to a period after the delay.
FirstProbe(p) == LET delay == Probe(p).initialDelay \div Tick
                 IN  delay .. (delay + Probe(p).period \div Tick - 1)

-------------------------------------------------------------------------------
(* aim_supervisord.conf and aim_healthcheck.sh *)

Programs == {"aim-aid", "aim-event", "aim-rpc"}

startsecs == [p \in Programs |-> IF p = "aim-aid" THEN 0 ELSE 10]
startretries == 3

Stopped == [p \in Programs |-> [state |-> "STOPPED", up |-> 0, retries |-> 0]]
Starting == [state |-> "STARTING", up |-> 0, retries |-> 0]

\* Mutant: one program is not looked at.
HealthCheck_WithoutRpc ==
    phase = "serving" /\ \A p \in Programs \ {"aim-rpc"} : progs[p].state = "RUNNING"

\* The check succeeds when it exists and all programs are running.
HealthCheck == phase = "serving" /\ \A p \in Programs : progs[p].state = "RUNNING"

-------------------------------------------------------------------------------
(* Kubernetes *)

\* External: a container starts, with init.sh first.
StartContainer ==
    /\ phase' = "init" /\ age' = 0 /\ took' \in InitTimes
    /\ timer' \in IF Probed(lp) THEN FirstProbe(lp) ELSE {0}
    /\ failures' = 0 /\ progs' = Stopped /\ died' = FALSE /\ timeouts' = 0

Create ==
    /\ phase = "submitted" /\ Accepted(lp)
    /\ StartContainer
    /\ UNCHANGED <<lp, sick, outages, slow>>

Reject ==
    /\ phase = "submitted" /\ ~Accepted(lp)
    /\ phase' = "rejected"
    /\ UNCHANGED <<lp, age, took, timer, failures, progs, sick, died, timeouts, outages, slow>>

Alive == phase \in {"init", "serving"}
ProbeIsDue == Alive /\ Probed(lp) /\ timer = 0

ProbeSucceeds ==
    /\ ProbeIsDue /\ HealthCheck
    /\ failures' = 0 /\ timer' = Probe(lp).period \div Tick
    /\ UNCHANGED <<lp, phase, age, took, progs, sick, died, timeouts, outages, slow>>

ProbeFails ==
    /\ ProbeIsDue
    /\ IF HealthCheck
       THEN slow < MaxTimeouts /\ slow' = slow + 1
       ELSE UNCHANGED slow
    /\ IF failures + 1 >= Probe(lp).failureThreshold
       THEN StartContainer
       ELSE /\ failures' = failures + 1 /\ timer' = Probe(lp).period \div Tick
            /\ timeouts' = IF HealthCheck THEN timeouts + 1 ELSE timeouts
            /\ UNCHANGED <<phase, age, took, progs, died>>
    /\ UNCHANGED <<lp, sick, outages>>

-------------------------------------------------------------------------------
(* supervisord *)

\* A program that dies before startsecs is retried startretries times; one that
\* dies later is started again at once (autorestart).
Dies(p) ==
    /\ p \in sick
    /\ progs[p].state \in {"RUNNING"} \cup (IF startsecs[p] > 0 THEN {"STARTING"} ELSE {})
    /\ died' = TRUE
    /\ progs' = [progs EXCEPT ![p] =
         IF @.state = "RUNNING" THEN Starting
         ELSE [state |-> IF @.retries < startretries THEN "BACKOFF" ELSE "FATAL",
               up |-> 0, retries |-> IF @.retries < startretries THEN @.retries + 1 ELSE 0]]
    /\ UNCHANGED <<lp, phase, age, took, timer, failures, sick, timeouts, outages, slow>>

Retry(p) ==
    /\ progs[p].state = "BACKOFF"
    /\ progs' = [progs EXCEPT ![p].state = "STARTING"]
    /\ UNCHANGED <<lp, phase, age, took, timer, failures, sick, died, timeouts, outages, slow>>

\* A program that has been up for more than startsecs is running.
Older(prog, p) ==
    IF prog.state # "STARTING" THEN prog
    ELSE IF (prog.up + 1) * Tick > startsecs[p]
         THEN [state |-> "RUNNING", up |-> 0, retries |-> 0]
         ELSE [prog EXCEPT !.up = @ + 1]

\* A sick program dies within startsecs of its start.
MustDie(p) == p \in sick /\ progs[p].state = "STARTING" /\ startsecs[p] > 0
                /\ (progs[p].up + 1) * Tick > startsecs[p]

\* A tick passes when nothing is due before.
Passes ==
    /\ Alive /\ ~ProbeIsDue
    /\ \A p \in Programs : progs[p].state # "BACKOFF" /\ ~MustDie(p)
    /\ timer' = IF timer = 0 THEN 0 ELSE timer - 1
    /\ IF phase = "init"
       THEN /\ age' = age + 1
            /\ phase' = IF age + 1 = took THEN "serving" ELSE "init"
            /\ progs' = IF age + 1 = took THEN [p \in Programs |-> Starting] ELSE progs
       ELSE /\ progs' = [p \in Programs |-> Older(progs[p], p)]
            /\ UNCHANGED <<phase, age>>
    /\ UNCHANGED <<lp, took, failures, sick, died, timeouts, outages, slow>>

\* Environment: what a program depends on goes away and comes back.
Fails(p) ==
    /\ phase = "serving" /\ p \notin sick /\ outages < MaxOutages
    /\ outages' = outages + 1 /\ sick' = sick \cup {p}
    /\ UNCHANGED <<lp, phase, age, took, timer, failures, progs, died, timeouts, slow>>

Recovers(p) ==
    /\ p \in sick /\ sick' = sick \ {p}
    /\ UNCHANGED <<lp, phase, age, took, timer, failures, progs, died, timeouts, outages, slow>>

Init ==
    /\ lp \in LivenessProbes /\ phase = "submitted"
    /\ age = 0 /\ took = 0 /\ timer = 0 /\ failures = 0 /\ progs = Stopped
    /\ sick = {} /\ died = FALSE /\ timeouts = 0 /\ outages = 0 /\ slow = 0

System ==
    \/ Create \/ Reject \/ ProbeSucceeds \/ ProbeFails \/ Passes
    \/ \E p \in Programs : Dies(p) \/ Retry(p)

Next == System \/ \E p \in Programs : Fails(p) \/ Recovers(p)

Spec == Init /\ [][Next]_vars

\* Time passes, the kubelet and supervisord work, and outages end.
FairSpec == Spec /\ WF_vars(System) /\ \A p \in Programs : WF_vars(Recovers(p))

-------------------------------------------------------------------------------
(* Properties *)

\* The probe failed once too often.
Killed == failures' = 0

\* The user asks for nothing stricter than the default; zero asks for the default.
Patient(p) ==
    p # NoProbe => /\ p.initialDelay \notin 1..29 /\ p.period \notin 1..9
                   /\ p.failureThreshold \notin 1..2

\* A container in which no program died is killed only when its start was slower
\* than the default probe allows, with the probes that timed out counted against
\* it, or when as many probes timed out as the default probe tolerates.
KillsHaveCause ==
    [][ProbeFails /\ Killed /\ ~died /\ Patient(lp)
          => LET lost == timeouts + slow' - slow
             IN  lost >= 3 \/ took * Tick + 10 + 10 * lost >= 30 + 2 * 10]_vars

\* Every outage that ends is healed, by supervisord or by the probe: in the end all
\* programs run, unless the probe is disabled or its StatefulSet was refused.
SelfHealing ==
    <>[](\/ \A p \in Programs : progs[p].state = "RUNNING"
         \/ ~Probed(lp) \/ phase = "rejected")
===============================================================================
