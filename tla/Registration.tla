----------------------------- MODULE Registration -----------------------------
(***************************************************************************)
(* Keeping the zone registered with the system's resolver                  *)
(* (daemon/src/registration.rs, resolv.rs): the first attempt while the    *)
(* daemon starts, the task that retries with back-off, and the stop that   *)
(* hands the zone back.                                                    *)
(*                                                                         *)
(* Registering is a sequence of commands run as child processes.  One that *)
(* succeeds has changed the system; one that fails may have.  A command    *)
(* may hang.  When its client is killed, the change it was to make may     *)
(* have been made, may still be made at any later time, or never.  On Unix *)
(* the settings belong to the interface and go with it when the daemon     *)
(* ends; on Windows they are in the registry.  That somebody else changes  *)
(* them while the daemon runs is not modelled.                             *)
(***************************************************************************)
EXTENDS Naturals

CONSTANTS
  FirstRetry,   \* the wait before the first retry
  MaxRetry,     \* the longest wait
  Bits,         \* the width of the retry counter, u32 in the code
  MaxCount,     \* its largest value
  MaxFaults     \* bound: commands that hang and daemons that are killed

ASSUME RetryAssumption ==
  /\ FirstRetry \in Nat /\ MaxRetry \in Nat /\ FirstRetry <= MaxRetry
  /\ Bits \in Nat /\ MaxCount \in Nat \ {0}
ASSUME WidthAssumption == MaxCount = 2 ^ Bits - 1
ASSUME RegistrationBound == MaxFaults \in Nat

VARIABLES
  platform,   \* which of the two modules of resolv.rs was compiled
  resolver,   \* systemd-resolved runs
  daemon,     \* where the daemon is in its life
  task,       \* where the attempt is: the first one, or the retrying task's
  stop,       \* the stop signal was sent
  attempted,  \* Registration::attempted
  retry,      \* the number of the coming retry
  hung,       \* the command under way never ends
  sys,        \* what the system's resolver holds of ours
  strays,     \* changes under way whose client was killed
  dns,        \* what `status' reports
  \* For stating properties:
  last,       \* why the last attempt failed
  left,       \* something may be left in the system by a run that ended badly
  faults      \* what happened, against the bound

runVars == <<stop, attempted, retry>>
envVars == <<platform, resolver>>
vars == <<envVars, daemon, task, runVars, hung, sys, strays, dns, last, left,
          faults>>

Full == {"server", "zone"}
Command == {"asking", "server", "zone", "clearing", "adding"}
Failure == {"unreachable", "no_resolver", "transient"}

TypeOK ==
  /\ platform \in {"unix", "windows"}
  /\ resolver \in BOOLEAN
  /\ daemon \in {"down", "starting", "running", "stopping", "removing"}
  /\ task \in Command \cup {"none", "waiting", "probing", "found", "reporting"}
  /\ stop \in BOOLEAN
  /\ attempted \in BOOLEAN
  /\ retry \in 1 .. MaxCount
  /\ hung \in BOOLEAN
  /\ sys \in SUBSET Full
  /\ strays \in SUBSET Command
  /\ dns \in {"unavailable", "retrying", "registered"}
  /\ last \in Failure \cup {"none"}
  /\ left \in BOOLEAN
  /\ faults \in 0 .. MaxFaults

Init ==
  /\ platform \in {"unix", "windows"}
  /\ resolver \in BOOLEAN
  /\ daemon = "down"
  /\ task = "none"
  /\ stop = FALSE /\ attempted = FALSE /\ retry = 1
  /\ hung = FALSE
  /\ sys = {} /\ strays = {}
  /\ dns = "unavailable"
  /\ last = "none" /\ left = FALSE
  /\ faults = 0

-----------------------------------------------------------------------------
(* What the commands do *)

\* The system's settings once command c has done its work: on Unix one command
\* for each, on Windows one rule that stands for both.
After(c) == IF c = "clearing" THEN {}
            ELSE sys \cup {setting \in Full : c \in {setting, "adding"}}

\* The command ends: when it fails, its change may have been made all the same.
Ends(c, ok) ==
  /\ ~ hung
  /\ \/ sys' = After(c)
     \/ ~ ok /\ UNCHANGED sys

\* The client of command c is killed.
Killed(c) ==
  \/ sys' = After(c) /\ UNCHANGED strays
  \/ strays' = strays \cup {c} /\ UNCHANGED sys
  \/ UNCHANGED <<sys, strays>>

-----------------------------------------------------------------------------
(* The wait before a retry *)

NextRetry(n) == IF n < MaxCount THEN n + 1 ELSE n

\* Mutant: the shift wraps at the width of the counter.
DelayWraps(n) ==
  LET wait == FirstRetry * 2 ^ ((n - 1) % Bits)
  IN  IF wait < MaxRetry THEN wait ELSE MaxRetry

Delay(n) ==
  LET wait == FirstRetry * (IF n - 1 < Bits THEN 2 ^ (n - 1) ELSE MaxCount)
  IN  IF wait < MaxRetry THEN wait ELSE MaxRetry

-----------------------------------------------------------------------------
(* One attempt, the first or a retry *)

\* No address may be bound, and then nothing is ever tried.
Start ==
  /\ daemon = "down"
  /\ \/ daemon' = "running" /\ task' = "none"
     \/ daemon' = "starting" /\ task' = "probing"
  /\ stop' = FALSE /\ attempted' = FALSE /\ retry' = 1
  /\ dns' = "unavailable" /\ last' = "none"
  /\ UNCHANGED <<envVars, hung, sys, strays, left, faults>>

Reported(failure) == IF failure = "no_resolver" THEN "unavailable"
                                                ELSE "retrying"

\* Mutant: the task gives up when its counter is at the end.
FailGivesUp(failure) ==
  /\ task' = IF daemon # "starting" /\ retry = MaxCount THEN "none" ELSE "waiting"
  /\ last' = failure
  /\ \/ /\ daemon = "starting" /\ daemon' = "running"
        /\ dns' = Reported(failure)
        /\ retry' = 1
     \/ /\ daemon # "starting" /\ UNCHANGED <<daemon, dns>>
        /\ retry' = NextRetry(retry)

\* The first failure is reported and starts the task; later ones are silent.
Fail(failure) ==
  /\ task' = "waiting"
  /\ last' = failure
  /\ \/ /\ daemon = "starting" /\ daemon' = "running"
        /\ dns' = Reported(failure)
        /\ retry' = 1
     \/ /\ daemon # "starting" /\ UNCHANGED <<daemon, dns>>
        /\ retry' = NextRetry(retry)

Succeed ==
  /\ \/ /\ daemon = "starting" /\ daemon' = "running"
        /\ task' = "none"
        /\ dns' = "registered"
     \/ /\ daemon # "starting" /\ UNCHANGED <<daemon, dns>>
        /\ task' = "reporting"
  /\ UNCHANGED <<retry, last>>

Proceed(step) == task' = step /\ UNCHANGED <<daemon, dns, retry, last>>

WaitOver ==
  /\ task = "waiting" /\ ~ stop
  /\ Proceed("probing")
  /\ UNCHANGED <<envVars, stop, attempted, hung, sys, strays, left, faults>>

Probe(answered) ==
  /\ task = "probing" /\ ~ stop
  /\ IF answered THEN Proceed("found") ELSE Fail("unreachable")
  /\ UNCHANGED <<envVars, stop, attempted, hung, sys, strays, left, faults>>

Register ==
  /\ task = "found" /\ ~ stop
  /\ attempted' = TRUE
  /\ Proceed(IF platform = "unix" THEN "asking" ELSE "clearing")
  /\ UNCHANGED <<envVars, stop, hung, sys, strays, left, faults>>

StepCommand == UNCHANGED <<envVars, stop, attempted, hung, strays, left, faults>>

Asked(ok) ==
  /\ task = "asking" /\ (ok => resolver) /\ Ends("asking", ok)
  /\ IF ok THEN Proceed("server") ELSE Fail("no_resolver")
  /\ StepCommand

ServerSet(ok) ==
  /\ task = "server" /\ Ends("server", ok)
  /\ IF ok THEN Proceed("zone") ELSE Fail("transient")
  /\ StepCommand

\* Mutant: how the last command ended is not looked at.
ZoneUnchecked(ok) ==
  /\ task = "zone" /\ Ends("zone", ok)
  /\ Succeed
  /\ StepCommand

ZoneClaimed(ok) ==
  /\ task = "zone" /\ Ends("zone", ok)
  /\ IF ok THEN Succeed ELSE Fail("transient")
  /\ StepCommand

\* Windows: how the clearing ended is not looked at.
Cleared(ok) ==
  /\ task = "clearing" /\ Ends("clearing", ok)
  /\ Proceed("adding")
  /\ StepCommand

RuleAdded(ok) ==
  /\ task = "adding" /\ Ends("adding", ok)
  /\ IF ok THEN Succeed ELSE Fail("transient")
  /\ StepCommand

ReportRegistered ==
  /\ task = "reporting"
  /\ task' = "none" /\ dns' = "registered"
  /\ UNCHANGED <<envVars, daemon, runVars, hung, sys, strays, last, left, faults>>

-----------------------------------------------------------------------------
(* Stopping *)

Stop ==
  /\ daemon = "running"
  /\ daemon' = "stopping" /\ stop' = TRUE
  /\ UNCHANGED <<envVars, task, attempted, retry, hung, sys, strays, dns, last,
                 left, faults>>

\* A stop is honoured while nothing is being changed.
StopHonoured ==
  /\ stop /\ task \in {"waiting", "probing", "found"}
  /\ task' = "none"
  /\ UNCHANGED <<envVars, daemon, runVars, hung, sys, strays, dns, last, left,
                 faults>>

\* Mutant: a command that hangs is waited for without a limit.
CutOffNever ==
  /\ daemon = "stopping" /\ task \in Command /\ ~ hung
  /\ UNCHANGED vars

\* A command still running after STOP_LIMIT is abandoned.
CutOff ==
  /\ daemon = "stopping" /\ task \in Command
  /\ Killed(task)
  /\ task' = "none" /\ hung' = FALSE
  /\ UNCHANGED <<envVars, daemon, runVars, dns, last, left, faults>>

\* The daemon is gone, on Unix with its interface and what was set on it.
Exit(settings, under_way, spoilt) ==
  /\ daemon' = "down"
  /\ IF platform = "unix" THEN sys' = {} /\ strays' = {} /\ left' = FALSE
     ELSE sys' = settings /\ strays' = under_way /\ left' = spoilt

HandBack ==
  /\ IF attempted THEN daemon' = "removing" /\ UNCHANGED <<sys, strays, left>>
                  ELSE Exit(sys, strays, left)
  /\ UNCHANGED <<envVars, task, runVars, hung, dns, last, faults>>

\* Mutant: the zone is handed back while it is still being registered.
HandBackEarly == daemon = "stopping" /\ HandBack

TaskGone == daemon = "stopping" /\ task = "none" /\ HandBack

Deregistered(ok) ==
  /\ daemon = "removing" /\ ~ hung
  /\ \/ ok /\ Exit({}, strays, strays # {})
     \/ ~ ok /\ Exit({}, strays, TRUE)
     \/ ~ ok /\ Exit(sys, strays, TRUE)
  /\ UNCHANGED <<envVars, task, runVars, hung, dns, last, faults>>

-----------------------------------------------------------------------------
(* The system *)

\* Somebody enables systemd-resolved.
Enable ==
  /\ ~ resolver /\ resolver' = TRUE
  /\ UNCHANGED <<platform, daemon, task, runVars, hung, sys, strays, dns, last,
                 left, faults>>

StrayLands(c) ==
  /\ c \in strays
  /\ sys' = After(c) /\ strays' = strays \ {c}
  /\ UNCHANGED <<envVars, daemon, task, runVars, hung, dns, last, left, faults>>

Fault == faults < MaxFaults /\ faults' = faults + 1

Hang ==
  /\ Fault
  /\ task \in Command \/ daemon = "removing"
  /\ ~ hung /\ hung' = TRUE
  /\ UNCHANGED <<envVars, daemon, task, runVars, sys, strays, dns, last, left>>

\* The command under way, if any.
UnderWay == IF daemon = "removing" THEN {"clearing"} ELSE {task} \cap Command

Kill ==
  /\ Fault
  /\ daemon # "down"
  /\ \/ Exit(sys, strays \cup UnderWay, TRUE)
     \/ \E c \in UnderWay : Exit(After(c), strays, TRUE)
     \/ Exit(sys, strays, TRUE)
  /\ task' = "none" /\ hung' = FALSE
  /\ UNCHANGED <<envVars, runVars, dns, last>>

-----------------------------------------------------------------------------
Attempt ==
  \/ WaitOver \/ Register \/ ReportRegistered \/ StopHonoured
  \/ \E ok \in BOOLEAN :
       \/ Probe(ok) \/ Asked(ok) \/ ServerSet(ok) \/ ZoneClaimed(ok)
       \/ Cleared(ok) \/ RuleAdded(ok)

Next ==
  \/ Attempt
  \/ Start \/ Stop \/ CutOff \/ TaskGone
  \/ \E ok \in BOOLEAN : Deregistered(ok)
  \/ Enable \/ Hang \/ Kill
  \/ \E c \in Command : StrayLands(c)

Spec == Init /\ [][Next]_vars

\* Tasks are polled, probes and commands that do not hang end, and the limit on
\* stopping passes.
FairSpec ==
  /\ Spec
  /\ WF_vars(Attempt)
  /\ WF_vars(CutOff) /\ WF_vars(TaskGone)

-----------------------------------------------------------------------------
(* Properties *)

\* A daemon that stopped in order leaves nothing registered, and nothing that
\* could still register, whatever was under way when the stop came: unless a
\* command was killed or the removal itself failed, in this run or before
\* (registration.rs, stop: "the removal below always comes after it and cannot
\* be undone by it").
HandedBack == daemon = "down" /\ ~ left => sys = {} /\ strays = {}

\* While `status' says registered, the system's resolver does hold the whole
\* registration, although it is made by several commands that fail one by one
\* (resolv.rs, register; registration.rs, attempt).  On Windows what an earlier
\* run left behind may still undo it.
StatusHonest ==
  daemon = "running" /\ dns = "registered" /\ (platform = "unix" \/ ~ left)
    => sys = Full

\* The wait before a retry never shrinks and stays within its limits, also when
\* the counter is at the end of its range (registration.rs, delay: "cannot
\* overflow its way into a zero wait and a busy loop").
BackOff ==
  [][task # "none" /\ daemon = "running" /\ daemon' = "running"
       => /\ FirstRetry <= Delay(retry)
          /\ Delay(retry) <= Delay(retry')
          /\ Delay(retry') <= MaxRetry]_vars

\* A stop gets as far as the removal even if a registration command hangs
\* (registration.rs, STOP_LIMIT: "so the daemon still gets to clean up").
StopCleansUp == (daemon = "stopping") ~> (daemon \in {"removing", "down"})

\* A probe or a command that is tried over and over works at last.
Cooperative ==
  /\ SF_vars(Probe(TRUE)) /\ SF_vars(Asked(TRUE)) /\ SF_vars(ServerSet(TRUE))
  /\ SF_vars(ZoneClaimed(TRUE)) /\ SF_vars(RuleAdded(TRUE))

\* The task never gives up: with a resolver that lets some attempt through, and
\* while no command hangs, a daemon that runs on has the zone registered in the
\* end, and reports so whatever it reported before (registration.rs,
\* retry_until_stopped).
RegistersAtLast ==
  Cooperative =>
    ((daemon = "running" /\ task # "none" /\ resolver)
       ~> (dns = "registered" \/ daemon # "running" \/ hung))

-----------------------------------------------------------------------------
(* What a document says, and the code does not keep *)

\* "A machine with no system resolver to register with at all cannot be waited
\* out, so that reads as what it is" (README.md): a daemon whose last attempt
\* found no resolver does not report that it is about to succeed.
StatusTells == daemon = "running" /\ last = "no_resolver" => dns # "retrying"
=============================================================================
