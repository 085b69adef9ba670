--------------------------------- MODULE Host ---------------------------------
(***************************************************************************)
(* One machine around the daemon: the service manager that owns it         *)
(* (systemd or the Windows SCM), the daemon from its start to its end      *)
(* (daemon/src/main.rs), the key and the settings it keeps on disk         *)
(* (identity.rs, settings.rs), the commands users give it and the          *)
(* authority they need (ipc.rs, authz.rs; cli client.rs, elevate.rs), the  *)
(* service commands, and an update with the installer it runs.             *)
(*                                                                         *)
(* What the daemon does for the mesh is left out: a command is something   *)
(* done once, or not at all.  A wait with a time limit may end at any time *)
(* before what it waits for happens.                                       *)
(***************************************************************************)
EXTENDS Naturals

CONSTANTS
  User,         \* accounts without privileges of their own
  NoOne,        \* no operator
  Torn,         \* a settings file cut short
  Absent,       \* no key file
  Short,        \* a key file without the whole key
  Platform,     \* the platforms to consider
  StartLimit,   \* systemd starts a unit no more often than this in an interval
  MaxRelease,   \* bound: releases published
  MaxCommands,  \* bound: commands given
  MaxFaults     \* bound: failures, crashes and reboots

ASSUME HostNameAssumption ==
  /\ User # {}
  /\ NoOne \notin User /\ Torn \notin User \cup {NoOne}
  /\ Absent \notin Nat /\ Short \notin Nat /\ Absent # Short
ASSUME PlatformAssumption == Platform \subseteq {"unix", "windows"}
ASSUME StartLimitAssumption == StartLimit \in Nat \ {0}
ASSUME HostBoundAssumption ==
  MaxRelease \in Nat \ {0} /\ MaxCommands \in Nat /\ MaxFaults \in Nat

VARIABLES
  platform,
  key, exposed,   \* the key file, and whether other users can read it
  settings,       \* the operator the settings file names
  quix, quixd,    \* the releases of the two binaries installed
  latest,         \* the newest release published
  enabled,        \* the service starts at boot
  unit, job,      \* what the service manager knows and what it is asked for
  starts,         \* how often systemd started the unit in this interval
  proc,           \* the daemon's process
  call,           \* call[u]: the command user u has given the daemon
  cmd,            \* the service command under way
  upd,            \* the update under way
  acked,          \* the operator a caller was told of, if it must hold still
  named,          \* operators named by somebody with the authority to
  commands, faults, keys   \* what happened, against the bounds; keys made

vars == <<platform, key, exposed, settings, quix, quixd, latest, enabled, unit,
          job, starts, proc, call, cmd, upd, acked, named, commands, faults,
          keys>>
keyVars == <<key, exposed, keys>>
binVars == <<quix, quixd, latest>>
serviceVars == <<enabled, unit, job, starts>>
ghosts == <<acked, named>>

Unix == platform = "unix"
Windows == platform = "windows"

\* Where the daemon is: before its key, its key file made and not yet
\* restricted, restricted and not yet written, its key in hand, its settings
\* read, its socket there, its shutdown under way.  `asked' is whether it was
\* asked to stop, `old' whether it ran before the restart a user asked for.
ProcPC == {"none", "load", "made", "shut", "start", "ready", "serving", "closing"}
Process == [pc : ProcPC, key : Nat \cup {Absent}, op : User \cup {NoOne},
            ver : 1..MaxRelease, asked : BOOLEAN, old : BOOLEAN]
CallPC == {"idle", "sent", "allowed", "saving", "answered", "failed", "refused",
           "prompt"}
Do == {"status", "leave", "file", "set_operator"}
Call == [pc : CallPC, do : Do, who : User, admin : BOOLEAN, done : 0..1]
CmdPC == {"idle", "start", "stop", "restart", "stopping", "restarting", "settle"}
Cmd == [pc : CmdPC, act : {"start", "stop", "restart"}]
UpdPC == {"idle", "prompt", "checked", "staged", "swapped", "placed", "writing",
          "configured", "stopping", "restarting", "waiting", "ready", "asking",
          "finish"}
Upd == [pc : UpdPC, tag : 1..MaxRelease, user : User, kept : User \cup {NoOne}]

TypeOK ==
  /\ platform \in Platform
  /\ key \in Nat \cup {Absent, Short} /\ exposed \in BOOLEAN
  /\ settings \in User \cup {NoOne, Torn}
  /\ {quix, quixd, latest} \subseteq 1..MaxRelease
  /\ enabled \in BOOLEAN
  /\ unit \in {"inactive", "active", "waiting", "failed"}
  /\ job \in {"none", "stop", "restart"}
  /\ starts \in 0..StartLimit
  /\ proc \in Process
  /\ (unit = "active") <=> (proc.pc # "none")
  /\ job # "none" => unit = "active" /\ proc.asked
  /\ call \in [User -> Call]
  /\ cmd \in Cmd
  /\ upd \in Upd
  /\ acked \in User \cup {NoOne} /\ named \subseteq User
  /\ commands \in 0..MaxCommands /\ faults \in 0..MaxFaults /\ keys \in Nat

Started == [pc |-> "load", key |-> Absent, op |-> NoOne, ver |-> quixd,
            asked |-> FALSE, old |-> FALSE]
NoProcess == [Started EXCEPT !.pc = "none"]
NoCall(u) == [pc |-> "idle", do |-> "status", who |-> u, admin |-> FALSE,
              done |-> 0]
NoCmd == [pc |-> "idle", act |-> "start"]
NoUpd == [pc |-> "idle", tag |-> 1, user |-> CHOOSE u \in User : TRUE,
          kept |-> NoOne]

\* The first release has been installed; the service is started for the first
\* time.
Init ==
  /\ platform \in Platform
  /\ key = Absent /\ exposed = FALSE /\ settings = NoOne
  /\ quix = 1 /\ quixd = 1 /\ latest = 1
  /\ enabled = TRUE /\ unit = "active" /\ job = "none"
  /\ starts = IF Unix THEN 1 ELSE 0
  /\ proc = Started
  /\ call = [u \in User |-> NoCall(u)] /\ cmd = NoCmd /\ upd = NoUpd
  /\ acked = NoOne /\ named = {}
  /\ commands = 0 /\ faults = 0 /\ keys = 0

Fault == faults < MaxFaults /\ faults' = faults + 1
Command == commands < MaxCommands /\ commands' = commands + 1

-----------------------------------------------------------------------------
(* The service manager *)

\* A new process, the one after `before' in this interval.
Begin(before) ==
  /\ proc' = Started /\ unit' = "active"
  /\ starts' = IF Unix THEN before + 1 ELSE 0

\* The SCM starts a service however often it did.
MayStart(before) == Windows \/ before < StartLimit

\* `is-active', `RUNNING': a unit that systemd is stopping is not active, while
\* quixd tells the SCM it runs until it has stopped.
is_running == unit = "active" /\ (Unix => job = "none")

\* A start that finds the process or is refused changes nothing; behind a stop
\* systemd queues it.
StartAfter(before) ==
  IF unit # "active"
  THEN IF MayStart(before)
       THEN Begin(before) /\ UNCHANGED job
       ELSE UNCHANGED <<proc, unit, job, starts>>
  ELSE /\ job' = IF Unix /\ job = "stop" THEN "restart" ELSE job
       /\ starts' = IF Unix THEN before ELSE 0
       /\ UNCHANGED <<proc, unit>>

\* `sc start'; `systemctl start' after `reset-failed', which forgets the starts.
ManagerStart == StartAfter(0)

\* Asked to end; a revival systemd waits for is called off by a stop.
ManagerStop ==
  IF unit = "active"
  THEN /\ job' = "stop"
       /\ proc' = [proc EXCEPT !.asked = TRUE]
       /\ UNCHANGED <<unit, starts>>
  ELSE /\ unit' = IF Unix /\ unit = "waiting" THEN "inactive" ELSE unit
       /\ UNCHANGED <<job, proc, starts>>

\* `systemctl restart' after `reset-failed', one job for the manager.
ManagerRestart ==
  IF unit = "active"
  THEN /\ job' = "restart" /\ starts' = 0
       /\ proc' = [proc EXCEPT !.asked = TRUE]
       /\ UNCHANGED unit
  ELSE Begin(0) /\ UNCHANGED job

\* Commands whose daemon is gone end with an error.
DropCalls ==
  call' = [u \in User |-> IF call[u].pc \in {"sent", "allowed", "saving"}
                          THEN [call[u] EXCEPT !.pc = "failed"] ELSE call[u]]

\* Whether a process that ended this way is started again.  The SCM counts only
\* an end that the service did not report.
Revived(how) == how = "crash" \/ (how = "error" /\ Unix)

\* Mutant: a stop outlasts the process it was for.
EndedAsked(how) ==
  /\ DropCalls
  /\ UNCHANGED <<job, starts>>
  /\ proc' = NoProcess /\ unit' = "inactive"

\* The process ended; its socket goes with it.
Ended(how) ==
  /\ DropCalls
  /\ job' = "none"
  /\ IF job = "restart" /\ MayStart(starts) THEN Begin(starts)
     ELSE /\ proc' = NoProcess
          /\ unit' = CASE job = "restart" -> "failed"
                       [] job = "stop" \/ how = "ok" -> "inactive"
                       [] Revived(how) -> "waiting"
                       [] OTHER -> "failed"
          /\ UNCHANGED starts

\* Mutant: what crashed stays down.
StaysDown ==
  /\ unit = "waiting" /\ proc.pc # "none"
  /\ UNCHANGED vars

\* Restart=on-failure, and the SCM's failure actions.  systemd gives up a unit
\* that it started too often.
AutoRestart ==
  /\ unit = "waiting"
  /\ IF MayStart(starts)
     THEN Begin(starts)
     ELSE unit' = "failed" /\ UNCHANGED <<proc, starts>>
  /\ UNCHANGED <<platform, keyVars, settings, binVars, enabled, job, call, cmd,
                 upd, ghosts, commands, faults>>

\* The interval in which systemd counts is over.
IntervalOver ==
  /\ starts > 0 /\ starts' = 0
  /\ UNCHANGED <<platform, keyVars, settings, binVars, enabled, unit, job, proc,
                 call, cmd, upd, ghosts, commands, faults>>

-----------------------------------------------------------------------------
(* The daemon *)

DaemonStep ==
  UNCHANGED <<platform, binVars, enabled, cmd, upd, named, commands>>
Same == UNCHANGED <<unit, job, starts, call>>
At(pc) == proc.pc = pc
Goto(pc) == proc' = [proc EXCEPT !.pc = pc]
Exits == Ended("error") /\ DaemonStep

\* load_or_create finds a key.  On Windows it is restricted, if that works.
LoadKey ==
  /\ At("load") /\ key \in Nat
  /\ proc' = [proc EXCEPT !.pc = "start", !.key = key]
  /\ \/ exposed' = (Unix /\ exposed) /\ UNCHANGED faults
     \/ Windows /\ Fault /\ UNCHANGED exposed
  /\ Same /\ DaemonStep /\ UNCHANGED <<key, keys, settings, acked>>

\* Mutant: what cannot be read is written over.
MayCreateAnyway == TRUE

\* create_new
MayCreate == key = Absent

\* Mutant: the bytes go in at once.
ProtectedLater == TRUE

\* The mode goes on with the file on Unix only.
Protected == Unix

\* No key can be read: there is none, or the read fails.
CreateKey ==
  /\ At("load")
  /\ IF key = Absent THEN UNCHANGED faults ELSE Fault
  /\ IF MayCreate
     THEN /\ key' = Short /\ exposed' = Windows
          /\ Goto(IF Protected THEN "shut" ELSE "made")
          /\ Same /\ DaemonStep
     ELSE UNCHANGED <<key, exposed>> /\ Exits
  /\ UNCHANGED <<keys, settings, acked>>

\* "key file has wrong length"
RefuseKey ==
  /\ At("load") /\ key = Short
  /\ Exits
  /\ UNCHANGED <<keyVars, settings, acked, faults>>

RestrictKey ==
  /\ At("made")
  /\ exposed' = FALSE
  /\ Goto("shut")
  /\ Same /\ DaemonStep /\ UNCHANGED <<key, keys, settings, acked, faults>>

WriteKey ==
  /\ At("shut")
  /\ key' = keys /\ keys' = keys + 1
  /\ proc' = [proc EXCEPT !.pc = "start", !.key = keys]
  /\ Same /\ DaemonStep /\ UNCHANGED <<exposed, settings, acked, faults>>

\* Settings that cannot be read name nobody.
LoadSettings ==
  /\ At("start")
  /\ \/ /\ proc' = [proc EXCEPT !.pc = "ready",
                      !.op = IF settings \in User THEN settings ELSE NoOne]
        /\ UNCHANGED <<acked, faults>>
     \/ /\ Fault
        /\ Goto("ready")
        /\ acked' = NoOne
  /\ Same /\ DaemonStep /\ UNCHANGED <<keyVars, settings>>

\* The control socket, last of all.
Serve ==
  /\ At("ready")
  /\ Goto("serving")
  /\ Same /\ DaemonStep /\ UNCHANGED <<keyVars, settings, acked, faults>>

\* The key's file, the TUN device, the roster or the socket: each may fail.
StartFails ==
  /\ proc.pc \in {"made", "shut", "start", "ready"}
  /\ Fault /\ Exits
  /\ UNCHANGED <<keyVars, settings, acked>>

\* A stop that came earlier is honoured here.  Commands already taken go on.
Close ==
  /\ At("serving") /\ proc.asked
  /\ Goto("closing")
  /\ Same /\ DaemonStep /\ UNCHANGED <<keyVars, settings, acked, faults>>

Exit ==
  /\ At("closing")
  /\ Ended("ok")
  /\ DaemonStep /\ UNCHANGED <<keyVars, settings, acked, faults>>

Crash ==
  /\ proc.pc # "none"
  /\ Fault /\ Ended("crash")
  /\ DaemonStep /\ UNCHANGED <<keyVars, settings, acked>>

\* TimeoutStopSec
KillLate ==
  /\ Unix /\ job # "none"
  /\ Ended("killed")
  /\ DaemonStep /\ UNCHANGED <<keyVars, settings, acked, faults>>

-----------------------------------------------------------------------------
(* Commands over IPC *)

CallStep == UNCHANGED <<platform, keyVars, binVars, serviceVars, cmd>>
Turn(u, pc) == call' = [call EXCEPT ![u] = IF pc = "idle" THEN NoCall(u)
                                           ELSE [@ EXCEPT !.pc = pc]]

\* A user types a command, with sudo or from an elevated shell or without.
\* set-operator is refused at once on Windows.
Ask(u, do, who, admin) ==
  /\ Command
  /\ At("serving") /\ call[u].pc = "idle"
  /\ do = "set_operator" => Unix
  /\ call' = [call EXCEPT ![u] = [pc |-> "sent", do |-> do, who |-> who,
                                  admin |-> admin, done |-> 0]]
  /\ CallStep /\ UNCHANGED <<settings, proc, upd, ghosts, faults>>

\* Mutant: naming an operator is no change to the machine.
ReadsAndNames == {"status", "set_operator"}

is_read_only == {"status"}

\* `known' is whether the platform tells who is calling.
Authorized(u, known) ==
  \/ call[u].do \in is_read_only
  \/ known /\ (call[u].admin \/ proc.op = u)

\* Mutant: the work comes before the question who asks for it.
CheckLate(u, known) ==
  /\ call[u].pc = "sent"
  /\ IF known THEN UNCHANGED faults ELSE Windows /\ Fault
  /\ call' = [call EXCEPT ![u].pc = IF Authorized(u, known) THEN "allowed"
                                                            ELSE "refused",
                          ![u].done = IF Authorized(u, known) THEN 0 ELSE 1]
  /\ CallStep /\ UNCHANGED <<settings, proc, upd, ghosts, commands>>

\* The operator is read, the caller judged: nothing has been done yet.
Check(u, known) ==
  /\ call[u].pc = "sent"
  /\ IF known THEN UNCHANGED faults ELSE Windows /\ Fault
  /\ Turn(u, IF Authorized(u, known) THEN "allowed" ELSE "refused")
  /\ CallStep /\ UNCHANGED <<settings, proc, upd, ghosts, commands>>

Dispatch(u) ==
  /\ call[u].pc = "allowed" /\ call[u].do # "set_operator"
  /\ call' = [call EXCEPT ![u].pc = "answered",
                          ![u].done = IF call[u].do = "status" THEN 0 ELSE 1]
  /\ CallStep
  /\ UNCHANGED <<settings, proc, upd, ghosts, commands, faults>>

\* The installer's own request; anybody else's ends what the update must keep.
FromInstaller(u) == upd.pc = "asking" /\ upd.user = u

\* The operator counts at once; the file is emptied, to be written again.
SetOperator(u) ==
  /\ call[u].pc = "allowed" /\ call[u].do = "set_operator"
  /\ \A v \in User : call[v].pc # "saving"
  /\ call' = [call EXCEPT ![u].pc = "saving", ![u].done = 1]
  /\ proc' = [proc EXCEPT !.op = call[u].who]
  /\ settings' = Torn
  /\ acked' = NoOne
  /\ named' = IF call[u].admin \/ u \in named THEN named \cup {call[u].who}
                                               ELSE named
  /\ upd' = IF FromInstaller(u) THEN upd ELSE [upd EXCEPT !.kept = NoOne]
  /\ CallStep /\ UNCHANGED <<commands, faults>>

\* Mutant: the operator is kept in memory only.
SavedNever(u) ==
  /\ call[u].pc = "saving"
  /\ acked' = call[u].who
  /\ Turn(u, "answered")
  /\ CallStep /\ UNCHANGED <<settings, proc, upd, named, commands, faults>>

Saved(u) ==
  /\ call[u].pc = "saving"
  /\ settings' = call[u].who
  /\ acked' = call[u].who
  /\ Turn(u, "answered")
  /\ CallStep /\ UNCHANGED <<proc, upd, named, commands, faults>>

\* The caller is told it failed, and the operator counts until a restart.
SaveFails(u) ==
  /\ call[u].pc = "saving"
  /\ Fault
  /\ Turn(u, "failed")
  /\ CallStep /\ UNCHANGED <<settings, proc, upd, ghosts, commands>>

\* What the CLI does with the answer: a refusal is worth a prompt on Windows,
\* but for a file command.
Return(u) ==
  /\ call[u].pc \in {"answered", "failed", "refused"}
  /\ Turn(u, IF /\ call[u].pc = "refused" /\ Windows
                /\ ~call[u].admin /\ call[u].do # "file"
             THEN "prompt" ELSE "idle")
  /\ CallStep /\ UNCHANGED <<settings, proc, upd, ghosts, commands, faults>>

Decline(u) ==
  /\ call[u].pc = "prompt"
  /\ Turn(u, "idle")
  /\ CallStep /\ UNCHANGED <<settings, proc, upd, ghosts, commands, faults>>

\* relaunch: the same command again, elevated.
Approve(u) ==
  /\ call[u].pc = "prompt"
  /\ call' = [call EXCEPT ![u].pc = IF At("serving") THEN "sent" ELSE "failed",
                          ![u].admin = TRUE]
  /\ CallStep /\ UNCHANGED <<settings, proc, upd, ghosts, commands, faults>>

-----------------------------------------------------------------------------
(* Service commands, given by an administrator *)

CmdStep == UNCHANGED <<platform, keyVars, settings, binVars, call, upd, ghosts,
                       faults>>
CmdGoto(pc) == cmd' = IF pc = "idle" THEN NoCmd ELSE [cmd EXCEPT !.pc = pc]

\* The state is read first, and taken as it was: "already running", "already
\* stopped".
ServiceCommand(act) ==
  /\ Command
  /\ cmd.pc = "idle"
  /\ cmd' = IF \/ act = "start" /\ is_running
               \/ act = "stop" /\ ~is_running
            THEN NoCmd ELSE [pc |-> act, act |-> act]
  /\ proc' = [proc EXCEPT !.old = act = "restart" /\ ~At("none")]
  /\ CmdStep /\ UNCHANGED serviceVars

AtBoot(on) ==
  /\ Command
  /\ cmd.pc = "idle"
  /\ enabled' = on
  /\ CmdStep /\ UNCHANGED <<unit, job, starts, proc, cmd>>

\* `systemctl' waits for the start it has queued; `sc' fails if it runs already.
DoStart ==
  /\ cmd.pc = "start"
  /\ ManagerStart
  /\ CmdGoto(CASE Windows /\ unit = "active" -> "idle"
               [] Unix /\ job # "none" -> "restarting"
               [] OTHER -> "settle")
  /\ CmdStep /\ UNCHANGED <<enabled, commands>>

\* `sc' fails if it does not run.
DoStop ==
  /\ cmd.pc = "stop"
  /\ ManagerStop
  /\ CmdGoto(IF Windows /\ unit # "active" THEN "idle" ELSE "stopping")
  /\ CmdStep /\ UNCHANGED <<enabled, commands>>

\* Mutant: started without a stop.
RestartStarts ==
  /\ cmd.pc = "restart"
  /\ ManagerStart
  /\ CmdGoto("settle")
  /\ CmdStep /\ UNCHANGED <<enabled, commands>>

\* On Windows a stop and a start, with a wait in between.
DoRestart ==
  /\ cmd.pc = "restart"
  /\ IF Unix
     THEN ManagerRestart /\ CmdGoto("restarting")
     ELSE IF unit = "active"
          THEN ManagerStop /\ CmdGoto("stopping")
          ELSE CmdGoto("start") /\ UNCHANGED <<unit, job, starts, proc>>
  /\ CmdStep /\ UNCHANGED <<enabled, commands>>

\* Either manager's wait is over: it has stopped, or systemd's job is another's.
StopOver == unit # "active" \/ (Unix /\ job # "stop")

\* The command goes on, or has an end: "stopped", "running", an error.
Proceed ==
  /\ \/ /\ cmd.pc = "stopping" /\ StopOver
        /\ CmdGoto(IF cmd.act = "restart" THEN "start" ELSE "idle")
     \/ /\ cmd.pc = "restarting" /\ job # "restart"
        /\ CmdGoto(IF job = "none" THEN "settle" ELSE "idle")
     \/ cmd.pc = "settle" /\ At("serving") /\ CmdGoto("idle")
  /\ CmdStep /\ UNCHANGED <<serviceVars, proc, commands>>

\* Mutant: `start' waits for the daemon however long it takes.
WaitsForEver ==
  /\ cmd.pc = "stopping" /\ Windows
  /\ CmdGoto("idle")
  /\ CmdStep /\ UNCHANGED <<serviceVars, proc, commands>>

\* The time limits of `settle' and of a stop on Windows.
GiveUp ==
  /\ \/ cmd.pc = "settle" /\ ~At("serving")
     \/ cmd.pc = "stopping" /\ Windows
  /\ CmdGoto("idle")
  /\ CmdStep /\ UNCHANGED <<serviceVars, proc, commands>>

-----------------------------------------------------------------------------
(* An update, and the installer it runs *)

UpdStep == UNCHANGED <<platform, keyVars, cmd, acked>>
NoService == UNCHANGED <<serviceVars, proc, call>>
UpdGoto(pc) == upd' = IF pc = "idle" THEN NoUpd ELSE [upd EXCEPT !.pc = pc]

Publish ==
  /\ latest < MaxRelease
  /\ latest' = latest + 1
  /\ UpdStep /\ NoService
  /\ UNCHANGED <<settings, quix, quixd, upd, named, commands, faults>>

\* The plan: any difference is worth an installation, and --force needs none.
\* Without privileges there is an error on Unix and a prompt on Windows.
Update(u, force, elevated) ==
  /\ Command
  /\ upd.pc = "idle" /\ (latest # quix \/ force)
  /\ elevated \/ Windows
  /\ upd' = [pc |-> IF elevated THEN "checked" ELSE "prompt", tag |-> latest,
             user |-> u, kept |-> NoOne]
  /\ UpdStep /\ NoService
  /\ UNCHANGED <<settings, binVars, named, faults>>

\* The same command again, elevated: it asks for the latest release once more.
Privileged ==
  /\ upd.pc = "prompt"
  /\ upd' = [upd EXCEPT !.pc = "checked", !.tag = latest]
  /\ UpdStep /\ NoService
  /\ UNCHANGED <<settings, binVars, named, commands, faults>>

Declined ==
  /\ upd.pc = "prompt"
  /\ UpdGoto("idle")
  /\ UpdStep /\ NoService
  /\ UNCHANGED <<settings, binVars, named, commands, faults>>

\* The download fails or does not match its checksum.
NothingFetched ==
  /\ upd.pc = "checked"
  /\ Fault
  /\ UpdGoto("idle")
  /\ UpdStep /\ NoService /\ UNCHANGED <<settings, binVars, named, commands>>

\* The archive of that tag, and no other, is unpacked; the installer begins.
Fetch ==
  /\ upd.pc = "checked"
  /\ upd' = [upd EXCEPT !.pc = "staged",
                         !.kept = IF settings \in User THEN settings ELSE NoOne]
  /\ UpdStep /\ NoService
  /\ UNCHANGED <<settings, binVars, named, commands, faults>>

\* One binary after the other is renamed into its place.
Swap ==
  /\ \/ upd.pc = "staged" /\ quix' = upd.tag /\ UpdGoto("swapped")
        /\ UNCHANGED quixd
     \/ upd.pc = "swapped" /\ quixd' = upd.tag /\ UpdGoto("placed")
        /\ UNCHANGED quix
  /\ UpdStep /\ NoService
  /\ UNCHANGED <<settings, latest, named, commands, faults>>

\* Mutant: the one who updates becomes the operator.
NobodyKept(file) == FALSE

\* --keep-operator, and the file names one.
KeepOperator(file) == file \in User

\* The service is set up.  On Windows the settings are written here, unless
\* they cannot be read: the file is emptied first.
Configure ==
  /\ upd.pc = "placed"
  /\ enabled' = TRUE
  /\ IF Unix \/ KeepOperator(settings)
     THEN UpdGoto("configured") /\ UNCHANGED settings
     ELSE IF settings = Torn
          THEN UpdGoto("finish") /\ UNCHANGED settings
          ELSE UpdGoto("writing") /\ settings' = Torn
  /\ UpdStep
  /\ UNCHANGED <<binVars, unit, job, starts, proc, call, named, commands, faults>>

WriteOperator ==
  /\ upd.pc = "writing"
  /\ UpdGoto("configured")
  /\ settings' = upd.user
  /\ named' = named \cup {upd.user}
  /\ UpdStep /\ NoService /\ UNCHANGED <<binVars, commands, faults>>

\* Mutant: `enable --now', which leaves what runs alone.
StartIfStopped ==
  /\ upd.pc = "configured"
  /\ ManagerStart /\ UpdGoto("waiting")
  /\ UpdStep
  /\ UNCHANGED <<settings, binVars, enabled, call, named, commands, faults>>

RestartService ==
  /\ upd.pc = "configured"
  /\ IF Unix
     THEN ManagerRestart /\ UpdGoto("restarting")
     ELSE IF unit = "active"
          THEN ManagerStop /\ UpdGoto("stopping")
          ELSE Begin(0) /\ UpdGoto("waiting") /\ UNCHANGED job
  /\ UpdStep
  /\ UNCHANGED <<settings, binVars, enabled, call, named, commands, faults>>

\* systemd's job is done, or was replaced; the SCM reports it stopped.
Restarted ==
  /\ \/ /\ upd.pc = "restarting" /\ job # "restart"
        /\ UpdGoto(IF job = "none" THEN "waiting" ELSE "idle")
        /\ UNCHANGED <<unit, starts, proc>>
     \/ /\ upd.pc = "stopping" /\ unit # "active"
        /\ Begin(0) /\ UpdGoto("waiting")
  /\ UpdStep
  /\ UNCHANGED <<settings, binVars, enabled, job, call, named, commands, faults>>

WaitReady ==
  /\ upd.pc = "waiting" /\ At("serving")
  /\ UpdGoto("ready")
  /\ UpdStep /\ NoService
  /\ UNCHANGED <<settings, binVars, named, commands, faults>>

\* It stopped while starting, or takes too long; that is the manager's to mend.
NotReady ==
  /\ upd.pc = "waiting" /\ ~At("serving")
  /\ UpdGoto("idle")
  /\ UpdStep /\ NoService
  /\ UNCHANGED <<settings, binVars, named, commands, faults>>

\* On Unix the operator comes last, through the daemon.
Operator ==
  LET u == upd.user
  IN  /\ upd.pc = "ready"
      /\ \/ /\ Windows \/ KeepOperator(settings) \/ ~At("serving")
            /\ UpdGoto("idle") /\ UNCHANGED call
         \/ /\ Unix /\ ~KeepOperator(settings) /\ At("serving")
            /\ call[u].pc = "idle"
            /\ UpdGoto("asking")
            /\ call' = [call EXCEPT ![u] =
                 [pc |-> "sent", do |-> "set_operator", who |-> u,
                  admin |-> TRUE, done |-> 0]]
      /\ UpdStep
      /\ UNCHANGED <<settings, binVars, serviceVars, proc, named, commands,
                     faults>>

Installed ==
  /\ upd.pc = "asking" /\ call[upd.user].pc = "idle"
  /\ UpdGoto("idle")
  /\ UpdStep /\ NoService
  /\ UNCHANGED <<settings, binVars, named, commands, faults>>

\* A step before the restart fails, or the daemon does not stop on Windows.
InstallFails ==
  /\ \/ upd.pc \in {"staged", "swapped", "placed", "writing", "configured"}
        /\ Fault
     \/ upd.pc = "stopping" /\ UNCHANGED faults
  /\ UpdGoto("finish")
  /\ UpdStep /\ NoService /\ UNCHANGED <<settings, binVars, named, commands>>

\* "a failure must still never leave it down": a start without `reset-failed'.
Finish ==
  /\ upd.pc = "finish"
  /\ StartAfter(starts)
  /\ UpdGoto("idle")
  /\ UpdStep
  /\ UNCHANGED <<settings, binVars, enabled, call, named, commands, faults>>

\* The machine goes down and comes up: what is on disk is left.
Reboot ==
  /\ Fault
  /\ IF enabled THEN Begin(0)
     ELSE proc' = NoProcess /\ unit' = "inactive" /\ starts' = 0
  /\ job' = "none"
  /\ call' = [u \in User |-> NoCall(u)] /\ cmd' = NoCmd /\ upd' = NoUpd
  /\ UNCHANGED <<platform, keyVars, settings, binVars, enabled, ghosts, commands>>

-----------------------------------------------------------------------------
Daemon ==
  \/ LoadKey \/ CreateKey \/ RefuseKey \/ RestrictKey \/ WriteKey
  \/ LoadSettings \/ Serve \/ Close \/ Exit

CallGoes(u) ==
  \/ \E known \in BOOLEAN : Check(u, known)
  \/ Dispatch(u) \/ SetOperator(u) \/ Saved(u) \/ Return(u)

CommandGoes == DoStart \/ DoStop \/ DoRestart \/ Proceed \/ GiveUp

UpdateGoes ==
  \/ NothingFetched \/ Fetch \/ Swap \/ Configure \/ WriteOperator
  \/ RestartService \/ Restarted \/ WaitReady \/ NotReady \/ Operator
  \/ Installed \/ InstallFails \/ Finish

Next ==
  \/ Daemon \/ StartFails \/ Crash \/ KillLate \/ AutoRestart
  \/ IntervalOver \/ Reboot
  \/ \E u \in User :
       \/ \E do \in Do, who \in User, admin \in BOOLEAN :
            (do # "set_operator" => who = u) /\ Ask(u, do, who, admin)
       \/ \E force, elevated \in BOOLEAN : Update(u, force, elevated)
       \/ CallGoes(u) \/ SaveFails(u) \/ Decline(u) \/ Approve(u)
  \/ \E act \in {"start", "stop", "restart"} : ServiceCommand(act)
  \/ \E on \in BOOLEAN : AtBoot(on)
  \/ CommandGoes \/ UpdateGoes \/ Privileged \/ Declined \/ Publish

Spec == Init /\ [][Next]_vars

\* Processes run, time limits run out, the service manager does its work.
\* Nobody has to give a command or to answer a prompt.
FairSpec ==
  /\ Spec
  /\ WF_vars(Daemon) /\ WF_vars(KillLate) /\ WF_vars(AutoRestart)
  /\ \A u \in User : WF_vars(CallGoes(u))
  /\ WF_vars(CommandGoes) /\ WF_vars(UpdateGoes)

-----------------------------------------------------------------------------
(* Properties *)

\* The key is never on disk where other users can read it, at whatever point
\* its making is cut short (identity.rs, write_protected: "The permissions go
\* on before the bytes do").
KeyPrivate == key \in Nat => ~exposed

\* A machine has one identity for good: a whole key is never replaced, whatever
\* crashes and failed reads happen, and the daemon runs under no other
\* (identity.rs: "overwriting would silently mint a new identity").
IdentityKept ==
  [][/\ key \in Nat => key' = key
     /\ proc'.key # Absent => proc'.key = key']_vars

\* What was refused has not been done, and asking again with more rights does
\* it once (client.rs: "re-running the command elevated repeats no work").
DoneOnce ==
  \A u \in User : call[u].pc \in {"sent", "refused", "prompt"}
                     => call[u].done = 0

\* Whoever may give commands was named by somebody who might, across restarts,
\* damaged settings and updates (authz.rs, check).
OperatorNamed ==
  proc.op \in named \cup {NoOne} /\ settings \in named \cup {NoOne, Torn}

\* An operator its caller was told of is in force, also after every restart, as
\* long as nobody names another and the settings can be read (state.rs,
\* set_operator).
OperatorHolds ==
  acked # NoOne /\ proc.pc \in {"ready", "serving", "closing"}
    => proc.op = acked

\* An update leaves the operator it finds alone (install.sh: "updating never
\* hands the machine to whoever ran sudo").
OperatorKept == upd.kept # NoOne => settings = upd.kept

\* A restart that waits for the daemon waits for a new one, however the old one
\* ends (service_manager.rs, restart).
RestartRenews == cmd.act = "restart" /\ cmd.pc = "settle" => ~proc.old

\* An update that finds the daemon ready has replaced both binaries and runs the
\* release it reported, although another may be published and the daemon may
\* crash or be stopped meanwhile (update.rs; install.sh: "it would silently
\* leave an upgrade running the old code").
UpdatedRuns ==
  upd.pc \in {"ready", "asking"} =>
    /\ quix = upd.tag /\ quixd = upd.tag
    /\ proc.pc # "none" => proc.ver = upd.tag

\* The service manager does not try any more: systemd after StartLimit starts,
\* the SCM when the daemon itself reported that it failed.
GaveUp == unit = "failed" /\ (Unix => starts = StartLimit)

\* A service that nobody stops gets to serve again after crashes and, on Unix,
\* failed starts, unless its key file was cut short or its manager gave up
\* (quixd.service, Restart=; install.ps1, sc.exe failure).
ComesBack ==
  (unit \in {"active", "waiting"} /\ job # "stop")
    ~> \/ At("serving") \/ key = Short \/ GaveUp
       \/ unit = "inactive" \/ job = "stop"

\* Every command returns, or waits for a prompt to be answered.  The waits of
\* service commands and updates have limits; that for the daemon's answer has
\* none, and ends because the handler or the daemon does (client.rs,
\* service_manager.rs, update.rs).
CommandsReturn ==
  /\ cmd.pc # "idle" ~> cmd.pc = "idle"
  /\ upd.pc # "idle" ~> upd.pc \in {"idle", "prompt"}
  /\ \A u \in User :
       call[u].pc # "idle" ~> call[u].pc \in {"idle", "prompt"}

-----------------------------------------------------------------------------
(* What comments say, and the code does not keep *)

\* "Come back automatically after a crash, matching Restart=on-failure on Linux"
\* (install.ps1): only systemd's limit keeps a service that failed down.
ComesBackAlike ==
  (unit \in {"active", "waiting"} /\ job # "stop")
    ~> \/ At("serving") \/ key = Short \/ (GaveUp /\ Unix)
       \/ unit = "inactive" \/ job = "stop"
=============================================================================
