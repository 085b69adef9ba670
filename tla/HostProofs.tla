------------------------------ MODULE HostProofs ------------------------------
(***************************************************************************)
(* Proofs about module Host, for any users, any number of releases,        *)
(* commands, failures, crashes and reboots, on both platforms.             *)
(***************************************************************************)
EXTENDS Host, TLAPS

-----------------------------------------------------------------------------
(* Types *)

\* The part of TypeOK about the service and its process.
ServiceOK ==
  /\ unit \in {"inactive", "active", "waiting", "failed"}
  /\ job \in {"none", "stop", "restart"}
  /\ starts \in 0 .. StartLimit
  /\ proc \in Process
  /\ (unit = "active") <=> (proc.pc # "none")
  /\ job # "none" => unit = "active" /\ proc.asked

\* A process that starts, and none, are processes.
LEMMA ProcessTypes ==
  ASSUME TypeOK
  PROVE  /\ Started \in Process /\ Started.pc = "load"
         /\ NoProcess \in Process /\ NoProcess.pc = "none"
BY DEF TypeOK, Started, NoProcess, Process, ProcPC

\* Nothing asked, no command under way, no update: what each returns to.
LEMMA RestTypes ==
  /\ \A u \in User : NoCall(u) \in Call
  /\ NoCmd \in Cmd /\ NoUpd \in Upd
<1>1. \A u \in User : NoCall(u) \in Call
  BY DEF NoCall, Call, CallPC, Do
<1>2. NoCmd \in Cmd
  BY DEF NoCmd, Cmd, CmdPC
<1>3. PICK u \in User :
        NoUpd = [pc |-> "idle", tag |-> 1, user |-> u, kept |-> NoOne]
  <2>1. (CHOOSE u \in User : TRUE) \in User
    BY HostNameAssumption
  <2> QED
    BY <2>1 DEF NoUpd
<1>4. NoUpd \in Upd
  BY <1>3, HostBoundAssumption DEF Upd, UpdPC
<1> QED
  BY <1>1, <1>2, <1>4

\* Starting the service when nothing is asked of it, within the limit.
LEMMA BeginService ==
  ASSUME TypeOK, NEW before \in Nat, MayStart(before), Begin(before), job' = "none"
  PROVE  ServiceOK'
<1>1. starts' \in 0 .. StartLimit
  BY StartLimitAssumption DEF Begin, MayStart, Unix, Windows
<1> QED
  BY <1>1, ProcessTypes DEF Begin, ServiceOK

\* The first start of an interval is within the limit.
LEMMA FirstStart == 0 \in Nat /\ MayStart(0)
BY StartLimitAssumption DEF MayStart

\* The process ends, one way or another.
LEMMA EndedService ==
  ASSUME TypeOK, NEW how, Ended(how)
  PROVE  ServiceOK' /\ call' \in [User -> Call]
<1>1. call' \in [User -> Call]
  BY DEF Ended, DropCalls, TypeOK, Call, CallPC
<1>2. ServiceOK'
  <2>1. CASE job = "restart" /\ MayStart(starts)
    <3>1. starts \in Nat
      BY StartLimitAssumption DEF TypeOK
    <3> QED
      BY <2>1, <3>1, BeginService DEF Ended
  <2>2. CASE ~(job = "restart" /\ MayStart(starts))
    BY <2>2, ProcessTypes DEF Ended, ServiceOK, TypeOK
  <2> QED
    BY <2>1, <2>2
<1> QED
  BY <1>1, <1>2

\* What the service manager does with a request to start.
LEMMA StartService ==
  ASSUME TypeOK, NEW before \in 0 .. StartLimit, StartAfter(before)
  PROVE  ServiceOK'
<1>0. before \in Nat /\ 0 \in 0 .. StartLimit
  BY StartLimitAssumption
<1>1. CASE unit = "active"
  BY <1>0, <1>1 DEF StartAfter, ServiceOK, TypeOK
<1>2. CASE unit # "active" /\ MayStart(before)
  BY <1>0, <1>2, BeginService DEF StartAfter, TypeOK
<1>3. CASE unit # "active" /\ ~MayStart(before)
  BY <1>3 DEF StartAfter, ServiceOK, TypeOK
<1> QED
  BY <1>1, <1>2, <1>3

\* What the service manager does with a request to stop.
LEMMA StopService ==
  ASSUME TypeOK, ManagerStop
  PROVE  ServiceOK'
BY DEF ManagerStop, ServiceOK, TypeOK, Process

\* What the service manager does with a request to restart.
LEMMA RestartServiceType ==
  ASSUME TypeOK, ManagerRestart
  PROVE  ServiceOK'
<1>1. CASE unit = "active"
  <2>1. starts' \in 0 .. StartLimit
    BY <1>1, StartLimitAssumption DEF ManagerRestart
  <2> QED
    BY <1>1, <2>1 DEF ManagerRestart, ServiceOK, TypeOK, Process
<1>2. CASE unit # "active"
  BY <1>2, FirstStart, BeginService DEF ManagerRestart, TypeOK
<1> QED
  BY <1>1, <1>2

\* A fault counts against its bound.
LEMMA FaultType ==
  ASSUME TypeOK, Fault \/ UNCHANGED faults
  PROVE  faults' \in 0 .. MaxFaults
BY HostBoundAssumption DEF TypeOK, Fault

\* A command counts against its bound.
LEMMA CommandType ==
  ASSUME TypeOK, Command \/ UNCHANGED commands
  PROVE  commands' \in 0 .. MaxCommands
BY HostBoundAssumption DEF TypeOK, Command

\* Every step of the daemon keeps the state well formed.
LEMMA DaemonType ==
  ASSUME TypeOK,
         \/ Daemon \/ StartFails \/ Crash \/ KillLate \/ AutoRestart
         \/ IntervalOver \/ Reboot
  PROVE  TypeOK'
<1> USE FaultType DEF DaemonStep, Same, keyVars, binVars, ghosts, serviceVars, At
<1>1. CASE LoadKey
  <2>1. exposed' \in BOOLEAN
    BY <1>1 DEF LoadKey, TypeOK
  <2>2. Fault \/ UNCHANGED faults
    BY <1>1 DEF LoadKey
  <2> QED
    BY <1>1, <2>1, <2>2 DEF LoadKey, TypeOK, Process, ProcPC
<1>2. CASE CreateKey
  <2>1. Fault \/ UNCHANGED faults
    BY <1>2 DEF CreateKey
  <2>2. CASE MayCreate
    <3>1. exposed' \in BOOLEAN
      BY <1>2, <2>2 DEF CreateKey, Windows
    <3> QED
      BY <1>2, <2>1, <2>2, <3>1 DEF CreateKey, Goto, TypeOK, Process, ProcPC
  <2>3. CASE ~MayCreate
    BY <1>2, <2>1, <2>3, EndedService DEF CreateKey, Exits, TypeOK, ServiceOK
  <2> QED
    BY <2>2, <2>3
<1>3. CASE RefuseKey
  BY <1>3, EndedService DEF RefuseKey, Exits, TypeOK, ServiceOK
<1>4. CASE RestrictKey
  BY <1>4 DEF RestrictKey, Goto, TypeOK, Process, ProcPC
<1>5. CASE WriteKey
  <2>1. ServiceOK'
    BY <1>5 DEF WriteKey, TypeOK, Process, ProcPC, ServiceOK
  <2>2. key' \in Nat /\ keys' \in Nat
    BY <1>5 DEF WriteKey, TypeOK
  <2> QED
    BY <1>5, <2>1, <2>2 DEF WriteKey, TypeOK, ServiceOK
<1>6. CASE LoadSettings
  <2>1. Fault \/ UNCHANGED faults
    BY <1>6 DEF LoadSettings
  <2>2. acked' \in User \cup {NoOne}
    BY <1>6 DEF LoadSettings, TypeOK
  <2>3. (IF settings \in User THEN settings ELSE NoOne) \in User \cup {NoOne}
    OBVIOUS
  <2>4. ServiceOK'
    BY <1>6, <2>3 DEF LoadSettings, Goto, TypeOK, Process, ProcPC, ServiceOK
  <2> QED
    BY <1>6, <2>1, <2>2, <2>4 DEF LoadSettings, TypeOK, ServiceOK
<1>7. CASE Serve
  BY <1>7 DEF Serve, Goto, TypeOK, Process, ProcPC
<1>8. CASE Close
  BY <1>8 DEF Close, Goto, TypeOK, Process, ProcPC
<1>9. CASE Exit
  BY <1>9, EndedService DEF Exit, TypeOK, ServiceOK
<1>10. CASE StartFails
  BY <1>10, EndedService DEF StartFails, Exits, TypeOK, ServiceOK
<1>11. CASE Crash
  BY <1>11, EndedService DEF Crash, TypeOK, ServiceOK
<1>12. CASE KillLate
  BY <1>12, EndedService DEF KillLate, TypeOK, ServiceOK
<1>13. CASE AutoRestart
  <2>1. job' = "none" /\ starts \in Nat
    BY <1>13, StartLimitAssumption DEF AutoRestart, TypeOK
  <2>2. ServiceOK'
    <3>1. CASE MayStart(starts)
      BY <1>13, <2>1, <3>1, BeginService DEF AutoRestart
    <3>2. CASE ~MayStart(starts)
      BY <1>13, <2>1, <3>2 DEF AutoRestart, TypeOK, ServiceOK
    <3> QED
      BY <3>1, <3>2
  <2> QED
    BY <1>13, <2>2 DEF AutoRestart, TypeOK, ServiceOK
<1>14. CASE Reboot
  <2>1. ServiceOK'
    <3>1. CASE enabled
      BY <1>14, <3>1, FirstStart, BeginService DEF Reboot
    <3>2. CASE ~enabled
      BY <1>14, <3>2, ProcessTypes, StartLimitAssumption DEF Reboot, ServiceOK
    <3> QED
      BY <3>1, <3>2
  <2>2. call' \in [User -> Call] /\ cmd' \in Cmd /\ upd' \in Upd
    BY <1>14, RestTypes DEF Reboot
  <2> QED
    BY <1>14, <2>1, <2>2 DEF Reboot, TypeOK, ServiceOK
<1>15. CASE IntervalOver
  BY <1>15, StartLimitAssumption DEF IntervalOver, TypeOK
<1> QED
  BY <1>1, <1>2, <1>3, <1>4, <1>5, <1>6, <1>7, <1>8, <1>9, <1>10, <1>11, <1>12,
     <1>13, <1>14, <1>15 DEF Daemon

\* One command after one of its fields changes.
LEMMA CallField ==
  ASSUME NEW c \in [User -> Call], NEW u \in User, NEW pc \in CallPC,
         NEW admin \in BOOLEAN, NEW done \in 0 .. 1
  PROVE  /\ [c EXCEPT ![u].pc = pc] \in [User -> Call]
         /\ [c EXCEPT ![u].done = done] \in [User -> Call]
         /\ [c EXCEPT ![u].admin = admin] \in [User -> Call]
<1> c[u] \in Call
  OBVIOUS
<1>1. [c[u] EXCEPT !.pc = pc] \in Call
  BY DEF Call
<1>2. [c[u] EXCEPT !.done = done] \in Call
  BY DEF Call
<1>3. [c[u] EXCEPT !.admin = admin] \in Call
  BY DEF Call
<1> QED
  BY <1>1, <1>2, <1>3

\* One command after two of its fields change.
LEMMA CallChanged ==
  ASSUME TypeOK, NEW u \in User, NEW pc \in CallPC, NEW admin \in BOOLEAN,
         NEW done \in 0 .. 1
  PROVE  /\ [call EXCEPT ![u].pc = pc, ![u].done = done] \in [User -> Call]
         /\ [call EXCEPT ![u].pc = pc, ![u].admin = admin] \in [User -> Call]
<1>1. PICK c : c = [call EXCEPT ![u].pc = pc]
  OBVIOUS
<1>2. c \in [User -> Call]
  BY <1>1, CallField DEF TypeOK
<1>3. /\ [c EXCEPT ![u].done = done] \in [User -> Call]
      /\ [c EXCEPT ![u].admin = admin] \in [User -> Call]
  BY <1>2, CallField
<1> QED
  BY <1>1, <1>3

\* A command goes on to another place, or is over.
LEMMA TurnType ==
  ASSUME TypeOK, NEW u \in User, NEW pc \in CallPC, Turn(u, pc)
  PROVE  call' \in [User -> Call]
<1>1. [call[u] EXCEPT !.pc = pc] \in Call
  BY DEF TypeOK, Call
<1> QED
  BY <1>1, RestTypes DEF Turn, TypeOK

\* Every step of a command over IPC keeps the state well formed.
LEMMA CallType ==
  ASSUME TypeOK, NEW u \in User,
         \/ CallGoes(u) \/ SaveFails(u) \/ Decline(u) \/ Approve(u)
         \/ \E do \in Do, who \in User, admin \in BOOLEAN : Ask(u, do, who, admin)
  PROVE  TypeOK'
<1> USE FaultType, CommandType
    DEF CallStep, keyVars, binVars, ghosts, serviceVars
<1>0. /\ "idle" \in CallPC /\ "answered" \in CallPC /\ "failed" \in CallPC
      /\ "prompt" \in CallPC /\ "allowed" \in CallPC /\ "refused" \in CallPC
  BY DEF CallPC
<1>1. ASSUME NEW do \in Do, NEW who \in User, NEW admin \in BOOLEAN,
             Ask(u, do, who, admin)
      PROVE  TypeOK'
  BY <1>1 DEF Ask, TypeOK, Call, CallPC
<1>2. ASSUME NEW known \in BOOLEAN, Check(u, known) PROVE TypeOK'
  <2>1. Fault \/ UNCHANGED faults
    BY <1>2 DEF Check
  <2>2. call' \in [User -> Call]
    BY <1>0, <1>2, TurnType DEF Check
  <2> QED
    BY <1>2, <2>1, <2>2 DEF Check, TypeOK
<1>3. CASE Dispatch(u)
  <2>1. "answered" \in CallPC /\ 0 \in 0 .. 1 /\ 1 \in 0 .. 1
    BY DEF CallPC
  <2>2. call' \in [User -> Call]
    BY <1>3, <2>1, CallChanged DEF Dispatch
  <2> QED
    BY <1>3, <2>2 DEF Dispatch, TypeOK
<1>4. CASE SetOperator(u)
  <2>0. "saving" \in CallPC /\ 1 \in 0 .. 1
    BY DEF CallPC
  <2>1. call' \in [User -> Call] /\ call[u].who \in User
    BY <1>4, <2>0, CallChanged DEF SetOperator, TypeOK, Call
  <2>2. upd' \in Upd
    BY <1>4 DEF SetOperator, TypeOK, Upd
  <2>3. ServiceOK'
    BY <1>4, <2>1 DEF SetOperator, TypeOK, Process, ServiceOK
  <2>4. named' \subseteq User
    BY <1>4, <2>1 DEF SetOperator, TypeOK
  <2> QED
    BY <1>4, <2>1, <2>2, <2>3, <2>4 DEF SetOperator, TypeOK, ServiceOK
<1>5. CASE Saved(u)
  <2>1. call' \in [User -> Call] /\ call[u].who \in User
    BY <1>0, <1>5, TurnType DEF Saved, TypeOK, Call
  <2> QED
    BY <1>5, <2>1 DEF Saved, TypeOK
<1>6. CASE Return(u)
  <2>1. call' \in [User -> Call]
    BY <1>0, <1>6, TurnType DEF Return
  <2> QED
    BY <1>6, <2>1 DEF Return, TypeOK
<1>7. CASE SaveFails(u)
  BY <1>0, <1>7, TurnType DEF SaveFails, TypeOK
<1>8. CASE Decline(u)
  BY <1>0, <1>8, TurnType DEF Decline, TypeOK
<1>9. CASE Approve(u)
  <2>1. "sent" \in CallPC /\ "failed" \in CallPC /\ TRUE \in BOOLEAN
    BY DEF CallPC
  <2>2. PICK pc \in CallPC :
          call' = [call EXCEPT ![u].pc = pc, ![u].admin = TRUE]
    BY <1>9, <2>1 DEF Approve
  <2>3. call' \in [User -> Call]
    <3>1. 0 \in 0 .. 1
      OBVIOUS
    <3> HIDE DEF CallPC
    <3>2. [call EXCEPT ![u].pc = pc, ![u].admin = TRUE] \in [User -> Call]
      BY <2>1, <3>1, CallChanged
    <3> QED
      BY <2>2, <3>2
  <2> QED
    BY <1>9, <2>3 DEF Approve, TypeOK
<1> QED
  BY <1>1, <1>2, <1>3, <1>4, <1>5, <1>6, <1>7, <1>8, <1>9 DEF CallGoes

\* A service command goes on to another place, or is over.
LEMMA CmdGotoType ==
  ASSUME TypeOK, NEW pc \in CmdPC, CmdGoto(pc)
  PROVE  /\ cmd' \in Cmd /\ cmd'.pc = pc
         /\ cmd'.act = IF pc = "idle" THEN "start" ELSE cmd.act
<1>1. [cmd EXCEPT !.pc = pc] \in Cmd
  BY DEF TypeOK, Cmd
<1> QED
  BY <1>1, RestTypes DEF CmdGoto, NoCmd, TypeOK, Cmd

\* Every step of a service command keeps the state well formed.
LEMMA CmdType ==
  ASSUME TypeOK,
         \/ CommandGoes
         \/ \E act \in {"start", "stop", "restart"} : ServiceCommand(act)
         \/ \E on \in BOOLEAN : AtBoot(on)
  PROVE  TypeOK'
<1> USE FaultType, CommandType
    DEF CmdStep, keyVars, binVars, ghosts, serviceVars
<1>0. {"idle", "start", "stopping", "restarting", "settle"} \subseteq CmdPC
  BY DEF CmdPC
<1>1. ASSUME NEW act \in {"start", "stop", "restart"}, ServiceCommand(act)
      PROVE  TypeOK'
  <2>1. cmd' \in Cmd
    BY <1>1, RestTypes DEF ServiceCommand, Cmd, CmdPC
  <2>2. proc.pc # "none" <=> ~At("none")
    BY DEF At
  <2>3. ServiceOK'
    BY <1>1 DEF ServiceCommand, TypeOK, ServiceOK, Process, At
  <2> QED
    BY <1>1, <2>1, <2>3 DEF ServiceCommand, TypeOK, ServiceOK
<1>2. ASSUME NEW on \in BOOLEAN, AtBoot(on) PROVE TypeOK'
  BY <1>2 DEF AtBoot, TypeOK
<1>3. CASE DoStart
  <2>1. 0 \in 0 .. StartLimit
    BY StartLimitAssumption
  <2>2. ServiceOK' /\ cmd' \in Cmd
    BY <1>0, <1>3, <2>1, StartService, CmdGotoType DEF DoStart, ManagerStart
  <2> QED
    BY <1>3, <2>2 DEF DoStart, TypeOK, ServiceOK
<1>4. CASE DoStop
  <2>1. ServiceOK' /\ cmd' \in Cmd
    BY <1>0, <1>4, StopService, CmdGotoType DEF DoStop
  <2> QED
    BY <1>4, <2>1 DEF DoStop, TypeOK, ServiceOK
<1>5. CASE DoRestart
  <2>1. ServiceOK'
    BY <1>5, RestartServiceType, StopService DEF DoRestart, TypeOK, ServiceOK
  <2>2. cmd' \in Cmd
    BY <1>0, <1>5, CmdGotoType DEF DoRestart
  <2> QED
    BY <1>5, <2>1, <2>2 DEF DoRestart, TypeOK, ServiceOK
<1>6. CASE Proceed
  <2>1. cmd' \in Cmd
    BY <1>0, <1>6, CmdGotoType DEF Proceed
  <2> QED
    BY <1>6, <2>1 DEF Proceed, TypeOK
<1>7. CASE GiveUp
  BY <1>0, <1>7, CmdGotoType DEF GiveUp, TypeOK
<1> QED
  BY <1>1, <1>2, <1>3, <1>4, <1>5, <1>6, <1>7 DEF CommandGoes

\* An update's step goes on to another place.
LEMMA UpdGotoType ==
  ASSUME TypeOK, NEW pc \in UpdPC, UpdGoto(pc)
  PROVE  /\ upd' \in Upd /\ upd'.pc = pc
         /\ pc # "idle" => upd'.tag = upd.tag /\ upd'.user = upd.user
         /\ upd'.kept = IF pc = "idle" THEN NoOne ELSE upd.kept
<1>1. [upd EXCEPT !.pc = pc] \in Upd
  BY DEF TypeOK, Upd
<1> QED
  BY <1>1, RestTypes DEF UpdGoto, NoUpd, TypeOK, Upd

\* Every step of an update keeps the state well formed.
LEMMA UpdateType ==
  ASSUME TypeOK,
         \/ UpdateGoes \/ Privileged \/ Declined \/ Publish
         \/ \E u \in User, force, elevated \in BOOLEAN : Update(u, force, elevated)
  PROVE  TypeOK'
<1> USE FaultType, CommandType
    DEF UpdStep, NoService, keyVars, binVars, serviceVars
<1>0. /\ "idle" \in UpdPC /\ "swapped" \in UpdPC /\ "placed" \in UpdPC
      /\ "configured" \in UpdPC /\ "stopping" \in UpdPC /\ "restarting" \in UpdPC
      /\ "waiting" \in UpdPC /\ "ready" \in UpdPC /\ "asking" \in UpdPC
      /\ "finish" \in UpdPC /\ "writing" \in UpdPC
  BY DEF UpdPC
<1>1. CASE Publish
  BY <1>1, HostBoundAssumption DEF Publish, TypeOK
<1>2. ASSUME NEW u \in User, NEW force \in BOOLEAN, NEW elevated \in BOOLEAN,
             Update(u, force, elevated)
      PROVE  TypeOK'
  BY <1>2 DEF Update, TypeOK, Upd, UpdPC
<1>3. CASE Privileged
  <2>1. upd' \in Upd
    BY <1>3 DEF Privileged, TypeOK, Upd, UpdPC
  <2> QED
    BY <1>3, <2>1 DEF Privileged, TypeOK
<1>4. CASE NothingFetched
  BY <1>0, <1>4, UpdGotoType DEF NothingFetched, TypeOK
<1>5. CASE Fetch
  <2>1. upd' \in Upd
    BY <1>5 DEF Fetch, TypeOK, Upd, UpdPC
  <2> QED
    BY <1>5, <2>1 DEF Fetch, TypeOK
<1>6. CASE Swap
  <2>1. upd' \in Upd /\ upd.tag \in 1 .. MaxRelease
    BY <1>0, <1>6, UpdGotoType DEF Swap, TypeOK, Upd
  <2> QED
    BY <1>6, <2>1 DEF Swap, TypeOK
<1>7. CASE Configure
  <2>1. upd' \in Upd /\ upd.user \in User
    BY <1>0, <1>7, UpdGotoType DEF Configure, TypeOK, Upd
  <2> QED
    BY <1>7, <2>1 DEF Configure, TypeOK
<1>8. CASE RestartService
  <2>1. ServiceOK'
    <3>1. CASE Unix
      BY <1>8, <3>1, RestartServiceType DEF RestartService
    <3>2. CASE ~Unix /\ unit = "active"
      BY <1>8, <3>2, StopService DEF RestartService
    <3>3. CASE ~Unix /\ unit # "active"
      BY <1>8, <3>3, FirstStart, BeginService DEF RestartService, TypeOK
    <3> QED
      BY <3>1, <3>2, <3>3
  <2>2. upd' \in Upd
    BY <1>0, <1>8, UpdGotoType DEF RestartService
  <2> QED
    BY <1>8, <2>1, <2>2 DEF RestartService, TypeOK, ServiceOK
<1>9. CASE Restarted
  <2>1. ServiceOK'
    <3>1. CASE upd.pc = "stopping"
      <4>1. Begin(0) /\ job' = "none"
        BY <1>9, <3>1 DEF Restarted, TypeOK
      <4> QED
        BY <4>1, FirstStart, BeginService
    <3>2. CASE upd.pc # "stopping"
      BY <1>9, <3>2 DEF Restarted, TypeOK, ServiceOK
    <3> QED
      BY <3>1, <3>2
  <2>2. upd' \in Upd
    BY <1>0, <1>9, UpdGotoType DEF Restarted
  <2> QED
    BY <1>9, <2>1, <2>2 DEF Restarted, TypeOK, ServiceOK
<1>10. CASE WaitReady
  BY <1>0, <1>10, UpdGotoType DEF WaitReady, TypeOK
<1>11. CASE NotReady
  BY <1>0, <1>11, UpdGotoType DEF NotReady, TypeOK
<1>12. CASE Operator
  <2>1. upd' \in Upd /\ upd.user \in User
    BY <1>0, <1>12, UpdGotoType DEF Operator, TypeOK, Upd
  <2>2. [pc |-> "sent", do |-> "set_operator", who |-> upd.user, admin |-> TRUE,
         done |-> 0] \in Call
    BY <2>1 DEF Call, CallPC, Do
  <2>3. call' \in [User -> Call]
    BY <1>12, <2>1, <2>2 DEF Operator, TypeOK
  <2> QED
    BY <1>12, <2>1, <2>3 DEF Operator, TypeOK
<1>13. CASE Installed
  BY <1>0, <1>13, UpdGotoType DEF Installed, TypeOK
<1>14. CASE InstallFails
  <2>1. Fault \/ UNCHANGED faults
    BY <1>14 DEF InstallFails
  <2> QED
    BY <1>0, <1>14, <2>1, UpdGotoType DEF InstallFails, TypeOK
<1>15. CASE Finish
  <2>1. ServiceOK'
    BY <1>15, StartService DEF Finish, TypeOK
  <2>2. upd' \in Upd
    BY <1>0, <1>15, UpdGotoType DEF Finish
  <2> QED
    BY <1>15, <2>1, <2>2 DEF Finish, TypeOK, ServiceOK
<1>16. CASE Declined
  BY <1>0, <1>16, UpdGotoType DEF Declined, TypeOK
<1>17. CASE WriteOperator
  <2>1. upd' \in Upd /\ upd.user \in User
    BY <1>0, <1>17, UpdGotoType DEF WriteOperator, TypeOK, Upd
  <2> QED
    BY <1>17, <2>1 DEF WriteOperator, TypeOK
<1> QED
  BY <1>1, <1>2, <1>3, <1>4, <1>5, <1>6, <1>7, <1>8, <1>9, <1>10, <1>11, <1>12,
     <1>13, <1>14, <1>15, <1>16, <1>17 DEF UpdateGoes

\* The initial states are well formed.
LEMMA TypeInit == Init => TypeOK
<1> SUFFICES ASSUME Init PROVE TypeOK
  OBVIOUS
<1>1. 1 \in 1 .. MaxRelease /\ 0 \in 0 .. MaxCommands /\ 0 \in 0 .. MaxFaults
  BY HostBoundAssumption
<1>2. proc \in Process /\ proc.pc = "load"
  BY <1>1 DEF Init, Started, Process, ProcPC
<1>3. call \in [User -> Call] /\ cmd \in Cmd /\ upd \in Upd
  BY RestTypes DEF Init
<1>4. starts \in 0 .. StartLimit
  BY StartLimitAssumption DEF Init
<1> QED
  BY <1>1, <1>2, <1>3, <1>4 DEF Init, TypeOK

\* Every step keeps the state well formed.
LEMMA TypeStep == TypeOK /\ [Next]_vars => TypeOK'
<1> SUFFICES ASSUME TypeOK, [Next]_vars PROVE TypeOK'
  OBVIOUS
<1>1. CASE UNCHANGED vars
  BY <1>1 DEF vars, TypeOK
<1> QED
  BY <1>1, DaemonType, CallType, CmdType, UpdateType DEF Next

\* A machine is always in a well-formed state: the service manager holds a unit
\* active exactly while its process lives, and a job only for such a unit
\* (quixd.service, service_manager.rs).
THEOREM HostTypes == Spec => []TypeOK
BY TypeInit, TypeStep, PTL DEF Spec

-----------------------------------------------------------------------------
(* The key *)

\* What a crash at any point of load_or_create leaves, and what runs on it.
KeyFits ==
  /\ proc.pc \in {"made", "shut"} => key = Short
  /\ proc.pc = "shut" => ~exposed
  /\ key \in Nat => ~exposed
  /\ proc.key # Absent => proc.key = key

\* What every step that is not one of load_or_create does.
KeyQuiet ==
  /\ UNCHANGED <<key, exposed>>
  /\ \/ proc'.key = Absent /\ proc'.pc \in {"none", "load"}
     \/ proc'.key = proc.key /\ proc'.pc \in {proc.pc, "ready", "serving", "closing"}

\* A process that has just been started, or is none, has no key.
LEMMA FreshKey ==
  /\ Started.key = Absent /\ Started.pc = "load"
  /\ NoProcess.key = Absent /\ NoProcess.pc = "none"
BY DEF Started, NoProcess

\* What the manager does to the process on a request: it begins one where there
\* is none, or leaves it, perhaps asked to stop.
Managed ==
  \/ proc' = Started /\ unit # "active"
  \/ /\ proc' \in {proc, [proc EXCEPT !.asked = TRUE]}
     /\ job' = job \/ job' # "none"

\* Every request to the manager does one of these.
LEMMA ManagerCases ==
  ASSUME NEW before,
         \/ StartAfter(before) \/ ManagerStart \/ ManagerStop \/ ManagerRestart
         \/ Begin(before) /\ unit # "active"
  PROVE  Managed
BY DEF Managed, StartAfter, ManagerStart, ManagerStop, ManagerRestart, Begin

\* The process ends: there is none, or a new one.
LEMMA EndedProcess ==
  ASSUME NEW how, Ended(how)
  PROVE  proc' \in {Started, NoProcess}
BY DEF Ended, Begin

\* systemd or the SCM revives the service, or gives it up.
LEMMA RevivedProcess ==
  ASSUME TypeOK, AutoRestart
  PROVE  Managed
BY DEF AutoRestart, Begin, Managed

\* The process ends, or a new one begins: no key is in hand.
LEMMA EndedKey ==
  ASSUME proc' \in {Started, NoProcess}, UNCHANGED <<key, exposed>>
  PROVE  KeyQuiet
BY FreshKey DEF KeyQuiet

\* What the service manager is asked leaves the key alone.
LEMMA ManagerKey ==
  ASSUME TypeOK, Managed, UNCHANGED <<key, exposed>>
  PROVE  KeyQuiet
BY FreshKey DEF KeyQuiet, Managed, TypeOK, Process

\* Only load_or_create touches the key.
LEMMA KeyCases ==
  ASSUME TypeOK, [Next]_vars
  PROVE  KeyQuiet \/ LoadKey \/ CreateKey \/ RestrictKey \/ WriteKey
<1> USE DEF keyVars, serviceVars, binVars
<1>1. CASE RefuseKey \/ Exit \/ StartFails \/ Crash \/ KillLate
  BY <1>1, EndedProcess, EndedKey
  DEF RefuseKey, Exit, StartFails, Crash, KillLate, Exits
<1>10. CASE AutoRestart
  BY <1>10, RevivedProcess, ManagerKey DEF AutoRestart
<1>11. CASE IntervalOver
  BY <1>11 DEF IntervalOver, KeyQuiet
<1>2. CASE LoadSettings \/ Serve \/ Close
  BY <1>2 DEF LoadSettings, Serve, Close, Goto, KeyQuiet, TypeOK, Process
<1>3. CASE Reboot
  BY <1>3, EndedKey DEF Reboot, Begin
<1>4. ASSUME NEW u \in User,
             \/ CallGoes(u) \/ SaveFails(u) \/ Decline(u) \/ Approve(u)
             \/ \E force, elevated \in BOOLEAN : Update(u, force, elevated)
             \/ \E do \in Do, who \in User, admin \in BOOLEAN : Ask(u, do, who, admin)
      PROVE  KeyQuiet
  <2>1. CASE SetOperator(u)
    BY <2>1 DEF SetOperator, CallStep, KeyQuiet, TypeOK, Process
  <2>2. CASE ~SetOperator(u)
    <3>1. UNCHANGED <<key, exposed, proc>>
      BY <1>4, <2>2 DEF CallGoes, Check, Dispatch, Saved, Return, SaveFails, Decline,
         Approve, Ask, Update, CallStep, UpdStep, NoService
    <3> QED
      BY <3>1 DEF KeyQuiet
  <2> QED
    BY <2>1, <2>2
<1>5. ASSUME NEW act \in {"start", "stop", "restart"}, ServiceCommand(act)
      PROVE  KeyQuiet
  BY <1>5 DEF ServiceCommand, CmdStep, KeyQuiet, TypeOK, Process
<1>6. ASSUME NEW on \in BOOLEAN, AtBoot(on) PROVE KeyQuiet
  BY <1>6 DEF AtBoot, CmdStep, KeyQuiet
<1>7. CASE CommandGoes
  <2>1. /\ UNCHANGED <<key, exposed>>
        /\ ManagerStart \/ ManagerStop \/ ManagerRestart \/ UNCHANGED proc
    BY <1>7 DEF CommandGoes, DoStart, DoStop, DoRestart, Proceed, GiveUp, CmdStep
  <2> QED
    BY <2>1, ManagerCases, ManagerKey DEF KeyQuiet
<1>8. CASE UpdateGoes \/ Privileged \/ Declined \/ Publish
  <2>1. /\ UNCHANGED <<key, exposed>>
        /\ \/ Begin(0) /\ unit # "active"
           \/ StartAfter(starts) \/ ManagerStop \/ ManagerRestart
           \/ UNCHANGED proc
    BY <1>8 DEF UpdateGoes, Publish, Privileged, Declined, NothingFetched, Fetch, Swap,
       Configure, WriteOperator, RestartService, Restarted, WaitReady, NotReady,
       Operator, Installed, InstallFails, Finish, UpdStep, NoService
  <2> QED
    BY <2>1, ManagerCases, ManagerKey DEF KeyQuiet
<1>9. CASE UNCHANGED vars
  BY <1>9 DEF vars, KeyQuiet
<1> QED
  BY <1>1, <1>2, <1>3, <1>4, <1>5, <1>6, <1>7, <1>8, <1>9, <1>10, <1>11
  DEF Next, Daemon

\* What a step may do to the key and to the daemon that runs under it.
Identified ==
  /\ key \in Nat => key' = key
  /\ proc'.key # Absent => proc'.key = key'

\* Every step keeps the key private and the identity the same.
LEMMA KeyStep ==
  ASSUME TypeOK, KeyFits, [Next]_vars
  PROVE  KeyFits' /\ Identified
<1> USE HostNameAssumption DEF KeyFits, Identified, At, DaemonStep, Same, TypeOK, Process
<1>1. CASE KeyQuiet
  BY <1>1 DEF KeyQuiet
<1>2. CASE LoadKey
  <2>1. ~exposed'
    BY <1>2 DEF LoadKey
  <2> QED
    BY <1>2, <2>1 DEF LoadKey
<1>3. CASE CreateKey
  <2>1. CASE MayCreate
    BY <1>3, <2>1 DEF CreateKey, MayCreate, Goto, Protected, Unix, Windows
  <2>2. CASE ~MayCreate
    <3>1. KeyQuiet
      BY <1>3, <2>2, EndedProcess, EndedKey DEF CreateKey, Exits
    <3> QED
      BY <1>1, <3>1
  <2> QED
    BY <2>1, <2>2
<1>4. CASE RestrictKey
  BY <1>4 DEF RestrictKey, Goto
<1>5. CASE WriteKey
  BY <1>5 DEF WriteKey
<1> QED
  BY <1>1, <1>2, <1>3, <1>4, <1>5, KeyCases

-----------------------------------------------------------------------------
(* Commands and the operator *)

InFlight(u) == call[u].pc \in {"sent", "allowed", "saving"}

\* A command under way has a daemon to serve it, has done nothing before it was
\* judged, and names an operator only with the authority to.
CallFits ==
  \A u \in User :
    /\ InFlight(u) => proc.pc \in {"serving", "closing"}
    /\ call[u].pc # "idle" /\ call[u].do = "set_operator" => Unix
    /\ call[u].pc \in {"sent", "allowed", "refused", "prompt"} => call[u].done = 0
    /\ call[u].pc = "allowed" /\ call[u].do = "set_operator"
         => call[u].admin \/ u \in named

\* Between the two halves of a save the file is cut short, the new operator is
\* in force, and no other save is under way.
SaveFits ==
  \A u \in User : call[u].pc = "saving" =>
    /\ Unix /\ settings = Torn /\ acked = NoOne
    /\ proc.op = call[u].who /\ call[u].who \in named
    /\ \A v \in User : call[v].pc = "saving" => v = u

\* What a caller was told of is on disk, and in force once the disk was read.
HoldFits == acked # NoOne => settings = acked

\* What an update found is on disk.
KeptFits == upd.kept # NoOne => settings = upd.kept /\ upd.pc # "asking"

\* The installer's own write, on Windows, has the file to itself.
WritingFits == upd.pc = "writing" => Windows /\ settings = Torn

OperatorFits ==
  /\ CallFits /\ SaveFits /\ HoldFits /\ KeptFits /\ WritingFits
  /\ OperatorNamed /\ OperatorHolds

\* A step that is none of a command's and names nobody: what it does to the
\* process and to the commands it serves.
Bystander ==
  /\ UNCHANGED <<platform, settings, acked, named>>
  /\ \A u \in User : call'[u] = call[u] \/ call'[u].pc \in {"idle", "failed"}
  /\ \A u \in User : call'[u].pc = "failed" => call'[u].do = call[u].do
                                             /\ call[u].pc # "idle"
  /\ \/ proc'.op = proc.op /\ proc'.pc = proc.pc
     \/ /\ proc'.op = proc.op
        /\ proc.pc \in {"ready", "serving"}
        /\ proc'.pc \in {"serving", "closing"}
     \/ /\ \/ proc'.op = NoOne /\ proc'.pc \in {"none", "load"}
           \/ proc'.op = proc.op /\ proc'.pc \in {"made", "shut", "start"}
        /\ \A u \in User : ~InFlight(u)'
  /\ upd'.pc = "writing" => upd.pc = "writing"
  /\ \/ upd'.kept = NoOne
     \/ upd'.kept = upd.kept /\ (upd'.pc = "asking" => upd.pc = "asking")

\* Such a step leaves the operator where it was.
LEMMA BystanderOperator ==
  ASSUME TypeOK, OperatorFits, Bystander
  PROVE  OperatorFits'
<1> USE DEF OperatorFits
<1>1. CallFits'
  BY DEF Bystander, CallFits, InFlight, Unix
<1>2. SaveFits'
  BY DEF Bystander, SaveFits, CallFits, InFlight, Unix
<1>3. HoldFits'
  BY DEF Bystander, HoldFits
<1>4. KeptFits'
  BY DEF Bystander, KeptFits
<1>5. OperatorNamed'
  BY DEF Bystander, OperatorNamed
<1>6. OperatorHolds'
  BY DEF Bystander, OperatorHolds
<1>7. WritingFits'
  BY DEF Bystander, WritingFits, Windows
<1> QED
  BY <1>1, <1>2, <1>3, <1>4, <1>5, <1>6, <1>7

\* A new process, or none, has no operator yet.
LEMMA FreshOperator ==
  /\ Started.op = NoOne /\ Started.pc = "load"
  /\ NoProcess.op = NoOne /\ NoProcess.pc = "none"
BY DEF Started, NoProcess

\* Dropped commands are over.
LEMMA Dropped ==
  ASSUME TypeOK, DropCalls, NEW u \in User
  PROVE  /\ call'[u] = call[u] \/ call'[u].pc = "failed"
         /\ call'[u].pc = "failed" => call'[u].do = call[u].do /\ call[u].pc # "idle"
         /\ ~InFlight(u)'
<1>1. call[u] \in Call
  BY DEF TypeOK
<1>2. CASE call[u].pc \in {"sent", "allowed", "saving"}
  BY <1>1, <1>2 DEF DropCalls, Call, InFlight
<1>3. CASE call[u].pc \notin {"sent", "allowed", "saving"}
  BY <1>3 DEF DropCalls, InFlight
<1> QED
  BY <1>2, <1>3

\* The end of a process is a bystander's step.
LEMMA EndedBystander ==
  ASSUME TypeOK, NEW how, Ended(how),
         UNCHANGED <<platform, settings, acked, named, upd>>
  PROVE  Bystander
<1>1. proc'.op = NoOne /\ proc'.pc \in {"none", "load"}
  BY FreshOperator, EndedProcess
<1>2. DropCalls
  BY DEF Ended
<1> QED
  BY <1>1, <1>2, Dropped DEF Bystander

\* A step of the daemon on its way up, when it serves no command yet.
LEMMA StartingBystander ==
  ASSUME TypeOK, CallFits, UNCHANGED <<platform, settings, acked, named, upd, call>>,
         proc.pc \notin {"serving", "closing"}, proc'.op = proc.op,
         proc'.pc \in {"made", "shut", "start"}
  PROVE  Bystander
BY DEF Bystander, CallFits, InFlight

\* Every step of the daemon keeps the operator.
LEMMA DaemonOperator ==
  ASSUME TypeOK, OperatorFits,
         \/ Daemon \/ StartFails \/ Crash \/ KillLate \/ AutoRestart
         \/ IntervalOver \/ Reboot
  PROVE  OperatorFits'
<1> USE DEF DaemonStep, Same, At, keyVars, binVars, ghosts
<1>1. CASE LoadKey \/ RestrictKey \/ WriteKey
  <2>1. /\ UNCHANGED <<platform, settings, acked, named, upd, call>>
        /\ proc.pc \notin {"serving", "closing"} /\ proc'.op = proc.op
        /\ proc'.pc \in {"made", "shut", "start"}
    BY <1>1 DEF LoadKey, RestrictKey, WriteKey, Goto, TypeOK, Process
  <2> QED
    BY <2>1, StartingBystander, BystanderOperator DEF OperatorFits
<1>2. CASE CreateKey
  <2>1. CASE MayCreate
    <3>1. /\ UNCHANGED <<platform, settings, acked, named, upd, call>>
          /\ proc.pc \notin {"serving", "closing"} /\ proc'.op = proc.op
          /\ proc'.pc \in {"made", "shut", "start"}
      BY <1>2, <2>1 DEF CreateKey, Goto, TypeOK, Process
    <3> QED
      BY <3>1, StartingBystander, BystanderOperator DEF OperatorFits
  <2>2. CASE ~MayCreate
    BY <1>2, <2>2, EndedBystander, BystanderOperator DEF CreateKey, Exits
  <2> QED
    BY <2>1, <2>2
<1>3. CASE RefuseKey \/ StartFails \/ Exit \/ Crash \/ KillLate
  BY <1>3, EndedBystander, BystanderOperator
  DEF RefuseKey, StartFails, Exit, Crash, KillLate, Exits
<1>4. CASE Serve
  <2>1. Bystander
    BY <1>4 DEF Serve, Goto, Bystander, TypeOK, Process
  <2> QED
    BY <2>1, BystanderOperator
<1>5. CASE Close
  <2>1. Bystander
    BY <1>5 DEF Close, Goto, Bystander, TypeOK, Process
  <2> QED
    BY <2>1, BystanderOperator
<1>6. CASE AutoRestart \/ IntervalOver
  <2>1. \/ UNCHANGED proc
        \/ proc.pc = "none" /\ proc'.op = NoOne /\ proc'.pc = "load"
    BY <1>6, FreshOperator DEF AutoRestart, IntervalOver, Begin, TypeOK
  <2>2. UNCHANGED <<platform, settings, acked, named, upd, call>>
    BY <1>6 DEF AutoRestart, IntervalOver
  <2>3. Bystander
    BY <2>1, <2>2 DEF Bystander, OperatorFits, CallFits, InFlight
  <2> QED
    BY <2>3, BystanderOperator
<1>7. CASE Reboot
  <2>1. proc'.op = NoOne /\ proc'.pc \in {"none", "load"}
    BY <1>7, FreshOperator DEF Reboot, Begin
  <2>2. \A u \in User : call'[u].pc = "idle"
    BY <1>7 DEF Reboot, NoCall
  <2>3. upd'.kept = NoOne /\ upd'.pc = "idle"
    BY <1>7 DEF Reboot, NoUpd
  <2>4. Bystander
    BY <1>7, <2>1, <2>2, <2>3 DEF Bystander, Reboot, InFlight
  <2> QED
    BY <2>4, BystanderOperator
<1>8. CASE LoadSettings
  <2>1. /\ UNCHANGED <<platform, settings, named, upd, call>> /\ proc'.pc = "ready"
        /\ proc.pc = "start"
    BY <1>8 DEF LoadSettings, Goto, TypeOK, Process
  <2>2. \A u \in User : ~InFlight(u)
    BY <2>1 DEF OperatorFits, CallFits
  <2>3. CallFits' /\ SaveFits' /\ KeptFits' /\ WritingFits'
    BY <2>1, <2>2 DEF OperatorFits, CallFits, SaveFits, KeptFits, InFlight,
       WritingFits, Unix, Windows
  <2>4. CASE acked' = NoOne /\ proc'.op = proc.op
    BY <2>1, <2>3, <2>4 DEF OperatorFits, HoldFits, OperatorNamed, OperatorHolds
  <2>5. CASE /\ acked' = acked
             /\ proc'.op = IF settings \in User THEN settings ELSE NoOne
    BY <2>1, <2>3, <2>5, HostNameAssumption
    DEF OperatorFits, HoldFits, OperatorNamed, OperatorHolds, TypeOK
  <2>6. \/ acked' = NoOne /\ proc'.op = proc.op
        \/ /\ acked' = acked
           /\ proc'.op = IF settings \in User THEN settings ELSE NoOne
    <3>1. proc \in Process
      BY DEF TypeOK
    <3> QED
      BY <1>8, <3>1 DEF LoadSettings, Goto, Process
  <2> QED
    BY <2>4, <2>5, <2>6
<1> QED
  BY <1>1, <1>2, <1>3, <1>4, <1>5, <1>6, <1>7, <1>8 DEF Daemon

\* A step of one user's command: whose it is, and what the others keep.
LEMMA TurnOthers ==
  ASSUME TypeOK, NEW u \in User, NEW pc \in CallPC, Turn(u, pc)
  PROVE  /\ \A v \in User : v # u => call'[v] = call[v]
         /\ call'[u].pc = pc
         /\ pc # "idle" => /\ call'[u].done = call[u].done
                           /\ call'[u].do = call[u].do /\ call'[u].who = call[u].who
                           /\ call'[u].admin = call[u].admin
<1>1. call \in [User -> Call] /\ call[u] \in Call
  BY DEF TypeOK
<1>2. CASE pc = "idle"
  <2>1. call' = [call EXCEPT ![u] = NoCall(u)]
    BY <1>2 DEF Turn
  <2> QED
    BY <1>1, <1>2, <2>1 DEF NoCall
<1>3. CASE pc # "idle"
  <2>1. call' = [call EXCEPT ![u] = [call[u] EXCEPT !.pc = pc]]
    BY <1>3 DEF Turn
  <2>2. call'[u] = [call[u] EXCEPT !.pc = pc]
    BY <1>1, <2>1
  <2> QED
    BY <1>1, <1>3, <2>1, <2>2 DEF Call
<1> QED
  BY <1>2, <1>3

\* Every step of a command over IPC keeps the operator.
LEMMA CallOperator ==
  ASSUME TypeOK, OperatorFits, NEW u \in User,
         \/ CallGoes(u) \/ SaveFails(u) \/ Decline(u) \/ Approve(u)
         \/ \E do \in Do, who \in User, admin \in BOOLEAN : Ask(u, do, who, admin)
  PROVE  OperatorFits'
<1> USE HostNameAssumption
    DEF CallStep, keyVars, binVars, ghosts, serviceVars, OperatorFits, At
<1>0. /\ "idle" \in CallPC /\ "answered" \in CallPC /\ "failed" \in CallPC
      /\ "prompt" \in CallPC /\ "allowed" \in CallPC /\ "refused" \in CallPC
  BY DEF CallPC
<1>01. (Unix' <=> Unix) /\ (Windows' <=> Windows)
  BY DEF CallGoes, Check, Dispatch, SetOperator, Saved, Return, SaveFails, Decline,
     Approve, Ask, Unix, Windows
<1>1. ASSUME UNCHANGED <<settings, proc, upd, acked, named>>,
             call'[u].pc # "saving", \A v \in User : v # u => call'[v] = call[v],
             InFlight(u)' => proc.pc \in {"serving", "closing"},
             call'[u].pc # "idle" /\ call'[u].do = "set_operator" => Unix,
             call'[u].pc \in {"sent", "allowed", "refused", "prompt"}
               => call'[u].done = 0,
             call'[u].pc = "allowed" /\ call'[u].do = "set_operator"
               => call'[u].admin \/ u \in named
      PROVE  OperatorFits'
  <2>1. CallFits'
    BY <1>1, <1>01 DEF CallFits, InFlight
  <2>2. SaveFits'
    BY <1>1, <1>01 DEF SaveFits
  <2> QED
    BY <1>1, <1>01, <2>1, <2>2
    DEF HoldFits, KeptFits, WritingFits, OperatorNamed, OperatorHolds
<1>2. ASSUME NEW do \in Do, NEW who \in User, NEW admin \in BOOLEAN,
             Ask(u, do, who, admin)
      PROVE  OperatorFits'
  <2>1. /\ call'[u].pc = "sent" /\ call'[u].done = 0 /\ proc.pc = "serving"
        /\ call'[u].do = "set_operator" => Unix
        /\ \A v \in User : v # u => call'[v] = call[v]
        /\ UNCHANGED <<settings, proc, upd, acked, named>>
    BY <1>2 DEF Ask, TypeOK
  <2> QED
    BY <1>1, <2>1
<1>3. ASSUME NEW known \in BOOLEAN, Check(u, known) PROVE OperatorFits'
  <2>1. /\ UNCHANGED <<settings, proc, upd, acked, named>>
        /\ call[u].pc = "sent"
        /\ Turn(u, IF Authorized(u, known) THEN "allowed" ELSE "refused")
    BY <1>3 DEF Check
  <2>2. /\ call[u].done = 0 /\ proc.pc \in {"serving", "closing"}
        /\ call[u].do = "set_operator" => Unix
    BY <2>1 DEF CallFits, InFlight
  <2>3. Authorized(u, known) /\ call[u].do = "set_operator"
          => call[u].admin \/ u \in named
    BY DEF Authorized, is_read_only, OperatorNamed
  <2>4. CASE Authorized(u, known)
    <3>1. Turn(u, "allowed")
      BY <2>1, <2>4
    <3>2. /\ \A v \in User : v # u => call'[v] = call[v]
          /\ call'[u].pc = "allowed" /\ call'[u].done = 0
          /\ call'[u].do = call[u].do /\ call'[u].admin = call[u].admin
      BY <1>0, <2>2, <3>1, TurnOthers
    <3> QED
      BY <1>1, <2>1, <2>2, <2>3, <2>4, <3>2
  <2>5. CASE ~Authorized(u, known)
    <3>1. Turn(u, "refused")
      BY <2>1, <2>5
    <3>2. /\ \A v \in User : v # u => call'[v] = call[v]
          /\ call'[u].pc = "refused" /\ call'[u].done = 0
          /\ call'[u].do = call[u].do
      BY <1>0, <2>2, <3>1, TurnOthers
    <3> QED
      BY <1>1, <2>1, <2>2, <3>2 DEF InFlight
  <2> QED
    BY <2>4, <2>5
<1>4. CASE Dispatch(u)
  <2>1. /\ \A v \in User : v # u => call'[v] = call[v]
        /\ call'[u].pc = "answered" /\ call'[u].do # "set_operator"
    BY <1>4 DEF Dispatch, TypeOK, Call
  <2>2. UNCHANGED <<settings, proc, upd, acked, named>>
    BY <1>4 DEF Dispatch
  <2> QED
    BY <1>1, <2>1, <2>2 DEF InFlight
<1>5. CASE Return(u)
  <2>1. /\ UNCHANGED <<settings, proc, upd, acked, named>>
        /\ \/ Turn(u, "idle")
           \/ Turn(u, "prompt") /\ call[u].pc = "refused"
    BY <1>5 DEF Return
  <2>2. /\ \A v \in User : v # u => call'[v] = call[v]
        /\ call'[u].pc \in {"idle", "prompt"}
        /\ call'[u].pc = "prompt" => /\ call'[u].done = 0
                                     /\ call'[u].do = "set_operator" => Unix
    BY <1>0, <2>1, TurnOthers DEF CallFits
  <2> QED
    BY <1>1, <2>1, <2>2 DEF InFlight
<1>6. CASE SaveFails(u) \/ Decline(u)
  <2>1. /\ UNCHANGED <<settings, proc, upd, acked, named>>
        /\ Turn(u, "failed") \/ Turn(u, "idle")
        /\ call[u].pc # "idle"
    BY <1>6 DEF SaveFails, Decline
  <2>2. /\ \A v \in User : v # u => call'[v] = call[v]
        /\ call'[u].pc \in {"idle", "failed"}
        /\ call'[u].pc = "failed" /\ call'[u].do = "set_operator" => Unix
    BY <1>0, <2>1, TurnOthers DEF CallFits
  <2> QED
    BY <1>1, <2>1, <2>2 DEF InFlight
<1>7. CASE Approve(u)
  <2>1. UNCHANGED <<settings, proc, upd, acked, named>>
    BY <1>7 DEF Approve
  <2>2. /\ \A v \in User : v # u => call'[v] = call[v]
        /\ call'[u].pc = IF proc.pc = "serving" THEN "sent" ELSE "failed"
        /\ call'[u].done = call[u].done /\ call[u].pc = "prompt"
        /\ call'[u].do = call[u].do
    BY <1>7 DEF Approve, TypeOK, Call
  <2> QED
    BY <1>1, <2>1, <2>2 DEF InFlight, CallFits
<1>8. CASE Saved(u)
  <2>1. /\ \A v \in User : v # u => call'[v] = call[v]
        /\ call'[u].pc = "answered"
    BY <1>0, <1>8, TurnOthers DEF Saved
  <2>0. Unix /\ upd.pc # "writing"
    BY <1>8 DEF Saved, SaveFits, WritingFits, Unix, Windows
  <2>2. /\ settings' = call[u].who /\ acked' = call[u].who
        /\ UNCHANGED <<proc, upd, named>> /\ call[u].pc = "saving"
    BY <1>8 DEF Saved
  <2>3. /\ settings = Torn /\ proc.op = call[u].who /\ call[u].who \in named
        /\ \A v \in User : call'[v].pc # "saving"
    BY <2>1, <2>2 DEF SaveFits
  <2>4. upd.kept = NoOne
    BY <2>3 DEF KeptFits, TypeOK, Upd
  <2>5. CallFits'
    BY <1>01, <2>0, <2>1, <2>2 DEF CallFits, InFlight
  <2>6. WritingFits'
    BY <2>0, <2>2 DEF WritingFits
  <2> QED
    BY <2>2, <2>3, <2>4, <2>5, <2>6
    DEF SaveFits, HoldFits, KeptFits, OperatorNamed, OperatorHolds
<1>9. CASE SetOperator(u)
  <2>1. /\ \A v \in User : v # u => call'[v] = call[v]
        /\ call'[u].pc = "saving" /\ call'[u].who = call[u].who
    BY <1>9 DEF SetOperator, TypeOK, Call
  <2>2. /\ call[u].pc = "allowed" /\ call[u].do = "set_operator"
        /\ \A v \in User : call[v].pc # "saving"
        /\ settings' = Torn /\ acked' = NoOne
        /\ named' = IF call[u].admin \/ u \in named THEN named \cup {call[u].who}
                                                      ELSE named
    BY <1>9 DEF SetOperator
  <2>3. /\ proc'.op = call[u].who /\ proc'.pc = proc.pc
        /\ proc.pc \in {"serving", "closing"} /\ Unix
    BY <1>9, <2>2 DEF SetOperator, TypeOK, Process, CallFits, InFlight
  <2>4. named' = named \cup {call[u].who}
    BY <2>2 DEF CallFits
  <2>5. upd'.kept = NoOne
    BY <1>9 DEF SetOperator, FromInstaller, KeptFits, TypeOK, Upd
  <2>6. CallFits'
    BY <1>01, <2>1, <2>3, <2>4 DEF CallFits, InFlight
  <2>7. SaveFits'
    BY <1>01, <2>1, <2>2, <2>3, <2>4 DEF SaveFits
  <2>8. WritingFits'
    <3>1. upd \in Upd
      BY DEF TypeOK
    <3>2. upd'.pc = upd.pc
      BY <1>9, <3>1 DEF SetOperator, Upd
    <3> QED
      BY <1>9, <2>2, <3>2 DEF WritingFits, OperatorFits, SetOperator, CallStep, Windows
  <2> QED
    BY <2>2, <2>3, <2>4, <2>5, <2>6, <2>7, <2>8
    DEF HoldFits, KeptFits, OperatorNamed, OperatorHolds
<1> QED
  BY <1>2, <1>3, <1>4, <1>5, <1>6, <1>7, <1>8, <1>9 DEF CallGoes

\* What the service manager is asked leaves the operator alone: a process it
\* begins takes the place of none.
LEMMA ManagerBystander ==
  ASSUME TypeOK, OperatorFits, UNCHANGED <<platform, settings, acked, named, call>>,
         Managed \/ UNCHANGED proc,
         upd'.pc = "writing" => upd.pc = "writing",
         \/ upd'.kept = NoOne
         \/ upd'.kept = upd.kept /\ (upd'.pc = "asking" => upd.pc = "asking")
  PROVE  OperatorFits'
<1>1. \/ proc'.op = proc.op /\ proc'.pc = proc.pc
      \/ proc.pc = "none" /\ proc'.op = NoOne /\ proc'.pc = "load"
  BY FreshOperator DEF Managed, TypeOK, Process
<1>2. Bystander
  BY <1>1 DEF Bystander, OperatorFits, CallFits, InFlight
<1> QED
  BY <1>2, BystanderOperator

\* Every step of a service command keeps the operator.
LEMMA CmdOperator ==
  ASSUME TypeOK, OperatorFits,
         \/ CommandGoes
         \/ \E act \in {"start", "stop", "restart"} : ServiceCommand(act)
         \/ \E on \in BOOLEAN : AtBoot(on)
  PROVE  OperatorFits'
<1> USE DEF CmdStep, ghosts, serviceVars
<1>1. ASSUME NEW act \in {"start", "stop", "restart"}, ServiceCommand(act)
      PROVE  OperatorFits'
  <2>1. Bystander
    BY <1>1 DEF ServiceCommand, Bystander, TypeOK, Process
  <2> QED
    BY <2>1, BystanderOperator
<1>2. CASE CommandGoes \/ \E on \in BOOLEAN : AtBoot(on)
  <2>1. /\ UNCHANGED <<platform, settings, acked, named, call, upd>>
        /\ ManagerStart \/ ManagerStop \/ ManagerRestart \/ UNCHANGED proc
    BY <1>2 DEF CommandGoes, AtBoot, DoStart, DoStop, DoRestart, Proceed, GiveUp
  <2>2. Managed \/ UNCHANGED proc
    BY <2>1, ManagerCases
  <2> QED
    BY <2>1, <2>2, ManagerBystander
<1> QED
  BY <1>1, <1>2

\* Every step of an update keeps the operator it found.
LEMMA UpdateOperator ==
  ASSUME TypeOK, OperatorFits,
         \/ UpdateGoes \/ Privileged \/ Declined \/ Publish
         \/ \E u \in User, force, elevated \in BOOLEAN : Update(u, force, elevated)
  PROVE  OperatorFits'
<1> USE HostNameAssumption DEF UpdStep, NoService, serviceVars
<1>0. upd \in Upd
  BY DEF TypeOK
<1>1. CASE \/ Publish \/ Privileged \/ Declined \/ NothingFetched \/ Swap
           \/ RestartService \/ Restarted \/ WaitReady \/ NotReady \/ Installed
           \/ InstallFails \/ Finish
           \/ \E u \in User, force, elevated \in BOOLEAN : Update(u, force, elevated)
  <2>1. UNCHANGED <<platform, settings, acked, named, call>>
    BY <1>1 DEF Publish, Privileged, Declined, NothingFetched, Swap, RestartService,
       Restarted, WaitReady, NotReady, Installed, InstallFails, Finish, Update
  <2>2. \/ Begin(0) /\ unit # "active"
        \/ StartAfter(starts) \/ ManagerStop \/ ManagerRestart
        \/ UNCHANGED proc
    BY <1>1 DEF Publish, Privileged, Declined, NothingFetched, Swap, RestartService,
       Restarted, WaitReady, NotReady, Installed, InstallFails, Finish, Update
  <2>3. ASSUME NEW pc, pc \notin {"asking", "writing"}, UpdGoto(pc)
        PROVE  /\ upd'.pc \notin {"asking", "writing"}
               /\ upd'.kept = NoOne \/ upd'.kept = upd.kept
    BY <1>0, <2>3 DEF UpdGoto, NoUpd, Upd
  <2>4. \/ upd' = upd
        \/ upd'.kept = NoOne /\ upd'.pc \in {"checked", "prompt"}
        \/ Privileged
        \/ \E pc \in {"idle", "swapped", "placed", "restarting", "stopping", "waiting",
                      "ready", "finish"} : UpdGoto(pc)
    BY <1>1 DEF Publish, Declined, NothingFetched, Swap, RestartService, Restarted,
       WaitReady, NotReady, Installed, InstallFails, Finish, Update
  <2>5. Privileged => upd'.kept = upd.kept /\ upd'.pc = "checked"
    BY <1>0 DEF Privileged, Upd
  <2>6. /\ upd'.pc = "writing" => upd.pc = "writing"
        /\ \/ upd'.kept = NoOne
           \/ upd'.kept = upd.kept /\ (upd'.pc = "asking" => upd.pc = "asking")
    BY <2>3, <2>4, <2>5
  <2>7. Managed \/ UNCHANGED proc
    BY <2>2, ManagerCases
  <2> QED
    BY <2>1, <2>6, <2>7, ManagerBystander
<1>2. CASE Fetch
  <2>1. /\ upd'.kept = (IF settings \in User THEN settings ELSE NoOne)
        /\ upd'.pc = "staged"
        /\ UNCHANGED <<platform, settings, acked, named, call, proc>>
    BY <1>0, <1>2 DEF Fetch, Upd
  <2>2. KeptFits'
    BY <2>1 DEF KeptFits
  <2> QED
    BY <2>1, <2>2 DEF OperatorFits, CallFits, InFlight, SaveFits, HoldFits,
       WritingFits, OperatorNamed, OperatorHolds, Unix
<1>3. CASE Configure
  <2>1. UNCHANGED <<platform, acked, named, call, proc>>
    BY <1>3 DEF Configure
  <2>2. CASE upd'.pc # "writing"
    <3>1. UNCHANGED settings /\ upd'.kept = upd.kept /\ upd'.pc # "asking"
      BY <1>0, <1>3, <2>2 DEF Configure, UpdGoto, Upd
    <3> QED
      BY <2>1, <2>2, <3>1, ManagerBystander
  <2>3. CASE upd'.pc = "writing"
    <3>1. /\ ~Unix /\ settings \notin User /\ settings # Torn
          /\ settings' = Torn /\ upd'.kept = upd.kept
      BY <1>0, <1>3, <2>3 DEF Configure, KeepOperator, UpdGoto, Upd
    <3>2. Windows
      BY <3>1, PlatformAssumption DEF Unix, Windows, TypeOK
    <3>3. acked = NoOne /\ upd.kept = NoOne
      BY <1>0, <3>1 DEF OperatorFits, HoldFits, KeptFits, TypeOK, Upd
    <3>4. SaveFits' /\ CallFits'
      BY <2>1, <3>1 DEF OperatorFits, SaveFits, CallFits, InFlight, Unix
    <3>5. WritingFits'
      BY <2>1, <3>1, <3>2 DEF WritingFits, Windows
    <3> QED
      BY <2>1, <3>1, <3>3, <3>4, <3>5
      DEF OperatorFits, HoldFits, KeptFits, OperatorNamed, OperatorHolds
  <2> QED
    BY <2>2, <2>3
<1>5. CASE WriteOperator
  <2>1. /\ UNCHANGED <<platform, acked, call, proc>>
        /\ settings' = upd.user /\ named' = named \cup {upd.user}
        /\ upd.pc = "writing"
    BY <1>5 DEF WriteOperator
  <2>2. upd'.kept = upd.kept /\ upd'.pc = "configured"
    BY <1>0, <1>5 DEF WriteOperator, UpdGoto, Upd
  <2>3. Windows /\ settings = Torn /\ acked = NoOne /\ upd.kept = NoOne
    BY <1>0, <2>1 DEF OperatorFits, WritingFits, HoldFits, KeptFits, TypeOK, Upd
  <2>4. \A u \in User : call[u].pc # "saving"
    BY <2>3 DEF OperatorFits, SaveFits, Unix, Windows
  <2>5. SaveFits' /\ CallFits'
    BY <2>1, <2>4 DEF OperatorFits, SaveFits, CallFits, InFlight, Unix
  <2> QED
    BY <2>1, <2>2, <2>3, <2>5
    DEF OperatorFits, HoldFits, KeptFits, WritingFits, OperatorNamed, OperatorHolds
<1>4. CASE Operator
  <2>1. UNCHANGED <<platform, settings, acked, named, proc>>
    BY <1>4 DEF Operator
  <2>2. CASE UpdGoto("idle") /\ UNCHANGED call
    <3>1. upd'.kept = NoOne /\ upd'.pc = "idle"
      BY <1>0, <2>2 DEF UpdGoto, NoUpd
    <3> QED
      BY <2>1, <2>2, <3>1, ManagerBystander
  <2>3. CASE UpdGoto("asking")
    <3>1. upd'.kept = upd.kept /\ upd.user \in User
      BY <1>0, <2>3 DEF UpdGoto, Upd
    <3>0. upd'.pc = "asking"
      BY <1>0, <2>3 DEF UpdGoto, Upd
    <3>2. ~KeepOperator(settings) /\ proc.pc = "serving" /\ Unix
      <4>1. ~UpdGoto("idle")
        BY <3>0 DEF UpdGoto, NoUpd
      <4> QED
        BY <1>4, <4>1 DEF Operator, At
    <3>3. /\ call'[upd.user].pc = "sent" /\ call'[upd.user].done = 0
          /\ \A v \in User : v # upd.user => call'[v] = call[v]
      <4>1. ~UpdGoto("idle")
        BY <3>0 DEF UpdGoto, NoUpd
      <4> QED
        BY <1>4, <3>1, <4>1 DEF Operator, TypeOK
    <3>4. upd.kept = NoOne
      BY <1>0, <3>2 DEF OperatorFits, KeptFits, KeepOperator, Upd
    <3>5. CallFits'
      BY <2>1, <3>2, <3>3 DEF OperatorFits, CallFits, InFlight, Unix
    <3>6. SaveFits'
      BY <2>1, <3>3 DEF OperatorFits, SaveFits, Unix
    <3> QED
      BY <2>1, <3>0, <3>1, <3>4, <3>5, <3>6
      DEF OperatorFits, HoldFits, KeptFits, WritingFits, OperatorNamed, OperatorHolds
  <2> QED
    BY <1>4, <2>2, <2>3 DEF Operator
<1> QED
  BY <1>1, <1>2, <1>3, <1>4, <1>5 DEF UpdateGoes

\* Every step keeps the operator.
LEMMA OperatorStep ==
  ASSUME TypeOK, OperatorFits, [Next]_vars
  PROVE  OperatorFits'
<1>1. CASE UNCHANGED vars
  BY <1>1 DEF vars, OperatorFits, CallFits, InFlight, SaveFits, HoldFits, KeptFits,
     WritingFits, OperatorNamed, OperatorHolds, Unix, Windows
<1> QED
  BY <1>1, DaemonOperator, CallOperator, CmdOperator, UpdateOperator DEF Next

-----------------------------------------------------------------------------
(* Restarts and updates *)

\* A restart that is past its stop does not find the process it was asked about.
RestartFits ==
  /\ proc.pc = "none" => ~proc.old
  /\ cmd.act = "restart" =>
       /\ cmd.pc \in {"start", "settle"} => ~proc.old
       /\ cmd.pc = "restarting" /\ job = "none" => ~proc.old
       /\ cmd.pc = "stopping" => Windows
       /\ cmd.pc # "stop"

\* Where an update is, and what is in place and runs by then.
UpdateFits ==
  /\ upd.pc = "swapped" => quix = upd.tag
  /\ upd.pc \in {"placed", "writing", "configured", "stopping", "restarting",
                 "waiting", "ready", "asking"} => quix = upd.tag /\ quixd = upd.tag
  /\ upd.pc \in {"waiting", "ready", "asking"} /\ proc.pc # "none"
       => proc.ver = upd.tag
  /\ upd.pc = "restarting" /\ job = "none" /\ proc.pc # "none"
       => proc.ver = upd.tag

\* What a step does to the process: it is another, or it is the same, and what
\* the manager was asked for is forgotten only with it.
ProcQuiet ==
  \/ proc' = Started
  \/ proc' = NoProcess
  \/ /\ proc'.old = proc.old /\ proc'.ver = proc.ver
     /\ proc'.pc = "none" <=> proc.pc = "none"
     /\ job' = job \/ job' # "none"

\* The process of the release in place, or none.
LEMMA FreshVersion ==
  /\ ~Started.old /\ Started.ver = quixd /\ Started.pc = "load"
  /\ ~NoProcess.old /\ NoProcess.pc = "none"
BY DEF Started, NoProcess

\* Every step but the one that begins a service command.
LEMMA ProcCases ==
  ASSUME TypeOK, [Next]_vars
  PROVE  ProcQuiet \/ \E act \in {"start", "stop", "restart"} : ServiceCommand(act)
<1> USE DEF keyVars, serviceVars, binVars, Same, At
<1>0. proc \in Process
  BY DEF TypeOK
<1>1. CASE RefuseKey \/ Exit \/ StartFails \/ Crash \/ KillLate \/ Reboot
  BY <1>1, EndedProcess
  DEF RefuseKey, Exit, StartFails, Crash, KillLate, Reboot, Exits, Begin, ProcQuiet
<1>8. CASE AutoRestart \/ IntervalOver
  BY <1>8 DEF AutoRestart, IntervalOver, Begin, ProcQuiet
<1>2. CASE LoadKey \/ RestrictKey \/ WriteKey \/ LoadSettings \/ Serve \/ Close
  BY <1>0, <1>2 DEF LoadKey, RestrictKey, WriteKey, LoadSettings, Serve, Close, Goto,
     ProcQuiet, Process
<1>3. CASE CreateKey
  <2>1. CASE MayCreate
    BY <1>0, <1>3, <2>1 DEF CreateKey, Goto, ProcQuiet, Process
  <2>2. CASE ~MayCreate
    BY <1>3, <2>2, EndedProcess DEF CreateKey, Exits, ProcQuiet
  <2> QED
    BY <2>1, <2>2
<1>4. ASSUME NEW u \in User,
             \/ CallGoes(u) \/ SaveFails(u) \/ Decline(u) \/ Approve(u)
             \/ \E force, elevated \in BOOLEAN : Update(u, force, elevated)
             \/ \E do \in Do, who \in User, admin \in BOOLEAN : Ask(u, do, who, admin)
      PROVE  ProcQuiet
  <2>1. CASE SetOperator(u)
    BY <1>0, <2>1 DEF SetOperator, CallStep, ProcQuiet, Process
  <2>2. CASE ~SetOperator(u)
    <3>1. UNCHANGED <<job, proc>>
      BY <1>4, <2>2 DEF CallGoes, Check, Dispatch, Saved, Return, SaveFails, Decline,
         Approve, Ask, Update, CallStep, UpdStep, NoService
    <3> QED
      BY <3>1 DEF ProcQuiet
  <2> QED
    BY <2>1, <2>2
<1>5. ASSUME NEW on \in BOOLEAN, AtBoot(on) PROVE ProcQuiet
  BY <1>5 DEF AtBoot, ProcQuiet
<1>6. CASE CommandGoes \/ UpdateGoes \/ Privileged \/ Declined \/ Publish
  <2>1. \/ Begin(0) /\ unit # "active"
        \/ StartAfter(starts) \/ ManagerStart \/ ManagerStop \/ ManagerRestart
        \/ UNCHANGED <<proc, job>>
    BY <1>6 DEF CommandGoes, DoStart, DoStop, DoRestart, Proceed, GiveUp,
       UpdateGoes, Publish, Privileged, Declined, NothingFetched, Fetch, Swap,
       Configure, WriteOperator, RestartService, Restarted, WaitReady, NotReady,
       Operator, Installed, InstallFails, Finish, UpdStep, NoService
  <2>2. Managed \/ UNCHANGED <<proc, job>>
    BY <2>1, ManagerCases
  <2> QED
    BY <1>0, <2>2 DEF Managed, ProcQuiet, Process
<1>7. CASE UNCHANGED vars
  BY <1>7 DEF vars, ProcQuiet
<1> QED
  BY <1>1, <1>2, <1>3, <1>4, <1>5, <1>6, <1>7, <1>8 DEF Next, Daemon

\* Steps that are not of a service command leave it where it is; a reboot ends it.
LEMMA CmdRests ==
  ASSUME TypeOK, [Next]_vars
  PROVE  \/ CommandGoes
         \/ \E act \in {"start", "stop", "restart"} : ServiceCommand(act)
         \/ UNCHANGED <<platform, cmd>>
         \/ cmd'.pc = "idle"
<1> USE DEF DaemonStep, CallStep, UpdStep, CmdStep
<1>1. CASE Daemon \/ StartFails \/ Crash \/ KillLate \/ AutoRestart \/ IntervalOver
  BY <1>1 DEF Daemon, LoadKey, CreateKey, RefuseKey, RestrictKey, WriteKey, LoadSettings,
     Serve, Close, Exit, StartFails, Crash, KillLate, AutoRestart, IntervalOver, Exits
<1>2. CASE Reboot
  BY <1>2 DEF Reboot, NoCmd
<1>3. ASSUME NEW u \in User,
             \/ CallGoes(u) \/ SaveFails(u) \/ Decline(u) \/ Approve(u)
             \/ \E force, elevated \in BOOLEAN : Update(u, force, elevated)
             \/ \E do \in Do, who \in User, admin \in BOOLEAN : Ask(u, do, who, admin)
      PROVE  UNCHANGED <<platform, cmd>>
  BY <1>3 DEF CallGoes, Check, Dispatch, SetOperator, Saved, Return, SaveFails, Decline,
     Approve, Ask, Update
<1>4. ASSUME NEW on \in BOOLEAN, AtBoot(on) PROVE UNCHANGED <<platform, cmd>>
  BY <1>4 DEF AtBoot
<1>5. CASE UpdateGoes \/ Privileged \/ Declined \/ Publish
  BY <1>5 DEF UpdateGoes, Publish, Privileged, Declined, NothingFetched, Fetch, Swap,
     Configure, WriteOperator, RestartService, Restarted, WaitReady, NotReady, Operator,
     Installed, InstallFails, Finish
<1>6. CASE UNCHANGED vars
  BY <1>6 DEF vars
<1> QED
  BY <1>1, <1>2, <1>3, <1>4, <1>5, <1>6 DEF Next

\* Every step keeps a restart from being satisfied with the old process.
LEMMA RestartStep ==
  ASSUME TypeOK, RestartFits, [Next]_vars
  PROVE  RestartFits'
<1>0. cmd \in Cmd /\ proc \in Process
  BY DEF TypeOK
<1>1. ASSUME NEW act \in {"start", "stop", "restart"}, ServiceCommand(act)
      PROVE  RestartFits'
  <2>1. /\ proc'.pc = proc.pc /\ (proc.pc = "none" => ~proc'.old)
        /\ cmd'.act = "restart" => cmd'.pc = "restart"
    BY <1>0, <1>1 DEF ServiceCommand, NoCmd, At, Process
  <2> QED
    BY <2>1 DEF RestartFits
<1>2. CASE ProcQuiet /\ (UNCHANGED <<platform, cmd>> \/ cmd'.pc = "idle")
  BY <1>2, FreshVersion DEF ProcQuiet, RestartFits, Windows
<1>3. CASE ProcQuiet /\ CommandGoes
  <2>1. proc'.pc = "none" => ~proc'.old
    BY <1>3, FreshVersion DEF ProcQuiet, RestartFits
  <2>2. UNCHANGED platform
    BY <1>3 DEF CommandGoes, DoStart, DoStop, DoRestart, Proceed, GiveUp, CmdStep
  <2>0. {"idle", "start", "stopping", "restarting", "settle"} \subseteq CmdPC
    BY DEF CmdPC
  <2>8. CASE cmd'.pc = "idle"
    BY <2>1, <2>8 DEF RestartFits
  <2>3. CASE DoStart
    <3>1. /\ cmd'.pc \in {"idle", "restarting", "settle"} /\ cmd.pc = "start"
          /\ cmd'.pc # "idle" => cmd'.act = cmd.act
      BY <2>0, <2>3, CmdGotoType DEF DoStart
    <3>2. cmd.act = "restart" => ~proc'.old
      BY <2>3, <3>1, FreshVersion DEF DoStart, ManagerStart, StartAfter, Begin,
         RestartFits
    <3> QED
      BY <2>1, <2>2, <2>8, <3>1, <3>2 DEF RestartFits
  <2>4. CASE DoStop
    <3>1. /\ cmd'.pc \in {"idle", "stopping"} /\ cmd.pc = "stop"
          /\ cmd'.pc # "idle" => cmd'.act = cmd.act
      BY <2>0, <2>4, CmdGotoType DEF DoStop
    <3> QED
      BY <2>1, <2>2, <2>8, <3>1 DEF RestartFits
  <2>5. CASE DoRestart
    <3>1. CASE Unix
      <4>1. cmd'.pc = "restarting" /\ ManagerRestart
        BY <2>0, <2>5, <3>1, CmdGotoType DEF DoRestart
      <4>2. job' = "none" => ~proc'.old
        BY <4>1, FreshVersion DEF ManagerRestart, Begin
      <4> QED
        BY <2>1, <2>2, <4>1, <4>2 DEF RestartFits
    <3>2. CASE ~Unix /\ unit = "active"
      <4>1. cmd'.pc = "stopping" /\ Windows
        BY <2>0, <2>5, <3>2, CmdGotoType, PlatformAssumption
        DEF DoRestart, Unix, Windows, TypeOK
      <4> QED
        BY <2>1, <2>2, <4>1 DEF RestartFits, Windows
    <3>3. CASE ~Unix /\ unit # "active"
      <4>1. cmd'.pc = "start" /\ UNCHANGED proc
        BY <2>0, <2>5, <3>3, CmdGotoType DEF DoRestart
      <4>2. ~proc.old
        BY <3>3 DEF TypeOK, RestartFits
      <4> QED
        BY <2>1, <2>2, <4>1, <4>2 DEF RestartFits
    <3> QED
      BY <3>1, <3>2, <3>3
  <2>6. CASE Proceed
    <3>1. UNCHANGED <<proc, job>>
      BY <2>6 DEF Proceed, serviceVars
    <3>2. CASE cmd.pc = "stopping" /\ StopOver /\ cmd'.pc # "idle"
      <4>1. cmd'.pc = "start" /\ cmd.act = "restart"
        BY <2>0, <2>6, <3>2, CmdGotoType DEF Proceed
      <4>2. ~proc.old
        BY <3>2, <4>1 DEF StopOver, RestartFits, TypeOK, Unix, Windows
      <4> QED
        BY <2>1, <2>2, <3>1, <4>1, <4>2 DEF RestartFits
    <3>3. CASE cmd.pc = "restarting" /\ cmd'.pc # "idle"
      <4>1. cmd'.pc = "settle" /\ job = "none" /\ cmd'.act = cmd.act
        BY <2>0, <2>6, <3>3, CmdGotoType DEF Proceed
      <4> QED
        BY <2>1, <2>2, <3>1, <3>3, <4>1 DEF RestartFits
    <3>4. CASE cmd.pc = "settle"
      <4>1. cmd'.pc = "idle"
        BY <2>0, <2>6, <3>4, CmdGotoType DEF Proceed
      <4> QED
        BY <2>8, <4>1
    <3> QED
      BY <2>6, <2>8, <3>2, <3>3, <3>4 DEF Proceed
  <2>7. CASE GiveUp
    BY <2>0, <2>7, <2>8, CmdGotoType DEF GiveUp
  <2> QED
    BY <1>3, <2>3, <2>4, <2>5, <2>6, <2>7 DEF CommandGoes
<1> QED
  BY <1>1, <1>2, <1>3, ProcCases, CmdRests

\* Steps that are not of an update leave it and the binaries where they are; a
\* reboot ends it.
LEMMA UpdRests ==
  ASSUME TypeOK, [Next]_vars
  PROVE  \/ UpdateGoes
         \/ \E u \in User, force, elevated \in BOOLEAN : Update(u, force, elevated)
         \/ upd'.pc = upd.pc /\ upd'.tag = upd.tag /\ UNCHANGED <<quix, quixd>>
         \/ upd'.pc \in {"idle", "checked"}
<1> USE DEF DaemonStep, CallStep, CmdStep, binVars
<1>0. upd \in Upd
  BY DEF TypeOK
<1>1. CASE Daemon \/ StartFails \/ Crash \/ KillLate \/ AutoRestart \/ IntervalOver
  BY <1>1 DEF Daemon, LoadKey, CreateKey, RefuseKey, RestrictKey, WriteKey, LoadSettings,
     Serve, Close, Exit, StartFails, Crash, KillLate, AutoRestart, IntervalOver, Exits
<1>2. CASE Reboot
  BY <1>2 DEF Reboot, NoUpd
<1>3. ASSUME NEW u \in User,
             \/ CallGoes(u) \/ SaveFails(u) \/ Decline(u) \/ Approve(u)
             \/ \E do \in Do, who \in User, admin \in BOOLEAN : Ask(u, do, who, admin)
      PROVE  upd'.pc = upd.pc /\ upd'.tag = upd.tag /\ UNCHANGED <<quix, quixd>>
  <2>1. CASE SetOperator(u)
    BY <1>0, <2>1 DEF SetOperator, Upd
  <2>2. CASE ~SetOperator(u)
    BY <1>3, <2>2 DEF CallGoes, Check, Dispatch, Saved, Return, SaveFails, Decline,
       Approve, Ask
  <2> QED
    BY <2>1, <2>2
<1>4. CASE \/ CommandGoes
           \/ \E act \in {"start", "stop", "restart"} : ServiceCommand(act)
           \/ \E on \in BOOLEAN : AtBoot(on)
  BY <1>4 DEF CommandGoes, ServiceCommand, AtBoot, DoStart, DoStop, DoRestart, Proceed,
     GiveUp
<1>5. CASE Publish \/ Privileged \/ Declined
  <2>1. CASE Publish
    BY <2>1 DEF Publish
  <2>2. CASE Privileged
    <3>1. upd'.pc = "checked"
      BY <1>0, <2>2 DEF Privileged, Upd
    <3> QED
      BY <3>1
  <2>3. CASE Declined
    BY <2>3 DEF Declined, UpdGoto, NoUpd
  <2> QED
    BY <1>5, <2>1, <2>2, <2>3
<1>6. CASE UNCHANGED vars
  BY <1>6 DEF vars
<1> QED
  BY <1>1, <1>2, <1>3, <1>4, <1>5, <1>6 DEF Next

\* A service command's first step keeps the process.
LEMMA CommandKeepsProcess ==
  ASSUME TypeOK, NEW act, ServiceCommand(act)
  PROVE  proc'.ver = proc.ver /\ proc'.pc = proc.pc /\ UNCHANGED job
BY DEF ServiceCommand, serviceVars, TypeOK, Process

\* Every step keeps what an update has put in place, and lets it go on only with
\* a process of that release.
LEMMA UpdateStep ==
  ASSUME TypeOK, UpdateFits, [Next]_vars
  PROVE  UpdateFits'
<1>0. upd \in Upd
  BY DEF TypeOK
<1>1. CASE /\ upd'.pc = upd.pc /\ upd'.tag = upd.tag /\ UNCHANGED <<quix, quixd>>
  <2>1. ASSUME NEW act \in {"start", "stop", "restart"}, ServiceCommand(act)
        PROVE  UpdateFits'
    BY <1>1, <2>1, CommandKeepsProcess DEF UpdateFits
  <2>2. CASE ProcQuiet
    BY <1>1, <2>2, FreshVersion DEF ProcQuiet, UpdateFits
  <2> QED
    BY <2>1, <2>2, ProcCases
<1>2. CASE upd'.pc \in {"idle", "prompt", "checked", "staged", "finish"}
  BY <1>2 DEF UpdateFits
<1>3. CASE UpdateGoes
  <2>1. CASE NothingFetched \/ NotReady \/ Installed \/ Finish \/ InstallFails
    BY <1>0, <1>2, <2>1 DEF NothingFetched, NotReady, Installed, Finish, InstallFails,
       UpdGoto, NoUpd, Upd
  <2>2. CASE Fetch
    BY <1>0, <1>2, <2>2 DEF Fetch, Upd
  <2>3. CASE Swap
    BY <1>0, <2>3 DEF Swap, UpdGoto, Upd, UpdateFits
  <2>4. CASE Configure
    <3>1. /\ upd'.pc \in {"writing", "configured", "finish"} /\ upd'.tag = upd.tag
          /\ upd.pc = "placed" /\ UNCHANGED <<quix, quixd>>
      BY <1>0, <2>4 DEF Configure, UpdGoto, Upd, binVars
    <3> QED
      BY <3>1 DEF UpdateFits
  <2>9. CASE WriteOperator
    <3>1. /\ upd'.pc = "configured" /\ upd'.tag = upd.tag
          /\ upd.pc = "writing" /\ UNCHANGED <<quix, quixd>>
      BY <1>0, <2>9 DEF WriteOperator, UpdGoto, Upd, binVars
    <3> QED
      BY <3>1 DEF UpdateFits
  <2>5. CASE RestartService
    <3>1. upd'.tag = upd.tag /\ UNCHANGED <<quix, quixd>> /\ upd.pc = "configured"
      BY <1>0, <2>5 DEF RestartService, UpdGoto, Upd, binVars
    <3>2. CASE Unix
      <4>1. upd'.pc = "restarting" /\ ManagerRestart
        BY <1>0, <2>5, <3>2 DEF RestartService, UpdGoto, Upd
      <4>2. job' = "none" => proc'.ver = quixd
        BY <4>1, FreshVersion DEF ManagerRestart, Begin
      <4> QED
        BY <3>1, <4>1, <4>2 DEF UpdateFits
    <3>3. CASE ~Unix /\ unit = "active"
      <4>1. upd'.pc = "stopping"
        BY <1>0, <2>5, <3>3 DEF RestartService, UpdGoto, Upd
      <4> QED
        BY <3>1, <4>1 DEF UpdateFits
    <3>4. CASE ~Unix /\ unit # "active"
      <4>1. upd'.pc = "waiting" /\ proc'.ver = quixd
        BY <1>0, <2>5, <3>4, FreshVersion DEF RestartService, UpdGoto, Upd, Begin
      <4> QED
        BY <3>1, <4>1 DEF UpdateFits
    <3> QED
      BY <3>2, <3>3, <3>4
  <2>6. CASE Restarted
    <3>1. /\ upd'.pc = "idle" \/ upd'.tag = upd.tag
          /\ UNCHANGED <<quix, quixd, job>>
      BY <1>0, <2>6 DEF Restarted, UpdGoto, NoUpd, Upd, binVars
    <3>2. CASE upd.pc = "restarting"
      <4>1. /\ upd'.pc = (IF job = "none" THEN "waiting" ELSE "idle")
            /\ UNCHANGED proc
        BY <1>0, <2>6, <3>2 DEF Restarted, UpdGoto, NoUpd, Upd
      <4> QED
        BY <1>2, <3>1, <3>2, <4>1 DEF UpdateFits
    <3>3. CASE upd.pc = "stopping"
      <4>1. upd'.pc = "waiting" /\ proc'.ver = quixd
        BY <1>0, <2>6, <3>3, FreshVersion DEF Restarted, UpdGoto, Upd, Begin
      <4> QED
        BY <3>1, <3>3, <4>1 DEF UpdateFits
    <3> QED
      BY <2>6, <3>2, <3>3 DEF Restarted
  <2>7. CASE WaitReady
    <3>1. /\ upd'.pc = "ready" /\ upd'.tag = upd.tag /\ upd.pc = "waiting"
          /\ UNCHANGED <<quix, quixd, proc>>
      BY <1>0, <2>7 DEF WaitReady, UpdGoto, Upd, binVars, NoService
    <3> QED
      BY <3>1 DEF UpdateFits
  <2>8. CASE Operator
    <3>1. /\ \/ upd'.pc = "idle"
             \/ upd'.pc = "asking" /\ upd'.tag = upd.tag
          /\ upd.pc = "ready" /\ UNCHANGED <<quix, quixd, proc>>
      BY <1>0, <2>8 DEF Operator, UpdGoto, NoUpd, Upd, binVars
    <3> QED
      BY <1>2, <3>1 DEF UpdateFits
  <2> QED
    BY <1>3, <2>1, <2>2, <2>3, <2>4, <2>5, <2>6, <2>7, <2>8, <2>9 DEF UpdateGoes
<1>4. ASSUME NEW u \in User, NEW force \in BOOLEAN, NEW elevated \in BOOLEAN,
             Update(u, force, elevated)
      PROVE  UpdateFits'
  BY <1>2, <1>4 DEF Update
<1> QED
  BY <1>1, <1>2, <1>3, <1>4, UpdRests

-----------------------------------------------------------------------------
(* The theorems *)

\* The inductive invariant: the parts above, each kept by every step.
Inv == TypeOK /\ KeyFits /\ OperatorFits /\ RestartFits /\ UpdateFits

\* A machine with a new installation satisfies the inductive invariant.
LEMMA InvInit == Init => Inv
<1> SUFFICES ASSUME Init PROVE Inv
  OBVIOUS
<1>1. TypeOK
  BY TypeInit
<1>2. /\ proc.pc = "load" /\ proc.key = Absent /\ proc.op = NoOne /\ ~proc.old
  BY DEF Init, Started
<1>3. /\ upd.pc = "idle" /\ upd.kept = NoOne /\ cmd.pc = "idle"
      /\ \A u \in User : call[u].pc = "idle"
  BY DEF Init, NoUpd, NoCmd, NoCall
<1>4. KeyFits
  BY <1>2, HostNameAssumption DEF KeyFits, Init
<1>5. OperatorFits
  BY <1>2, <1>3 DEF OperatorFits, CallFits, InFlight, SaveFits, HoldFits, KeptFits,
     WritingFits, OperatorNamed, OperatorHolds, Init
<1> QED
  BY <1>1, <1>2, <1>3, <1>4, <1>5 DEF Inv, RestartFits, UpdateFits

\* Every behaviour of the machine stays within the inductive invariant.
THEOREM HostInvariant == Spec => []Inv
<1>1. Inv /\ [Next]_vars => Inv'
  BY TypeStep, KeyStep, OperatorStep, RestartStep, UpdateStep DEF Inv
<1> QED
  BY <1>1, InvInit, PTL DEF Spec

\* The key is on disk only where nobody else can read it, wherever a crash cuts
\* load_or_create short (identity.rs, write_protected).
THEOREM HostKeyPrivate == Spec => []KeyPrivate
<1>1. Inv => KeyPrivate
  BY DEF Inv, KeyFits, KeyPrivate
<1> QED
  BY <1>1, HostInvariant, PTL

\* The machine's identity is made once and never replaced (identity.rs,
\* load_or_create).
THEOREM HostIdentityKept == Spec => IdentityKept
<1>1. Inv /\ [Next]_vars => [Identified]_vars
  BY KeyStep DEF Inv
<1> QED
  BY <1>1, HostInvariant, PTL DEF Spec, IdentityKept, Identified

\* What was refused was not done, so asking again elevated does it once
\* (ipc.rs, handle; client.rs, send_as_caller).
THEOREM HostDoneOnce == Spec => []DoneOnce
<1>1. Inv => DoneOnce
  BY DEF Inv, OperatorFits, CallFits, DoneOnce
<1> QED
  BY <1>1, HostInvariant, PTL

\* Whoever has an operator's authority was given it by somebody who had it, or
\* by an administrator (authz.rs, check).
THEOREM HostOperatorNamed == Spec => []OperatorNamed
<1>1. Inv => OperatorNamed
  BY DEF Inv, OperatorFits
<1> QED
  BY <1>1, HostInvariant, PTL

\* An operator that was acknowledged is in force across crashes, restarts and
\* updates (state.rs, set_operator; settings.rs).
THEOREM HostOperatorHolds == Spec => []OperatorHolds
<1>1. Inv => OperatorHolds
  BY DEF Inv, OperatorFits
<1> QED
  BY <1>1, HostInvariant, PTL

\* An update keeps the operator it finds (install.sh, --keep-operator).
THEOREM HostOperatorKept == Spec => []OperatorKept
<1>1. Inv => OperatorKept
  BY DEF Inv, OperatorFits, KeptFits, OperatorKept
<1> QED
  BY <1>1, HostInvariant, PTL

\* A restart never settles for the process it was to replace
\* (service_manager.rs, restart).
THEOREM HostRestartRenews == Spec => []RestartRenews
<1>1. Inv => RestartRenews
  BY DEF Inv, RestartFits, RestartRenews
<1> QED
  BY <1>1, HostInvariant, PTL

\* An update that reports the daemon ready has it running the release it
\* installed (update.rs, install.sh).
THEOREM HostUpdatedRuns == Spec => []UpdatedRuns
<1>1. Inv => UpdatedRuns
  BY DEF Inv, UpdateFits, UpdatedRuns
<1> QED
  BY <1>1, HostInvariant, PTL
=============================================================================
