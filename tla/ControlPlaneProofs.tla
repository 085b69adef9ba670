-------------------------- MODULE ControlPlaneProofs --------------------------
(***************************************************************************)
(* Proofs about module ControlPlane, for any nodes, names and tokens, any  *)
(* number of commands and any order of steps and messages.                 *)
(***************************************************************************)
EXTENDS ControlPlane, MembershipProofs

-----------------------------------------------------------------------------
(* What tasks and messages hold *)

\* The fields of a task, by the step it is at.
LEMMA TaskFields ==
  ASSUME NEW t \in Task
  PROVE  /\ t.node \in Node
         /\ t.pc \in {"joining", "redeem"} =>
              /\ t.peer \in Node /\ t.token \in Token /\ t.name \in Optional
              /\ t.attempt \in Attempt
         /\ t.pc \in {"naming", "claim"} => t.peer \in Node /\ t.name \in Name
         /\ t.pc = "rename" => t.name \in Name /\ t.force \in BOOLEAN
         /\ t.pc = "invite" => t.token \in Token
         /\ t.pc \in {"kick", "remove", "catchup"} => t.peer \in Node
         /\ t.pc = "apply" => t.roster \in Roster
         /\ t.pc = "publish" => t.peer \in Node /\ t.along \in SUBSET Message
BY DEF Task

\* The fields of a message, by its operation.
LEMMA MessageFields ==
  ASSUME NEW msg \in Message
  PROVE  /\ msg.from \in Node /\ msg.to \in Node
         /\ msg.op \in {"Join", "Joined", "Refused"} =>
              msg.token \in Token /\ msg.attempt \in Attempt
         /\ msg.op = "Join" => msg.name \in Optional
         /\ msg.op = "Joined" => msg.roster \in Roster /\ msg.name \in OptName
         /\ msg.op \in {"SetHostname", "HostnameSet"} => msg.name \in Name
         /\ msg.op = "HostnameSet" => msg.wanted \in Name
         /\ msg.op = "Roster" => msg.roster \in Roster
BY DEF Message

\* A task that waits for an answer to a join, and its request.
LEMMA JoiningTask ==
  ASSUME NEW n \in Node, NEW peer \in Node, NEW token \in Token,
         NEW name \in Optional, NEW attempt \in Attempt
  PROVE  LET t == Joining(n, peer, token, name, attempt)
         IN  t \in Task /\ JoinRequest(t) \in Message
BY DEF Joining, JoinRequest, Task, Message

\* The next attempt of a join.
LEMMA NextAttempt ==
  ASSUME NEW t \in Task, t.pc = "joining", t.attempt < JoinAttempts
  PROVE  LET u == [t EXCEPT !.attempt = @ + 1]
         IN  u \in Task /\ JoinRequest(u) \in Message
<1>1. t \in [pc : {"joining", "redeem"}, node : Node, peer : Node,
             token : Token, name : Optional, attempt : Attempt]
  BY DEF Task
<1>2. t.attempt + 1 \in Attempt
  BY <1>1, JoinAssumption DEF Attempt
<1> DEFINE u == [t EXCEPT !.attempt = @ + 1]
<1>3. u \in [pc : {"joining", "redeem"}, node : Node, peer : Node,
             token : Token, name : Optional, attempt : Attempt]
  BY <1>1, <1>2
<1>4. u \in Task
  BY <1>3 DEF Task
<1>5. JoinRequest(u) \in Message
  BY <1>3 DEF JoinRequest, Message
<1> QED
  BY <1>4, <1>5

\* The roster a membership holds is a roster.
LEMMA RosterOfType ==
  ASSUME NEW m \in MembershipType
  PROVE  RosterOf(m) \in Roster
BY DEF RosterOf, Roster, MembershipType

\* A broadcast sends rosters, and to nobody but members.
LEMMA BroadcastType ==
  ASSUME NEW n \in Node, NEW subject, NEW r \in Roster
  PROVE  /\ Broadcast(n, subject, r) \subseteq Message
         /\ \A msg \in Broadcast(n, subject, r) : msg.op = "Roster"
BY DEF Broadcast, Message, Roster

-----------------------------------------------------------------------------
(* What is true of every task and every message under way *)

\* A label shaped like a fallback is only asked for by the node it belongs to,
\* and so, of ordinary names, is a last resort.
OwnName(name, n) ==
  /\ name \in Hex => name = Fallback[n]
  /\ OrdinaryNames => ResortOf(name, n)

GoodMessage(msg) ==
  /\ msg.op = "Leave" => msg.from # msg.to
  /\ msg.op = "SetHostname" => OwnName(msg.name, msg.from)
  /\ msg.op = "HostnameSet" => OwnName(msg.name, msg.to)

GoodTask(t) ==
  /\ t.pc = "remove" => t.peer # t.node
  /\ t.pc \in {"rename", "naming"} => OwnName(t.name, t.node)
  /\ t.pc = "claim" => OwnName(t.name, t.peer)
  /\ t.pc = "publish" =>
       \A msg \in t.along : GoodMessage(msg) /\ msg.op \in {"Kicked", "HostnameSet"}

Underway ==
  /\ \A t \in tasks : GoodTask(t)
  /\ \A msg \in net : GoodMessage(msg)

\* The task added to, or put in the place of another one.
LEMMA AddTask ==
  ASSUME TypeOK, Underway, NEW u \in Task, GoodTask(u),
         Start(u) \/ \E t : Continue(t, u)
  PROVE  tasks' \subseteq Task /\ \A t \in tasks' : GoodTask(t)
BY DEF TypeOK, Underway, Start, Continue

\* Tasks that end.
LEMMA FewerTasks ==
  ASSUME TypeOK, Underway, tasks' \subseteq tasks
  PROVE  tasks' \subseteq Task /\ \A t \in tasks' : GoodTask(t)
BY DEF TypeOK, Underway

\* Messages added to those under way.
LEMMA AddMessages ==
  ASSUME TypeOK, Underway, NEW more \in SUBSET Message,
         \A msg \in more : GoodMessage(msg),
         net' \subseteq net \cup more
  PROVE  net' \subseteq Message /\ \A msg \in net' : GoodMessage(msg)
BY DEF TypeOK, Underway

\* Messages that are received.
LEMMA FewerMessages ==
  ASSUME TypeOK, Underway, net' \subseteq net
  PROVE  net' \subseteq Message /\ \A msg \in net' : GoodMessage(msg)
BY DEF TypeOK, Underway

\* The name a node is granted is not shaped like the fallback or the last resort
\* of another one.
LEMMA AssignedLawful ==
  ASSUME NEW m \in MembershipType, NEW c \in Node, NEW h \in Name,
         NEW force \in BOOLEAN, OwnName(h, c)
  PROVE  OwnName(Assigned(m, c, h, force), c)
<1> DEFINE r == IF force THEN Release(m, h) ELSE m
<1> DEFINE free == {k \in 1 .. MaxSuffix : ~ SpokenFor(r, Numbered[h][k], c)}
<1>0. r \in MembershipType
  BY ReleaseType
<1>1. free # {} => Min(free) \in 1 .. MaxSuffix
  BY MinNat
<1> HIDE DEF r
<1>2. Dedupe(r, h, c) \in {h, LastResort[h][c]} \cup
        {Numbered[h][k] : k \in 1 .. MaxSuffix}
  BY <1>1 DEF Dedupe
<1>3. \A g \in {h, LastResort[h][c]} \cup {Numbered[h][k] : k \in 1 .. MaxSuffix} :
        g \in Hex => g = Fallback[c]
  BY SuffixAssumption DEF OwnName
<1>4. OrdinaryNames => ResortOf(Dedupe(r, h, c), c)
  BY <1>0, GrantedResort DEF OwnName
<1> QED
  BY <1>2, <1>3, <1>4 DEF Assigned, OwnName, r

\* What validation lets through.
LEMMA ValidateLawful ==
  ASSUME NEW s \in Typed, NEW c \in Node, Validate(s, c) # NoName
  PROVE  Validate(s, c) \in Name /\ OwnName(Validate(s, c), c)
BY NameAssumption DEF Validate, OwnName, OrdinaryNames, ResortOf

-----------------------------------------------------------------------------
(* What a step does to the memberships *)

\* The rosters that a join or a push brings.
InAnswer(r) == \E msg \in net : msg.op = "Joined" /\ msg.roster = r
InPush(r) == \E t \in tasks : t.pc = "apply" /\ t.roster = r

\* The membership of n becomes m.
MemChange(n, m) ==
  \/ \E h \in OptName :
       /\ h # NoName => OwnName(h, n)
       /\ m = Create(mem[n], n, commands, h)
  \/ \E token \in Token : m = GenerateInvite(mem[n], token, 1, 0)
  \/ m = Leave(mem[n])
  \/ \E p \in Node \ {n}, t \in tasks \ tasks' :
       /\ t.node = n /\ t.pc \in {"kick", "remove"} /\ t.peer = p
       /\ m = RemoveMember(mem[n], p)
  \/ \E c \in Node, h \in Name, force \in BOOLEAN :
       /\ force => c = n
       /\ OwnName(h, c)
       /\ m = ClaimHostname(mem[n], c, h, force)
  \/ \E c \in Node, r \in Roster :
       JoinEnds(n) /\ InAnswer(r) /\ m = SetJoined(mem[n], n, c, r)
  \/ \E r \in Roster : InPush(r) /\ m = SetRoster(mem[n], n, r)
  \/ \E token \in Token, p \in Node : m = RedeemInvite(mem[n], token, p, 0)
  \/ \E token \in Token, p \in Node, h \in Name :
       /\ OwnName(h, p)
       /\ m = ClaimHostname(RedeemInvite(mem[n], token, p, 0), p, h, FALSE)

MemStep ==
  \/ UNCHANGED mem
  \/ \E n \in Node : \E m : Set(n, m) /\ MemChange(n, m)

LEMMA CommandMem ==
  ASSUME TypeOK, NEW n \in Node, UserCommand(n)
  PROVE  MemStep
<1>1. ASSUME NEW s \in Optional, CreateNetwork(n, s)
      PROVE  MemStep
  <2>1. PICK h \in OptName : /\ Set(n, Create(mem[n], n, commands, h))
                             /\ h # NoName => OwnName(h, n)
    <3>1. CASE s = NoName
      BY <1>1, <3>1 DEF CreateNetwork, OptName
    <3>2. CASE s # NoName
      <4>1. Validate(s, n) \in OptName /\ OwnName(Validate(s, n), n)
        BY <1>1, <3>2, ValidateLawful DEF CreateNetwork, Optional, OptName
      <4> QED
        BY <1>1, <3>2, <4>1 DEF CreateNetwork
    <3> QED
      BY <3>1, <3>2
  <2>2. MemChange(n, Create(mem[n], n, commands, h))
    BY <2>1 DEF MemChange
  <2> QED
    BY <2>1, <2>2 DEF MemStep
<1>2. CASE UNCHANGED mem
  BY <1>2 DEF MemStep
<1> QED
  BY <1>1, <1>2 DEF UserCommand, InviteCommand, JoinCommand, LeaveCommand,
       KickCommand, HostnameCommand, LinkUp, Restart

LEMMA TaskMem ==
  ASSUME TypeOK, Underway, NEW t \in tasks, TaskStep(t)
  PROVE  MemStep
<1>0. t \in Task /\ t.node \in Node /\ GoodTask(t)
  BY TaskFields DEF TypeOK, Underway
<1> DEFINE n == t.node
<1>1. CASE Mint(t)
  <2>1. t.token \in Token
    BY <1>0, <1>1, TaskFields DEF Mint
  <2> QED
    BY <1>0, <1>1, <2>1 DEF Mint, MemStep, MemChange
<1>2. ASSUME NEW msg \in net, JoinAnswered(t, msg)
      PROVE  MemStep
  <2>1. CASE msg.op = "Joined"
    <3>1. t.peer \in Node /\ msg.roster \in Roster
      BY <1>0, <1>2, <2>1, TaskFields, MessageFields DEF JoinAnswered, TypeOK
    <3>2. JoinEnds(n)
      BY <1>2 DEF JoinAnswered, Finish, JoinEnds
    <3>3. Set(n, SetJoined(mem[n], n, t.peer, msg.roster)) /\ InAnswer(msg.roster)
      BY <1>2, <2>1 DEF JoinAnswered, InAnswer
    <3> QED
      BY <1>0, <3>1, <3>2, <3>3 DEF MemStep, MemChange
  <2>2. CASE msg.op # "Joined"
    BY <1>2, <2>2 DEF JoinAnswered, MemStep
  <2> QED
    BY <2>1, <2>2
<1>3. ASSUME NEW h \in Name, OwnName(h, n), Adopt(n, h)
      PROVE  MemStep
  BY <1>0, <1>3 DEF Adopt, MemStep, MemChange
<1>4. ASSUME NEW msg \in net, NamingAnswered(t, msg)
      PROVE  MemStep
  <2>1. msg.name \in Name /\ OwnName(msg.name, n)
    BY <1>4, MessageFields DEF NamingAnswered, TypeOK, Underway, GoodMessage
  <2> QED
    BY <1>3, <1>4, <2>1 DEF NamingAnswered
<1>5. CASE NamingUnanswered(t)
  <2>1. t.name \in Name /\ OwnName(t.name, n)
    BY <1>0, <1>5, TaskFields DEF NamingUnanswered, GoodTask
  <2> QED
    BY <1>3, <1>5, <2>1 DEF NamingUnanswered
<1>6. CASE DoLeave(t) \/ DoObey(t)
  BY <1>0, <1>6 DEF DoLeave, DoObey, MemStep, MemChange
<1>7. ASSUME t.pc \in {"kick", "remove"}, t.peer # n,
             Set(n, RemoveMember(mem[n], t.peer)), t \notin tasks'
      PROVE  MemStep
  <2>1. t.peer \in Node \ {n}
    BY <1>0, <1>7, TaskFields
  <2> QED
    BY <1>0, <1>7, <2>1 DEF MemStep, MemChange
<1>8. CASE DoKick(t)
  <2>1. CASE t.peer \in mem[n].members \ {n}
    <3>1. t \notin tasks' /\ t.pc = "kick"
      BY <1>8, <2>1 DEF DoKick, Continue
    <3> QED
      BY <1>7, <1>8, <2>1, <3>1 DEF DoKick
  <2> QED
    BY <1>8, <2>1 DEF DoKick, MemStep
<1>9. CASE DoRemove(t)
  <2>1. CASE t.peer \in mem[n].members
    <3>1. t \notin tasks' /\ t.pc = "remove" /\ t.peer # n
      BY <1>0, <1>9, <2>1 DEF DoRemove, Continue, GoodTask
    <3> QED
      BY <1>7, <1>9, <2>1, <3>1 DEF DoRemove
  <2> QED
    BY <1>9, <2>1 DEF DoRemove, MemStep
<1>10. CASE DoRename(t)
  <2>1. t.name \in Name /\ t.force \in BOOLEAN /\ OwnName(t.name, n)
    BY <1>0, <1>10, TaskFields DEF DoRename, GoodTask
  <2> QED
    BY <1>0, <1>10, <2>1 DEF DoRename, MemStep, MemChange
<1>11. CASE DoClaim(t)
  <2>1. t.name \in Name /\ t.peer \in Node /\ OwnName(t.name, t.peer)
    BY <1>0, <1>11, TaskFields DEF DoClaim, GoodTask
  <2>2. Set(n, ClaimHostname(mem[n], t.peer, t.name, FALSE))
    BY <1>11 DEF DoClaim
  <2> QED
    BY <1>0, <2>1, <2>2 DEF MemStep, MemChange
<1>12. CASE DoApply(t)
  <2>1. t.roster \in Roster /\ InPush(t.roster)
    BY <1>0, <1>12, TaskFields DEF DoApply, InPush
  <2> QED
    BY <1>0, <1>12, <2>1 DEF DoApply, MemStep, MemChange
<1>13. CASE Redeem(t)
  <2> DEFINE in == RedeemInvite(mem[n], t.token, t.peer, 0)
  <2>1. t.token \in Token /\ t.peer \in Node /\ t.name \in Optional
    BY <1>0, <1>13, TaskFields DEF Redeem
  <2>2. Set(n, in) \/ Set(n, Admit(mem[n], t))
    BY <1>13 DEF Redeem
  <2>3. CASE Set(n, in)
    BY <1>0, <2>1, <2>3 DEF MemStep, MemChange
  <2>4. ASSUME NEW h \in Name, OwnName(h, t.peer),
               Set(n, ClaimHostname(in, t.peer, h, FALSE))
        PROVE  MemStep
    BY <1>0, <2>1, <2>4 DEF MemStep, MemChange
  <2>5. CASE JoinerName(in, t.peer, t.name) = NoName
    BY <2>2, <2>3, <2>5 DEF Admit
  <2>6. CASE JoinerName(in, t.peer, t.name) # NoName
    <3>1. t.name \in Typed /\ Validate(t.name, t.peer) # NoName
      BY <2>1, <2>6 DEF JoinerName, Optional
    <3>2. /\ Validate(t.name, t.peer) \in Name
          /\ OwnName(Validate(t.name, t.peer), t.peer)
      BY <2>1, <3>1, ValidateLawful
    <3> QED
      BY <2>2, <2>3, <2>4, <2>6, <3>2 DEF Admit
  <2> QED
    BY <2>5, <2>6
<1>14. CASE JoinUnanswered(t) \/ Publish(t) \/ CatchUp(t)
  BY <1>14 DEF JoinUnanswered, Publish, CatchUp, MemStep
<1> QED
  BY <1>1, <1>2, <1>4, <1>5, <1>6, <1>8, <1>9, <1>10, <1>11, <1>12, <1>13,
     <1>14 DEF TaskStep

\* Every step leaves all memberships alone, or changes one of them in one of the
\* ways of MemChange.
LEMMA EveryMemStep ==
  ASSUME TypeOK, Underway, Next
  PROVE  MemStep
<1>1. ASSUME NEW msg \in net, Deliver(msg)
      PROVE  MemStep
  BY <1>1 DEF Deliver, RecvJoin, RecvSetHostname, RecvLeave, RecvRoster,
              RecvKicked, MemStep
<1> QED
  BY <1>1, CommandMem, TaskMem DEF Next

-----------------------------------------------------------------------------
(* Types, and what is true of everything under way *)

LEMMA MemType ==
  ASSUME TypeOK, MemStep
  PROVE  mem' \in [Node -> MembershipType]
<1>1. ASSUME NEW n \in Node, NEW m, MemChange(n, m)
      PROVE  m \in MembershipType
  <2>0. mem[n] \in MembershipType /\ commands \in Nat
    BY CommandAssumption DEF TypeOK
  <2>1. ASSUME NEW h \in OptName, m = Create(mem[n], n, commands, h)
        PROVE  m \in MembershipType
    BY <2>0, <2>1, CreateType
  <2>2. ASSUME NEW token \in Token, m = GenerateInvite(mem[n], token, 1, 0)
        PROVE  m \in MembershipType
    BY <2>0, <2>2, GenerateInviteType
  <2>3. CASE m = Leave(mem[n])
    BY <2>3, DefaultType DEF Leave
  <2>4. ASSUME NEW p \in Node, m = RemoveMember(mem[n], p)
        PROVE  m \in MembershipType
    BY <2>0, <2>4, RemoveMemberType
  <2>5. ASSUME NEW c \in Node, NEW h \in Name, NEW force \in BOOLEAN,
               m = ClaimHostname(mem[n], c, h, force)
        PROVE  m \in MembershipType
    BY <2>0, <2>5, ClaimHostnameType
  <2>6. ASSUME NEW c \in Node, NEW r \in Roster, m = SetJoined(mem[n], n, c, r)
        PROVE  m \in MembershipType
    BY <2>0, <2>6, SetJoinedType
  <2>7. ASSUME NEW r \in Roster, m = SetRoster(mem[n], n, r)
        PROVE  m \in MembershipType
    BY <2>0, <2>7, ApplyRosterType DEF SetRoster
  <2>8. ASSUME NEW token \in Token, NEW p \in Node
        PROVE  RedeemInvite(mem[n], token, p, 0) \in MembershipType
    BY <2>0, RedeemInviteType
  <2>9. ASSUME NEW token \in Token, NEW p \in Node, NEW h \in Name,
               m = ClaimHostname(RedeemInvite(mem[n], token, p, 0), p, h, FALSE)
        PROVE  m \in MembershipType
    BY <2>8, <2>9, ClaimHostnameType
  <2> QED
    BY <1>1, <2>1, <2>2, <2>3, <2>4, <2>5, <2>6, <2>7, <2>8, <2>9 DEF MemChange
<1>2. CASE UNCHANGED mem
  BY <1>2 DEF TypeOK
<1>3. ASSUME NEW n \in Node, NEW m, Set(n, m), MemChange(n, m)
      PROVE  mem' \in [Node -> MembershipType]
  <2>1. m \in MembershipType
    BY <1>1, <1>3
  <2> QED
    BY <1>3, <2>1 DEF Set, TypeOK
<1> QED
  BY <1>2, <1>3 DEF MemStep

\* Tasks and messages stay what they are: the part of the invariant that is
\* about them.
TasksOK == tasks \subseteq Task /\ \A t \in tasks : GoodTask(t)
NetOK == net \subseteq Message /\ \A msg \in net : GoodMessage(msg)

LEMMA CommandUnderway ==
  ASSUME TypeOK, Underway, NEW n \in Node, UserCommand(n)
  PROVE  TasksOK' /\ NetOK'
<1> USE DEF TasksOK, NetOK
<1>1. ASSUME NEW s, CreateNetwork(n, s)
      PROVE  TasksOK' /\ NetOK'
  BY <1>1, FewerTasks, FewerMessages DEF CreateNetwork
<1>2. ASSUME NEW token \in Token, InviteCommand(n, token)
      PROVE  TasksOK' /\ NetOK'
  <2> DEFINE u == [pc |-> "invite", node |-> n, token |-> token]
  <2>1. u \in Task /\ GoodTask(u)
    BY DEF Task, GoodTask
  <2>2. Start(u) /\ UNCHANGED net
    BY <1>2 DEF InviteCommand
  <2> HIDE DEF u
  <2> QED
    BY <2>1, <2>2, AddTask, FewerMessages
<1>3. ASSUME NEW token \in Token, NEW s \in Optional, JoinCommand(n, token, s)
      PROVE  TasksOK' /\ NetOK'
  <2> DEFINE u == Joining(n, codes[token], token, s, 1)
  <2>1. codes[token] \in Node /\ 1 \in Attempt
    BY <1>3, JoinAssumption DEF JoinCommand, TypeOK, OptNode, Attempt
  <2>2. u \in Task /\ JoinRequest(u) \in Message
    BY <2>1, JoiningTask
  <2>3. GoodTask(u) /\ GoodMessage(JoinRequest(u))
    BY DEF Joining, JoinRequest, GoodTask, GoodMessage
  <2>4. Start(u) /\ net' = net \cup {JoinRequest(u)}
    BY <1>3 DEF JoinCommand
  <2> HIDE DEF u
  <2>5. TasksOK'
    BY <2>2, <2>3, <2>4, AddTask
  <2>6. {JoinRequest(u)} \in SUBSET Message
    BY <2>2
  <2>7. NetOK'
    BY <2>3, <2>4, <2>6, AddMessages
  <2> QED
    BY <2>5, <2>7
<1>4. CASE LeaveCommand(n)
  <2> DEFINE u == [pc |-> "leaving", node |-> n]
  <2> DEFINE msg == [op |-> "Leave", from |-> n, to |-> mem[n].coord]
  <2>1. u \in Task /\ GoodTask(u)
    BY DEF Task, GoodTask
  <2>2. Start(u)
    BY <1>4 DEF LeaveCommand
  <2>3. CASE mem[n].coord \in {NoNode, n}
    <3>1. UNCHANGED net
      BY <1>4, <2>3 DEF LeaveCommand
    <3> HIDE DEF u
    <3> QED
      BY <2>1, <2>2, <3>1, AddTask, FewerMessages
  <2>4. CASE mem[n].coord \notin {NoNode, n}
    <3>1. mem[n].coord \in Node
      BY <2>4 DEF TypeOK, MembershipType, OptNode
    <3>2. {msg} \in SUBSET Message /\ GoodMessage(msg)
      BY <2>4, <3>1 DEF Message, GoodMessage
    <3>3. net' = net \cup {msg}
      BY <1>4, <2>4 DEF LeaveCommand
    <3> HIDE DEF u, msg
    <3>4. TasksOK'
      BY <2>1, <2>2, AddTask
    <3>5. NetOK'
      BY <3>2, <3>3, AddMessages
    <3> QED
      BY <3>4, <3>5
  <2> QED
    BY <2>3, <2>4
<1>5. ASSUME NEW p \in Node, NEW step \in {"kick", "catchup"},
             Start([pc |-> step, node |-> n, peer |-> p]), UNCHANGED net
      PROVE  TasksOK' /\ NetOK'
  <2> DEFINE u == [pc |-> step, node |-> n, peer |-> p]
  <2>1. u \in Task /\ GoodTask(u)
    BY DEF Task, GoodTask
  <2>2. Start(u)
    BY <1>5
  <2> HIDE DEF u
  <2> QED
    BY <1>5, <2>1, <2>2, AddTask, FewerMessages
<1>6. ASSUME NEW s \in Typed, NEW force \in BOOLEAN, HostnameCommand(n, s, force)
      PROVE  TasksOK' /\ NetOK'
  <2> DEFINE h == Validate(s, n)
  <2>1. h \in Name /\ OwnName(h, n)
    BY <1>6, ValidateLawful DEF HostnameCommand
  <2>2. CASE /\ Start([pc |-> "rename", node |-> n, name |-> h, force |-> force])
             /\ UNCHANGED net
    <3> DEFINE u == [pc |-> "rename", node |-> n, name |-> h, force |-> force]
    <3>1. u \in Task /\ GoodTask(u)
      BY <2>1 DEF Task, GoodTask
    <3>2. Start(u)
      BY <2>2
    <3> HIDE DEF u
    <3> QED
      BY <2>2, <3>1, <3>2, AddTask, FewerMessages
  <2>3. CASE /\ mem[n].coord \notin {NoNode, n}
             /\ Start(Naming(n, mem[n].coord, h))
             /\ net' = net \cup {[op |-> "SetHostname", from |-> n,
                                  to |-> mem[n].coord, name |-> h]}
    <3> DEFINE u == Naming(n, mem[n].coord, h)
    <3> DEFINE msg == [op |-> "SetHostname", from |-> n, to |-> mem[n].coord,
                       name |-> h]
    <3>1. mem[n].coord \in Node
      BY <2>3 DEF TypeOK, MembershipType, OptNode
    <3>2. u \in Task /\ GoodTask(u)
      BY <2>1, <3>1 DEF Naming, Task, GoodTask
    <3>3. {msg} \in SUBSET Message /\ GoodMessage(msg)
      BY <2>1, <3>1 DEF Message, GoodMessage
    <3>4. Start(u) /\ net' = net \cup {msg}
      BY <2>3
    <3> HIDE DEF u, msg
    <3>5. TasksOK'
      BY <3>2, <3>4, AddTask
    <3>6. NetOK'
      BY <3>3, <3>4, AddMessages
    <3> QED
      BY <3>5, <3>6
  <2> QED
    BY <1>6, <2>2, <2>3 DEF HostnameCommand
<1>7. CASE Restart(n)
  BY <1>7, FewerTasks, FewerMessages DEF Restart
<1> QED
  BY <1>1, <1>2, <1>3, <1>4, <1>5, <1>6, <1>7 DEF UserCommand, KickCommand, LinkUp

\* An answer is one message, or none.
LEMMA AnswerType ==
  ASSUME NEW caller, NEW msg \in Message, GoodMessage(msg)
  PROVE  /\ Answer(caller, msg) \in SUBSET Message
         /\ \A a \in Answer(caller, msg) : GoodMessage(a) /\ a = msg
BY DEF Answer

LEMMA TaskUnderway ==
  ASSUME TypeOK, Underway, NEW t \in tasks, TaskStep(t)
  PROVE  TasksOK' /\ NetOK'
<1> USE DEF TasksOK, NetOK
<1> DEFINE n == t.node
<1>0. t \in Task /\ n \in Node /\ GoodTask(t) /\ mem[n] \in MembershipType
  BY TaskFields DEF TypeOK, Underway
<1>1. ASSUME Finish(t), net' \subseteq net
      PROVE  TasksOK' /\ NetOK'
  BY <1>1, FewerTasks, FewerMessages DEF Finish
<1>2. ASSUME NEW more \in SUBSET Message, \A msg \in more : GoodMessage(msg),
             Finish(t), net' \subseteq net \cup more
      PROVE  TasksOK' /\ NetOK'
  BY <1>2, FewerTasks, AddMessages DEF Finish
<1>3. ASSUME NEW p \in Node, NEW along \in SUBSET Message,
             \A msg \in along : GoodMessage(msg) /\ msg.op \in {"Kicked", "HostnameSet"},
             Continue(t, [pc |-> "publish", node |-> n, peer |-> p, along |-> along]),
             UNCHANGED net
      PROVE  TasksOK' /\ NetOK'
  <2> DEFINE u == [pc |-> "publish", node |-> n, peer |-> p, along |-> along]
  <2>1. u \in Task /\ GoodTask(u)
    BY <1>0, <1>3 DEF Task, GoodTask
  <2>2. Continue(t, u)
    BY <1>3
  <2> HIDE DEF u
  <2> QED
    BY <1>3, <2>1, <2>2, AddTask, FewerMessages
<1>4. CASE Mint(t) \/ NamingUnanswered(t) \/ DoLeave(t) \/ DoApply(t) \/ DoObey(t)
  BY <1>1, <1>4 DEF Mint, NamingUnanswered, DoLeave, DoApply, DoObey
<1>5. ASSUME NEW msg \in net, JoinAnswered(t, msg) \/ NamingAnswered(t, msg)
      PROVE  TasksOK' /\ NetOK'
  BY <1>1, <1>5 DEF JoinAnswered, NamingAnswered
<1>6. CASE JoinUnanswered(t)
  <2>1. CASE t.attempt < JoinAttempts
    <3> DEFINE u == [t EXCEPT !.attempt = @ + 1]
    <3>1. u \in Task /\ JoinRequest(u) \in Message
      BY <1>0, <1>6, <2>1, NextAttempt DEF JoinUnanswered
    <3>2. t.pc = "joining" /\ DOMAIN t = DOMAIN u /\ u.pc = "joining"
      BY <1>0, <1>6 DEF JoinUnanswered, Task
    <3>3. Continue(t, u) /\ net' = net \cup {JoinRequest(u)}
      BY <1>6, <2>1 DEF JoinUnanswered
    <3> HIDE DEF u
    <3>4. GoodTask(u)
      BY <3>2 DEF GoodTask
    <3>5. GoodMessage(JoinRequest(u)) /\ {JoinRequest(u)} \in SUBSET Message
      BY <3>1 DEF JoinRequest, GoodMessage
    <3>6. TasksOK'
      BY <3>1, <3>3, <3>4, AddTask
    <3>7. NetOK'
      BY <3>3, <3>5, AddMessages
    <3> QED
      BY <3>6, <3>7
  <2>2. CASE ~ (t.attempt < JoinAttempts)
    BY <1>1, <1>6, <2>2 DEF JoinUnanswered
  <2> QED
    BY <2>1, <2>2
<1>7. CASE DoKick(t)
  <2>0. t.peer \in Node
    BY <1>0, <1>7, TaskFields DEF DoKick
  <2>1. CASE t.peer \in mem[n].members \ {n}
    <3> DEFINE along == {[op |-> "Kicked", from |-> n, to |-> t.peer]}
    <3>1. /\ along \in SUBSET Message
          /\ \A msg \in along : GoodMessage(msg) /\ msg.op \in {"Kicked", "HostnameSet"}
      BY <1>0, <2>0 DEF Message, GoodMessage
    <3>2. /\ Continue(t, [pc |-> "publish", node |-> n, peer |-> t.peer, along |-> along])
          /\ UNCHANGED net
      BY <1>7, <2>1 DEF DoKick
    <3> HIDE DEF along
    <3> QED
      BY <1>3, <2>0, <3>1, <3>2
  <2>2. CASE t.peer \notin mem[n].members \ {n}
    BY <1>1, <1>7, <2>2 DEF DoKick
  <2> QED
    BY <2>1, <2>2
<1>8. CASE DoRename(t)
  BY <1>0, <1>3, <1>8 DEF DoRename
<1>9. CASE DoRemove(t)
  <2>0. t.peer \in Node
    BY <1>0, <1>9, TaskFields DEF DoRemove
  <2>1. CASE t.peer \in mem[n].members
    BY <1>3, <1>9, <2>0, <2>1 DEF DoRemove
  <2>2. CASE t.peer \notin mem[n].members
    BY <1>1, <1>9, <2>2 DEF DoRemove
  <2> QED
    BY <2>1, <2>2
<1>10. CASE Publish(t)
  <2> DEFINE more == Broadcast(n, t.peer, RosterOf(mem[n])) \cup t.along
  <2>1. t.along \in SUBSET Message /\ \A msg \in t.along : GoodMessage(msg)
    BY <1>0, <1>10, TaskFields DEF Publish, GoodTask
  <2>2. more \in SUBSET Message /\ \A msg \in more : GoodMessage(msg)
    BY <1>0, <2>1, BroadcastType, RosterOfType DEF GoodMessage
  <2>3. Finish(t) /\ net' \subseteq net \cup more
    BY <1>10 DEF Publish
  <2> HIDE DEF more
  <2> QED
    BY <1>2, <2>2, <2>3
<1>11. CASE CatchUp(t)
  <2> DEFINE msg == [op |-> "Roster", from |-> n, to |-> t.peer,
                     roster |-> RosterOf(mem[n])]
  <2>1. t.peer \in Node /\ RosterOf(mem[n]) \in Roster
    BY <1>0, <1>11, TaskFields, RosterOfType DEF CatchUp
  <2>2. {msg} \in SUBSET Message /\ GoodMessage(msg)
    BY <1>0, <2>1 DEF Message, GoodMessage
  <2>3. Finish(t) /\ net' \subseteq net \cup {msg}
    BY <1>11 DEF CatchUp
  <2> HIDE DEF msg
  <2> QED
    BY <1>2, <2>2, <2>3
<1>12. CASE DoClaim(t)
  <2> DEFINE granted == Assigned(mem[n], t.peer, t.name, FALSE)
  <2> DEFINE msg == [op |-> "HostnameSet", from |-> n, to |-> t.peer,
                     wanted |-> t.name, name |-> granted]
  <2> DEFINE along == Answer(Naming(t.peer, n, t.name), msg)
  <2>1. t.peer \in Node /\ t.name \in Name /\ OwnName(t.name, t.peer)
    BY <1>0, <1>12, TaskFields DEF DoClaim, GoodTask
  <2>2. granted \in Name /\ OwnName(granted, t.peer)
    BY <1>0, <2>1, AssignedType, AssignedLawful
  <2>3. /\ Continue(t, [pc |-> "publish", node |-> n, peer |-> t.peer, along |-> along])
        /\ UNCHANGED net
    BY <1>12 DEF DoClaim
  <2> HIDE DEF granted
  <2>4. msg \in Message /\ GoodMessage(msg) /\ msg.op = "HostnameSet"
    BY <1>0, <2>1, <2>2 DEF Message, GoodMessage
  <2> HIDE DEF msg
  <2>5. /\ along \in SUBSET Message
        /\ \A a \in along : GoodMessage(a) /\ a.op \in {"Kicked", "HostnameSet"}
    BY <2>4, AnswerType
  <2> HIDE DEF along
  <2> QED
    BY <1>3, <2>1, <2>3, <2>5
<1>13. CASE Redeem(t)
  <2> DEFINE in == RedeemInvite(mem[n], t.token, t.peer, 0)
  <2> DEFINE after == Admit(mem[n], t)
  <2> DEFINE caller == Joining(t.peer, n, t.token, t.name, t.attempt)
  <2> DEFINE yes == [op |-> "Joined", from |-> n, to |-> t.peer,
                     token |-> t.token, attempt |-> t.attempt,
                     roster |-> RosterOf(after),
                     name |-> JoinerName(in, t.peer, t.name)]
  <2> DEFINE no == [op |-> "Refused", from |-> n, to |-> t.peer,
                    token |-> t.token, attempt |-> t.attempt]
  <2>1. /\ t.peer \in Node /\ t.token \in Token /\ t.name \in Optional
        /\ t.attempt \in Attempt
    BY <1>0, <1>13, TaskFields DEF Redeem
  <2>2. in \in MembershipType
    BY <1>0, <2>1, RedeemInviteType
  <2>3. t.name # NoName /\ Validate(t.name, t.peer) # NoName =>
          Validate(t.name, t.peer) \in Name
    BY <2>1, ValidateLawful DEF Optional
  <2>4. JoinerName(in, t.peer, t.name) \in OptName
    BY <2>1, <2>2, <2>3, AssignedType DEF JoinerName, OptName
  <2>5. after \in MembershipType
    <3>1. JoinerName(in, t.peer, t.name) # NoName =>
            t.name # NoName /\ Validate(t.name, t.peer) # NoName
      BY DEF JoinerName
    <3> QED
      BY <2>1, <2>2, <2>3, <3>1, ClaimHostnameType DEF Admit
  <2>6. RosterOf(after) \in Roster
    BY <2>5, RosterOfType
  <2>7. /\ yes \in Message /\ GoodMessage(yes)
        /\ no \in Message /\ GoodMessage(no)
    BY <1>0, <2>1, <2>4, <2>6 DEF Message, GoodMessage
  <2>8. Finish(t)
    BY <1>13 DEF Redeem
  <2>9. CASE Redeemable(mem[n], t.token, 0)
    <3> DEFINE more == Broadcast(n, t.peer, RosterOf(after)) \cup Answer(caller, yes)
    <3>1. net' \subseteq net \cup more
      BY <1>13, <2>9 DEF Redeem
    <3> HIDE DEF in, after, caller, yes, no
    <3>2. Answer(caller, yes) \in SUBSET Message /\ \A a \in Answer(caller, yes) : GoodMessage(a)
      BY <2>7, AnswerType
    <3>3. more \in SUBSET Message /\ \A msg \in more : GoodMessage(msg)
      BY <1>0, <2>6, <3>2, BroadcastType DEF GoodMessage
    <3> HIDE DEF more
    <3> QED
      BY <1>2, <2>8, <3>1, <3>3
  <2>10. CASE ~ Redeemable(mem[n], t.token, 0)
    <3> DEFINE more == Answer(caller, no)
    <3>1. net' \subseteq net \cup more
      BY <1>13, <2>10 DEF Redeem
    <3> HIDE DEF in, after, caller, yes, no
    <3>2. more \in SUBSET Message /\ \A msg \in more : GoodMessage(msg)
      BY <2>7, AnswerType
    <3> HIDE DEF more
    <3> QED
      BY <1>2, <2>8, <3>1, <3>2
  <2> QED
    BY <2>9, <2>10
<1> QED
  BY <1>4, <1>5, <1>6, <1>7, <1>8, <1>9, <1>10, <1>11, <1>12, <1>13 DEF TaskStep

LEMMA DeliverUnderway ==
  ASSUME TypeOK, Underway, NEW msg \in net, Deliver(msg)
  PROVE  TasksOK' /\ NetOK'
<1> USE DEF TasksOK, NetOK
<1>0. msg \in Message /\ GoodMessage(msg) /\ msg.from \in Node /\ msg.to \in Node
  BY MessageFields DEF TypeOK, Underway
<1>1. ASSUME Receive(msg), UNCHANGED tasks
      PROVE  TasksOK' /\ NetOK'
  BY <1>1, FewerTasks, FewerMessages DEF Receive
<1>2. ASSUME NEW u \in Task, GoodTask(u), Receive(msg), Start(u)
      PROVE  TasksOK' /\ NetOK'
  BY <1>2, AddTask, FewerMessages DEF Receive
<1>3. CASE RecvJoin(msg)
  <2>1. msg.token \in Token /\ msg.attempt \in Attempt /\ msg.name \in Optional
    BY <1>0, <1>3, MessageFields DEF RecvJoin
  <2>2. CASE IsCoordinator(mem[msg.to], msg.to)
    <3> DEFINE u == [pc |-> "redeem", node |-> msg.to, peer |-> msg.from,
                     token |-> msg.token, name |-> msg.name,
                     attempt |-> msg.attempt]
    <3>1. u \in Task /\ GoodTask(u)
      BY <1>0, <2>1 DEF Task, GoodTask
    <3>2. Receive(msg) /\ Start(u)
      BY <1>3, <2>2 DEF RecvJoin
    <3> HIDE DEF u
    <3> QED
      BY <1>2, <3>1, <3>2
  <2>3. CASE ~ IsCoordinator(mem[msg.to], msg.to)
    <3> DEFINE no == [op |-> "Refused", from |-> msg.to, to |-> msg.from,
                      token |-> msg.token, attempt |-> msg.attempt]
    <3> DEFINE more == Answer(Joining(msg.from, msg.to, msg.token, msg.name,
                                      msg.attempt), no)
    <3>1. no \in Message /\ GoodMessage(no)
      BY <1>0, <2>1 DEF Message, GoodMessage
    <3>2. net' \subseteq net \cup more /\ UNCHANGED tasks
      BY <1>3, <2>3 DEF RecvJoin
    <3> HIDE DEF no
    <3>3. more \in SUBSET Message /\ \A a \in more : GoodMessage(a)
      BY <3>1, AnswerType
    <3> HIDE DEF more
    <3> QED
      BY <3>2, <3>3, FewerTasks, AddMessages
  <2> QED
    BY <2>2, <2>3
<1>4. CASE RecvSetHostname(msg)
  <2> DEFINE u == [pc |-> "claim", node |-> msg.to, peer |-> msg.from,
                   name |-> msg.name]
  <2>1. msg.name \in Name /\ OwnName(msg.name, msg.from)
    BY <1>0, <1>4, MessageFields DEF RecvSetHostname, GoodMessage
  <2>2. u \in Task /\ GoodTask(u)
    BY <1>0, <2>1 DEF Task, GoodTask
  <2>3. Receive(msg) /\ (Start(u) \/ UNCHANGED tasks)
    BY <1>4 DEF RecvSetHostname
  <2> HIDE DEF u
  <2> QED
    BY <1>1, <1>2, <2>2, <2>3
<1>5. CASE RecvLeave(msg)
  <2> DEFINE u == [pc |-> "remove", node |-> msg.to, peer |-> msg.from]
  <2>1. msg.from # msg.to
    BY <1>0, <1>5 DEF RecvLeave, GoodMessage
  <2>2. u \in Task /\ GoodTask(u)
    BY <1>0, <2>1 DEF Task, GoodTask
  <2>3. Receive(msg) /\ (Start(u) \/ UNCHANGED tasks)
    BY <1>5 DEF RecvLeave
  <2> HIDE DEF u
  <2> QED
    BY <1>1, <1>2, <2>2, <2>3
<1>6. CASE RecvRoster(msg)
  <2> DEFINE u == [pc |-> "apply", node |-> msg.to, roster |-> msg.roster]
  <2>1. msg.roster \in Roster
    BY <1>0, <1>6, MessageFields DEF RecvRoster
  <2>2. u \in Task /\ GoodTask(u)
    BY <1>0, <2>1 DEF Task, GoodTask
  <2>3. Receive(msg) /\ (Start(u) \/ UNCHANGED tasks)
    BY <1>6 DEF RecvRoster
  <2> HIDE DEF u
  <2> QED
    BY <1>1, <1>2, <2>2, <2>3
<1>7. CASE RecvKicked(msg)
  <2> DEFINE u == [pc |-> "obey", node |-> msg.to]
  <2>1. u \in Task /\ GoodTask(u)
    BY <1>0 DEF Task, GoodTask
  <2>2. Receive(msg) /\ (Start(u) \/ UNCHANGED tasks)
    BY <1>7 DEF RecvKicked
  <2> HIDE DEF u
  <2> QED
    BY <1>1, <1>2, <2>1, <2>2
<1> QED
  BY <1>3, <1>4, <1>5, <1>6, <1>7 DEF Deliver

\* The codes handed out and the commands given.
LEMMA CodesType ==
  ASSUME TypeOK, Next
  PROVE  codes' \in [Token -> OptNode] /\ commands' \in 0 .. MaxCommands
<1>1. ASSUME NEW n \in Node, UserCommand(n)
      PROVE  UNCHANGED codes /\ Command
  BY <1>1 DEF UserCommand, CreateNetwork, InviteCommand, JoinCommand,
       LeaveCommand, KickCommand, HostnameCommand, LinkUp, Restart
<1>2. ASSUME Command
      PROVE  commands' \in 0 .. MaxCommands
  BY <1>2, CommandAssumption DEF Command, TypeOK
<1>3. ASSUME NEW t \in tasks, Mint(t)
      PROVE  codes' \in [Token -> OptNode] /\ UNCHANGED commands
  <2>1. t.node \in Node /\ t.token \in Token
    BY <1>3, TaskFields DEF Mint, TypeOK
  <2> QED
    BY <1>3, <2>1 DEF Mint, TypeOK, OptNode
<1>4. ASSUME NEW t \in tasks, TaskStep(t), ~ Mint(t)
      PROVE  UNCHANGED <<codes, commands>>
  BY <1>4 DEF TaskStep, JoinAnswered, NamingAnswered, JoinUnanswered,
       NamingUnanswered, DoLeave, DoKick, DoRename, Publish, CatchUp, Redeem,
       DoClaim, DoRemove, DoApply, DoObey
<1>5. ASSUME NEW msg \in net, Deliver(msg)
      PROVE  UNCHANGED <<codes, commands>>
  BY <1>5 DEF Deliver, RecvJoin, RecvSetHostname, RecvLeave, RecvRoster, RecvKicked
<1> QED
  BY <1>1, <1>2, <1>3, <1>4, <1>5 DEF Next, TypeOK

ControlInv == TypeOK /\ Underway

LEMMA ControlInit == Init => ControlInv
BY DefaultType, CommandAssumption
   DEF Init, ControlInv, TypeOK, Underway, OptNode

LEMMA ControlStep == ControlInv /\ [Next]_vars => ControlInv'
<1> SUFFICES ASSUME TypeOK, Underway, [Next]_vars
             PROVE  TypeOK' /\ Underway'
  BY DEF ControlInv
<1>1. CASE UNCHANGED vars
  BY <1>1 DEF vars, TypeOK, Underway
<1>2. CASE Next
  <2>1. TasksOK' /\ NetOK'
    BY <1>2, CommandUnderway, TaskUnderway, DeliverUnderway DEF Next
  <2>2. mem' \in [Node -> MembershipType]
    BY <1>2, EveryMemStep, MemType
  <2> QED
    BY <1>2, <2>1, <2>2, CodesType DEF TypeOK, Underway, TasksOK, NetOK
<1> QED
  BY <1>1, <1>2

LEMMA Invariance == Spec => []ControlInv
BY ControlInit, ControlStep, PTL DEF Spec

\* Memberships, tasks and messages stay well formed, whatever is lost, delayed
\* and reordered (the types of membership.rs, admin.rs and ipc.rs).
THEOREM TypeCorrect == Spec => []TypeOK
<1>1. ControlInv => TypeOK
  BY DEF ControlInv
<1> QED
  BY <1>1, Invariance, PTL

-----------------------------------------------------------------------------
(* A node in a network lists itself *)

\* What every operation keeps of it.
ListsItself(n, m) == m.coord # NoNode => n \in m.members
SelfIn == \A n \in Node : ListsItself(n, mem[n])

\* In a membership m after m0: the coordinator is listed, or was not before.
CoordKept(m0, m) ==
  m.coord # NoNode =>
    m.coord \in m.members \/ (m0.coord = m.coord /\ m.coord \notin m0.members)

LEMMA ClaimMembers ==
  ASSUME NEW m \in MembershipType, NEW c \in Node, NEW h \in Name,
         NEW force \in BOOLEAN
  PROVE  LET after == ClaimHostname(m, c, h, force)
         IN  after.members = m.members /\ after.coord = m.coord
<1> DEFINE r == IF force THEN Release(m, h) ELSE m
<1>1. r \in MembershipType /\ r.members = m.members /\ r.coord = m.coord
  BY ReleaseType DEF Release, MembershipType
<1>2. ClaimHostname(m, c, h, force) = Bind(r, c, Assigned(m, c, h, force))
  BY DEF ClaimHostname
<1> HIDE DEF r
<1> QED
  BY <1>1, <1>2 DEF Bind, MembershipType

LEMMA RedeemMembers ==
  ASSUME NEW m \in MembershipType, NEW token \in Token, NEW p \in Node
  PROVE  LET after == RedeemInvite(m, token, p, 0)
         IN  m.members \subseteq after.members /\ after.coord = m.coord
BY DEF RedeemInvite, MembershipType

LEMMA RosterMembers ==
  ASSUME NEW m \in MembershipType, NEW n \in Node, NEW r \in Roster
  PROVE  LET after == ApplyRoster(m, n, r)
         IN  /\ n \in after.members /\ after.coord = m.coord
             /\ m.coord # NoNode => m.coord \in after.members
BY NodeAssumption DEF ApplyRoster, AlwaysListed, MembershipType, Roster

LEMMA JoinedMembers ==
  ASSUME NEW m \in MembershipType, NEW n \in Node, NEW c \in Node, NEW r \in Roster
  PROVE  LET after == SetJoined(m, n, c, r)
         IN  n \in after.members /\ after.coord = c /\ c \in after.members
<1> DEFINE m1 == [m EXCEPT !.coord = c, !.net = NoNet, !.invites = {},
                           !.bind = [h \in Name |-> NoNode]]
<1>1. m1 \in MembershipType /\ m1.coord = c
  BY DEF MembershipType, OptNode
<1>2. SetJoined(m, n, c, r) = ApplyRoster(m1, n, r)
  BY DEF SetJoined
<1> HIDE DEF m1
<1> QED
  BY <1>1, <1>2, RosterMembers, NodeAssumption

LEMMA CreateMembers ==
  ASSUME NEW m \in MembershipType, NEW n \in Node, NEW fresh \in Nat,
         NEW h \in OptName
  PROVE  LET after == Create(m, n, fresh, h)
         IN  after.members = {n} /\ after.coord = n
BY DEF Create, Bind, MembershipType

\* What a change of node n's membership to m leaves of both.
ListsBoth(n, m) ==
  /\ ListsItself(n, m)
  /\ \/ CoordKept(mem[n], m)
     \/ \E t \in tasks \ tasks' :
          t.node = n /\ t.pc \in {"kick", "remove"} /\ t.peer = m.coord

\* A change of a membership keeps the node listed, and its coordinator unless a
\* kick or a leave removes it.
LEMMA ChangeLists ==
  ASSUME TypeOK, NEW n \in Node, NEW m, MemChange(n, m), ListsItself(n, mem[n])
  PROVE  ListsBoth(n, m)
<1>0. mem[n] \in MembershipType /\ commands \in Nat
  BY CommandAssumption DEF TypeOK
<1>a. ASSUME m.coord = mem[n].coord, mem[n].members \subseteq m.members
      PROVE  ListsBoth(n, m)
  BY <1>a DEF ListsBoth, ListsItself, CoordKept
<1>b. ASSUME n \in m.members, m.coord # NoNode => m.coord \in m.members
      PROVE  ListsBoth(n, m)
  BY <1>b DEF ListsBoth, ListsItself, CoordKept
<1>1. ASSUME NEW h \in OptName, m = Create(mem[n], n, commands, h)
      PROVE  ListsBoth(n, m)
  BY <1>0, <1>1, <1>b, CreateMembers
<1>2. ASSUME NEW token \in Token, m = GenerateInvite(mem[n], token, 1, 0)
      PROVE  ListsBoth(n, m)
  BY <1>0, <1>2, <1>a DEF GenerateInvite, MembershipType
<1>3. CASE m = Leave(mem[n])
  BY <1>3 DEF Leave, Default, ListsBoth, ListsItself, CoordKept
<1>4. ASSUME NEW p \in Node \ {n}, NEW t \in tasks \ tasks',
             t.node = n, t.pc \in {"kick", "remove"}, t.peer = p,
             m = RemoveMember(mem[n], p)
      PROVE  ListsBoth(n, m)
  <2>1. m.coord = mem[n].coord /\ m.members = mem[n].members \ {p}
    BY <1>0, <1>4 DEF RemoveMember, MembershipType
  <2>2. ListsItself(n, m)
    BY <2>1 DEF ListsItself
  <2>3. CASE m.coord = p
    BY <1>4, <2>2, <2>3 DEF ListsBoth
  <2>4. CASE m.coord # p
    BY <2>1, <2>2, <2>4 DEF ListsBoth, CoordKept
  <2> QED
    BY <2>3, <2>4
<1>5. ASSUME NEW c \in Node, NEW h \in Name, NEW force \in BOOLEAN,
             m = ClaimHostname(mem[n], c, h, force)
      PROVE  ListsBoth(n, m)
  BY <1>0, <1>5, <1>a, ClaimMembers
<1>6. ASSUME NEW c \in Node, NEW r \in Roster, m = SetJoined(mem[n], n, c, r)
      PROVE  ListsBoth(n, m)
  BY <1>0, <1>6, <1>b, JoinedMembers
<1>7. ASSUME NEW r \in Roster, m = SetRoster(mem[n], n, r)
      PROVE  ListsBoth(n, m)
  BY <1>0, <1>7, <1>b, RosterMembers DEF SetRoster
<1>8. ASSUME NEW token \in Token, NEW p \in Node,
             m = RedeemInvite(mem[n], token, p, 0)
      PROVE  ListsBoth(n, m)
  BY <1>0, <1>8, <1>a, RedeemMembers
<1>9. ASSUME NEW token \in Token, NEW p \in Node, NEW h \in Name,
             m = ClaimHostname(RedeemInvite(mem[n], token, p, 0), p, h, FALSE)
      PROVE  ListsBoth(n, m)
  <2> DEFINE in == RedeemInvite(mem[n], token, p, 0)
  <2>1. in \in MembershipType
    BY <1>0, RedeemInviteType
  <2>2. mem[n].members \subseteq in.members /\ in.coord = mem[n].coord
    BY <1>0, RedeemMembers
  <2>3. m = ClaimHostname(in, p, h, FALSE)
    BY <1>9
  <2> HIDE DEF in
  <2>4. m.members = in.members /\ m.coord = in.coord
    BY <2>1, <2>3, ClaimMembers
  <2> QED
    BY <1>a, <2>2, <2>4
<1>10. ASSUME \E p \in Node \ {n}, t \in tasks \ tasks' :
                /\ t.node = n /\ t.pc \in {"kick", "remove"} /\ t.peer = p
                /\ m = RemoveMember(mem[n], p)
       PROVE  ListsBoth(n, m)
  BY <1>4, <1>10
<1>11. CASE \E h \in OptName :
              /\ h # NoName => OwnName(h, n)
              /\ m = Create(mem[n], n, commands, h)
  BY <1>11, <1>1
<1>12. CASE \E token \in Token : m = GenerateInvite(mem[n], token, 1, 0)
  BY <1>12, <1>2
<1>15. CASE \E c \in Node, h \in Name, force \in BOOLEAN :
       /\ force => c = n
       /\ OwnName(h, c)
       /\ m = ClaimHostname(mem[n], c, h, force)
  BY <1>15, <1>5
<1>16. CASE \E c \in Node, r \in Roster :
       JoinEnds(n) /\ InAnswer(r) /\ m = SetJoined(mem[n], n, c, r)
  BY <1>16, <1>6
<1>17. CASE \E r \in Roster : InPush(r) /\ m = SetRoster(mem[n], n, r)
  BY <1>17, <1>7
<1>18. CASE \E token \in Token, p \in Node : m = RedeemInvite(mem[n], token, p, 0)
  BY <1>18, <1>8
<1>19. CASE \E token \in Token, p \in Node, h \in Name :
       /\ OwnName(h, p)
       /\ m = ClaimHostname(RedeemInvite(mem[n], token, p, 0), p, h, FALSE)
  BY <1>19, <1>9
<1> QED
  BY <1>3, <1>10, <1>11, <1>12, <1>15, <1>16, <1>17, <1>18, <1>19 DEF MemChange

LEMMA SelfInInit == Init => SelfIn
BY DEF Init, SelfIn, ListsItself, Default

LEMMA StepIsMemStep ==
  ASSUME ControlInv, [Next]_vars
  PROVE  MemStep
<1>1. CASE Next
  BY <1>1, EveryMemStep DEF ControlInv
<1>2. CASE UNCHANGED vars
  BY <1>2 DEF vars, MemStep
<1> QED
  BY <1>1, <1>2

\* One step, for every node.
LEMMA StepLists ==
  ASSUME ControlInv, SelfIn, [Next]_vars, NEW n \in Node
  PROVE  \/ mem'[n] = mem[n]
         \/ ListsBoth(n, mem'[n])
<1>0. TypeOK /\ Underway
  BY DEF ControlInv
<1>1. CASE UNCHANGED mem
  BY <1>1
<1>2. ASSUME NEW k \in Node, NEW m, Set(k, m), MemChange(k, m)
      PROVE  mem'[n] = mem[n] \/ ListsBoth(n, mem'[n])
  <2>1. CASE k = n
    <3>1. mem'[n] = m
      BY <1>0, <1>2, <2>1 DEF Set, TypeOK
    <3>2. ListsBoth(n, m)
      BY <1>0, <1>2, <2>1, ChangeLists DEF SelfIn
    <3> QED
      BY <3>1, <3>2
  <2>2. CASE k # n
    BY <1>0, <1>2, <2>2 DEF Set, TypeOK
  <2> QED
    BY <2>1, <2>2
<1> QED
  BY <1>1, <1>2, StepIsMemStep DEF MemStep

LEMMA SelfInStep == ControlInv /\ SelfIn /\ [Next]_vars => SelfIn'
<1> SUFFICES ASSUME ControlInv, SelfIn, [Next]_vars, NEW n \in Node
             PROVE  ListsItself(n, mem'[n])
  BY DEF SelfIn
<1>1. mem'[n] = mem[n] \/ ListsBoth(n, mem'[n])
  BY StepLists
<1> QED
  <2>1. CASE mem'[n] = mem[n]
    BY <2>1 DEF SelfIn
  <2>2. CASE ListsBoth(n, mem'[n])
    BY <2>2 DEF ListsBoth
  <2> QED
    BY <1>1, <2>1, <2>2

\* The formula SelfListed holds of every step.
ListedAfter ==
  \A n \in Node :
    LET c == mem'[n].coord
    IN  c # NoNode =>
          /\ n \in mem'[n].members
          /\ \/ c \in mem'[n].members
             \/ mem[n].coord = c /\ c \notin mem[n].members
             \/ \E t \in tasks \ tasks' :
                  t.node = n /\ t.pc \in {"kick", "remove"} /\ t.peer = c

LEMMA ListedStep == ControlInv /\ SelfIn /\ [Next]_vars => ListedAfter
<1> SUFFICES ASSUME ControlInv, SelfIn, [Next]_vars, NEW n \in Node,
                    mem'[n].coord # NoNode
             PROVE  /\ n \in mem'[n].members
                    /\ \/ mem'[n].coord \in mem'[n].members
                       \/ /\ mem[n].coord = mem'[n].coord
                          /\ mem'[n].coord \notin mem[n].members
                       \/ \E t \in tasks \ tasks' :
                            /\ t.node = n /\ t.pc \in {"kick", "remove"}
                            /\ t.peer = mem'[n].coord
  BY DEF ListedAfter
<1>1. mem'[n] = mem[n] \/ ListsBoth(n, mem'[n])
  BY StepLists
<1>2. CASE mem'[n] = mem[n]
  BY <1>2 DEF SelfIn, ListsItself
<1>3. CASE ListsBoth(n, mem'[n])
  BY <1>3 DEF ListsBoth, ListsItself, CoordKept
<1> QED
  BY <1>1, <1>2, <1>3

\* A node in a network lists itself after every step, and its coordinator too,
\* unless a kick or a leave admitted for its own earlier network removes it
\* (membership.rs, apply_roster; ipc.rs, kick; admin.rs, leave).
THEOREM ListsItselfAlways == Spec => SelfListed
<1>1. Spec => []SelfIn
  BY Invariance, SelfInInit, SelfInStep, PTL DEF Spec
<1> QED
  BY <1>1, Invariance, ListedStep, PTL DEF Spec, SelfListed, ListedAfter

-----------------------------------------------------------------------------
(* Names belong to whoever is listed under them *)

\* The last resort of names.rs (the name, a hyphen and the claimant's fallback)
\* is granted unseen, after MAX_SUFFIX numbered names were found taken.  The
\* theorems below hold of every behaviour in which no claim is ever driven to a
\* last resort that another node owns.
NamesLeft == \A n, c \in Node, h \in Name : NameLeft(mem[n], c, h)

AllOwned == \A n \in Node : Owned(mem[n])

LEMMA ChangeOwned ==
  ASSUME TypeOK, NEW n \in Node, NEW m, MemChange(n, m), Owned(mem[n]),
         NamesLeft
  PROVE  Owned(m)
<1>0. mem[n] \in MembershipType /\ commands \in Nat
  BY CommandAssumption DEF TypeOK
<1>1. CASE \E h \in OptName : m = Create(mem[n], n, commands, h)
  BY <1>0, <1>1, CreateOwned
<1>2. CASE \E token \in Token : m = GenerateInvite(mem[n], token, 1, 0)
  BY <1>0, <1>2, InviteOwned
<1>3. CASE m = Leave(mem[n])
  BY <1>3, DefaultOwned DEF Leave
<1>4. CASE \E p \in Node : m = RemoveMember(mem[n], p)
  BY <1>0, <1>4, RemoveOwned
<1>5. CASE \E c \in Node, h \in Name, force \in BOOLEAN :
             m = ClaimHostname(mem[n], c, h, force)
  BY <1>0, <1>5, ClaimOwned DEF NamesLeft
<1>6. CASE \E c \in Node, r \in Roster : m = SetJoined(mem[n], n, c, r)
  BY <1>0, <1>6, JoinedOwned
<1>7. CASE \E r \in Roster : m = SetRoster(mem[n], n, r)
  BY <1>0, <1>7, RosterOwned DEF SetRoster
<1>8. CASE \E token \in Token, p \in Node : m = RedeemInvite(mem[n], token, p, 0)
  BY <1>0, <1>8, InviteOwned
<1>9. ASSUME NEW token \in Token, NEW p \in Node, NEW h \in Name,
             m = ClaimHostname(RedeemInvite(mem[n], token, p, 0), p, h, FALSE)
      PROVE  Owned(m)
  <2> DEFINE in == RedeemInvite(mem[n], token, p, 0)
  <2>1. in \in MembershipType /\ Owned(in) /\ NameLeft(in, p, h)
    BY <1>0, RedeemInviteType, InviteOwned, RedeemLeaves DEF NamesLeft
  <2>2. m = ClaimHostname(in, p, h, FALSE)
    BY <1>9
  <2> HIDE DEF in
  <2> QED
    BY <2>1, <2>2, ClaimOwned
<1>10. CASE \E token \in Token, p \in Node, h \in Name :
              m = ClaimHostname(RedeemInvite(mem[n], token, p, 0), p, h, FALSE)
  BY <1>9, <1>10
<1> QED
  BY <1>1, <1>2, <1>3, <1>4, <1>5, <1>6, <1>7, <1>8, <1>10 DEF MemChange

LEMMA OwnedInit == Init => AllOwned
BY DefaultOwned DEF Init, AllOwned

LEMMA OwnedStep ==
  ControlInv /\ NamesLeft /\ AllOwned /\ [Next]_vars => AllOwned'
<1> SUFFICES ASSUME ControlInv, NamesLeft, AllOwned, [Next]_vars,
                    NEW n \in Node
             PROVE  Owned(mem'[n])
  BY DEF AllOwned
<1>0. TypeOK /\ MemStep
  BY StepIsMemStep DEF ControlInv
<1>1. CASE UNCHANGED mem
  BY <1>1 DEF AllOwned
<1>2. ASSUME NEW k \in Node, NEW m, Set(k, m), MemChange(k, m)
      PROVE  Owned(mem'[n])
  <2>1. CASE k = n
    <3>1. mem'[n] = m
      BY <1>0, <1>2, <2>1 DEF Set, TypeOK
    <3>2. Owned(m)
      BY <1>0, <1>2, <2>1, ChangeOwned DEF AllOwned
    <3> QED
      BY <3>1, <3>2
  <2>2. CASE k # n
    BY <1>0, <1>2, <2>2 DEF Set, TypeOK, AllOwned
  <2> QED
    BY <2>1, <2>2
<1> QED
  BY <1>0, <1>1, <1>2 DEF MemStep

LEMMA OwnedAlways == Spec /\ []NamesLeft => []AllOwned
BY Invariance, OwnedInit, OwnedStep, PTL DEF Spec

\* Whatever rosters, claims and forced renames reach a node in whatever order,
\* it lists nobody under a name bound to somebody else, so never two members
\* under one hostname (membership.rs, apply_roster and claim_hostname), as long
\* as no claim runs out of names.
THEOREM NamesStayOwned == Spec /\ []NamesLeft => []NamesOwned
<1>1. ControlInv /\ AllOwned => NamesOwned
  <2> SUFFICES ASSUME TypeOK, AllOwned, NEW n \in Node,
                      NEW i \in mem[n].members, mem[n].host[i] # NoName
               PROVE  mem[n].bind[mem[n].host[i]] = i
    BY DEF ControlInv, NamesOwned
  <2>1. i \in Node
    BY DEF TypeOK, MembershipType
  <2> QED
    BY <2>1 DEF AllOwned, Owned
<1> QED
  BY <1>1, Invariance, OwnedAlways, PTL

-----------------------------------------------------------------------------
(* A name does not move to a third party *)

\* What a change of node n's membership to m leaves of the bindings.
Sticks(n, m) ==
  \A h \in Name :
    mem[n].bind[h] # NoNode =>
      \/ m.bind[h] \in {mem[n].bind[h], n}
      \/ m.bind[h] = NoNode /\ m.coord = NoNode
      \/ JoinEnds(n)

LEMMA ChangeSticks ==
  ASSUME TypeOK, NEW n \in Node, NEW m, MemChange(n, m), NamesLeft,
         DistinctFallbacks
  PROVE  Sticks(n, m)
<1>0. mem[n] \in MembershipType /\ commands \in Nat
  BY CommandAssumption DEF TypeOK
<1>a. ASSUME \A h \in Name : mem[n].bind[h] # NoNode =>
                              m.bind[h] \in {mem[n].bind[h], n}
      PROVE  Sticks(n, m)
  BY <1>a DEF Sticks
<1>1. CASE \E h \in OptName : m = Create(mem[n], n, commands, h)
  <2>1. PICK h \in OptName : m = Create(mem[n], n, commands, h)
    BY <1>1
  <2>2. m.bind = mem[n].bind \/ (h \in Name /\ m.bind = [mem[n].bind EXCEPT ![h] = n])
    BY <1>0, <2>1 DEF Create, Bind, MembershipType, OptName
  <2>3. \A g \in Name : m.bind[g] \in {mem[n].bind[g], n}
    BY <1>0, <2>2 DEF MembershipType
  <2> QED
    BY <1>a, <2>3
<1>2. CASE \E token \in Token : m = GenerateInvite(mem[n], token, 1, 0)
  <2>1. m.bind = mem[n].bind
    BY <1>0, <1>2 DEF GenerateInvite, MembershipType
  <2> QED
    BY <1>a, <2>1
<1>3. CASE m = Leave(mem[n])
  BY <1>3 DEF Leave, Default, Sticks
<1>4. CASE \E p \in Node : m = RemoveMember(mem[n], p)
  <2>1. m.bind = mem[n].bind
    BY <1>0, <1>4 DEF RemoveMember, MembershipType
  <2> QED
    BY <1>a, <2>1
<1>5. ASSUME NEW c \in Node, NEW h \in Name, NEW force \in BOOLEAN,
             force => c = n, OwnName(h, c),
             m = ClaimHostname(mem[n], c, h, force)
      PROVE  Sticks(n, m)
  <2>1. CASE ~ force
    <3>1. m = ClaimHostname(mem[n], c, h, FALSE)
      BY <1>5, <2>1
    <3>2. \A g \in Name : mem[n].bind[g] # NoNode => m.bind[g] = mem[n].bind[g]
      BY <1>0, <3>1, ClaimSticks DEF NamesLeft
    <3> QED
      BY <1>a, <3>2
  <2>2. CASE force
    <3>1. \A i \in Node : Fallback[i] = h => i = n
      BY <1>5, <2>2, FallbackAssumption DEF OwnName, DistinctFallbacks
    <3>2. m = ClaimHostname(mem[n], n, h, TRUE)
      BY <1>5, <2>2
    <3>3. m.bind = [mem[n].bind EXCEPT ![h] = n]
      BY <1>0, <3>1, <3>2, ForcedClaim
    <3>4. \A g \in Name : m.bind[g] \in {mem[n].bind[g], n}
      BY <1>0, <3>3 DEF MembershipType
    <3> QED
      BY <1>a, <3>4
  <2> QED
    BY <2>1, <2>2
<1>6. CASE JoinEnds(n)
  BY <1>6 DEF Sticks
<1>7. CASE \E r \in Roster : m = SetRoster(mem[n], n, r)
  <2>1. \A g \in Name : mem[n].bind[g] # NoNode => m.bind[g] = mem[n].bind[g]
    BY <1>0, <1>7, RosterSticks DEF SetRoster
  <2> QED
    BY <1>a, <2>1
<1>8. CASE \E token \in Token, p \in Node : m = RedeemInvite(mem[n], token, p, 0)
  <2>1. m.bind = mem[n].bind
    BY <1>0, <1>8, RedeemBind
  <2> QED
    BY <1>a, <2>1
<1>9. ASSUME NEW token \in Token, NEW p \in Node, NEW h \in Name,
             m = ClaimHostname(RedeemInvite(mem[n], token, p, 0), p, h, FALSE)
      PROVE  Sticks(n, m)
  <2> DEFINE in == RedeemInvite(mem[n], token, p, 0)
  <2>1. in \in MembershipType /\ in.bind = mem[n].bind /\ NameLeft(in, p, h)
    BY <1>0, RedeemInviteType, RedeemBind, RedeemLeaves DEF NamesLeft
  <2>2. m = ClaimHostname(in, p, h, FALSE)
    BY <1>9
  <2> HIDE DEF in
  <2>3. \A g \in Name : in.bind[g] # NoNode => m.bind[g] = in.bind[g]
    BY <2>1, <2>2, ClaimSticks
  <2> QED
    BY <1>a, <2>1, <2>3
<1>10. CASE \E token \in Token, p \in Node, h \in Name :
              m = ClaimHostname(RedeemInvite(mem[n], token, p, 0), p, h, FALSE)
  BY <1>9, <1>10
<1>11. CASE \E c \in Node, h \in Name, force \in BOOLEAN :
              /\ force => c = n
              /\ OwnName(h, c)
              /\ m = ClaimHostname(mem[n], c, h, force)
  BY <1>5, <1>11
<1> QED
  BY <1>1, <1>2, <1>3, <1>4, <1>6, <1>7, <1>8, <1>10, <1>11 DEF MemChange

LEMMA StepSticks ==
  ASSUME ControlInv, NamesLeft, DistinctFallbacks, [Next]_vars, NEW n \in Node
  PROVE  mem'[n] = mem[n] \/ Sticks(n, mem'[n])
<1>0. TypeOK /\ MemStep
  BY StepIsMemStep DEF ControlInv
<1>1. CASE UNCHANGED mem
  BY <1>1
<1>2. ASSUME NEW k \in Node, NEW m, Set(k, m), MemChange(k, m)
      PROVE  mem'[n] = mem[n] \/ Sticks(n, mem'[n])
  <2>1. CASE k = n
    <3>1. mem'[n] = m
      BY <1>0, <1>2, <2>1 DEF Set, TypeOK
    <3>2. Sticks(n, m)
      BY <1>0, <1>2, <2>1, ChangeSticks
    <3> QED
      BY <3>1, <3>2
  <2>2. CASE k # n
    BY <1>0, <1>2, <2>2 DEF Set, TypeOK
  <2> QED
    BY <2>1, <2>2
<1> QED
  BY <1>0, <1>1, <1>2 DEF MemStep

\* The formula BindingsStick holds of every step.
StickAfter ==
  \A n \in Node, h \in Name :
    LET old == mem[n].bind[h]
        new == mem'[n].bind[h]
    IN  old # NoNode =>
          \/ new \in {old, n}
          \/ new = NoNode /\ mem'[n].coord = NoNode
          \/ JoinEnds(n)

LEMMA StickStep ==
  DistinctFallbacks => (ControlInv /\ NamesLeft /\ [Next]_vars => StickAfter)
<1> SUFFICES ASSUME DistinctFallbacks, ControlInv, NamesLeft, [Next]_vars,
                    NEW n \in Node, NEW h \in Name, mem[n].bind[h] # NoNode
             PROVE  \/ mem'[n].bind[h] \in {mem[n].bind[h], n}
                    \/ mem'[n].bind[h] = NoNode /\ mem'[n].coord = NoNode
                    \/ JoinEnds(n)
  BY DEF StickAfter
<1>1. mem'[n] = mem[n] \/ Sticks(n, mem'[n])
  BY StepSticks
<1>2. CASE mem'[n] = mem[n]
  BY <1>2
<1>3. CASE Sticks(n, mem'[n])
  BY <1>3 DEF Sticks
<1> QED
  BY <1>1, <1>2, <1>3

\* A name a node has seen bound to a key never moves to a third party
\* (membership.rs, bindings), as long as no claim runs out of names and no two
\* ids share a fallback: a node that forces a name which is its own fallback and
\* another member's takes it away and is then granted a numbered one.
THEOREM BindingsAlwaysStick ==
  ASSUME DistinctFallbacks
  PROVE  Spec /\ []NamesLeft => BindingsStick
<1>1. ControlInv /\ NamesLeft /\ [Next]_vars => StickAfter
  BY StickStep
<1> QED
  BY <1>1, Invariance, PTL DEF Spec, BindingsStick, StickAfter

-----------------------------------------------------------------------------
(* A joiner is listed under the name it was told *)

\* A roster that admits a joiner under a name lists it so, and nobody else.
NamesJoiner(msg) ==
  msg.op = "Joined" /\ msg.name # NoName =>
    /\ msg.to \in msg.roster.members
    /\ msg.roster.host[msg.to] = msg.name
    /\ \A i \in msg.roster.members : msg.roster.host[i] = msg.name => i = msg.to

JoinersNamed == \A msg \in net : NamesJoiner(msg)

\* The answer to a join that was just admitted.
JoinedBy(t, msg) ==
  /\ Redeemable(mem[t.node], t.token, 0)
  /\ msg.to = t.peer
  /\ msg.roster = RosterOf(Admit(mem[t.node], t))
  /\ msg.name = JoinerName(RedeemInvite(mem[t.node], t.token, t.peer, 0),
                           t.peer, t.name)

LEMMA AdmitNames ==
  ASSUME TypeOK, AllOwned, NamesLeft, NEW t \in tasks, t.pc = "redeem",
         NEW msg, JoinedBy(t, msg)
  PROVE  NamesJoiner(msg)
<1> DEFINE in == RedeemInvite(mem[t.node], t.token, t.peer, 0)
<1> DEFINE wanted == Validate(t.name, t.peer)
<1> DEFINE after == Admit(mem[t.node], t)
<1> SUFFICES ASSUME msg.name # NoName
             PROVE  /\ t.peer \in after.members
                    /\ after.host[t.peer] = msg.name
                    /\ \A i \in after.members :
                         after.host[i] = msg.name => i = t.peer
  BY DEF NamesJoiner, JoinedBy, RosterOf
<1>1. /\ t.node \in Node /\ t.peer \in Node /\ t.token \in Token
      /\ t.name \in Optional
  BY TaskFields DEF TypeOK
<1>2. mem[t.node] \in MembershipType /\ Owned(mem[t.node])
  BY <1>1 DEF TypeOK, AllOwned
<1>3. t.name # NoName /\ wanted # NoName
      /\ msg.name = Assigned(in, t.peer, wanted, FALSE)
  BY DEF JoinedBy, JoinerName
<1>4. after = ClaimHostname(in, t.peer, wanted, FALSE)
  BY DEF JoinedBy, Admit
<1>5. wanted \in Name
  BY <1>1, <1>3, ValidateLawful DEF Optional
<1>6. in \in MembershipType /\ Owned(in) /\ NameLeft(in, t.peer, wanted)
  BY <1>1, <1>2, <1>5, RedeemInviteType, InviteOwned, RedeemLeaves DEF NamesLeft
<1>7. t.peer \in in.members
  BY <1>2 DEF JoinedBy, Redeemable, RedeemInvite, MembershipType
<1>8. Owned(after) /\ after \in MembershipType
  BY <1>1, <1>4, <1>5, <1>6, ClaimOwned, ClaimHostnameType
<1>9. msg.name \in Name
  BY <1>1, <1>3, <1>5, <1>6, AssignedType
<1>10. after = Bind(in, t.peer, msg.name)
  BY <1>3, <1>4 DEF ClaimHostname
<1> HIDE DEF in, wanted, after
<1>11. /\ after.members = in.members
       /\ after.host[t.peer] = msg.name
       /\ after.bind[msg.name] = t.peer
  BY <1>1, <1>6, <1>7, <1>9, <1>10 DEF Bind, MembershipType
<1>12. after.members \subseteq Node
  BY <1>8 DEF MembershipType
<1> QED
  BY <1>7, <1>8, <1>11, <1>12 DEF Owned

\* Only an admission sends one.
LEMMA NewJoined ==
  ASSUME TypeOK, Underway, Next, NEW msg \in net' \ net, msg.op = "Joined"
  PROVE  \E t \in tasks : t.pc = "redeem" /\ JoinedBy(t, msg)
<1>1. ASSUME NEW n \in Node, UserCommand(n)
      PROVE  FALSE
  <2>1. \A t : JoinRequest(t).op = "Join"
    BY DEF JoinRequest
  <2>2. ASSUME NEW token, NEW s, JoinCommand(n, token, s)
        PROVE  FALSE
    BY <2>1, <2>2 DEF JoinCommand
  <2>3. CASE LeaveCommand(n)
    BY <2>3 DEF LeaveCommand
  <2>4. ASSUME NEW s, NEW force, HostnameCommand(n, s, force)
        PROVE  FALSE
    BY <2>4 DEF HostnameCommand
  <2>5. net' # net
    OBVIOUS
  <2> QED
    BY <1>1, <2>2, <2>3, <2>4, <2>5
    DEF UserCommand, CreateNetwork, InviteCommand, KickCommand, LinkUp, Restart
<1>2. ASSUME NEW m \in net, Deliver(m)
      PROVE  FALSE
  BY <1>2 DEF Deliver, RecvJoin, RecvSetHostname, RecvLeave, RecvRoster,
              RecvKicked, Receive, Answer
<1>3. ASSUME NEW t \in tasks, TaskStep(t)
      PROVE  t.pc = "redeem" /\ JoinedBy(t, msg)
  <2>1. CASE Redeem(t)
    <3>1. \A n, subject, r : \A b \in Broadcast(n, subject, r) : b.op = "Roster"
      BY DEF Broadcast
    <3> QED
      BY <2>1, <3>1 DEF Redeem, Answer, JoinedBy
  <2>2. CASE Publish(t)
    <3>1. \A n, subject, r : \A b \in Broadcast(n, subject, r) : b.op = "Roster"
      BY DEF Broadcast
    <3>2. \A b \in t.along : b.op # "Joined"
      BY <2>2 DEF Publish, Underway, GoodTask
    <3> QED
      BY <2>2, <3>1, <3>2 DEF Publish
  <2>3. CASE JoinUnanswered(t) \/ CatchUp(t)
    BY <2>3 DEF JoinUnanswered, CatchUp, JoinRequest
  <2>4. CASE net' \subseteq net
    BY <2>4
  <2>5. \/ Redeem(t) \/ Publish(t) \/ JoinUnanswered(t) \/ CatchUp(t)
        \/ net' \subseteq net
    BY <1>3 DEF TaskStep, Mint, JoinAnswered, NamingAnswered, NamingUnanswered,
                DoLeave, DoKick, DoRename, DoClaim, DoRemove, DoApply, DoObey
  <2> QED
    BY <2>1, <2>2, <2>3, <2>4, <2>5
<1> QED
  BY <1>1, <1>2, <1>3 DEF Next

LEMMA JoinersInit == Init => JoinersNamed
BY DEF Init, JoinersNamed

LEMMA JoinersStep ==
  ControlInv /\ NamesLeft /\ AllOwned /\ JoinersNamed /\ [Next]_vars
    => JoinersNamed'
<1> SUFFICES ASSUME TypeOK, Underway, NamesLeft, AllOwned, JoinersNamed,
                    [Next]_vars, NEW msg \in net'
             PROVE  NamesJoiner(msg)
  BY DEF ControlInv, JoinersNamed
<1>1. CASE msg \in net
  BY <1>1 DEF JoinersNamed
<1>2. CASE msg \notin net /\ msg.op = "Joined"
  <2>1. Next
    BY <1>2 DEF vars
  <2>2. PICK t \in tasks : t.pc = "redeem" /\ JoinedBy(t, msg)
    BY <1>2, <2>1, NewJoined
  <2> QED
    BY <2>2, AdmitNames
<1>3. CASE msg.op # "Joined"
  BY <1>3 DEF NamesJoiner
<1> QED
  BY <1>1, <1>2, <1>3

\* Only the joiner takes such an answer, and with it ends its join.
LEMMA JoinedTaken ==
  ASSUME TypeOK, Next, NEW msg \in net \ net', msg.op = "Joined"
  PROVE  \E t \in tasks : JoinAnswered(t, msg)
<1>1. ASSUME NEW n \in Node, UserCommand(n)
      PROVE  FALSE
  BY <1>1 DEF UserCommand, CreateNetwork, InviteCommand, JoinCommand,
              LeaveCommand, KickCommand, HostnameCommand, LinkUp, Restart
<1>2. ASSUME NEW m \in net, Deliver(m)
      PROVE  FALSE
  BY <1>2 DEF Deliver, RecvJoin, RecvSetHostname, RecvLeave, RecvRoster,
              RecvKicked, Receive
<1>3. ASSUME NEW t \in tasks, TaskStep(t)
      PROVE  JoinAnswered(t, msg)
  <2>1. ASSUME NEW m \in net, JoinAnswered(t, m)
        PROVE  JoinAnswered(t, msg)
    <3>1. msg = m
      BY <2>1 DEF JoinAnswered
    <3> QED
      BY <2>1, <3>1
  <2>2. ASSUME NEW m \in net, NamingAnswered(t, m)
        PROVE  FALSE
    BY <2>2 DEF NamingAnswered
  <2>3. CASE net \subseteq net'
    BY <2>3
  <2>4. \/ \E m \in net : JoinAnswered(t, m) \/ NamingAnswered(t, m)
        \/ net \subseteq net'
    BY <1>3 DEF TaskStep, Mint, JoinUnanswered, NamingUnanswered, DoLeave, DoKick,
                DoRename, Publish, CatchUp, Redeem, DoClaim, DoRemove, DoApply,
                DoObey
  <2> QED
    BY <2>1, <2>2, <2>3, <2>4
<1> QED
  BY <1>1, <1>2, <1>3 DEF Next

\* The formula JoinerHasItsName holds of every step.
NamedAfter ==
  \A t \in tasks \ tasks', msg \in net \ net' :
    t.pc = "joining" /\ msg.op = "Joined" /\ msg.name # NoName
      => mem'[t.node].host[t.node] = msg.name

LEMMA NamedStep ==
  ControlInv /\ JoinersNamed /\ [Next]_vars => NamedAfter
<1> SUFFICES ASSUME TypeOK, JoinersNamed, [Next]_vars,
                    NEW t \in tasks \ tasks', NEW msg \in net \ net',
                    msg.op = "Joined", msg.name # NoName
             PROVE  mem'[t.node].host[t.node] = msg.name
  BY DEF ControlInv, NamedAfter
<1>1. Next
  BY DEF vars
<1>2. PICK u \in tasks : JoinAnswered(u, msg)
  BY <1>1, JoinedTaken
<1>3. t = u
  BY <1>2 DEF JoinAnswered, Finish
<1>4. /\ t.node \in Node /\ t.peer \in Node
      /\ msg.roster \in Roster /\ msg.name \in Name /\ msg.to = t.node
  BY <1>2, <1>3, TaskFields, MessageFields DEF TypeOK, JoinAnswered, OptName
<1>5. mem'[t.node] = SetJoined(mem[t.node], t.node, t.peer, msg.roster)
  BY <1>2, <1>3, <1>4 DEF JoinAnswered, Set, TypeOK
<1>6. NamesJoiner(msg)
  BY DEF JoinersNamed
<1> QED
  BY <1>4, <1>5, <1>6, JoinedNamed DEF NamesJoiner, TypeOK

\* Whatever network a node was in and whatever names that one had, a node that
\* joins under a name it was told is listed under it on its own side (ipc.rs,
\* Join, against membership.rs, set_joined), as long as no claim runs out of
\* names.
THEOREM JoinersGetTheirNames == Spec /\ []NamesLeft => JoinerHasItsName
<1>1. Spec /\ []NamesLeft => []JoinersNamed
  BY Invariance, OwnedAlways, JoinersInit, JoinersStep, PTL DEF Spec
<1> QED
  BY <1>1, Invariance, NamedStep, PTL DEF Spec, JoinerHasItsName, NamedAfter

-----------------------------------------------------------------------------
(* As long as users type ordinary names, nobody runs out of names *)

\* Nobody is listed or bound under another node's last resort, on any node or in
\* any roster under way.
ResortsKept ==
  /\ \A n \in Node : ResortsFit(mem[n])
  /\ \A msg \in net : msg.op \in {"Joined", "Roster"} => HostsFit(msg.roster)
  /\ \A t \in tasks : t.pc = "apply" => HostsFit(t.roster)

LEMMA ChangeFits ==
  ASSUME OrdinaryNames, TypeOK, NEW n \in Node, NEW m, MemChange(n, m), ResortsKept
  PROVE  ResortsFit(m)
<1>0. mem[n] \in MembershipType /\ commands \in Nat /\ ResortsFit(mem[n])
  BY CommandAssumption DEF TypeOK, ResortsKept
<1>a. \A r : InAnswer(r) \/ InPush(r) => HostsFit(r)
  BY DEF ResortsKept, InAnswer, InPush
<1>b. \A h, i : OwnName(h, i) => ResortOf(h, i)
  BY DEF OwnName
<1>1. CASE \E h \in OptName :
             /\ h # NoName => OwnName(h, n)
             /\ m = Create(mem[n], n, commands, h)
  BY <1>0, <1>b, <1>1, CreateFits
<1>2. CASE \E token \in Token : m = GenerateInvite(mem[n], token, 1, 0)
  BY <1>0, <1>2, OthersFit
<1>3. CASE m = Leave(mem[n])
  BY <1>0, <1>3, OthersFit DEF Leave
<1>4. CASE \E p \in Node : m = RemoveMember(mem[n], p)
  BY <1>0, <1>4, OthersFit
<1>5. CASE \E c \in Node, h \in Name, force \in BOOLEAN :
             OwnName(h, c) /\ m = ClaimHostname(mem[n], c, h, force)
  BY <1>0, <1>b, <1>5, ClaimFits
<1>6. CASE \E c \in Node, r \in Roster :
             InAnswer(r) /\ m = SetJoined(mem[n], n, c, r)
  BY <1>0, <1>a, <1>6, JoinedFits
<1>7. CASE \E r \in Roster : InPush(r) /\ m = SetRoster(mem[n], n, r)
  BY <1>0, <1>a, <1>7, RosterFits DEF SetRoster
<1>8. CASE \E token \in Token, p \in Node : m = RedeemInvite(mem[n], token, p, 0)
  BY <1>0, <1>8, OthersFit
<1>9. ASSUME NEW token \in Token, NEW p \in Node, NEW h \in Name, OwnName(h, p),
             m = ClaimHostname(RedeemInvite(mem[n], token, p, 0), p, h, FALSE)
      PROVE  ResortsFit(m)
  <2> DEFINE in == RedeemInvite(mem[n], token, p, 0)
  <2>1. in \in MembershipType /\ ResortsFit(in)
    BY <1>0, RedeemInviteType, OthersFit
  <2>2. m = ClaimHostname(in, p, h, FALSE)
    BY <1>9
  <2> HIDE DEF in
  <2> QED
    BY <1>9, <1>b, <2>1, <2>2, ClaimFits
<1>10. CASE \E token \in Token, p \in Node, h \in Name :
              /\ OwnName(h, p)
              /\ m = ClaimHostname(RedeemInvite(mem[n], token, p, 0), p, h, FALSE)
  BY <1>9, <1>10
<1> QED
  BY <1>1, <1>2, <1>3, <1>4, <1>5, <1>6, <1>7, <1>8, <1>10 DEF MemChange

\* A roster is sent by the node that holds it, in the step that made it or later.
LEMMA NewRoster ==
  ASSUME TypeOK, Underway, Next, NEW msg \in net' \ net,
         msg.op \in {"Joined", "Roster"}
  PROVE  \E n \in Node : msg.roster \in {RosterOf(mem[n]), RosterOf(mem'[n])}
<1>1. ASSUME NEW n \in Node, UserCommand(n)
      PROVE  FALSE
  <2>1. \A t : JoinRequest(t).op = "Join"
    BY DEF JoinRequest
  <2>2. ASSUME NEW token, NEW s, JoinCommand(n, token, s)
        PROVE  FALSE
    BY <2>1, <2>2 DEF JoinCommand
  <2>3. CASE LeaveCommand(n)
    BY <2>3 DEF LeaveCommand
  <2>4. ASSUME NEW s, NEW force, HostnameCommand(n, s, force)
        PROVE  FALSE
    BY <2>4 DEF HostnameCommand
  <2>5. net' # net
    OBVIOUS
  <2> QED
    BY <1>1, <2>2, <2>3, <2>4, <2>5
    DEF UserCommand, CreateNetwork, InviteCommand, KickCommand, LinkUp, Restart
<1>2. ASSUME NEW m \in net, Deliver(m)
      PROVE  FALSE
  BY <1>2 DEF Deliver, RecvJoin, RecvSetHostname, RecvLeave, RecvRoster,
              RecvKicked, Receive, Answer
<1>3. ASSUME NEW t \in tasks, TaskStep(t)
      PROVE  msg.roster \in {RosterOf(mem[t.node]), RosterOf(mem'[t.node])}
  <2>0. t.node \in Node
    BY TaskFields DEF TypeOK
  <2>a. \A n, subject, r : \A b \in Broadcast(n, subject, r) : b.roster = r
    BY DEF Broadcast
  <2>1. CASE Redeem(t)
    <3>1. CASE Redeemable(mem[t.node], t.token, 0)
      <4>1. mem'[t.node] = Admit(mem[t.node], t)
        BY <2>0, <2>1, <3>1 DEF Redeem, Set, TypeOK
      <4>2. msg.roster = RosterOf(Admit(mem[t.node], t))
        BY <2>a, <2>1, <3>1 DEF Redeem, Answer
      <4> QED
        BY <4>1, <4>2
    <3>2. CASE ~ Redeemable(mem[t.node], t.token, 0)
      BY <2>1, <3>2 DEF Redeem, Answer
    <3> QED
      BY <3>1, <3>2
  <2>2. CASE Publish(t)
    <3>1. \A b \in t.along : b.op \in {"Kicked", "HostnameSet"}
      BY <2>2 DEF Publish, Underway, GoodTask
    <3> QED
      BY <2>2, <2>a, <3>1 DEF Publish
  <2>3. CASE JoinUnanswered(t) \/ CatchUp(t)
    BY <2>3 DEF JoinUnanswered, CatchUp, JoinRequest
  <2>4. CASE net' \subseteq net
    BY <2>4
  <2>5. \/ Redeem(t) \/ Publish(t) \/ JoinUnanswered(t) \/ CatchUp(t)
        \/ net' \subseteq net
    BY <1>3 DEF TaskStep, Mint, JoinAnswered, NamingAnswered, NamingUnanswered,
                DoLeave, DoKick, DoRename, DoClaim, DoRemove, DoApply, DoObey
  <2> QED
    BY <2>1, <2>2, <2>3, <2>4, <2>5
<1>4. \A t \in tasks : t.node \in Node
  BY TaskFields DEF TypeOK
<1> QED
  BY <1>1, <1>2, <1>3, <1>4 DEF Next

\* A push that is being applied was under way before.
LEMMA NewApply ==
  ASSUME TypeOK, Next, NEW u \in tasks' \ tasks, u.pc = "apply"
  PROVE  \E msg \in net : msg.op = "Roster" /\ msg.roster = u.roster
<1>a. ASSUME NEW v, Start(v) \/ \E t : Continue(t, v)
      PROVE  v.pc = "apply"
  BY <1>a DEF Start, Continue
<1>1. ASSUME NEW n \in Node, UserCommand(n)
      PROVE  FALSE
  <2>1. ASSUME NEW token, NEW s, JoinCommand(n, token, s)
        PROVE  FALSE
    <3>1. Start(Joining(n, codes[token], token, s, 1))
      BY <2>1 DEF JoinCommand
    <3> QED
      BY <1>a, <3>1 DEF Joining
  <2>2. ASSUME NEW s, NEW force, HostnameCommand(n, s, force)
        PROVE  FALSE
    <3>1. \/ Start([pc |-> "rename", node |-> n, name |-> Validate(s, n),
                   force |-> force])
          \/ Start(Naming(n, mem[n].coord, Validate(s, n)))
      BY <2>2 DEF HostnameCommand
    <3> QED
      BY <1>a, <3>1 DEF Naming
  <2>3. ASSUME NEW token, InviteCommand(n, token)
        PROVE  FALSE
    BY <1>a, <2>3 DEF InviteCommand
  <2>4. ASSUME NEW p, KickCommand(n, p) \/ LinkUp(n, p)
        PROVE  FALSE
    BY <1>a, <2>4 DEF KickCommand, LinkUp
  <2>5. CASE LeaveCommand(n)
    BY <1>a, <2>5 DEF LeaveCommand
  <2>6. CASE tasks' \subseteq tasks
    BY <2>6
  <2> QED
    BY <1>1, <2>1, <2>2, <2>3, <2>4, <2>5, <2>6
    DEF UserCommand, CreateNetwork, Restart
<1>2. ASSUME NEW msg \in net, Deliver(msg)
      PROVE  msg.op = "Roster" /\ msg.roster = u.roster
  BY <1>2 DEF Deliver, RecvJoin, RecvSetHostname, RecvLeave, RecvRoster,
              RecvKicked, Receive, Start
<1>3. ASSUME NEW t \in tasks, TaskStep(t)
      PROVE  FALSE
  <2>1. CASE JoinUnanswered(t)
    <3>1. t \in [pc : {"joining", "redeem"}, node : Node, peer : Node,
                 token : Token, name : Optional, attempt : Attempt]
      BY <2>1 DEF JoinUnanswered, TypeOK, Task
    <3>2. [t EXCEPT !.attempt = @ + 1].pc # "apply"
      BY <3>1
    <3>3. Finish(t) \/ Continue(t, [t EXCEPT !.attempt = @ + 1])
      BY <2>1 DEF JoinUnanswered
    <3> QED
      BY <1>a, <3>2, <3>3 DEF Finish
  <2>2. CASE DoKick(t)
    BY <1>a, <2>2 DEF DoKick, Finish
  <2>3. CASE DoRename(t)
    BY <1>a, <2>3 DEF DoRename
  <2>4. CASE DoClaim(t)
    BY <1>a, <2>4 DEF DoClaim
  <2>5. CASE DoRemove(t)
    BY <1>a, <2>5 DEF DoRemove, Finish
  <2>6. CASE Finish(t)
    BY <2>6 DEF Finish
  <2> QED
    BY <1>3, <2>1, <2>2, <2>3, <2>4, <2>5, <2>6 DEF TaskStep, Mint, JoinAnswered,
       NamingAnswered, NamingUnanswered, DoLeave, Publish, CatchUp, Redeem, DoApply,
       DoObey
<1> QED
  BY <1>1, <1>2, <1>3 DEF Next

LEMMA ResortsInit == Init => ResortsKept
BY DEF Init, ResortsKept, ResortsFit, HostsFit, Default

LEMMA ResortsStep ==
  OrdinaryNames => (ControlInv /\ ResortsKept /\ [Next]_vars => ResortsKept')
<1> SUFFICES ASSUME OrdinaryNames, ControlInv, ResortsKept, [Next]_vars
             PROVE  ResortsKept'
  OBVIOUS
<1>0. TypeOK /\ Underway /\ MemStep
  BY StepIsMemStep DEF ControlInv
<1>1. ASSUME NEW n \in Node
      PROVE  ResortsFit(mem[n]) /\ ResortsFit(mem'[n])
  <2>1. CASE UNCHANGED mem
    BY <2>1 DEF ResortsKept
  <2>2. ASSUME NEW k \in Node, NEW m, Set(k, m), MemChange(k, m)
        PROVE  ResortsFit(mem'[n])
    <3>1. ResortsFit(m)
      BY <1>0, <2>2, ChangeFits
    <3> QED
      BY <1>0, <2>2, <3>1 DEF Set, TypeOK, ResortsKept
  <2> QED
    BY <1>0, <2>1, <2>2 DEF MemStep, ResortsKept
<1>2. ASSUME NEW msg \in net', msg.op \in {"Joined", "Roster"}
      PROVE  HostsFit(msg.roster)
  <2>1. CASE msg \in net
    BY <1>2, <2>1 DEF ResortsKept
  <2>2. CASE msg \notin net
    <3>1. Next
      BY <1>2, <2>2 DEF vars
    <3>2. PICK n \in Node : msg.roster \in {RosterOf(mem[n]), RosterOf(mem'[n])}
      BY <1>0, <1>2, <2>2, <3>1, NewRoster
    <3> QED
      BY <1>1, <3>2 DEF RosterOf, ResortsFit, HostsFit
  <2> QED
    BY <2>1, <2>2
<1>3. ASSUME NEW u \in tasks', u.pc = "apply"
      PROVE  HostsFit(u.roster)
  <2>1. CASE u \in tasks
    BY <1>3, <2>1 DEF ResortsKept
  <2>2. CASE u \notin tasks
    <3>1. Next
      BY <1>3, <2>2 DEF vars
    <3> QED
      BY <1>0, <1>3, <2>2, <3>1, NewApply DEF ResortsKept
  <2> QED
    BY <2>1, <2>2
<1> QED
  BY <1>1, <1>2, <1>3 DEF ResortsKept

LEMMA ResortsLeft ==
  DistinctFallbacks => (ControlInv /\ ResortsKept => NamesLeft)
BY ResortsLeave DEF ControlInv, TypeOK, ResortsKept, NamesLeft

\* If users type ordinary names and no two ids share a fallback, no claim is
\* granted a last resort that somebody else owns (names.rs, dedupe, which grants
\* it without looking).
THEOREM NamesNeverRunOut ==
  ASSUME OrdinaryNames, DistinctFallbacks
  PROVE  Spec => []NamesLeft
<1>1. ControlInv /\ ResortsKept /\ [Next]_vars => ResortsKept'
  BY ResortsStep
<1>2. ControlInv /\ ResortsKept => NamesLeft
  BY ResortsLeft
<1> QED
  BY <1>1, <1>2, Invariance, ResortsInit, PTL DEF Spec

\* Then whoever is listed under a name owns it (membership.rs, apply_roster and
\* claim_hostname),
THEOREM OrdinaryNamesOwned ==
  ASSUME OrdinaryNames, DistinctFallbacks
  PROVE  Spec => []NamesOwned
BY NamesNeverRunOut, NamesStayOwned, PTL

\* no name in use moves to a third party (membership.rs, bindings),
THEOREM OrdinaryNamesStick ==
  ASSUME OrdinaryNames, DistinctFallbacks
  PROVE  Spec => BindingsStick
<1>1. Spec /\ []NamesLeft => BindingsStick
  BY BindingsAlwaysStick
<1> QED
  BY <1>1, NamesNeverRunOut, PTL

\* and a joiner is listed under the name it was told (ipc.rs, Join, against
\* membership.rs, set_joined).
THEOREM OrdinaryJoinersNamed ==
  ASSUME OrdinaryNames, DistinctFallbacks
  PROVE  Spec => JoinerHasItsName
BY NamesNeverRunOut, JoinersGetTheirNames, PTL

-----------------------------------------------------------------------------
(* Who becomes a member of a network its coordinator still runs *)

\* A task of n that is at `pc' ends.
TaskEnds(n, pc) == \E t \in tasks \ tasks' : t.node = n /\ t.pc = pc

\* The membership of n stays that of the same coordinator and network.
SameNet(n) == mem'[n].coord = mem[n].coord /\ mem'[n].net = mem[n].net

\* What a step may do to the membership of n, as far as its network, its
\* coordinator and who is new in it go.
NetChange(n) ==
  \/ SameNet(n) /\ mem'[n].members \subseteq mem[n].members
  \/ SameNet(n) /\ (TaskEnds(n, "redeem") \/ TaskEnds(n, "apply"))
  \/ mem'[n].coord = n /\ mem'[n].net = commands /\ commands' = commands + 1
  \/ mem'[n].coord # n /\ mem'[n].net = NoNet

\* Networks are numbered in the order of their making; who coordinates one has
\* made it; nobody joins itself, and nobody sends itself a roster.
NetsFit ==
  \A n \in Node :
    /\ mem[n].net # NoNet => mem[n].net < commands
    /\ mem[n].coord = n => mem[n].net # NoNet
JoinsFit == \A t \in tasks : t.pc \in {"joining", "catchup"} => t.peer # t.node
PushesFit == \A msg \in net : msg.op = "Roster" => msg.from # msg.to

AdmitInv == NetsFit /\ JoinsFit /\ PushesFit

\* The initial state satisfies all of it.
LEMMA AdmitInit == Init => AdmitInv
BY NodeAssumption DEF Init, AdmitInv, NetsFit, JoinsFit, PushesFit, Default

\* A claim changes names and nothing else.
LEMMA ClaimKeeps ==
  ASSUME NEW m \in MembershipType, NEW c \in Node, NEW h \in Name,
         NEW force \in BOOLEAN
  PROVE  LET after == ClaimHostname(m, c, h, force)
         IN  /\ after.members = m.members /\ after.coord = m.coord
             /\ after.net = m.net
<1> DEFINE r == IF force THEN Release(m, h) ELSE m
<1>1. /\ r \in MembershipType /\ r.members = m.members /\ r.coord = m.coord
      /\ r.net = m.net
  BY ReleaseType DEF Release, MembershipType
<1>2. ClaimHostname(m, c, h, force) = Bind(r, c, Assigned(m, c, h, force))
  BY DEF ClaimHostname
<1> HIDE DEF r
<1> QED
  BY <1>1, <1>2 DEF Bind, MembershipType

\* Redeeming and admitting stay in the same network.
LEMMA RedeemKeeps ==
  ASSUME NEW m \in MembershipType, NEW token \in Token, NEW p \in Node
  PROVE  LET after == RedeemInvite(m, token, p, 0)
         IN  after.coord = m.coord /\ after.net = m.net
BY DEF RedeemInvite, MembershipType

\* Creating makes a network of one's own.
LEMMA CreateNet ==
  ASSUME NEW m \in MembershipType, NEW n \in Node, NEW fresh \in Nat,
         NEW h \in OptName
  PROVE  LET after == Create(m, n, fresh, h)
         IN  after.coord = n /\ after.net = fresh
BY DEF Create, Bind, MembershipType

\* A roster changes neither network nor coordinator.
LEMMA RosterKeeps ==
  ASSUME NEW m \in MembershipType, NEW n \in Node, NEW r \in Roster
  PROVE  LET after == ApplyRoster(m, n, r)
         IN  after.coord = m.coord /\ after.net = m.net
BY DEF ApplyRoster, MembershipType

\* Joining leaves it for the coordinator's.
LEMMA JoinedNet ==
  ASSUME NEW m \in MembershipType, NEW n \in Node, NEW c \in Node, NEW r \in Roster
  PROVE  LET after == SetJoined(m, n, c, r)
         IN  after.coord = c /\ after.net = NoNet
<1> DEFINE m1 == [m EXCEPT !.coord = c, !.net = NoNet, !.invites = {},
                           !.bind = [h \in Name |-> NoNode]]
<1>1. m1 \in MembershipType /\ m1.coord = c /\ m1.net = NoNet
  BY DEF MembershipType, OptNode
<1>2. SetJoined(m, n, c, r) = ApplyRoster(m1, n, r)
  BY DEF SetJoined
<1> HIDE DEF m1
<1> QED
  BY <1>1, <1>2, RosterKeeps

\* A step that sets the membership of k says nothing of the others.
LEMMA OnlyOne ==
  ASSUME TypeOK, NEW k \in Node, NEW m, Set(k, m), NEW n \in Node,
         mem'[k] = m => NetChange(k)
  PROVE  NetChange(n)
<1>1. mem'[k] = m /\ (n # k => mem'[n] = mem[n])
  BY DEF Set, TypeOK
<1> QED
  BY <1>1 DEF NetChange, SameNet

\* A step of a user.
LEMMA CommandNets ==
  ASSUME TypeOK, NEW k \in Node, UserCommand(k), NEW n \in Node
  PROVE  NetChange(n)
<1>0. mem[k] \in MembershipType /\ commands \in Nat
  BY CommandAssumption DEF TypeOK
<1>1. ASSUME NEW s \in Optional, CreateNetwork(k, s) PROVE NetChange(n)
  <2> DEFINE h == IF s = NoName THEN NoName ELSE Validate(s, k)
  <2>1. h \in OptName
    BY ValidateType, NameAssumption DEF Optional, OptName
  <2>2. Set(k, Create(mem[k], k, commands, h)) /\ commands' = commands + 1
    BY <1>1 DEF CreateNetwork, Command
  <2> HIDE DEF h
  <2>3. mem'[k] = Create(mem[k], k, commands, h) => NetChange(k)
    BY <1>0, <2>1, <2>2, CreateNet DEF NetChange
  <2> QED
    BY <2>2, <2>3, OnlyOne
<1>2. CASE UNCHANGED mem
  BY <1>2 DEF NetChange, SameNet
<1> QED
  BY <1>1, <1>2 DEF UserCommand, InviteCommand, JoinCommand, LeaveCommand,
       KickCommand, HostnameCommand, LinkUp, Restart

\* A step of a task.
LEMMA TaskNets ==
  ASSUME TypeOK, Underway, AdmitInv, NEW t \in tasks, TaskStep(t), NEW n \in Node
  PROVE  NetChange(n)
<1> DEFINE k == t.node
<1>0. t \in Task /\ k \in Node /\ mem[k] \in MembershipType
  BY TaskFields DEF TypeOK
<1>a. ASSUME UNCHANGED mem PROVE NetChange(n)
  BY <1>a DEF NetChange, SameNet
<1>b. ASSUME NEW m, Set(k, m), m.coord = mem[k].coord, m.net = mem[k].net,
             m.members \subseteq mem[k].members
      PROVE  NetChange(n)
  BY <1>0, <1>b, OnlyOne DEF NetChange, SameNet
<1>c. ASSUME NEW m, Set(k, m), m.coord # k, m.net = NoNet
      PROVE  NetChange(n)
  BY <1>0, <1>c, OnlyOne DEF NetChange
<1>d. ASSUME NEW m, Set(k, m), m.coord = mem[k].coord, m.net = mem[k].net,
             t.pc \in {"redeem", "apply"}, Finish(t)
      PROVE  NetChange(n)
  <2>1. TaskEnds(k, "redeem") \/ TaskEnds(k, "apply")
    BY <1>d DEF Finish, TaskEnds
  <2> QED
    BY <1>0, <1>d, <2>1, OnlyOne DEF NetChange, SameNet
<1>e. ASSUME NEW c \in Node, NEW h \in Name, NEW force \in BOOLEAN,
             Set(k, ClaimHostname(mem[k], c, h, force))
      PROVE  NetChange(n)
  <2> DEFINE m == ClaimHostname(mem[k], c, h, force)
  <2>1. m.members = mem[k].members /\ m.coord = mem[k].coord /\ m.net = mem[k].net
    BY <1>0, ClaimKeeps
  <2> HIDE DEF m
  <2>2. Set(k, m)
    BY <1>e DEF m
  <2> QED
    BY <1>b, <2>1, <2>2
<1>1. CASE Mint(t)
  <2> DEFINE m == GenerateInvite(mem[k], t.token, 1, 0)
  <2>1. m.members = mem[k].members /\ m.coord = mem[k].coord /\ m.net = mem[k].net
    BY <1>0 DEF GenerateInvite, MembershipType
  <2>2. Set(k, m)
    BY <1>1 DEF Mint
  <2> HIDE DEF m
  <2> QED
    BY <1>b, <2>1, <2>2
<1>2. ASSUME NEW msg \in net, JoinAnswered(t, msg) PROVE NetChange(n)
  <2>1. CASE msg.op = "Joined"
    <3> DEFINE m == SetJoined(mem[k], k, t.peer, msg.roster)
    <3>1. t.peer \in Node /\ msg.roster \in Roster
      BY <1>0, <1>2, <2>1, TaskFields, MessageFields DEF JoinAnswered, TypeOK
    <3>2. m.coord = t.peer /\ m.net = NoNet
      BY <1>0, <3>1, JoinedNet
    <3>3. t.peer # k
      BY <1>2 DEF JoinAnswered, AdmitInv, JoinsFit
    <3>4. Set(k, m)
      BY <1>2, <2>1 DEF JoinAnswered
    <3> HIDE DEF m
    <3> QED
      BY <1>c, <3>2, <3>3, <3>4
  <2>2. CASE msg.op # "Joined"
    BY <1>2, <1>a, <2>2 DEF JoinAnswered
  <2> QED
    BY <2>1, <2>2
<1>3. ASSUME NEW msg \in net, NamingAnswered(t, msg) PROVE NetChange(n)
  <2>1. msg.name \in Name
    BY <1>3, MessageFields DEF NamingAnswered, TypeOK
  <2> QED
    BY <1>0, <1>3, <1>e, <2>1 DEF NamingAnswered, Adopt
<1>4. CASE NamingUnanswered(t)
  <2>1. t.name \in Name
    BY <1>0, <1>4, TaskFields DEF NamingUnanswered
  <2> QED
    BY <1>0, <1>4, <1>e, <2>1 DEF NamingUnanswered, Adopt
<1>5. CASE DoLeave(t) \/ DoObey(t)
  <2>1. Set(k, Default)
    BY <1>5 DEF DoLeave, DoObey, Leave
  <2>2. Default.coord # k /\ Default.net = NoNet
    BY <1>0, NodeAssumption DEF Default
  <2> QED
    BY <1>c, <2>1, <2>2
<1>6. CASE DoKick(t) \/ DoRemove(t)
  <2>1. UNCHANGED mem \/ Set(k, RemoveMember(mem[k], t.peer))
    BY <1>6 DEF DoKick, DoRemove
  <2> DEFINE m == RemoveMember(mem[k], t.peer)
  <2>2. /\ m.members \subseteq mem[k].members
        /\ m.coord = mem[k].coord /\ m.net = mem[k].net
    BY <1>0 DEF RemoveMember, MembershipType
  <2> HIDE DEF m
  <2>3. UNCHANGED mem \/ Set(k, m)
    BY <2>1 DEF m
  <2> QED
    BY <1>a, <1>b, <2>2, <2>3
<1>7. CASE DoRename(t)
  <2>1. t.name \in Name /\ t.force \in BOOLEAN
    BY <1>0, <1>7, TaskFields DEF DoRename
  <2> QED
    BY <1>0, <1>7, <1>e, <2>1 DEF DoRename
<1>8. CASE DoClaim(t)
  <2>1. t.name \in Name /\ t.peer \in Node
    BY <1>0, <1>8, TaskFields DEF DoClaim
  <2>2. Set(k, ClaimHostname(mem[k], t.peer, t.name, FALSE))
    BY <1>8 DEF DoClaim
  <2> QED
    BY <1>e, <2>1, <2>2
<1>9. CASE DoApply(t)
  <2> DEFINE m == ApplyRoster(mem[k], k, t.roster)
  <2>1. t.roster \in Roster /\ t.pc = "apply" /\ Finish(t)
    BY <1>0, <1>9, TaskFields DEF DoApply
  <2>2. m.coord = mem[k].coord /\ m.net = mem[k].net
    BY <1>0, <2>1, RosterKeeps
  <2>3. Set(k, m)
    BY <1>9 DEF DoApply, SetRoster
  <2> HIDE DEF m
  <2> QED
    BY <1>d, <2>1, <2>2, <2>3
<1>10. CASE Redeem(t)
  <2> DEFINE in == RedeemInvite(mem[k], t.token, t.peer, 0)
  <2>1. /\ t.token \in Token /\ t.peer \in Node /\ t.name \in Optional
        /\ t.pc = "redeem" /\ Finish(t)
    BY <1>0, <1>10, TaskFields DEF Redeem
  <2>2. /\ in \in MembershipType
        /\ in.coord = mem[k].coord /\ in.net = mem[k].net
    BY <1>0, <2>1, RedeemInviteType, RedeemKeeps
  <2>3. Set(k, in) \/ Set(k, Admit(mem[k], t))
    BY <1>10 DEF Redeem
  <2>4. CASE JoinerName(in, t.peer, t.name) = NoName
    <3>1. Set(k, in)
      BY <2>3, <2>4 DEF Admit
    <3> HIDE DEF in
    <3> QED
      BY <1>d, <2>1, <2>2, <3>1
  <2>5. CASE JoinerName(in, t.peer, t.name) # NoName
    <3> DEFINE h == Validate(t.name, t.peer)
    <3> DEFINE m == ClaimHostname(in, t.peer, h, FALSE)
    <3>1. t.name \in Typed /\ h # NoName
      BY <2>1, <2>5 DEF JoinerName, Optional
    <3>2. h \in Name
      BY <2>1, <3>1, ValidateType, NameAssumption DEF OptName
    <3>3. Set(k, in) \/ Set(k, m)
      BY <2>3, <2>5 DEF Admit
    <3> HIDE DEF in, h
    <3>4. m.coord = in.coord /\ m.net = in.net
      BY <2>1, <2>2, <3>2, ClaimKeeps
    <3> HIDE DEF m
    <3> QED
      BY <1>d, <2>1, <2>2, <3>3, <3>4
  <2> QED
    BY <2>4, <2>5
<1>11. CASE JoinUnanswered(t) \/ Publish(t) \/ CatchUp(t)
  BY <1>11, <1>a DEF JoinUnanswered, Publish, CatchUp
<1> QED
  BY <1>1, <1>2, <1>3, <1>4, <1>5, <1>6, <1>7, <1>8, <1>9, <1>10, <1>11
     DEF TaskStep

\* Every step.
LEMMA EveryNetStep ==
  ASSUME ControlInv, AdmitInv, [Next]_vars, NEW n \in Node
  PROVE  NetChange(n)
<1>1. ASSUME NEW msg \in net, Deliver(msg) PROVE NetChange(n)
  BY <1>1 DEF Deliver, RecvJoin, RecvSetHostname, RecvLeave, RecvRoster,
              RecvKicked, NetChange, SameNet
<1>2. CASE UNCHANGED vars
  BY <1>2 DEF vars, NetChange, SameNet
<1> QED
  BY <1>1, <1>2, CommandNets, TaskNets DEF Next, ControlInv

\* Commands are counted.
LEMMA CommandsGrow ==
  ASSUME TypeOK, [Next]_vars
  PROVE  commands \in Nat /\ commands' \in Nat /\ commands <= commands'
<1>0. commands \in Nat
  BY CommandAssumption DEF TypeOK
<1>1. ASSUME NEW n \in Node, UserCommand(n)
      PROVE  commands' = commands + 1
  BY <1>1 DEF UserCommand, CreateNetwork, InviteCommand, JoinCommand,
       LeaveCommand, KickCommand, HostnameCommand, LinkUp, Restart, Command
<1>2. ASSUME NEW t \in tasks, TaskStep(t)
      PROVE  commands' = commands
  BY <1>2 DEF TaskStep, Mint, JoinAnswered, NamingAnswered, JoinUnanswered,
       NamingUnanswered, DoLeave, DoKick, DoRename, Publish, CatchUp, Redeem,
       DoClaim, DoRemove, DoApply, DoObey
<1>3. ASSUME NEW msg \in net, Deliver(msg)
      PROVE  commands' = commands
  BY <1>3 DEF Deliver, RecvJoin, RecvSetHostname, RecvLeave, RecvRoster, RecvKicked
<1>4. ASSUME UNCHANGED vars PROVE commands' = commands
  BY <1>4 DEF vars
<1>5. commands' = commands \/ commands' = commands + 1
  BY <1>1, <1>2, <1>3, <1>4 DEF Next
<1> QED
  BY <1>0, <1>5

\* Every step keeps the numbering.
LEMMA NetsStep ==
  ASSUME ControlInv, AdmitInv, [Next]_vars
  PROVE  NetsFit'
<1>1. commands \in Nat /\ commands' \in Nat /\ commands <= commands'
  BY CommandsGrow DEF ControlInv
<1>2. ASSUME NEW n \in Node
      PROVE  /\ mem'[n].net # NoNet => mem'[n].net < commands'
             /\ mem'[n].coord = n => mem'[n].net # NoNet
  <2>0. /\ mem[n].net # NoNet => mem[n].net < commands
        /\ mem[n].coord = n => mem[n].net # NoNet
        /\ mem[n].net \in Nat \cup {NoNet}
    BY DEF AdmitInv, NetsFit, ControlInv, TypeOK, MembershipType
  <2>1. NetChange(n)
    BY EveryNetStep
  <2>2. CASE SameNet(n)
    BY <1>1, <2>0, <2>2 DEF SameNet
  <2>3. CASE /\ mem'[n].coord = n /\ mem'[n].net = commands
             /\ commands' = commands + 1
    BY <1>1, <2>3, NetAssumption
  <2>4. CASE mem'[n].coord # n /\ mem'[n].net = NoNet
    BY <2>4
  <2> QED
    BY <2>1, <2>2, <2>3, <2>4 DEF NetChange
<1> QED
  BY <1>2 DEF NetsFit

\* A join goes to another node, a catch-up too, and a push is admitted by a node
\* that is not its own coordinator.
NewTaskFits(u) ==
  /\ u.pc \in {"joining", "catchup"} => u.peer # u.node
  /\ u.pc = "apply" => ~ IsCoordinator(mem[u.node], u.node)

LEMMA NewTask ==
  ASSUME TypeOK, AdmitInv, Next, NEW u \in tasks' \ tasks
  PROVE  NewTaskFits(u)
<1>a. ASSUME NEW v, Start(v) \/ \E t : Continue(t, v), NewTaskFits(v)
      PROVE  NewTaskFits(u)
  BY <1>a DEF Start, Continue
<1>b. ASSUME NEW v, v.pc \notin {"joining", "catchup", "apply"}
      PROVE  NewTaskFits(v)
  BY <1>b DEF NewTaskFits
<1>c. ASSUME tasks' \subseteq tasks PROVE FALSE
  BY <1>c
<1>1. ASSUME NEW n \in Node, UserCommand(n)
      PROVE  NewTaskFits(u)
  <2>1. ASSUME NEW token, NEW s, JoinCommand(n, token, s)
        PROVE  NewTaskFits(u)
    <3> DEFINE v == Joining(n, codes[token], token, s, 1)
    <3>1. Start(v) /\ codes[token] # n
      BY <2>1 DEF JoinCommand
    <3>2. NewTaskFits(v)
      BY <3>1 DEF NewTaskFits, Joining
    <3> HIDE DEF v
    <3> QED
      BY <1>a, <3>1, <3>2
  <2>2. ASSUME NEW s, NEW force, HostnameCommand(n, s, force)
        PROVE  NewTaskFits(u)
    <3> DEFINE v == [pc |-> "rename", node |-> n, name |-> Validate(s, n),
                     force |-> force]
    <3> DEFINE w == Naming(n, mem[n].coord, Validate(s, n))
    <3>1. Start(v) \/ Start(w)
      BY <2>2 DEF HostnameCommand
    <3>2. NewTaskFits(v) /\ NewTaskFits(w)
      BY <1>b DEF Naming
    <3> HIDE DEF v, w
    <3> QED
      BY <1>a, <3>1, <3>2
  <2>3. ASSUME NEW token, InviteCommand(n, token)
        PROVE  NewTaskFits(u)
    BY <1>a, <1>b, <2>3 DEF InviteCommand
  <2>4. ASSUME NEW p, KickCommand(n, p)
        PROVE  NewTaskFits(u)
    BY <1>a, <1>b, <2>4 DEF KickCommand
  <2>5. ASSUME NEW p, LinkUp(n, p)
        PROVE  NewTaskFits(u)
    <3> DEFINE v == [pc |-> "catchup", node |-> n, peer |-> p]
    <3>1. Start(v) /\ p # n
      BY <2>5 DEF LinkUp
    <3>2. NewTaskFits(v)
      BY <3>1 DEF NewTaskFits
    <3> HIDE DEF v
    <3> QED
      BY <1>a, <3>1, <3>2
  <2>6. CASE LeaveCommand(n)
    BY <1>a, <1>b, <2>6 DEF LeaveCommand
  <2> QED
    BY <1>1, <1>c, <2>1, <2>2, <2>3, <2>4, <2>5, <2>6
    DEF UserCommand, CreateNetwork, Restart
<1>2. ASSUME NEW msg \in net, Deliver(msg)
      PROVE  NewTaskFits(u)
  <2>1. CASE RecvJoin(msg)
    BY <1>a, <1>b, <1>c, <2>1 DEF RecvJoin
  <2>2. CASE RecvSetHostname(msg)
    BY <1>a, <1>b, <1>c, <2>2 DEF RecvSetHostname
  <2>3. CASE RecvLeave(msg)
    BY <1>a, <1>b, <1>c, <2>3 DEF RecvLeave
  <2>4. CASE RecvRoster(msg)
    <3> DEFINE v == [pc |-> "apply", node |-> msg.to, roster |-> msg.roster]
    <3>1. msg.from # msg.to
      BY <2>4 DEF RecvRoster, AdmitInv, PushesFit
    <3>2. Start(v) /\ mem[msg.to].coord = msg.from
      BY <1>c, <2>4 DEF RecvRoster
    <3>3. NewTaskFits(v)
      BY <3>1, <3>2 DEF NewTaskFits, IsCoordinator
    <3> HIDE DEF v
    <3> QED
      BY <1>a, <3>2, <3>3
  <2>5. CASE RecvKicked(msg)
    BY <1>a, <1>b, <1>c, <2>5 DEF RecvKicked
  <2> QED
    BY <1>2, <2>1, <2>2, <2>3, <2>4, <2>5 DEF Deliver
<1>3. ASSUME NEW t \in tasks, TaskStep(t)
      PROVE  NewTaskFits(u)
  <2>1. CASE JoinUnanswered(t)
    <3> DEFINE v == [t EXCEPT !.attempt = @ + 1]
    <3>1. t \in [pc : {"joining", "redeem"}, node : Node, peer : Node,
                 token : Token, name : Optional, attempt : Attempt]
      BY <2>1 DEF JoinUnanswered, TypeOK, Task
    <3>2. v.pc = "joining" /\ v.node = t.node /\ v.peer = t.peer /\ t.peer # t.node
      BY <2>1, <3>1 DEF JoinUnanswered, AdmitInv, JoinsFit
    <3>3. Finish(t) \/ Continue(t, v)
      BY <2>1 DEF JoinUnanswered
    <3> HIDE DEF v
    <3>4. NewTaskFits(v)
      BY <3>2 DEF NewTaskFits
    <3> QED
      BY <1>a, <1>c, <3>3, <3>4 DEF Finish
  <2>2. CASE DoKick(t)
    BY <1>a, <1>b, <1>c, <2>2 DEF DoKick, Finish
  <2>3. CASE DoRename(t)
    BY <1>a, <1>b, <2>3 DEF DoRename
  <2>4. CASE DoClaim(t)
    BY <1>a, <1>b, <2>4 DEF DoClaim
  <2>5. CASE DoRemove(t)
    BY <1>a, <1>b, <1>c, <2>5 DEF DoRemove, Finish
  <2>6. CASE Finish(t)
    BY <1>c, <2>6 DEF Finish
  <2> QED
    BY <1>3, <2>1, <2>2, <2>3, <2>4, <2>5, <2>6 DEF TaskStep, Mint, JoinAnswered,
       NamingAnswered, NamingUnanswered, DoLeave, Publish, CatchUp, Redeem, DoApply,
       DoObey
<1> QED
  BY <1>1, <1>2, <1>3 DEF Next

\* A roster goes to another node than its sender.
LEMMA NewPush ==
  ASSUME TypeOK, Underway, AdmitInv, Next, NEW msg \in net' \ net,
         msg.op = "Roster"
  PROVE  msg.from # msg.to
<1>a. \A n, subject, r : \A b \in Broadcast(n, subject, r) : b.from # b.to
  BY DEF Broadcast
<1>1. ASSUME NEW n \in Node, UserCommand(n)
      PROVE  FALSE
  <2>1. \A t : JoinRequest(t).op = "Join"
    BY DEF JoinRequest
  <2>2. ASSUME NEW token, NEW s, JoinCommand(n, token, s)
        PROVE  FALSE
    BY <2>1, <2>2 DEF JoinCommand
  <2>3. CASE LeaveCommand(n)
    BY <2>3 DEF LeaveCommand
  <2>4. ASSUME NEW s, NEW force, HostnameCommand(n, s, force)
        PROVE  FALSE
    BY <2>4 DEF HostnameCommand
  <2>5. net' # net
    OBVIOUS
  <2> QED
    BY <1>1, <2>2, <2>3, <2>4, <2>5
    DEF UserCommand, CreateNetwork, InviteCommand, KickCommand, LinkUp, Restart
<1>2. ASSUME NEW m \in net, Deliver(m)
      PROVE  FALSE
  BY <1>2 DEF Deliver, RecvJoin, RecvSetHostname, RecvLeave, RecvRoster,
              RecvKicked, Receive, Answer
<1>3. ASSUME NEW t \in tasks, TaskStep(t)
      PROVE  msg.from # msg.to
  <2>1. CASE Redeem(t)
    <3>1. CASE Redeemable(mem[t.node], t.token, 0)
      BY <1>a, <2>1, <3>1 DEF Redeem, Answer
    <3>2. CASE ~ Redeemable(mem[t.node], t.token, 0)
      BY <2>1, <3>2 DEF Redeem, Answer
    <3> QED
      BY <3>1, <3>2
  <2>2. CASE Publish(t)
    <3>1. \A b \in t.along : b.op \in {"Kicked", "HostnameSet"}
      BY <2>2 DEF Publish, Underway, GoodTask
    <3> QED
      BY <1>a, <2>2, <3>1 DEF Publish
  <2>3. CASE CatchUp(t)
    BY <2>3 DEF CatchUp, AdmitInv, JoinsFit
  <2>4. CASE JoinUnanswered(t)
    BY <2>4 DEF JoinUnanswered, JoinRequest
  <2>5. CASE net' \subseteq net
    BY <2>5
  <2>6. \/ Redeem(t) \/ Publish(t) \/ JoinUnanswered(t) \/ CatchUp(t)
        \/ net' \subseteq net
    BY <1>3 DEF TaskStep, Mint, JoinAnswered, NamingAnswered, NamingUnanswered,
                DoLeave, DoKick, DoRename, DoClaim, DoRemove, DoApply, DoObey
  <2> QED
    BY <2>1, <2>2, <2>3, <2>4, <2>5, <2>6
<1> QED
  BY <1>1, <1>2, <1>3 DEF Next

\* Every step keeps the invariant.
LEMMA AdmitStep == ControlInv /\ AdmitInv /\ [Next]_vars => AdmitInv'
<1> SUFFICES ASSUME ControlInv, AdmitInv, [Next]_vars
             PROVE  AdmitInv'
  OBVIOUS
<1>1. TypeOK /\ Underway
  BY DEF ControlInv
<1>2. CASE Next
  <2>1. \A u \in tasks' : u \in tasks \/ NewTaskFits(u)
    BY <1>1, <1>2, NewTask
  <2>2. JoinsFit'
    BY <2>1 DEF JoinsFit, NewTaskFits, AdmitInv
  <2>3. \A msg \in net' : msg \in net \/ (msg.op = "Roster" => msg.from # msg.to)
    BY <1>1, <1>2, NewPush
  <2>4. PushesFit'
    BY <2>3 DEF PushesFit, AdmitInv
  <2> QED
    BY <2>2, <2>4, NetsStep DEF AdmitInv
<1>3. CASE UNCHANGED vars
  BY <1>3 DEF vars, AdmitInv, NetsFit, JoinsFit, PushesFit
<1> QED
  BY <1>2, <1>3

\* The formula AdmitsOrRaces holds of every step.
AdmittedAfter ==
  /\ \A n \in Node :
       /\ IsCoordinator(mem[n], n) /\ IsCoordinator(mem'[n], n)
       /\ mem'[n].net = mem[n].net
       /\ ~ (mem'[n].members \subseteq mem[n].members)
       => \E t \in tasks \ tasks' :
            t.node = n /\ t.pc \in {"redeem", "apply"}
  /\ \A t \in tasks' \ tasks :
       t.pc = "apply" => ~ IsCoordinator(mem[t.node], t.node)

LEMMA AdmittedStep == ControlInv /\ AdmitInv /\ [Next]_vars => AdmittedAfter
<1> SUFFICES ASSUME ControlInv, AdmitInv, [Next]_vars
             PROVE  AdmittedAfter
  OBVIOUS
<1>1. ASSUME NEW n \in Node, mem[n].coord = n, mem'[n].coord = n,
             mem'[n].net = mem[n].net,
             ~ (mem'[n].members \subseteq mem[n].members)
      PROVE  \E t \in tasks \ tasks' : t.node = n /\ t.pc \in {"redeem", "apply"}
  <2>1. NetChange(n)
    BY EveryNetStep
  <2>2. mem[n].net # commands
    <3>1. mem[n].net < commands /\ mem[n].net \in Nat \cup {NoNet}
      BY <1>1 DEF AdmitInv, NetsFit, ControlInv, TypeOK, MembershipType
    <3>2. mem[n].net # NoNet /\ commands \in Nat
      BY <1>1, CommandAssumption DEF AdmitInv, NetsFit, ControlInv, TypeOK
    <3> QED
      BY <3>1, <3>2
  <2>3. TaskEnds(n, "redeem") \/ TaskEnds(n, "apply")
    BY <1>1, <2>1, <2>2 DEF NetChange
  <2> QED
    BY <2>3 DEF TaskEnds
<1>2. ASSUME NEW t \in tasks' \ tasks, t.pc = "apply"
      PROVE  ~ IsCoordinator(mem[t.node], t.node)
  <2>1. CASE Next
    BY <1>2, <2>1, NewTask DEF NewTaskFits, ControlInv
  <2>2. CASE UNCHANGED vars
    BY <1>2, <2>2 DEF vars
  <2> QED
    BY <2>1, <2>2
<1> QED
  BY <1>1, <1>2 DEF AdmittedAfter, IsCoordinator

\* While a node coordinates one network, a member is added by the redeeming of an
\* invite, or by a push that was admitted before the network was there, and in no
\* other way: the race that breaks CoordinatorAdmits is the only one, for any
\* nodes, commands and order of messages (admin.rs, roster and join).
THEOREM OnlyTheRaceAdmits == Spec => AdmitsOrRaces
<1>1. Spec => []AdmitInv
  BY Invariance, AdmitInit, AdmitStep, PTL DEF Spec
<1> QED
  BY <1>1, Invariance, AdmittedStep, PTL DEF Spec, AdmitsOrRaces, AdmittedAfter
=============================================================================
