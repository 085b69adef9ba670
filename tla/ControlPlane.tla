----------------------------- MODULE ControlPlane -----------------------------
(***************************************************************************)
(* The control plane: the daemons of several nodes, the commands their     *)
(* users give over IPC (daemon/src/ipc.rs), the admin protocol between     *)
(* them (admin.rs, connect.rs) and the membership each keeps (state.rs).   *)
(*                                                                         *)
(* Every command and every admin request is a task of its own.  A task     *)
(* holds the membership lock for one step at a time, so other tasks run    *)
(* between its check and its effect, between its effect and the roster it  *)
(* publishes, and while it waits for an answer.  A request or an answer    *)
(* may arrive at any later time, in any order, or never; a caller may give *)
(* up at any time, whether or not its request was or will be handled.      *)
(*                                                                         *)
(* Every step that changes a membership also saves it (but for a refused   *)
(* token), so a restart finds the membership as it was and only loses the  *)
(* tasks.  Failed and torn saves, what a restart does to invites, and the  *)
(* passing of time are the subject of module Invites; here no invite       *)
(* expires.                                                                *)
(***************************************************************************)
EXTENDS Membership

CONSTANTS
  JoinAttempts,  \* how often a join tries to reach the coordinator
  MaxCommands    \* bound: how many commands, link-ups and restarts happen

ASSUME JoinAssumption == JoinAttempts \in Nat \ {0}
ASSUME CommandAssumption == MaxCommands \in Nat

VARIABLES
  mem,       \* mem[n]: the membership of node n, in memory and on disk
  tasks,     \* commands and request handlers under way, each between two steps
  net,       \* requests and answers in flight
  codes,     \* codes[t]: the node whose invite code carries t, handed out by hand
  commands   \* how many commands were given: bounds the behaviour, and numbers
             \* the networks created

vars == <<mem, tasks, net, codes, commands>>

Optional == Typed \cup {NoName}
Attempt == 1 .. JoinAttempts

Message ==
  [op : {"Join"}, from : Node, to : Node, token : Token, name : Optional,
   attempt : Attempt]
  \cup [op : {"Joined"}, from : Node, to : Node, token : Token,
        attempt : Attempt, roster : Roster, name : OptName]
  \cup [op : {"Refused"}, from : Node, to : Node, token : Token,
        attempt : Attempt]
  \cup [op : {"SetHostname"}, from : Node, to : Node, name : Name]
  \cup [op : {"HostnameSet"}, from : Node, to : Node, wanted : Name,
        name : Name]
  \cup [op : {"Leave", "Kicked"}, from : Node, to : Node]
  \cup [op : {"Roster"}, from : Node, to : Node, roster : Roster]

Task ==
  [pc : {"joining", "redeem"}, node : Node, peer : Node, token : Token,
   name : Optional, attempt : Attempt]
  \cup [pc : {"naming"}, node : Node, peer : Node, name : Name]
  \cup [pc : {"claim"}, node : Node, peer : Node, name : Name]
  \cup [pc : {"rename"}, node : Node, name : Name, force : BOOLEAN]
  \cup [pc : {"invite"}, node : Node, token : Token]
  \cup [pc : {"leaving", "obey"}, node : Node]
  \cup [pc : {"kick", "remove", "catchup"}, node : Node, peer : Node]
  \cup [pc : {"apply"}, node : Node, roster : Roster]
  \cup [pc : {"publish"}, node : Node, peer : Node, along : SUBSET Message]

Init ==
  /\ mem = [n \in Node |-> Default]
  /\ tasks = {}
  /\ net = {}
  /\ codes = [t \in Token |-> NoNode]
  /\ commands = 0

-----------------------------------------------------------------------------
Command == commands < MaxCommands /\ commands' = commands + 1

Set(n, m) == mem' = [mem EXCEPT ![n] = m]
Start(t) == tasks' = tasks \cup {t}
Finish(t) == tasks' = tasks \ {t}
Continue(t, u) == tasks' = (tasks \ {t}) \cup {u}

\* broadcast_roster: one push per member, except to the sender and to the
\* subject of the change.
Broadcast(n, subject, roster) ==
  {[op |-> "Roster", from |-> n, to |-> p, roster |-> roster] :
     p \in roster.members \ {n, subject}}

\* An answer reaches a caller that still waits for it on the same connection.
Answer(caller, msg) == IF caller \in tasks THEN {msg} ELSE {}

Joining(n, peer, token, name, attempt) ==
  [pc |-> "joining", node |-> n, peer |-> peer, token |-> token,
   name |-> name, attempt |-> attempt]

Naming(n, peer, name) ==
  [pc |-> "naming", node |-> n, peer |-> peer, name |-> name]

-----------------------------------------------------------------------------
(* Commands of a node's own user, and links coming up *)

CreateNetwork(n, requested) ==
  /\ Command
  /\ requested # NoName => Validate(requested, n) # NoName
  /\ Set(n, Create(mem[n], n, commands,
                   IF requested = NoName THEN NoName
                                         ELSE Validate(requested, n)))
  /\ UNCHANGED <<tasks, net, codes>>

\* `token' stands for the random token drawn later: no other invite has it.
InviteCommand(n, token) ==
  /\ Command
  /\ IsCoordinator(mem[n], n)
  /\ codes[token] = NoNode
  /\ \A t \in tasks : t.pc = "invite" => t.token # token
  /\ Start([pc |-> "invite", node |-> n, token |-> token])
  /\ UNCHANGED <<mem, net, codes>>

\* The coordinator check was made before: the network may be gone by now.
Mint(t) ==
  /\ t.pc = "invite"
  /\ Set(t.node, GenerateInvite(mem[t.node], t.token, 1, 0))
  /\ codes' = [codes EXCEPT ![t.token] = t.node]
  /\ Finish(t)
  /\ UNCHANGED <<net, commands>>

JoinRequest(t) ==
  [op |-> "Join", from |-> t.node, to |-> t.peer, token |-> t.token,
   name |-> t.name, attempt |-> t.attempt]

JoinCommand(n, token, requested) ==
  /\ Command
  /\ codes[token] \notin {NoNode, n}
  /\ LET t == Joining(n, codes[token], token, requested, 1)
     IN  Start(t) /\ net' = net \cup {JoinRequest(t)}
  /\ UNCHANGED <<mem, codes>>

LeaveCommand(n) ==
  /\ Command
  /\ Start([pc |-> "leaving", node |-> n])
  /\ net' = IF mem[n].coord \in {NoNode, n} THEN net
            ELSE net \cup {[op |-> "Leave", from |-> n, to |-> mem[n].coord]}
  /\ UNCHANGED <<mem, codes>>

KickCommand(n, peer) ==
  /\ Command
  /\ IsCoordinator(mem[n], n)
  /\ Start([pc |-> "kick", node |-> n, peer |-> peer])
  /\ UNCHANGED <<mem, net, codes>>

\* The coordinator names itself; a member asks its coordinator.
HostnameCommand(n, requested, force) ==
  LET wanted == Validate(requested, n)
  IN  /\ Command
      /\ wanted # NoName
      /\ \/ /\ IsCoordinator(mem[n], n)
            /\ Start([pc |-> "rename", node |-> n, name |-> wanted,
                      force |-> force])
            /\ UNCHANGED net
         \/ /\ mem[n].coord \notin {NoNode, n}
            /\ Start(Naming(n, mem[n].coord, wanted))
            /\ net' = net \cup {[op |-> "SetHostname", from |-> n,
                                 to |-> mem[n].coord, name |-> wanted]}
      /\ UNCHANGED <<mem, codes>>

\* A link to a member came up: the coordinator sends it the roster.
LinkUp(n, peer) ==
  /\ Command
  /\ IsCoordinator(mem[n], n)
  /\ peer \in mem[n].members \ {n}
  /\ Start([pc |-> "catchup", node |-> n, peer |-> peer])
  /\ UNCHANGED <<mem, net, codes>>

Restart(n) ==
  /\ Command
  /\ tasks' = {t \in tasks : t.node # n}
  /\ UNCHANGED <<mem, net, codes>>

-----------------------------------------------------------------------------
(* The later steps of commands *)

DoLeave(t) ==
  /\ t.pc = "leaving"
  /\ Set(t.node, Leave(mem[t.node]))
  /\ Finish(t)
  /\ UNCHANGED <<net, codes, commands>>

\* Refused for somebody not listed and for the node itself.
DoKick(t) ==
  /\ t.pc = "kick"
  /\ IF t.peer \in mem[t.node].members \ {t.node}
     THEN /\ Set(t.node, RemoveMember(mem[t.node], t.peer))
          /\ Continue(t, [pc |-> "publish", node |-> t.node, peer |-> t.peer,
                          along |-> {[op |-> "Kicked", from |-> t.node,
                                      to |-> t.peer]}])
     ELSE Finish(t) /\ UNCHANGED mem
  /\ UNCHANGED <<net, codes, commands>>

DoRename(t) ==
  /\ t.pc = "rename"
  /\ Set(t.node, ClaimHostname(mem[t.node], t.node, t.name, t.force))
  /\ Continue(t, [pc |-> "publish", node |-> t.node, peer |-> t.node,
                  along |-> {}])
  /\ UNCHANGED <<net, codes, commands>>

\* The roster is read, broadcast, and an answer or a notice goes with it.
Publish(t) ==
  /\ t.pc = "publish"
  /\ net' = net \cup Broadcast(t.node, t.peer, RosterOf(mem[t.node]))
                \cup t.along
  /\ Finish(t)
  /\ UNCHANGED <<mem, codes, commands>>

CatchUp(t) ==
  /\ t.pc = "catchup"
  /\ net' = net \cup {[op |-> "Roster", from |-> t.node, to |-> t.peer,
                       roster |-> RosterOf(mem[t.node])]}
  /\ Finish(t)
  /\ UNCHANGED <<mem, codes, commands>>

\* The network of the answer replaces whatever this node is in by now.
JoinAnswered(t, msg) ==
  /\ t.pc = "joining"
  /\ msg.op \in {"Joined", "Refused"}
  /\ msg.to = t.node /\ msg.from = t.peer
  /\ msg.token = t.token /\ msg.attempt = t.attempt
  /\ IF msg.op = "Joined"
     THEN Set(t.node, SetJoined(mem[t.node], t.node, t.peer, msg.roster))
     ELSE UNCHANGED mem
  /\ Finish(t)
  /\ net' = net \ {msg}
  /\ UNCHANGED <<codes, commands>>

\* Mutant: attempts are not counted.
JoinRetriesForever(t) ==
  /\ t.pc = "joining"
  /\ net' = net \cup {JoinRequest(t)}
  /\ UNCHANGED <<mem, tasks, codes, commands>>

\* An attempt fails; the next one presents the same token again.
JoinUnanswered(t) ==
  /\ t.pc = "joining"
  /\ IF t.attempt < JoinAttempts
     THEN LET u == [t EXCEPT !.attempt = @ + 1]
          IN  Continue(t, u) /\ net' = net \cup {JoinRequest(u)}
     ELSE Finish(t) /\ UNCHANGED net
  /\ UNCHANGED <<mem, codes, commands>>

Adopt(n, name) == Set(n, ClaimHostname(mem[n], n, name, TRUE))

NamingAnswered(t, msg) ==
  /\ t.pc = "naming"
  /\ msg.op = "HostnameSet"
  /\ msg.to = t.node /\ msg.from = t.peer /\ msg.wanted = t.name
  /\ Adopt(t.node, msg.name)
  /\ Finish(t)
  /\ net' = net \ {msg}
  /\ UNCHANGED <<codes, commands>>

\* Any failure, a refusal by the coordinator too: the name is taken locally.
NamingUnanswered(t) ==
  /\ t.pc = "naming"
  /\ Adopt(t.node, t.name)
  /\ Finish(t)
  /\ UNCHANGED <<net, codes, commands>>

-----------------------------------------------------------------------------
(* Admin requests: the check a handler makes first, then its effect *)

Receive(msg) == msg \in net /\ net' = net \ {msg}

RecvJoin(msg) ==
  /\ msg.op = "Join"
  /\ IF IsCoordinator(mem[msg.to], msg.to)
     THEN /\ Receive(msg)
          /\ Start([pc |-> "redeem", node |-> msg.to, peer |-> msg.from,
                    token |-> msg.token, name |-> msg.name,
                    attempt |-> msg.attempt])
     ELSE /\ net' = (net \ {msg}) \cup
               Answer(Joining(msg.from, msg.to, msg.token, msg.name,
                              msg.attempt),
                      [op |-> "Refused", from |-> msg.to, to |-> msg.from,
                       token |-> msg.token, attempt |-> msg.attempt])
          /\ UNCHANGED tasks
  /\ UNCHANGED <<mem, codes, commands>>

\* The hostname a joiner gets: NoName if it asked for none or an illegal one.
JoinerName(m, peer, requested) ==
  IF requested = NoName \/ Validate(requested, peer) = NoName THEN NoName
  ELSE Assigned(m, peer, Validate(requested, peer), FALSE)

Admit(m, t) ==
  LET in == RedeemInvite(m, t.token, t.peer, 0)
  IN  IF JoinerName(in, t.peer, t.name) = NoName THEN in
      ELSE ClaimHostname(in, t.peer, Validate(t.name, t.peer), FALSE)

\* Burning the token, admitting, naming and reading the roster are one step
\* under the lock.
Redeem(t) ==
  /\ t.pc = "redeem"
  /\ LET m == mem[t.node]
         after == Admit(m, t)
         caller == Joining(t.peer, t.node, t.token, t.name, t.attempt)
     IN  IF Redeemable(m, t.token, 0)
         THEN /\ Set(t.node, after)
              /\ net' = net \cup Broadcast(t.node, t.peer, RosterOf(after))
                   \cup Answer(caller,
                          [op |-> "Joined", from |-> t.node, to |-> t.peer,
                           token |-> t.token, attempt |-> t.attempt,
                           roster |-> RosterOf(after),
                           name |-> JoinerName(
                             RedeemInvite(m, t.token, t.peer, 0),
                             t.peer, t.name)])
         ELSE /\ Set(t.node, RedeemInvite(m, t.token, t.peer, 0))
              /\ net' = net \cup Answer(caller,
                          [op |-> "Refused", from |-> t.node, to |-> t.peer,
                           token |-> t.token, attempt |-> t.attempt])
  /\ Finish(t)
  /\ UNCHANGED <<codes, commands>>

RecvSetHostname(msg) ==
  /\ msg.op = "SetHostname"
  /\ Receive(msg)
  /\ IF /\ IsCoordinator(mem[msg.to], msg.to)
        /\ msg.from \in mem[msg.to].members
     THEN Start([pc |-> "claim", node |-> msg.to, peer |-> msg.from,
                 name |-> msg.name])
     ELSE UNCHANGED tasks
  /\ UNCHANGED <<mem, codes, commands>>

DoClaim(t) ==
  /\ t.pc = "claim"
  /\ LET granted == Assigned(mem[t.node], t.peer, t.name, FALSE)
     IN  Continue(t, [pc |-> "publish", node |-> t.node, peer |-> t.peer,
           along |-> Answer(Naming(t.peer, t.node, t.name),
                       [op |-> "HostnameSet", from |-> t.node,
                        to |-> t.peer, wanted |-> t.name,
                        name |-> granted])])
  /\ Set(t.node, ClaimHostname(mem[t.node], t.peer, t.name, FALSE))
  /\ UNCHANGED <<net, codes, commands>>

RecvLeave(msg) ==
  /\ msg.op = "Leave"
  /\ Receive(msg)
  /\ IF IsCoordinator(mem[msg.to], msg.to)
     THEN Start([pc |-> "remove", node |-> msg.to, peer |-> msg.from])
     ELSE UNCHANGED tasks
  /\ UNCHANGED <<mem, codes, commands>>

DoRemove(t) ==
  /\ t.pc = "remove"
  /\ IF t.peer \in mem[t.node].members
     THEN /\ Set(t.node, RemoveMember(mem[t.node], t.peer))
          /\ Continue(t, [pc |-> "publish", node |-> t.node, peer |-> t.peer,
                          along |-> {}])
     ELSE Finish(t) /\ UNCHANGED mem
  /\ UNCHANGED <<net, codes, commands>>

RecvRoster(msg) ==
  /\ msg.op = "Roster"
  /\ Receive(msg)
  /\ IF mem[msg.to].coord = msg.from
     THEN Start([pc |-> "apply", node |-> msg.to, roster |-> msg.roster])
     ELSE UNCHANGED tasks
  /\ UNCHANGED <<mem, codes, commands>>

\* Whoever is the coordinator by now, and whether there is one at all.
DoApply(t) ==
  /\ t.pc = "apply"
  /\ Set(t.node, SetRoster(mem[t.node], t.node, t.roster))
  /\ Finish(t)
  /\ UNCHANGED <<net, codes, commands>>

RecvKicked(msg) ==
  /\ msg.op = "Kicked"
  /\ Receive(msg)
  /\ IF mem[msg.to].coord = msg.from
     THEN Start([pc |-> "obey", node |-> msg.to])
     ELSE UNCHANGED tasks
  /\ UNCHANGED <<mem, codes, commands>>

DoObey(t) ==
  /\ t.pc = "obey"
  /\ Set(t.node, Leave(mem[t.node]))
  /\ Finish(t)
  /\ UNCHANGED <<net, codes, commands>>

-----------------------------------------------------------------------------
UserCommand(n) ==
  \/ \E s \in Optional : CreateNetwork(n, s)
  \/ \E token \in Token : InviteCommand(n, token)
  \/ \E token \in Token, s \in Optional : JoinCommand(n, token, s)
  \/ LeaveCommand(n)
  \/ \E p \in Node : KickCommand(n, p)
  \/ \E s \in Typed, force \in BOOLEAN : HostnameCommand(n, s, force)
  \/ \E p \in Node : LinkUp(n, p)
  \/ Restart(n)

\* One step of a command or of a request handler.
TaskStep(t) ==
  \/ Mint(t)
  \/ \E msg \in net : JoinAnswered(t, msg) \/ NamingAnswered(t, msg)
  \/ JoinUnanswered(t) \/ NamingUnanswered(t)
  \/ DoLeave(t) \/ DoKick(t) \/ DoRename(t) \/ Publish(t) \/ CatchUp(t)
  \/ Redeem(t) \/ DoClaim(t) \/ DoRemove(t) \/ DoApply(t) \/ DoObey(t)

Deliver(msg) ==
  \/ RecvJoin(msg) \/ RecvSetHostname(msg) \/ RecvLeave(msg)
  \/ RecvRoster(msg) \/ RecvKicked(msg)

Next ==
  \/ \E n \in Node : UserCommand(n)
  \/ \E t \in tasks : TaskStep(t)
  \/ \E msg \in net : Deliver(msg)

Spec == Init /\ [][Next]_vars

\* The runtime keeps polling tasks, and a connection that stays silent times
\* out: a task that can take a step takes one.  Users owe nothing, and a
\* request may never arrive.
Fairness == WF_vars(\E t \in tasks : TaskStep(t))

FairSpec == Spec /\ Fairness
-----------------------------------------------------------------------------
(* Properties *)

TypeOK ==
  /\ mem \in [Node -> MembershipType]
  /\ tasks \subseteq Task
  /\ net \subseteq Message
  /\ codes \in [Token -> OptNode]
  /\ commands \in 0 .. MaxCommands

\* Whoever is listed under a name on any node owns that name there, so no node
\* ever lists two members under one hostname, whatever rosters, claims and
\* forced renames reach it in whatever order (membership.rs, apply_roster and
\* claim_hostname).
NamesOwned ==
  \A n \in Node : \A i \in mem[n].members :
    mem[n].host[i] # NoName => mem[n].bind[mem[n].host[i]] = i

\* After every step a node in a network lists itself, whatever roster was pushed
\* to it and whoever was removed (membership.rs, apply_roster: "a malformed push
\* cannot evict us from our own network").  It lists its coordinator too, with
\* one exception: a kick or a leave that was admitted while this node coordinated
\* a network of its own still removes that peer when this node has meanwhile
\* joined the peer's network (ipc.rs, kick; admin.rs, leave), and then the next
\* roster has to bring it back.
SelfListed ==
  [][\A n \in Node :
       LET c == mem'[n].coord
       IN  c # NoNode =>
             /\ n \in mem'[n].members
             /\ \/ c \in mem'[n].members
                \/ mem[n].coord = c /\ c \notin mem[n].members
                \/ \E t \in tasks \ tasks' :
                     t.node = n /\ t.pc \in {"kick", "remove"} /\ t.peer = c]_vars

\* A join command of node n ends in this step.
JoinEnds(n) == \E t \in tasks \ tasks' : t.node = n /\ t.pc = "joining"

\* A name that a node has seen bound to a key never moves to a third party:
\* it stays, or this node itself takes it, or the node goes to another network
\* and forgets all names.  No roster push, admission or claim of a member
\* redirects a name that is in use (membership.rs, bindings).
BindingsStick ==
  [][\A n \in Node, h \in Name :
       LET old == mem[n].bind[h]
           new == mem'[n].bind[h]
       IN  old # NoNode =>
             \/ new \in {old, n}
             \/ new = NoNode /\ mem'[n].coord = NoNode
             \/ JoinEnds(n)]_vars

\* A node that joins under a name it was told ends up listed under exactly that
\* name on its own side, whatever network it was in before and whatever names
\* that network had (ipc.rs, Join, against membership.rs, set_joined).
JoinerHasItsName ==
  [][\A t \in tasks \ tasks', msg \in net \ net' :
       t.pc = "joining" /\ msg.op = "Joined" /\ msg.name # NoName
         => mem'[t.node].host[t.node] = msg.name]_vars

\* Every command and every request handler comes to an end, however requests
\* and answers are lost: no caller waits for ever (connect.rs, join_network).
TasksEnd == <>[](tasks = {})

-----------------------------------------------------------------------------
(* What comments and documents say, and the code does not keep *)

\* "Only the coordinator gets to rewrite our roster; otherwise any peer that can
\* reach us could add itself to the network" (admin.rs, roster): while a node
\* coordinates one network, only the redeeming of an invite adds a member.
CoordinatorAdmits ==
  [][\A n \in Node :
       /\ IsCoordinator(mem[n], n) /\ IsCoordinator(mem'[n], n)
       /\ mem'[n].net = mem[n].net
       /\ ~ (mem'[n].members \subseteq mem[n].members)
       => \E t \in tasks \ tasks' : t.node = n /\ t.pc = "redeem"]_vars

\* What holds of it: the one other step that adds a member is that of a push,
\* and a push is admitted only while somebody else is the coordinator.
AdmitsOrRaces ==
  [][/\ \A n \in Node :
          /\ IsCoordinator(mem[n], n) /\ IsCoordinator(mem'[n], n)
          /\ mem'[n].net = mem[n].net
          /\ ~ (mem'[n].members \subseteq mem[n].members)
          => \E t \in tasks \ tasks' :
               t.node = n /\ t.pc \in {"redeem", "apply"}
     /\ \A t \in tasks' \ tasks :
          t.pc = "apply" => ~ IsCoordinator(mem[t.node], t.node)]_vars

\* "A kick only reaches members that are online. One that was offline keeps the
\* old roster" (ROADMAP.md): a member that a push reaches does not start to list
\* a peer that their coordinator, which lists this member, lists no more.
KickedStaysOut ==
  [][\A n \in Node :
       LET c == mem[n].coord
       IN  /\ c \notin {NoNode, n}
           /\ mem'[n].coord = c
           /\ IsCoordinator(mem[c], c) /\ n \in mem[c].members
           => mem'[n].members \ mem[n].members \subseteq
                mem[c].members \cup {n, c}]_vars
=============================================================================
