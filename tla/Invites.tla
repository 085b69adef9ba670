------------------------------- MODULE Invites --------------------------------
(***************************************************************************)
(* The life of invite codes at the node that mints them: the membership in *)
(* memory, the copy of it in network.json, the wall clock, the invite and  *)
(* join requests under way, and a daemon that may stop and start again at  *)
(* any moment (membership.rs, state.rs, the Invite and Kick commands of    *)
(* ipc.rs, the Join, Leave and Roster requests of admin.rs).               *)
(*                                                                         *)
(* A save either replaces the file or fails, and a failure or a crash in   *)
(* the middle of one may leave a torn file: std::fs::write empties the     *)
(* file before it writes.  A torn file does not parse, and a daemon that   *)
(* cannot read its membership does not start.  The memory has changed      *)
(* either way; what a failed save changes is the answer.                   *)
(*                                                                         *)
(* Hostnames are left to module ControlPlane: joiners here ask for none.   *)
(***************************************************************************)
EXTENDS Membership

CONSTANTS
  Self,      \* the node modelled
  AskedTtl,  \* the windows a user may ask for, in seconds
  MaxTtl,    \* the longest window granted
  MaxTime,   \* bound: the wall clock shows 0 .. MaxTime
  MaxNets,   \* bound: how many networks this node creates
  MaxTasks,  \* bound: requests under way at a time
  SaveOk,    \* what may become of a save: TRUE, it succeeds; FALSE, it fails
  Torn       \* a file that does not parse

ASSUME SelfAssumption == Self \in Node
ASSUME TimeAssumption ==
  /\ AskedTtl \subseteq Nat
  /\ MaxTtl \in Nat \ {0}
  /\ MaxTime \in Nat
  /\ MaxNets \in Nat /\ MaxTasks \in Nat
ASSUME SaveAssumption == SaveOk \subseteq BOOLEAN
ASSUME TornAssumption == Torn \notin MembershipType

VARIABLES
  mem,      \* the membership in memory, meaningless while the daemon is down
  disk,     \* network.json: a membership, or Torn
  up,       \* the daemon runs
  now,      \* the wall clock, which may be set to any time
  tasks,    \* requests past their coordinator check
  nets,     \* networks created so far: the next random network id
  \* What is known outside, for stating properties:
  minted,   \* minted[t]: when and for what the code with t was handed out
  judged,   \* tokens that were presented and got a verdict
  told,     \* the admissions that were answered with Joined
  acked     \* admissions and codes acknowledged and not undone since

vars == <<mem, disk, up, now, tasks, nets, minted, judged, told, acked>>

Peer == Node \ {Self}
NotMinted == [at |-> 0, net |-> NoNet, expires |-> 0]

Clock == 0 .. MaxTime
Mintage == [at : Clock, net : Nat \cup {NoNet}, expires : Nat]
Admission == [token : Token, peer : Peer, net : Nat \cup {NoNet}, at : Clock]

Task == [pc : {"invite"}, token : Token, ttl : 1 .. MaxTtl]
        \cup [pc : {"redeem"}, token : Token, peer : Peer]
        \cup [pc : {"remove"}, peer : Peer]
        \cup [pc : {"apply"}, members : SUBSET Node]

Init ==
  /\ mem = Default
  /\ disk = Default
  /\ up = TRUE
  /\ now = 0
  /\ tasks = {}
  /\ nets = 0
  /\ minted = [t \in Token |-> NotMinted]
  /\ judged = {}
  /\ told = {}
  /\ acked = [members |-> {}, tokens |-> {}]

-----------------------------------------------------------------------------
\* The membership becomes m; the save succeeds or not.
Store(m, ok) ==
  /\ up
  /\ mem' = m
  /\ disk' \in IF ok THEN {m} ELSE {disk, Torn}

NothingAcked == acked' = [members |-> {}, tokens |-> {}]

CreateNetwork(ok) ==
  /\ nets < MaxNets
  /\ nets' = nets + 1
  /\ Store(Create(mem, Self, nets, NoName), ok)
  /\ NothingAcked
  /\ UNCHANGED <<up, now, tasks, minted, judged, told>>

LeaveNetwork(ok) ==
  /\ Store(Leave(mem), ok)
  /\ NothingAcked
  /\ UNCHANGED <<up, now, tasks, nets, minted, judged, told>>

\* Joining the network of `coordinator', which lists just the two of them.
JoinElsewhere(coordinator, ok) ==
  /\ Store(SetJoined(mem, Self, coordinator,
                     [members |-> {coordinator, Self},
                      host |-> [i \in Node |-> NoName]]), ok)
  /\ NothingAcked
  /\ UNCHANGED <<up, now, tasks, nets, minted, judged, told>>

Begin(task) ==
  /\ up /\ Cardinality(tasks) < MaxTasks
  /\ tasks' = tasks \cup {task}
  /\ UNCHANGED <<mem, disk, up, now, nets, minted, judged, told, acked>>

\* The coordinator check of a kick, or of a member's request to leave.
Remove(peer) ==
  /\ IsCoordinator(mem, Self)
  /\ Begin([pc |-> "remove", peer |-> peer])

\* Nothing is saved when nobody is removed.
DoRemove(t, ok) ==
  /\ up /\ t.pc = "remove"
  /\ IF t.peer \in mem.members
     THEN Store(RemoveMember(mem, t.peer), ok)
     ELSE UNCHANGED <<mem, disk>>
  /\ acked' = [acked EXCEPT !.members = @ \ {t.peer}]
  /\ tasks' = tasks \ {t}
  /\ UNCHANGED <<up, now, nets, minted, judged, told>>

\* The check of a pushed roster: it comes from this node's coordinator.
RecvRoster(peer, others) ==
  /\ mem.coord = peer
  /\ Begin([pc |-> "apply", members |-> others \cup {peer, Self}])

\* The roster replaces the members, of whatever network they are by now.
DoApply(t, ok) ==
  /\ t.pc = "apply"
  /\ Store(SetRoster(mem, Self, [members |-> t.members,
                                host |-> [i \in Node |-> NoName]]), ok)
  /\ acked' = [acked EXCEPT !.members = @ \cap t.members]
  /\ tasks' = tasks \ {t}
  /\ UNCHANGED <<up, now, nets, minted, judged, told>>

Clamp(ttl) == CASE ttl < 1 -> 1
                [] ttl > MaxTtl -> MaxTtl
                [] OTHER -> ttl

\* The coordinator check of an Invite command.  `token' stands for the random
\* token drawn later: no other invite ever had it.
InviteCommand(token, ttl) ==
  /\ IsCoordinator(mem, Self)
  /\ minted[token] = NotMinted
  /\ \A t \in tasks : t.pc = "invite" => t.token # token
  /\ \A i \in mem.invites : i.token # token
  /\ disk # Torn => \A i \in disk.invites : i.token # token
  /\ Begin([pc |-> "invite", token |-> token, ttl |-> Clamp(ttl)])

\* The node may coordinate another network or none by now.  The code is handed
\* out only if the save succeeded.
Mint(t, ok) ==
  /\ t.pc = "invite"
  /\ Store(GenerateInvite(mem, t.token, t.ttl, now), ok)
  /\ tasks' = tasks \ {t}
  /\ IF ok
     THEN /\ minted' = [minted EXCEPT
                          ![t.token] = [at |-> now, net |-> mem.net,
                                        expires |-> now + t.ttl]]
          /\ acked' = [acked EXCEPT !.tokens = @ \cup {t.token}]
     ELSE UNCHANGED <<minted, acked>>
  /\ UNCHANGED <<up, now, nets, judged, told>>

\* The coordinator check of a Join request, from somebody who holds a code.
RecvJoin(peer, token) ==
  /\ minted[token] # NotMinted
  /\ IsCoordinator(mem, Self)
  /\ Begin([pc |-> "redeem", token |-> token, peer |-> peer])

\* A refusal is not saved.
Refuse(t) ==
  /\ up
  /\ t.pc = "redeem"
  /\ ~ Redeemable(mem, t.token, now)
  /\ mem' = RedeemInvite(mem, t.token, t.peer, now)
  /\ judged' = judged \cup {t.token}
  /\ acked' = [acked EXCEPT !.tokens = @ \ {t.token}]
  /\ tasks' = tasks \ {t}
  /\ UNCHANGED <<disk, up, now, nets, minted, told>>

\* Mutant: the joiner is told before, and whether or not, the save succeeded.
AdmitUnsaved(t, ok) ==
  /\ t.pc = "redeem"
  /\ Redeemable(mem, t.token, now)
  /\ Store(RedeemInvite(mem, t.token, t.peer, now), ok)
  /\ judged' = judged \cup {t.token}
  /\ told' = told \cup {[token |-> t.token, peer |-> t.peer,
                         net |-> mem.net, at |-> now]}
  /\ acked' = [members |-> acked.members \cup {t.peer},
               tokens  |-> acked.tokens \ {t.token}]
  /\ tasks' = tasks \ {t}
  /\ UNCHANGED <<up, now, nets, minted>>

\* The joiner is told only if the save succeeded.
Admit(t, ok) ==
  /\ t.pc = "redeem"
  /\ Redeemable(mem, t.token, now)
  /\ Store(RedeemInvite(mem, t.token, t.peer, now), ok)
  /\ IF ok
     THEN /\ judged' = judged \cup {t.token}
          /\ told' = told \cup {[token |-> t.token, peer |-> t.peer,
                                 net |-> mem.net, at |-> now]}
          /\ acked' = [members |-> acked.members \cup {t.peer},
                       tokens  |-> acked.tokens \ {t.token}]
     ELSE /\ acked' = [acked EXCEPT !.tokens = @ \ {t.token}]
          /\ UNCHANGED <<judged, told>>
  /\ tasks' = tasks \ {t}
  /\ UNCHANGED <<up, now, nets, minted>>

\* A code whose window has closed once is not owed to anybody any more.
SetClock(time) ==
  /\ now' = time
  /\ acked' = [acked EXCEPT
                 !.tokens = {t \in @ : minted[t].expires > time}]
  /\ UNCHANGED <<mem, disk, up, tasks, nets, minted, judged, told>>

Crash ==
  /\ up
  /\ up' = FALSE
  /\ mem' = Default
  /\ tasks' = {}
  /\ UNCHANGED <<disk, now, nets, minted, judged, told, acked>>

\* With a torn file the daemon exits instead.
Load ==
  /\ ~ up
  /\ disk # Torn
  /\ mem' = disk
  /\ up' = TRUE
  /\ UNCHANGED <<disk, now, tasks, nets, minted, judged, told, acked>>

Next ==
  \/ \E ok \in SaveOk :
       \/ CreateNetwork(ok)
       \/ LeaveNetwork(ok)
       \/ \E p \in Peer : JoinElsewhere(p, ok)
       \/ \E t \in tasks : Mint(t, ok) \/ Admit(t, ok) \/ DoRemove(t, ok)
                             \/ DoApply(t, ok)
  \/ \E t \in tasks : Refuse(t)
  \/ \E token \in Token, ttl \in AskedTtl : InviteCommand(token, ttl)
  \/ \E p \in Peer, token \in Token : RecvJoin(p, token)
  \/ \E p \in Peer : Remove(p)
  \/ \E p \in Peer, others \in SUBSET Peer : RecvRoster(p, others)
  \/ \E time \in Clock : SetClock(time)
  \/ Crash
  \/ Load

Spec == Init /\ [][Next]_vars

-----------------------------------------------------------------------------
(* Properties *)

TypeOK ==
  /\ mem \in MembershipType
  /\ disk \in MembershipType \cup {Torn}
  /\ up \in BOOLEAN
  /\ now \in Clock
  /\ tasks \subseteq Task
  /\ nets \in 0 .. MaxNets
  /\ minted \in [Token -> Mintage]
  /\ judged \subseteq Token
  /\ told \subseteq Admission
  /\ acked \in [members : SUBSET Peer, tokens : SUBSET Token]

\* Single use: a code admits one peer, once, across concurrent redemptions,
\* failed saves and restarts (membership.rs, redeem_invite; state.rs,
\* redeem_invite saves before it answers).
OneAdmission == \A a, b \in told : a.token = b.token => a = b

\* Whoever is told it joined presented a code of the very network it joined,
\* before that code expired, and no longer after it was minted than the limit
\* allows: not after the node created another network, left, or joined
\* elsewhere between the check and the redemption (membership.rs, is_live).
AdmittedInWindow ==
  \A a \in told :
    LET m == minted[a.token]
    IN  /\ a.net = m.net /\ a.net # NoNet
        /\ a.at < m.expires
        /\ m.expires <= m.at + MaxTtl

\* What was acknowledged survives: a peer told that it joined, and a code handed
\* out, are in the membership and in any readable file until they are revoked,
\* used or expired, the node leaves their network, or, for an admission, a roster
\* pushed before the node had that network is applied to it and leaves the peer
\* out (state.rs: save before the answer).
AckedSurvives ==
  LET Holds(m) == /\ acked.members \subseteq m.members
                  /\ \A t \in acked.tokens : \E i \in m.invites : i.token = t
  IN  /\ up => Holds(mem)
      /\ disk # Torn => Holds(disk)

\* "A code presented once is spent even if it was refused" (README.md): a token
\* that got a verdict is never pending again.
JudgedIsSpent == up => \A i \in mem.invites : i.token \notin judged

\* "Only the coordinator gets to rewrite our roster" (admin.rs): no push takes an
\* acknowledged admission away from the node that made it.  A push checked while
\* the node was a plain member and applied after it created a network does.
PushKeepsMembers ==
  [][\A t \in tasks \ tasks' :
       t.pc = "apply" /\ up' => acked.members \subseteq mem'.members]_vars
=============================================================================
