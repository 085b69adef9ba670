----------------------------- MODULE InvitesProofs ----------------------------
(***************************************************************************)
(* Proofs about module Invites, for any set of nodes, tokens and windows,  *)
(* any number of networks and any behaviour of the clock and of saves.     *)
(***************************************************************************)
EXTENDS Invites, MembershipProofs

-----------------------------------------------------------------------------
(* The inductive invariant *)

\* A pending invite agrees with the code that was handed out for it, belongs to
\* no Invite command that has yet to mint, and has admitted nobody.
Fits(m) ==
  \A i \in m.invites :
    /\ minted[i.token] # NotMinted =>
         /\ i.net = minted[i.token].net
         /\ i.expires = minted[i.token].expires
    /\ \A t \in tasks : t.pc = "invite" => t.token # i.token
    /\ \A a \in told : a.token # i.token

CodesFit == Fits(mem) /\ (disk # Torn => Fits(disk))

TasksFit ==
  /\ \A t \in tasks : t.pc = "invite" => minted[t.token] = NotMinted
  /\ \A t \in tasks : t.pc = "redeem" => minted[t.token] # NotMinted
  /\ \A t, u \in tasks :
       t.pc = "invite" /\ u.pc = "invite" /\ t.token = u.token => t = u

WindowsFit == \A k \in Token : minted[k].expires <= minted[k].at + MaxTtl

AckedFits == \A k \in acked.tokens : minted[k].expires > now

Inv ==
  /\ TypeOK
  /\ CodesFit /\ TasksFit /\ WindowsFit /\ AckedFits
  /\ OneAdmission /\ AdmittedInWindow /\ AckedSurvives
-----------------------------------------------------------------------------
(* Types *)

\* What a task under way carries, by its kind.
LEMMA TaskFields ==
  ASSUME NEW t \in Task
  PROVE  /\ t.pc \in {"invite", "redeem"} => t.token \in Token
         /\ t.pc = "invite" => t.ttl \in 1 .. MaxTtl
         /\ t.pc \in {"redeem", "remove"} => t.peer \in Peer
         /\ t.pc = "apply" => t.members \subseteq Node
BY DEF Task

\* A clamped window is at least a second and at most the limit.
LEMMA ClampType ==
  ASSUME NEW ttl \in AskedTtl
  PROVE  Clamp(ttl) \in 1 .. MaxTtl
BY TimeAssumption DEF Clamp

\* After a save, memory and file are well formed if the new membership is.
LEMMA StoreType ==
  ASSUME TypeOK, NEW m \in MembershipType, NEW ok \in BOOLEAN, Store(m, ok)
  PROVE  /\ mem' \in MembershipType
         /\ disk' \in MembershipType \cup {Torn}
BY DEF TypeOK, Store

\* A check that passes leaves a task and nothing else behind.
LEMMA BeginType ==
  ASSUME TypeOK, NEW task \in Task, Begin(task)
  PROVE  TypeOK'
BY DEF TypeOK, Begin

\* The roster that a push carries is one.
LEMMA PushedType ==
  ASSUME NEW members \in SUBSET Node
  PROVE  [members |-> members, host |-> [i \in Node |-> NoName]] \in Roster
BY DEF Roster, OptName

\* The initial state is well formed.
LEMMA TypeInit == Init => TypeOK
<1> SUFFICES ASSUME Init PROVE TypeOK
  OBVIOUS
<1>1. NotMinted \in Mintage
  BY TimeAssumption DEF NotMinted, Mintage, Clock
<1>2. now \in Clock /\ nets \in 0 .. MaxNets
  BY TimeAssumption DEF Init, Clock
<1> QED
  BY <1>1, <1>2, DefaultType DEF Init, TypeOK

\* Every step keeps the state well formed.
LEMMA TypeStep == TypeOK /\ [Next]_vars => TypeOK'
<1> SUFFICES ASSUME TypeOK, [Next]_vars PROVE TypeOK'
  OBVIOUS
<1> USE SelfAssumption, TimeAssumption, SaveAssumption
<1>0. Clock \subseteq Nat /\ now \in Nat /\ Peer \subseteq Node
  BY DEF TypeOK, Clock, Peer
<1>1. ASSUME NEW ok \in SaveOk, CreateNetwork(ok) PROVE TypeOK'
  <2>1. Create(mem, Self, nets, NoName) \in MembershipType
    BY CreateType DEF TypeOK, OptName
  <2>2. mem' \in MembershipType /\ disk' \in MembershipType \cup {Torn}
    BY <1>1, <2>1, StoreType DEF CreateNetwork
  <2>3. nets' \in 0 .. MaxNets
    BY <1>1 DEF CreateNetwork, TypeOK
  <2> QED
    BY <1>1, <2>2, <2>3 DEF CreateNetwork, TypeOK, NothingAcked
<1>2. ASSUME NEW ok \in SaveOk, LeaveNetwork(ok) PROVE TypeOK'
  <2>1. mem' \in MembershipType /\ disk' \in MembershipType \cup {Torn}
    BY <1>2, DefaultType, StoreType DEF LeaveNetwork, Leave
  <2> QED
    BY <1>2, <2>1 DEF LeaveNetwork, TypeOK, NothingAcked
<1>3. ASSUME NEW ok \in SaveOk, NEW p \in Peer, JoinElsewhere(p, ok)
      PROVE  TypeOK'
  <2> DEFINE roster == [members |-> {p, Self},
                        host |-> [i \in Node |-> NoName]]
  <2>1. roster \in Roster
    BY <1>0 DEF Roster, OptName
  <2>2. SetJoined(mem, Self, p, roster) \in MembershipType
    BY <1>0, <2>1, SetJoinedType DEF TypeOK
  <2>3. mem' \in MembershipType /\ disk' \in MembershipType \cup {Torn}
    BY <1>3, <2>2, StoreType DEF JoinElsewhere
  <2> QED
    BY <1>3, <2>3 DEF JoinElsewhere, TypeOK, NothingAcked
<1>4. ASSUME NEW ok \in SaveOk, NEW t \in tasks, DoRemove(t, ok) PROVE TypeOK'
  <2>1. t.peer \in Peer
    BY <1>4, TaskFields DEF DoRemove, TypeOK
  <2>2. mem' \in MembershipType /\ disk' \in MembershipType \cup {Torn}
    <3>1. CASE t.peer \in mem.members
      BY <1>0, <1>4, <2>1, <3>1, RemoveMemberType, StoreType
         DEF DoRemove, TypeOK
    <3>2. CASE t.peer \notin mem.members
      BY <1>4, <3>2 DEF DoRemove, TypeOK
    <3> QED
      BY <3>1, <3>2
  <2>3. acked' \in [members : SUBSET Peer, tokens : SUBSET Token]
    BY <1>4 DEF DoRemove, TypeOK
  <2> QED
    BY <1>4, <2>2, <2>3 DEF DoRemove, TypeOK
<1>5. ASSUME NEW ok \in SaveOk, NEW t \in tasks, Mint(t, ok) PROVE TypeOK'
  <2>1. t.token \in Token /\ t.ttl \in 1 .. MaxTtl
    BY <1>5, TaskFields DEF Mint, TypeOK
  <2>2. mem' \in MembershipType /\ disk' \in MembershipType \cup {Torn}
    BY <1>0, <1>5, <2>1, GenerateInviteType, StoreType DEF Mint, TypeOK
  <2>3. [at |-> now, net |-> mem.net, expires |-> now + t.ttl] \in Mintage
    BY <1>0, <2>1 DEF TypeOK, MembershipType, Mintage
  <2>4. minted' \in [Token -> Mintage]
    BY <1>5, <2>1, <2>3 DEF Mint, TypeOK
  <2>5. acked' \in [members : SUBSET Peer, tokens : SUBSET Token]
    BY <1>5, <2>1 DEF Mint, TypeOK
  <2> QED
    BY <1>5, <2>2, <2>4, <2>5 DEF Mint, TypeOK
<1>6. ASSUME NEW ok \in SaveOk, NEW t \in tasks, Admit(t, ok) PROVE TypeOK'
  <2>1. t.token \in Token /\ t.peer \in Peer
    BY <1>6, TaskFields DEF Admit, TypeOK
  <2>2. mem' \in MembershipType /\ disk' \in MembershipType \cup {Torn}
    BY <1>0, <1>6, <2>1, RedeemInviteType, StoreType DEF Admit, TypeOK
  <2>3. [token |-> t.token, peer |-> t.peer, net |-> mem.net, at |-> now]
          \in Admission
    BY <2>1 DEF TypeOK, MembershipType, Admission
  <2>4. judged' \subseteq Token /\ told' \subseteq Admission
    BY <1>6, <2>1, <2>3 DEF Admit, TypeOK
  <2>5. acked' \in [members : SUBSET Peer, tokens : SUBSET Token]
    BY <1>6, <2>1 DEF Admit, TypeOK
  <2> QED
    BY <1>6, <2>2, <2>4, <2>5 DEF Admit, TypeOK
<1>7. ASSUME NEW t \in tasks, Refuse(t) PROVE TypeOK'
  <2>1. t.token \in Token /\ t.peer \in Peer
    BY <1>7, TaskFields DEF Refuse, TypeOK
  <2>2. mem' \in MembershipType
    BY <1>0, <1>7, <2>1, RedeemInviteType DEF Refuse, TypeOK
  <2>3. acked' \in [members : SUBSET Peer, tokens : SUBSET Token]
    BY <1>7 DEF Refuse, TypeOK
  <2> QED
    BY <1>7, <2>1, <2>2, <2>3 DEF Refuse, TypeOK
<1>8. ASSUME NEW k \in Token, NEW ttl \in AskedTtl, InviteCommand(k, ttl)
      PROVE  TypeOK'
  <2>1. [pc |-> "invite", token |-> k, ttl |-> Clamp(ttl)] \in Task
    BY ClampType DEF Task
  <2> QED
    BY <1>8, <2>1, BeginType DEF InviteCommand
<1>9. ASSUME NEW p \in Peer, NEW k \in Token, RecvJoin(p, k) PROVE TypeOK'
  <2>1. [pc |-> "redeem", token |-> k, peer |-> p] \in Task
    BY DEF Task
  <2> QED
    BY <1>9, <2>1, BeginType DEF RecvJoin
<1>10. ASSUME NEW time \in Clock, SetClock(time) PROVE TypeOK'
  <2>1. acked' \in [members : SUBSET Peer, tokens : SUBSET Token]
    BY <1>10 DEF SetClock, TypeOK
  <2> QED
    BY <1>10, <2>1 DEF SetClock, TypeOK
<1>11. CASE Crash
  BY <1>11, DefaultType DEF Crash, TypeOK
<1>12. CASE Load
  BY <1>12 DEF Load, TypeOK
<1>13. ASSUME NEW p \in Peer, Remove(p) PROVE TypeOK'
  <2>1. [pc |-> "remove", peer |-> p] \in Task
    BY DEF Task
  <2> QED
    BY <1>13, <2>1, BeginType DEF Remove
<1>14. ASSUME NEW p \in Peer, NEW others \in SUBSET Peer, RecvRoster(p, others)
       PROVE  TypeOK'
  <2>1. [pc |-> "apply", members |-> others \cup {p, Self}] \in Task
    BY <1>0 DEF Task
  <2> QED
    BY <1>14, <2>1, BeginType DEF RecvRoster
<1>15. ASSUME NEW ok \in SaveOk, NEW t \in tasks, DoApply(t, ok) PROVE TypeOK'
  <2>1. t.members \in SUBSET Node
    BY <1>15, TaskFields DEF DoApply, TypeOK
  <2>2. SetRoster(mem, Self, [members |-> t.members,
                              host |-> [i \in Node |-> NoName]])
          \in MembershipType
    BY <2>1, PushedType, ApplyRosterType DEF SetRoster, TypeOK
  <2>3. mem' \in MembershipType /\ disk' \in MembershipType \cup {Torn}
    BY <1>15, <2>2, StoreType DEF DoApply
  <2>4. acked' \in [members : SUBSET Peer, tokens : SUBSET Token]
    BY <1>15 DEF DoApply, TypeOK
  <2> QED
    BY <1>15, <2>3, <2>4 DEF DoApply, TypeOK
<1>16. CASE UNCHANGED vars
  BY <1>16 DEF vars, TypeOK
<1> QED
  BY <1>1, <1>2, <1>3, <1>4, <1>5, <1>6, <1>7, <1>8, <1>9, <1>10, <1>11, <1>12,
     <1>13, <1>14, <1>15, <1>16 DEF Next

\* The requests, the file and the records of what was promised stay well formed,
\* and no window is ever longer than the limit (ipc.rs, Invite).
THEOREM TypeCorrect == Spec => []TypeOK
BY TypeInit, TypeStep, PTL DEF Spec
-----------------------------------------------------------------------------
(* What the operations do to the invites and the members *)

\* A new network has no pending invites.
LEMMA CreateEffect ==
  ASSUME NEW m \in MembershipType, NEW fresh \in Nat
  PROVE  Create(m, Self, fresh, NoName).invites = {}
BY SelfAssumption DEF Create, MembershipType

\* A node that joins a network drops its pending invites.
LEMMA SetJoinedEffect ==
  ASSUME NEW m \in MembershipType, NEW c \in Node, NEW r
  PROVE  SetJoined(m, Self, c, r).invites = {}
<1> DEFINE joined == [m EXCEPT !.coord = c, !.net = NoNet, !.invites = {},
                               !.bind = [h \in Name |-> NoNode]]
<1>1. joined.invites = {} /\ DOMAIN joined = DOMAIN m
  BY DEF MembershipType
<1>2. ApplyRoster(joined, Self, r).invites = joined.invites
  BY <1>1 DEF ApplyRoster, MembershipType
<1> QED
  BY <1>1, <1>2 DEF SetJoined

\* Removing a member leaves the invites and the other members alone.
LEMMA RemoveEffect ==
  ASSUME NEW m \in MembershipType, NEW i \in Node
  PROVE  /\ RemoveMember(m, i).invites = m.invites
         /\ RemoveMember(m, i).members = m.members \ {i}
BY DEF RemoveMember, MembershipType

\* A push leaves the invites alone and lists everybody it names.
LEMMA ApplyEffect ==
  ASSUME NEW m \in MembershipType, NEW r \in Roster
  PROVE  /\ SetRoster(m, Self, r).invites = m.invites
         /\ r.members \subseteq SetRoster(m, Self, r).members
BY DEF SetRoster, ApplyRoster, MembershipType

\* Minting drops the expired invites and adds the new one.
LEMMA GenerateEffect ==
  ASSUME NEW m \in MembershipType, NEW k \in Token, NEW ttl, NEW time
  PROVE  /\ GenerateInvite(m, k, ttl, time).invites
              = {i \in m.invites : i.expires > time}
                  \cup {[token |-> k, net |-> m.net, expires |-> time + ttl]}
         /\ GenerateInvite(m, k, ttl, time).members = m.members
BY DEF GenerateInvite, MembershipType, Unexpired

\* A redemption leaves every live invite but the one presented, and no member
\* out; a successful one lists its bearer.
LEMMA RedeemEffect ==
  ASSUME NEW m \in MembershipType, NEW k \in Token, NEW p \in Node, NEW time
  PROVE  LET after == RedeemInvite(m, k, p, time)
         IN  /\ after.invites \subseteq {i \in m.invites : i.token # k}
             /\ \A i \in m.invites :
                  i.token # k /\ i.expires > time => i \in after.invites
             /\ m.members \subseteq after.members
             /\ Redeemable(m, k, time) => p \in after.members
BY DEF RedeemInvite, MembershipType, Unexpired, Redeemable

-----------------------------------------------------------------------------
(* The invariant is inductive *)

\* A step that adds no invite, no task, no code and no admission.
LEMMA QuietStep ==
  ASSUME Inv, mem'.invites \subseteq mem.invites,
         disk' \in {mem', disk, Torn}, tasks' \subseteq tasks,
         minted' = minted, told' = told
  PROVE  /\ CodesFit' /\ TasksFit' /\ WindowsFit'
         /\ OneAdmission' /\ AdmittedInWindow'
<1>1. Fits(mem)'
  BY DEF Inv, CodesFit, Fits
<1>2. disk # Torn => (Fits(disk)
                        /\ \A t \in tasks' : t \in tasks)
  BY DEF Inv, CodesFit
<1>3. (disk # Torn => Fits(disk))'
  BY <1>1, <1>2 DEF Fits
<1>4. TasksFit'
  BY DEF Inv, TasksFit
<1> QED
  BY <1>1, <1>3, <1>4
     DEF Inv, CodesFit, WindowsFit, OneAdmission, AdmittedInWindow

\* What holds of a membership where everything acknowledged is found.
Holds(m) ==
  /\ acked.members \subseteq m.members
  /\ \A t \in acked.tokens : \E i \in m.invites : i.token = t

\* What was acknowledged survives exactly if memory and file hold it.
LEMMA AckedHolds ==
  AckedSurvives <=> (up => Holds(mem)) /\ (disk # Torn => Holds(disk))
BY DEF AckedSurvives, Holds

\* With nothing acknowledged nothing can be lost.
LEMMA NothingAckedStep ==
  ASSUME NothingAcked
  PROVE  AckedFits' /\ AckedSurvives'
BY DEF NothingAcked, AckedFits, AckedSurvives

\* The pending invite of an acknowledged code has not expired.
LEMMA AckedLives ==
  ASSUME Inv, NEW m, Holds(m), Fits(m), NEW k \in acked.tokens
  PROVE  \E i \in m.invites : i.token = k /\ i.expires > now
<1>1. PICK i \in m.invites : i.token = k
  BY DEF Holds
<1>2. minted[k].expires > now
  BY DEF Inv, AckedFits
<1>3. now \in Nat /\ NotMinted.expires = 0
  BY TimeAssumption DEF Inv, TypeOK, Clock, NotMinted
<1>4. minted[k] # NotMinted
  BY <1>2, <1>3
<1> QED
  BY <1>1, <1>2, <1>4 DEF Fits

\* The inductive invariant holds initially.
LEMMA InvInit == Init => Inv
<1> SUFFICES ASSUME Init PROVE Inv
  OBVIOUS
<1>1. mem.invites = {} /\ (disk # Torn => disk.invites = {})
  BY DEF Init, Default
<1>2. CodesFit
  BY <1>1 DEF CodesFit, Fits
<1>3. TasksFit /\ OneAdmission /\ AdmittedInWindow /\ AckedFits
  BY DEF Init, TasksFit, OneAdmission, AdmittedInWindow, AckedFits
<1>4. WindowsFit
  BY TimeAssumption DEF Init, WindowsFit, NotMinted
<1>5. AckedSurvives
  BY DEF Init, AckedSurvives
<1> QED
  BY <1>2, <1>3, <1>4, <1>5, TypeInit DEF Inv

\* Minting a code preserves the inductive invariant.
LEMMA MintStep ==
  ASSUME Inv, TypeOK', NEW ok \in BOOLEAN, NEW t \in tasks, Mint(t, ok)
  PROVE  Inv'
<1> DEFINE new == [token |-> t.token, net |-> mem.net,
                   expires |-> now + t.ttl]
<1>1. /\ t.pc = "invite" /\ t.token \in Token /\ t.ttl \in 1 .. MaxTtl
      /\ now \in Nat /\ mem \in MembershipType /\ up
      /\ minted[t.token] = NotMinted
  BY TaskFields, TimeAssumption DEF Mint, Store, Inv, TypeOK, Clock, TasksFit
<1>2. /\ mem'.invites = {i \in mem.invites : i.expires > now} \cup {new}
      /\ mem'.members = mem.members
  BY <1>1, GenerateEffect DEF Mint, Store
<1>3. /\ tasks' = tasks \ {t} /\ told' = told /\ now' = now /\ up' = up
      /\ minted' \in {minted, [minted EXCEPT ![t.token] =
            [at |-> now, net |-> mem.net, expires |-> now + t.ttl]]}
      /\ disk' \in {mem', disk, Torn}
  BY DEF Mint, Store
<1>4. \A a \in told : a.token # t.token
  <2> SUFFICES ASSUME NEW a \in told PROVE a.token # t.token
    OBVIOUS
  <2>1. a.at < minted[a.token].expires /\ a.at \in Nat
    BY TimeAssumption DEF Inv, AdmittedInWindow, TypeOK, Admission, Clock
  <2> QED
    BY <1>1, <2>1 DEF NotMinted
<1>5. \A i \in mem.invites : i.token # t.token
  BY <1>1 DEF Inv, CodesFit, Fits
<1>6. disk # Torn => \A i \in disk.invites : i.token # t.token
  BY <1>1 DEF Inv, CodesFit, Fits
<1>7. \A k \in Token : k # t.token => minted'[k] = minted[k]
  BY <1>1, <1>3 DEF Inv, TypeOK
<1>8. mem.invites \subseteq Invite /\ (disk # Torn => disk.invites \subseteq Invite)
  BY DEF Inv, TypeOK, MembershipType
<1>9. Fits(mem)'
  <2> SUFFICES ASSUME NEW i \in mem'.invites
               PROVE  /\ minted'[i.token] # NotMinted =>
                           /\ i.net = minted'[i.token].net
                           /\ i.expires = minted'[i.token].expires
                      /\ \A u \in tasks' : u.pc = "invite" => u.token # i.token
                      /\ \A a \in told' : a.token # i.token
    BY DEF Fits, NotMinted
  <2>1. CASE i = new
    <3>1. \A u \in tasks' : u.pc = "invite" => u.token # i.token
      BY <1>1, <1>3, <2>1 DEF Inv, TasksFit
    <3>2. minted'[t.token] # NotMinted =>
            /\ minted'[t.token].net = mem.net
            /\ minted'[t.token].expires = now + t.ttl
      BY <1>1, <1>3 DEF Inv, TypeOK
    <3> QED
      BY <1>3, <1>4, <2>1, <3>1, <3>2
  <2>2. CASE i \in mem.invites
    <3>1. i.token \in Token /\ i.token # t.token
      BY <1>5, <1>8, <2>2 DEF Invite
    <3> QED
      BY <1>3, <1>7, <2>2, <3>1 DEF Inv, CodesFit, Fits
  <2> QED
    BY <1>2, <2>1, <2>2
<1>10. ASSUME disk' # Torn PROVE Fits(disk)'
  <2>1. CASE disk' = mem'
    BY <1>9, <2>1 DEF Fits
  <2>2. CASE disk' = disk
    <3> SUFFICES ASSUME NEW i \in disk.invites
                 PROVE  /\ minted'[i.token] # NotMinted =>
                             /\ i.net = minted'[i.token].net
                             /\ i.expires = minted'[i.token].expires
                        /\ \A u \in tasks' :
                             u.pc = "invite" => u.token # i.token
                        /\ \A a \in told' : a.token # i.token
      BY <2>2 DEF Fits, NotMinted
    <3>1. i.token \in Token /\ i.token # t.token
      BY <1>6, <1>8, <1>10, <2>2 DEF Invite
    <3> QED
      BY <1>3, <1>7, <1>10, <2>2, <3>1 DEF Inv, CodesFit, Fits
  <2> QED
    BY <1>3, <1>10, <2>1, <2>2
<1>11. TasksFit'
  <2>1. \A u \in tasks' : /\ u \in tasks /\ u # t
                          /\ u.pc \in {"invite", "redeem"} => u.token \in Token
    BY <1>3, TaskFields DEF Inv, TypeOK
  <2>2. \A u \in tasks' : u.pc = "invite" => u.token # t.token
    BY <1>1, <2>1 DEF Inv, TasksFit
  <2>3. \A u \in tasks' : u.pc = "redeem" => u.token # t.token
    BY <1>1, <2>1 DEF Inv, TasksFit
  <2> QED
    BY <1>7, <2>1, <2>2, <2>3 DEF Inv, TasksFit, NotMinted
<1>12. WindowsFit'
  BY <1>1, <1>3, TimeAssumption DEF Inv, TypeOK, WindowsFit
<1>13. OneAdmission' /\ AdmittedInWindow'
  <2>1. \A a \in told' : a \in told /\ a.token \in Token /\ a.token # t.token
    BY <1>3, <1>4 DEF Inv, TypeOK, Admission
  <2> QED
    BY <1>3, <1>7, <2>1 DEF Inv, OneAdmission, AdmittedInWindow
<1>14. AckedFits'
  <2>1. \A k \in acked.tokens : k \in Token /\ k # t.token
    BY <1>1 DEF Inv, TypeOK, AckedFits, NotMinted
  <2>2. ok => minted'[t.token].expires > now
    BY <1>1 DEF Mint, Inv, TypeOK
  <2>3. acked'.tokens \subseteq acked.tokens \cup (IF ok THEN {t.token} ELSE {})
    BY DEF Mint, Inv, TypeOK
  <2> QED
    BY <1>3, <1>7, <2>1, <2>2, <2>3 DEF Inv, AckedFits
<1>15. AckedSurvives'
  <2>1. Holds(mem) /\ Fits(mem) /\ (disk # Torn => Holds(disk))
    BY <1>1, AckedHolds DEF Inv, CodesFit
  <2>2. \A k \in acked.tokens : \E i \in mem'.invites : i.token = k
    BY <1>2, <2>1, AckedLives
  <2>3. new \in mem'.invites /\ new.token = t.token
    BY <1>2
  <2>4. /\ acked'.members = acked.members
        /\ ok => acked'.tokens = acked.tokens \cup {t.token}
        /\ ~ ok => acked'.tokens = acked.tokens
    BY DEF Mint, Inv, TypeOK
  <2>5. Holds(mem)'
    BY <1>2, <2>1, <2>2, <2>3, <2>4 DEF Holds
  <2>6. ~ ok /\ disk' # Torn => disk' = disk
    BY DEF Mint, Store
  <2>7. ok => disk' = mem'
    BY DEF Mint, Store
  <2>8. disk' # Torn => Holds(disk)'
    BY <2>1, <2>4, <2>5, <2>6, <2>7 DEF Holds
  <2> QED
    BY <2>5, <2>8, AckedHolds DEF AckedSurvives, Holds
<1> QED
  BY <1>9, <1>10, <1>11, <1>12, <1>13, <1>14, <1>15 DEF Inv, CodesFit

\* A redemption burns its code, keeps the members and every other
\* acknowledged code, and lists the bearer of a live one.
LEMMA RedeemStep ==
  ASSUME Inv, NEW t \in tasks, t.pc = "redeem", up,
         mem' = RedeemInvite(mem, t.token, t.peer, now)
  PROVE  /\ t.token \in Token /\ t.peer \in Peer
         /\ mem'.invites \subseteq {i \in mem.invites : i.token # t.token}
         /\ mem.members \subseteq mem'.members
         /\ Redeemable(mem, t.token, now) => t.peer \in mem'.members
         /\ \A k \in acked.tokens \ {t.token} :
              \E i \in mem'.invites : i.token = k
<1>1. t.token \in Token /\ t.peer \in Peer /\ t.peer \in Node
  BY TaskFields DEF Inv, TypeOK, Peer
<1>2. mem \in MembershipType /\ Holds(mem) /\ Fits(mem)
  BY AckedHolds DEF Inv, TypeOK, CodesFit
<1>3. /\ mem'.invites \subseteq {i \in mem.invites : i.token # t.token}
      /\ \A i \in mem.invites :
           i.token # t.token /\ i.expires > now => i \in mem'.invites
      /\ mem.members \subseteq mem'.members
      /\ Redeemable(mem, t.token, now) => t.peer \in mem'.members
  BY <1>1, <1>2, RedeemEffect
<1>4. \A k \in acked.tokens \ {t.token} : \E i \in mem'.invites : i.token = k
  BY <1>2, <1>3, AckedLives
<1> QED
  BY <1>1, <1>3, <1>4

\* Refusing a code preserves the inductive invariant.
LEMMA RefuseStep ==
  ASSUME Inv, TypeOK', NEW t \in tasks, Refuse(t)
  PROVE  Inv'
<1>1. /\ mem'.invites \subseteq mem.invites
      /\ mem.members \subseteq mem'.members
      /\ \A k \in acked.tokens \ {t.token} :
           \E i \in mem'.invites : i.token = k
  BY RedeemStep DEF Refuse
<1>2. /\ CodesFit' /\ TasksFit' /\ WindowsFit'
      /\ OneAdmission' /\ AdmittedInWindow'
  BY <1>1, QuietStep DEF Refuse
<1>3. /\ acked'.members = acked.members
      /\ acked'.tokens = acked.tokens \ {t.token}
  BY DEF Refuse, Inv, TypeOK
<1>4. AckedFits'
  BY <1>3 DEF Refuse, Inv, AckedFits
<1>5. AckedSurvives'
  BY <1>1, <1>3 DEF Refuse, Inv, AckedSurvives
<1> QED
  BY <1>2, <1>4, <1>5 DEF Inv

\* Admitting a peer preserves the inductive invariant, saved or not.
LEMMA AdmitStep ==
  ASSUME Inv, TypeOK', NEW ok \in BOOLEAN, NEW t \in tasks, Admit(t, ok)
  PROVE  Inv'
<1> DEFINE new == [token |-> t.token, peer |-> t.peer, net |-> mem.net,
                   at |-> now]
<1>1. /\ t.token \in Token /\ t.peer \in Peer
      /\ mem'.invites \subseteq {i \in mem.invites : i.token # t.token}
      /\ mem.members \subseteq mem'.members
      /\ t.peer \in mem'.members
      /\ \A k \in acked.tokens \ {t.token} :
           \E i \in mem'.invites : i.token = k
  BY RedeemStep DEF Admit, Store
<1>2. PICK i \in mem.invites : i.token = t.token /\ IsLive(i, mem.net, now)
  BY DEF Admit, Redeemable
<1>3. /\ mem.net = minted[t.token].net /\ mem.net # NoNet
      /\ now < minted[t.token].expires
      /\ \A a \in told : a.token # t.token
  <2>1. minted[t.token] # NotMinted
    BY DEF Admit, Inv, TasksFit
  <2>2. /\ i.net = minted[t.token].net /\ i.expires = minted[t.token].expires
        /\ \A a \in told : a.token # t.token
    BY <1>2, <2>1 DEF Inv, CodesFit, Fits
  <2>3. i.net = mem.net /\ i.net # NoNet /\ i.expires > now
    BY <1>2 DEF IsLive
  <2>4. i.expires \in Nat /\ now \in Nat
    BY TimeAssumption DEF Inv, TypeOK, MembershipType, Invite, Clock
  <2> QED
    BY <2>2, <2>3, <2>4
<1>4. CASE ~ ok
  <2>1. /\ CodesFit' /\ TasksFit' /\ WindowsFit'
        /\ OneAdmission' /\ AdmittedInWindow'
    BY <1>1, <1>4, QuietStep DEF Admit, Store
  <2>2. /\ acked'.members = acked.members
        /\ acked'.tokens = acked.tokens \ {t.token}
    BY <1>4 DEF Admit, Inv, TypeOK
  <2>3. AckedFits'
    BY <2>2 DEF Admit, Inv, AckedFits
  <2>4. Holds(mem)'
    BY <1>1, <2>2, AckedHolds DEF Admit, Store, Inv, Holds
  <2>5. disk' # Torn => disk' = disk
    BY <1>4 DEF Admit, Store
  <2>6. disk' # Torn => Holds(disk)'
    BY <2>2, <2>5, AckedHolds DEF Inv, Holds
  <2> QED
    BY <2>1, <2>3, <2>4, <2>6 DEF Inv, AckedSurvives, Holds
<1>5. CASE ok
  <2>1. /\ disk' = mem' /\ tasks' = tasks \ {t} /\ told' = told \cup {new}
        /\ UNCHANGED <<now, minted, up>>
    BY <1>5 DEF Admit, Store
  <2>2. /\ acked'.members = acked.members \cup {t.peer}
        /\ acked'.tokens = acked.tokens \ {t.token}
    BY <1>5 DEF Admit
  <2>3. Fits(mem)'
    <3> SUFFICES ASSUME NEW j \in mem'.invites
                 PROVE  /\ minted[j.token] # NotMinted =>
                             /\ j.net = minted[j.token].net
                             /\ j.expires = minted[j.token].expires
                        /\ \A u \in tasks' :
                             u.pc = "invite" => u.token # j.token
                        /\ \A a \in told' : a.token # j.token
      BY <2>1 DEF Fits, NotMinted
    <3>1. j \in mem.invites /\ j.token # t.token
      BY <1>1
    <3> QED
      BY <2>1, <3>1 DEF Inv, CodesFit, Fits
  <2>4. CodesFit'
    BY <2>1, <2>3 DEF CodesFit, Fits
  <2>5. TasksFit' /\ WindowsFit'
    BY <2>1 DEF Inv, TasksFit, WindowsFit, NotMinted
  <2>6. OneAdmission'
    BY <1>3, <2>1 DEF Inv, OneAdmission
  <2>7. AdmittedInWindow'
    <3> SUFFICES ASSUME NEW a \in told'
                 PROVE  /\ a.net = minted[a.token].net /\ a.net # NoNet
                        /\ a.at < minted[a.token].expires
                        /\ minted[a.token].expires
                             <= minted[a.token].at + MaxTtl
      BY <2>1 DEF AdmittedInWindow
    <3>1. CASE a = new
      BY <1>1, <1>3, <3>1 DEF Inv, WindowsFit
    <3>2. CASE a \in told
      BY <3>2 DEF Inv, AdmittedInWindow
    <3> QED
      BY <2>1, <3>1, <3>2
  <2>8. AckedFits'
    BY <2>1, <2>2 DEF Inv, AckedFits
  <2>9. Holds(mem)'
    BY <1>1, <2>2, AckedHolds DEF Admit, Store, Inv, Holds
  <2> QED
    BY <2>1, <2>4, <2>5, <2>6, <2>7, <2>8, <2>9 DEF Inv, AckedSurvives, Holds
<1> QED
  BY <1>4, <1>5

\* A step that takes members away, and from what is acknowledged as many.
LEMMA LossStep ==
  ASSUME Inv, TypeOK', up, mem'.invites = mem.invites,
         disk' \in {mem', disk, Torn}, tasks' \subseteq tasks,
         UNCHANGED <<up, now, minted, told>>,
         acked'.tokens = acked.tokens,
         acked'.members \subseteq acked.members,
         acked.members \subseteq mem.members
           => acked'.members \subseteq mem'.members
  PROVE  Inv'
<1>1. /\ CodesFit' /\ TasksFit' /\ WindowsFit'
      /\ OneAdmission' /\ AdmittedInWindow'
  BY QuietStep
<1>2. AckedFits'
  BY DEF Inv, AckedFits
<1>3. Holds(mem)'
  BY AckedHolds DEF Inv, Holds
<1>4. disk' # Torn => Holds(disk)'
  BY <1>3, AckedHolds DEF Inv, Holds
<1> QED
  BY <1>1, <1>2, <1>3, <1>4 DEF Inv, AckedSurvives, Holds

\* A check that passes: what it leaves behind mints nothing, and redeems only a
\* code that was handed out.
LEMMA BeginStep ==
  ASSUME Inv, TypeOK', NEW task, Begin(task), task.pc # "invite",
         task.pc = "redeem" => minted[task.token] # NotMinted
  PROVE  Inv'
<1>1. CodesFit'
  BY DEF Begin, Inv, CodesFit, Fits, NotMinted
<1>2. TasksFit'
  BY DEF Begin, Inv, TasksFit, NotMinted
<1>3. WindowsFit' /\ AckedFits' /\ OneAdmission' /\ AdmittedInWindow'
  BY DEF Begin, Inv, WindowsFit, AckedFits, OneAdmission, AdmittedInWindow
<1>4. AckedSurvives'
  BY DEF Begin, Inv, AckedSurvives
<1> QED
  BY <1>1, <1>2, <1>3, <1>4 DEF Inv

\* The invariant is inductive.
LEMMA InvStep == Inv /\ [Next]_vars => Inv'
<1> SUFFICES ASSUME Inv, [Next]_vars PROVE Inv'
  OBVIOUS
<1> USE SaveAssumption
<1>0. TypeOK'
  BY TypeStep DEF Inv
<1>1. ASSUME NEW ok \in SaveOk, CreateNetwork(ok) PROVE Inv'
  <2>1. mem'.invites = {}
    BY <1>1, CreateEffect DEF CreateNetwork, Store, Inv, TypeOK
  <2> QED
    BY <1>0, <1>1, <2>1, QuietStep, NothingAckedStep
       DEF CreateNetwork, Store, Inv
<1>2. ASSUME NEW ok \in SaveOk, LeaveNetwork(ok) PROVE Inv'
  <2>1. mem'.invites = {}
    BY <1>2 DEF LeaveNetwork, Store, Leave, Default
  <2> QED
    BY <1>0, <1>2, <2>1, QuietStep, NothingAckedStep
       DEF LeaveNetwork, Store, Inv
<1>3. ASSUME NEW ok \in SaveOk, NEW p \in Peer, JoinElsewhere(p, ok)
      PROVE  Inv'
  <2>1. mem'.invites = {}
    BY <1>3, SetJoinedEffect DEF JoinElsewhere, Store, Inv, TypeOK, Peer
  <2> QED
    BY <1>0, <1>3, <2>1, QuietStep, NothingAckedStep
       DEF JoinElsewhere, Store, Inv
<1>4. ASSUME NEW ok \in SaveOk, NEW t \in tasks, DoRemove(t, ok) PROVE Inv'
  <2>1. /\ mem'.invites = mem.invites
        /\ mem.members \ {t.peer} \subseteq mem'.members
        /\ disk' \in {mem', disk, Torn}
    <3>1. t.peer \in Node
      BY <1>4, TaskFields DEF DoRemove, Inv, TypeOK, Peer
    <3> QED
      BY <1>4, <3>1, RemoveEffect DEF DoRemove, Store, Inv, TypeOK
  <2>2. /\ acked'.members = acked.members \ {t.peer}
        /\ acked'.tokens = acked.tokens
    BY <1>4 DEF DoRemove, Inv, TypeOK
  <2> QED
    BY <1>0, <1>4, <2>1, <2>2, LossStep DEF DoRemove
<1>5. ASSUME NEW ok \in SaveOk, NEW t \in tasks, Mint(t, ok) PROVE Inv'
  BY <1>0, <1>5, MintStep
<1>6. ASSUME NEW ok \in SaveOk, NEW t \in tasks, Admit(t, ok) PROVE Inv'
  BY <1>0, <1>6, AdmitStep
<1>7. ASSUME NEW t \in tasks, Refuse(t) PROVE Inv'
  BY <1>0, <1>7, RefuseStep
<1>8. ASSUME NEW k \in Token, NEW ttl \in AskedTtl, InviteCommand(k, ttl)
      PROVE  Inv'
  <2>1. CodesFit'
    BY <1>8 DEF InviteCommand, Begin, Inv, CodesFit, Fits, NotMinted
  <2>2. TasksFit'
    BY <1>8 DEF InviteCommand, Begin, Inv, TasksFit, NotMinted
  <2>3. WindowsFit' /\ AckedFits' /\ OneAdmission' /\ AdmittedInWindow'
    BY <1>8 DEF InviteCommand, Begin, Inv, WindowsFit, AckedFits, OneAdmission,
                AdmittedInWindow
  <2>4. AckedSurvives'
    BY <1>8 DEF InviteCommand, Begin, Inv, AckedSurvives
  <2> QED
    BY <1>0, <2>1, <2>2, <2>3, <2>4 DEF Inv
<1>9. ASSUME NEW p \in Peer, NEW k \in Token, RecvJoin(p, k) PROVE Inv'
  BY <1>0, <1>9, BeginStep DEF RecvJoin
<1>10. ASSUME NEW time \in Clock, SetClock(time) PROVE Inv'
  <2>1. /\ CodesFit' /\ TasksFit' /\ WindowsFit'
        /\ OneAdmission' /\ AdmittedInWindow'
    BY <1>10, QuietStep DEF SetClock
  <2>2. /\ acked'.members = acked.members
        /\ acked'.tokens = {k \in acked.tokens : minted[k].expires > time}
    BY <1>10 DEF SetClock, Inv, TypeOK
  <2>3. AckedFits'
    BY <1>10, <2>2 DEF SetClock, AckedFits
  <2>4. AckedSurvives'
    BY <1>10, <2>2 DEF SetClock, Inv, AckedSurvives
  <2> QED
    BY <1>0, <2>1, <2>3, <2>4 DEF Inv
<1>11. CASE Crash
  <2>1. mem'.invites = {}
    BY <1>11 DEF Crash, Default
  <2>2. /\ CodesFit' /\ TasksFit' /\ WindowsFit'
        /\ OneAdmission' /\ AdmittedInWindow'
    BY <1>11, <2>1, QuietStep DEF Crash
  <2>3. AckedFits' /\ AckedSurvives'
    BY <1>11 DEF Crash, Inv, AckedFits, AckedSurvives
  <2> QED
    BY <1>0, <2>2, <2>3 DEF Inv
<1>12. CASE Load
  <2>1. CodesFit'
    BY <1>12 DEF Load, Inv, CodesFit, Fits, NotMinted
  <2>2. TasksFit' /\ WindowsFit' /\ AckedFits'
    BY <1>12 DEF Load, Inv, TasksFit, WindowsFit, AckedFits, NotMinted
  <2>3. OneAdmission' /\ AdmittedInWindow'
    BY <1>12 DEF Load, Inv, OneAdmission, AdmittedInWindow
  <2>4. AckedSurvives'
    BY <1>12 DEF Load, Inv, AckedSurvives
  <2> QED
    BY <1>0, <2>1, <2>2, <2>3, <2>4 DEF Inv
<1>13. ASSUME NEW p \in Peer, Remove(p) PROVE Inv'
  <2> DEFINE task == [pc |-> "remove", peer |-> p]
  <2>1. task.pc = "remove" /\ Begin(task)
    BY <1>13 DEF Remove
  <2> QED
    BY <1>0, <2>1, BeginStep
<1>14. ASSUME NEW p \in Peer, NEW others \in SUBSET Peer, RecvRoster(p, others)
       PROVE  Inv'
  <2> DEFINE task == [pc |-> "apply", members |-> others \cup {p, Self}]
  <2>1. task.pc = "apply" /\ Begin(task)
    BY <1>14 DEF RecvRoster
  <2> QED
    BY <1>0, <2>1, BeginStep
<1>15. ASSUME NEW ok \in SaveOk, NEW t \in tasks, DoApply(t, ok) PROVE Inv'
  <2> DEFINE r == [members |-> t.members, host |-> [i \in Node |-> NoName]]
  <2>1. r \in Roster /\ r.members = t.members
    BY <1>15, TaskFields, PushedType DEF DoApply, Inv, TypeOK
  <2>2. mem' = SetRoster(mem, Self, r) /\ disk' \in {mem', disk, Torn}
    BY <1>15 DEF DoApply, Store
  <2>3. mem'.invites = mem.invites /\ t.members \subseteq mem'.members
    BY <2>1, <2>2, ApplyEffect DEF Inv, TypeOK
  <2>4. /\ acked'.members = acked.members \cap t.members
        /\ acked'.tokens = acked.tokens
    BY <1>15 DEF DoApply, Inv, TypeOK
  <2> QED
    BY <1>0, <1>15, <2>2, <2>3, <2>4, LossStep DEF DoApply, Store
<1>16. CASE UNCHANGED vars
  <2>1. /\ CodesFit' /\ TasksFit' /\ WindowsFit'
        /\ OneAdmission' /\ AdmittedInWindow'
    BY <1>16, QuietStep DEF vars
  <2>2. AckedFits' /\ AckedSurvives'
    BY <1>16 DEF vars, Inv, AckedFits, AckedSurvives
  <2> QED
    BY <1>0, <2>1, <2>2 DEF Inv
<1> QED
  BY <1>1, <1>2, <1>3, <1>4, <1>5, <1>6, <1>7, <1>8, <1>9, <1>10, <1>11, <1>12,
     <1>13, <1>14, <1>15, <1>16 DEF Next

\* The pending invites in memory and in the file always agree with the codes
\* that were handed out: the fact that everything else rests on.
THEOREM InviteInvariant == Spec => []Inv
BY InvInit, InvStep, PTL DEF Spec

\* A code admits one peer, once, whatever redemptions run side by side, saves
\* fail and restarts happen (state.rs, redeem_invite).
THEOREM SingleUse == Spec => []OneAdmission
<1>1. Inv => OneAdmission
  BY DEF Inv
<1> QED
  BY <1>1, InviteInvariant, PTL

\* Whoever is told it joined presented a code of that very network within its
\* window (membership.rs, is_live), wherever the node has been since.
THEOREM InWindow == Spec => []AdmittedInWindow
<1>1. Inv => AdmittedInWindow
  BY DEF Inv
<1> QED
  BY <1>1, InviteInvariant, PTL

\* An admission or a code that was acknowledged survives failed saves, restarts
\* and every request under way until it is revoked, used or expired, the node
\* leaves its network, or a roster pushed for the network before is applied to
\* this one and leaves the peer out (state.rs saves before it answers).
THEOREM Durable == Spec => []AckedSurvives
<1>1. Inv => AckedSurvives
  BY DEF Inv
<1> QED
  BY <1>1, InviteInvariant, PTL
=============================================================================
