------------------------------ MODULE DnsProofs -------------------------------
(***************************************************************************)
(* Proofs about the two halves of quix's DNS: module Resolver, which       *)
(* answers for the zone, for any nodes, names, rosters, questions and      *)
(* changes of the membership; and module Registration, which makes the     *)
(* system ask it, for any limits on waits and counters and any number of   *)
(* hanging commands, killed daemons and restarts.                          *)
(***************************************************************************)
EXTENDS Resolver, Registration, MembershipProofs, FiniteSetTheorems

-----------------------------------------------------------------------------
(* The resolver: the inductive invariant *)

\* A hostname is the hostname of a member.
Listed(v) == \A i \in Node : v.host[i] # NoName => i \in v.members

\* What a loop has read was there at some moment since the message came: the
\* hostnames at one, the members maybe at another.
HostSeen(t) == \E v \in t.seen : v.host = t.host
MembersSeen(t) == \E v \in t.seen : v.members = t.members

\* What the records and the code of one reply say.
AnswersHeld(t) ==
  \A r \in t.answers :
    /\ \E v \in t.seen : Bears(v, r.node, r.question.label)
    /\ \E v \in t.seen : About(v, r.question)
CodeHonest(t) ==
  /\ t.rcode = "NXDOMAIN" =>
       \A q \in t.query, i \in Node :
         \E v \in t.seen : ~ (Bears(v, i, q.label) /\ About(v, q))
  /\ t.rcode = "NOERROR" =>
       \E q \in t.query, i \in Node, v \in t.seen : Bears(v, i, q.label)

\* One loop, while the membership shows the view `now'.
LoopFits(t, now) ==
  /\ t \in Loop
  /\ t \in Answering => now \in t.seen /\ \A v \in t.seen : Listed(v)
  /\ t \in AwaitsAddrs \cup AwaitsNetwork => HostSeen(t)
  /\ t \in AwaitsNetwork => MembersSeen(t)
  /\ t \in HasReplied => AnswersHeld(t) /\ CodeHonest(t)

ResolverInv ==
  /\ ResolverTypeOK
  /\ Listed(mem)
  /\ \A a \in Address : LoopFits(loop[a], Now)

-----------------------------------------------------------------------------
(* The resolver: the changes of a membership *)

\* Only members get a name (membership.rs, assign).
LEMMA BindListed ==
  ASSUME NEW m \in MembershipType, Listed(m), NEW i \in Node, NEW h \in Name
  PROVE  Listed(Bind(m, i, h))
BY DEF Bind, Listed, MembershipType

\* A name that is taken away leaves the rest as it is.
LEMMA ReleaseListed ==
  ASSUME NEW m \in MembershipType, Listed(m), NEW h \in Name
  PROVE  Listed(Release(m, h))
BY DEF Release, Listed, MembershipType

\* A claim names a member, forced or not.
LEMMA ClaimListed ==
  ASSUME NEW m \in MembershipType, Listed(m), NEW i \in Node, NEW h \in Name,
         NEW force \in BOOLEAN
  PROVE  Listed(ClaimHostname(m, i, h, force))
<1>1. Assigned(m, i, h, force) \in Name
  BY AssignedType
<1> QED
  BY <1>1, ReleaseType, ReleaseListed, BindListed DEF ClaimHostname

\* A created network has one member and no name but that member's.
LEMMA CreateListed ==
  ASSUME NEW m \in MembershipType, NEW self \in Node, NEW fresh \in Nat,
         NEW h \in OptName
  PROVE  Listed(Create(m, self, fresh, h))
<1> DEFINE alone == [m EXCEPT !.coord = self, !.net = fresh, !.invites = {},
                              !.members = {self},
                              !.host = [i \in Node |-> NoName]]
<1>1. alone \in MembershipType /\ Listed(alone)
  BY DEF MembershipType, OptNode, OptName, Listed
<1>2. h # NoName => h \in Name
  BY DEF OptName
<1> QED
  BY <1>1, <1>2, BindListed DEF Create

\* Whatever a roster says, names are taken from its own entries.
LEMMA RosterListed ==
  ASSUME NEW m \in MembershipType, NEW self \in Node, NEW r \in Roster
  PROVE  Listed(ApplyRoster(m, self, r))
BY DEF ApplyRoster, Listed, MembershipType, Roster

\* The same for the roster a node joins with.
LEMMA JoinedListed ==
  ASSUME NEW m \in MembershipType, NEW self \in Node, NEW c \in Node,
         NEW r \in Roster
  PROVE  Listed(SetJoined(m, self, c, r))
<1> DEFINE fresh == [m EXCEPT !.coord = c, !.net = NoNet, !.invites = {},
                              !.bind = [h \in Name |-> NoNode]]
<1>1. fresh \in MembershipType
  BY DEF MembershipType, OptNode
<1> QED
  BY <1>1, RosterListed DEF SetJoined

\* Who goes leaves no name behind.
LEMMA RemoveListed ==
  ASSUME NEW m \in MembershipType, Listed(m), NEW i \in Node
  PROVE  Listed(RemoveMember(m, i))
BY DEF RemoveMember, Listed, MembershipType

\* One more member takes no name from anybody.
LEMMA AdmitListed ==
  ASSUME NEW m \in MembershipType, Listed(m), NEW i \in Node
  PROVE  /\ [m EXCEPT !.members = @ \cup {i}] \in MembershipType
         /\ Listed([m EXCEPT !.members = @ \cup {i}])
BY DEF Listed, MembershipType

-----------------------------------------------------------------------------
(* The resolver: one loop *)

\* Where a loop is says what it holds.
LEMMA LoopAt ==
  ASSUME NEW t \in Loop
  PROVE  /\ t.pc = "idle" <=> t = Idle
         /\ t.pc = "hostnames" <=> t \in AwaitsHostnames
         /\ t.pc = "addresses" <=> t \in AwaitsAddrs
         /\ t.pc = "network" <=> t \in AwaitsNetwork
         /\ t.pc = "sent" <=> t \in HasReplied
         /\ t.pc \in {"hostnames", "addresses", "network"} <=> t \in Answering
<1>1. /\ Idle.pc = "idle"
      /\ \A x \in AwaitsHostnames : x.pc = "hostnames"
      /\ \A x \in AwaitsAddrs : x.pc = "addresses"
      /\ \A x \in AwaitsNetwork : x.pc = "network"
      /\ \A x \in HasReplied : x.pc = "sent"
  BY DEF Idle, AwaitsHostnames, AwaitsAddrs, AwaitsNetwork, HasReplied
<1> QED
  BY <1>1 DEF Loop, Answering

\* A loop that waits for a message satisfies all there is to satisfy.
LEMMA IdleFits ==
  ASSUME NEW now
  PROVE  LoopFits(Idle, now)
<1>1. Idle \in Loop /\ Idle.pc = "idle"
  BY DEF Loop, Idle
<1>2. /\ Idle \notin Answering /\ Idle \notin HasReplied
      /\ Idle \notin AwaitsAddrs /\ Idle \notin AwaitsNetwork
  BY <1>1, LoopAt
<1> QED
  BY <1>1, <1>2 DEF LoopFits

\* The view of a well-formed membership is a view.
LEMMA ViewType ==
  ASSUME NEW m \in MembershipType, NEW t \in OptTitle
  PROVE  View(m, t) \in Views
BY DEF View, Views, MembershipType

\* A change of the membership only adds to what a loop under way has seen.
LEMMA SeesMore ==
  ASSUME NEW now, NEW t, LoopFits(t, now), t \in Answering,
         NEW v \in Views, Listed(v)
  PROVE  LoopFits([t EXCEPT !.seen = @ \cup {v}], v)
<1> DEFINE u == [t EXCEPT !.seen = @ \cup {v}]
<1>1. CASE t \in AwaitsHostnames
  <2>1. u \in AwaitsHostnames /\ u.seen = t.seen \cup {v}
    BY <1>1 DEF AwaitsHostnames
  <2> HIDE DEF u
  <2>2. u \in Loop /\ u.pc = "hostnames"
    BY <2>1 DEF Loop, Answering, AwaitsHostnames
  <2>3. u \notin AwaitsAddrs /\ u \notin AwaitsNetwork /\ u \notin HasReplied
    BY <2>2, LoopAt
  <2>4. \A w \in t.seen : Listed(w)
    BY DEF LoopFits
  <2>5. LoopFits(u, v)
    BY <2>1, <2>2, <2>3, <2>4 DEF LoopFits
  <2> QED
    BY <2>5 DEF u
<1>2. CASE t \in AwaitsAddrs
  <2>1. /\ u \in AwaitsAddrs /\ u.seen = t.seen \cup {v} /\ u.host = t.host
    BY <1>2 DEF AwaitsAddrs
  <2> HIDE DEF u
  <2>2. u \in Loop /\ u.pc = "addresses"
    BY <2>1 DEF Loop, Answering, AwaitsAddrs
  <2>3. u \notin AwaitsNetwork /\ u \notin HasReplied
    BY <2>2, LoopAt
  <2>4. HostSeen(t) /\ \A w \in t.seen : Listed(w)
    BY <1>2 DEF LoopFits
  <2>5. HostSeen(u)
    BY <2>1, <2>4 DEF HostSeen
  <2>6. LoopFits(u, v)
    BY <2>1, <2>2, <2>3, <2>4, <2>5 DEF LoopFits
  <2> QED
    BY <2>6 DEF u
<1>3. CASE t \in AwaitsNetwork
  <2>1. /\ u \in AwaitsNetwork /\ u.seen = t.seen \cup {v}
        /\ u.host = t.host /\ u.members = t.members
    BY <1>3 DEF AwaitsNetwork
  <2> HIDE DEF u
  <2>2. u \in Loop /\ u.pc = "network"
    BY <2>1 DEF Loop, Answering, AwaitsNetwork
  <2>3. u \notin HasReplied
    BY <2>2, LoopAt
  <2>4. HostSeen(t) /\ MembersSeen(t) /\ \A w \in t.seen : Listed(w)
    BY <1>3 DEF LoopFits
  <2>5. HostSeen(u) /\ MembersSeen(u)
    BY <2>1, <2>4 DEF HostSeen, MembersSeen
  <2>6. LoopFits(u, v)
    BY <2>1, <2>2, <2>3, <2>4, <2>5 DEF LoopFits
  <2> QED
    BY <2>6 DEF u
<1> QED
  BY <1>1, <1>2, <1>3 DEF Answering

\* A message arrives: what is there now is the first thing seen.
LEMMA ReceiveFits ==
  ASSUME NEW now \in Views, Listed(now), NEW query \in Query \cup {Malformed}
  PROVE  LoopFits([pc |-> "hostnames", query |-> query, seen |-> {now}], now)
<1> DEFINE u == [pc |-> "hostnames", query |-> query, seen |-> {now}]
<1>1. u \in AwaitsHostnames /\ u.seen = {now} /\ u.pc = "hostnames"
  BY DEF AwaitsHostnames
<1> HIDE DEF u
<1>2. u \in Loop
  BY <1>1 DEF Loop, Answering
<1>3. u \notin AwaitsAddrs /\ u \notin AwaitsNetwork /\ u \notin HasReplied
  BY <1>1, <1>2, LoopAt
<1>4. LoopFits(u, now)
  BY <1>1, <1>2, <1>3 DEF LoopFits
<1> QED
  BY <1>4 DEF u

\* The hostnames that are read are those of now.
LEMMA HostnamesFit ==
  ASSUME NEW now \in Views, NEW t, LoopFits(t, now), t.pc = "hostnames"
  PROVE  LoopFits([pc |-> "addresses", query |-> t.query, seen |-> t.seen,
                   host |-> now.host], now)
<1> DEFINE u == [pc |-> "addresses", query |-> t.query, seen |-> t.seen,
                 host |-> now.host]
<1>1. t \in AwaitsHostnames /\ t \in Answering
  BY LoopAt DEF LoopFits, Answering
<1>2. u \in AwaitsAddrs /\ u.seen = t.seen /\ u.host = now.host
  BY <1>1 DEF AwaitsAddrs, AwaitsHostnames, Views
<1> HIDE DEF u
<1>3. u \in Loop /\ u.pc = "addresses"
  BY <1>2 DEF Loop, Answering, AwaitsAddrs
<1>4. u \notin AwaitsNetwork /\ u \notin HasReplied
  BY <1>3, LoopAt
<1>5. now \in t.seen /\ \A w \in t.seen : Listed(w)
  BY <1>1 DEF LoopFits
<1>6. HostSeen(u)
  BY <1>2, <1>5 DEF HostSeen
<1>7. LoopFits(u, now)
  BY <1>2, <1>3, <1>4, <1>5, <1>6 DEF LoopFits
<1> QED
  BY <1>7 DEF u

\* The members that are read are those of now, and the hostnames may be older.
LEMMA AddrsFit ==
  ASSUME NEW now \in Views, NEW t, LoopFits(t, now), t.pc = "addresses"
  PROVE  LoopFits([pc |-> "network", query |-> t.query, seen |-> t.seen,
                   host |-> t.host, members |-> now.members], now)
<1> DEFINE u == [pc |-> "network", query |-> t.query, seen |-> t.seen,
                 host |-> t.host, members |-> now.members]
<1>1. t \in AwaitsAddrs /\ t \in Answering
  BY LoopAt DEF LoopFits, Answering
<1>2. /\ u \in AwaitsNetwork /\ u.seen = t.seen /\ u.host = t.host
      /\ u.members = now.members
  BY <1>1 DEF AwaitsAddrs, AwaitsNetwork, Views
<1> HIDE DEF u
<1>3. u \in Loop /\ u.pc = "network"
  BY <1>2 DEF Loop, Answering, AwaitsNetwork
<1>4. u \notin HasReplied
  BY <1>3, LoopAt
<1>5. now \in t.seen /\ HostSeen(t) /\ \A w \in t.seen : Listed(w)
  BY <1>1 DEF LoopFits
<1>6. HostSeen(u) /\ MembersSeen(u)
  BY <1>2, <1>5 DEF HostSeen, MembersSeen
<1>7. LoopFits(u, now)
  BY <1>2, <1>3, <1>4, <1>5, <1>6 DEF LoopFits
<1> QED
  BY <1>7 DEF u

-----------------------------------------------------------------------------
(* The resolver: one reply *)

\* Whoever the two reads find under a name bore it at one moment: under its
\* fallback when the members were read, and under its hostname already when the
\* hostnames were, since only members have one.
LEMMA NamedBore ==
  ASSUME NEW now, NEW t \in AwaitsNetwork, LoopFits(t, now), NEW label,
         label # NoName, NEW i \in Named(t.host, t.members, label)
  PROVE  i \in Node /\ \E v \in t.seen : Bears(v, i, label)
<1>1. /\ t.seen \subseteq Views /\ t.members \subseteq Node
      /\ HostSeen(t) /\ MembersSeen(t) /\ \A v \in t.seen : Listed(v)
  BY DEF LoopFits, Answering, AwaitsNetwork
<1>2. i \in Node /\ i \in t.members
  BY <1>1 DEF Named
<1>3. CASE label = Fallback[i]
  BY <1>1, <1>2, <1>3 DEF MembersSeen, Bears
<1>4. CASE label = t.host[i]
  <2>1. PICK v \in t.seen : v.host = t.host
    BY <1>1 DEF HostSeen
  <2>2. i \in v.members
    BY <1>1, <1>2, <1>4, <2>1 DEF Listed
  <2> QED
    BY <1>2, <1>4, <2>1, <2>2 DEF Bears
<1> QED
  BY <1>3, <1>4 DEF Named

\* Whoever bears a name all the while is found under it by any two reads.
LEMMA BorneNamed ==
  ASSUME NEW now, NEW t \in AwaitsNetwork, LoopFits(t, now), NEW label,
         NEW i \in Node, \A v \in t.seen : Bears(v, i, label)
  PROVE  i \in Named(t.host, t.members, label)
<1>1. HostSeen(t) /\ MembersSeen(t)
  BY DEF LoopFits
<1>2. PICK v \in t.seen : v.host = t.host
  BY <1>1 DEF HostSeen
<1>3. PICK w \in t.seen : w.members = t.members
  BY <1>1 DEF MembersSeen
<1>4. Bears(v, i, label) /\ Bears(w, i, label)
  OBVIOUS
<1> QED
  BY <1>2, <1>3, <1>4 DEF Bears, Named

\* The node of a record is one of those found.
LEMMA RecordNamed ==
  ASSUME NEW t \in AwaitsNetwork, NEW q, Found(t, q)
  PROVE  /\ Record(t, q).question = q
         /\ Record(t, q).node \in Named(t.host, t.members, q.label)
         /\ Record(t, q).node \in Node
<1>1. t.members \subseteq Node
  BY DEF AwaitsNetwork
<1>2. /\ Named(t.host, t.members, q.label) \subseteq Node
      /\ Named(t.host, t.members, q.label) # {}
  BY <1>1 DEF Named, Found
<1>3. Min(Named(t.host, t.members, q.label)) \in Named(t.host, t.members, q.label)
  BY <1>2, MinNode
<1> QED
  BY <1>2, <1>3 DEF Record

\* A question is answered for the network of now.
LEMMA FoundAbout ==
  ASSUME NEW t, NEW q
  PROVE  Found(t, q) <=> /\ About(Now, q)
                         /\ Named(t.host, t.members, q.label) # {}
<1>1. Now.title = title
  BY DEF Now, View
<1> QED
  BY <1>1 DEF Found, host_in_zone, About

\* The reply to a message says only what held, and denies only what did not.
LEMMA ReplyFits ==
  ASSUME NEW t, LoopFits(t, Now), t.pc = "network", t.query # Malformed
  PROVE  LoopFits([pc |-> "sent", query |-> t.query, seen |-> t.seen,
                   answers |-> Answers(t), rcode |-> Rcode(t)], Now)
<1> DEFINE u == [pc |-> "sent", query |-> t.query, seen |-> t.seen,
                 answers |-> Answers(t), rcode |-> Rcode(t)]
<1>1. t \in AwaitsNetwork /\ t \in Answering
  BY LoopAt DEF LoopFits, Answering
<1>2. t.query \in Query /\ t.seen \subseteq Views /\ Now \in t.seen
  BY <1>1 DEF AwaitsNetwork, LoopFits
<1>3. \A q \in t.query : q.label # NoName
  BY <1>2, QueryAssumption
<1>4. ASSUME NEW r \in Answers(t)
      PROVE  \E q \in t.query : Found(t, q) /\ r = Record(t, q)
  BY DEF Answers
<1>5. ASSUME NEW r \in Answers(t)
      PROVE  /\ r \in [question : UNION Query, node : Node]
             /\ \E v \in t.seen : Bears(v, r.node, r.question.label)
             /\ \E v \in t.seen : About(v, r.question)
  <2>1. PICK q \in t.query : Found(t, q) /\ r = Record(t, q)
    BY <1>4
  <2>2. /\ r.question = q /\ r.node \in Node
        /\ r.node \in Named(t.host, t.members, q.label)
    BY <1>1, <2>1, RecordNamed
  <2>3. r = [question |-> q, node |-> r.node]
    BY <2>1, <2>2 DEF Record
  <2>4. r \in [question : UNION Query, node : Node]
    BY <1>2, <2>2, <2>3
  <2>5. \E v \in t.seen : Bears(v, r.node, q.label)
    BY <1>1, <1>3, <2>2, NamedBore
  <2>6. About(Now, q)
    BY <2>1, FoundAbout
  <2> QED
    BY <1>2, <2>2, <2>4, <2>5, <2>6
<1>6. ASSUME Rcode(t) = "NXDOMAIN", NEW q \in t.query, NEW i \in Node
      PROVE  \E v \in t.seen : ~ (Bears(v, i, q.label) /\ About(v, q))
  <2> SUFFICES ASSUME \A v \in t.seen : Bears(v, i, q.label) /\ About(v, q)
               PROVE  FALSE
    OBVIOUS
  <2>1. i \in Named(t.host, t.members, q.label)
    BY <1>1, BorneNamed
  <2>2. Found(t, q)
    BY <1>2, <2>1, FoundAbout
  <2> QED
    BY <1>6, <2>2 DEF Rcode, AnyFound
<1>7. ASSUME Rcode(t) = "NOERROR"
      PROVE  \E q \in t.query, i \in Node, v \in t.seen : Bears(v, i, q.label)
  <2>1. PICK q \in t.query : Found(t, q)
    BY <1>7 DEF Rcode, AnyFound
  <2>2. PICK i \in Named(t.host, t.members, q.label) : TRUE
    BY <2>1, FoundAbout
  <2>3. i \in Node /\ \E v \in t.seen : Bears(v, i, q.label)
    BY <1>1, <1>3, <2>2, NamedBore
  <2> QED
    BY <2>3
<1>8. Rcode(t) \in {"NOERROR", "NXDOMAIN"}
  BY DEF Rcode
<1>9. Answers(t) \in SUBSET [question : UNION Query, node : Node]
  BY <1>5
<1>10. /\ u.query = t.query /\ u.seen = t.seen /\ u.answers = Answers(t)
       /\ u.rcode = Rcode(t) /\ u \in HasReplied
  BY <1>2, <1>8, <1>9 DEF HasReplied
<1> HIDE DEF u
<1>11. u \in Loop /\ u.pc = "sent"
  BY <1>10 DEF Loop, HasReplied
<1>12. u \notin AwaitsAddrs /\ u \notin AwaitsNetwork /\ u \notin Answering
  BY <1>11, LoopAt
<1>13. AnswersHeld(u)
  BY <1>5, <1>10 DEF AnswersHeld
<1>14. CodeHonest(u)
  BY <1>6, <1>7, <1>10 DEF CodeHonest
<1>15. LoopFits(u, Now)
  BY <1>10, <1>11, <1>12, <1>13, <1>14 DEF LoopFits
<1> QED
  BY <1>15 DEF u

-----------------------------------------------------------------------------
(* The resolver: all loops *)

\* What is known of listening, which only the three actions of bind change.
BindTypeOK ==
  /\ binding \in 0 .. Len(Mesh)
  /\ attempts \in 0 .. BindAttempts - 1
  /\ sockets \subseteq Address
  /\ candidates \in Seq(sockets \ {Loopback})

\* The rest of the invariant follows from what every loop satisfies.
LEMMA ResolverInvParts ==
  ASSUME mem \in MembershipType, Listed(mem), title \in OptTitle, BindTypeOK,
         DOMAIN loop = Address, \A a \in Address : LoopFits(loop[a], Now),
         changes \in 0 .. MaxChanges, queries \in 0 .. MaxQueries
  PROVE  ResolverInv
BY DEF ResolverInv, ResolverTypeOK, BindTypeOK, LoopFits

\* The initial state satisfies it.
LEMMA ResolverInvInit == ResolverInit => ResolverInv
<1> SUFFICES ASSUME ResolverInit PROVE ResolverInv
  OBVIOUS
<1>1. mem \in MembershipType /\ Listed(mem)
  BY DefaultType DEF ResolverInit, Default, Listed
<1>2. Len(Mesh) \in Nat
  BY MeshAssumption
<1>3. BindTypeOK
  BY <1>2, AttemptAssumption DEF ResolverInit, BindTypeOK
<1>4. \A a \in Address : LoopFits(loop[a], Now)
  BY IdleFits DEF ResolverInit
<1> QED
  BY <1>1, <1>3, <1>4, ResolverBoundAssumption, ResolverInvParts
     DEF ResolverInit, OptTitle

\* A view of a membership whose names are members' has that too.
LEMMA NowListed ==
  ASSUME ResolverInv
  PROVE  Now \in Views /\ Listed(Now)
<1>1. Now \in Views
  BY ViewType DEF ResolverInv, ResolverTypeOK, Now
<1> QED
  BY <1>1 DEF ResolverInv, Listed, Now, View

\* A change of the membership, whichever it is.
LEMMA ChangeStep ==
  ASSUME ResolverInv, NEW m \in MembershipType, Listed(m), NEW t \in OptTitle,
         Change(m, t)
  PROVE  ResolverInv'
<1>1. View(m, t) \in Views /\ Listed(View(m, t)) /\ Now' = View(m, t)
  BY ViewType DEF Listed, View, Now, Change
<1>2. BindTypeOK'
  BY DEF ResolverInv, ResolverTypeOK, BindTypeOK, Change, bindVars
<1>3. ASSUME NEW a \in Address
      PROVE  LoopFits(loop'[a], Now')
  <2>1. loop[a] \in Loop /\ LoopFits(loop[a], Now)
    BY DEF ResolverInv, LoopFits
  <2>2. CASE loop[a].pc \in {"hostnames", "addresses", "network"}
    <3>1. loop[a] \in Answering
      BY <2>1, <2>2, LoopAt
    <3>2. loop'[a] = [loop[a] EXCEPT !.seen = @ \cup {View(m, t)}]
      BY <2>2 DEF Change
    <3> QED
      BY <1>1, <2>1, <3>1, <3>2, SeesMore
  <2>3. CASE loop[a].pc \notin {"hostnames", "addresses", "network"}
    <3>1. loop[a] \notin Answering
      BY <2>1, <2>3, LoopAt
    <3>2. loop'[a] = loop[a]
      BY <2>3 DEF Change
    <3> QED
      BY <2>1, <3>1, <3>2 DEF LoopFits
  <2> QED
    BY <2>2, <2>3
<1>4. DOMAIN loop' = Address
  BY DEF Change
<1>5. /\ mem' \in MembershipType /\ Listed(mem)' /\ title' \in OptTitle
  BY DEF Change, Listed
<1>6. changes' \in 0 .. MaxChanges /\ queries' \in 0 .. MaxQueries
  BY ResolverBoundAssumption DEF Change, ResolverInv, ResolverTypeOK
<1> QED
  BY <1>2, <1>3, <1>4, <1>5, <1>6
     DEF ResolverInv, ResolverTypeOK, BindTypeOK, LoopFits

\* Every change there is.
LEMMA MembershipStep ==
  ASSUME ResolverInv
  PROVE  /\ \A t \in Title, h \in OptName : CreateNetwork(t, h) => ResolverInv'
         /\ \A c \in Node, t \in OptTitle, r \in Rosters :
              JoinNetwork(c, t, r) => ResolverInv'
         /\ \A t \in OptTitle, r \in Rosters : PushRoster(t, r) => ResolverInv'
         /\ LeaveNetwork => ResolverInv'
         /\ \A i \in Node : Admit(i) \/ Kick(i) => ResolverInv'
         /\ \A i \in Node, h \in Typed, force \in BOOLEAN :
              Claim(i, h, force) => ResolverInv'
<1>1. /\ mem \in MembershipType /\ Listed(mem) /\ title \in OptTitle
      /\ changes \in Nat /\ Self \in Node
  BY ResolverBoundAssumption, SelfAssumption DEF ResolverInv, ResolverTypeOK
<1>2. ASSUME NEW t \in Title, NEW h \in OptName, CreateNetwork(t, h)
      PROVE  ResolverInv'
  <2>1. t \in OptTitle
    BY DEF OptTitle
  <2> QED
    BY <1>1, <1>2, <2>1, CreateType, CreateListed, ChangeStep DEF CreateNetwork
<1>3. ASSUME NEW c \in Node, NEW t \in OptTitle, NEW r \in Rosters,
             JoinNetwork(c, t, r)
      PROVE  ResolverInv'
  BY <1>1, <1>3, RosterAssumption, SetJoinedType, JoinedListed, ChangeStep
     DEF JoinNetwork
<1>4. ASSUME NEW t \in OptTitle, NEW r \in Rosters, PushRoster(t, r)
      PROVE  ResolverInv'
  <2>1. SetRoster(mem, Self, r) \in MembershipType /\ Listed(SetRoster(mem, Self, r))
    BY <1>1, RosterAssumption, ApplyRosterType, RosterListed DEF SetRoster
  <2> QED
    BY <1>1, <1>4, <2>1, ChangeStep DEF PushRoster
<1>5. ASSUME LeaveNetwork
      PROVE  ResolverInv'
  <2>1. Default \in MembershipType /\ Listed(Default) /\ NoTitle \in OptTitle
    BY DefaultType DEF Default, Listed, OptTitle
  <2> QED
    BY <1>5, <2>1, ChangeStep DEF LeaveNetwork, Leave
<1>6. ASSUME NEW i \in Node, Admit(i)
      PROVE  ResolverInv'
  BY <1>1, <1>6, AdmitListed, ChangeStep DEF Admit
<1>7. ASSUME NEW i \in Node, Kick(i)
      PROVE  ResolverInv'
  BY <1>1, <1>7, RemoveMemberType, RemoveListed, ChangeStep DEF Kick
<1>8. ASSUME NEW i \in Node, NEW h \in Typed, NEW force \in BOOLEAN,
             Claim(i, h, force)
      PROVE  ResolverInv'
  <2>1. Validate(h, i) \in Name
    BY <1>8, ValidateType, NameAssumption DEF Claim, OptName
  <2> QED
    BY <1>1, <1>8, <2>1, ClaimHostnameType, ClaimListed, ChangeStep DEF Claim
<1> QED
  BY <1>2, <1>3, <1>4, <1>5, <1>6, <1>7, <1>8

\* A step of bind touches no loop and no membership.
LEMMA BindStep ==
  ASSUME ResolverInv, BindLoopback \/ BindMesh \/ BindFails
  PROVE  ResolverInv'
<1>1. /\ Len(Mesh) \in Nat /\ DOMAIN Mesh = 1 .. Len(Mesh)
      /\ \A k \in 1 .. Len(Mesh) : Mesh[k] \in Address \ {Loopback}
  BY MeshAssumption DEF Address
<1>2. UNCHANGED <<mem, title, loop, changes, queries>>
  BY DEF BindLoopback, BindMesh, BindFails
<1>3. BindTypeOK
  BY DEF ResolverInv, ResolverTypeOK, BindTypeOK
<1>4. BindTypeOK'
  <2>1. CASE BindLoopback
    <3>1. sockets = {} /\ candidates \in Seq({})
      BY <1>3, <2>1 DEF BindLoopback, BindTypeOK
    <3> QED
      BY <1>3, <2>1, <3>1 DEF BindLoopback, BindTypeOK, Address
  <2>2. CASE BindMesh
    <3> DEFINE a == Mesh[binding + 1]
    <3>1. binding + 1 \in 1 .. Len(Mesh) /\ a \in Address \ {Loopback}
      BY <1>1, <1>3, <2>2 DEF BindMesh, BindTypeOK
    <3>2. Append(candidates, a) \in Seq((sockets \cup {a}) \ {Loopback})
      BY <1>3, <3>1 DEF BindTypeOK
    <3> QED
      BY <1>1, <1>3, <2>2, <3>1, <3>2, AttemptAssumption DEF BindMesh, BindTypeOK
  <2>3. CASE BindFails
    BY <1>1, <1>3, <2>3, AttemptAssumption DEF BindFails, BindTypeOK
  <2> QED
    BY <2>1, <2>2, <2>3
<1> QED
  BY <1>2, <1>4 DEF ResolverInv, ResolverTypeOK, BindTypeOK, Listed, Now, View

\* A loop goes on and the others stay where they are.
LEMMA AdvanceStep ==
  ASSUME ResolverInv, NEW a \in Address, NEW to, LoopFits(to, Now),
         loop' = [loop EXCEPT ![a] = to], queries' \in 0 .. MaxQueries,
         UNCHANGED <<mem, title, bindVars, changes>>
  PROVE  ResolverInv'
<1>1. Now' = Now
  BY DEF Now, View
<1>2. \A b \in Address : LoopFits(loop'[b], Now)
  BY DEF ResolverInv, ResolverTypeOK
<1>3. \A b \in Address : loop'[b] \in Loop
  BY <1>2 DEF LoopFits
<1>4. DOMAIN loop' = Address /\ Listed(mem)'
  BY DEF ResolverInv, ResolverTypeOK, Listed
<1> QED
  BY <1>1, <1>2, <1>3, <1>4 DEF ResolverInv, ResolverTypeOK, bindVars

\* Every step of a loop.
LEMMA LoopStep ==
  ASSUME ResolverInv, NEW a \in Address,
         \/ \E query \in Query \cup {Malformed} : Receive(a, query)
         \/ ReadHostnames(a) \/ ReadAddrs(a) \/ SendReply(a) \/ Ignore(a)
  PROVE  ResolverInv'
<1>1. LoopFits(loop[a], Now) /\ Now \in Views /\ Listed(Now)
  BY NowListed DEF ResolverInv
<1>2. Now.host = mem.host /\ Now.members = mem.members
  BY DEF Now, View
<1>3. queries \in 0 .. MaxQueries
  BY DEF ResolverInv, ResolverTypeOK
<1>4. ASSUME NEW query \in Query \cup {Malformed}, Receive(a, query)
      PROVE  ResolverInv'
  <2>1. queries' \in 0 .. MaxQueries
    BY <1>3, <1>4, ResolverBoundAssumption DEF Receive
  <2> QED
    BY <1>1, <1>4, <2>1, ReceiveFits, AdvanceStep DEF Receive
<1>5. ASSUME ReadHostnames(a) PROVE ResolverInv'
  <2>1. LoopFits([pc |-> "addresses", query |-> loop[a].query,
                  seen |-> loop[a].seen, host |-> mem.host], Now)
    BY <1>1, <1>2, <1>5, HostnamesFit DEF ReadHostnames
  <2> QED
    BY <1>3, <1>5, <2>1, AdvanceStep DEF ReadHostnames, Advance
<1>6. ASSUME ReadAddrs(a) PROVE ResolverInv'
  <2>1. LoopFits([pc |-> "network", query |-> loop[a].query,
                  seen |-> loop[a].seen, host |-> loop[a].host,
                  members |-> mem.members], Now)
    BY <1>1, <1>2, <1>6, AddrsFit DEF ReadAddrs
  <2> QED
    BY <1>3, <1>6, <2>1, AdvanceStep DEF ReadAddrs, Advance
<1>7. ASSUME SendReply(a) PROVE ResolverInv'
  <2>1. LoopFits([pc |-> "sent", query |-> loop[a].query,
                  seen |-> loop[a].seen, answers |-> Answers(loop[a]),
                  rcode |-> Rcode(loop[a])], Now)
    BY <1>1, <1>7, ReplyFits DEF SendReply
  <2> QED
    BY <1>3, <1>7, <2>1, AdvanceStep DEF SendReply, Advance
<1>8. ASSUME Ignore(a) PROVE ResolverInv'
  BY <1>3, <1>8, IdleFits, AdvanceStep DEF Ignore, Advance
<1> QED
  BY <1>4, <1>5, <1>6, <1>7, <1>8

\* Every step keeps the inductive invariant.
LEMMA ResolverInvStep == ResolverInv /\ [ResolverNext]_resolverVars => ResolverInv'
<1> SUFFICES ASSUME ResolverInv, [ResolverNext]_resolverVars
             PROVE  ResolverInv'
  OBVIOUS
<1>1. ASSUME NEW t \in Title, NEW h \in Typed \cup {NoName},
             CreateNetwork(t, IF h = NoName THEN h ELSE Validate(h, Self))
      PROVE  ResolverInv'
  <2>1. (IF h = NoName THEN h ELSE Validate(h, Self)) \in OptName
    BY NameAssumption, SelfAssumption, ValidateType DEF OptName
  <2> QED
    BY <1>1, <2>1, MembershipStep
<1>2. CASE \E c \in Node, t \in OptTitle, r \in Rosters : JoinNetwork(c, t, r)
  BY <1>2, MembershipStep
<1>3. CASE \E t \in OptTitle, r \in Rosters : PushRoster(t, r)
  BY <1>3, MembershipStep
<1>4. CASE LeaveNetwork
  BY <1>4, MembershipStep
<1>5. CASE \E i \in Node : Admit(i) \/ Kick(i)
  BY <1>5, MembershipStep
<1>6. CASE \E i \in Node, h \in Typed, force \in BOOLEAN : Claim(i, h, force)
  BY <1>6, MembershipStep
<1>7. CASE BindLoopback \/ BindMesh \/ BindFails
  BY <1>7, BindStep
<1>8. CASE \E a \in Address :
             \/ \E query \in Query \cup {Malformed} : Receive(a, query)
             \/ ReadHostnames(a) \/ ReadAddrs(a) \/ SendReply(a) \/ Ignore(a)
  BY <1>8, LoopStep
<1>9. CASE UNCHANGED resolverVars
  BY <1>9 DEF resolverVars, ResolverInv, ResolverTypeOK, Listed, Now, View
<1> QED
  BY <1>1, <1>2, <1>3, <1>4, <1>5, <1>6, <1>7, <1>8, <1>9 DEF ResolverNext

\* What a loop has read was there since its message came, and what it has sent
\* was right, in every state (dns.rs, answer_loop).
THEOREM ResolverInvariant == ResolverSpec => []ResolverInv
BY ResolverInvInit, ResolverInvStep, PTL DEF ResolverSpec

\* The resolver is always in a well-formed state, and the addresses it reports
\* are mesh addresses it listens on (dns.rs, bind).
THEOREM ResolverTypes == ResolverSpec => []ResolverTypeOK
<1>1. ResolverInv => ResolverTypeOK
  BY DEF ResolverInv
<1> QED
  BY <1>1, ResolverInvariant, PTL

\* A record names a node that was a member under that name at one moment between
\* query and reply, and the question was about this network at such a moment:
\* for any rosters, names and changes between the three reads (dns.rs, resolvable
\* and host_in_zone).
THEOREM AnswersAreHeld == ResolverSpec => []AnswerHeld
<1>1. ResolverInv => AnswerHeld
  <2> SUFFICES ASSUME ResolverInv, NEW a \in Address, loop[a].pc = "sent"
               PROVE  AnswersHeld(loop[a])
    BY DEF AnswerHeld, AnswersHeld, Replied
  <2>1. loop[a] \in Loop /\ LoopFits(loop[a], Now)
    BY DEF ResolverInv, LoopFits
  <2> QED
    BY <2>1, LoopAt DEF LoopFits
<1> QED
  BY <1>1, ResolverInvariant, PTL

\* A name that one node bears from query to reply is never denied, and what is
\* not denied was borne by somebody (dns.rs, answer).
THEOREM DenialsAreHonest == ResolverSpec => []DenialHonest
<1>1. ResolverInv => DenialHonest
  <2> SUFFICES ASSUME ResolverInv, NEW a \in Address, loop[a].pc = "sent"
               PROVE  CodeHonest(loop[a])
    BY DEF DenialHonest, CodeHonest, Replied
  <2>1. loop[a] \in Loop /\ LoopFits(loop[a], Now)
    BY DEF ResolverInv, LoopFits
  <2> QED
    BY <2>1, LoopAt DEF LoopFits
<1> QED
  BY <1>1, ResolverInvariant, PTL

-----------------------------------------------------------------------------
(* The resolver: fallbacks *)

\* A coordinator that validates what it stores sends no roster in which a name
\* shaped like a fallback is not its bearer's own (names.rs, validate).
ValidatedRosters ==
  \A r \in Rosters, i \in Node : r.host[i] \in Hex => r.host[i] = Fallback[i]

\* Who has a hostname shaped like a fallback has its own.
HexOwn(v) == \A i \in Node : v.host[i] \in Hex => v.host[i] = Fallback[i]

\* Who is asked about by its fallback is the one a reply names.
RepliesOwn(t) ==
  \A r \in t.answers, i \in Node : r.question.label = Fallback[i] => r.node = i

FallbackFits(t) ==
  /\ t \in AwaitsAddrs \cup AwaitsNetwork => HexOwn(t)
  /\ t \in HasReplied => RepliesOwn(t)

FallbackInv ==
  /\ HexOwn(mem)
  /\ \A a \in Address : FallbackFits(loop[a])

\* A validated name that is bound, or one made from it, is no other's fallback.
LEMMA BindHexOwn ==
  ASSUME NEW m \in MembershipType, HexOwn(m), NEW i \in Node, NEW h \in Name,
         h \in Hex => h = Fallback[i]
  PROVE  HexOwn(Bind(m, i, h))
BY DEF Bind, HexOwn, MembershipType

\* Taking a name away gives nobody another's.
LEMMA ReleaseHexOwn ==
  ASSUME NEW m \in MembershipType, HexOwn(m), NEW h \in Name
  PROVE  HexOwn(Release(m, h))
<1>1. NoName \notin Hex
  BY NameAssumption
<1> QED
  BY <1>1 DEF Release, HexOwn, MembershipType

\* Neither a numbered name nor a last resort is shaped like a fallback.
LEMMA DedupeHex ==
  ASSUME NEW m \in MembershipType, NEW h \in Name, NEW i \in Node,
         h \in Hex => h = Fallback[i]
  PROVE  Dedupe(m, h, i) \in Hex => Dedupe(m, h, i) = Fallback[i]
<1> DEFINE free == {k \in 1 .. MaxSuffix : ~ SpokenFor(m, Numbered[h][k], i)}
<1>1. free # {} => Numbered[h][Min(free)] \notin Hex
  <2>1. free \subseteq 1 .. MaxSuffix /\ free \subseteq Nat
    OBVIOUS
  <2> HIDE DEF free
  <2>2. free # {} => Min(free) \in 1 .. MaxSuffix
    BY <2>1, MinNat
  <2> QED
    BY <2>2, SuffixAssumption
<1>2. LastResort[h][i] \notin Hex
  BY SuffixAssumption
<1> QED
  BY <1>1, <1>2 DEF Dedupe

\* So a claim never gives anybody the fallback of another node, forced or not.
LEMMA ClaimHexOwn ==
  ASSUME NEW m \in MembershipType, HexOwn(m), NEW i \in Node, NEW h \in Name,
         h \in Hex => h = Fallback[i], NEW force \in BOOLEAN
  PROVE  HexOwn(ClaimHostname(m, i, h, force))
<1> DEFINE before == IF force THEN Release(m, h) ELSE m
<1>1. before \in MembershipType /\ HexOwn(before)
  BY ReleaseType, ReleaseHexOwn
<1>2. Assigned(m, i, h, force) = Dedupe(before, h, i)
  BY DEF Assigned
<1>3. ClaimHostname(m, i, h, force) = Bind(before, i, Dedupe(before, h, i))
  BY <1>2 DEF ClaimHostname
<1> HIDE DEF before
<1>4. Dedupe(before, h, i) \in Name
  BY <1>1, DedupeType
<1>5. Dedupe(before, h, i) \in Hex => Dedupe(before, h, i) = Fallback[i]
  BY <1>1, DedupeHex
<1> QED
  BY <1>1, <1>3, <1>4, <1>5, BindHexOwn

\* Nor does the name a network is created with,
LEMMA CreateHexOwn ==
  ASSUME NEW m \in MembershipType, NEW self \in Node, NEW fresh \in Nat,
         NEW h \in OptName, h \in Hex => h = Fallback[self]
  PROVE  HexOwn(Create(m, self, fresh, h))
<1> DEFINE alone == [m EXCEPT !.coord = self, !.net = fresh, !.invites = {},
                              !.members = {self},
                              !.host = [i \in Node |-> NoName]]
<1>1. alone \in MembershipType
  BY DEF MembershipType, OptNode, OptName
<1>2. HexOwn(alone)
  BY NameAssumption DEF MembershipType, HexOwn
<1>3. h # NoName => h \in Name
  BY DEF OptName
<1> QED
  BY <1>1, <1>2, <1>3, BindHexOwn DEF Create

\* a roster whose own names are lawful,
LEMMA RosterHexOwn ==
  ASSUME NEW m \in MembershipType, NEW self \in Node, NEW r \in Roster, HexOwn(r)
  PROVE  HexOwn(ApplyRoster(m, self, r))
<1>1. NoName \notin Hex
  BY NameAssumption
<1> QED
  BY <1>1 DEF ApplyRoster, HexOwn, MembershipType, Roster

\* the one a node joins with,
LEMMA JoinedHexOwn ==
  ASSUME NEW m \in MembershipType, NEW self \in Node, NEW c \in Node,
         NEW r \in Roster, HexOwn(r)
  PROVE  HexOwn(SetJoined(m, self, c, r))
<1> DEFINE fresh == [m EXCEPT !.coord = c, !.net = NoNet, !.invites = {},
                              !.bind = [h \in Name |-> NoNode]]
<1>1. fresh \in MembershipType
  BY DEF MembershipType, OptNode
<1> QED
  BY <1>1, RosterHexOwn DEF SetJoined

\* or the removal of a member.
LEMMA RemoveHexOwn ==
  ASSUME NEW m \in MembershipType, HexOwn(m), NEW i \in Node
  PROVE  HexOwn(RemoveMember(m, i))
<1>1. NoName \notin Hex
  BY NameAssumption
<1> QED
  BY <1>1 DEF RemoveMember, HexOwn, MembershipType

\* What validation lets through is no other node's fallback.
LEMMA ValidateHex ==
  ASSUME NEW s \in Spelling, NEW i \in Node
  PROVE  Validate(s, i) \in Hex => Validate(s, i) = Fallback[i]
<1>1. NoName \notin Hex
  BY NameAssumption
<1> QED
  BY <1>1 DEF Validate

\* A change of the membership leaves what the loops have read or sent.
LEMMA FallbackChange ==
  ASSUME ResolverInv, FallbackInv, NEW m, HexOwn(m), NEW t, Change(m, t)
  PROVE  FallbackInv'
<1>1. ASSUME NEW a \in Address PROVE FallbackFits(loop'[a])
  <2>1. loop[a] \in Loop /\ FallbackFits(loop[a])
    BY DEF ResolverInv, LoopFits, FallbackInv
  <2>2. CASE loop[a].pc \notin {"hostnames", "addresses", "network"}
    BY <2>1, <2>2 DEF Change
  <2> DEFINE u == [loop[a] EXCEPT !.seen = @ \cup {View(m, t)}]
  <2>3. CASE loop[a].pc = "hostnames"
    <3>1. loop[a] \in AwaitsHostnames /\ loop'[a] = u
      BY <2>1, <2>3, LoopAt DEF Change
    <3>2. loop'[a].pc = "hostnames"
      BY <3>1 DEF AwaitsHostnames
    <3> QED
      BY <3>2 DEF FallbackFits, AwaitsAddrs, AwaitsNetwork, HasReplied
  <2>4. CASE loop[a].pc \in {"addresses", "network"}
    <3>1. loop[a] \in AwaitsAddrs \cup AwaitsNetwork /\ loop'[a] = u
      BY <2>1, <2>4, LoopAt DEF Change
    <3>2. HexOwn(loop[a])
      BY <2>1, <3>1 DEF FallbackFits
    <3>3. loop'[a].pc = loop[a].pc /\ loop'[a].host = loop[a].host
      BY <3>1 DEF AwaitsAddrs, AwaitsNetwork
    <3>4. HexOwn(loop'[a])
      BY <3>2, <3>3 DEF HexOwn
    <3> QED
      BY <2>4, <3>3, <3>4 DEF FallbackFits, HasReplied
  <2> QED
    BY <2>2, <2>3, <2>4
<1>2. HexOwn(mem)'
  BY DEF Change, HexOwn
<1> QED
  BY <1>1, <1>2 DEF FallbackInv

\* A loop goes on and the others stay where they are.
LEMMA FallbackAdvance ==
  ASSUME ResolverInv, FallbackInv, NEW a \in Address, NEW to, FallbackFits(to),
         loop' = [loop EXCEPT ![a] = to], UNCHANGED mem
  PROVE  FallbackInv'
<1>1. \A b \in Address : FallbackFits(loop'[b])
  BY DEF FallbackInv, ResolverInv, ResolverTypeOK
<1> QED
  BY <1>1 DEF FallbackInv, HexOwn

\* A record for somebody's fallback is that one's.
LEMMA ReplyOwn ==
  ASSUME DistinctFallbacks, NEW t \in AwaitsNetwork, HexOwn(t),
         NEW r \in Answers(t), NEW i \in Node, r.question.label = Fallback[i]
  PROVE  r.node = i
<1>1. PICK q \in t.query : Found(t, q) /\ r = Record(t, q)
  BY DEF Answers
<1>2. /\ r.question = q /\ r.node \in Node
      /\ r.node \in Named(t.host, t.members, q.label)
  BY <1>1, RecordNamed
<1>3. Fallback[i] \in Hex
  BY FallbackAssumption
<1>4. Fallback[i] = Fallback[r.node]
  BY <1>2, <1>3 DEF Named, HexOwn
<1> QED
  BY <1>2, <1>4 DEF DistinctFallbacks

\* Every change there is.
LEMMA FallbackMembership ==
  ASSUME ValidatedRosters, ResolverInv, FallbackInv
  PROVE  /\ \A t \in Title, h \in OptName :
              (h \in Hex => h = Fallback[Self]) /\ CreateNetwork(t, h)
                => FallbackInv'
         /\ \A c \in Node, t \in OptTitle, r \in Rosters :
              JoinNetwork(c, t, r) => FallbackInv'
         /\ \A t \in OptTitle, r \in Rosters : PushRoster(t, r) => FallbackInv'
         /\ LeaveNetwork => FallbackInv'
         /\ \A i \in Node : Admit(i) \/ Kick(i) => FallbackInv'
         /\ \A i \in Node, h \in Typed, force \in BOOLEAN :
              Claim(i, h, force) => FallbackInv'
<1>1. mem \in MembershipType /\ HexOwn(mem) /\ changes \in Nat /\ Self \in Node
  BY ResolverBoundAssumption, SelfAssumption
     DEF ResolverInv, ResolverTypeOK, FallbackInv
<1>2. \A r \in Rosters : r \in Roster /\ HexOwn(r)
  BY RosterAssumption DEF ValidatedRosters, HexOwn
<1>3. ASSUME NEW t \in Title, NEW h \in OptName, h \in Hex => h = Fallback[Self],
             CreateNetwork(t, h)
      PROVE  FallbackInv'
  BY <1>1, <1>3, CreateHexOwn, FallbackChange DEF CreateNetwork
<1>4. ASSUME NEW c \in Node, NEW t \in OptTitle, NEW r \in Rosters,
             JoinNetwork(c, t, r)
      PROVE  FallbackInv'
  BY <1>1, <1>2, <1>4, JoinedHexOwn, FallbackChange DEF JoinNetwork
<1>5. ASSUME NEW t \in OptTitle, NEW r \in Rosters, PushRoster(t, r)
      PROVE  FallbackInv'
  BY <1>1, <1>2, <1>5, RosterHexOwn, FallbackChange DEF PushRoster, SetRoster
<1>6. ASSUME LeaveNetwork PROVE FallbackInv'
  <2>1. HexOwn(Default)
    BY NameAssumption DEF Default, HexOwn
  <2> QED
    BY <1>6, <2>1, FallbackChange DEF LeaveNetwork, Leave
<1>7. ASSUME NEW i \in Node, Admit(i) PROVE FallbackInv'
  <2>1. HexOwn([mem EXCEPT !.members = @ \cup {i}])
    BY <1>1 DEF HexOwn, MembershipType
  <2> QED
    BY <1>7, <2>1, FallbackChange DEF Admit
<1>8. ASSUME NEW i \in Node, Kick(i) PROVE FallbackInv'
  BY <1>1, <1>8, RemoveHexOwn, FallbackChange DEF Kick
<1>9. ASSUME NEW i \in Node, NEW h \in Typed, NEW force \in BOOLEAN,
             Claim(i, h, force)
      PROVE  FallbackInv'
  <2>1. h \in Spelling
    BY NameAssumption
  <2>2. Validate(h, i) \in Name
    BY <1>9, <2>1, ValidateType DEF Claim, OptName
  <2>3. Validate(h, i) \in Hex => Validate(h, i) = Fallback[i]
    BY <2>1, ValidateHex
  <2> QED
    BY <1>1, <1>9, <2>2, <2>3, ClaimHexOwn, FallbackChange DEF Claim
<1> QED
  BY <1>3, <1>4, <1>5, <1>6, <1>7, <1>8, <1>9

\* Every step of a loop.
LEMMA FallbackLoop ==
  ASSUME DistinctFallbacks, ResolverInv, FallbackInv, NEW a \in Address,
         \/ \E query \in Query \cup {Malformed} : Receive(a, query)
         \/ ReadHostnames(a) \/ ReadAddrs(a) \/ SendReply(a) \/ Ignore(a)
  PROVE  FallbackInv'
<1>1. loop[a] \in Loop /\ FallbackFits(loop[a]) /\ HexOwn(mem)
  BY DEF ResolverInv, LoopFits, FallbackInv
<1>2. ASSUME NEW t
      PROVE  /\ t.pc \in {"idle", "hostnames"} => FallbackFits(t)
             /\ t.pc \in {"addresses", "network"} /\ HexOwn(t) => FallbackFits(t)
             /\ t.pc = "sent" /\ RepliesOwn(t) => FallbackFits(t)
  BY DEF FallbackFits, AwaitsAddrs, AwaitsNetwork, HasReplied
<1>3. ASSUME NEW query, Receive(a, query) PROVE FallbackInv'
  BY <1>2, <1>3, FallbackAdvance DEF Receive
<1>4. ASSUME ReadHostnames(a) PROVE FallbackInv'
  <2> DEFINE u == [pc |-> "addresses", query |-> loop[a].query,
                   seen |-> loop[a].seen, host |-> mem.host]
  <2>1. u.pc = "addresses" /\ HexOwn(u)
    BY <1>1 DEF HexOwn
  <2>2. FallbackFits(u)
    BY <1>2, <2>1
  <2> QED
    BY <1>4, <2>2, FallbackAdvance DEF ReadHostnames, Advance
<1>5. ASSUME ReadAddrs(a) PROVE FallbackInv'
  <2> DEFINE u == [pc |-> "network", query |-> loop[a].query,
                   seen |-> loop[a].seen, host |-> loop[a].host,
                   members |-> mem.members]
  <2>1. HexOwn(loop[a])
    BY <1>1, <1>5, LoopAt DEF ReadAddrs, FallbackFits
  <2>2. u.pc = "network" /\ HexOwn(u)
    BY <2>1 DEF HexOwn
  <2>3. FallbackFits(u)
    BY <1>2, <2>2
  <2> QED
    BY <1>5, <2>3, FallbackAdvance DEF ReadAddrs, Advance
<1>6. ASSUME SendReply(a) PROVE FallbackInv'
  <2> DEFINE u == [pc |-> "sent", query |-> loop[a].query,
                   seen |-> loop[a].seen, answers |-> Answers(loop[a]),
                   rcode |-> Rcode(loop[a])]
  <2>1. loop[a] \in AwaitsNetwork /\ HexOwn(loop[a])
    BY <1>1, <1>6, LoopAt DEF SendReply, FallbackFits
  <2>2. u.pc = "sent" /\ RepliesOwn(u)
    BY <2>1, ReplyOwn DEF RepliesOwn
  <2>3. FallbackFits(u)
    BY <1>2, <2>2
  <2> QED
    BY <1>6, <2>3, FallbackAdvance DEF SendReply, Advance
<1>7. ASSUME Ignore(a) PROVE FallbackInv'
  <2>1. Idle.pc = "idle"
    BY DEF Idle
  <2>2. FallbackFits(Idle)
    BY <1>2, <2>1
  <2> QED
    BY <1>7, <2>2, FallbackAdvance DEF Ignore, Advance
<1> QED
  BY <1>3, <1>4, <1>5, <1>6, <1>7

\* Every step keeps fallbacks with their owners.
LEMMA FallbackStep ==
  ASSUME DistinctFallbacks, ValidatedRosters, ResolverInv, FallbackInv,
         [ResolverNext]_resolverVars
  PROVE  FallbackInv'
<1>1. ASSUME NEW t \in Title, NEW h \in Typed \cup {NoName},
             CreateNetwork(t, IF h = NoName THEN h ELSE Validate(h, Self))
      PROVE  FallbackInv'
  <2> DEFINE name == IF h = NoName THEN h ELSE Validate(h, Self)
  <2>1. name \in OptName /\ (name \in Hex => name = Fallback[Self])
    BY NameAssumption, SelfAssumption, ValidateType, ValidateHex DEF OptName
  <2> HIDE DEF name
  <2>2. CreateNetwork(t, name)
    BY <1>1 DEF name
  <2> QED
    BY <2>1, <2>2, FallbackMembership
<1>2. CASE \E c \in Node, t \in OptTitle, r \in Rosters : JoinNetwork(c, t, r)
  BY <1>2, FallbackMembership
<1>3. CASE \E t \in OptTitle, r \in Rosters : PushRoster(t, r)
  BY <1>3, FallbackMembership
<1>4. CASE LeaveNetwork \/ \E i \in Node : Admit(i) \/ Kick(i)
  BY <1>4, FallbackMembership
<1>5. CASE \E i \in Node, h \in Typed, force \in BOOLEAN : Claim(i, h, force)
  BY <1>5, FallbackMembership
<1>6. CASE BindLoopback \/ BindMesh \/ BindFails \/ UNCHANGED resolverVars
  <2>1. UNCHANGED <<mem, loop>>
    BY <1>6 DEF BindLoopback, BindMesh, BindFails, resolverVars
  <2> QED
    BY <2>1 DEF FallbackInv, HexOwn
<1>7. CASE \E a \in Address :
             \/ \E query \in Query \cup {Malformed} : Receive(a, query)
             \/ ReadHostnames(a) \/ ReadAddrs(a) \/ SendReply(a) \/ Ignore(a)
  BY <1>7, FallbackLoop
<1> QED
  BY <1>1, <1>2, <1>3, <1>4, <1>5, <1>6, <1>7 DEF ResolverNext

\* What the comment on fallbacks claims holds as long as no two ids begin with
\* the same eight digits and no roster comes from a coordinator that does not
\* validate (names.rs, fallback: "Unforgeable by construction").
THEOREM FallbacksAreOwn ==
  ASSUME DistinctFallbacks, ValidatedRosters
  PROVE  ResolverSpec => []FallbackOwn
<1>1. ResolverInit => FallbackInv
  <2> SUFFICES ASSUME ResolverInit PROVE FallbackInv
    OBVIOUS
  <2>1. HexOwn(mem)
    BY NameAssumption DEF ResolverInit, Default, HexOwn
  <2>2. Idle.pc = "idle"
    BY DEF Idle
  <2>3. FallbackFits(Idle)
    BY <2>2 DEF FallbackFits, AwaitsAddrs, AwaitsNetwork, HasReplied
  <2> QED
    BY <2>1, <2>3 DEF ResolverInit, FallbackInv
<1>2. ResolverInv /\ FallbackInv /\ [ResolverNext]_resolverVars => FallbackInv'
  BY FallbackStep
<1>3. ResolverInv /\ FallbackInv => FallbackOwn
  <2> SUFFICES ASSUME ResolverInv, FallbackInv, NEW a \in Address,
                      loop[a].pc = "sent"
               PROVE  RepliesOwn(loop[a])
    BY DEF FallbackOwn, RepliesOwn, Replied
  <2>1. loop[a] \in Loop /\ FallbackFits(loop[a])
    BY DEF ResolverInv, LoopFits, FallbackInv
  <2> QED
    BY <2>1, LoopAt DEF FallbackFits
<1> QED
  BY <1>1, <1>2, <1>3, ResolverInvariant, PTL DEF ResolverSpec

-----------------------------------------------------------------------------
(* The registration: the inductive invariant *)

\* Nothing of an earlier run that ended badly can interfere.
Sound == platform = "unix" \/ ~ left

\* Where a task can be while the daemon is where it is.
TaskFits ==
  /\ task # "none" => daemon \in {"starting", "running", "stopping"}
  /\ task \in Command \cup {"reporting"} => attempted
  /\ task \in {"asking", "server", "zone"} => platform = "unix"
  /\ task \in {"clearing", "adding"} => platform = "windows"
  /\ task = "reporting" => daemon # "starting"
  /\ daemon = "starting" => dns = "unavailable"
  /\ daemon = "running" /\ dns = "registered" => task = "none"

\* What the system can hold: only what this run put there, and marked.
SysFits ==
  Sound =>
    /\ sys # {} => attempted /\ daemon # "down"
    /\ strays # {} =>
         attempted /\ task = "none" /\ daemon \in {"stopping", "removing"}
    /\ task = "zone" => "server" \in sys
    /\ task = "reporting" => sys = Full

Inv == TypeOK /\ TaskFits /\ SysFits /\ StatusHonest
-----------------------------------------------------------------------------
(* The registration: types *)

\* The initial states are well formed.
LEMMA TypeInit == Init => TypeOK
<1> SUFFICES ASSUME Init PROVE TypeOK
  OBVIOUS
<1>1. retry \in 1 .. MaxCount /\ faults \in 0 .. MaxFaults
  BY RetryAssumption, RegistrationBound DEF Init
<1> QED
  BY <1>1 DEF Init, TypeOK

\* What a command leaves behind is a set of our settings.
LEMMA AfterType ==
  ASSUME TypeOK, NEW c
  PROVE  After(c) \in SUBSET Full
BY DEF TypeOK, After

\* Whatever the end of a run leaves behind is well formed.
LEMMA ExitType ==
  ASSUME NEW settings \in SUBSET Full, NEW under_way \in SUBSET Command,
         NEW spoilt \in BOOLEAN, Exit(settings, under_way, spoilt)
  PROVE  /\ daemon' = "down"
         /\ sys' \in SUBSET Full
         /\ strays' \in SUBSET Command
         /\ left' \in BOOLEAN
BY DEF Exit

\* Every step keeps the state well formed; the retry counter stays in its range.
LEMMA TypeStep == TypeOK /\ [Next]_vars => TypeOK'
<1> SUFFICES ASSUME TypeOK, [Next]_vars PROVE TypeOK'
  OBVIOUS
<1> USE RetryAssumption, RegistrationBound, AfterType
    DEF TypeOK, Command, Failure, runVars, envVars
<1>1. ASSUME WaitOver PROVE TypeOK'
  BY <1>1 DEF WaitOver, Proceed
<1>2. ASSUME Register PROVE TypeOK'
  BY <1>2 DEF Register, Proceed
<1>3. ASSUME ReportRegistered PROVE TypeOK'
  BY <1>3 DEF ReportRegistered
<1>4. ASSUME StopHonoured PROVE TypeOK'
  BY <1>4 DEF StopHonoured
<1>5. ASSUME NEW ok \in BOOLEAN, Probe(ok) PROVE TypeOK'
  BY <1>5 DEF Probe, Proceed, Fail, NextRetry, Reported
<1>6. ASSUME NEW ok \in BOOLEAN, Asked(ok) PROVE TypeOK'
  BY <1>6 DEF Asked, Proceed, Fail, NextRetry, Reported, Ends, StepCommand
<1>7. ASSUME NEW ok \in BOOLEAN, ServerSet(ok) PROVE TypeOK'
  BY <1>7 DEF ServerSet, Proceed, Fail, NextRetry, Reported, Ends, StepCommand
<1>8. ASSUME NEW ok \in BOOLEAN, ZoneClaimed(ok) PROVE TypeOK'
  BY <1>8 DEF ZoneClaimed, Succeed, Fail, NextRetry, Reported, Ends, StepCommand
<1>9. ASSUME NEW ok \in BOOLEAN, Cleared(ok) PROVE TypeOK'
  BY <1>9 DEF Cleared, Proceed, Ends, StepCommand
<1>10. ASSUME NEW ok \in BOOLEAN, RuleAdded(ok) PROVE TypeOK'
  BY <1>10 DEF RuleAdded, Succeed, Fail, NextRetry, Reported, Ends, StepCommand
<1>11. ASSUME Start PROVE TypeOK'
  <2>1. 1 \in 1 .. MaxCount
    OBVIOUS
  <2> QED
    BY <1>11, <2>1 DEF Start
<1>12. ASSUME Stop PROVE TypeOK'
  BY <1>12 DEF Stop
<1>13. ASSUME CutOff PROVE TypeOK'
  BY <1>13 DEF CutOff, Killed
<1>14. ASSUME TaskGone PROVE TypeOK'
  BY <1>14 DEF TaskGone, HandBack, Exit
<1>15. ASSUME NEW ok \in BOOLEAN, Deregistered(ok) PROVE TypeOK'
  <2>1. (strays # {}) \in BOOLEAN
    OBVIOUS
  <2>2. /\ daemon' = "down" /\ sys' \in SUBSET Full
        /\ strays' \in SUBSET Command /\ left' \in BOOLEAN
    BY <1>15, <2>1, ExitType DEF Deregistered
  <2> QED
    BY <1>15, <2>2 DEF Deregistered
<1>16. ASSUME Enable PROVE TypeOK'
  BY <1>16 DEF Enable
<1>17. ASSUME Hang PROVE TypeOK'
  BY <1>17 DEF Hang, Fault
<1>18. ASSUME Kill PROVE TypeOK'
  <2>1. UnderWay \in SUBSET Command
    BY DEF UnderWay
  <2>2. PICK settings \in SUBSET Full, under_way \in SUBSET Command :
          Exit(settings, under_way, TRUE)
    <3>1. CASE Exit(sys, strays \cup UnderWay, TRUE)
      BY <2>1, <3>1
    <3>2. CASE \E c \in UnderWay : Exit(After(c), strays, TRUE)
      BY <3>2
    <3>3. CASE Exit(sys, strays, TRUE)
      BY <3>3
    <3> QED
      BY <1>18, <3>1, <3>2, <3>3 DEF Kill
  <2>3. /\ daemon' = "down" /\ sys' \in SUBSET Full
        /\ strays' \in SUBSET Command /\ left' \in BOOLEAN
    BY <2>2, ExitType
  <2>4. faults' \in 0 .. MaxFaults
    BY <1>18 DEF Kill, Fault
  <2>5. /\ task' = "none" /\ hung' = FALSE
        /\ UNCHANGED <<envVars, runVars, dns, last>>
    BY <1>18 DEF Kill
  <2> QED
    BY <2>3, <2>4, <2>5
<1>19. ASSUME NEW c \in Command, StrayLands(c) PROVE TypeOK'
  BY <1>19 DEF StrayLands
<1>20. CASE UNCHANGED vars
  BY <1>20 DEF vars
<1> QED
  BY <1>1, <1>2, <1>3, <1>4, <1>5, <1>6, <1>7, <1>8, <1>9, <1>10, <1>11, <1>12,
     <1>13, <1>14, <1>15, <1>16, <1>17, <1>18, <1>19, <1>20 DEF Next, Attempt

\* The registration machinery is always in a well-formed state, and its retry
\* counter within its range (registration.rs, retry_until_stopped).
THEOREM RegistrationTypes == Spec => []TypeOK
BY TypeInit, TypeStep, PTL DEF Spec
-----------------------------------------------------------------------------
(* The registration: safety *)

\* The inductive invariant holds initially.
LEMMA InvInit == Init => Inv
BY TypeInit DEF Init, Inv, TaskFits, SysFits, StatusHonest, Sound, Command

\* Every step keeps the inductive invariant.
LEMMA InvStep == Inv /\ [Next]_vars => Inv'
<1> SUFFICES ASSUME Inv, [Next]_vars
             PROVE  TaskFits' /\ SysFits' /\ StatusHonest'
  BY TypeStep DEF Inv
<1> USE DEF Inv, TypeOK, TaskFits, SysFits, StatusHonest, Sound, Full, Command,
            Failure, runVars, envVars
<1>1. ASSUME WaitOver
      PROVE  TaskFits' /\ SysFits' /\ StatusHonest'
  BY <1>1 DEF WaitOver, Proceed
<1>2. ASSUME Register
      PROVE  TaskFits' /\ SysFits' /\ StatusHonest'
  BY <1>2 DEF Register, Proceed
<1>3. ASSUME ReportRegistered
      PROVE  TaskFits' /\ SysFits' /\ StatusHonest'
  BY <1>3 DEF ReportRegistered
<1>4. ASSUME StopHonoured
      PROVE  TaskFits' /\ SysFits' /\ StatusHonest'
  BY <1>4 DEF StopHonoured
<1>5. ASSUME NEW ok \in BOOLEAN, Probe(ok)
      PROVE  TaskFits' /\ SysFits' /\ StatusHonest'
  BY <1>5 DEF Probe, Proceed, Fail, Reported
<1>6. ASSUME NEW ok \in BOOLEAN, Asked(ok)
      PROVE  TaskFits' /\ SysFits' /\ StatusHonest'
  BY <1>6 DEF Asked, Proceed, Fail, Reported, Ends, After, StepCommand
<1>7. ASSUME NEW ok \in BOOLEAN, ServerSet(ok)
      PROVE  TaskFits' /\ SysFits' /\ StatusHonest'
  BY <1>7 DEF ServerSet, Proceed, Fail, Reported, Ends, After, StepCommand
<1>8. ASSUME NEW ok \in BOOLEAN, ZoneClaimed(ok)
      PROVE  TaskFits' /\ SysFits' /\ StatusHonest'
  BY <1>8 DEF ZoneClaimed, Succeed, Fail, Reported, Ends, After, StepCommand
<1>9. ASSUME NEW ok \in BOOLEAN, Cleared(ok)
      PROVE  TaskFits' /\ SysFits' /\ StatusHonest'
  BY <1>9 DEF Cleared, Proceed, Ends, After, StepCommand
<1>10. ASSUME NEW ok \in BOOLEAN, RuleAdded(ok)
      PROVE  TaskFits' /\ SysFits' /\ StatusHonest'
  BY <1>10 DEF RuleAdded, Succeed, Fail, Reported, Ends, After, StepCommand
<1>11. ASSUME Start
      PROVE  TaskFits' /\ SysFits' /\ StatusHonest'
  BY <1>11 DEF Start
<1>12. ASSUME Stop
      PROVE  TaskFits' /\ SysFits' /\ StatusHonest'
  BY <1>12 DEF Stop
<1>13. ASSUME CutOff
      PROVE  TaskFits' /\ SysFits' /\ StatusHonest'
  BY <1>13 DEF CutOff, Killed
<1>14. ASSUME TaskGone
      PROVE  TaskFits' /\ SysFits' /\ StatusHonest'
  BY <1>14 DEF TaskGone, HandBack, Exit
<1>15. ASSUME NEW ok \in BOOLEAN, Deregistered(ok)
      PROVE  TaskFits' /\ SysFits' /\ StatusHonest'
  BY <1>15 DEF Deregistered, Exit
<1>16. ASSUME Enable
      PROVE  TaskFits' /\ SysFits' /\ StatusHonest'
  BY <1>16 DEF Enable
<1>17. ASSUME Hang
      PROVE  TaskFits' /\ SysFits' /\ StatusHonest'
  BY <1>17 DEF Hang
<1>18. ASSUME Kill
      PROVE  TaskFits' /\ SysFits' /\ StatusHonest'
  BY <1>18 DEF Kill, Exit
<1>19. ASSUME NEW c \in Command, StrayLands(c)
      PROVE  TaskFits' /\ SysFits' /\ StatusHonest'
  BY <1>19 DEF StrayLands
<1>20. CASE UNCHANGED vars
  BY <1>20 DEF vars
<1> QED
  BY <1>1, <1>2, <1>3, <1>4, <1>5, <1>6, <1>7, <1>8, <1>9, <1>10, <1>11, <1>12,
     <1>13, <1>14, <1>15, <1>16, <1>17, <1>18, <1>19, <1>20 DEF Next, Attempt

\* The inductive invariant holds throughout.
THEOREM RegistrationInvariant == Spec => []Inv
BY InvInit, InvStep, PTL DEF Spec

\* A daemon that stopped in order leaves nothing registered and nothing that
\* could still register, whatever a stop interrupts (registration.rs, stop).
THEOREM ZoneHandedBack == Spec => []HandedBack
<1>1. Inv => HandedBack
  BY DEF Inv, SysFits, Sound, HandedBack
<1> QED
  BY <1>1, RegistrationInvariant, PTL

\* What `status' calls registered is registered (registration.rs, attempt and
\* retry_until_stopped; resolv.rs, register).
THEOREM StatusIsHonest == Spec => []StatusHonest
<1>1. Inv => StatusHonest
  BY DEF Inv
<1> QED
  BY <1>1, RegistrationInvariant, PTL

-----------------------------------------------------------------------------
(* The registration: the wait before a retry *)

\* Powers of two do not shrink: 2 ^ n counts the subsets of 1 .. n.
LEMMA PowersGrow ==
  ASSUME NEW m \in Nat, NEW n \in Nat, m <= n
  PROVE  /\ 2 ^ m \in Nat /\ 2 ^ n \in Nat
         /\ 1 <= 2 ^ m /\ 2 ^ m <= 2 ^ n
         /\ m < n => 2 ^ m < 2 ^ n
<1>1. ASSUME NEW k \in Nat
      PROVE  /\ IsFiniteSet(SUBSET (1 .. k))
             /\ Cardinality(SUBSET (1 .. k)) = 2 ^ k
  <2>1. IsFiniteSet(1 .. k) /\ Cardinality(1 .. k) = k
    BY FS_Interval
  <2> QED
    BY <2>1, FS_SUBSET
<1>2. SUBSET (1 .. m) \in SUBSET (SUBSET (1 .. n)) /\ {{}} \in SUBSET (SUBSET (1 .. m))
  OBVIOUS
<1>3. /\ Cardinality(SUBSET (1 .. m)) <= Cardinality(SUBSET (1 .. n))
      /\ Cardinality(SUBSET (1 .. n)) = Cardinality(SUBSET (1 .. m))
           => SUBSET (1 .. n) = SUBSET (1 .. m)
  BY <1>1, <1>2, FS_Subset
<1>4. 1 <= Cardinality(SUBSET (1 .. m))
  <2>1. Cardinality({{}}) = 1
    BY FS_Singleton
  <2> QED
    BY <1>1, <1>2, <2>1, FS_Subset
<1>5. Cardinality(SUBSET (1 .. m)) \in Nat /\ Cardinality(SUBSET (1 .. n)) \in Nat
  BY <1>1, FS_CardinalityType
<1>6. m < n => SUBSET (1 .. n) # SUBSET (1 .. m)
  <2>1. m < n => n \in 1 .. n /\ n \notin 1 .. m
    OBVIOUS
  <2>2. 1 .. n \in SUBSET (1 .. n)
    OBVIOUS
  <2> QED
    BY <2>1, <2>2
<1>7. m < n => Cardinality(SUBSET (1 .. m)) < Cardinality(SUBSET (1 .. n))
  BY <1>3, <1>5, <1>6
<1>8. Cardinality(SUBSET (1 .. m)) = 2 ^ m /\ Cardinality(SUBSET (1 .. n)) = 2 ^ n
  BY <1>1
<1> QED
  BY <1>3, <1>4, <1>5, <1>7, <1>8

LEMMA LongerWait ==
  ASSUME NEW x \in Nat, NEW m \in Nat, NEW n \in Nat, m <= n
  PROVE  x * m \in Nat /\ x * n \in Nat /\ x * m <= x * n
OBVIOUS

\* What FIRST_RETRY is multiplied by.
Factor(n) == IF n - 1 < Bits THEN 2 ^ (n - 1) ELSE MaxCount

\* A shift by the width of the counter or more counts as its largest value,
\* which is at least as much as any shift below.
LEMMA FactorGrows ==
  ASSUME NEW n \in Nat \ {0}
  PROVE  /\ Factor(n) \in Nat /\ Factor(n + 1) \in Nat
         /\ 1 <= Factor(n) /\ Factor(n) <= Factor(n + 1)
<1>1. Bits \in Nat /\ MaxCount \in Nat /\ 1 <= MaxCount /\ MaxCount = 2 ^ Bits - 1
  BY RetryAssumption, WidthAssumption
<1>2. CASE n < Bits
  BY <1>1, <1>2, PowersGrow DEF Factor
<1>3. CASE n = Bits
  <2>1. Bits - 1 \in Nat /\ n - 1 = Bits - 1
    BY <1>1, <1>3
  <2>2. /\ 2 ^ (n - 1) \in Nat /\ 1 <= 2 ^ (n - 1)
        /\ 2 ^ (n - 1) <= MaxCount
    BY <1>1, <2>1, PowersGrow
  <2> QED
    BY <1>1, <1>3, <2>2 DEF Factor
<1>4. CASE n > Bits
  BY <1>1, <1>4 DEF Factor
<1> QED
  BY <1>1, <1>2, <1>3, <1>4

LEMMA DelayGrows ==
  ASSUME NEW n \in Nat \ {0}
  PROVE  /\ Delay(n) \in Nat
         /\ FirstRetry <= Delay(n) /\ Delay(n) <= MaxRetry
         /\ Delay(n) <= Delay(n + 1)
<1>1. FirstRetry \in Nat /\ MaxRetry \in Nat /\ FirstRetry <= MaxRetry
  BY RetryAssumption
<1>2. /\ Factor(n) \in Nat /\ Factor(n + 1) \in Nat
      /\ 1 <= Factor(n) /\ Factor(n) <= Factor(n + 1)
  BY FactorGrows
<1>3. ASSUME NEW k
      PROVE  Delay(k) = IF FirstRetry * Factor(k) < MaxRetry
                        THEN FirstRetry * Factor(k) ELSE MaxRetry
  BY DEF Delay, Factor
<1>4. /\ FirstRetry * Factor(n) \in Nat /\ FirstRetry * Factor(n + 1) \in Nat
      /\ FirstRetry * Factor(n) <= FirstRetry * Factor(n + 1)
  BY <1>1, <1>2, LongerWait
<1>5. FirstRetry * 1 <= FirstRetry * Factor(n) /\ FirstRetry * 1 = FirstRetry
  BY <1>1, <1>2, LongerWait
<1> QED
  BY <1>1, <1>3, <1>4, <1>5

\* While the task runs its counter stays or goes to the next retry.
LEMMA RetryStep ==
  ASSUME [Next]_vars, task # "none", daemon = "running", daemon' = "running"
  PROVE  retry' = retry \/ retry' = NextRetry(retry)
<1>1. CASE WaitOver \/ Register \/ ReportRegistered \/ StopHonoured
  BY <1>1 DEF WaitOver, Register, ReportRegistered, StopHonoured, Proceed, runVars
<1>2. CASE \E ok \in BOOLEAN : Probe(ok) \/ Asked(ok) \/ ServerSet(ok)
  BY <1>2 DEF Probe, Asked, ServerSet, Proceed, Fail
<1>3. CASE \E ok \in BOOLEAN : ZoneClaimed(ok) \/ Cleared(ok) \/ RuleAdded(ok)
  BY <1>3 DEF ZoneClaimed, Cleared, RuleAdded, Proceed, Succeed, Fail
<1>4. CASE Start \/ Stop \/ CutOff \/ TaskGone \/ Enable \/ Hang
  BY <1>4 DEF Start, Stop, CutOff, TaskGone, Enable, Hang, runVars
<1>5. CASE \E ok \in BOOLEAN : Deregistered(ok)
  BY <1>5 DEF Deregistered, runVars
<1>6. CASE Kill \/ \E c \in Command : StrayLands(c)
  BY <1>6 DEF Kill, StrayLands, runVars
<1>7. CASE UNCHANGED vars
  BY <1>7 DEF vars, runVars
<1> QED
  BY <1>1, <1>2, <1>3, <1>4, <1>5, <1>6, <1>7 DEF Next, Attempt

\* The wait before a retry never shrinks and stays within its limits, for a
\* counter of any width, also at the end of its range (registration.rs, delay:
\* "cannot overflow its way into a zero wait and a busy loop").
THEOREM WaitsBackOff == Spec => BackOff
<1>1. ASSUME TypeOK, [Next]_vars
      PROVE  task # "none" /\ daemon = "running" /\ daemon' = "running"
               => /\ FirstRetry <= Delay(retry)
                  /\ Delay(retry) <= Delay(retry')
                  /\ Delay(retry') <= MaxRetry
  <2> SUFFICES ASSUME task # "none", daemon = "running", daemon' = "running"
               PROVE  /\ FirstRetry <= Delay(retry)
                      /\ Delay(retry) <= Delay(retry')
                      /\ Delay(retry') <= MaxRetry
    OBVIOUS
  <2>1. retry \in Nat \ {0} /\ retry + 1 \in Nat \ {0}
    BY <1>1, RetryAssumption DEF TypeOK
  <2>2. retry' = retry \/ retry' = retry + 1
    BY <1>1, RetryStep DEF NextRetry
  <2>3. Delay(retry) <= Delay(retry)
    BY <2>1, DelayGrows
  <2> QED
    BY <2>1, <2>2, <2>3, DelayGrows
<1> QED
  BY <1>1, RegistrationTypes, PTL DEF Spec, BackOff
=============================================================================
