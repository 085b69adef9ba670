------------------------------- MODULE Resolver -------------------------------
(***************************************************************************)
(* The resolver for the `.quix' zone (daemon/src/dns.rs): where it listens *)
(* and what it answers, while the membership it answers from changes.      *)
(*                                                                         *)
(* A query reads the membership three times, each under a lock of its own: *)
(* the hostnames, the addresses, the network's name (answer_loop).  What   *)
(* each change does to the membership is module Membership's; this one     *)
(* adds the network's name, which only the resolver looks at.  An address  *)
(* follows from its node's key and stands for it.                          *)
(***************************************************************************)
EXTENDS Membership, Sequences

CONSTANTS
  Self,          \* this node
  Title,         \* names of networks
  NoTitle,
  NetworkLabel,  \* NetworkLabel[t]: the DNS label made of title t
  Rosters,       \* the rosters coordinators hand out
  Flat,          \* the scope of `host.quix'
  Outside,       \* the scope of a name with more labels, or in no `.quix'
  Query,         \* sets of questions that come in one message
  Malformed,     \* a message that is no query
  Mesh,          \* this node's mesh addresses, best first
  Loopback,      \* the address that has to be there
  BindAttempts,  \* BIND_ATTEMPTS
  MaxChanges,    \* bound: changes of the membership
  MaxQueries     \* bound: messages that come in

ASSUME SelfAssumption == Self \in Node
ASSUME TitleAssumption ==
  /\ NoTitle \notin Title
  /\ \A t \in Title : NetworkLabel[t] \notin {Flat, Outside}
ASSUME RosterAssumption == Rosters \subseteq Roster
ASSUME QueryAssumption ==
  /\ {} \notin Query /\ Malformed \notin Query
  /\ \A query \in Query : \A q \in query : q.label # NoName
ASSUME MeshAssumption ==
  Mesh \in Seq({Mesh[i] : i \in DOMAIN Mesh} \ {Loopback})
ASSUME AttemptAssumption == BindAttempts \in Nat \ {0}
ASSUME ResolverBoundAssumption == MaxChanges \in Nat /\ MaxQueries \in Nat

VARIABLES
  mem, title,   \* the membership, and the name of its network
  binding,      \* how many mesh addresses are settled
  attempts,     \* attempts made at the next one
  sockets,      \* addresses listened on
  candidates,   \* the mesh addresses among them, best first
  loop,         \* loop[a]: the task that answers on address a
  changes, queries   \* what happened, against the bounds

resolverVars == <<mem, title, binding, attempts, sockets, candidates, loop,
                  changes, queries>>
bindVars == <<binding, attempts, sockets, candidates>>

Address == {Loopback} \cup {Mesh[i] : i \in DOMAIN Mesh}
OptTitle == Title \cup {NoTitle}

\* What there is to know of the membership at one moment.
Views == [members : SUBSET Node, host : [Node -> OptName], title : OptTitle]
View(m, t) == [members |-> m.members, host |-> m.host, title |-> t]
Now == View(mem, title)

\* The loop that answers on one address: waiting, before each of its reads, and
\* when it has replied.  `seen' keeps every view from the message's arrival to
\* its reply.
Idle == [pc |-> "idle"]
AwaitsHostnames ==
  [pc : {"hostnames"}, query : Query \cup {Malformed}, seen : SUBSET Views]
AwaitsAddrs ==
  [pc : {"addresses"}, query : Query \cup {Malformed}, seen : SUBSET Views,
   host : [Node -> OptName]]
AwaitsNetwork ==
  [pc : {"network"}, query : Query \cup {Malformed}, seen : SUBSET Views,
   host : [Node -> OptName], members : SUBSET Node]
HasReplied ==
  [pc : {"sent"}, query : Query, seen : SUBSET Views,
   answers : SUBSET [question : UNION Query, node : Node],
   rcode : {"NOERROR", "NXDOMAIN"}]

Answering == AwaitsHostnames \cup AwaitsAddrs \cup AwaitsNetwork
Loop == {Idle} \cup Answering \cup HasReplied

ResolverTypeOK ==
  /\ mem \in MembershipType
  /\ title \in OptTitle
  /\ binding \in 0 .. Len(Mesh)
  /\ attempts \in 0 .. BindAttempts - 1
  /\ sockets \subseteq Address
  /\ candidates \in Seq(sockets \ {Loopback})
  /\ DOMAIN loop = Address
  /\ \A a \in Address : loop[a] \in Loop
  /\ changes \in 0 .. MaxChanges
  /\ queries \in 0 .. MaxQueries

\* In no network, and not listening yet.
ResolverInit ==
  /\ mem = Default /\ title = NoTitle
  /\ binding = 0 /\ attempts = 0 /\ sockets = {} /\ candidates = <<>>
  /\ loop = [a \in Address |-> Idle]
  /\ changes = 0 /\ queries = 0

-----------------------------------------------------------------------------
(* The membership changes *)

Change(m, t) ==
  /\ changes < MaxChanges /\ changes' = changes + 1
  /\ mem' = m /\ title' = t
  /\ loop' = [a \in Address |->
       IF loop[a].pc \in {"hostnames", "addresses", "network"}
       THEN [loop[a] EXCEPT !.seen = @ \cup {View(m, t)}]
       ELSE loop[a]]
  /\ UNCHANGED <<bindVars, queries>>

CreateNetwork(t, hostname) == Change(Create(mem, Self, changes, hostname), t)

JoinNetwork(coordinator, t, roster) ==
  coordinator # Self /\ Change(SetJoined(mem, Self, coordinator, roster), t)

\* A push without a name leaves the name as it is.  (One that is checked before
\* and applied after a leave is module ControlPlane's.)
PushRoster(t, roster) ==
  /\ mem.coord \notin {NoNode, Self}
  /\ Change(SetRoster(mem, Self, roster), IF t = NoTitle THEN title ELSE t)

LeaveNetwork == Change(Leave(mem), NoTitle)

\* As coordinator: a member comes, gets a name, goes.
Admit(i) ==
  /\ IsCoordinator(mem, Self) /\ i \notin mem.members
  /\ Change([mem EXCEPT !.members = @ \cup {i}], title)

Claim(i, spelling, force) ==
  LET wanted == Validate(spelling, i)
  IN  /\ IsCoordinator(mem, Self) /\ i \in mem.members /\ wanted # NoName
      /\ force => i = Self
      /\ Change(ClaimHostname(mem, i, wanted, force), title)

Kick(i) ==
  /\ IsCoordinator(mem, Self) /\ i \in mem.members \ {Self}
  /\ Change(RemoveMember(mem, i), title)

-----------------------------------------------------------------------------
(* Listening: bind and bind_with_retry *)

\* Without the loopback address there is no resolver at all.
BindLoopback ==
  /\ sockets = {}
  /\ sockets' = {Loopback}
  /\ UNCHANGED <<mem, title, binding, attempts, candidates, loop, changes,
                 queries>>

BindMesh ==
  /\ sockets # {} /\ binding < Len(Mesh)
  /\ LET a == Mesh[binding + 1]
     IN  /\ sockets' = sockets \cup {a}
         /\ candidates' = Append(candidates, a)
  /\ binding' = binding + 1
  /\ attempts' = 0
  /\ UNCHANGED <<mem, title, loop, changes, queries>>

BindFails ==
  /\ sockets # {} /\ binding < Len(Mesh)
  /\ IF attempts + 1 < BindAttempts
     THEN attempts' = attempts + 1 /\ UNCHANGED binding
     ELSE attempts' = 0 /\ binding' = binding + 1
  /\ UNCHANGED <<mem, title, sockets, candidates, loop, changes, queries>>

\* Every socket is served once bind has returned.
Serving == sockets # {} /\ binding = Len(Mesh)

-----------------------------------------------------------------------------
(* Answering: answer_loop *)

Receive(a, query) ==
  /\ Serving /\ a \in sockets
  /\ queries < MaxQueries /\ queries' = queries + 1
  /\ loop[a].pc \in {"idle", "sent"}
  /\ loop' = [loop EXCEPT ![a] =
       [pc |-> "hostnames", query |-> query, seen |-> {Now}]]
  /\ UNCHANGED <<mem, title, bindVars, changes>>

\* The loop on a goes on to its next state.
Advance(a, to) ==
  /\ loop' = [loop EXCEPT ![a] = to]
  /\ UNCHANGED <<mem, title, bindVars, changes, queries>>

ReadHostnames(a) ==
  /\ loop[a].pc = "hostnames"
  /\ Advance(a, [pc |-> "addresses", query |-> loop[a].query,
                 seen |-> loop[a].seen, host |-> mem.host])

ReadAddrs(a) ==
  /\ loop[a].pc = "addresses"
  /\ Advance(a, [pc |-> "network", query |-> loop[a].query,
                 seen |-> loop[a].seen, host |-> loop[a].host,
                 members |-> mem.members])

\* Mutant: any network's label is as good as ours.
AnyNetwork(question, t) == question.scope # Outside

\* The flat form, or the form with this network's label.
host_in_zone(question, t) ==
  \/ question.scope = Flat
  \/ t # NoTitle /\ question.scope = NetworkLabel[t]

\* The first entry with the label, in the order of the ids: a node's fallback
\* and then its hostname, for the addresses of the second read.
Named(host, members, label) ==
  {i \in members : label \in {Fallback[i], host[i]}}

Found(t, question) ==
  /\ host_in_zone(question, title)
  /\ Named(t.host, t.members, question.label) # {}

Record(t, question) ==
  [question |-> question, node |-> Min(Named(t.host, t.members, question.label))]

\* Mutant: one unknown name denies them all.
AllFound(t) == \A q \in t.query : Found(t, q)

AnyFound(t) == \E q \in t.query : Found(t, q)

\* Records for the questions about addresses, and a code for all of them.
Answers(t) ==
  {Record(t, q) : q \in {p \in t.query : p.type \in {"A", "AAAA"} /\ Found(t, p)}}
Rcode(t) == IF AnyFound(t) THEN "NOERROR" ELSE "NXDOMAIN"

\* The network's name is read and the reply is sent, or lost on its way.
SendReply(a) ==
  /\ loop[a].pc = "network" /\ loop[a].query # Malformed
  /\ Advance(a, [pc |-> "sent", query |-> loop[a].query,
                 seen |-> loop[a].seen, answers |-> Answers(loop[a]),
                 rcode |-> Rcode(loop[a])])

Ignore(a) ==
  /\ loop[a].pc = "network" /\ loop[a].query = Malformed
  /\ Advance(a, Idle)

-----------------------------------------------------------------------------
ResolverNext ==
  \/ \E t \in Title, h \in Typed \cup {NoName} :
       /\ h # NoName => Validate(h, Self) # NoName
       /\ CreateNetwork(t, IF h = NoName THEN h ELSE Validate(h, Self))
  \/ \E c \in Node, t \in OptTitle, r \in Rosters : JoinNetwork(c, t, r)
  \/ \E t \in OptTitle, r \in Rosters : PushRoster(t, r)
  \/ LeaveNetwork
  \/ \E i \in Node : Admit(i) \/ Kick(i)
  \/ \E i \in Node, h \in Typed, force \in BOOLEAN : Claim(i, h, force)
  \/ BindLoopback \/ BindMesh \/ BindFails
  \/ \E a \in Address :
       \/ \E query \in Query \cup {Malformed} : Receive(a, query)
       \/ ReadHostnames(a) \/ ReadAddrs(a) \/ SendReply(a) \/ Ignore(a)

ResolverSpec == ResolverInit /\ [][ResolverNext]_resolverVars

-----------------------------------------------------------------------------
(* Properties *)

\* In one view of the membership: a node goes by a label, and a question is
\* about this network.
Bears(v, i, label) == i \in v.members /\ label \in {Fallback[i], v.host[i]}
About(v, question) ==
  \/ question.scope = Flat
  \/ v.title # NoTitle /\ question.scope = NetworkLabel[v.title]

Replied == {loop[a] : a \in {b \in Address : loop[b].pc = "sent"}}

\* A record names a node that was a member under that very name at one moment
\* between query and reply, although names and addresses are read under two
\* locks; and a qualified question was about this network at such a moment
\* (dns.rs, resolvable and host_in_zone).
AnswerHeld ==
  \A t \in Replied : \A r \in t.answers :
    /\ \E v \in t.seen : Bears(v, r.node, r.question.label)
    /\ \E v \in t.seen : About(v, r.question)

\* A name that one node bears from query to reply is never denied, whatever
\* else changes meanwhile and whatever else the message asks; and a reply that
\* denies nothing was asked about a name somebody bore, also when it holds no
\* record (dns.rs, answer: "The name exists but not for this type: an empty
\* NOERROR").
DenialHonest ==
  \A t \in Replied :
    /\ t.rcode = "NXDOMAIN" =>
         \A q \in t.query, i \in Node :
           \E v \in t.seen : ~ (Bears(v, i, q.label) /\ About(v, q))
    /\ t.rcode = "NOERROR" =>
         \E q \in t.query, i \in Node, v \in t.seen : Bears(v, i, q.label)

-----------------------------------------------------------------------------
(* What comments say, and the code does not keep *)

\* "Unforgeable by construction: no roster, compromised or otherwise, can point
\* this at a different key" (names.rs, fallback): whoever is asked about by its
\* fallback is the one the record names.
FallbackOwn ==
  \A t \in Replied : \A r \in t.answers, i \in Node :
    r.question.label = Fallback[i] => r.node = i
=============================================================================
