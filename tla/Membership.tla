------------------------------ MODULE Membership ------------------------------
(***************************************************************************)
(* One node's view of its network (daemon/src/membership.rs), with the     *)
(* naming rules it applies (daemon/src/names.rs).  The operators take the  *)
(* membership m before a call and return the membership after it; the      *)
(* specifications that EXTEND this module decide who calls them, when, and *)
(* between which two acquisitions of the membership lock.                  *)
(*                                                                         *)
(* Endpoint ids are numbers: their order is the order of the ids' text.    *)
(* The roster, a Vec in the code, is a set of ids with a hostname each:    *)
(* no id is ever listed twice, and its order (a pushed roster is sorted)   *)
(* only decides which of two entries with one hostname comes first.        *)
(* network_name is left out: no decision depends on that title.            *)
(***************************************************************************)
EXTENDS Naturals, FiniteSetsExt

CONSTANTS
  Node,        \* endpoint ids
  NoNode,      \* None, where an id is optional
  Name,        \* legal DNS labels, in lower case
  NoName,      \* None, where a hostname is optional
  Spelling,    \* what can be written for a hostname, well formed or not
  Typed,       \* the spellings the users of these nodes ever type
  Label,       \* Label[s]: s trimmed and lowered, NoName if no legal label
  Hex,         \* the labels shaped like a fallback: eight hex digits
  Fallback,    \* Fallback[n]: the first eight digits of n's id
  MaxSuffix,   \* how far numbered names run before the last resort
  Numbered,    \* Numbered[h][k]: the label "h-k"
  LastResort,  \* LastResort[h][n]: the label "h-" with n's fallback
  Token,       \* the random half of an invite code
  NoNet        \* None, where a network id is optional

ASSUME NodeAssumption ==
  /\ Node \subseteq Nat
  /\ NoNode \notin Node

ASSUME NameAssumption ==
  /\ NoName \notin Name
  /\ Hex \subseteq Name
  /\ Name \subseteq Spelling
  /\ Typed \subseteq Spelling
  /\ Label \in [Spelling -> Name \cup {NoName}]
  /\ \A h \in Name : Label[h] = h

ASSUME FallbackAssumption == Fallback \in [Node -> Hex]

ASSUME SuffixAssumption ==
  /\ MaxSuffix \in Nat
  /\ Numbered \in [Name -> [1 .. MaxSuffix -> Name \ Hex]]
  /\ LastResort \in [Name -> [Node -> Name \ Hex]]
  \* After the last hyphen: at most four digits, or the fallback of one node.
  /\ \A g, h \in Name, n \in Node :
       /\ \A k \in 1 .. MaxSuffix : Numbered[g][k] # LastResort[h][n]
       /\ \A i \in Node : LastResort[g][i] = LastResort[h][n] =>
                         Fallback[i] = Fallback[n]

ASSUME NetAssumption == NoNet \notin Nat

\* Not assumed, since the code does not see to it; some theorems need it.  No two
\* ids begin with the same eight digits, and nobody types a name that ends in a
\* hyphen and the fallback of a node.
DistinctFallbacks == \A i, j \in Node : Fallback[i] = Fallback[j] => i = j
OrdinaryNames == \A s \in Typed, h \in Name, i \in Node : Label[s] # LastResort[h][i]

OptNode == Node \cup {NoNode}
OptName == Name \cup {NoName}

Invite == [token : Token, net : Nat \cup {NoNet}, expires : Nat]
Roster == [members : SUBSET Node, host : [Node -> OptName]]

MembershipType ==
  [coord   : OptNode,             \* coordinator_id
   net     : Nat \cup {NoNet},    \* network_id, None unless created here
   members : SUBSET Node,         \* the roster, and the hostname of each
   host    : [Node -> OptName],   \* entry: NoName for an id not listed
   invites : SUBSET Invite,       \* pending_invites
   bind    : [Name -> OptNode]]   \* bindings: which key owns a name

Default ==
  [coord   |-> NoNode,
   net     |-> NoNet,
   members |-> {},
   host    |-> [i \in Node |-> NoName],
   invites |-> {},
   bind    |-> [h \in Name |-> NoNode]]

IsCoordinator(m, self) == m.coord = self

RosterOf(m) == [members |-> m.members, host |-> m.host]

-----------------------------------------------------------------------------
(* Names *)

\* The label to store, or NoName when the request is refused.
Validate(requested, claimant) ==
  LET name == Label[requested]
  IN  IF name \in Hex /\ name # Fallback[claimant] THEN NoName ELSE name

\* A name that is bound to another key, or is another member's fallback.
SpokenFor(m, name, claimant) ==
  \/ m.bind[name] \notin {NoNode, claimant}
  \/ \E i \in m.members \ {claimant} : Fallback[i] = name

\* The name itself if it is free, then the first free numbered one, then one
\* with the claimant's own fallback, which is not looked up any more.
Dedupe(m, requested, claimant) ==
  LET free == {k \in 1 .. MaxSuffix :
                 ~ SpokenFor(m, Numbered[requested][k], claimant)}
  IN  CASE ~ SpokenFor(m, requested, claimant) -> requested
        [] SpokenFor(m, requested, claimant) /\ free # {} ->
             Numbered[requested][Min(free)]
        [] OTHER -> LastResort[requested][claimant]

Bind(m, id, name) ==
  [m EXCEPT !.bind[name] = id,
            !.host[id] = IF id \in m.members THEN name ELSE @]

\* Mutant: the previous holder keeps the name in the roster.
ReleaseKeepsHolder(m, name) == [m EXCEPT !.bind[name] = NoNode]

\* What force does first: the name is taken from whoever holds it.
Release(m, name) ==
  LET holders == {i \in m.members : m.host[i] = name}
  IN  [m EXCEPT !.bind[name] = NoNode,
                !.host = [i \in Node |-> IF holders # {} /\ i = Min(holders)
                                         THEN NoName ELSE m.host[i]]]

\* The name a claim is granted, and the membership afterwards.  `wanted' has
\* been validated for the claimant.
Assigned(m, claimant, wanted, force) ==
  Dedupe(IF force THEN Release(m, wanted) ELSE m, wanted, claimant)

ClaimHostname(m, claimant, wanted, force) ==
  Bind(IF force THEN Release(m, wanted) ELSE m, claimant,
       Assigned(m, claimant, wanted, force))

-----------------------------------------------------------------------------
(* Networks and invites *)

\* `fresh' is the random id of the new network, `hostname' validated or NoName.
\* The bindings of an earlier network stay.
Create(m, self, fresh, hostname) ==
  LET alone == [m EXCEPT !.coord = self,
                         !.net = fresh,
                         !.invites = {},
                         !.members = {self},
                         !.host = [i \in Node |-> NoName]]
  IN  IF hostname = NoName THEN alone ELSE Bind(alone, self, hostname)

Unexpired(invites, now) == {i \in invites : i.expires > now}

GenerateInvite(m, token, ttl, now) ==
  [m EXCEPT !.invites = Unexpired(@, now) \cup
              {[token |-> token, net |-> m.net, expires |-> now + ttl]}]

\* Mutant: an old code is as good as a new one.
IsLiveForever(invite, net, now) == invite.net = net /\ invite.net # NoNet

IsLive(invite, net, now) ==
  /\ invite.net = net
  /\ invite.net # NoNet
  /\ invite.expires > now

\* The pending invite with this token still admits its bearer.
Redeemable(m, token, now) ==
  \E i \in m.invites : i.token = token /\ IsLive(i, m.net, now)

\* Mutant: the token stays good for the next bearer.
RedeemKeepsToken(m, token, requester, now) ==
  [m EXCEPT !.members = IF Redeemable(m, token, now) THEN @ \cup {requester}
                                                     ELSE @]

\* The token is burned whatever the verdict; an unknown one changes nothing.
RedeemInvite(m, token, requester, now) ==
  IF \A i \in m.invites : i.token # token
  THEN m
  ELSE [m EXCEPT
          !.invites = {i \in Unexpired(@, now) : i.token # token},
          !.members = IF Redeemable(m, token, now) THEN @ \cup {requester}
                                                   ELSE @]

-----------------------------------------------------------------------------
(* Rosters *)

\* Mutant: the newest roster decides.
OwnerByLastRoster(m, roster, name) ==
  LET carriers == {i \in roster.members : roster.host[i] = name}
  IN  IF carriers # {} THEN Min(carriers) ELSE m.bind[name]

\* Who owns each name once `roster' is applied: the key it was bound to, else
\* the first entry that carries it.
OwnerAfter(m, roster, name) ==
  LET carriers == {i \in roster.members : roster.host[i] = name}
  IN  CASE m.bind[name] # NoNode -> m.bind[name]
        [] m.bind[name] = NoNode /\ carriers # {} -> Min(carriers)
        [] OTHER -> NoNode

\* Mutant: a roster without this node evicts it.
AlwaysCoordinator(m, self) == {m.coord} \ {NoNode}

\* Listed whatever the roster says: this node and its coordinator, if any.
AlwaysListed(m, self) == {self, m.coord} \ {NoNode}

\* Applied to an emptied member list: an entry keeps a name its key owns and
\* loses a disputed one; this node and its coordinator are always listed.
ApplyRoster(m, self, roster) ==
  LET owner == [h \in Name |-> OwnerAfter(m, roster, h)]
  IN  [m EXCEPT
         !.members = roster.members \cup AlwaysListed(m, self),
         !.host = [i \in Node |->
                     IF i \in roster.members /\ roster.host[i] # NoName
                     THEN IF owner[roster.host[i]] = i THEN roster.host[i]
                                                       ELSE NoName
                     ELSE NoName],
         !.bind = owner]

\* Mutant: the bindings of the network before this one still count.
SetJoinedKeepsBindings(m, self, coordinator, roster) ==
  ApplyRoster([m EXCEPT !.coord = coordinator,
                        !.net = NoNet,
                        !.invites = {}],
              self, roster)

SetJoined(m, self, coordinator, roster) ==
  ApplyRoster([m EXCEPT !.coord = coordinator,
                        !.net = NoNet,
                        !.invites = {},
                        !.bind = [h \in Name |-> NoNode]],
              self, roster)

SetRoster(m, self, roster) == ApplyRoster(m, self, roster)

Leave(m) == Default

\* Kept as a tombstone: the binding of whoever is removed.
RemoveMember(m, id) ==
  [m EXCEPT !.members = @ \ {id}, !.host[id] = NoName]
=============================================================================
