--------------------------- MODULE MembershipProofs ---------------------------
(***************************************************************************)
(* Lemmas about the operators of module Membership: each of them takes a   *)
(* well-formed membership to a well-formed one, and leaves listed names    *)
(* with the keys that own them.  The proofs about the specifications built *)
(* on Membership cite them.                                                *)
(***************************************************************************)
EXTENDS Membership, WellFoundedInduction, TLAPS

\* A non-empty set of numbers has a least element: what the code takes when it
\* looks for the first entry of a sorted roster or the first free suffix.
LEMMA MinNat ==
  ASSUME NEW S, S \subseteq Nat, S # {}
  PROVE  Min(S) \in S
<1>1. \E x \in S : \A y \in S : ~ (<<y, x>> \in OpToRel(<, Nat))
  BY NatLessThanWellFounded, WFMin
<1>2. \A x, y \in Nat : <<y, x>> \in OpToRel(<, Nat) <=> y < x
  BY DEF OpToRel
<1>3. PICK x \in S : \A y \in S : ~ (<<y, x>> \in OpToRel(<, Nat))
  BY <1>1
<1>4. \A y \in S : x \in Nat /\ y \in Nat /\ ~ (y < x)
  BY <1>2, <1>3
<1>5. \A y \in S : x =< y
  BY <1>4
<1> QED
  BY <1>5 DEF Min

\* The least member of a non-empty set of nodes is one of them.
LEMMA MinNode ==
  ASSUME NEW S, S \subseteq Node, S # {}
  PROVE  Min(S) \in S
BY MinNat, NodeAssumption

\* A node that has joined nothing has a well-formed membership.
LEMMA DefaultType == Default \in MembershipType
BY DEF Default, MembershipType, OptNode, OptName

-----------------------------------------------------------------------------
(* Names *)

\* What validation lets through is a label (names.rs, validate).
LEMMA ValidateType ==
  ASSUME NEW s \in Spelling, NEW c \in Node
  PROVE  Validate(s, c) \in OptName
BY NameAssumption DEF Validate, OptName

\* Whatever is taken, a claim gets a label (names.rs, dedupe).
LEMMA DedupeType ==
  ASSUME NEW m \in MembershipType, NEW h \in Name, NEW c \in Node
  PROVE  Dedupe(m, h, c) \in Name
<1> DEFINE free == {k \in 1 .. MaxSuffix : ~ SpokenFor(m, Numbered[h][k], c)}
<1>1. CASE free # {}
  <2>1. free \subseteq 1 .. MaxSuffix /\ free \subseteq Nat
    OBVIOUS
  <2> HIDE DEF free
  <2>2. Min(free) \in 1 .. MaxSuffix
    BY <1>1, <2>1, MinNat
  <2>3. Numbered[h][Min(free)] \in Name
    BY <2>2, SuffixAssumption
  <2> QED
    BY <1>1, <2>3, SuffixAssumption DEF Dedupe, free
<1>2. CASE free = {}
  BY <1>2, SuffixAssumption DEF Dedupe
<1> QED
  BY <1>1, <1>2

\* Recording a binding keeps a membership well formed.
LEMMA BindType ==
  ASSUME NEW m \in MembershipType, NEW i \in Node, NEW h \in Name
  PROVE  Bind(m, i, h) \in MembershipType
BY DEF Bind, MembershipType, OptNode, OptName

\* Taking a name from its holder keeps a membership well formed.
LEMMA ReleaseType ==
  ASSUME NEW m \in MembershipType, NEW h \in Name
  PROVE  Release(m, h) \in MembershipType
BY DEF Release, MembershipType, OptNode, OptName

\* The name a claim is assigned is a name.
LEMMA AssignedType ==
  ASSUME NEW m \in MembershipType, NEW i \in Node, NEW h \in Name,
         NEW force \in BOOLEAN
  PROVE  Assigned(m, i, h, force) \in Name
BY ReleaseType, DedupeType DEF Assigned

\* A claim keeps a membership well formed, forced or not.
LEMMA ClaimHostnameType ==
  ASSUME NEW m \in MembershipType, NEW i \in Node, NEW h \in Name,
         NEW force \in BOOLEAN
  PROVE  ClaimHostname(m, i, h, force) \in MembershipType
BY ReleaseType, AssignedType, BindType DEF ClaimHostname

-----------------------------------------------------------------------------
(* Networks, invites and rosters *)

\* A created network is a well-formed membership.
LEMMA CreateType ==
  ASSUME NEW m \in MembershipType, NEW self \in Node, NEW fresh \in Nat,
         NEW h \in OptName
  PROVE  Create(m, self, fresh, h) \in MembershipType
<1> DEFINE alone == [m EXCEPT !.coord = self, !.net = fresh, !.invites = {},
                              !.members = {self},
                              !.host = [i \in Node |-> NoName]]
<1>1. alone \in MembershipType
  BY DEF MembershipType, OptNode, OptName
<1> QED
  BY <1>1, BindType DEF Create, OptName

\* Minting a code keeps a membership well formed.
LEMMA GenerateInviteType ==
  ASSUME NEW m \in MembershipType, NEW token \in Token, NEW ttl \in Nat,
         NEW now \in Nat
  PROVE  GenerateInvite(m, token, ttl, now) \in MembershipType
BY DEF GenerateInvite, MembershipType, Invite, Unexpired

\* Redeeming a code keeps a membership well formed.
LEMMA RedeemInviteType ==
  ASSUME NEW m \in MembershipType, NEW token \in Token, NEW i \in Node,
         NEW now \in Nat
  PROVE  RedeemInvite(m, token, i, now) \in MembershipType
BY DEF RedeemInvite, MembershipType, Unexpired

\* After a roster a name belongs to a node or to nobody.
LEMMA OwnerAfterType ==
  ASSUME NEW m \in MembershipType, NEW r \in Roster, NEW h \in Name
  PROVE  OwnerAfter(m, r, h) \in OptNode
<1> DEFINE carriers == {i \in r.members : r.host[i] = h}
<1>1. carriers \subseteq Node
  BY DEF Roster
<1>2. carriers # {} => Min(carriers) \in Node
  BY <1>1, MinNode
<1> QED
  BY <1>2 DEF OwnerAfter, MembershipType, OptNode

\* Applying a roster keeps a membership well formed, whatever it lists.
LEMMA ApplyRosterType ==
  ASSUME NEW m \in MembershipType, NEW self \in Node, NEW r \in Roster
  PROVE  ApplyRoster(m, self, r) \in MembershipType
<1> DEFINE owner == [h \in Name |-> OwnerAfter(m, r, h)]
<1> DEFINE members == r.members \cup AlwaysListed(m, self)
<1> DEFINE host == [i \in Node |-> IF i \in r.members /\ r.host[i] # NoName
                                   THEN IF owner[r.host[i]] = i THEN r.host[i]
                                                                ELSE NoName
                                   ELSE NoName]
<1>1. owner \in [Name -> OptNode]
  BY OwnerAfterType
<1>2. members \in SUBSET Node
  BY DEF AlwaysListed, MembershipType, OptNode, Roster
<1>3. host \in [Node -> OptName]
  BY DEF Roster, OptName
<1>4. ApplyRoster(m, self, r)
        = [m EXCEPT !.members = members, !.host = host, !.bind = owner]
  BY DEF ApplyRoster
<1> HIDE DEF owner, members, host
<1> QED
  BY <1>1, <1>2, <1>3, <1>4 DEF MembershipType

\* A node that joined has a well-formed membership.
LEMMA SetJoinedType ==
  ASSUME NEW m \in MembershipType, NEW self \in Node, NEW c \in Node,
         NEW r \in Roster
  PROVE  SetJoined(m, self, c, r) \in MembershipType
<1>1. [m EXCEPT !.coord = c, !.net = NoNet, !.invites = {},
                !.bind = [h \in Name |-> NoNode]] \in MembershipType
  BY DEF MembershipType, OptNode
<1> QED
  BY <1>1, ApplyRosterType DEF SetJoined

\* Removing a member keeps a membership well formed.
LEMMA RemoveMemberType ==
  ASSUME NEW m \in MembershipType, NEW i \in Node
  PROVE  RemoveMember(m, i) \in MembershipType
BY DEF RemoveMember, MembershipType, OptName

-----------------------------------------------------------------------------
(* Who owns a name.  A hostname in the roster is bound to the key that is     *)
(* listed under it, through every operation but one: the last resort of a     *)
(* claim is granted without a look at who owns it.  A claim is safe as long   *)
(* as one of the names it may end with is not another node's.                 *)

Owned(m) ==
  \A i \in Node :
    m.host[i] # NoName => i \in m.members /\ m.bind[m.host[i]] = i

\* One of the names a claim of h by c may be granted is free, or c's own.
NameLeft(m, c, h) ==
  \/ \E k \in 1 .. MaxSuffix : m.bind[Numbered[h][k]] \in {NoNode, c}
  \/ m.bind[LastResort[h][c]] \in {NoNode, c}

LEMMA DefaultOwned == Owned(Default)
BY DEF Owned, Default

\* A claim is granted a name that is not bound to another key.
LEMMA DedupeFree ==
  ASSUME NEW m \in MembershipType, NEW h \in Name, NEW c \in Node,
         NameLeft(m, c, h)
  PROVE  m.bind[Dedupe(m, h, c)] \in {NoNode, c}
<1> DEFINE free == {k \in 1 .. MaxSuffix : ~ SpokenFor(m, Numbered[h][k], c)}
<1>1. CASE ~ SpokenFor(m, h, c)
  BY <1>1 DEF Dedupe, SpokenFor
<1>2. CASE SpokenFor(m, h, c) /\ free # {}
  <2>1. Dedupe(m, h, c) = Numbered[h][Min(free)]
    BY <1>2 DEF Dedupe
  <2>2. Min(free) \in free
    BY <1>2, MinNat
  <2>3. ~ SpokenFor(m, Numbered[h][Min(free)], c)
    BY <2>2
  <2> HIDE DEF free
  <2> QED
    BY <2>1, <2>3 DEF SpokenFor
<1>3. CASE SpokenFor(m, h, c) /\ free = {}
  <2>1. Dedupe(m, h, c) = LastResort[h][c]
    BY <1>3 DEF Dedupe
  <2>2. \A k \in 1 .. MaxSuffix : SpokenFor(m, Numbered[h][k], c)
    BY <1>3
  <2>3. \A k \in 1 .. MaxSuffix : m.bind[Numbered[h][k]] \notin {NoNode, c}
    <3> TAKE k \in 1 .. MaxSuffix
    <3>1. Numbered[h][k] \notin Hex
      BY SuffixAssumption
    <3>2. \A i \in m.members \ {c} : Fallback[i] # Numbered[h][k]
      BY <3>1, FallbackAssumption DEF MembershipType
    <3> QED
      BY <2>2, <3>2 DEF SpokenFor
  <2> QED
    BY <2>1, <2>3 DEF NameLeft
<1> QED
  BY <1>1, <1>2, <1>3

\* Binding a name that is free, or one's own, redirects nobody.
LEMMA BindOwned ==
  ASSUME NEW m \in MembershipType, NEW c \in Node, NEW h \in Name,
         Owned(m), m.bind[h] \in {NoNode, c}
  PROVE  Owned(Bind(m, c, h))
<1> DEFINE b == Bind(m, c, h)
<1> SUFFICES ASSUME NEW i \in Node, b.host[i] # NoName
             PROVE  i \in b.members /\ b.bind[b.host[i]] = i
  BY DEF Owned
<1>1. /\ b.members = m.members
      /\ b.bind = [m.bind EXCEPT ![h] = c]
      /\ b.host = [m.host EXCEPT ![c] = IF c \in m.members THEN h ELSE @]
  BY DEF Bind, MembershipType
<1> HIDE DEF b
<1>2. CASE i = c
  BY <1>1, <1>2 DEF Owned, MembershipType
<1>3. CASE i # c
  <2>1. b.host[i] = m.host[i] /\ i \in m.members /\ m.bind[m.host[i]] = i
    BY <1>1, <1>3 DEF Owned, MembershipType
  <2>2. m.host[i] # h
    BY <1>3, <2>1, NodeAssumption
  <2>3. m.host[i] \in Name
    BY <2>1 DEF MembershipType, OptName
  <2> QED
    BY <1>1, <2>1, <2>2, <2>3 DEF MembershipType
<1> QED
  BY <1>2, <1>3

\* Taking a name leaves it to nobody, and everybody else what they own.
LEMMA ReleaseOwned ==
  ASSUME NEW m \in MembershipType, NEW h \in Name, Owned(m)
  PROVE  Owned(Release(m, h))
<1> DEFINE holders == {i \in m.members : m.host[i] = h}
<1> DEFINE r == Release(m, h)
<1>1. /\ r.members = m.members
      /\ r.bind = [m.bind EXCEPT ![h] = NoNode]
      /\ r.host = [i \in Node |-> IF holders # {} /\ i = Min(holders)
                                  THEN NoName ELSE m.host[i]]
  BY DEF Release, MembershipType
<1> SUFFICES ASSUME NEW i \in Node, r.host[i] # NoName
             PROVE  i \in r.members /\ r.bind[r.host[i]] = i
  BY DEF Owned
<1> HIDE DEF r
<1>2. r.host[i] = m.host[i] /\ ~ (holders # {} /\ i = Min(holders))
  BY <1>1
<1>3. i \in m.members /\ m.bind[m.host[i]] = i /\ m.host[i] \in Name
  BY <1>2 DEF Owned, MembershipType, OptName
<1>4. m.host[i] # h
  <2> SUFFICES ASSUME m.host[i] = h
               PROVE  FALSE
    OBVIOUS
  <2>1. i \in holders /\ holders \subseteq Node
    BY <1>3 DEF MembershipType
  <2>2. Min(holders) \in holders
    BY <2>1, MinNode
  <2>3. m.bind[h] = Min(holders)
    BY <2>1, <2>2, NameAssumption DEF Owned
  <2> QED
    BY <1>2, <1>3, <2>1, <2>3
<1> QED
  BY <1>1, <1>2, <1>3, <1>4 DEF MembershipType

\* Taking a name takes no other one away.
LEMMA ReleaseLeaves ==
  ASSUME NEW m \in MembershipType, NEW h \in Name, NEW c \in Node,
         NEW g \in Name, NameLeft(m, c, g)
  PROVE  NameLeft(Release(m, h), c, g)
<1>1. Release(m, h).bind = [m.bind EXCEPT ![h] = NoNode]
  BY DEF Release, MembershipType
<1>2. \A f \in Name : m.bind[f] \in {NoNode, c} =>
                       Release(m, h).bind[f] \in {NoNode, c}
  BY <1>1 DEF MembershipType
<1>3. LastResort[g][c] \in Name /\ \A k \in 1 .. MaxSuffix : Numbered[g][k] \in Name
  BY SuffixAssumption
<1> QED
  BY <1>2, <1>3 DEF NameLeft

\* A claim, forced or not, leaves every listed name with its owner.
LEMMA ClaimOwned ==
  ASSUME NEW m \in MembershipType, NEW c \in Node, NEW h \in Name,
         NEW force \in BOOLEAN, Owned(m), NameLeft(m, c, h)
  PROVE  Owned(ClaimHostname(m, c, h, force))
<1> DEFINE r == IF force THEN Release(m, h) ELSE m
<1>1. r \in MembershipType /\ Owned(r) /\ NameLeft(r, c, h)
  BY ReleaseType, ReleaseOwned, ReleaseLeaves
<1>2. ClaimHostname(m, c, h, force) = Bind(r, c, Dedupe(r, h, c))
  BY DEF ClaimHostname, Assigned
<1> HIDE DEF r
<1> QED
  BY <1>1, <1>2, DedupeType, DedupeFree, BindOwned

LEMMA CreateOwned ==
  ASSUME NEW m \in MembershipType, NEW self \in Node, NEW fresh \in Nat,
         NEW h \in OptName
  PROVE  Owned(Create(m, self, fresh, h))
<1> DEFINE c == Create(m, self, fresh, h)
<1>1. CASE h = NoName
  BY <1>1 DEF Create, Owned, MembershipType
<1>2. CASE h # NoName
  <2>1. h \in Name
    BY <1>2 DEF OptName
  <2>2. /\ c.members = {self}
        /\ c.bind = [m.bind EXCEPT ![h] = self]
        /\ c.host = [[i \in Node |-> NoName] EXCEPT ![self] = h]
    BY <1>2 DEF Create, Bind, MembershipType
  <2> HIDE DEF c
  <2>3. Owned(c)
    BY <2>1, <2>2 DEF Owned, MembershipType
  <2> QED
    BY <2>3 DEF c
<1> QED
  BY <1>1, <1>2

LEMMA InviteOwned ==
  ASSUME NEW m \in MembershipType, NEW token \in Token, NEW ttl, NEW now,
         NEW i \in Node, Owned(m)
  PROVE  /\ Owned(GenerateInvite(m, token, ttl, now))
         /\ Owned(RedeemInvite(m, token, i, now))
BY DEF Owned, GenerateInvite, RedeemInvite, MembershipType

\* Burning a token touches no binding.
LEMMA RedeemBind ==
  ASSUME NEW m \in MembershipType, NEW token, NEW i, NEW now
  PROVE  RedeemInvite(m, token, i, now).bind = m.bind
BY DEF RedeemInvite, MembershipType

LEMMA RedeemLeaves ==
  ASSUME NEW m \in MembershipType, NEW token \in Token, NEW i \in Node,
         NEW now, NEW c, NEW h, NameLeft(m, c, h)
  PROVE  NameLeft(RedeemInvite(m, token, i, now), c, h)
BY RedeemBind DEF NameLeft

LEMMA RemoveOwned ==
  ASSUME NEW m \in MembershipType, NEW i \in Node, Owned(m)
  PROVE  Owned(RemoveMember(m, i))
BY DEF Owned, RemoveMember, MembershipType

\* A roster, whatever it claims, lists nobody under another key's name.
LEMMA RosterOwned ==
  ASSUME NEW m \in MembershipType, NEW self \in Node, NEW r \in Roster
  PROVE  Owned(ApplyRoster(m, self, r))
<1> DEFINE a == ApplyRoster(m, self, r)
<1>1. /\ r.members \subseteq a.members
      /\ a.bind = [h \in Name |-> OwnerAfter(m, r, h)]
      /\ a.host = [i \in Node |->
                     IF i \in r.members /\ r.host[i] # NoName
                     THEN IF a.bind[r.host[i]] = i THEN r.host[i] ELSE NoName
                     ELSE NoName]
  BY DEF ApplyRoster, MembershipType
<1> HIDE DEF a
<1>2. Owned(a)
  BY <1>1 DEF Owned
<1> QED
  BY <1>2 DEF a

LEMMA JoinedOwned ==
  ASSUME NEW m \in MembershipType, NEW self \in Node, NEW c \in Node,
         NEW r \in Roster
  PROVE  Owned(SetJoined(m, self, c, r))
<1>1. [m EXCEPT !.coord = c, !.net = NoNet, !.invites = {},
                !.bind = [h \in Name |-> NoNode]] \in MembershipType
  BY DEF MembershipType, OptNode
<1> QED
  BY <1>1, RosterOwned DEF SetJoined

-----------------------------------------------------------------------------
(* What becomes of a binding *)

\* A claim that nobody forces takes no name from anybody.
LEMMA ClaimSticks ==
  ASSUME NEW m \in MembershipType, NEW c \in Node, NEW h \in Name,
         NameLeft(m, c, h), NEW g \in Name, m.bind[g] # NoNode
  PROVE  ClaimHostname(m, c, h, FALSE).bind[g] = m.bind[g]
<1> DEFINE d == Dedupe(m, h, c)
<1>1. d \in Name /\ m.bind[d] \in {NoNode, c}
  BY DedupeType, DedupeFree
<1>2. ClaimHostname(m, c, h, FALSE) = Bind(m, c, d)
  BY DEF ClaimHostname, Assigned
<1> HIDE DEF d
<1>3. Bind(m, c, d).bind = [m.bind EXCEPT ![d] = c]
  BY DEF Bind, MembershipType
<1> QED
  BY <1>1, <1>2, <1>3 DEF MembershipType

\* A forced claim gets the very name it wants, unless that is the fallback of
\* another member, and takes only that one.
LEMMA ForcedClaim ==
  ASSUME NEW m \in MembershipType, NEW c \in Node, NEW h \in Name,
         \A i \in Node : Fallback[i] = h => i = c
  PROVE  ClaimHostname(m, c, h, TRUE).bind = [m.bind EXCEPT ![h] = c]
<1> DEFINE r == Release(m, h)
<1>1. r \in MembershipType /\ r.bind = [m.bind EXCEPT ![h] = NoNode]
  BY ReleaseType DEF Release, MembershipType
<1>2. ClaimHostname(m, c, h, TRUE) = Bind(r, c, Dedupe(r, h, c))
  BY DEF ClaimHostname, Assigned
<1> HIDE DEF r
<1>3. ~ SpokenFor(r, h, c)
  BY <1>1 DEF SpokenFor, MembershipType
<1>4. Dedupe(r, h, c) = h
  BY <1>3 DEF Dedupe
<1>5. Bind(r, c, h).bind = [r.bind EXCEPT ![h] = c]
  BY <1>1 DEF Bind, MembershipType
<1> QED
  BY <1>1, <1>2, <1>4, <1>5 DEF MembershipType

\* No roster moves a name that is bound.
LEMMA RosterSticks ==
  ASSUME NEW m \in MembershipType, NEW self \in Node, NEW r \in Roster,
         NEW g \in Name, m.bind[g] # NoNode
  PROVE  ApplyRoster(m, self, r).bind[g] = m.bind[g]
<1>1. ApplyRoster(m, self, r).bind = [h \in Name |-> OwnerAfter(m, r, h)]
  BY DEF ApplyRoster, MembershipType
<1> QED
  BY <1>1 DEF OwnerAfter

\* Where nothing is bound yet, the only entry that carries a name gets it.
LEMMA JoinedNamed ==
  ASSUME NEW m \in MembershipType, NEW self \in Node, NEW c \in Node,
         NEW r \in Roster, NEW h \in Name,
         self \in r.members, r.host[self] = h,
         \A i \in r.members : r.host[i] = h => i = self
  PROVE  SetJoined(m, self, c, r).host[self] = h
<1> DEFINE m1 == [m EXCEPT !.coord = c, !.net = NoNet, !.invites = {},
                           !.bind = [g \in Name |-> NoNode]]
<1> DEFINE a == ApplyRoster(m1, self, r)
<1> DEFINE carriers == {i \in r.members : r.host[i] = h}
<1>1. m1 \in MembershipType /\ m1.bind[h] = NoNode
  BY DEF MembershipType, OptNode
<1>2. SetJoined(m, self, c, r) = a
  BY DEF SetJoined
<1> HIDE DEF m1
<1>3. carriers \subseteq Node /\ carriers # {}
  BY DEF Roster
<1>4. Min(carriers) = self
  BY <1>3, MinNode
<1>5. OwnerAfter(m1, r, h) = self
  BY <1>1, <1>3, <1>4 DEF OwnerAfter
<1>6. a.host[self] = IF self \in r.members /\ r.host[self] # NoName
                     THEN IF OwnerAfter(m1, r, r.host[self]) = self
                          THEN r.host[self] ELSE NoName
                     ELSE NoName
  BY <1>1 DEF ApplyRoster, MembershipType
<1> QED
  BY <1>2, <1>5, <1>6, NameAssumption

-----------------------------------------------------------------------------
(* Last resorts.  Unless somebody asks for a name that ends in another node's *)
(* fallback, nobody has one.                                                  *)

\* If `name' is a last resort at all, it ends in node n's fallback.
ResortOf(name, n) ==
  \A h \in Name, i \in Node : name = LastResort[h][i] => Fallback[i] = Fallback[n]

\* Nobody is listed under another node's last resort, in a membership or in a
\* roster.
HostsFit(r) == \A i \in Node : r.host[i] # NoName => ResortOf(r.host[i], i)

\* Nor is one bound to anybody else.
ResortsFit(m) ==
  /\ HostsFit(m)
  /\ \A h \in Name : m.bind[h] # NoNode => ResortOf(h, m.bind[h])

LEMMA ResortsLeave ==
  ASSUME NEW m \in MembershipType, ResortsFit(m), NEW c \in Node, NEW h \in Name,
         DistinctFallbacks
  PROVE  NameLeft(m, c, h)
<1>1. LastResort[h][c] \in Name
  BY SuffixAssumption
<1>2. m.bind[LastResort[h][c]] \in OptNode
  BY <1>1 DEF MembershipType
<1> QED
  BY <1>1, <1>2 DEF ResortsFit, ResortOf, NameLeft, DistinctFallbacks, OptNode

\* What a claim is granted: the name, a numbered one, or its own last resort.
LEMMA GrantedResort ==
  ASSUME NEW m \in MembershipType, NEW c \in Node, NEW h \in Name, ResortOf(h, c)
  PROVE  ResortOf(Dedupe(m, h, c), c)
<1> DEFINE free == {k \in 1 .. MaxSuffix : ~ SpokenFor(m, Numbered[h][k], c)}
<1>1. free # {} => Min(free) \in 1 .. MaxSuffix
  BY MinNat
<1>2. Dedupe(m, h, c) \in {h, LastResort[h][c]} \cup
        {Numbered[h][k] : k \in 1 .. MaxSuffix}
  BY <1>1 DEF Dedupe
<1>3. ResortOf(LastResort[h][c], c)
  BY SuffixAssumption DEF ResortOf
<1>4. \A k \in 1 .. MaxSuffix : ResortOf(Numbered[h][k], c)
  BY SuffixAssumption DEF ResortOf
<1> QED
  BY <1>2, <1>3, <1>4

LEMMA BindFits ==
  ASSUME NEW m \in MembershipType, NEW c \in Node, NEW h \in Name,
         ResortsFit(m), ResortOf(h, c)
  PROVE  ResortsFit(Bind(m, c, h))
<1> DEFINE b == Bind(m, c, h)
<1>1. /\ b.bind = [m.bind EXCEPT ![h] = c]
      /\ b.host = [m.host EXCEPT ![c] = IF c \in m.members THEN h ELSE @]
  BY DEF Bind, MembershipType
<1> HIDE DEF b
<1>2. ASSUME NEW g \in Name, b.bind[g] # NoNode
      PROVE  ResortOf(g, b.bind[g])
  <2>1. CASE g = h
    BY <1>1, <2>1 DEF MembershipType
  <2>2. CASE g # h
    BY <1>1, <1>2, <2>2 DEF ResortsFit, MembershipType
  <2> QED
    BY <2>1, <2>2
<1>3. ASSUME NEW i \in Node, b.host[i] # NoName
      PROVE  ResortOf(b.host[i], i)
  <2>1. b.host[i] = m.host[i] \/ (i = c /\ b.host[i] = h)
    BY <1>1 DEF MembershipType
  <2> QED
    BY <1>3, <2>1 DEF ResortsFit, HostsFit
<1>4. ResortsFit(b)
  BY <1>2, <1>3 DEF ResortsFit, HostsFit
<1> QED
  BY <1>4 DEF b

LEMMA ClaimFits ==
  ASSUME NEW m \in MembershipType, NEW c \in Node, NEW h \in Name,
         NEW force \in BOOLEAN, ResortsFit(m), ResortOf(h, c)
  PROVE  ResortsFit(ClaimHostname(m, c, h, force))
<1> DEFINE r == IF force THEN Release(m, h) ELSE m
<1>1. r \in MembershipType
  BY ReleaseType
<1>2. ResortsFit(r)
  <2>1. /\ Release(m, h).bind = [m.bind EXCEPT ![h] = NoNode]
        /\ \A i \in Node : Release(m, h).host[i] \in {m.host[i], NoName}
    BY DEF Release, MembershipType
  <2>2. \A g \in Name : Release(m, h).bind[g] \in {m.bind[g], NoNode}
    BY <2>1 DEF MembershipType
  <2> QED
    BY <2>1, <2>2 DEF ResortsFit, HostsFit
<1>3. ClaimHostname(m, c, h, force) = Bind(r, c, Dedupe(r, h, c))
  BY DEF ClaimHostname, Assigned
<1> HIDE DEF r
<1> QED
  BY <1>1, <1>2, <1>3, DedupeType, GrantedResort, BindFits

LEMMA CreateFits ==
  ASSUME NEW m \in MembershipType, NEW self \in Node, NEW fresh \in Nat,
         NEW h \in OptName, ResortsFit(m), h # NoName => ResortOf(h, self)
  PROVE  ResortsFit(Create(m, self, fresh, h))
<1> DEFINE alone == [m EXCEPT !.coord = self, !.net = fresh, !.invites = {},
                              !.members = {self},
                              !.host = [i \in Node |-> NoName]]
<1>1. alone \in MembershipType /\ ResortsFit(alone)
  BY DEF MembershipType, OptNode, OptName, ResortsFit, HostsFit
<1>2. Create(m, self, fresh, h) = IF h = NoName THEN alone ELSE Bind(alone, self, h)
  BY DEF Create
<1> HIDE DEF alone
<1> QED
  BY <1>1, <1>2, BindFits DEF OptName

\* Invites, leaving and removing give nobody a name.
LEMMA OthersFit ==
  ASSUME NEW m \in MembershipType, ResortsFit(m), NEW token, NEW ttl, NEW now,
         NEW i \in Node
  PROVE  /\ ResortsFit(GenerateInvite(m, token, ttl, now))
         /\ ResortsFit(RedeemInvite(m, token, i, now))
         /\ ResortsFit(RemoveMember(m, i))
         /\ ResortsFit(Default)
<1>1. ResortsFit(Default)
  BY DEF Default, ResortsFit, HostsFit
<1>2. ResortsFit(GenerateInvite(m, token, ttl, now))
  BY DEF GenerateInvite, ResortsFit, HostsFit, MembershipType
<1>3. ResortsFit(RedeemInvite(m, token, i, now))
  BY DEF RedeemInvite, ResortsFit, HostsFit, MembershipType
<1>4. ResortsFit(RemoveMember(m, i))
  BY DEF RemoveMember, ResortsFit, HostsFit, MembershipType
<1> QED
  BY <1>1, <1>2, <1>3, <1>4

LEMMA RosterFits ==
  ASSUME NEW m \in MembershipType, NEW self \in Node, NEW r \in Roster,
         ResortsFit(m), HostsFit(r)
  PROVE  ResortsFit(ApplyRoster(m, self, r))
<1> DEFINE a == ApplyRoster(m, self, r)
<1>1. /\ a.bind = [h \in Name |-> OwnerAfter(m, r, h)]
      /\ \A i \in Node : a.host[i] \in {r.host[i], NoName}
  BY DEF ApplyRoster, MembershipType
<1> HIDE DEF a
<1>2. ASSUME NEW h \in Name, OwnerAfter(m, r, h) # NoNode
      PROVE  ResortOf(h, OwnerAfter(m, r, h))
  <2> DEFINE carriers == {i \in r.members : r.host[i] = h}
  <2>1. CASE m.bind[h] # NoNode
    BY <2>1 DEF OwnerAfter, ResortsFit
  <2>2. CASE m.bind[h] = NoNode /\ carriers # {}
    <3>1. OwnerAfter(m, r, h) = Min(carriers)
      BY <2>2 DEF OwnerAfter
    <3>2. carriers \subseteq Node
      BY DEF Roster
    <3>3. Min(carriers) \in carriers
      BY <2>2, <3>2, MinNode
    <3>4. \A i \in carriers : ResortOf(h, i)
      BY <3>2, NameAssumption DEF HostsFit
    <3> HIDE DEF carriers
    <3> QED
      BY <3>1, <3>3, <3>4
  <2> QED
    BY <1>2, <2>1, <2>2 DEF OwnerAfter
<1>3. ResortsFit(a)
  BY <1>1, <1>2 DEF ResortsFit, HostsFit
<1> QED
  BY <1>3 DEF a

LEMMA JoinedFits ==
  ASSUME NEW m \in MembershipType, NEW self \in Node, NEW c \in Node,
         NEW r \in Roster, ResortsFit(m), HostsFit(r)
  PROVE  ResortsFit(SetJoined(m, self, c, r))
<1> DEFINE m1 == [m EXCEPT !.coord = c, !.net = NoNet, !.invites = {},
                           !.bind = [h \in Name |-> NoNode]]
<1>1. m1 \in MembershipType /\ ResortsFit(m1)
  BY DEF MembershipType, OptNode, ResortsFit, HostsFit
<1>2. SetJoined(m, self, c, r) = ApplyRoster(m1, self, r)
  BY DEF SetJoined
<1> HIDE DEF m1
<1> QED
  BY <1>1, <1>2, RosterFits
=============================================================================
