------------------------------ MODULE LinksProofs ------------------------------
(***************************************************************************)
(* Proofs about module Links, for any nodes and any number of connections, *)
(* membership changes, faults and dial requests.                           *)
(***************************************************************************)
EXTENDS Links, WellFoundedInduction, TLAPS

-----------------------------------------------------------------------------
(* Lemmas about the operators *)

\* A connection that a dial takes is one whose two ends are idle.
LEMMA FreeConn ==
  ASSUME Free # {}
  PROVE  Min(Free) \in Free
<1>1. Free \subseteq Nat
  BY ConnAssumption DEF Free
<1> HIDE DEF Free
<1>2. PICK x \in Free : \A y \in Free : ~ (<<y, x>> \in OpToRel(<, Nat))
  BY <1>1, NatLessThanWellFounded, WFMin
<1>3. \A a, b \in Nat : <<b, a>> \in OpToRel(<, Nat) <=> b < a
  BY DEF OpToRel
<1>4. \A y \in Free : x \in Nat /\ y \in Nat /\ ~ (y < x)
  BY <1>1, <1>2, <1>3
<1>5. \A y \in Free : x =< y
  BY <1>4
<1> QED
  BY <1>5 DEF Min

\* The peer of n on a connection between n and p is p.
LEMMA FarEnd ==
  ASSUME NEW n, NEW p, NEW c, ends[c] = {n, p}, n # p
  PROVE  Far(n, c) = p
BY DEF Far

\* Adding peers to those of one node.
LEMMA AddPeers ==
  ASSUME NEW f \in [Node -> SUBSET Node], NEW n \in Node, NEW peers \in SUBSET Node
  PROVE  [f EXCEPT ![n] = @ \cup peers] \in [Node -> SUBSET Node]
OBVIOUS

\* Setting one entry of the table of links.
LEMMA PutLink ==
  ASSUME NEW f \in [Node -> [Node -> Conn \cup {NoConn}]], NEW n \in Node, NEW p,
         NEW c \in Conn \cup {NoConn}
  PROVE  [f EXCEPT ![n][p] = c] \in [Node -> [Node -> Conn \cup {NoConn}]]
<1>1. [f[n] EXCEPT ![p] = c] \in [Node -> Conn \cup {NoConn}]
  OBVIOUS
<1> QED
  BY <1>1

-----------------------------------------------------------------------------
(* What every step keeps *)

\* Nobody is its own peer: not in a roster, a route, a dial or a refresh.  A
\* connection that a task serves has two different ends, this task's among
\* them.
PeersAreOthers ==
  /\ \A n \in Node : n \notin listed[n] \cup routes[n] \cup asked[n] \cup flying[n]
  /\ \A r \in refreshes : r.node \notin r.members

EndsAreTwo ==
  \A n \in Node, c \in Conn :
    pc[n][c] # "idle" => \E p \in Node : p # n /\ ends[c] = {n, p}

LinkInv == TypeOK /\ PeersAreOthers /\ EndsAreTwo /\ EntryServed

\* While the first membership change is the only one and nothing fails: all
\* tables agree with the rosters but those of the node that refreshes, and its
\* refresh has carried the roster as far as its pc says.
CarriedTo(r) ==
  LET n == r.node
  IN  /\ r.pc = "route" => r.members = listed[n]
      /\ r.pc \in {"wanted", "sync"} => routes[n] = listed[n]
      /\ r.pc = "sync" => r.members = listed[n]

OneRefresh ==
  changes <= 1 /\ faults = 0 =>
    /\ kernel = installed
    /\ \/ refreshes = {} /\ routes = listed /\ installed = listed
       \/ \E r \in refreshes :
            /\ changes = 1
            /\ refreshes = {r}
            /\ CarriedTo(r)
            /\ \A n \in Node \ {r.node} :
                 routes[n] = listed[n] /\ installed[n] = listed[n]

-----------------------------------------------------------------------------
(* Types *)

LEMMA TypeInit == Init => TypeOK
BY LinkBoundAssumption DEF Init, TypeOK, Others, PC

\* Links that leave the table leave it well formed.
LEMMA DropType ==
  ASSUME TypeOK, NEW n \in Node, NEW gone \in SUBSET Node, Drop(n, gone)
  PROVE  /\ links' \in [Node -> [Node -> Conn \cup {NoConn}]]
         /\ alive' \in [Conn -> BOOLEAN]
BY DEF Drop, TypeOK

\* A membership change begins one more refresh.
LEMMA ChangeType ==
  ASSUME TypeOK, NEW n \in Node, NEW members \in SUBSET Node,
         Change(n, members) \/ LeaveNetwork(n)
  PROVE  TypeOK'
<1>1. changes' \in 0 .. MaxChanges
  BY LinkBoundAssumption DEF TypeOK, Change, LeaveNetwork
<1>2. refreshes' \subseteq Refresh
  <2>1. CASE Change(n, members)
    BY <2>1 DEF TypeOK, Change, Begin, Refresh
  <2>2. CASE LeaveNetwork(n)
    BY <2>2 DEF TypeOK, LeaveNetwork, Begin, Refresh
  <2> QED
    BY <2>1, <2>2
<1> QED
  BY <1>1, <1>2 DEF TypeOK, Change, LeaveNetwork, connVars, dialVars

\* Every step of a refresh keeps the tables well formed.
LEMMA RefreshType ==
  ASSUME TypeOK, NEW r \in refreshes, RefreshStep(r)
  PROVE  TypeOK'
<1>0. r.node \in Node /\ r.members \in SUBSET Node
  BY DEF TypeOK, Refresh
<1>1. CASE CloseAll(r)
  <2>1. refreshes' \subseteq Refresh
    BY <1>1 DEF CloseAll, Advance, Refresh, TypeOK
  <2> QED
    BY <1>0, <1>1, <2>1, DropType DEF CloseAll, TypeOK, dialVars, boundVars
<1>2. CASE ReadRoster(r)
  <2>1. refreshes' \subseteq Refresh
    BY <1>0, <1>2 DEF ReadRoster, Advance, Refresh, TypeOK
  <2> QED
    BY <1>2, <2>1 DEF ReadRoster, TypeOK, connVars, dialVars, boundVars
<1>3. CASE SetRoutes(r)
  <2>1. refreshes' \subseteq Refresh
    BY <1>3 DEF SetRoutes, Advance, Refresh, TypeOK
  <2> QED
    BY <1>0, <1>3, <2>1, DropType DEF SetRoutes, TypeOK, dialVars, boundVars
<1>4. CASE RoutedAddrs(r)
  <2>1. refreshes' \subseteq Refresh
    BY <1>0, <1>4 DEF RoutedAddrs, Advance, Refresh, TypeOK
  <2> QED
    BY <1>4, <2>1 DEF RoutedAddrs, TypeOK, connVars, dialVars, boundVars
<1>5. ASSUME NEW failed \in SUBSET Node, Sync(r, failed)
      PROVE  TypeOK'
  <2>1. faults' \in 0 .. MaxFaults
    BY <1>5, LinkBoundAssumption DEF Sync, Fault, NoFault, TypeOK
  <2>2. /\ kernel' \in [Node -> SUBSET Node]
        /\ installed' \in [Node -> SUBSET Node]
    BY <1>0, <1>5 DEF Sync, SyncKernel, TypeOK
  <2>3. asked' \in [Node -> SUBSET Node]
    <3>1. Unlinked(r.node) \subseteq Node
      BY <1>0 DEF Unlinked, TypeOK
    <3>2. PICK peers \in SUBSET Node :
            asked' = asked \/ asked' = [asked EXCEPT ![r.node] = @ \cup peers]
      BY <1>5, <3>1, Zenon DEF Sync
    <3>3. [asked EXCEPT ![r.node] = @ \cup peers] \in [Node -> SUBSET Node]
      BY <1>0, AddPeers DEF TypeOK
    <3> QED
      BY <3>2, <3>3 DEF TypeOK
  <2> QED
    BY <1>5, <2>1, <2>2, <2>3 DEF Sync, TypeOK, connVars
<1> QED
  BY <1>1, <1>2, <1>3, <1>4, <1>5 DEF RefreshStep

\* Every step of the dialer keeps the tables well formed; in particular only the
\* node with the smaller id dials.
LEMMA DialType ==
  ASSUME TypeOK, NEW n \in Node, NEW p \in Node,
         \/ Packet(n, p) \/ DialRequested(n, p) \/ Sweep(n, p)
         \/ Connect(n, p) \/ ConnectFails(n, p)
  PROVE  TypeOK'
<1> USE DEF planVars, connVars, boundVars
<1>1. CASE Packet(n, p)
  <2>1. requests' \in 0 .. MaxRequests
    BY <1>1, LinkBoundAssumption DEF Packet, TypeOK
  <2> QED
    BY <1>1, <2>1 DEF Packet, TypeOK
<1>2. CASE DialRequested(n, p)
  <2>1. /\ flying' \in [Node -> SUBSET Node]
        /\ \A m \in Node : \A q \in flying'[m] : m <= q
    BY <1>2 DEF DialRequested, MayDial, TypeOK
  <2> QED
    BY <1>2, <2>1 DEF DialRequested, TypeOK
<1>3. CASE Sweep(n, p)
  <2>1. /\ flying' \in [Node -> SUBSET Node]
        /\ \A m \in Node : \A q \in flying'[m] : m <= q
    BY <1>3 DEF Sweep, MayDial, TypeOK
  <2> QED
    BY <1>3, <2>1 DEF Sweep, TypeOK
<1>4. CASE Connect(n, p)
  <2> DEFINE c == Min(Free)
  <2>1. c \in Conn
    BY <1>4, FreeConn DEF Connect, Free
  <2> HIDE DEF c
  <2>2. /\ ends' = [ends EXCEPT ![c] = {n, p}]
        /\ alive' = [alive EXCEPT ![c] = TRUE]
        /\ pc' = [m \in Node |-> IF m \in {n, p}
                                 THEN [pc[m] EXCEPT ![c] = "new"] ELSE pc[m]]
        /\ flying' = [flying EXCEPT ![n] = @ \ {p}]
        /\ UNCHANGED <<planVars, links, asked, boundVars>>
    BY <1>4 DEF Connect, c
  <2>3. pc' \in [Node -> [Conn -> PC]]
    BY <2>1, <2>2 DEF TypeOK, PC
  <2> QED
    BY <2>1, <2>2, <2>3 DEF TypeOK
<1>5. CASE ConnectFails(n, p)
  <2>1. faults' \in 0 .. MaxFaults
    BY <1>5, LinkBoundAssumption DEF ConnectFails, Fault, TypeOK
  <2> QED
    BY <1>5, <2>1 DEF ConnectFails, TypeOK
<1> QED
  BY <1>1, <1>2, <1>3, <1>4, <1>5

\* Every step of an end of a link keeps the tables well formed.
LEMMA EndType ==
  ASSUME TypeOK, NEW n \in Node, NEW c \in Conn, EndStep(n, c) \/ ReadEnds(n, c)
  PROVE  TypeOK'
<1> USE DEF planVars, dialVars, boundVars
<1>a. ASSUME NEW step \in PC, Goto(n, c, step)
      PROVE  pc' \in [Node -> [Conn -> PC]]
  BY <1>a DEF Goto, TypeOK
<1>b. ASSUME Close(c) \/ UNCHANGED alive
      PROVE  alive' \in [Conn -> BOOLEAN]
  BY <1>b DEF Close, TypeOK
<1>c. {"idle", "checked", "serving", "ended"} \subseteq PC
  BY DEF PC
<1>1. CASE CheckMember(n, c)
  <2>1. /\ Goto(n, c, "checked") \/ Goto(n, c, "idle")
        /\ Close(c) \/ UNCHANGED alive
    BY <1>1 DEF CheckMember
  <2>2. pc' \in [Node -> [Conn -> PC]] /\ alive' \in [Conn -> BOOLEAN]
    BY <1>a, <1>b, <1>c, <2>1
  <2> QED
    BY <1>1, <2>2 DEF CheckMember, TypeOK
<1>2. CASE Register(n, c)
  <2>1. /\ Goto(n, c, "serving") \/ Goto(n, c, "idle")
        /\ Close(c) \/ UNCHANGED alive
        /\ UNCHANGED links \/ links' = [links EXCEPT ![n][Far(n, c)] = c]
    BY <1>2 DEF Register
  <2>2. pc' \in [Node -> [Conn -> PC]] /\ alive' \in [Conn -> BOOLEAN]
    BY <1>a, <1>b, <1>c, <2>1
  <2>3. links' \in [Node -> [Node -> Conn \cup {NoConn}]]
    <3>1. PICK p : UNCHANGED links \/ links' = [links EXCEPT ![n][p] = c]
      BY <2>1, Zenon
    <3>2. [links EXCEPT ![n][p] = c] \in [Node -> [Node -> Conn \cup {NoConn}]]
      BY PutLink DEF TypeOK
    <3> QED
      BY <3>1, <3>2 DEF TypeOK
  <2> QED
    BY <1>2, <2>2, <2>3 DEF Register, TypeOK
<1>3. CASE Unregister(n, c)
  BY <1>3 DEF Unregister, Goto, Close, TypeOK, PC
<1>4. CASE ReadEnds(n, c)
  <2>1. faults' \in 0 .. MaxFaults
    BY <1>4, LinkBoundAssumption DEF ReadEnds, Fault, NoFault, TypeOK
  <2> QED
    BY <1>4, <2>1 DEF ReadEnds, Goto, TypeOK, PC
<1> QED
  BY <1>1, <1>2, <1>3, <1>4 DEF EndStep

\* Faults keep the tables well formed.
LEMMA FaultsType ==
  ASSUME TypeOK, (\E c \in Conn : Lose(c)) \/ (\E n \in Node : Restart(n))
  PROVE  TypeOK'
<1>1. faults' \in 0 .. MaxFaults
  BY LinkBoundAssumption DEF Lose, Restart, Fault, TypeOK
<1>2. ASSUME NEW c \in Conn, Lose(c)
      PROVE  TypeOK'
  BY <1>1, <1>2 DEF Lose, Close, TypeOK, planVars, dialVars
<1>3. ASSUME NEW n \in Node, Restart(n)
      PROVE  TypeOK'
  <2>1. refreshes' \subseteq Refresh
    BY <1>3, LinkBoundAssumption DEF Restart, TypeOK, Refresh
  <2> QED
    BY <1>1, <1>3, <2>1 DEF Restart, TypeOK, PC
<1> QED
  BY <1>2, <1>3

LEMMA TypeStep == TypeOK /\ [Next]_vars => TypeOK'
<1> SUFFICES ASSUME TypeOK, [Next]_vars
             PROVE  TypeOK'
  OBVIOUS
<1>1. CASE UNCHANGED vars
  BY <1>1 DEF vars, TypeOK
<1>2. CASE Next
  BY <1>2, ChangeType, RefreshType, DialType, EndType, FaultsType DEF Next
<1> QED
  BY <1>1, <1>2

\* The tables of the mesh stay well formed, and of two nodes only the one with
\* the smaller id ever dials the other (mesh.rs, should_dial), for any number of
\* nodes, connections, changes and faults.
THEOREM TypeCorrect == Spec => []TypeOK
BY TypeInit, TypeStep, PTL DEF Spec

-----------------------------------------------------------------------------
(* Nobody is its own peer *)

LEMMA PeersInit == Init => PeersAreOthers
BY DEF Init, PeersAreOthers, Others

LEMMA PeersStep ==
  ASSUME TypeOK, PeersAreOthers, Next
  PROVE  PeersAreOthers'
<1> USE DEF PeersAreOthers
<1>1. ASSUME NEW n \in Node, NEW members \in SUBSET Node,
             members \subseteq Others(n), Change(n, members)
      PROVE  PeersAreOthers'
  BY <1>1 DEF Change, Begin, Others, dialVars, TypeOK
<1>2. ASSUME NEW n \in Node, LeaveNetwork(n)
      PROVE  PeersAreOthers'
  BY <1>2 DEF LeaveNetwork, Begin, dialVars, TypeOK
<1>3. ASSUME NEW r \in refreshes, RefreshStep(r)
      PROVE  PeersAreOthers'
  <2>0. r.node \in Node /\ r \in Refresh
    BY DEF TypeOK, Refresh
  <2>1. CASE CloseAll(r)
    BY <2>0, <2>1 DEF CloseAll, Advance, Refresh, dialVars
  <2>2. CASE ReadRoster(r)
    BY <2>0, <2>2 DEF ReadRoster, Advance, Refresh, dialVars
  <2>3. CASE SetRoutes(r)
    BY <2>0, <2>3 DEF SetRoutes, Advance, Refresh, dialVars, TypeOK
  <2>4. CASE RoutedAddrs(r)
    BY <2>0, <2>4 DEF RoutedAddrs, Advance, Refresh, dialVars
  <2>5. ASSUME NEW failed \in SUBSET Node, Sync(r, failed)
        PROVE  PeersAreOthers'
    <3>1. \A m \in Node : m \notin Unlinked(m)
      BY DEF Unlinked
    <3>2. \A m \in Node : m \notin asked'[m]
      <4>1. CASE asked' = asked
        BY <4>1
      <4>2. CASE asked' = [asked EXCEPT ![r.node] = @ \cup Unlinked(r.node)]
        BY <2>0, <3>1, <4>2 DEF TypeOK
      <4> QED
        BY <2>5, <4>1, <4>2 DEF Sync
    <3> QED
      BY <2>5, <3>2 DEF Sync
  <2> QED
    BY <1>3, <2>1, <2>2, <2>3, <2>4, <2>5 DEF RefreshStep
<1>4. ASSUME NEW n \in Node, NEW p \in Node,
             \/ Packet(n, p) \/ DialRequested(n, p) \/ Sweep(n, p)
             \/ Connect(n, p) \/ ConnectFails(n, p)
      PROVE  PeersAreOthers'
  <2>0. p \in asked[n] \/ p \in routes[n] => p # n
    OBVIOUS
  <2>1. CASE Packet(n, p)
    BY <2>0, <2>1 DEF Packet, Unlinked, planVars, TypeOK
  <2>2. CASE DialRequested(n, p)
    BY <2>0, <2>2 DEF DialRequested, planVars, TypeOK
  <2>3. CASE Sweep(n, p)
    BY <2>0, <2>3 DEF Sweep, Unlinked, planVars, TypeOK
  <2>4. CASE Connect(n, p) \/ ConnectFails(n, p)
    <3>1. /\ flying' = [flying EXCEPT ![n] = @ \ {p}]
          /\ UNCHANGED <<planVars, asked>>
      BY <2>4 DEF Connect, ConnectFails
    <3> QED
      BY <3>1 DEF planVars, TypeOK
  <2> QED
    BY <1>4, <2>1, <2>2, <2>3, <2>4
<1>5. ASSUME NEW n \in Node, NEW c \in Conn, EndStep(n, c) \/ ReadEnds(n, c)
      PROVE  PeersAreOthers'
  BY <1>5 DEF EndStep, CheckMember, Register, Unregister, ReadEnds, planVars,
              dialVars
<1>6. ASSUME NEW c \in Conn, Lose(c)
      PROVE  PeersAreOthers'
  BY <1>6 DEF Lose, planVars, dialVars
<1>7. ASSUME NEW n \in Node, Restart(n)
      PROVE  PeersAreOthers'
  BY <1>7 DEF Restart, TypeOK
<1> QED
  BY <1>1, <1>2, <1>3, <1>4, <1>5, <1>6, <1>7 DEF Next

-----------------------------------------------------------------------------
(* Every entry of the table is served *)

\* Both parts survive a step that starts no task and only takes links out of
\* the table.
LEMMA FewerEntries ==
  ASSUME EndsAreTwo, EntryServed, UNCHANGED <<ends, pc>>,
         \A n, p \in Node : links'[n][p] \in {NoConn, links[n][p]}
  PROVE  EndsAreTwo' /\ EntryServed'
<1>1. EndsAreTwo'
  BY Zenon DEF EndsAreTwo
<1>2. ASSUME NEW n \in Node, NEW p \in Node, links'[n][p] # NoConn
      PROVE  /\ ends[links'[n][p]] = {n, p} /\ n # p
             /\ pc[n][links'[n][p]] \in {"serving", "ended"}
  <2>1. links'[n][p] = links[n][p]
    BY <1>2
  <2> QED
    BY <1>2, <2>1 DEF EntryServed
<1> QED
  BY <1>1, <1>2, Zenon DEF EntryServed

LEMMA DropEntries ==
  ASSUME TypeOK, NEW n \in Node, NEW gone \in SUBSET Node, Drop(n, gone)
  PROVE  \A m, p \in Node : links'[m][p] \in {NoConn, links[m][p]}
BY DEF Drop, TypeOK

\* A dial takes a connection that no task uses and no table holds.
LEMMA ConnectServed ==
  ASSUME TypeOK, PeersAreOthers, EndsAreTwo, EntryServed,
         NEW n \in Node, NEW p \in Node, Connect(n, p)
  PROVE  EndsAreTwo' /\ EntryServed'
<1> DEFINE c == Min(Free)
<1>1. c \in Conn /\ \A m \in Node : pc[m][c] = "idle"
  BY FreeConn DEF Connect, Free
<1>2. n # p
  BY DEF Connect, PeersAreOthers
<1>3. /\ ends' = [ends EXCEPT ![c] = {n, p}]
      /\ pc' = [m \in Node |-> IF m \in {n, p}
                               THEN [pc[m] EXCEPT ![c] = "new"] ELSE pc[m]]
      /\ UNCHANGED links
  BY DEF Connect, c
<1> HIDE DEF c
<1>4. \A m \in Node, d \in Conn : d # c => pc'[m][d] = pc[m][d] /\ ends'[d] = ends[d]
  BY <1>1, <1>3 DEF TypeOK
<1>5. /\ ends'[c] = {n, p}
      /\ \A m \in Node : pc'[m][c] # "idle" => m \in {n, p}
  BY <1>1, <1>3 DEF TypeOK
<1>6. EndsAreTwo'
  BY <1>2, <1>4, <1>5 DEF EndsAreTwo
<1>7. \A m, q \in Node : links[m][q] # NoConn => links[m][q] \in Conn /\ links[m][q] # c
  <2>1. \A m, q \in Node : links[m][q] # NoConn => links[m][q] \in Conn
    BY DEF TypeOK
  <2>2. \A m, q \in Node : links[m][q] # NoConn => pc[m][links[m][q]] # "idle"
    BY DEF EntryServed
  <2> QED
    BY <1>1, <2>1, <2>2
<1> QED
  BY <1>3, <1>4, <1>6, <1>7 DEF EntryServed

\* What a task does to its own pc, and to nobody else's.
LEMMA GotoOnly ==
  ASSUME TypeOK, NEW n \in Node, NEW c \in Conn, NEW step, Goto(n, c, step)
  PROVE  /\ pc'[n][c] = step
         /\ \A m \in Node, d \in Conn :
              m # n \/ d # c => pc'[m][d] = pc[m][d]
BY DEF Goto, TypeOK

\* The steps of one end of a link, which finds its peer at the other one.
LEMMA EndServed ==
  ASSUME TypeOK, EndsAreTwo, EntryServed,
         NEW n \in Node, NEW c \in Conn, EndStep(n, c) \/ ReadEnds(n, c)
  PROVE  EndsAreTwo' /\ EntryServed'
<1>1. pc[n][c] # "idle"
  BY DEF EndStep, CheckMember, Register, Unregister, ReadEnds
<1>2. PICK p \in Node : p # n /\ ends[c] = {n, p}
  BY <1>1 DEF EndsAreTwo
<1>3. Far(n, c) = p
  BY <1>2, FarEnd
<1>4. UNCHANGED ends
  BY DEF EndStep, CheckMember, Register, Unregister, ReadEnds
<1>5. PICK step : Goto(n, c, step)
  BY DEF EndStep, CheckMember, Register, Unregister, ReadEnds
<1>6. EndsAreTwo'
  BY <1>1, <1>2, <1>4, <1>5, GotoOnly DEF EndsAreTwo
<1>7. \A q \in Node : links[n][q] = c => q = p
  BY <1>2, ConnAssumption DEF EntryServed
<1>8. CASE CheckMember(n, c)
  <2>1. \A q \in Node : links[n][q] # c
    BY <1>8, ConnAssumption DEF CheckMember, EntryServed
  <2>2. \A m, q \in Node : links[m][q] # NoConn => links[m][q] \in Conn
    BY DEF TypeOK
  <2> QED
    BY <1>4, <1>5, <1>6, <1>8, <2>1, <2>2, GotoOnly DEF CheckMember, EntryServed
<1>9. CASE Register(n, c)
  <2>1. \A q \in Node : links[n][q] # c
    BY <1>9, ConnAssumption DEF Register, EntryServed
  <2>2. \A m, q \in Node : links[m][q] # NoConn => links[m][q] \in Conn
    BY DEF TypeOK
  <2>3. CASE links[n][p] = NoConn
    <3>1. links' = [links EXCEPT ![n][p] = c] /\ Goto(n, c, "serving")
      BY <1>3, <1>9, <2>3 DEF Register
    <3>2. /\ links'[n][p] = c
          /\ \A m, q \in Node : m # n \/ q # p => links'[m][q] = links[m][q]
      BY <3>1 DEF TypeOK
    <3>3. /\ pc'[n][c] = "serving"
          /\ \A m \in Node, d \in Conn :
               m # n \/ d # c => pc'[m][d] = pc[m][d]
      BY <3>1, GotoOnly
    <3>4. \A m, q \in Node : links'[m][q] # NoConn =>
            /\ ends[links'[m][q]] = {m, q} /\ m # q
            /\ pc'[m][links'[m][q]] \in {"serving", "ended"}
      BY <1>2, <2>1, <2>2, <3>2, <3>3 DEF EntryServed
    <3> QED
      BY <1>4, <1>6, <3>4 DEF EntryServed
  <2>4. CASE links[n][p] # NoConn
    <3>1. UNCHANGED links /\ Goto(n, c, "idle")
      BY <1>3, <1>9, <2>4 DEF Register
    <3> QED
      BY <1>4, <1>6, <2>1, <2>2, <3>1, GotoOnly DEF EntryServed
  <2> QED
    BY <2>3, <2>4
<1>10. CASE Unregister(n, c)
  <2>1. links' = [links EXCEPT ![n][p] = NoConn] /\ Goto(n, c, "idle")
    BY <1>3, <1>10 DEF Unregister
  <2>2. /\ links'[n][p] = NoConn
        /\ \A m, q \in Node : m # n \/ q # p => links'[m][q] = links[m][q]
    BY <1>2, <2>1 DEF TypeOK
  <2>3. \A m \in Node, d \in Conn : m # n \/ d # c => pc'[m][d] = pc[m][d]
    BY <2>1, GotoOnly
  <2>4. \A m, q \in Node : links[m][q] # NoConn => links[m][q] \in Conn
    BY DEF TypeOK
  <2>5. \A m, q \in Node : links'[m][q] # NoConn =>
          /\ ends[links'[m][q]] = {m, q} /\ m # q
          /\ pc'[m][links'[m][q]] \in {"serving", "ended"}
    BY <1>7, <2>2, <2>3, <2>4 DEF EntryServed
  <2> QED
    BY <1>4, <1>6, <2>5 DEF EntryServed
<1>11. CASE ReadEnds(n, c)
  <2>1. UNCHANGED links /\ Goto(n, c, "ended")
    BY <1>11 DEF ReadEnds
  <2>2. \A m, q \in Node : links[m][q] # NoConn => links[m][q] \in Conn
    BY DEF TypeOK
  <2> QED
    BY <1>4, <1>6, <2>1, <2>2, GotoOnly DEF EntryServed
<1> QED
  BY <1>8, <1>9, <1>10, <1>11 DEF EndStep

LEMMA ServedStep ==
  ASSUME TypeOK, PeersAreOthers, EndsAreTwo, EntryServed, Next
  PROVE  EndsAreTwo' /\ EntryServed'
<1>1. ASSUME UNCHANGED <<links, ends, pc>>
      PROVE  EndsAreTwo' /\ EntryServed'
  BY <1>1, FewerEntries
<1>2. ASSUME NEW n \in Node, NEW members, Change(n, members) \/ LeaveNetwork(n)
      PROVE  EndsAreTwo' /\ EntryServed'
  BY <1>1, <1>2 DEF Change, LeaveNetwork, connVars
<1>3. ASSUME NEW r \in refreshes, RefreshStep(r)
      PROVE  EndsAreTwo' /\ EntryServed'
  <2>0. r.node \in Node
    BY DEF TypeOK, Refresh
  <2>1. CASE CloseAll(r)
    BY <2>0, <2>1, DropEntries, FewerEntries DEF CloseAll
  <2>2. CASE SetRoutes(r)
    <3>1. Node \ r.members \in SUBSET Node
      OBVIOUS
    <3>2. \A m, p \in Node : links'[m][p] \in {NoConn, links[m][p]}
      BY <2>0, <2>2, <3>1, DropEntries DEF SetRoutes
    <3> QED
      BY <2>2, <3>2, FewerEntries DEF SetRoutes
  <2>3. CASE ReadRoster(r) \/ RoutedAddrs(r) \/ \E failed \in SUBSET Node : Sync(r, failed)
    BY <1>1, <2>3 DEF ReadRoster, RoutedAddrs, Sync, connVars
  <2> QED
    BY <1>3, <2>1, <2>2, <2>3 DEF RefreshStep
<1>4. ASSUME NEW n \in Node, NEW p \in Node,
             \/ Packet(n, p) \/ DialRequested(n, p) \/ Sweep(n, p)
             \/ ConnectFails(n, p)
      PROVE  EndsAreTwo' /\ EntryServed'
  BY <1>1, <1>4 DEF Packet, DialRequested, Sweep, ConnectFails, connVars
<1>5. ASSUME NEW c \in Conn, Lose(c)
      PROVE  EndsAreTwo' /\ EntryServed'
  BY <1>1, <1>5 DEF Lose
<1>6. ASSUME NEW n \in Node, Restart(n)
      PROVE  EndsAreTwo' /\ EntryServed'
  <2>1. /\ \A p \in Node : links'[n][p] = NoConn
        /\ \A m \in Node \ {n} : links'[m] = links[m] /\ pc'[m] = pc[m]
        /\ \A c \in Conn : pc'[n][c] = "idle"
        /\ UNCHANGED ends
    BY <1>6 DEF Restart, TypeOK
  <2>2. EndsAreTwo'
    BY <2>1 DEF EndsAreTwo
  <2>3. ASSUME NEW m \in Node, NEW p \in Node, links'[m][p] # NoConn
        PROVE  /\ ends[links'[m][p]] = {m, p} /\ m # p
               /\ pc'[m][links'[m][p]] \in {"serving", "ended"}
    <3>1. m # n
      BY <2>1, <2>3
    <3>2. links'[m][p] = links[m][p] /\ pc'[m] = pc[m]
      BY <2>1, <3>1
    <3> QED
      BY <2>3, <3>2 DEF EntryServed
  <2> QED
    BY <2>1, <2>2, <2>3, Zenon DEF EntryServed
<1> QED
  BY <1>2, <1>3, <1>4, <1>5, <1>6, ConnectServed, EndServed DEF Next

LEMMA LinkInit == Init => LinkInv
<1>1. Init => EndsAreTwo /\ EntryServed
  BY DEF Init, EndsAreTwo, EntryServed
<1> QED
  BY <1>1, TypeInit, PeersInit DEF LinkInv

LEMMA LinkStep == LinkInv /\ [Next]_vars => LinkInv'
<1> SUFFICES ASSUME LinkInv, [Next]_vars
             PROVE  LinkInv'
  OBVIOUS
<1>1. CASE UNCHANGED vars
  BY <1>1 DEF vars, LinkInv, TypeOK, PeersAreOthers, EndsAreTwo, EntryServed
<1>2. CASE Next
  BY <1>2, TypeStep, PeersStep, ServedStep DEF LinkInv
<1> QED
  BY <1>1, <1>2

\* An entry of the link table is a connection to that very peer, whose task
\* still runs and will take it out again, whatever dials, duplicates, refreshes,
\* losses and restarts happen (mesh.rs, serve_link).
THEOREM EntryIsServed == Spec => []EntryServed
<1>1. LinkInv => EntryServed
  BY DEF LinkInv
<1> QED
  BY <1>1, LinkInit, LinkStep, PTL DEF Spec

-----------------------------------------------------------------------------
(* A change on its own is carried through *)

LEMMA RefreshInit == Init => OneRefresh
BY DEF Init, OneRefresh

\* What is not in the roster's path leaves the invariant alone, and after a
\* fault it says nothing.
LEMMA PlanUntouched ==
  ASSUME TypeOK, OneRefresh, changes' = changes,
         \/ UNCHANGED <<planVars, faults>>
         \/ Fault
  PROVE  OneRefresh'
<1>1. CASE Fault
  BY <1>1 DEF Fault, OneRefresh, TypeOK
<1>2. CASE UNCHANGED <<planVars, faults>>
  BY <1>2, Zenon DEF OneRefresh, CarriedTo, planVars
<1> QED
  BY <1>1, <1>2

\* The first change begins the one refresh, from tables that all agree.
LEMMA FirstChange ==
  ASSUME TypeOK, OneRefresh, NEW n \in Node, NEW members \in SUBSET Node,
         NEW step \in {"close", "read"},
         changes' = changes + 1,
         listed' = [listed EXCEPT ![n] = members],
         Begin(n, step),
         UNCHANGED <<routes, installed, kernel, faults>>
  PROVE  OneRefresh'
<1> SUFFICES ASSUME changes' <= 1, faults' = 0
             PROVE  OneRefresh'
  BY DEF OneRefresh
<1>1. changes = 0 /\ faults = 0
  BY DEF TypeOK
<1>2. refreshes = {} /\ routes = listed /\ installed = listed /\ kernel = installed
  BY <1>1 DEF OneRefresh
<1>3. PICK r \in refreshes' : refreshes' = {r} /\ r.node = n /\ r.pc = step
  BY <1>2 DEF Begin
<1>5. CarriedTo(r)'
  BY <1>3 DEF CarriedTo
<1>6. \A m \in Node \ {n} : routes'[m] = listed'[m] /\ installed'[m] = listed'[m]
  BY <1>2 DEF TypeOK
<1> QED
  BY <1>1, <1>2, <1>3, <1>5, <1>6 DEF OneRefresh

\* A refresh that takes a step is the only one, and it began from the roster.
LEMMA RefreshGoesOn ==
  ASSUME TypeOK, OneRefresh, NEW r \in refreshes, changes <= 1, faults = 0
  PROVE  /\ refreshes = {r} /\ changes = 1
         /\ kernel = installed
         /\ CarriedTo(r)
         /\ \A n \in Node \ {r.node} :
              routes[n] = listed[n] /\ installed[n] = listed[n]
BY DEF OneRefresh

LEMMA RefreshCarries ==
  ASSUME TypeOK, OneRefresh, NEW r \in refreshes, RefreshStep(r)
  PROVE  OneRefresh'
<1>0. r \in Refresh /\ r.node \in Node
  BY DEF TypeOK, Refresh
<1>1. changes' = changes /\ (faults' = faults \/ Fault)
  BY DEF RefreshStep, CloseAll, ReadRoster, SetRoutes, RoutedAddrs, Sync,
         boundVars, NoFault
<1> SUFFICES ASSUME changes <= 1, faults' = 0
             PROVE  OneRefresh'
  BY <1>1 DEF OneRefresh
<1>2. faults = 0
  BY <1>1 DEF Fault, TypeOK
<1>3. /\ refreshes = {r} /\ changes = 1
      /\ kernel = installed
      /\ CarriedTo(r)
      /\ \A n \in Node \ {r.node} :
           routes[n] = listed[n] /\ installed[n] = listed[n]
  BY <1>2, RefreshGoesOn
<1>4. UNCHANGED listed
  BY DEF RefreshStep, CloseAll, ReadRoster, SetRoutes, RoutedAddrs, Sync
<1>5. ASSUME NEW step \in {"close", "read", "route", "wanted", "sync"},
             NEW members \in SUBSET Node, Advance(r, step, members)
      PROVE  \E q \in refreshes' :
               /\ refreshes' = {q}
               /\ q.node = r.node /\ q.pc = step /\ q.members = members
  <2> DEFINE q == [r EXCEPT !.pc = step, !.members = members]
  <2>1. refreshes' = {q}
    BY <1>3, <1>5 DEF Advance
  <2>2. q.node = r.node /\ q.pc = step /\ q.members = members
    BY <1>0 DEF Refresh
  <2> HIDE DEF q
  <2> QED
    BY <2>1, <2>2
<1>6. CASE CloseAll(r)
  <2>1. PICK q \in refreshes' : refreshes' = {q} /\ q.node = r.node /\ q.pc = "read"
    BY <1>5, <1>6 DEF CloseAll
  <2>2. CarriedTo(q)'
    BY <2>1 DEF CarriedTo
  <2> QED
    BY <1>1, <1>3, <1>4, <1>6, <2>1, <2>2 DEF OneRefresh, CloseAll
<1>7. CASE ReadRoster(r)
  <2>1. PICK q \in refreshes' :
          /\ refreshes' = {q} /\ q.node = r.node /\ q.pc = "route"
          /\ q.members = listed[r.node]
    <3>1. listed[r.node] \in SUBSET Node
      BY <1>0 DEF TypeOK
    <3> QED
      BY <1>5, <1>7, <3>1 DEF ReadRoster
  <2>2. CarriedTo(q)'
    BY <1>4, <2>1 DEF CarriedTo
  <2> QED
    BY <1>1, <1>3, <1>4, <1>7, <2>1, <2>2 DEF OneRefresh, ReadRoster
<1>8. CASE SetRoutes(r)
  <2>1. PICK q \in refreshes' :
          refreshes' = {q} /\ q.node = r.node /\ q.pc = "wanted"
    BY <1>5, <1>8 DEF SetRoutes
  <2>2. /\ routes'[r.node] = listed[r.node]
        /\ \A n \in Node \ {r.node} : routes'[n] = routes[n]
    BY <1>0, <1>3, <1>8 DEF SetRoutes, CarriedTo, TypeOK
  <2>3. CarriedTo(q)'
    BY <1>4, <2>1, <2>2 DEF CarriedTo
  <2> QED
    BY <1>1, <1>3, <1>4, <1>8, <2>1, <2>2, <2>3 DEF OneRefresh, SetRoutes
<1>9. CASE RoutedAddrs(r)
  <2>1. PICK q \in refreshes' :
          /\ refreshes' = {q} /\ q.node = r.node /\ q.pc = "sync"
          /\ q.members = routes[r.node]
    <3>1. routes[r.node] \in SUBSET Node
      BY <1>0 DEF TypeOK
    <3> QED
      BY <1>5, <1>9, <3>1 DEF RoutedAddrs
  <2>2. routes[r.node] = listed[r.node] /\ UNCHANGED routes
    BY <1>3, <1>9 DEF RoutedAddrs, CarriedTo
  <2>3. CarriedTo(q)'
    BY <1>4, <2>1, <2>2 DEF CarriedTo
  <2> QED
    BY <1>1, <1>3, <1>4, <1>9, <2>1, <2>3 DEF OneRefresh, RoutedAddrs
<1>10. ASSUME NEW failed \in SUBSET Node, Sync(r, failed)
       PROVE  OneRefresh'
  <2>1. failed = {}
    BY <1>2, <1>10 DEF Sync, Fault
  <2>2. r.members = listed[r.node] /\ routes[r.node] = listed[r.node]
    BY <1>3, <1>10 DEF Sync, CarriedTo
  <2>3. refreshes' = {}
    BY <1>3, <1>10 DEF Sync
  <2>4. /\ installed' = [installed EXCEPT ![r.node] = listed[r.node]]
        /\ kernel' = [kernel EXCEPT ![r.node] = listed[r.node]]
    <3>1. (installed[r.node] \cup ((r.members \ installed[r.node]) \ {}))
             \ ((installed[r.node] \ r.members) \ {}) = r.members
      OBVIOUS
    <3> QED
      BY <1>3, <1>10, <2>1, <2>2, <3>1 DEF Sync, SyncKernel
  <2>5. installed' = listed /\ kernel' = listed /\ routes = listed
    <3>1. \A n \in Node : /\ installed'[n] = listed[n]
                          /\ kernel'[n] = listed[n]
                          /\ routes[n] = listed[n]
      BY <1>0, <1>3, <2>2, <2>4 DEF TypeOK
    <3>2. /\ installed' \in [Node -> SUBSET Node]
          /\ kernel' \in [Node -> SUBSET Node]
          /\ routes \in [Node -> SUBSET Node]
          /\ listed \in [Node -> SUBSET Node]
      BY <1>0, <2>4 DEF TypeOK
    <3> QED
      BY <3>1, <3>2
  <2> QED
    BY <1>4, <1>10, <2>3, <2>5 DEF OneRefresh, Sync
<1> QED
  BY <1>6, <1>7, <1>8, <1>9, <1>10 DEF RefreshStep

LEMMA RefreshPreserved ==
  ASSUME TypeOK, OneRefresh, Next
  PROVE  OneRefresh'
<1> USE DEF connVars, dialVars, boundVars
<1>1. ASSUME NEW n \in Node, NEW members \in SUBSET Node, Change(n, members)
      PROVE  OneRefresh'
  BY <1>1, FirstChange DEF Change
<1>2. ASSUME NEW n \in Node, LeaveNetwork(n)
      PROVE  OneRefresh'
  BY <1>2, FirstChange DEF LeaveNetwork
<1>3. ASSUME NEW n \in Node, NEW p \in Node,
             \/ Packet(n, p) \/ DialRequested(n, p) \/ Sweep(n, p)
             \/ Connect(n, p) \/ ConnectFails(n, p)
      PROVE  OneRefresh'
  BY <1>3, PlanUntouched DEF Packet, DialRequested, Sweep, Connect, ConnectFails
<1>4. ASSUME NEW n \in Node, NEW c \in Conn, EndStep(n, c) \/ ReadEnds(n, c)
      PROVE  OneRefresh'
  BY <1>4, PlanUntouched DEF EndStep, CheckMember, Register, Unregister,
                             ReadEnds, NoFault
<1>5. ASSUME NEW c \in Conn, Lose(c)
      PROVE  OneRefresh'
  BY <1>5, PlanUntouched DEF Lose
<1>6. ASSUME NEW n \in Node, Restart(n)
      PROVE  OneRefresh'
  BY <1>6, PlanUntouched DEF Restart
<1> QED
  BY <1>1, <1>2, <1>3, <1>4, <1>5, <1>6, RefreshCarries DEF Next

\* A membership change on its own is carried through: when its refresh is done,
\* routes and system routes are those of the roster, whatever links and dials
\* did meanwhile (state.rs, refresh_routes; routes.rs, sync).
THEOREM ChangeCarriedThrough == Spec => []RefreshApplies
<1>1. TypeOK /\ OneRefresh /\ [Next]_vars => OneRefresh'
  <2> SUFFICES ASSUME TypeOK, OneRefresh, [Next]_vars
               PROVE  OneRefresh'
    OBVIOUS
  <2>1. CASE UNCHANGED vars
    BY <2>1, PlanUntouched DEF vars, planVars
  <2> QED
    BY <2>1, RefreshPreserved
<1>2. TypeOK /\ OneRefresh => RefreshApplies
  BY DEF OneRefresh, RefreshApplies
<1> QED
  BY <1>1, <1>2, RefreshInit, TypeCorrect, PTL DEF Spec
=============================================================================
