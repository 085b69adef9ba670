-------------------------------- MODULE Links ---------------------------------
(***************************************************************************)
(* The data plane's control state: the link table and the routes of        *)
(* daemon/src/peers.rs, the dialer and the links of mesh.rs, the refresh   *)
(* that follows every membership change (state.rs, refresh_routes) and the *)
(* system routes it leads to (routes.rs).                                  *)
(*                                                                         *)
(* A connection has two ends, each served by its own task (serve_link).    *)
(* Tasks interleave wherever they wait for a lock: an end between its      *)
(* membership check and its registration, between the end of its read      *)
(* loop and its unregistration, a refresh between reading the roster and   *)
(* applying it.  Packets are not modelled, only that one for a routed peer *)
(* without a link asks for a dial.                                         *)
(***************************************************************************)
EXTENDS Naturals, FiniteSetsExt

CONSTANTS
  Node,         \* endpoint ids, ordered
  Conn,         \* connections; one whose two ends are idle can be used again
  NoConn,
  MaxChanges,   \* bound: membership changes
  MaxFaults,    \* bound: lost connections, failed dials, routes and restarts
  MaxRequests   \* bound: packets that ask for a dial

ASSUME LinkNodeAssumption == Node \subseteq Nat
ASSUME ConnAssumption == Conn \subseteq Nat /\ NoConn \notin Conn
ASSUME LinkBoundAssumption ==
  MaxChanges \in Nat /\ MaxFaults \in Nat /\ MaxRequests \in Nat

VARIABLES
  listed,     \* listed[n]: the other members of n's roster
  refreshes,  \* calls of refresh_routes under way
  routes,     \* routes[n]: the peers n has a route to
  links,      \* links[n][p]: the connection registered for peer p
  installed,  \* installed[n]: peers whose system routes n believes are there
  kernel,     \* kernel[n]: peers whose system routes are there
  ends,       \* ends[c]: the two nodes c connects
  alive,      \* alive[c]: neither end closed c and the network carries it
  pc,         \* pc[n][c]: where n's task for c is
  asked,      \* asked[n]: peers in the dialer's queue
  flying,     \* flying[n]: peers being dialled (in_flight)
  changes, faults, requests   \* what happened, against the bounds

vars == <<listed, refreshes, routes, links, installed, kernel, ends, alive, pc,
          asked, flying, changes, faults, requests>>

planVars == <<listed, refreshes, routes, installed, kernel>>
connVars == <<ends, alive, pc>>
dialVars == <<asked, flying>>
boundVars == <<changes, faults, requests>>

PC == {"idle", "new", "checked", "serving", "ended"}
Refresh == [id : Nat, node : Node,
            pc : {"close", "read", "route", "wanted", "sync"},
            members : SUBSET Node]

Others(n) == Node \ {n}
Far(n, c) == CHOOSE p \in ends[c] : p # n
Free == {c \in Conn : \A n \in Node : pc[n][c] = "idle"}

\* Everybody lists everybody and the routes are in place, but no link is up.
Init ==
  /\ listed = [n \in Node |-> Others(n)]
  /\ refreshes = {}
  /\ routes = listed
  /\ links = [n \in Node |-> [p \in Node |-> NoConn]]
  /\ installed = listed
  /\ kernel = listed
  /\ ends = [c \in Conn |-> {}]
  /\ alive = [c \in Conn |-> FALSE]
  /\ pc = [n \in Node |-> [c \in Conn |-> "idle"]]
  /\ asked = [n \in Node |-> {}]
  /\ flying = [n \in Node |-> {}]
  /\ changes = 0 /\ faults = 0 /\ requests = 0

Fault == faults < MaxFaults /\ faults' = faults + 1
NoFault == UNCHANGED faults

-----------------------------------------------------------------------------
(* Membership changes and the refresh that follows *)

Begin(n, step) ==
  refreshes' = refreshes \cup
    {[id |-> changes, node |-> n, pc |-> step, members |-> {}]}

\* A join, a roster push, a kick: the roster of n changes, then it refreshes.
Change(n, members) ==
  /\ changes < MaxChanges
  /\ changes' = changes + 1
  /\ listed' = [listed EXCEPT ![n] = members]
  /\ Begin(n, "read")
  /\ UNCHANGED <<routes, links, installed, kernel, connVars, dialVars, faults,
                 requests>>

\* A leave, also one the coordinator demands.
LeaveNetwork(n) ==
  /\ changes < MaxChanges
  /\ changes' = changes + 1
  /\ listed' = [listed EXCEPT ![n] = {}]
  /\ Begin(n, "close")
  /\ UNCHANGED <<routes, links, installed, kernel, connVars, dialVars, faults,
                 requests>>

Advance(r, step, members) ==
  refreshes' = (refreshes \ {r}) \cup
    {[r EXCEPT !.pc = step, !.members = members]}

\* The links of n to the peers in `gone' leave the table and are closed.
Drop(n, gone) ==
  /\ links' = [links EXCEPT ![n] = [p \in Node |-> IF p \in gone THEN NoConn
                                                   ELSE links[n][p]]]
  /\ alive' = [c \in Conn |-> alive[c] /\ \A p \in gone : links[n][p] # c]

\* The table is drained before the refresh.
CloseAll(r) ==
  /\ r.pc = "close"
  /\ Drop(r.node, Node)
  /\ Advance(r, "read", {})
  /\ UNCHANGED <<listed, routes, installed, kernel, ends, pc, dialVars,
                 boundVars>>

ReadRoster(r) ==
  /\ r.pc = "read"
  /\ Advance(r, "route", listed[r.node])
  /\ UNCHANGED <<listed, routes, links, installed, kernel, connVars, dialVars,
                 boundVars>>

SetRoutes(r) ==
  /\ r.pc = "route"
  /\ routes' = [routes EXCEPT ![r.node] = r.members]
  /\ Drop(r.node, Node \ r.members)
  /\ Advance(r, "wanted", {})
  /\ UNCHANGED <<listed, installed, kernel, ends, pc, dialVars, boundVars>>

RoutedAddrs(r) ==
  /\ r.pc = "wanted"
  /\ Advance(r, "sync", routes[r.node])
  /\ UNCHANGED <<listed, routes, links, installed, kernel, connVars, dialVars,
                 boundVars>>

Unlinked(n) == {p \in routes[n] : links[n][p] = NoConn}

\* Mutant: what is no longer wanted stays in the system's table.
SyncAddsOnly(n, wanted, failed) ==
  /\ kernel' = [kernel EXCEPT ![n] = @ \cup ((wanted \ installed[n]) \ failed)]
  /\ installed' = [installed EXCEPT ![n] = wanted]

\* Adding or removing the routes of the peers in `failed' does not work.
SyncKernel(n, wanted, failed) ==
  /\ kernel' = [kernel EXCEPT ![n] =
       (@ \cup ((wanted \ installed[n]) \ failed))
         \ ((installed[n] \ wanted) \ failed)]
  /\ installed' = [installed EXCEPT ![n] = wanted]

\* Then whoever is not linked is put in the dialer's queue, if there is room.
Sync(r, failed) ==
  /\ r.pc = "sync"
  /\ failed \subseteq (r.members \ installed[r.node])
                        \cup (installed[r.node] \ r.members)
  /\ IF failed = {} THEN NoFault ELSE Fault
  /\ SyncKernel(r.node, r.members, failed)
  /\ refreshes' = refreshes \ {r}
  /\ asked' \in {asked, [asked EXCEPT ![r.node] = @ \cup Unlinked(r.node)]}
  /\ UNCHANGED <<listed, routes, links, connVars, flying, changes, requests>>

-----------------------------------------------------------------------------
(* Dialling *)

\* A packet for a routed peer without a link (tun_to_mesh).
Packet(n, p) ==
  /\ requests < MaxRequests
  /\ requests' = requests + 1
  /\ p \in Unlinked(n)
  /\ asked' = [asked EXCEPT ![n] = @ \cup {p}]
  /\ UNCHANGED <<planVars, links, connVars, flying, changes, faults>>

MayDial(n, p) ==
  /\ n <= p
  /\ links[n][p] = NoConn
  /\ p \notin flying[n]

DialRequested(n, p) ==
  /\ p \in asked[n]
  /\ asked' = [asked EXCEPT ![n] = @ \ {p}]
  /\ flying' = IF MayDial(n, p) THEN [flying EXCEPT ![n] = @ \cup {p}]
                                ELSE flying
  /\ UNCHANGED <<planVars, links, connVars, boundVars>>

\* The periodic sweep.  Its interval is long against the steps of a task: what
\* was under way at one tick is settled at the next.
Settled == \A n \in Node, c \in Conn : pc[n][c] \in {"idle", "serving"}

\* Mutant: a dial is made when a packet or a refresh asks for it, or never.
SweepNothing(n, p) == FALSE

Sweep(n, p) ==
  /\ Settled
  /\ p \in Unlinked(n)
  /\ MayDial(n, p)
  /\ flying' = [flying EXCEPT ![n] = @ \cup {p}]
  /\ UNCHANGED <<planVars, links, connVars, asked, boundVars>>

\* The dial no longer counts as under way when its link begins to be set up.
Connect(n, p) ==
  /\ p \in flying[n]
  /\ Free # {}
  /\ flying' = [flying EXCEPT ![n] = @ \ {p}]
  /\ LET c == Min(Free)
     IN  /\ ends' = [ends EXCEPT ![c] = {n, p}]
         /\ alive' = [alive EXCEPT ![c] = TRUE]
         /\ pc' = [m \in Node |-> IF m \in {n, p}
                                  THEN [pc[m] EXCEPT ![c] = "new"]
                                  ELSE pc[m]]
  /\ UNCHANGED <<planVars, links, asked, boundVars>>

ConnectFails(n, p) ==
  /\ Fault
  /\ p \in flying[n]
  /\ flying' = [flying EXCEPT ![n] = @ \ {p}]
  /\ UNCHANGED <<planVars, links, connVars, asked, changes, requests>>

-----------------------------------------------------------------------------
(* One end of a link: serve_link *)

Goto(n, c, step) == pc' = [pc EXCEPT ![n][c] = step]
Close(c) == alive' = [alive EXCEPT ![c] = FALSE]

CheckMember(n, c) ==
  /\ pc[n][c] = "new"
  /\ IF Far(n, c) \in listed[n] THEN Goto(n, c, "checked") /\ UNCHANGED alive
                                ELSE Goto(n, c, "idle") /\ Close(c)
  /\ UNCHANGED <<planVars, links, ends, dialVars, boundVars>>

Register(n, c) ==
  LET p == Far(n, c)
  IN  /\ pc[n][c] = "checked"
      /\ IF links[n][p] = NoConn
         THEN /\ links' = [links EXCEPT ![n][p] = c]
              /\ Goto(n, c, "serving")
              /\ UNCHANGED alive
         ELSE /\ Goto(n, c, "idle")
              /\ Close(c)
              /\ UNCHANGED links
      /\ UNCHANGED <<planVars, ends, dialVars, boundVars>>

\* The read loop ends because the connection is closed, or because the TUN
\* refuses a packet.
ReadEnds(n, c) ==
  /\ pc[n][c] = "serving"
  /\ IF alive[c] THEN Fault ELSE NoFault
  /\ Goto(n, c, "ended")
  /\ UNCHANGED <<planVars, links, ends, alive, dialVars, changes, requests>>

\* Mutant: the task ends without taking its link out of the table.
UnregisterForgotten(n, c) ==
  /\ pc[n][c] = "ended"
  /\ Goto(n, c, "idle")
  /\ Close(c)
  /\ UNCHANGED <<planVars, links, ends, dialVars, boundVars>>

\* Whatever is registered for the peer goes; with the last handle the
\* connection closes.
Unregister(n, c) ==
  /\ pc[n][c] = "ended"
  /\ links' = [links EXCEPT ![n][Far(n, c)] = NoConn]
  /\ Goto(n, c, "idle")
  /\ Close(c)
  /\ UNCHANGED <<planVars, ends, dialVars, boundVars>>

-----------------------------------------------------------------------------
(* Faults *)

Lose(c) ==
  /\ Fault
  /\ alive[c]
  /\ Close(c)
  /\ UNCHANGED <<planVars, links, ends, pc, dialVars, changes, requests>>

\* The roster is read back from disk, the interface and its routes are new.
Restart(n) ==
  /\ Fault
  /\ refreshes' = {r \in refreshes : r.node # n} \cup
       {[id |-> MaxChanges + faults, node |-> n, pc |-> "read",
         members |-> {}]}
  /\ routes' = [routes EXCEPT ![n] = {}]
  /\ links' = [links EXCEPT ![n] = [p \in Node |-> NoConn]]
  /\ installed' = [installed EXCEPT ![n] = {}]
  /\ kernel' = [kernel EXCEPT ![n] = {}]
  /\ alive' = [c \in Conn |-> alive[c] /\ n \notin ends[c]]
  /\ pc' = [pc EXCEPT ![n] = [c \in Conn |-> "idle"]]
  /\ asked' = [asked EXCEPT ![n] = {}]
  /\ flying' = [flying EXCEPT ![n] = {}]
  /\ UNCHANGED <<listed, ends, changes, requests>>

-----------------------------------------------------------------------------
RefreshStep(r) ==
  \/ CloseAll(r) \/ ReadRoster(r) \/ SetRoutes(r) \/ RoutedAddrs(r)
  \/ \E failed \in SUBSET Node : Sync(r, failed)

EndStep(n, c) == CheckMember(n, c) \/ Register(n, c) \/ Unregister(n, c)

Next ==
  \/ \E n \in Node, members \in SUBSET Node :
       members \subseteq Others(n) /\ Change(n, members)
  \/ \E n \in Node : LeaveNetwork(n)
  \/ \E r \in refreshes : RefreshStep(r)
  \/ \E n, p \in Node :
       \/ Packet(n, p) \/ DialRequested(n, p) \/ Sweep(n, p)
       \/ Connect(n, p) \/ ConnectFails(n, p)
  \/ \E n \in Node, c \in Conn : EndStep(n, c) \/ ReadEnds(n, c)
  \/ \E c \in Conn : Lose(c)
  \/ \E n \in Node : Restart(n)

Spec == Init /\ [][Next]_vars

\* Tasks are polled, the sweep ticks for ever, a dial has an outcome, and a
\* closed connection is noticed.  Nothing is owed by users and the network.
Fairness ==
  /\ WF_vars(\E r \in refreshes : RefreshStep(r))
  /\ \A n, p \in Node :
       /\ WF_vars(Sweep(n, p))
       /\ WF_vars(DialRequested(n, p))
       /\ WF_vars(Connect(n, p))
  /\ \A n \in Node, c \in Conn :
       /\ WF_vars(EndStep(n, c))
       /\ WF_vars(~ alive[c] /\ ReadEnds(n, c))

FairSpec == Spec /\ Fairness

-----------------------------------------------------------------------------
(* Properties *)

TypeOK ==
  /\ listed \in [Node -> SUBSET Node]
  /\ refreshes \subseteq Refresh
  /\ routes \in [Node -> SUBSET Node]
  /\ links \in [Node -> [Node -> Conn \cup {NoConn}]]
  /\ installed \in [Node -> SUBSET Node]
  /\ kernel \in [Node -> SUBSET Node]
  /\ ends \in [Conn -> SUBSET Node]
  /\ alive \in [Conn -> BOOLEAN]
  /\ pc \in [Node -> [Conn -> PC]]
  /\ asked \in [Node -> SUBSET Node]
  /\ flying \in [Node -> SUBSET Node]
  /\ \A n \in Node : \A p \in flying[n] : n <= p  \* one side dials
  /\ changes \in 0 .. MaxChanges
  /\ faults \in 0 .. MaxFaults
  /\ requests \in 0 .. MaxRequests

\* A link in the table is a connection to that very peer whose read loop still
\* runs or is about to unregister it, whatever refreshes, duplicates and losses
\* happen: no dead entry can block the peer from being dialled again (mesh.rs,
\* serve_link; peers.rs, register).
EntryServed ==
  \A n, p \in Node :
    LET c == links[n][p]
    IN  c # NoConn => /\ ends[c] = {n, p} /\ n # p
                      /\ pc[n][c] \in {"serving", "ended"}

\* A membership change on its own is carried through: once its refresh is done
\* the routes and the system's routes are those of the roster, also after a
\* leave and whatever links and dials do meanwhile (state.rs, refresh_routes;
\* routes.rs, sync).  Of two changes that overlap the older may win.
RefreshApplies ==
  changes <= 1 /\ faults = 0 /\ refreshes = {}
    => routes = listed /\ kernel = listed

\* The two nodes are linked: both tables hold one connection, and it works.
Linked(n, p) ==
  /\ links[n][p] # NoConn
  /\ links[n][p] = links[p][n]
  /\ alive[links[n][p]]

\* Once every roster lists everybody and the routes say so too, every two
\* members get linked and stay linked when faults and duplicate dials cease,
\* although only one of them dials and each may refuse what the other has
\* registered (mesh.rs, dialer: "Keeps the mesh connected").  It holds while
\* nobody is taken out of a roster and put back; after that it may not.
MeshConnects ==
  <>[](\A n \in Node : listed[n] = Others(n) /\ routes[n] = Others(n))
    => <>[](\A n, p \in Node : n # p => Linked(n, p))

-----------------------------------------------------------------------------
(* What comments say, and the code does not keep *)

\* "Replaces the routing table with exactly `routes` [...] and closes the link
\* to anyone no longer in it", since a "kicked peer will not hang up on its
\* own, and its read loop would go on delivering its packets into the TUN"
\* (peers.rs, set_routes): once a removal is carried through, no live link to
\* the peer is served.
RemovedIsCut ==
  refreshes = {} =>
    \A n \in Node, c \in Conn :
      pc[n][c] = "serving" /\ alive[c] => Far(n, c) \in listed[n]
=============================================================================
