# A TLA+ verification project for quix

quix is a small mesh VPN: every node runs a daemon (`quixd`), members of a
network reach each other over QUIC connections, packets go through a TUN
device, and a command line (`quix`) talks to the local daemon over IPC.  One
member, the *coordinator*, created the network, invites peers, names them and
pushes the roster to everybody.

This directory holds TLA+ models of the parts of quix that decide something,
the TLC configurations that check them on small instances, and theorems that
TLAPS proves for every value of the constants.  `PROJECT.json` maps every
definition to the lines it models, names the mutant that breaks each property,
and lists the hazards the properties are aimed at.

To check: `tlc -workers 2 -config X.cfg M` for the runs below; `tlapm M.tla` for
the proofs, which are in `MembershipProofs`, `ControlPlaneProofs`, `InvitesProofs`,
`LinksProofs`, `FileTransferProofs`, `OffersProofs`, `DnsProofs` and `HostProofs`.

## The system

| Part | State | Operations | Modelled by |
|---|---|---|---|
| Membership, names (`daemon/src/membership.rs`, `names.rs`) | coordinator, network id, members with hostnames, pending invites, name bindings | create, generate/redeem invite, set_joined, apply_roster, claim_hostname, remove_member, leave | `Membership` |
| Control plane (`ipc.rs`, `admin.rs`, `connect.rs`, `state.rs`) | one membership per daemon behind a lock; commands and request handlers under way | Create, Invite, Join, Leave, Kick, Hostname; requests Join, Leave, SetHostname, Roster, Kicked; catch-up on link-up | `ControlPlane` |
| Invites and persistence (`membership.rs`, `state.rs`) | memory, `network.json`, wall clock | mint, redeem, save, load | `Invites` |
| Links, routes, dialer (`peers.rs`, `mesh.rs`, `routes.rs`, `state.rs`) | link table, routes, installed system routes, dial queue and `in_flight` | refresh_routes, serve_link, dial on demand, sweep, sync | `Links` |
| File offers (`files/mod.rs`, `files/transfer.rs`, `cli/.../file/send.rs`, `receive.rs`) | registry: outgoing, incoming, receiving; two CLIs; a stream | send, receive_offer, accept, reject, cancel, expiry, set_roster, list | one offer through both daemons: `FileTransfer`, abstractly `Offer`; many offers at one node: `Offers` |
| DNS registration (`registration.rs`, `resolv.rs`) | what the system resolver was told; a retrying task, its counter and stop signal; the status | start, attempt, retry, stop | `Registration` |
| DNS resolver (`dns.rs`) | sockets; one loop per socket between its reads of the membership | bind with retries, answer | `Resolver` |
| The machine around the daemon: key (`identity.rs`), settings and authority (`settings.rs`, `authz.rs`, `ipc.rs`), start and stop (`main.rs`, `service.rs`), `cli` client, elevation, service commands and update, the installers | key file, settings file, the two binaries, the service manager's view and job, the process, commands under way | start, serve, stop; commands, set-operator, the repetition elevated; service start/stop/restart/enable; update | `Host` |
| TUN device, statistics, logging, file-name rules, parsing and printing | – | I/O and text | no |

How they interact: IPC commands and admin requests are tasks that take the
membership lock for one call at a time; each change is saved and followed by
`refresh_routes`, which reads the roster again under the lock and hands it to
the link table, the system routes and the file registry.  A coordinator's
change is published by one spawned push per member.  A link coming up with the
coordinator makes it push the roster to that peer.

What is hard to test: the lock is released between a check and its effect and
between an effect and its publication; pushes overtake each other; saves fail
after the memory has changed; a refresh works with a roster that is old when it
is applied; two connections between the same peers, one of them ending; a
stream whose last frames are lost at the close; a roster change, a time-out or
a cancellation racing an acceptance; a DNS query that reads the membership in
three parts; a key or settings file cut short; a service that is stopped, revived
and updated at the same time.  The `hazards` of `PROJECT.json` list these
at their lines.

## The modules

### Membership

Pure operators: each takes the membership before a call and returns the one
after it.  The roster is a set of ids with a hostname for each, bindings are a
function from names to owners.  The text of names is abstracted by constants:
`Label` is what trimming, lowering and checking a spelling yields, `Fallback`
the first eight hex digits of an id, `Numbered` and `LastResort` the two ways a
taken name is varied.  `SuffixAssumption` says that a numbered name is never a
last-resort name, and that a last-resort name ends in one fallback.  Two things
that the code does not see to are not assumed, but are hypotheses of the theorems
that need them: `DistinctFallbacks`, no two ids share their first eight digits, and
`OrdinaryNames`, nobody types a name that ends in a hyphen and a node's fallback.
The order of the roster matters only for which of two equal names comes first, and
is the order of the ids after the sort of a push.

### ControlPlane (with MCControlPlane)

`mem[n]` is a node's membership; `tasks` are the commands and handlers between
two steps; `net` are the requests and answers in flight, a set, so they arrive
in any order or never.  Each code path is cut where the lock is given up:
`InviteCommand` checks, `Mint` acts; `RecvJoin` checks, `Redeem` admits, saves
and answers, `Publish` pushes; `RecvRoster` checks who sent the push, `DoApply`
applies it; and so on.  A join tries `JoinAttempts` times, and an earlier
attempt may be handled though the caller gave up on it.  Every membership change
is saved in the step that makes it, so `Restart` only loses tasks.

### Invites (with MCInvites)

One coordinator in detail: what is in memory, what is in the file, a clock that
can be set to anything, requests past their coordinator check.  `std::fs::write`
truncates before it writes, so a failed save leaves the old file or a torn one;
with a torn file the daemon does not start.  `minted`, `judged`, `told` and
`acked` are history variables for the properties; no guard reads them but the
one that keeps a fresh random token fresh.

A removal (a kick, or a member that leaves) and a pushed roster are checked in one
step and applied in another, as their handlers give the lock up in between (`Remove`
and `DoRemove`, `RecvRoster` and `DoApply`).  A push that was checked while the node
was a plain member, and is applied after it created a network of its own, takes from
that network the admissions it does not list, in memory and on disk.  This is the
race of `coordinator_admits`; here it is the one exception that `AckedSurvives` makes
for admissions, and `PushKeepsMembers` states what would hold without it.

### Links

Per node the roster, the routes, the link table, the believed and the real
system routes; per connection its two ends and whether it works; per end the
place of its `serve_link` task; the dialer's queue and `in_flight`.  A refresh
is a task of up to five steps (close all, read, route, addresses, sync), as the
locks are taken.  `Sweep` waits until no connection is between two steps
(`Settled`): the sweep period is seconds, the steps in between are lock
acquisitions.  It is the one timing assumption of the module, and without it
the duplicate dials it excludes could go on for ever.

### Offer and FileTransfer

`Offer` says what an offer promises: the fate shown to the sender (`quix file
list`) and whether the file is in place at the receiver.  Delivered implies
saved; rejected, expired and cancelled imply never saved; only *failed* leaves
it open.  `FileTransfer` is one offer end to end, one action for every step of
the sending CLI, `Files::send`, `receive_offer` and its watcher, `reject`,
`accept` and the receiving CLI.  What is abstracted:

- contents are `Size` data frames; the hash frame is the hash of what the
  sender read, and a file that grew, shrank or fails to read ends the transfer
  as it does in the code; the receiver's verification may also fail for
  reasons of its own (disk, name taken);
- frames on a connection arrive in order; when an end closes, any suffix of
  what is on its way may be lost; dropping the last handle of a connection is a
  close with the code DONE;
- the receiver's window starts when the offer arrives and the sender's when it
  is queued: the receiver may find it expired at any time after, and the sender
  only later;
- the limit per peer, ids and history belong to several offers and are in
  `Offers`.

### Offers

The registry of one node, with as many offers as there are connections and ids.
Every action is one critical section of the registry's lock: a task of
`receive_offer` connects (`Connect`), reserves a place (`Admit`), tells the sender
(`Queued`, `NotQueued`), lists the offer (`Link`) and watches it (`WatchClosed`,
`WatchExpired`); commands take it (`Take`), look (`Look`) and make offers (`Send`).
`linked` is the `link` that a reservation does not have yet.  Frames and contents
are left out; what one offer does to both ends is `FileTransfer`'s.  A connection
is closed when the task and the answer that hold it are over, or by either end.
The clock is discrete; `clamp_ttl` and the history's length are the code's, with
small constants.  Reading the history is what prunes it, as in the code: a
command does, the tasks do not.

### Resolver (with MCResolver)

Where the resolver listens (`BindLoopback`, `BindMesh`, `BindFails` with
`BIND_ATTEMPTS`) and what each loop answers.  A query is a set of questions, a
question a label, a scope (the flat form, a network's label, or neither) and a
type.  The three reads of the membership are three actions, and the membership
changes in between through the operators of `Membership`, extended by the
network's name.  Which name stands for which address is `Named`: the fallback and
then the hostname of each member, first entry wins.  An address stands for its
node.  `seen` is history: every view of the membership between the query and its
reply, which is what the properties compare the reply with.  A loop is a record
whose fields are what it has read so far (`Loop`).  The specification is called
`ResolverSpec`, and its parts likewise, because `DnsProofs` reads this module and
`Registration` together.  `MCResolver` has two
kinds of rosters: what a coordinator running this code can send
(`HonestRosters`), and any (`AnyRosters`), for the claim about fallbacks.

### Host

One machine: what is on disk (key, settings, the two binaries), the service
manager's unit and job, the daemon's process from its key to its socket to its
end, one IPC command per user, one service command, one update.  `platform` is
chosen in `Init`; where systemd and the SCM differ, the action says so:

- systemd restarts in one job, the SCM is told to stop, waited for and told to
  start; systemd revives after any failure, the SCM after an end that was not
  reported (`Revived`); `TimeoutStopSec` is systemd's only;
- systemd counts how often it started a unit (`starts`) and, once there are
  `StartLimit` starts in one interval, gives the unit up: a revival, the start after a
  stop and a plain `systemctl start` are refused (`MayStart`).  `reset-failed`, which
  `start`, `restart` and the installer call first, forgets the count; the installer's
  recovery after a failure (`Finish`) does not call it.  The end of the interval
  (`IntervalOver`) may come at any time.  The SCM has no such limit;
- a unit that systemd is stopping is not active any more, and a start is queued
  behind the stop (`StartAfter`); quixd tells the SCM that it runs until it has
  stopped;
- on Unix a key file has its mode from the start; on Windows it is restricted
  between its making and its writing;
- a refused command is repeated elevated on Windows, with a prompt that may be
  declined, and so is an update without privileges; nobody has to answer it;
- the operator is set by the daemon at the end of an installation on Unix, and
  written into the settings before the start on Windows.

What the daemon does for the mesh is left out; a command is done once or not at
all, and the requests are four kinds (`Do`), as authority and elevation tell them
apart.  A file write is two steps, truncation and contents, where a crash can
come between: the key's (`CreateKey`, `WriteKey`), the daemon's of the settings
(`SetOperator`, `Saved`) and the Windows installer's (`Configure`, `WriteOperator`).
Commands the daemon has taken go on while it shuts down; what is under way when the
process ends fails.  `acked`, `named`, `done`, `old` and `kept` are history.

### Registration

The registration of the zone with the system's resolver: the first attempt while
the daemon starts, the task that retries, the stop.  Registering is a sequence
of child processes, and each is an action: on Unix `resolvectl status`, `dns`,
`domain`; on Windows a clearing whose outcome is ignored and the adding of a
rule.  `platform` is chosen once, in `Init`.  A command that fails may have made
its change, a command may hang, and the change of one whose client was killed
may still be made later (`strays`), also into the life of the next daemon.  On
Unix everything belongs to the interface and goes with it; on Windows it stays
in the registry.  The probe is its outcome; the retry counter keeps a width
(`Bits`, with `MaxCount` the largest value it holds: `WidthAssumption`), and the wait
is computed from it as `delay` does.  Others
changing the settings while the daemon runs is a known gap of the code
(`ROADMAP.md`) and left out.  `last` and `left` are history: why the last attempt
failed, and that an earlier run may have left something behind.

## Runs

Deadlock checking is off because every system here may come to rest.  Every module
has its type invariant `TypeOK`.  The runs check it where it relates parts of the
state: `host`, a process exactly while the service manager knows of one.  All of them
are proved (`Resolver` calls its own `ResolverTypeOK`); that of `Links` says as well
that one side of each pair dials.

| Run | Instance | Shows |
|---|---|---|
| `control_plane` | 3 nodes, 1 token, one hostname with its variations, 2 join attempts, 3 commands, from nothing, from networks of 2 and 3, and from two networks side by side with an invite handed out | every node's names belong to those it lists under them; a node in a network lists itself and, but for one race, its coordinator; bindings never move to a third party; a joiner ends with the name it was told; every task ends |
| `invites` | 1 coordinator, 2 peers, 1 token, windows asked 0 and 9 with a limit of 2, clock 0..1, 2 networks, 2 requests under way at a time, failing saves | single use, admission only in the window and network of the code, durability of what was acknowledged but for the pushes above |
| `links` | 2 nodes, 2 connections, 1 roster change, 1 fault, 1 packet, fairness | no dead entry in the table; a change reaches routes and the system; members that stay listed end up linked for good |
| `file_transfer` | 1 data frame, 1 fault, fairness | refinement of `Offer`; offers wait only from members and are made only to members; the list is settled when the task is gone; every offer ends |
| `registration` | 3-bit counter that reaches its end, waits 1 to 6, 2 faults, both platforms, any number of runs, fairness | an orderly stop leaves nothing registered; status claims no more than is there; waits never shrink; a stop reaches its removal even if a command hangs; the task never gives up |
| `offers` | 1 peer with a share of 1, 2 connections, 2 ids, 1 offer of its own, windows asked 0 and 9 with a limit of 2, history 1, clock 0..2, 1 roster change, fairness | the limit; every place has a task that will give it back; ids are unambiguous; history lasts; no late watcher buries an offer that is not its own; a full share frees itself |
| `resolver` | 2 nodes, 1 hostname, 2 networks, 1 mesh address with 2 attempts, 3 changes, 1 query of 1 or 2 questions | an answer was true at a moment of the query; what was true throughout is not denied; NOERROR has a reason |
| `host` | 2 users, both platforms, 2 releases, 2 commands, 1 fault, a start limit of 1, fairness | the key is private and stays; operators are named, hold and are kept; commands are done once; restarts and updates run what they say; the service comes back or its manager gave up; commands return or wait at a prompt |

Why the bounds are enough for the cases of interest.  Three commands from an
established network of three are the longest of the known races (a change, a
second one that overtakes it, and a change of network in between); from nothing
they cover create, invite and join; the two networks side by side (`SideBySideInit`)
are there for a node that moves from its own network to another in the middle of a
command.  One token is enough because codes are
independent but for their token, and one token already meets two redeemers, two
networks, a restart and both outcomes of a save.  Two requests under way are a check and
whatever overtakes it.  With a clock 0..1 the run has 868 thousand states; a window of
one second is granted, runs out and is stepped back into, and one of two seconds is
not outlived; with 0..2 it passes too (2.2 million states).  Two connections are what a
duplicate needs, and a connection whose ends are idle is used again.  One data
frame tells an empty, a truncated and a complete transfer apart.  A share of one
with two connections and two ids is the smallest that has offers compete for a
place and an id come back; with two peers `Offers` passes too (4.2 million states,
safety only).  Three changes during one query can move a node out of a network,
into another and rename it; loops share nothing but the membership, so one query
at a time is enough.  Two commands and a fault put a crash or a
reboot between any two steps of an update, a restart and a set-operator in `Host`,
whose safety is proved for any number of both.  A start limit of 1 with an interval
that may end at any time makes one crash enough for both outcomes: a revival after
the interval, and a unit given up.  systemd's own default is five starts in ten
seconds, which revivals five seconds apart (`RestartSec=5s`) do not reach by
themselves; a machine may be configured with others, and `service_manager.rs:91`
reckons with it.  With a limit of 2, `Host` passes with one fault (265 thousand states) and,
without `CommandsReturn`, with two (557 thousand states).  With two faults
FileTransfer passes too (807 thousand states, about four minutes); one is kept so that
the run stays short.  The bound counters (`commands`, `changes`, `faults`,
`requests`, `sends`, `rosters`, `queries`) are in the guards of what users and the environment do and never in
those of a task's next step.

The saturation of the shift and of the counter of `Registration` are reached with
three bits as with 32, and two faults allow a command that hangs in one run and a
daemon that is killed in another.

### Where the code and its own words disagree

Each of these runs checks one sentence of a comment or a document, and TLC finds
the behaviour that breaks it.

| Run | Said | Done |
|---|---|---|
| `coordinator_admits` | only the coordinator rewrites our roster (`admin.rs:238`) | check and apply take the lock separately: a roster checked before a `create` is applied to the new network |
| `mesh_connects` | the dialer keeps the mesh connected (`mesh.rs:149`) | a link's task unregisters by peer, so the end of an old link removes its successor's entry; the other side keeps its own and refuses every new dial as a duplicate |
| `removed_is_cut` | a roster change closes the link to anyone no longer listed (`peers.rs:40`) | a peer removed between the check and the registration of its link is registered afterwards and stays served |
| `fallback_own` | no roster can point a fallback at a different key (`names.rs:14`) | hostnames of a pushed roster are not validated, and the first entry with the label wins |

Two of them have a theorem about how far the claim does hold.  `OnlyTheRaceAdmits`:
apart from redeemed invites, nothing but a push that was let in while somebody else
was the coordinator adds to a coordinator's roster, so the interleaving above is the
only one.  `FallbacksAreOwn`: if every roster that comes in holds validated names and
no two ids share a fallback, a record for a fallback names its node, so what is
missing is that validation.

Six more are stated in the modules, under "What comments say" or beside it; TLC
finds each violated when the property is put into the component's cfg:

| Property | Said | Done |
|---|---|---|
| `KickedStaysOut` (ControlPlane) | a kick misses only members that were offline (`ROADMAP.md:174`) | an older push arriving later lists the kicked peer again |
| `JudgedIsSpent` (Invites) | a refused code is spent (`README.md:213`) | the refusal is not saved; a restart brings the code back |
| `PushKeepsMembers` (Invites) | only the coordinator rewrites our roster (`admin.rs:238`) | the race of `coordinator_admits`, seen from a member it drops: an acknowledged admission is lost from memory and disk |
| `SenderIsCutOff` (FileTransfer) | a sender removed mid-transfer is cut off (`files/mod.rs:99`) | between leaving `incoming` and entering `receiving` nothing finds it |
| `StatusTells` (Registration) | a machine without a resolver reads as that and not as retrying (`README.md:284`) | only the first failure is reported: unreachable first, then no resolver, reads as retrying for ever |
| `ComesBackAlike` (Host) | the SCM's failure actions match `Restart=on-failure` (`install.ps1:420`) | a start that fails on Windows is an end the service reports, which the SCM does not count as a failure: it stays down |

Seen in the models as well, with nothing stated for them.  The mesh:

- a name taken while the coordinator was unreachable is not reconciled by the next
  push, as `ipc.rs:356` says it is (`ROADMAP.md` knows of it);
- two live connections of which each end keeps a different one until one is lost
  (`mesh.rs:183`); two overlapping refreshes, of which the older is applied last
  (`state.rs:125`); a system route whose installation failed is not tried again
  until the roster changes (`routes.rs:48`);
- a kick, or the removal of a member that leaves, is checked against the network the
  node coordinates and applied to the one it is in by then: a node that has joined
  the peer's network meanwhile drops its own coordinator from its roster until the
  next push (`ipc.rs:410`, `admin.rs:216`); `SelfListed` names the exception;
- a node that forces a name which is its own fallback and also that of a member whose
  id begins alike takes it from that member and is then granted a numbered one
  (`membership.rs:330`);
- `create` keeps the bindings of an earlier network (`membership.rs:209`); a
  last-resort name is not looked up before it is given (`names.rs:142`);
- "snapshot it once per query" (`dns.rs:244`) is three snapshots: a reply may
  combine the names of one roster with the members of the next.

Files:

- Ctrl+C after the file is in place still says that nothing was saved
  (`receive.rs:110`);
- offers removed by a roster change are not among those whose end is remembered
  (`files/mod.rs:102`), and a new id may be that of a transfer still being
  received (`files/mod.rs:243`).

The machine:

- on Windows the next start clears a stale DNS rule only if its probe is answered
  (`registration.rs:160` promises it of any start);
- settings that cannot be read do not stop the daemon, as `settings.rs:47` says:
  `State::new` goes on without an operator (`state.rs:51`), and the next update
  then makes whoever runs it the operator (`install.sh:10` says an update never
  does);
- an operator whose save failed stays in force until a restart although the caller
  was told it failed (`state.rs:331`);
- a key file cut short by a crash, or left empty because restricting it failed,
  keeps the daemon from ever starting (`identity.rs:19`);
- `quix service stop` while a revival is pending says "already stopped", and the
  service comes back (`service.rs:55`);
- an update that fails between its two renames leaves the old `quixd` under the new
  `quix`, whose next update says it is up to date (`update.rs:42`);
- the Windows installer that waited in vain for a stop finds the service running,
  starts nothing, and the service then stops (`install.ps1:475` promises otherwise);
- after a failed installation the service stays down if systemd's start limit was
  reached: `finish` starts it without `reset-failed` (`install.sh:82`, against its own
  line 73).

## Fairness

- `ControlPlane`: weak fairness of task steps.  The runtime polls every task,
  and waiting for an answer ends with the connection's idle time-out.  Commands
  and the delivery of requests are not fair.
- `Links`: weak fairness of refreshes, the dialer's two branches, a dial's
  outcome, the steps of a link's task, and the end of the read loop of a dead
  connection (QUIC's idle time-out).  Not of packets, losses and restarts.
- `FileTransfer`: weak fairness of each task and CLI, of noticing a close or a
  dead connection, and of the passing of the offer's window.  Not of users,
  faults and rosters.
- `Offers`: weak fairness of the clock and of each connection's task.  Nobody has
  to answer, list or withdraw.
- `Host`: weak fairness of the daemon's steps, of `TimeoutStopSec` and the revival,
  of each command's steps and limits.  Users, crashes and releases owe nothing, nor
  does the end of systemd's interval.  Nobody has to approve or decline a prompt: the
  steps that answer one (`Approve`, `Decline`, `Privileged`, `Declined`) have no
  fairness, so `CommandsReturn` lets a command wait there for ever.  The command line
  waits for the daemon's answer without a limit (`client.rs:32`); that the wait ends is
  due to the handler, whose steps are fair here because every handler ends (`TasksEnd`
  of `ControlPlane`, `OfferEnds` of `FileTransfer`), or to the end of the daemon.
- `Registration`: weak fairness of the task (probes have a time-out, commands that
  do not hang end), of the limit on stopping and of what follows the task's end.
  That an attempt made over and over works at last is no fairness of the code
  but the premise of `RegistersAtLast` (`Cooperative`).  Users, faults and
  Windows' service manager owe nothing.

## Proofs

Every theorem holds for all values of the constants that satisfy the named
assumptions of the component's module (which TLC evaluates on every run), and the
bounds are among the constants: any number of nodes, commands, faults, messages.
Inductive invariants were checked by TLC before they were proved.

`MembershipProofs` has the lemmas about the operators of `Membership`, in three
groups: each maps well-formed memberships to well-formed ones; each leaves listed
names with the keys that own them (`Owned`), a claim because what it is granted is
free (`DedupeFree`), a pushed roster because a name goes to its owner or, if it has
none, to the first that carries it (`OwnerAfter`); and each gives nobody the last
resort of another node (`ResortsFit`).

`ControlPlaneProofs` proves, with any number of nodes, commands and messages in any
order:

- `TypeCorrect`: `Spec => []TypeOK`;
- `ListsItselfAlways`: `Spec => SelfListed`;
- under `OrdinaryNames` and `DistinctFallbacks`, `OrdinaryNamesOwned` (`Spec =>
  []NamesOwned`), `OrdinaryNamesStick` (`Spec => BindingsStick`) and
  `OrdinaryJoinersNamed` (`Spec => JoinerHasItsName`);
- `OnlyTheRaceAdmits`: `Spec => AdmitsOrRaces`, the part of `CoordinatorAdmits` that
  the code keeps.

The inductive invariant `ControlInv` adds to the types what is true of everything
under way (`Underway`): nobody asks to remove itself, and a name shaped like a
fallback is only asked for by, and granted to, its owner.  `EveryMemStep` is the
hinge: every step of `Next` leaves all memberships alone or changes one of them in
one of nine ways (`MemChange`), so that each property is a lemma per operator of
`Membership` and no longer one per action.  On top of it:

- for `SelfListed`, `SelfIn`: a node with a coordinator lists itself.  The proof
  attempt found the case where it does not list its coordinator, which three commands
  from one network do not reach; the run now starts from two networks as well;
- for `NamesOwned`, `Owned` of every membership.  It is kept as long as no claim is
  driven to a last resort that another node owns, since `dedupe` grants it without
  looking (`NamesLeft`; `NamesStayOwned`, `BindingsAlwaysStick` and
  `JoinersGetTheirNames` are the theorems under that premise);
- for `NamesLeft` itself, `ResortsKept`: no membership, no answer, no push under way
  and none being applied has anybody under another node's last resort
  (`NamesNeverRunOut`).  This is where users must type ordinary names: a name that
  ends in another's fallback can be had, and is taken once its 9999 variations are;
- for `JoinerHasItsName`, `JoinersNamed`: an answer on its way lists its joiner, and
  nobody else, under the name it tells; joining forgets the old bindings first, so
  nothing contests it;
- for `AdmitsOrRaces`, `NetChange` and `AdmitInv`.  A step leaves a node's network as
  it is and adds nobody, or ends a redemption or an application of a push, or begins a
  network, or ends one.  A network that begins is a new one, because networks are
  numbered in the order of their making and no membership has a later number
  (`NetsFit`); a push is not admitted by the coordinator it is sent from, because
  nobody joins itself or pushes to itself (`JoinsFit`, `PushesFit`).

`DistinctFallbacks` is needed: a forced claim of one's own fallback can otherwise
release a name that another member keeps.  `MCControlPlane` assumes both hypotheses,
so TLC confirms that the run's instance satisfies them.

`LinksProofs` proves, for any nodes, connections and numbers of changes, faults and
packets, `TypeCorrect` (`[]TypeOK`), `EntryIsServed` (`[]EntryServed`) and
`ChangeCarriedThrough` (`[]RefreshApplies`).  An entry stays served because whoever
ends a connection's task unregisters its peer in the same breath as its own state
goes back to idle; that needs that a task's connection really leads to a peer
(`EndsAreTwo`) and that nobody lists, routes to or dials itself (`PeersAreOthers`).
`RefreshApplies` speaks of the moment no refresh is under way; `OneRefresh` follows
the one refresh there is and says how far it has carried the roster, table by table,
and that all other nodes' tables agree with their rosters.

`FileTransferProofs` proves, for any file size and any number of faults, `TypeCorrect`,
`EntrySettles` (`[]EntrySettled`), `WaitsFromMember` (`[]WaitingFromMember`),
`OffersToMember` (`[]OfferedToMember`), and `TransferKeepsPromise`: `Spec =>
KeepsPromise`, the refinement of `Offer`.  The types alone need `OfferFirst` (an offer
is the first frame on the wire, and nothing happens at the receiver before it is
read) and `Begun`.  For the refinement, initial states map to initial states and every
step maps to a step of `Offer` or a stutter, given `PromiseInv`:

- `TaskState`: where the sending task is says what the list shows;
- `EndSent`: an end frame on the wire or at the receiver, or a saved file, means that
  the sender has sent all and shows the offer as under way, failed or forgotten, or
  done: it is too late to reject, expire or cancel;
- `CommitSaved`: a commitment anywhere between the receiving command line and the
  sender, or a delivery reported, means that the file is saved;
- `SavedOnce`: a receiving command line that is not done has not saved.

Each of them follows a frame along four queues, so `EveryStep` first says what any
step may do to those (`FrameStep`, `SaveStep`) and `SenderSteps` what it may do to the
sender, and the invariant is proved from these alone.

`InvitesProofs` proves, for any nodes, tokens, windows, clock and number of
networks:

- `TypeCorrect`: `Spec => []TypeOK`;
- `SingleUse`: `Spec => []OneAdmission`;
- `InWindow`: `Spec => []AdmittedInWindow`;
- `Durable`: `Spec => []AckedSurvives`.

None of the last three is inductive.  That a code admits once rests on what is
*pending* in memory and in the file, on what concurrent requests are about to
do, and on what a restart may bring back.  The inductive invariant `Inv` adds:

- `CodesFit`: a pending invite, in memory or in a readable file, has the network
  and expiry of the code handed out, is not the token of an invite still being
  minted, and has admitted nobody.  The file is the point: a crash between
  redeeming and answering brings a code back only if nobody was told of its use;
- `TasksFit`: a mint under way has a fresh token no other one has; a redemption
  under way presents a code that was handed out;
- `WindowsFit`: no window exceeds the limit;
- `AckedFits`: an acknowledged code has not expired (`SetClock` drops those that
  have).

What `Durable` says of pushes is exact: `DoApply` takes from `acked` the admissions that
the roster applied leaves out and no others, so everything a push lists, every
code, and everything else in the file is still covered (`ApplyEffect`, `LossStep`).
`InvStep` has one step per action; beginning a request, applying a push, minting,
refusing and admitting are lemmas of their own.

`DnsProofs` has both halves of the DNS.  Of `Resolver` it proves, for any nodes, names,
networks, questions, mesh addresses and number of changes, queries and loops,
`ResolverTypes` (`[]ResolverTypeOK`), `AnswersAreHeld` (`[]AnswerHeld`) and
`DenialsAreHonest` (`[]DenialHonest`).  The two properties speak of replies and say
nothing of a reply being put together, so `ResolverInv` says of every loop under way:

- the membership as it is now is among the views it has `seen`;
- what it has read was there at some moment since its query came, the hostnames in one
  view (`HostSeen`), the members in another (`MembersSeen`);
- in each of those views, as in the membership itself, only members have hostnames
  (`Listed`).  This is the reason why two locks are enough.  Members read later than
  the names decide who is answered for, and somebody who is a member by then need not
  have been when the names were read; but who had a hostname in the earlier view was a
  member in that very view, and who goes by a fallback does so in the later one.

`Listed` has a lemma for every operator of `Membership`: a roster keeps the names of
its entries only.  The proofs use that no question asks about the absence of a name
(`QueryAssumption`) and that rosters are well formed (`RosterAssumption`), not that
they are honest.  `FallbacksAreOwn` proves `[]FallbackOwn` under `DistinctFallbacks` and
`ValidatedRosters`; its invariant is that whoever has a hostname shaped like a fallback
has its own (`HexOwn`), in the membership and in what each loop has read.  `validate`
sees to that for what this node grants, and `dedupe` never makes such a name.

Of `Registration`, for any widths, limits and number of faults, it proves
`RegistrationTypes` (`[]TypeOK`), `ZoneHandedBack` (`[]HandedBack`),
`StatusIsHonest` (`[]StatusHonest`) and `WaitsBackOff` (`Spec => BackOff`).  `HandedBack` speaks of a daemon that is
down, so its invariant has to follow the settings from where they are made:
`SysFits` says that whatever the system holds was put there by this run and is
marked by `attempted`, which is set before the first command and not after the
last, and that abandoned commands exist only while stopping; `TaskFits` says
where a task can be.  Both hold unless an earlier run left something behind
(`Sound`).  `BackOff` needs that powers of two do not shrink, which would be an
induction; instead `PowersGrow` counts subsets: `2 ^ n` is how many `1 .. n` has, and
those of `1 .. m` are among them.  That the saturated shift is at least any shift below
it is `WidthAssumption`.

`OffersProofs` proves, for any peers, ids, connections, limits and clock,
`OffersTypes`, `OffersWithinLimit`, `OffersPlaceHeld`, `OffersIdsDistinct` and the
action properties `OffersRemembered` and `OffersBuriedWhenOver`.  The inductive invariant joins them, because
they lean on each other: that removing an id frees only the place of its own task
needs `PlaceHeld`, which needs that a fresh id is in no table, which is
`IdsDistinct`.  Two parts are only there for the induction: `Counted`, the finite
set whose cardinality `WithinLimit` speaks of, so that adding one offer adds one;
and `HistoryFits`, that an outgoing offer has an end time only once it has ended.
`OffersBuriedWhenOver` rests on `PlaceHeld` and on `WindowFits`: a task and the offer
it looks after have the same end of their window.

`HostProofs` proves, for any users, releases and number of commands and faults and
either platform, every invariant of the run and `IdentityKept`.  None but `TypeOK`
is inductive.  The parts of `Inv`:

- `KeyFits`: while a key is being made the file is short, and private before the
  bytes go in; a process past its key has the one on disk;
- `OperatorFits`: a command under way has a daemon that serves it and has done
  nothing before it was judged, and one that is allowed to name an operator comes
  from an administrator or from somebody named (`CallFits`); between the two halves
  of a save the file is cut short, nothing is acknowledged, the new operator is in
  force and no other save is under way (`SaveFits`); an acknowledged operator is in
  the file (`HoldFits`), and so is the one an update found (`KeptFits`); while the
  Windows installer writes, the file is cut short (`WritingFits`);
- `RestartFits`: a restart that is past its stop, or whose job the manager has
  forgotten, does not find the process it was asked about;
- `UpdateFits`: how far the installer is says which binaries are in place, and that
  the process is of the new release once the restart is over.

Each part is kept by every step under `TypeOK`, and has lemmas per group of actions
(the daemon, commands, service commands, the update).

Every invariant and every action property of the runs is a theorem.  Only
model-checked: all liveness (`TasksEnd`, `MeshConnects`, `OfferEnds`, `StopCleansUp`, `RegistersAtLast`,
`PlaceFrees`, `ComesBack`, `CommandsReturn`): fairness and ENABLED are out of TLAPS's
reach.

## Not modelled

Packets and per-packet errors, the DNS packet codec, the TUN device, logging and
statistics, argument parsing and printing: I/O and text without decisions of their
own.  The rules for file names are a pure check of strings, whose outcome is a
choice in `FileTransfer` and `Offers`.  Of Windows identity and ACLs only the outcomes
are modelled (`Host`), of the scripts only what an update makes them do.  Queries
(`status`, `ping`) change no state.  What other programs do to the resolver's
settings, the key or the service while the daemon runs is left out, but for the
service manager's own actions.  So is a power loss that takes back what was written:
neither `settings.rs:59` nor `membership.rs:194` syncs its file, and a reboot in the
models keeps it.  A handle that somebody opened on the key file before it was
restricted is left out too.  `PROJECT.json` gives the reason for each component.

## Plan

What is left are the properties the code breaks, four with a run of their own and
six stated beside their components.  Each would become a property of its component's
run, and a theorem, once the code is changed; `OnlyTheRaceAdmits` and
`FallbacksAreOwn` say for two of them which change that is.
