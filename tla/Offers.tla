-------------------------------- MODULE Offers --------------------------------
(***************************************************************************)
(* The offer registry of one node (daemon/src/files/mod.rs) with many      *)
(* offers in it: the tasks of receive_offer, one per connection, that      *)
(* reserve, list and watch the offers peers make; accept and reject, which *)
(* take them; the offers this node makes; the history both leave behind.   *)
(*                                                                         *)
(* FileTransfer follows one offer through both daemons.  Here the frames   *)
(* are left out and the offers compete: for the places a peer has, for     *)
(* ids, and with a roster that changes under them.  Every action is one    *)
(* critical section of the registry's lock.                                *)
(***************************************************************************)
EXTENDS Integers, FiniteSets

CONSTANTS
  Peer,       \* the other nodes
  Id,         \* offer ids
  Conn,       \* connections peers open to offer a file, each used once
  Limit,      \* MAX_PENDING_PER_PEER
  MaxTtl,     \* MAX_FILE_TTL
  Asked,      \* windows that senders ask for
  History,    \* how long an offer that ended is remembered
  MaxTime,    \* bound: the clock
  MaxSends,   \* bound: offers this node makes
  MaxRosters  \* bound: roster changes

ASSUME LimitAssumption == Limit \in Nat \ {0}
ASSUME WindowAssumption ==
  MaxTtl \in Nat \ {0} /\ Asked \subseteq Nat /\ History \in Nat \ {0}
ASSUME OfferBoundAssumption ==
  MaxTime \in Nat /\ MaxSends \in Nat /\ MaxRosters \in Nat

VARIABLES
  clock,
  roster,     \* members other than this node
  incoming,   \* incoming[id]: an offer reserved or waiting here
  outgoing,   \* outgoing[id]: an offer this node made
  receiving,  \* receiving[id]: the connection of an accepted transfer
  gone,       \* gone[id]: when an offer ended unanswered
  task,       \* task[c]: the task of receive_offer for connection c
  answer,     \* answer[c]: the task that answers the offer of c
  closed,     \* connections closed by either end
  sends, rosters   \* what happened, against the bounds

vars == <<clock, roster, incoming, outgoing, receiving, gone, task, answer,
          closed, sends, rosters>>
tables == <<incoming, outgoing, receiving, gone>>
bounds == <<sends, rosters>>

Time == 0..MaxTime
Never == -1

\* `linked' is what `link.is_some()' says: the sender was told it is queued.
Incoming == [peer : Peer, conn : Conn, expires : 1..MaxTime, linked : BOOLEAN]
Outgoing == [peer : Peer, state : {"offered", "transferring", "finished"},
             finished : Time \cup {Never}, conn : BOOLEAN]

\* A task has a peer once it runs, an id and a window once its offer is in.
Idle == [pc |-> "idle"]
Over == [pc |-> "over"]
Task == {Idle, Over} \cup [pc : {"reading"}, peer : Peer]
          \cup [pc : {"queueing", "linking", "watching"}, peer : Peer, id : Id,
                until : Nat]
Answer == {Idle, Over}
            \cup [pc : {"taken", "receiving", "rejecting"}, peer : Peer, id : Id]

TypeOK ==
  /\ clock \in Time
  /\ roster \subseteq Peer
  /\ DOMAIN incoming \subseteq Id
  /\ \A id \in DOMAIN incoming : incoming[id] \in Incoming
  /\ DOMAIN outgoing \subseteq Id
  /\ \A id \in DOMAIN outgoing : outgoing[id] \in Outgoing
  /\ DOMAIN receiving \subseteq Id
  /\ \A id \in DOMAIN receiving : receiving[id] \in Conn
  /\ DOMAIN gone \subseteq Id
  /\ \A id \in DOMAIN gone : gone[id] \in Time
  /\ task \in [Conn -> Task]
  /\ answer \in [Conn -> Answer]
  /\ closed \subseteq Conn
  /\ sends \in 0..MaxSends
  /\ rosters \in 0..MaxRosters

Empty == [id \in {} |-> Never]

Init ==
  /\ clock = 0
  /\ roster = Peer
  /\ incoming = Empty /\ outgoing = Empty /\ receiving = Empty /\ gone = Empty
  /\ task = [c \in Conn |-> Idle]
  /\ answer = [c \in Conn |-> Idle]
  /\ closed = {}
  /\ sends = 0 /\ rosters = 0

-----------------------------------------------------------------------------
(* The registry *)

Put(table, id, entry) ==
  [i \in DOMAIN table \cup {id} |-> IF i = id THEN entry ELSE table[i]]
Keep(table, ids) == [i \in DOMAIN table \cap ids |-> table[i]]
Remove(table, id) == Keep(table, DOMAIN table \ {id})

clamp_ttl(asked) ==
  IF asked < 1 THEN 1 ELSE IF asked > MaxTtl THEN MaxTtl ELSE asked

\* Mutant: an id is free as soon as nothing is waiting under it.
IdsFreeAtOnce == Id \ (DOMAIN incoming \cup DOMAIN outgoing)

\* The ids new_id may draw.
new_id == Id \ (DOMAIN incoming \cup DOMAIN outgoing \cup DOMAIN gone)

\* Mutant: a reservation does not count.
WaitingLinked(p) ==
  {id \in DOMAIN incoming : incoming[id].peer = p /\ incoming[id].linked}

Waiting(p) == {id \in DOMAIN incoming : incoming[id].peer = p}

\* Mutant: whatever ended is forgotten with the next command.
RecentNothing(at) == FALSE

Recent(at) == clock - at < History

KeptOutgoing ==
  {id \in DOMAIN outgoing :
     outgoing[id].finished # Never => Recent(outgoing[id].finished)}

\* What is left of the history when a command looks at the registry.
ForgetHistory ==
  /\ gone' = Keep(gone, {id \in DOMAIN gone : Recent(gone[id])})
  /\ outgoing' = Keep(outgoing, KeptOutgoing)

-----------------------------------------------------------------------------
(* receive_offer *)

\* The task returns; the connection closes with its last handle, which the
\* task that answers may hold.
Ends(c) ==
  /\ task' = [task EXCEPT ![c] = Over]
  /\ closed' = IF answer[c] \in {Idle, Over} THEN closed \cup {c} ELSE closed

\* A peer connects; whoever is no member is turned away at once.
Connect(c, p) ==
  /\ task[c] = Idle /\ p \in roster
  /\ task' = [task EXCEPT ![c] = [pc |-> "reading", peer |-> p]]
  /\ UNCHANGED <<clock, roster, tables, answer, closed, bounds>>

\* The offer is read and admitted, under one lock.
Admit(c, asked, id) ==
  /\ task[c].pc = "reading"
  /\ LET p == task[c].peer
         until == clock + clamp_ttl(asked)
     IN  /\ p \in roster
         /\ Cardinality(Waiting(p)) < Limit
         /\ until <= MaxTime
         /\ id \in new_id
         /\ incoming' = Put(incoming, id,
              [peer |-> p, conn |-> c, expires |-> until, linked |-> FALSE])
         /\ task' = [task EXCEPT ![c] =
              [pc |-> "queueing", peer |-> p, id |-> id, until |-> until]]
  /\ UNCHANGED <<clock, roster, outgoing, receiving, gone, answer, closed,
                 bounds>>

\* No offer came, its name is not allowed, or there is no place for it.
Refuse(c) ==
  /\ task[c].pc = "reading"
  /\ Ends(c)
  /\ UNCHANGED <<clock, roster, tables, answer, bounds>>

Queued(c) ==
  /\ task[c].pc = "queueing" /\ c \notin closed
  /\ task' = [task EXCEPT ![c].pc = "linking"]
  /\ UNCHANGED <<clock, roster, tables, answer, closed, bounds>>

\* Mutant: the reservation stays when the sender cannot be told.
NotQueuedKeeps(c) ==
  /\ task[c].pc = "queueing"
  /\ Ends(c)
  /\ UNCHANGED <<clock, roster, tables, answer, bounds>>

\* The sender cannot be told: the place is given back.
NotQueued(c) ==
  /\ task[c].pc = "queueing"
  /\ incoming' = Remove(incoming, task[c].id)
  /\ Ends(c)
  /\ UNCHANGED <<clock, roster, outgoing, receiving, gone, answer, bounds>>

\* Mutant: the task waits for the sender to close, and for nothing else.
LinkForEver(c) ==
  LET id == task[c].id
  IN  /\ task[c].pc = "linking"
      /\ IF id \in DOMAIN incoming
         THEN /\ incoming' = [incoming EXCEPT ![id].linked = TRUE]
              /\ task' = [task EXCEPT ![c].pc = "watching",
                                      ![c].until = MaxTime + 1]
              /\ UNCHANGED closed
         ELSE Ends(c) /\ UNCHANGED incoming
      /\ UNCHANGED <<clock, roster, outgoing, receiving, gone, answer, bounds>>

Link(c) ==
  LET id == task[c].id
  IN  /\ task[c].pc = "linking"
      /\ IF id \in DOMAIN incoming
         THEN /\ incoming' = [incoming EXCEPT ![id].linked = TRUE]
              /\ task' = [task EXCEPT ![c].pc = "watching",
                                      ![c].until = incoming[id].expires]
              /\ UNCHANGED closed
         ELSE Ends(c) /\ UNCHANGED incoming
      /\ UNCHANGED <<clock, roster, outgoing, receiving, gone, answer, bounds>>

\* Mutant: whatever waits under the id by now is taken.
MineById(c) == task[c].id \in DOMAIN incoming

\* bury_incoming takes only the offer this connection made.
Mine(c) == task[c].id \in DOMAIN incoming /\ incoming[task[c].id].conn = c

Bury(c) ==
  IF Mine(c)
  THEN /\ incoming' = Remove(incoming, task[c].id)
       /\ gone' = Put(gone, task[c].id, clock)
  ELSE UNCHANGED <<incoming, gone>>

WatchClosed(c) ==
  /\ task[c].pc = "watching" /\ c \in closed
  /\ Bury(c) /\ Ends(c)
  /\ UNCHANGED <<clock, roster, outgoing, receiving, answer, bounds>>

WatchExpired(c) ==
  /\ task[c].pc = "watching" /\ clock >= task[c].until
  /\ Bury(c) /\ Ends(c)
  /\ UNCHANGED <<clock, roster, outgoing, receiving, answer, bounds>>

-----------------------------------------------------------------------------
(* Commands *)

Answerable(id) ==
  /\ id \in DOMAIN incoming
  /\ incoming[id].linked /\ incoming[id].expires > clock

\* take_answerable, for `quix file accept' and `quix file reject'.
Take(id, how) ==
  /\ Answerable(id)
  /\ ForgetHistory
  /\ incoming' = Remove(incoming, id)
  /\ answer' = [answer EXCEPT ![incoming[id].conn] =
       [pc |-> how, peer |-> incoming[id].peer, id |-> id]]
  /\ UNCHANGED <<clock, roster, receiving, task, closed, bounds>>

\* `quix file list', and an answer that comes too late.
Look ==
  /\ ForgetHistory
  /\ UNCHANGED <<clock, roster, incoming, receiving, task, answer, closed, bounds>>

\* The sender is told, and the transfer can be cut off from here on.
Track(c) ==
  /\ answer[c].pc = "taken"
  /\ IF c \in closed
     THEN answer' = [answer EXCEPT ![c] = Over] /\ UNCHANGED receiving
     ELSE /\ receiving' = Put(receiving, answer[c].id, c)
          /\ answer' = [answer EXCEPT ![c].pc = "receiving"]
  /\ UNCHANGED <<clock, roster, incoming, outgoing, gone, task, closed, bounds>>

\* The transfer ends, or the rejection is told.
AnswerEnds(c) ==
  /\ answer[c].pc \in {"receiving", "rejecting"}
  /\ receiving' = IF answer[c].pc = "receiving"
                  THEN Remove(receiving, answer[c].id) ELSE receiving
  /\ answer' = [answer EXCEPT ![c] = Over]
  /\ closed' = closed \cup {c}
  /\ UNCHANGED <<clock, roster, incoming, outgoing, gone, task, bounds>>

\* `quix file send', up to the entry it lists.
Send(p, id) ==
  /\ sends < MaxSends /\ sends' = sends + 1
  /\ p \in roster
  /\ id \in Id \ (DOMAIN incoming \cup KeptOutgoing
                    \cup {i \in DOMAIN gone : Recent(gone[i])})
  /\ gone' = Keep(gone, {i \in DOMAIN gone : Recent(gone[i])})
  /\ outgoing' = Put(Keep(outgoing, KeptOutgoing), id,
       [peer |-> p, state |-> "offered", finished |-> Never, conn |-> FALSE])
  /\ UNCHANGED <<clock, roster, incoming, receiving, task, answer, closed, rosters>>

SendStep == UNCHANGED <<clock, roster, incoming, receiving, gone, task, answer,
                        closed, bounds>>

\* The offer did not get there, and is taken out again; or it did.
Deliver(id) ==
  /\ outgoing[id].state = "offered" /\ ~outgoing[id].conn
  /\ \/ outgoing' = Remove(outgoing, id)
     \/ outgoing' = [outgoing EXCEPT ![id].conn = TRUE]
  /\ SendStep

SetState(id, state) ==
  outgoing' = [outgoing EXCEPT ![id].state = state,
                 ![id].finished = IF state = "finished" THEN clock ELSE @,
                 ![id].conn = @ /\ state # "finished"]

Accepted(id) ==
  /\ outgoing[id].state = "offered" /\ outgoing[id].conn
  /\ SetState(id, "transferring")
  /\ SendStep

SendEnds(id) ==
  /\ outgoing[id].state # "finished" /\ outgoing[id].conn
  /\ SetState(id, "finished")
  /\ SendStep

-----------------------------------------------------------------------------
(* What happens around it *)

\* The sender goes away, or the connection does.
Withdraw(c) ==
  /\ task[c] # Idle /\ c \notin closed
  /\ closed' = closed \cup {c}
  /\ UNCHANGED <<clock, roster, tables, task, answer, bounds>>

\* set_roster: what belongs to somebody who is no member goes, and is closed.
SetRoster(members) ==
  LET left == {id \in DOMAIN incoming : incoming[id].peer \in members}
      on == {id \in DOMAIN receiving : answer[receiving[id]].peer \in members}
  IN  /\ rosters < MaxRosters /\ rosters' = rosters + 1
      /\ roster' = members
      /\ incoming' = Keep(incoming, left)
      /\ receiving' = Keep(receiving, on)
      /\ closed' = closed
           \cup {incoming[id].conn : id \in DOMAIN incoming \ left}
           \cup {receiving[id] : id \in DOMAIN receiving \ on}
      /\ UNCHANGED <<clock, outgoing, gone, task, answer, sends>>

Tick ==
  /\ clock < MaxTime
  /\ clock' = clock + 1
  /\ UNCHANGED <<roster, tables, task, answer, closed, bounds>>

-----------------------------------------------------------------------------
TaskStep(c) ==
  \/ Refuse(c) \/ Queued(c) \/ NotQueued(c) \/ Link(c) \/ WatchClosed(c)
  \/ WatchExpired(c)
  \/ \E asked \in Asked, id \in Id : Admit(c, asked, id)

Next ==
  \/ \E c \in Conn :
       \/ TaskStep(c) \/ Track(c) \/ AnswerEnds(c) \/ Withdraw(c)
       \/ \E p \in Peer : Connect(c, p)
  \/ \E id \in DOMAIN incoming, how \in {"taken", "rejecting"} : Take(id, how)
  \/ \E p \in Peer, id \in Id : Send(p, id)
  \/ \E id \in DOMAIN outgoing : Deliver(id) \/ Accepted(id) \/ SendEnds(id)
  \/ \E members \in SUBSET Peer : SetRoster(members)
  \/ Look
  \/ Tick

Spec == Init /\ [][Next]_vars

\* Tasks run and time passes.  Nobody has to answer, list or withdraw.
FairSpec ==
  /\ Spec
  /\ WF_vars(Tick)
  /\ \A c \in Conn : WF_vars(TaskStep(c))

-----------------------------------------------------------------------------
(* Properties *)

\* A peer never has more offers reserved or waiting here than its share,
\* however its connections, answers and roster changes interleave (mod.rs,
\* admit: "a peer firing offers concurrently cannot squeeze past the limit").
WithinLimit ==
  \A p \in Peer :
    Cardinality({id \in DOMAIN incoming : incoming[id].peer = p}) <= Limit

\* No place is taken by an offer nobody looks after: the task of its
\* connection still runs, and once the offer is listed it watches that very id
\* (transfer.rs, receive_offer: "Only the offer this connection made").
PlaceHeld ==
  \A id \in DOMAIN incoming :
    LET t == task[incoming[id].conn]
    IN  /\ t.pc \in {"queueing", "linking", "watching"}
        /\ t.id = id /\ t.peer = incoming[id].peer
        /\ t.peer \in roster

\* An id names one thing: an offer waiting here, one made here, or one that is
\* over and can still be asked about (mod.rs, new_id).
IdsDistinct ==
  /\ DOMAIN incoming \cap DOMAIN outgoing = {}
  /\ DOMAIN incoming \cap DOMAIN gone = {}
  /\ DOMAIN outgoing \cap DOMAIN gone = {}

\* What ended is remembered for its time, and what has not ended is never
\* dropped from the list: only an offer that was not delivered is taken out
\* (mod.rs, forget_history; transfer.rs, send).
Remembered ==
  [][/\ \A id \in DOMAIN gone \ DOMAIN gone' : clock - gone[id] >= History
     /\ \A id \in DOMAIN outgoing \ DOMAIN outgoing' :
          \/ outgoing[id].state = "offered" /\ ~outgoing[id].conn
          \/ /\ outgoing[id].state = "finished"
             /\ clock - outgoing[id].finished >= History]_vars

\* An offer is buried unanswered only when its own connection has closed or its
\* own window is over, although its id may have been another offer's whose task
\* still watches (transfer.rs, bury_incoming: "Only the offer this connection
\* made").
BuriedWhenOver ==
  [][\A id \in DOMAIN incoming \cap (DOMAIN gone' \ DOMAIN gone) :
       incoming[id].conn \in closed \/ incoming[id].expires <= clock]_vars

\* A peer whose share is used up gets a place again without anybody here doing
\* anything: reservations are given back and offers run out (transfer.rs,
\* receive_offer).
PlaceFrees ==
  \A p \in Peer : (Cardinality(Waiting(p)) = Limit)
                    ~> (Cardinality(Waiting(p)) < Limit)
=============================================================================
