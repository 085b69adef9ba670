----------------------------- MODULE OffersProofs -----------------------------
(***************************************************************************)
(* Proofs about module Offers, for any peers, ids and connections, any     *)
(* limit on the offers a peer may have waiting, any windows and any number *)
(* of roster changes.                                                      *)
(***************************************************************************)
EXTENDS Offers, FiniteSetTheorems, TLAPS

-----------------------------------------------------------------------------
\* A window is at least one second and never longer than the longest allowed.
LEMMA ClampRange ==
  ASSUME NEW asked \in Asked
  PROVE  clamp_ttl(asked) \in 1 .. MaxTtl
BY WindowAssumption DEF clamp_ttl

-----------------------------------------------------------------------------
(* Types *)

\* The initial states are well formed.
LEMMA TypeInit == Init => TypeOK
<1> SUFFICES ASSUME Init PROVE TypeOK
  OBVIOUS
<1>1. clock \in Time /\ sends \in 0 .. MaxSends /\ rosters \in 0 .. MaxRosters
  BY OfferBoundAssumption DEF Init, Time
<1>2. DOMAIN Empty = {}
  BY DEF Empty
<1>3. task \in [Conn -> Task] /\ answer \in [Conn -> Answer]
  BY DEF Init, Task, Answer
<1> QED
  BY <1>1, <1>2, <1>3 DEF Init, TypeOK

\* Forgetting what is old leaves well-formed tables.
LEMMA ForgetType ==
  ASSUME TypeOK, ForgetHistory
  PROVE  /\ DOMAIN gone' \subseteq DOMAIN gone
         /\ \A id \in DOMAIN gone' : gone'[id] = gone[id]
         /\ DOMAIN outgoing' \subseteq DOMAIN outgoing
         /\ \A id \in DOMAIN outgoing' : outgoing'[id] = outgoing[id]
BY DEF Keep, ForgetHistory

\* The end of a task of receive_offer.
LEMMA EndsType ==
  ASSUME TypeOK, NEW c \in Conn, Ends(c)
  PROVE  task' \in [Conn -> Task] /\ closed' \subseteq Conn
BY DEF TypeOK, Ends, Task

\* A task that holds an offer has its peer, its id and its window.
LEMMA HoldingTask ==
  ASSUME TypeOK, NEW c \in Conn,
         task[c].pc \in {"queueing", "linking", "watching"}
  PROVE  /\ task[c] \in [pc : {"queueing", "linking", "watching"}, peer : Peer,
                         id : Id, until : Nat]
         /\ task[c].id \in Id /\ task[c].peer \in Peer
<1>1. task[c] \in Task
  BY DEF TypeOK
<1> QED
  BY <1>1 DEF Task, Idle, Over

\* A task that reads has its peer.
LEMMA ReadingTask ==
  ASSUME TypeOK, NEW c \in Conn, task[c].pc = "reading"
  PROVE  task[c].peer \in Peer
<1>1. task[c] \in Task
  BY DEF TypeOK
<1> QED
  BY <1>1 DEF Task, Idle, Over

\* Every step keeps the state well formed.
LEMMA TypeStep == TypeOK /\ [Next]_vars => TypeOK'
<1> SUFFICES ASSUME TypeOK, [Next]_vars PROVE TypeOK'
  OBVIOUS
<1> USE OfferBoundAssumption DEF tables, bounds
<1>1. ASSUME NEW c \in Conn, Refuse(c) PROVE TypeOK'
  BY <1>1, EndsType DEF Refuse, TypeOK
<1>2. ASSUME NEW c \in Conn, Queued(c) PROVE TypeOK'
  <2>1. task' \in [Conn -> Task]
    BY <1>2, HoldingTask DEF Queued, TypeOK, Task
  <2> QED
    BY <1>2, <2>1 DEF Queued, TypeOK
<1>3. ASSUME NEW c \in Conn, NotQueued(c) PROVE TypeOK'
  BY <1>3, EndsType DEF Remove, Keep, NotQueued, TypeOK
<1>4. ASSUME NEW c \in Conn, Link(c) PROVE TypeOK'
  <2> DEFINE id == task[c].id
  <2>1. CASE id \in DOMAIN incoming
    <3>1. incoming[id] \in Incoming /\ incoming[id].expires \in Nat
      BY <2>1 DEF TypeOK, Incoming
    <3>2. incoming' = [incoming EXCEPT ![id].linked = TRUE]
      BY <1>4, <2>1 DEF Link
    <3>3. DOMAIN incoming' = DOMAIN incoming
          /\ \A i \in DOMAIN incoming : incoming'[i] \in Incoming
      BY <3>1, <3>2 DEF TypeOK, Incoming
    <3>4. task' \in [Conn -> Task]
      BY <1>4, <2>1, <3>1, HoldingTask DEF Link, TypeOK, Task
    <3> QED
      BY <1>4, <2>1, <3>3, <3>4 DEF Link, TypeOK
  <2>2. CASE id \notin DOMAIN incoming
    BY <1>4, <2>2, EndsType DEF Link, TypeOK
  <2> QED
    BY <2>1, <2>2
<1>5. ASSUME NEW c \in Conn, WatchClosed(c) \/ WatchExpired(c) PROVE TypeOK'
  <2>1. Bury(c) /\ Ends(c)
        /\ UNCHANGED <<clock, roster, outgoing, receiving, answer, bounds>>
    BY <1>5 DEF WatchClosed, WatchExpired
  <2>2. task[c].id \in Id
    BY <1>5, HoldingTask DEF WatchClosed, WatchExpired
  <2>3. /\ DOMAIN incoming' \subseteq Id
        /\ \A i \in DOMAIN incoming' : incoming'[i] \in Incoming
    BY <2>1 DEF Remove, Keep, Bury, TypeOK
  <2>4. /\ DOMAIN gone' \subseteq Id
        /\ \A i \in DOMAIN gone' : gone'[i] \in Time
    BY <2>1, <2>2 DEF Put, Bury, TypeOK
  <2> QED
    BY <2>1, <2>3, <2>4, EndsType DEF TypeOK
<1>6. ASSUME NEW c \in Conn, NEW asked \in Asked, NEW id \in Id,
             Admit(c, asked, id)
      PROVE  TypeOK'
  <2> DEFINE p == task[c].peer
             until == clock + clamp_ttl(asked)
             entry == [peer |-> p, conn |-> c, expires |-> until, linked |-> FALSE]
  <2>1. p \in Peer
    BY <1>6, ReadingTask DEF Admit
  <2>2. until \in 1 .. MaxTime
    <3>1. clamp_ttl(asked) \in Nat /\ clamp_ttl(asked) >= 1
      BY ClampRange, WindowAssumption
    <3>2. clock \in Nat
      BY DEF TypeOK, Time
    <3>3. until <= MaxTime
      BY <1>6 DEF Admit
    <3> HIDE DEF clamp_ttl
    <3> QED
      BY <3>1, <3>2, <3>3
  <2>3. entry \in Incoming
    BY <2>1, <2>2 DEF Incoming
  <2>4. incoming' = Put(incoming, id, entry)
    BY <1>6 DEF Admit
  <2>5. /\ DOMAIN incoming' \subseteq Id
        /\ \A i \in DOMAIN incoming' : incoming'[i] \in Incoming
    BY <2>3, <2>4 DEF Put, TypeOK
  <2>6. [pc |-> "queueing", peer |-> p, id |-> id, until |-> until] \in Task
    BY <2>1, <2>2 DEF Task
  <2>7. task' \in [Conn -> Task]
    BY <1>6, <2>6 DEF Admit, TypeOK
  <2> QED
    BY <1>6, <2>5, <2>7 DEF Admit, TypeOK
<1>7. ASSUME NEW c \in Conn, Track(c) PROVE TypeOK'
  <2>1. answer[c] \in [pc : {"taken", "receiving", "rejecting"}, peer : Peer, id : Id]
    BY <1>7 DEF Track, TypeOK, Answer, Idle, Over
  <2>2. /\ DOMAIN receiving' \subseteq Id
        /\ \A i \in DOMAIN receiving' : receiving'[i] \in Conn
    BY <1>7, <2>1 DEF Put, Track, TypeOK
  <2>3. answer' \in [Conn -> Answer]
    BY <1>7, <2>1 DEF Track, TypeOK, Answer
  <2> QED
    BY <1>7, <2>2, <2>3 DEF Track, TypeOK
<1>8. ASSUME NEW c \in Conn, AnswerEnds(c) PROVE TypeOK'
  <2>1. answer' \in [Conn -> Answer]
    BY <1>8 DEF AnswerEnds, TypeOK, Answer
  <2> QED
    BY <1>8, <2>1 DEF Remove, Keep, AnswerEnds, TypeOK
<1>9. ASSUME NEW c \in Conn, Withdraw(c) PROVE TypeOK'
  BY <1>9 DEF Withdraw, TypeOK
<1>10. ASSUME NEW c \in Conn, NEW p \in Peer, Connect(c, p) PROVE TypeOK'
  <2>1. task' \in [Conn -> Task]
    BY <1>10 DEF Connect, TypeOK, Task
  <2> QED
    BY <1>10, <2>1 DEF Connect, TypeOK
<1>11. ASSUME NEW id \in DOMAIN incoming, NEW how \in {"taken", "rejecting"},
              Take(id, how)
       PROVE  TypeOK'
  <2>1. incoming[id] \in Incoming /\ id \in Id
    BY DEF TypeOK
  <2>2. answer' \in [Conn -> Answer]
    BY <1>11, <2>1 DEF Take, TypeOK, Answer, Incoming
  <2> QED
    BY <1>11, <2>2, ForgetType DEF Remove, Keep, Take, TypeOK
<1>12. ASSUME NEW p \in Peer, NEW id \in Id, Send(p, id) PROVE TypeOK'
  <2>1. [peer |-> p, state |-> "offered", finished |-> Never, conn |-> FALSE]
           \in Outgoing
    BY DEF Outgoing
  <2>2. /\ DOMAIN outgoing' \subseteq Id
        /\ \A i \in DOMAIN outgoing' : outgoing'[i] \in Outgoing
    BY <1>12, <2>1 DEF Put, Keep, Send, TypeOK
  <2>3. sends' \in 0 .. MaxSends
    BY <1>12 DEF Send, TypeOK
  <2>4. DOMAIN gone' \subseteq Id /\ \A i \in DOMAIN gone' : gone'[i] \in Time
    BY <1>12 DEF Keep, Send, TypeOK
  <2> QED
    BY <1>12, <2>2, <2>3, <2>4 DEF Send, TypeOK
<1>13. ASSUME NEW id \in DOMAIN outgoing, Deliver(id) \/ Accepted(id) \/ SendEnds(id)
       PROVE  TypeOK'
  <2>1. outgoing[id] \in Outgoing
    BY DEF TypeOK
  <2>2. SendStep
    BY <1>13 DEF Deliver, Accepted, SendEnds
  <2>3. CASE Deliver(id)
    <3>1. CASE outgoing' = Remove(outgoing, id)
      BY <2>2, <3>1 DEF Remove, Keep, SendStep, TypeOK
    <3>2. CASE outgoing' = [outgoing EXCEPT ![id].conn = TRUE]
      <4>1. /\ DOMAIN outgoing' = DOMAIN outgoing
            /\ \A i \in DOMAIN outgoing : outgoing'[i] \in Outgoing
        BY <2>1, <3>2 DEF TypeOK, Outgoing
      <4> QED
        BY <2>2, <4>1 DEF SendStep, TypeOK
    <3> QED
      BY <2>3, <3>1, <3>2 DEF Deliver
  <2>4. ASSUME NEW state \in {"transferring", "finished"}, SetState(id, state)
        PROVE  TypeOK'
    <3>1. clock \in Time
      BY DEF TypeOK
    <3>2. (outgoing[id].conn /\ state # "finished") \in BOOLEAN
      OBVIOUS
    <3>3. /\ DOMAIN outgoing' = DOMAIN outgoing
          /\ \A i \in DOMAIN outgoing : outgoing'[i] \in Outgoing
      BY <2>1, <2>4, <3>1, <3>2 DEF SetState, TypeOK, Outgoing
    <3> QED
      BY <2>2, <3>3 DEF SendStep, TypeOK
  <2> QED
    BY <1>13, <2>3, <2>4 DEF Accepted, SendEnds
<1>14. ASSUME NEW members \in SUBSET Peer, SetRoster(members) PROVE TypeOK'
  <2>1. rosters' \in 0 .. MaxRosters
    BY <1>14 DEF SetRoster, TypeOK
  <2>2. /\ DOMAIN incoming' \subseteq DOMAIN incoming
        /\ \A i \in DOMAIN incoming' : incoming'[i] = incoming[i]
    BY <1>14 DEF Keep, SetRoster
  <2>3. /\ DOMAIN receiving' \subseteq DOMAIN receiving
        /\ \A i \in DOMAIN receiving' : receiving'[i] = receiving[i]
    BY <1>14 DEF Keep, SetRoster
  <2>4. closed' \subseteq Conn
    BY <1>14 DEF SetRoster, TypeOK, Incoming
  <2> QED
    BY <1>14, <2>1, <2>2, <2>3, <2>4 DEF SetRoster, TypeOK
<1>15. CASE Look
  BY <1>15, ForgetType DEF Look, TypeOK
<1>16. CASE Tick
  BY <1>16 DEF Tick, TypeOK, Time
<1>17. CASE UNCHANGED vars
  BY <1>17 DEF vars, TypeOK
<1> QED
  BY <1>1, <1>2, <1>3, <1>4, <1>5, <1>6, <1>7, <1>8, <1>9, <1>10, <1>11, <1>12,
     <1>13, <1>14, <1>15, <1>16, <1>17 DEF Next, TaskStep

-----------------------------------------------------------------------------
(* Places *)

\* What the rest of the proofs needs of a step: it admits one offer, marks one
\* as linked, or leaves a part of what was there.
Shrinks ==
  /\ DOMAIN incoming' \subseteq DOMAIN incoming
  /\ \A id \in DOMAIN incoming' : /\ incoming'[id].peer = incoming[id].peer
                                   /\ incoming'[id].conn = incoming[id].conn

\* Only admit ever adds an offer.
LEMMA OnlyAdmitAdds ==
  ASSUME TypeOK, [Next]_vars
  PROVE  \/ Shrinks
         \/ \E c \in Conn, asked \in Asked, id \in Id : Admit(c, asked, id)
<1> USE DEF Shrinks, tables, bounds
<1>1. ASSUME NEW c \in Conn, Refuse(c) \/ Queued(c) \/ Track(c) \/ AnswerEnds(c)
                               \/ Withdraw(c)
      PROVE  Shrinks
  BY <1>1 DEF Refuse, Queued, Track, AnswerEnds, Withdraw
<1>2. ASSUME NEW c \in Conn, NotQueued(c) PROVE Shrinks
  BY <1>2 DEF NotQueued, Remove, Keep
<1>3. ASSUME NEW c \in Conn, Link(c) PROVE Shrinks
  BY <1>3 DEF Link, TypeOK, Incoming
<1>4. ASSUME NEW c \in Conn, WatchClosed(c) \/ WatchExpired(c) PROVE Shrinks
  BY <1>4 DEF WatchClosed, WatchExpired, Bury, Remove, Keep
<1>5. ASSUME NEW c \in Conn, NEW p \in Peer, Connect(c, p) PROVE Shrinks
  BY <1>5 DEF Connect
<1>6. ASSUME NEW id \in DOMAIN incoming, NEW how \in {"taken", "rejecting"},
             Take(id, how)
      PROVE  Shrinks
  BY <1>6 DEF Take, Remove, Keep
<1>7. ASSUME NEW p \in Peer, NEW id \in Id, Send(p, id) PROVE Shrinks
  BY <1>7 DEF Send
<1>8. ASSUME NEW id \in DOMAIN outgoing, Deliver(id) \/ Accepted(id) \/ SendEnds(id)
      PROVE  Shrinks
  BY <1>8 DEF Deliver, Accepted, SendEnds, SendStep
<1>9. ASSUME NEW members \in SUBSET Peer, SetRoster(members) PROVE Shrinks
  BY <1>9 DEF SetRoster, Keep
<1>10. CASE Look \/ Tick \/ UNCHANGED vars
  BY <1>10 DEF Look, Tick, vars
<1> QED
  BY <1>1, <1>2, <1>3, <1>4, <1>5, <1>6, <1>7, <1>8, <1>9, <1>10
  DEF Next, TaskStep

\* Admitting one offer adds it under a fresh id and nothing else.
LEMMA AdmitAdds ==
  ASSUME TypeOK, NEW c \in Conn, NEW asked \in Asked, NEW id \in Id,
         Admit(c, asked, id)
  PROVE  /\ id \notin DOMAIN incoming /\ DOMAIN incoming' = DOMAIN incoming \cup {id}
         /\ incoming'[id].peer = task[c].peer /\ incoming'[id].conn = c
         /\ \A i \in DOMAIN incoming : incoming'[i] = incoming[i]
         /\ Cardinality(Waiting(task[c].peer)) < Limit
BY DEF Admit, Put, new_id

\* The offers of a peer are among the ids in use.
Counted == IsFiniteSet(DOMAIN incoming)

\* A peer's offers stay within its share.
LEMMA LimitStep ==
  ASSUME TypeOK, Counted, WithinLimit, [Next]_vars
  PROVE  Counted' /\ WithinLimit'
<1> DEFINE Of(table, p) == {id \in DOMAIN table : table[id].peer = p}
<1>1. CASE Shrinks
  <2>1. Counted'
    BY <1>1, FS_Subset DEF Shrinks, Counted
  <2>2. ASSUME NEW p \in Peer PROVE Cardinality(Of(incoming', p)) <= Limit
    <3>1. Of(incoming', p) \in SUBSET Of(incoming, p)
      BY <1>1 DEF Shrinks
    <3>2. IsFiniteSet(Of(incoming, p))
      <4>1. Of(incoming, p) \in SUBSET DOMAIN incoming
        OBVIOUS
      <4> QED
        BY <4>1, FS_Subset DEF Counted
    <3>3. /\ Cardinality(Of(incoming', p)) <= Cardinality(Of(incoming, p))
          /\ IsFiniteSet(Of(incoming', p))
      BY <3>1, <3>2, FS_Subset
    <3>4. /\ Cardinality(Of(incoming, p)) \in Nat
          /\ Cardinality(Of(incoming', p)) \in Nat
      BY <3>2, <3>3, FS_CardinalityType
    <3>5. Cardinality(Of(incoming, p)) <= Limit
      BY DEF WithinLimit
    <3> HIDE DEF Of
    <3> QED
      BY <3>3, <3>4, <3>5, LimitAssumption
  <2> QED
    BY <2>1, <2>2 DEF WithinLimit
<1>2. ASSUME NEW c \in Conn, NEW asked \in Asked, NEW id \in Id,
             Admit(c, asked, id)
      PROVE  Counted' /\ WithinLimit'
  <2>0. /\ id \notin DOMAIN incoming
        /\ DOMAIN incoming' = DOMAIN incoming \cup {id}
        /\ incoming'[id].peer = task[c].peer
        /\ \A i \in DOMAIN incoming : incoming'[i] = incoming[i]
    BY <1>2, AdmitAdds
  <2>1. Counted'
    <3>1. IsFiniteSet(DOMAIN incoming \cup {id})
      BY FS_AddElement DEF Counted
    <3> QED
      BY <2>0, <3>1 DEF Counted
  <2>2. ASSUME NEW p \in Peer PROVE Cardinality(Of(incoming', p)) <= Limit
    <3>1. Of(incoming, p) \in SUBSET DOMAIN incoming
      OBVIOUS
    <3>2. IsFiniteSet(Of(incoming, p))
      BY <3>1, FS_Subset DEF Counted
    <3>3. Cardinality(Of(incoming, p)) \in Nat
      BY <3>2, FS_CardinalityType
    <3>4. CASE p # task[c].peer
      <4>1. Of(incoming', p) = Of(incoming, p)
        BY <2>0, <3>4
      <4> QED
        BY <4>1 DEF WithinLimit
    <3>5. CASE p = task[c].peer
      <4>1. Of(incoming', p) = Of(incoming, p) \cup {id}
        BY <2>0, <3>5
      <4>2. id \notin Of(incoming, p)
        BY <2>0
      <4>3. Cardinality(Of(incoming', p)) = Cardinality(Of(incoming, p)) + 1
        BY <3>2, <4>1, <4>2, FS_AddElement
      <4>4. Cardinality(Of(incoming, p)) < Limit
        BY <1>2, <3>5, AdmitAdds DEF Waiting
      <4> HIDE DEF Of
      <4> QED
        BY <3>3, <4>3, <4>4, LimitAssumption
    <3> QED
      BY <3>4, <3>5
  <2> QED
    BY <2>1, <2>2 DEF WithinLimit
<1> QED
  BY <1>1, <1>2, OnlyAdmitAdds

-----------------------------------------------------------------------------
(* Who looks after a place *)

\* Steps that leave a task's place where it was.
LEMMA HeldStep ==
  ASSUME TypeOK, PlaceHeld, [Next]_vars
  PROVE  PlaceHeld'
<1> USE DEF PlaceHeld, tables, bounds
<1>1. ASSUME NEW c \in Conn, Refuse(c) PROVE PlaceHeld'
  BY <1>1 DEF Refuse, Ends, TypeOK
<1>2. ASSUME NEW c \in Conn, Queued(c) PROVE PlaceHeld'
  <2>1. /\ task[c].pc = "queueing" /\ task'[c].pc = "linking"
        /\ task'[c].id = task[c].id /\ task'[c].peer = task[c].peer
    BY <1>2, HoldingTask DEF Queued, TypeOK
  <2>2. \A d \in Conn : d # c => task'[d] = task[d]
    BY <1>2 DEF Queued, TypeOK
  <2>3. UNCHANGED <<incoming, roster>>
    BY <1>2 DEF Queued
  <2>4. \A i \in DOMAIN incoming : incoming[i].conn \in Conn
    BY DEF TypeOK, Incoming
  <2>5. ASSUME NEW i \in DOMAIN incoming
        PROVE  LET t == task'[incoming[i].conn]
               IN  /\ t.pc \in {"queueing", "linking", "watching"}
                   /\ t.id = i /\ t.peer = incoming[i].peer
                   /\ t.peer \in roster
    <3>1. CASE incoming[i].conn = c
      BY <2>1, <3>1
    <3>2. CASE incoming[i].conn # c
      BY <2>2, <2>4, <3>2
    <3> QED
      BY <3>1, <3>2
  <2> QED
    BY <2>3, <2>5
<1>3. ASSUME NEW c \in Conn, NotQueued(c) PROVE PlaceHeld'
  BY <1>3 DEF NotQueued, Ends, Remove, Keep, TypeOK
<1>4. ASSUME NEW c \in Conn, Link(c) PROVE PlaceHeld'
  <2>1. CASE task[c].id \notin DOMAIN incoming
    <3>1. UNCHANGED <<incoming, roster>> /\ task' = [task EXCEPT ![c] = Over]
      BY <1>4, <2>1 DEF Link, Ends
    <3>2. \A i \in DOMAIN incoming : incoming[i].conn # c
      BY <2>1
    <3> QED
      BY <3>1, <3>2 DEF TypeOK
  <2>2. CASE task[c].id \in DOMAIN incoming
    <3>1. /\ task'[c].pc = "watching" /\ task[c].pc = "linking"
          /\ task'[c].id = task[c].id /\ task'[c].peer = task[c].peer
      BY <1>4, <2>2, HoldingTask DEF Link, TypeOK
    <3>2. \A d \in Conn : d # c => task'[d] = task[d]
      BY <1>4, <2>2 DEF Link, TypeOK
    <3>3. /\ DOMAIN incoming' = DOMAIN incoming
          /\ \A i \in DOMAIN incoming : /\ incoming'[i].peer = incoming[i].peer
                                        /\ incoming'[i].conn = incoming[i].conn
                                        /\ incoming[i].conn \in Conn
      BY <1>4, <2>2 DEF Link, TypeOK, Incoming
    <3>4. UNCHANGED roster
      BY <1>4 DEF Link
    <3> QED
      BY <3>1, <3>2, <3>3, <3>4
  <2> QED
    BY <2>1, <2>2
<1>5. ASSUME NEW c \in Conn, WatchClosed(c) \/ WatchExpired(c) PROVE PlaceHeld'
  <2>1. Bury(c) /\ Ends(c) /\ UNCHANGED roster
    BY <1>5 DEF WatchClosed, WatchExpired
  <2>2. CASE Mine(c)
    BY <2>1, <2>2 DEF Bury, Mine, Ends, Remove, Keep, TypeOK
  <2>3. CASE ~Mine(c)
    BY <2>1, <2>3 DEF Bury, Mine, Ends, TypeOK
  <2> QED
    BY <2>2, <2>3
<1>6. ASSUME NEW c \in Conn, NEW asked \in Asked, NEW id \in Id,
             Admit(c, asked, id)
      PROVE  PlaceHeld'
  <2>1. /\ task'[c].pc = "queueing" /\ task'[c].id = id
        /\ task'[c].peer = task[c].peer /\ task[c].pc = "reading"
        /\ task[c].peer \in roster /\ UNCHANGED roster
    BY <1>6 DEF Admit, TypeOK
  <2>2. \A d \in Conn : d # c => task'[d] = task[d]
    BY <1>6 DEF Admit, TypeOK
  <2>3. /\ DOMAIN incoming' = DOMAIN incoming \cup {id}
        /\ incoming'[id].peer = task[c].peer /\ incoming'[id].conn = c
        /\ \A i \in DOMAIN incoming : incoming'[i] = incoming[i]
        /\ id \notin DOMAIN incoming
    BY <1>6 DEF Admit, Put, new_id
  <2>4. \A i \in DOMAIN incoming : incoming[i].conn \in Conn \ {c}
    BY <2>1 DEF TypeOK, Incoming
  <2> QED
    BY <2>1, <2>2, <2>3, <2>4
<1>7. ASSUME NEW c \in Conn, Track(c) \/ AnswerEnds(c) \/ Withdraw(c)
      PROVE  PlaceHeld'
  BY <1>7 DEF Track, AnswerEnds, Withdraw
<1>8. ASSUME NEW c \in Conn, NEW p \in Peer, Connect(c, p) PROVE PlaceHeld'
  <2>1. task[c].pc = "idle"
    BY <1>8 DEF Connect, Idle
  <2> QED
    BY <1>8, <2>1 DEF Connect, TypeOK
<1>9. ASSUME NEW id \in DOMAIN incoming, NEW how \in {"taken", "rejecting"},
             Take(id, how)
      PROVE  PlaceHeld'
  BY <1>9 DEF Take, Remove, Keep
<1>10. ASSUME NEW p \in Peer, NEW id \in Id, Send(p, id) PROVE PlaceHeld'
  BY <1>10 DEF Send
<1>11. ASSUME NEW id \in DOMAIN outgoing, Deliver(id) \/ Accepted(id) \/ SendEnds(id)
      PROVE  PlaceHeld'
  BY <1>11 DEF Deliver, Accepted, SendEnds, SendStep
<1>12. ASSUME NEW members \in SUBSET Peer, SetRoster(members) PROVE PlaceHeld'
  BY <1>12 DEF SetRoster, Keep
<1>13. CASE Look \/ Tick \/ UNCHANGED vars
  BY <1>13 DEF Look, Tick, vars
<1> QED
  BY <1>1, <1>2, <1>3, <1>4, <1>5, <1>6, <1>7, <1>8, <1>9, <1>10, <1>11, <1>12,
     <1>13 DEF Next, TaskStep

\* The task that looks after an offer knows when its window is over.
WindowFits ==
  \A id \in DOMAIN incoming : task[incoming[id].conn].until = incoming[id].expires

\* No step moves the end of a window, or its task's idea of it.
LEMMA WindowStep ==
  ASSUME TypeOK, PlaceHeld, WindowFits, [Next]_vars
  PROVE  WindowFits'
<1> USE DEF tables, bounds
<1>0. \A i \in DOMAIN incoming :
        /\ incoming[i] \in Incoming /\ incoming[i].conn \in Conn
        /\ task[incoming[i].conn].pc \in {"queueing", "linking", "watching"}
        /\ task[incoming[i].conn].id = i
  BY DEF TypeOK, Incoming, PlaceHeld
<1>1. ASSUME NEW c \in Conn, UNCHANGED incoming,
             \A i \in DOMAIN incoming : incoming[i].conn # c,
             \A d \in Conn \ {c} : task'[d] = task[d]
      PROVE  WindowFits'
  BY <1>0, <1>1 DEF WindowFits
<1>2. ASSUME NEW ids \in SUBSET DOMAIN incoming, incoming' = Keep(incoming, ids),
             \A i \in ids : task'[incoming[i].conn] = task[incoming[i].conn]
      PROVE  WindowFits'
  BY <1>2 DEF WindowFits, Keep
<1>3. ASSUME UNCHANGED <<incoming, task>> PROVE WindowFits'
  BY <1>3 DEF WindowFits
<1>4. ASSUME NEW c \in Conn, Refuse(c) PROVE WindowFits'
  <2>1. \A i \in DOMAIN incoming : incoming[i].conn # c
    BY <1>0, <1>4 DEF Refuse
  <2> QED
    BY <1>1, <1>4, <2>1 DEF Refuse, Ends, TypeOK
<1>5. ASSUME NEW c \in Conn, Queued(c) PROVE WindowFits'
  <2>1. /\ task'[c].until = task[c].until /\ UNCHANGED incoming
        /\ \A d \in Conn \ {c} : task'[d] = task[d]
    BY <1>5, HoldingTask DEF Queued, TypeOK
  <2> QED
    BY <1>0, <2>1 DEF WindowFits
<1>6. ASSUME NEW c \in Conn, NotQueued(c) PROVE WindowFits'
  <2> DEFINE ids == DOMAIN incoming \ {task[c].id}
  <2>1. \A i \in ids : incoming[i].conn \in Conn \ {c}
    BY <1>0
  <2>2. \A d \in Conn \ {c} : task'[d] = task[d]
    BY <1>6 DEF NotQueued, Ends, TypeOK
  <2> QED
    BY <1>2, <1>6, <2>1, <2>2 DEF NotQueued, Remove
<1>7. ASSUME NEW c \in Conn, Link(c) PROVE WindowFits'
  <2>1. CASE task[c].id \notin DOMAIN incoming
    <3>1. \A i \in DOMAIN incoming : incoming[i].conn # c
      BY <1>0, <2>1
    <3> QED
      BY <1>1, <1>7, <2>1, <3>1 DEF Link, Ends, TypeOK
  <2>2. CASE task[c].id \in DOMAIN incoming
    <3>1. task'[c].until = incoming[task[c].id].expires
      BY <1>7, <2>2, HoldingTask DEF Link, TypeOK
    <3>2. \A d \in Conn \ {c} : task'[d] = task[d]
      BY <1>7, <2>2 DEF Link, TypeOK
    <3>3. /\ DOMAIN incoming' = DOMAIN incoming
          /\ \A i \in DOMAIN incoming :
               /\ incoming'[i].expires = incoming[i].expires
               /\ incoming'[i].conn = incoming[i].conn
      BY <1>0, <1>7, <2>2 DEF Link, Incoming
    <3> QED
      BY <1>0, <3>1, <3>2, <3>3 DEF WindowFits
  <2> QED
    BY <2>1, <2>2
<1>8. ASSUME NEW c \in Conn, WatchClosed(c) \/ WatchExpired(c) PROVE WindowFits'
  <2>1. Bury(c) /\ \A d \in Conn \ {c} : task'[d] = task[d]
    BY <1>8 DEF WatchClosed, WatchExpired, Ends, TypeOK
  <2>2. CASE Mine(c)
    <3> DEFINE ids == DOMAIN incoming \ {task[c].id}
    <3>1. \A i \in ids : incoming[i].conn \in Conn \ {c}
      BY <1>0
    <3> QED
      BY <1>2, <2>1, <2>2, <3>1 DEF Bury, Remove
  <2>3. CASE ~Mine(c)
    <3>1. \A i \in DOMAIN incoming : incoming[i].conn # c
      BY <1>0, <2>3 DEF Mine
    <3> QED
      BY <1>1, <2>1, <2>3, <3>1 DEF Bury
  <2> QED
    BY <2>2, <2>3
<1>9. ASSUME NEW c \in Conn, NEW asked \in Asked, NEW id \in Id,
             Admit(c, asked, id)
      PROVE  WindowFits'
  <2>1. /\ \A d \in Conn \ {c} : task'[d] = task[d]
        /\ task'[c].until = clock + clamp_ttl(asked)
    BY <1>9 DEF Admit, TypeOK
  <2>2. /\ DOMAIN incoming' = DOMAIN incoming \cup {id}
        /\ incoming'[id].expires = clock + clamp_ttl(asked)
        /\ incoming'[id].conn = c
        /\ \A i \in DOMAIN incoming : incoming'[i] = incoming[i]
    BY <1>9 DEF Admit, Put, new_id
  <2>3. \A i \in DOMAIN incoming : incoming[i].conn \in Conn \ {c}
    BY <1>0, <1>9 DEF Admit
  <2> QED
    BY <2>1, <2>2, <2>3 DEF WindowFits
<1>10. ASSUME NEW c \in Conn, Track(c) \/ AnswerEnds(c) \/ Withdraw(c)
       PROVE  WindowFits'
  BY <1>3, <1>10 DEF Track, AnswerEnds, Withdraw
<1>11. ASSUME NEW c \in Conn, NEW p \in Peer, Connect(c, p) PROVE WindowFits'
  <2>1. \A i \in DOMAIN incoming : incoming[i].conn # c
    BY <1>0, <1>11 DEF Connect, Idle
  <2> QED
    BY <1>1, <1>11, <2>1 DEF Connect, TypeOK
<1>12. ASSUME NEW id \in DOMAIN incoming, NEW how \in {"taken", "rejecting"},
              Take(id, how)
       PROVE  WindowFits'
  BY <1>2, <1>12 DEF Take, Remove
<1>13. ASSUME NEW members \in SUBSET Peer, SetRoster(members) PROVE WindowFits'
  BY <1>2, <1>13 DEF SetRoster
<1>14. ASSUME NEW p \in Peer, NEW id \in Id, Send(p, id) PROVE WindowFits'
  BY <1>3, <1>14 DEF Send
<1>15. ASSUME NEW id \in DOMAIN outgoing, Deliver(id) \/ Accepted(id) \/ SendEnds(id)
       PROVE  WindowFits'
  BY <1>3, <1>15 DEF Deliver, Accepted, SendEnds, SendStep
<1>16. CASE Look \/ Tick \/ UNCHANGED vars
  BY <1>3, <1>16 DEF Look, Tick, vars
<1> QED
  BY <1>4, <1>5, <1>6, <1>7, <1>8, <1>9, <1>10, <1>11, <1>12, <1>13, <1>14,
     <1>15, <1>16 DEF Next, TaskStep

\* What a step may bury.
Buries ==
  \A id \in DOMAIN incoming \cap (DOMAIN gone' \ DOMAIN gone) :
    incoming[id].conn \in closed \/ incoming[id].expires <= clock

\* Only a watcher buries an offer, its own, when there is a reason to.
LEMMA BuryStep ==
  ASSUME TypeOK, WindowFits, [Next]_vars
  PROVE  Buries
<1> USE DEF Buries, tables, bounds
<1>1. ASSUME NEW c \in Conn, WatchClosed(c) \/ WatchExpired(c) PROVE Buries
  <2> SUFFICES ASSUME NEW id \in DOMAIN incoming, id \in DOMAIN gone' \ DOMAIN gone
               PROVE  incoming[id].conn \in closed \/ incoming[id].expires <= clock
    OBVIOUS
  <2>1. id = task[c].id /\ incoming[id].conn = c
    BY <1>1 DEF WatchClosed, WatchExpired, Bury, Mine, Put
  <2>2. task[c].until = incoming[id].expires
    BY <2>1 DEF WindowFits
  <2>3. clock \in Nat /\ incoming[id].expires \in Nat
    BY OfferBoundAssumption DEF TypeOK, Time, Incoming
  <2>4. c \in closed \/ clock >= task[c].until
    BY <1>1 DEF WatchClosed, WatchExpired
  <2> QED
    BY <2>1, <2>2, <2>3, <2>4
<1>2. ASSUME DOMAIN gone' \subseteq DOMAIN gone PROVE Buries
  BY <1>2
<1>3. ASSUME NEW c \in Conn,
             \/ Refuse(c) \/ Queued(c) \/ NotQueued(c) \/ Link(c)
             \/ Track(c) \/ AnswerEnds(c)
             \/ Withdraw(c) \/ \E p \in Peer : Connect(c, p)
      PROVE  Buries
  BY <1>2, <1>3 DEF Refuse, Queued, NotQueued, Link, Track, AnswerEnds, Withdraw,
                    Connect
<1>4. ASSUME NEW c \in Conn, NEW asked \in Asked, NEW id \in Id,
             Admit(c, asked, id)
      PROVE  Buries
  BY <1>2, <1>4 DEF Admit
<1>5. CASE ForgetHistory
  BY <1>2, <1>5, ForgetType
<1>6. ASSUME NEW p \in Peer, NEW id \in Id, Send(p, id) PROVE Buries
  BY <1>2, <1>6 DEF Send, Keep
<1>7. ASSUME NEW id \in DOMAIN outgoing, Deliver(id) \/ Accepted(id) \/ SendEnds(id)
      PROVE  Buries
  BY <1>2, <1>7 DEF Deliver, Accepted, SendEnds, SendStep
<1>8. ASSUME NEW members \in SUBSET Peer, SetRoster(members) PROVE Buries
  BY <1>2, <1>8 DEF SetRoster
<1>9. CASE Tick \/ UNCHANGED vars
  BY <1>2, <1>9 DEF Tick, vars
<1> QED
  BY <1>1, <1>3, <1>4, <1>5, <1>6, <1>7, <1>8, <1>9
  DEF Next, TaskStep, Look, Take

-----------------------------------------------------------------------------
(* Ids and history *)

\* An offer this node made has an end time only once it has ended.
HistoryFits ==
  \A id \in DOMAIN outgoing :
    outgoing[id].finished # Never => outgoing[id].state = "finished"

\* No id comes to name two things.
LEMMA IdsStep ==
  ASSUME TypeOK, IdsDistinct, [Next]_vars
  PROVE  IdsDistinct'
<1> USE DEF IdsDistinct, tables, bounds
<1>1. ASSUME NEW c \in Conn,
             Refuse(c) \/ Queued(c) \/ Track(c) \/ AnswerEnds(c) \/ Withdraw(c)
      PROVE  IdsDistinct'
  BY <1>1 DEF Refuse, Queued, Track, AnswerEnds, Withdraw
<1>2. ASSUME NEW c \in Conn, NotQueued(c) PROVE IdsDistinct'
  BY <1>2 DEF NotQueued, Remove, Keep
<1>3. ASSUME NEW c \in Conn, Link(c) PROVE IdsDistinct'
  <2>1. DOMAIN incoming' = DOMAIN incoming
    BY <1>3 DEF Link
  <2> QED
    BY <1>3, <2>1 DEF Link
<1>4. ASSUME NEW c \in Conn, WatchClosed(c) \/ WatchExpired(c) PROVE IdsDistinct'
  BY <1>4 DEF WatchClosed, WatchExpired, Bury, Mine, Put, Remove, Keep
<1>5. ASSUME NEW c \in Conn, NEW asked \in Asked, NEW id \in Id,
             Admit(c, asked, id)
      PROVE  IdsDistinct'
  BY <1>5 DEF Admit, Put, new_id
<1>6. ASSUME NEW c \in Conn, NEW p \in Peer, Connect(c, p) PROVE IdsDistinct'
  BY <1>6 DEF Connect
<1>7. ASSUME NEW id \in DOMAIN incoming, NEW how \in {"taken", "rejecting"},
             Take(id, how)
      PROVE  IdsDistinct'
  BY <1>7 DEF Take, ForgetHistory, Remove, Keep
<1>8. ASSUME NEW p \in Peer, NEW id \in Id, Send(p, id) PROVE IdsDistinct'
  BY <1>8 DEF Send, Put, Keep
<1>9. ASSUME NEW id \in DOMAIN outgoing, Deliver(id) \/ Accepted(id) \/ SendEnds(id)
      PROVE  IdsDistinct'
  <2>1. DOMAIN outgoing' \subseteq DOMAIN outgoing
    BY <1>9 DEF Deliver, Accepted, SendEnds, SetState, Remove, Keep
  <2>2. UNCHANGED <<incoming, gone>>
    BY <1>9 DEF Deliver, Accepted, SendEnds, SendStep
  <2> QED
    BY <2>1, <2>2
<1>10. ASSUME NEW members \in SUBSET Peer, SetRoster(members) PROVE IdsDistinct'
  BY <1>10 DEF SetRoster, Keep
<1>11. CASE Look
  BY <1>11 DEF Look, ForgetHistory, Keep
<1>12. CASE Tick \/ UNCHANGED vars
  BY <1>12 DEF Tick, vars
<1> QED
  BY <1>1, <1>2, <1>3, <1>4, <1>5, <1>6, <1>7, <1>8, <1>9, <1>10, <1>11, <1>12
  DEF Next, TaskStep

\* Only a command looks at the history, and only a task of this node ends one
\* of its offers.
LEMMA HistoryStep ==
  ASSUME TypeOK, HistoryFits, [Next]_vars
  PROVE  HistoryFits'
<1> USE DEF HistoryFits, tables, bounds
<1>1. ASSUME NEW c \in Conn,
             \/ Refuse(c) \/ Queued(c) \/ NotQueued(c) \/ Link(c)
             \/ WatchClosed(c) \/ WatchExpired(c) \/ Track(c) \/ AnswerEnds(c)
             \/ Withdraw(c) \/ \E p \in Peer : Connect(c, p)
      PROVE  HistoryFits'
  BY <1>1 DEF Refuse, Queued, NotQueued, Link, WatchClosed, WatchExpired, Track,
              AnswerEnds, Withdraw, Connect
<1>2. ASSUME NEW c \in Conn, NEW asked \in Asked, NEW id \in Id,
             Admit(c, asked, id)
      PROVE  HistoryFits'
  BY <1>2 DEF Admit
<1>3. ASSUME NEW id \in DOMAIN incoming, NEW how \in {"taken", "rejecting"},
             Take(id, how)
      PROVE  HistoryFits'
  BY <1>3, ForgetType DEF Take
<1>4. ASSUME NEW p \in Peer, NEW id \in Id, Send(p, id) PROVE HistoryFits'
  BY <1>4 DEF Send, Put, Keep
<1>5. ASSUME NEW id \in DOMAIN outgoing, Deliver(id) PROVE HistoryFits'
  <2>1. CASE outgoing' = Remove(outgoing, id)
    BY <2>1 DEF Remove, Keep
  <2>2. CASE outgoing' = [outgoing EXCEPT ![id].conn = TRUE]
    BY <2>2 DEF TypeOK, Outgoing
  <2> QED
    BY <1>5, <2>1, <2>2 DEF Deliver
<1>6. ASSUME NEW id \in DOMAIN outgoing, Accepted(id) PROVE HistoryFits'
  <2>1. outgoing[id].finished = Never
    BY <1>6 DEF Accepted
  <2> QED
    BY <1>6, <2>1 DEF Accepted, SetState, TypeOK, Outgoing
<1>7. ASSUME NEW id \in DOMAIN outgoing, SendEnds(id) PROVE HistoryFits'
  BY <1>7 DEF SendEnds, SetState, TypeOK, Outgoing
<1>8. ASSUME NEW members \in SUBSET Peer, SetRoster(members) PROVE HistoryFits'
  BY <1>8 DEF SetRoster
<1>9. CASE Look
  BY <1>9, ForgetType DEF Look
<1>10. CASE Tick \/ UNCHANGED vars
  BY <1>10 DEF Tick, vars
<1> QED
  BY <1>1, <1>2, <1>3, <1>4, <1>5, <1>6, <1>7, <1>8, <1>9, <1>10
  DEF Next, TaskStep

\* What a step may drop from the history.
Remembers ==
  /\ \A id \in DOMAIN gone \ DOMAIN gone' : clock - gone[id] >= History
  /\ \A id \in DOMAIN outgoing \ DOMAIN outgoing' :
       \/ outgoing[id].state = "offered" /\ ~outgoing[id].conn
       \/ /\ outgoing[id].state = "finished"
          /\ clock - outgoing[id].finished >= History

\* A time that is no longer recent is a whole history ago.
LEMMA NotRecent ==
  ASSUME TypeOK, NEW at \in Time, ~Recent(at)
  PROVE  clock - at >= History
BY WindowAssumption DEF TypeOK, Time, Recent

\* What a command drops was not recent.
LEMMA ForgetRemembers ==
  ASSUME TypeOK, HistoryFits
  PROVE  /\ \A id \in DOMAIN gone : ~Recent(gone[id]) => clock - gone[id] >= History
         /\ \A id \in DOMAIN outgoing \ KeptOutgoing :
              /\ outgoing[id].state = "finished"
              /\ clock - outgoing[id].finished >= History
<1>1. ASSUME NEW id \in DOMAIN gone, ~Recent(gone[id])
      PROVE  clock - gone[id] >= History
  <2>1. gone[id] \in Time
    BY DEF TypeOK
  <2> QED
    BY <1>1, <2>1, NotRecent
<1>2. ASSUME NEW id \in DOMAIN outgoing \ KeptOutgoing
      PROVE  /\ outgoing[id].state = "finished"
             /\ clock - outgoing[id].finished >= History
  <2>1. outgoing[id].finished # Never /\ ~Recent(outgoing[id].finished)
    BY DEF KeptOutgoing
  <2>2. outgoing[id].finished \in Time
    BY <2>1 DEF TypeOK, Outgoing
  <2> QED
    BY <2>1, <2>2, NotRecent DEF HistoryFits
<1> QED
  BY <1>1, <1>2

\* No step drops what is still of interest.
LEMMA RememberStep ==
  ASSUME TypeOK, HistoryFits, [Next]_vars
  PROVE  Remembers
<1> USE DEF Remembers, tables, bounds
<1>1. ASSUME NEW c \in Conn,
             \/ Refuse(c) \/ Queued(c) \/ NotQueued(c) \/ Link(c)
             \/ Track(c) \/ AnswerEnds(c)
             \/ Withdraw(c) \/ \E p \in Peer : Connect(c, p)
      PROVE  Remembers
  BY <1>1 DEF Refuse, Queued, NotQueued, Link, Track, AnswerEnds, Withdraw, Connect
<1>2. ASSUME NEW c \in Conn, WatchClosed(c) \/ WatchExpired(c) PROVE Remembers
  BY <1>2 DEF WatchClosed, WatchExpired, Bury, Put
<1>3. ASSUME NEW c \in Conn, NEW asked \in Asked, NEW id \in Id,
             Admit(c, asked, id)
      PROVE  Remembers
  BY <1>3 DEF Admit
<1>4. CASE ForgetHistory
  <2>1. /\ DOMAIN gone \ DOMAIN gone' = {id \in DOMAIN gone : ~Recent(gone[id])}
        /\ DOMAIN outgoing \ DOMAIN outgoing' = DOMAIN outgoing \ KeptOutgoing
    BY <1>4 DEF ForgetHistory, Keep
  <2> QED
    BY <2>1, ForgetRemembers
<1>5. ASSUME NEW p \in Peer, NEW id \in Id, Send(p, id) PROVE Remembers
  <2>1. /\ DOMAIN gone \ DOMAIN gone' = {i \in DOMAIN gone : ~Recent(gone[i])}
        /\ DOMAIN outgoing \ DOMAIN outgoing' \subseteq DOMAIN outgoing \ KeptOutgoing
    BY <1>5 DEF Send, Keep, Put
  <2> QED
    BY <2>1, ForgetRemembers
<1>6. ASSUME NEW id \in DOMAIN outgoing, Deliver(id) PROVE Remembers
  <2>1. UNCHANGED gone
    BY <1>6 DEF Deliver, SendStep
  <2>2. DOMAIN outgoing \ DOMAIN outgoing' \subseteq {id}
    BY <1>6 DEF Deliver, Remove, Keep
  <2> QED
    BY <1>6, <2>1, <2>2 DEF Deliver
<1>7. ASSUME NEW id \in DOMAIN outgoing, Accepted(id) \/ SendEnds(id)
      PROVE  Remembers
  BY <1>7 DEF Accepted, SendEnds, SetState, SendStep
<1>8. ASSUME NEW members \in SUBSET Peer, SetRoster(members) PROVE Remembers
  BY <1>8 DEF SetRoster
<1>9. CASE Tick \/ UNCHANGED vars
  BY <1>9 DEF Tick, vars
<1> QED
  BY <1>1, <1>2, <1>3, <1>4, <1>5, <1>6, <1>7, <1>8, <1>9
  DEF Next, TaskStep, Look, Take

-----------------------------------------------------------------------------
(* The theorems *)

\* The inductive invariant: the parts above, each kept by every step.
Inv ==
  /\ TypeOK /\ Counted /\ WithinLimit /\ PlaceHeld /\ WindowFits
  /\ IdsDistinct /\ HistoryFits

\* An empty registry satisfies the inductive invariant.
LEMMA InvInit == Init => Inv
<1> SUFFICES ASSUME Init PROVE Inv
  OBVIOUS
<1>1. DOMAIN incoming = {} /\ DOMAIN outgoing = {} /\ DOMAIN gone = {}
  BY DEF Init, Empty
<1>2. Counted
  BY <1>1, FS_EmptySet DEF Counted
<1>3. WithinLimit
  <2>1. ASSUME NEW p \in Peer
        PROVE  {id \in DOMAIN incoming : incoming[id].peer = p} = {}
    BY <1>1
  <2> QED
    BY <2>1, FS_EmptySet, LimitAssumption DEF WithinLimit
<1> QED
  BY <1>1, <1>2, <1>3, TypeInit
     DEF Inv, PlaceHeld, WindowFits, IdsDistinct, HistoryFits

\* Every behaviour of the registry stays within the inductive invariant.
THEOREM OffersInvariant == Spec => []Inv
<1>1. Inv /\ [Next]_vars => Inv'
  BY TypeStep, LimitStep, HeldStep, WindowStep, IdsStep, HistoryStep DEF Inv
<1> QED
  BY <1>1, InvInit, PTL DEF Spec

\* Every state of the registry is well formed; in particular every window is
\* clamped and every table is keyed by ids (mod.rs, Registry).
THEOREM OffersTypes == Spec => []TypeOK
BY OffersInvariant, PTL DEF Inv

\* No peer ever has more offers here than its share, whatever the limit and
\* however many connections it opens (mod.rs, admit).
THEOREM OffersWithinLimit == Spec => []WithinLimit
BY OffersInvariant, PTL DEF Inv

\* No place is taken by an offer that no task looks after (transfer.rs,
\* receive_offer).
THEOREM OffersPlaceHeld == Spec => []PlaceHeld
BY OffersInvariant, PTL DEF Inv

\* No id names two things, although ids are drawn again once history is
\* forgotten (mod.rs, new_id).
THEOREM OffersIdsDistinct == Spec => []IdsDistinct
BY OffersInvariant, PTL DEF Inv

\* What ended is remembered for its time and what has not is never dropped
\* (mod.rs, forget_history).
THEOREM OffersRemembered == Spec => Remembered
<1>1. Inv /\ [Next]_vars => [Remembers]_vars
  BY RememberStep DEF Inv
<1> QED
  BY <1>1, OffersInvariant, PTL DEF Spec, Remembered, Remembers

\* No offer is buried but by its own watcher, once its own connection is closed
\* or its own window is over, however often its id was used (transfer.rs,
\* bury_incoming).
THEOREM OffersBuriedWhenOver == Spec => BuriedWhenOver
<1>1. Inv /\ [Next]_vars => [Buries]_vars
  BY BuryStep DEF Inv
<1> QED
  BY <1>1, OffersInvariant, PTL DEF Spec, BuriedWhenOver, Buries
=============================================================================
