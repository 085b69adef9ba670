---------------------------- MODULE MCControlPlane ----------------------------
(* Three nodes and the hostname "web" for model checking ControlPlane. *)
EXTENDS ControlPlane, TLC

MCNode == 1 .. 3
MCHex == {"f1", "f2", "f3"}
MCFallback == <<"f1", "f2", "f3">>
MCLast == <<"web-f1", "web-f2", "web-f3">>
MCName == {"web", "web-1", "web-1-1"} \cup MCHex \cup {MCLast[n] : n \in MCNode}
MCTyped == {"Web"}
MCSpelling == MCName \cup MCTyped \cup {"w b"}
MCLabel ==
  [s \in MCSpelling |-> CASE s = "Web" -> "web"
                          [] s = "w b" -> NoName
                          [] OTHER -> s]
MCNumbered ==
  [h \in MCName |-> [k \in 1 .. 1 |-> IF h = "web" THEN "web-1" ELSE "web-1-1"]]
MCLastResort == [h \in MCName |-> MCLast]

\* What the theorems about names ask for holds here.
ASSUME HypothesesHold == DistinctFallbacks /\ OrdinaryNames

\* A network already under way: node 1 created it as "web", the others in
\* `joined' were admitted without a name, and everybody has the same roster.
Founded(joined) ==
  LET all == {1} \cup joined
      hosts == [i \in MCNode |-> IF i = 1 THEN "web" ELSE NoName]
      bound == [h \in MCName |-> IF h = "web" THEN 1 ELSE NoNode]
  IN  [n \in MCNode |->
         IF n \notin all THEN Default
         ELSE [coord   |-> 1,
               net     |-> IF n = 1 THEN MaxCommands ELSE NoNet,
               members |-> all,
               host    |-> hosts,
               invites |-> {},
               bind    |-> bound]]

EstablishedInit ==
  /\ mem \in {Founded({2}), Founded({2, 3})}
  /\ tasks = {}
  /\ net = {}
  /\ codes = [t \in Token |-> NoNode]
  /\ commands = 0

\* Two networks next to each other, and node 2 handed out a code for its own:
\* a node can move from one to the other in the middle of a command.
SideBySideInit ==
  LET own(n) == Create(Default, n, MaxCommands + n, NoName)
      token == CHOOSE t \in Token : TRUE
  IN  /\ mem = [n \in MCNode |->
                  CASE n = 1 -> own(1)
                    [] n = 2 -> GenerateInvite(own(2), token, 1, 0)
                    [] OTHER -> Default]
      /\ tasks = {}
      /\ net = {}
      /\ codes = [t \in Token |-> IF t = token THEN 2 ELSE NoNode]
      /\ commands = 1

EstablishedSpec == EstablishedInit /\ [][Next]_vars

\* From nothing, from a network already under way, and from two networks.
AnySpec ==
  (Init \/ EstablishedInit \/ SideBySideInit) /\ [][Next]_vars /\ Fairness
=============================================================================
