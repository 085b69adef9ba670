------------------------------ MODULE MCResolver ------------------------------
(* Two nodes, one hostname and two networks for model checking Resolver. *)
EXTENDS Resolver

MCNode == 1 .. 2
MCHex == {"f1", "f2"}
MCFallback == <<"f1", "f2">>
MCLast == <<"nas-f1", "nas-f2">>
MCName == {"nas", "nas-1"} \cup MCHex \cup {MCLast[n] : n \in MCNode}
MCTyped == {"NAS"}
MCSpelling == MCName \cup MCTyped
MCLabel == [s \in MCSpelling |-> IF s = "NAS" THEN "nas" ELSE s]
MCNumbered == [h \in MCName |-> [k \in 1 .. 1 |-> "nas-1"]]
MCLastResort == [h \in MCName |-> MCLast]

MCTitle == {"Home", "work"}
MCNetworkLabel == [t \in MCTitle |-> IF t = "Home" THEN "home" ELSE t]
MCMesh == <<"v6">>

Hosts(names) ==
  [members : {{2}, {1, 2}}, host : [MCNode -> {NoName} \cup names]]

Entries(roster) == {i \in MCNode : roster.host[i] # NoName}

\* What a coordinator sends: names are held by members, and by one each.
HonestRosters ==
  {r \in Hosts({"nas"}) : Entries(r) \subseteq r.members
                          /\ \A i, j \in Entries(r) : i = j}

\* One that does not validate what it sends.
AnyRosters == {r \in Hosts({"nas", "f2"}) : Entries(r) \subseteq r.members}

Question(labels, scopes, types) ==
  [label : labels, scope : scopes, type : types]

MCQuery ==
  {{q} : q \in Question({"nas", "f2"}, {Flat, "home", Outside}, {"AAAA"})}
  \cup {{q} : q \in Question({"nas"}, {Flat}, {"A", "TXT"})}
  \cup {Question({"nas", "f2"}, {Flat}, {"A"})}
=============================================================================
