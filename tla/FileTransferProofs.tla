-------------------------- MODULE FileTransferProofs --------------------------
(***************************************************************************)
(* Proofs about module FileTransfer, for a file of any size and any number *)
(* of faults.                                                              *)
(***************************************************************************)
EXTENDS FileTransfer, TLAPS

-----------------------------------------------------------------------------
(* Frames on their way *)

\* Frame f is somewhere in s.
Has(s, f) == \E i \in 1..Len(s) : s[i] = f

\* What is left of s when its last frames are lost.
Begins(p, s) == Len(p) =< Len(s) /\ \A i \in 1..Len(p) : p[i] = s[i]

LEMMA PrefixesBegin ==
  ASSUME NEW S, NEW s \in Seq(S), NEW p \in Prefixes(s)
  PROVE  p \in Seq(S) /\ Begins(p, s)
<1>1. PICK n \in 0..Len(s) : p = SubSeq(s, 1, n)
  BY DEF Prefixes
<1>2. /\ p \in Seq(S) /\ Len(p) = n
      /\ \A i \in 1..n : p[i] = s[i]
  BY <1>1
<1> QED
  BY <1>2 DEF Begins

LEMMA BeginsHas ==
  ASSUME NEW S, NEW s \in Seq(S), NEW p \in Seq(S), Begins(p, s),
         NEW f, Has(p, f)
  PROVE  Has(s, f)
BY DEF Begins, Has

LEMMA HeadTail ==
  ASSUME NEW S, NEW s \in Seq(S), s # <<>>
  PROVE  /\ Tail(s) \in Seq(S) /\ Head(s) \in S
         /\ Has(s, Head(s))
         /\ \A f : Has(Tail(s), f) => Has(s, f)
         /\ \A i \in 1..Len(Tail(s)) :
              Tail(s)[i] = s[i + 1] /\ i + 1 \in 1..Len(s) /\ i + 1 # 1
<1>1. Len(s) \in Nat /\ Len(s) > 0 /\ Head(s) = s[1] /\ Head(s) \in S
  OBVIOUS
<1>2. Tail(s) \in Seq(S) /\ Len(Tail(s)) = Len(s) - 1
  BY <1>1
<1>3. \A i \in 1..Len(Tail(s)) :
        Tail(s)[i] = s[i + 1] /\ i + 1 \in 1..Len(s) /\ i + 1 # 1
  BY <1>1, <1>2
<1> QED
  BY <1>1, <1>2, <1>3 DEF Has

LEMMA AppendHas ==
  ASSUME NEW S, NEW s \in Seq(S), NEW g \in S
  PROVE  /\ Append(s, g) \in Seq(S)
         /\ \A f : Has(Append(s, g), f) => f = g \/ Has(s, f)
         /\ \A i \in 1..Len(Append(s, g)) :
              \/ i \in 1..Len(s) /\ Append(s, g)[i] = s[i]
              \/ Append(s, g)[i] = g
<1>1. Append(s, g) \in Seq(S) /\ Len(Append(s, g)) = Len(s) + 1
  OBVIOUS
<1>2. \A i \in 1..Len(Append(s, g)) :
        \/ i \in 1..Len(s) /\ Append(s, g)[i] = s[i]
        \/ Append(s, g)[i] = g
  OBVIOUS
<1> QED
  BY <1>1, <1>2 DEF Has

-----------------------------------------------------------------------------
(* The connection *)

WireOK(w) ==
  DOMAIN w = End /\ w["r"] \in Seq(ToReceiver) /\ w["s"] \in Seq(ToSender)

NetOK ==
  shut \in [End -> Shut] /\ WireOK(wire) /\ dropped \in [End -> BOOLEAN]

CloseCode == Code \cup {"lost"}

\* What is on the wire is a beginning of what w has.
Cut(w) == \A e \in End : Begins(wire'[e], w[e])

LEMMA Ends ==
  /\ End = {"s", "r"} /\ Other("s") = "r" /\ Other("r") = "s"
  /\ \A e \in End : Other(e) \in End /\ Other(e) # e
BY DEF End, Other

LEMMA NotOpen ==
  /\ \A by, code : by # "nobody" => [by |-> by, code |-> code] # Open
  /\ NoConnection # Open
BY DEF Open, NoConnection

LEMMA BeginsSelf == \A s : Len(s) \in Nat => Begins(s, s) /\ Begins(<<>>, s)
BY DEF Begins

\* A task closes the connection and is gone.
LEMMA HangUpNet ==
  ASSUME NetOK, NEW e \in End, NEW code \in CloseCode, NEW w, WireOK(w),
         HangUp(e, code, w)
  PROVE  /\ NetOK' /\ Cut(w)
         /\ wire'[e] = <<>> /\ wire'[Other(e)] = w[Other(e)]
         /\ ~IsOpen(e)' /\ shut'[Other(e)] = shut[Other(e)]
<1>1. shut' \in [End -> Shut] /\ shut'[e] # Open /\ shut'[Other(e)] = shut[Other(e)]
  <2>1. [by |-> "self", code |-> code] \in Shut
    BY DEF Shut, CloseCode
  <2> QED
    BY <2>1, Ends, NotOpen DEF HangUp, NetOK, IsOpen
<1>2. dropped' \in [End -> BOOLEAN]
  BY DEF HangUp, NetOK
<1>3. wire' = [w EXCEPT ![e] = <<>>] /\ DOMAIN w = End
  BY DEF HangUp, WireOK
<1>4. WireOK(wire') /\ wire'[e] = <<>> /\ wire'[Other(e)] = w[Other(e)]
  BY <1>3, Ends DEF WireOK
<1>5. Len(w["s"]) \in Nat /\ Len(w["r"]) \in Nat
  BY DEF WireOK
<1>6. Cut(w)
  BY <1>4, <1>5, Ends, BeginsSelf DEF Cut
<1> QED
  BY <1>1, <1>2, <1>4, <1>6 DEF NetOK, IsOpen

\* The connection is closed here, and a task may still be reading.
LEMMA CloseNet ==
  ASSUME NetOK, NEW e \in End, NEW code \in CloseCode, NEW w, WireOK(w),
         Close(e, code, w)
  PROVE  /\ shut' \in [End -> Shut] /\ WireOK(wire') /\ Cut(w)
         /\ wire'[Other(e)] = w[Other(e)]
         /\ ~IsOpen(e)' /\ shut'[Other(e)] = shut[Other(e)]
<1>0. Len(w["s"]) \in Nat /\ Len(w["r"]) \in Nat
  BY DEF WireOK
<1>1. CASE IsOpen(e)
  <2>1. shut' = [shut EXCEPT ![e] = [by |-> "self", code |-> code]]
    BY <1>1 DEF Close
  <2>2. [by |-> "self", code |-> code] \in Shut
    BY DEF Shut, CloseCode
  <2>3. PICK rest \in Prefixes(w[e]) : wire' = [w EXCEPT ![e] = rest]
    BY <1>1 DEF Close
  <2>4. \A S : w[e] \in Seq(S) => rest \in Seq(S) /\ Begins(rest, w[e])
    BY PrefixesBegin
  <2>5. WireOK(wire') /\ wire'[e] = rest /\ wire'[Other(e)] = w[Other(e)]
    BY <2>3, <2>4, Ends DEF WireOK
  <2>6. Begins(rest, w[e])
    BY <2>4, Ends DEF WireOK
  <2>7. Cut(w)
    BY <1>0, <2>5, <2>6, Ends, BeginsSelf DEF Cut
  <2> QED
    BY <2>1, <2>2, <2>5, <2>7, Ends, NotOpen DEF NetOK, IsOpen
<1>2. CASE ~IsOpen(e)
  BY <1>0, <1>2, Ends, BeginsSelf DEF Close, NetOK, Cut, IsOpen
<1> QED
  BY <1>1, <1>2

\* An end takes its next frame.
LEMMA TakenWire ==
  ASSUME NetOK, NEW e \in End, wire[e] # <<>>
  PROVE  /\ WireOK(Taken(e))
         /\ Taken(e)[e] = Tail(wire[e]) /\ Taken(e)[Other(e)] = wire[Other(e)]
<1>1. Tail(wire["s"]) \in Seq(ToSender) \/ wire["s"] = <<>>
  BY HeadTail DEF NetOK, WireOK
<1>2. Tail(wire["r"]) \in Seq(ToReceiver) \/ wire["r"] = <<>>
  BY HeadTail DEF NetOK, WireOK
<1> QED
  BY <1>1, <1>2, Ends DEF Taken, NetOK, WireOK

\* An end writes a frame, which is lost if nobody reads any more.
LEMMA WrittenWire ==
  ASSUME NEW e \in End, NEW f, NEW w, WireOK(w),
         f \in IF e = "s" THEN ToReceiver ELSE ToSender
  PROVE  /\ WireOK(Written(w, e, f)) /\ Written(w, e, f)[e] = w[e]
         /\ \/ Written(w, e, f)[Other(e)] = w[Other(e)]
            \/ Written(w, e, f)[Other(e)] = Append(w[Other(e)], f)
BY Ends DEF Written, WireOK

-----------------------------------------------------------------------------
(* Type correctness.  The offer is the first frame a receiver gets and is     *)
(* taken before anything else happens there, so no daemon relays it.          *)

SendOK ==
  /\ out \in Live \cup {"none", "done", "rejected", "cancelled", "expired",
                        "failed"}
  /\ outConn \in BOOLEAN
  /\ spc \in {"idle", "dialing", "offering", "queued", "registered",
              "announcing", "waiting", "relaying", "sent", "ended"}
  /\ sent \in 0..Size
  /\ told \in {"nothing", "offered", "accepted", "over"}

SendCliOK ==
  /\ sc \in {"idle", "asked", "streaming", "hashed", "sent", "ended"}
  /\ read \in 0..Size
  /\ up \in Seq(Frame)

HandlerOK ==
  /\ inc \in {"none", "reserved", "waiting"}
  /\ hpc \in {"idle", "checking", "reading", "refusing", "queueing", "linking",
              "watching", "ended"}
  /\ rpc \in {"idle", "telling", "lingering", "ended"}

AcceptOK ==
  /\ recving \in BOOLEAN
  /\ apc \in {"idle", "taken", "accepted", "answering", "relaying",
              "committing", "lingering", "ended"}
  /\ received \in 0..Size
  /\ down \in Seq(Frame \cup {"incoming"})

RecvCliOK ==
  /\ rc \in {"idle", "asked", "receiving", "telling", "ended"}
  /\ got \in 0..Size
  /\ hashed \in BOOLEAN
  /\ verdict \in Seq({"end", "error"})
  /\ saved \in BOOLEAN

WorldOK ==
  /\ member \in [End -> BOOLEAN]
  /\ late \in [End -> BOOLEAN]

Parts ==
  NetOK /\ SendOK /\ SendCliOK /\ HandlerOK /\ AcceptOK /\ RecvCliOK /\ WorldOK

OfferFirst ==
  /\ spc \in {"idle", "dialing"} => wire["r"] = <<>> /\ hpc = "idle"
  /\ \A i \in 1..Len(wire["r"]) :
       wire["r"][i] = "offer" => i = 1 /\ hpc \in {"checking", "reading"}
  /\ hpc \in {"idle", "checking", "reading"} =>
       inc = "none" /\ apc = "idle" /\ rpc = "idle"

\* The daemon does nothing for an offer before it is asked to.
Begun == sc = "idle" => spc = "idle"

LEMMA TypeParts == TypeOK <=> Parts /\ faults \in 0..MaxFaults
BY DEF TypeOK, Parts, NetOK, WireOK, SendOK, SendCliOK, HandlerOK, AcceptOK,
       RecvCliOK, WorldOK

\* The sending daemon.
LEMMA FinishOK ==
  ASSUME NetOK, SendOK, NEW code \in CloseCode, NEW w, WireOK(w),
         NEW state \in {"none", "done", "rejected", "cancelled", "expired",
                        "failed"},
         Finish(state, code, w)
  PROVE  /\ NetOK' /\ SendOK'
         /\ wire'["s"] = <<>> /\ wire'["r"] = w["r"] /\ spc' = "ended"
         /\ ~IsOpen("s")' /\ shut'["r"] = shut["r"]
<1>1. HangUp("s", code, w)
  BY DEF Finish
<1>2. /\ NetOK'
      /\ wire'["s"] = <<>> /\ wire'["r"] = w["r"]
      /\ ~IsOpen("s")' /\ shut'["r"] = shut["r"]
  BY <1>1, HangUpNet, Ends
<1> QED
  BY <1>2 DEF Finish, SendOK

\* A step that leaves the handler alone and writes nothing to the receiver.
LEMMA OfferStays ==
  ASSUME NetOK, NetOK', OfferFirst, Begins(wire'["r"], wire["r"]),
         UNCHANGED <<hpc, inc>>, apc' = apc \/ apc # "idle",
         rpc' = rpc \/ rpc # "idle",
         spc' = spc \/ spc' \notin {"idle", "dialing"}
  PROVE  OfferFirst'
<1>1. /\ wire["r"] \in Seq(ToReceiver) /\ wire'["r"] \in Seq(ToReceiver)
      /\ Len(wire'["r"]) =< Len(wire["r"])
      /\ \A i \in 1..Len(wire'["r"]) : wire'["r"][i] = wire["r"][i]
  BY DEF NetOK, WireOK, Begins
<1>2. wire["r"] = <<>> => wire'["r"] = <<>>
  BY <1>1
<1> QED
  BY <1>1, <1>2 DEF OfferFirst

\* The parts a step of the sending daemon leaves alone.
LEMMA SendRest ==
  ASSUME Parts, StepSend
  PROVE  SendCliOK' /\ HandlerOK' /\ AcceptOK' /\ RecvCliOK' /\ WorldOK'
BY DEF Parts, StepSend, SendCliOK, HandlerOK, AcceptOK, RecvCliOK, WorldOK,
       sendCliVars, recvVars, acceptVars, recvCliVars

LEMMA SendStays ==
  ASSUME Parts, OfferFirst, StepSend, NetOK', SendOK', wire'["r"] = wire["r"],
         spc' \notin {"idle", "dialing"}
  PROVE  Parts' /\ OfferFirst'
<1>1. Begins(wire'["r"], wire["r"])
  BY BeginsSelf DEF Parts, NetOK, WireOK
<1>2. UNCHANGED <<hpc, inc, apc, rpc>>
  BY DEF StepSend, recvVars, acceptVars
<1> QED
  BY <1>1, <1>2, OfferStays, SendRest DEF Parts

LEMMA FinishStays ==
  ASSUME Parts, OfferFirst, StepSend, NEW code \in CloseCode, NEW w, WireOK(w),
         w["r"] = wire["r"],
         NEW state \in {"none", "done", "rejected", "cancelled", "expired",
                        "failed"},
         Finish(state, code, w)
  PROVE  Parts' /\ OfferFirst'
<1>1. NetOK' /\ SendOK' /\ wire'["r"] = wire["r"] /\ spc' = "ended"
  BY FinishOK DEF Parts
<1> QED
  BY <1>1, SendStays

LEMMA SendTaskType ==
  ASSUME Parts, OfferFirst, SendTask
  PROVE  Parts' /\ OfferFirst'
<1>0. /\ NetOK /\ SendOK /\ WireOK(wire) /\ wire["r"] = wire["r"]
      /\ {"done", "cancelled", "expired", "failed", "rejected"} \subseteq CloseCode
  BY DEF Parts, NetOK, CloseCode, Code
<1>1. wire["s"] # <<>> => WireOK(Taken("s")) /\ Taken("s")["r"] = wire["r"]
  BY <1>0, TakenWire, Ends
<1>a. ASSUME StepSend, NEW code \in CloseCode, NEW w, WireOK(w), w["r"] = wire["r"],
             NEW state \in {"none", "done", "rejected", "cancelled", "expired",
                            "failed"},
             Finish(state, code, w)
      PROVE  Parts' /\ OfferFirst'
  BY <1>a, FinishStays
<1>2. CASE Connect
  <2>1. /\ wire["r"] = <<>> /\ hpc = "idle" /\ inc = "none"
        /\ apc = "idle" /\ rpc = "idle"
    BY <1>2 DEF Connect, OfferFirst
  <2>2. WireOK(wire') /\ (wire'["r"] = <<>> \/ wire'["r"] = Append(<<>>, "offer"))
    BY <1>0, <1>2, <2>1, WrittenWire, Ends DEF Connect, ToReceiver
  <2>3. NetOK'
    BY <1>0, <1>2, <2>2 DEF Connect, NetOK, Shut
  <2>4. UNCHANGED <<inc, apc, rpc>> /\ hpc' = "checking" /\ spc' = "offering"
    BY <1>2 DEF Connect, acceptVars
  <2>5. OfferFirst'
    BY <2>1, <2>2, <2>4 DEF OfferFirst
  <2> QED
    BY <1>2, <2>3, <2>5
    DEF Connect, Parts, SendOK, SendCliOK, HandlerOK, AcceptOK, RecvCliOK, WorldOK,
        entryVars, sendCliVars, acceptVars, recvCliVars
<1>3. CASE ConnectFails \/ OfferUnanswered
  BY <1>0, <1>3, <1>a DEF ConnectFails, OfferUnanswered, TakeBack
<1>4. CASE OfferAnswered
  <2>1. CASE Head(wire["s"]) = "queued"
    BY <1>0, <1>1, <1>4, <2>1, SendStays
    DEF OfferAnswered, NetOK, SendOK, entryVars
  <2>2. CASE Head(wire["s"]) # "queued"
    BY <1>0, <1>1, <1>4, <2>2, <1>a DEF OfferAnswered, TakeBack
  <2> QED
    BY <2>1, <2>2
<1>5. CASE Register
  BY <1>0, <1>5, SendStays DEF Register, NetOK, SendOK, netVars
<1>6. CASE Recheck
  <2>1. NetOK' /\ wire'["r"] = wire["r"]
    <3>1. CASE member["s"]
      BY <1>0, <1>6, <3>1 DEF Recheck, NetOK
    <3>2. CASE ~member["s"]
      <4>1. Close("s", "not_member", wire) /\ UNCHANGED dropped
        BY <1>6, <3>2 DEF Recheck
      <4> QED
        BY <1>0, <4>1, CloseNet, Ends DEF NetOK, CloseCode, Code
    <3> QED
      BY <3>1, <3>2
  <2>2. SendOK' /\ StepSend /\ spc' = "announcing"
    BY <1>0, <1>6 DEF Recheck, SendOK, entryVars
  <2> QED
    BY <2>1, <2>2, SendStays
<1>7. CASE Announce
  <2>1. CASE sc = "ended"
    BY <1>0, <1>7, <2>1, <1>a DEF Announce
  <2>2. CASE sc # "ended"
    BY <1>0, <1>7, <2>2, SendStays DEF Announce, NetOK, SendOK, netVars, entryVars
  <2> QED
    BY <2>1, <2>2
<1>8. CASE Answered
  <2>1. CASE Head(wire["s"]) = "accept"
    BY <1>0, <1>1, <1>8, <2>1, SendStays
    DEF Answered, NetOK, SendOK, Live
  <2>2. CASE Head(wire["s"]) # "accept"
    BY <1>0, <1>1, <1>8, <2>2, <1>a DEF Answered
  <2> QED
    BY <2>1, <2>2
<1>9. CASE Ended
  <2>1. CASE ClosedWith \in {"expired", "rejected"}
    BY <1>0, <1>9, <2>1, <1>a DEF Ended
  <2>2. CASE ClosedWith \notin {"expired", "rejected"}
    BY <1>0, <1>9, <2>2, <1>a DEF Ended
  <2> QED
    BY <2>1, <2>2
<1>10. CASE Withdraw \/ Expire \/ Abandon \/ Stopped \/ Unconfirmed
  BY <1>0, <1>10, <1>a DEF Withdraw, Expire, Abandon, Stopped, Unconfirmed
<1>11. CASE Confirmed
  BY <1>0, <1>1, <1>11, <1>a DEF Confirmed
<1>12. CASE Relay
  <2>0. /\ up \in Seq(Frame) /\ up # <<>> /\ Tail(up) \in Seq(Frame)
        /\ Head(up) \in Frame
    BY <1>12, HeadTail DEF Relay, Parts, SendCliOK
  <2>1. SendCliOK' /\ HandlerOK' /\ AcceptOK' /\ RecvCliOK' /\ WorldOK'
    BY <1>12, <2>0
    DEF Relay, Parts, SendCliOK, HandlerOK, AcceptOK, RecvCliOK, WorldOK, recvVars,
        acceptVars, recvCliVars
  <2>2. UNCHANGED <<hpc, inc, apc, rpc>> /\ spc = "relaying"
    BY <1>12 DEF Relay, recvVars, acceptVars
  <2>3. CASE Finish("failed", "failed", wire)
    <3>1. NetOK' /\ SendOK' /\ wire'["r"] = wire["r"] /\ spc' = "ended"
      BY <1>0, <2>3, FinishOK
    <3>2. Begins(wire'["r"], wire["r"])
      BY <1>0, <3>1, BeginsSelf DEF WireOK
    <3> QED
      BY <1>0, <2>1, <2>2, <3>1, <3>2, OfferStays DEF Parts
  <2>4. CASE /\ Head(up) # "error" /\ Fits(Head(up), sent) /\ IsOpen("s")
             /\ wire' = Written(wire, "s", Head(up))
             /\ sent' = IF Head(up) = "data" THEN sent + 1 ELSE sent
             /\ spc' = IF Head(up) = "end" THEN "sent" ELSE "relaying"
             /\ UNCHANGED <<shut, dropped, entryVars, told>>
    <3>1. /\ WireOK(wire')
          /\ wire'["r"] = wire["r"] \/ wire'["r"] = Append(wire["r"], Head(up))
      BY <1>0, <2>0, <2>4, WrittenWire, Ends DEF ToReceiver
    <3>2. NetOK'
      BY <1>0, <2>4, <3>1 DEF NetOK
    <3>3. SendOK'
      BY <1>0, <2>4, SizeAssumption DEF SendOK, Fits, entryVars
    <3>4. wire["r"] \in Seq(ToReceiver) /\ Head(up) # "offer"
      BY <1>0, <2>0 DEF WireOK, Frame
    <3>5. \A i \in 1..Len(wire'["r"]) :
            wire'["r"][i] = "offer" => i \in 1..Len(wire["r"]) /\ wire["r"][i] = "offer"
      <4>1. Head(up) \in ToReceiver
        BY <2>0 DEF ToReceiver
      <4>2. CASE wire'["r"] = wire["r"]
        BY <4>2
      <4>3. CASE wire'["r"] = Append(wire["r"], Head(up))
        BY <3>4, <4>1, <4>3, AppendHas
      <4> QED
        BY <3>1, <4>2, <4>3
    <3>6. OfferFirst'
      BY <2>2, <2>4, <3>5 DEF OfferFirst
    <3> QED
      BY <2>1, <3>2, <3>3, <3>6 DEF Parts
  <2> QED
    BY <1>12, <2>3, <2>4 DEF Relay
<1> QED
  BY <1>2, <1>3, <1>4, <1>5, <1>6, <1>7, <1>8, <1>9, <1>10, <1>11, <1>12
  DEF SendTask

\* The sending CLI.
LEMMA SendCliType ==
  ASSUME Parts, OfferFirst, SendCli \/ InterruptSend
  PROVE  Parts' /\ OfferFirst'
<1>0. Parts /\ up \in Seq(Frame) /\ {"data", "hash", "end", "error"} \subseteq Frame
  BY DEF Parts, SendCliOK, Frame
<1>1. StepSendCli
  BY DEF SendCli, HearAccepted, ReadFile, WriteEnd, HearOver, InterruptSend
<1>2. SendCliOK'
  <2>1. \A f \in Frame : Append(up, f) \in Seq(Frame)
    BY <1>0
  <2> QED
    BY <1>0, <2>1, SizeAssumption
    DEF SendCli, HearAccepted, ReadFile, WriteEnd, HearOver, InterruptSend, Parts,
        SendCliOK
<1>3. NetOK' /\ SendOK' /\ HandlerOK' /\ AcceptOK' /\ RecvCliOK' /\ WorldOK'
  BY <1>1 DEF StepSendCli, Parts, NetOK, SendOK, HandlerOK, AcceptOK, RecvCliOK,
              WorldOK, netVars, sendVars, entryVars, recvVars, acceptVars,
              recvCliVars
<1>4. OfferFirst'
  BY <1>1 DEF StepSendCli, OfferFirst, netVars, sendVars, recvVars, acceptVars
<1> QED
  BY <1>2, <1>3, <1>4 DEF Parts

\* The handler has read the offer.
LEMMA OfferRead ==
  ASSUME OfferFirst, hpc # "idle", spc' = spc, ~Has(wire'["r"], "offer"),
         hpc' \notin {"idle", "checking", "reading"}
  PROVE  OfferFirst'
BY DEF OfferFirst, Has

LEMMA NoneEmpty == \A f : ~Has(<<>>, f)
BY DEF Has

LEMMA NoneLeft ==
  ASSUME OfferFirst, hpc \notin {"checking", "reading"}
  PROVE  ~Has(wire["r"], "offer")
BY DEF OfferFirst, Has

\* The receiving daemon's handler.
LEMMA OfferTaskType ==
  ASSUME Parts, OfferFirst, OfferTask
  PROVE  Parts' /\ OfferFirst'
<1>0. /\ NetOK /\ HandlerOK /\ WireOK(wire)
      /\ {"done", "failed", "not_member", "expired"} \subseteq CloseCode
  BY DEF Parts, NetOK, CloseCode, Code
<1>1. StepHandler
  BY DEF OfferTask, CheckSender, OfferMissing, Admit, Refuse, RefusalLingers, Queue,
         Link, WatchClosed, WatchExpired
<1>2. /\ SendOK' /\ SendCliOK' /\ AcceptOK' /\ RecvCliOK' /\ WorldOK'
      /\ UNCHANGED <<spc, apc, rpc>>
  BY <1>1 DEF StepHandler, StepRecv, Parts, SendOK, SendCliOK, AcceptOK,
              RecvCliOK, WorldOK, sendVars, entryVars, sendCliVars, acceptVars,
              recvCliVars
<1>3. HandlerOK'
  BY <1>0, <1>2 DEF OfferTask, CheckSender, OfferMissing, Admit, Refuse,
              RefusalLingers, Queue, Link, WatchClosed, WatchExpired, HandlerOK
<1>a. ASSUME NetOK', OfferFirst'
      PROVE  Parts' /\ OfferFirst'
  BY <1>2, <1>3, <1>a DEF Parts
<1>b. ASSUME NEW code \in CloseCode, HangUp("r", code, wire), hpc # "idle",
             hpc' = "ended"
      PROVE  Parts' /\ OfferFirst'
  <2>1. NetOK' /\ wire'["r"] = <<>>
    BY <1>0, <1>b, HangUpNet, Ends
  <2>2. OfferFirst'
    BY <1>2, <1>b, <2>1, NoneEmpty, OfferRead
  <2> QED
    BY <1>a, <2>1, <2>2
<1>c. ASSUME wire["r"] # <<>>, hpc = "reading"
      PROVE  /\ WireOK(Taken("r")) /\ Taken("r")["r"] = Tail(wire["r"])
             /\ ~Has(Taken("r")["r"], "offer")
  <2>1. WireOK(Taken("r")) /\ Taken("r")["r"] = Tail(wire["r"])
    BY <1>0, <1>c, TakenWire, Ends
  <2>2. \A i \in 1..Len(Tail(wire["r"])) : Tail(wire["r"])[i] # "offer"
    BY <1>0, <1>c, HeadTail DEF WireOK, OfferFirst
  <2> QED
    BY <2>1, <2>2 DEF Has
<1>d. ASSUME hpc \notin {"idle", "checking", "reading"},
             hpc' \notin {"idle", "checking", "reading"},
             NetOK', wire'["r"] = wire["r"]
      PROVE  Parts' /\ OfferFirst'
  BY <1>2, <1>a, <1>d, NoneLeft, OfferRead
<1>4. CASE CheckSender
  <2>1. CASE member["r"]
    <3>1. UNCHANGED netVars /\ hpc = "checking" /\ hpc' = "reading" /\ inc' = inc
      BY <1>4, <2>1 DEF CheckSender
    <3>2. NetOK'
      BY <1>0, <3>1 DEF NetOK, netVars
    <3>3. OfferFirst'
      BY <1>2, <3>1 DEF OfferFirst, netVars
    <3> QED
      BY <1>a, <3>2, <3>3
  <2>2. CASE ~member["r"]
    BY <1>0, <1>b, <1>4, <2>2 DEF CheckSender
  <2> QED
    BY <2>1, <2>2
<1>5. CASE OfferMissing
  BY <1>0, <1>b, <1>5 DEF OfferMissing
<1>6. CASE Admit
  <2>1. NetOK' /\ ~Has(wire'["r"], "offer")
    BY <1>0, <1>c, <1>6 DEF Admit, NetOK
  <2>2. OfferFirst'
    BY <1>2, <1>6, <2>1, OfferRead DEF Admit
  <2> QED
    BY <1>a, <2>1, <2>2
<1>7. CASE Refuse
  <2>1. CASE IsOpen("r")
    <3>1. WireOK(wire') /\ wire'["r"] = Taken("r")["r"]
      BY <1>c, <1>7, <2>1, WrittenWire, Ends DEF Refuse, ToSender
    <3>2. NetOK' /\ ~Has(wire'["r"], "offer")
      BY <1>0, <1>c, <1>7, <2>1, <3>1 DEF Refuse, NetOK
    <3>3. OfferFirst'
      BY <1>2, <1>7, <2>1, <3>2, OfferRead DEF Refuse
    <3> QED
      BY <1>a, <3>2, <3>3
  <2>2. CASE ~IsOpen("r")
    BY <1>0, <1>b, <1>7, <2>2 DEF Refuse
  <2> QED
    BY <2>1, <2>2
<1>8. CASE RefusalLingers
  BY <1>0, <1>b, <1>8 DEF RefusalLingers
<1>9. CASE Queue
  <2>1. CASE IsOpen("r")
    <3>1. WireOK(wire') /\ wire'["r"] = wire["r"]
      BY <1>0, <1>9, <2>1, WrittenWire, Ends DEF Queue, ToSender
    <3> QED
      BY <1>0, <1>d, <1>9, <2>1, <3>1 DEF Queue, NetOK
  <2>2. CASE ~IsOpen("r")
    BY <1>0, <1>b, <1>9, <2>2 DEF Queue
  <2> QED
    BY <2>1, <2>2
<1>10. CASE Link
  <2>1. CASE inc = "reserved"
    BY <1>0, <1>d, <1>10, <2>1 DEF Link, NetOK, netVars
  <2>2. CASE inc # "reserved"
    BY <1>0, <1>b, <1>10, <2>2 DEF Link
  <2> QED
    BY <2>1, <2>2
<1>11. CASE WatchClosed \/ WatchExpired
  <2>1. CASE UNCHANGED netVars
    BY <1>0, <1>d, <1>11, <2>1 DEF WatchClosed, WatchExpired, NetOK, netVars
  <2>2. CASE HangUp("r", "done", wire) \/ HangUp("r", "expired", wire)
    BY <1>0, <1>b, <1>11, <2>2 DEF WatchClosed, WatchExpired
  <2> QED
    BY <1>11, <2>1, <2>2 DEF WatchClosed, WatchExpired
<1> QED
  BY <1>4, <1>5, <1>6, <1>7, <1>8, <1>9, <1>10, <1>11 DEF OfferTask

\* The accept task is over, and reads no more.
LEMMA AcceptEnds ==
  ASSUME NetOK, NEW w, WireOK(w), NEW code \in CloseCode,
         EndClosing(code, w) \/ EndDropping(w)
  PROVE  /\ NetOK' /\ wire'["r"] = <<>> /\ wire'["s"] = w["s"]
         /\ shut'["s"] = shut["s"]
         /\ apc' = "ended" /\ recving' = FALSE
<1>1. ASSUME NEW c \in CloseCode, EndClosing(c, w)
      PROVE  /\ NetOK' /\ wire'["r"] = <<>> /\ wire'["s"] = w["s"]
             /\ shut'["s"] = shut["s"]
             /\ apc' = "ended" /\ recving' = FALSE
  BY <1>1, HangUpNet, Ends DEF EndClosing
<1>2. CASE hpc = "watching" /\ EndDropping(w)
  <2>0. wire' = [w EXCEPT !["r"] = <<>>] /\ DOMAIN w = End
    BY <1>2 DEF EndDropping, WireOK
  <2>1. WireOK(wire') /\ wire'["r"] = <<>> /\ wire'["s"] = w["s"]
    BY <2>0, Ends DEF WireOK
  <2> QED
    BY <1>2, <2>1, Ends DEF EndDropping, NetOK
<1>3. CASE hpc # "watching" /\ EndDropping(w)
  BY <1>1, <1>3 DEF EndDropping, CloseCode, Code
<1> QED
  BY <1>1, <1>2, <1>3

\* The answer task of the receiving daemon.
LEMMA AcceptTaskType ==
  ASSUME Parts, OfferFirst, AcceptTask
  PROVE  Parts' /\ OfferFirst'
<1>0. /\ NetOK /\ AcceptOK /\ WireOK(wire)
      /\ {"done", "failed", "cancelled"} \subseteq CloseCode
      /\ {"accept", "committed", "error"} \subseteq ToSender
  BY DEF Parts, NetOK, CloseCode, Code, ToSender
<1>1. StepAccept /\ apc # "idle"
  BY DEF AcceptTask, SayAccept, Track, AnswerCli, RelayDown, SenderGone, CliGivesUp,
         Commit, NoVerdict, AcceptLingers
<1>2. /\ SendOK' /\ SendCliOK' /\ HandlerOK' /\ RecvCliOK' /\ WorldOK'
      /\ UNCHANGED <<spc, inc, hpc, rpc>>
  BY <1>1 DEF StepAccept, StepRecv, Parts, SendOK, SendCliOK, HandlerOK,
              RecvCliOK, WorldOK, sendVars, entryVars, sendCliVars, recvCliVars
<1>3. hpc \notin {"idle", "checking", "reading"} /\ ~Has(wire["r"], "offer")
  BY <1>1, NoneLeft DEF OfferFirst
<1>a. ASSUME NetOK', AcceptOK', ~Has(wire'["r"], "offer")
      PROVE  Parts' /\ OfferFirst'
  BY <1>2, <1>3, <1>a, OfferRead DEF Parts
<1>b. ASSUME NEW w, WireOK(w), NEW code \in CloseCode,
             EndClosing(code, w) \/ EndDropping(w),
             received' = received,
             down' = down \/ down' = Append(down, "error")
      PROVE  Parts' /\ OfferFirst'
  <2>1. NetOK' /\ wire'["r"] = <<>> /\ apc' = "ended" /\ recving' = FALSE
    BY <1>0, <1>b, AcceptEnds
  <2>2. down' \in Seq(Frame \cup {"incoming"})
    <3>1. down \in Seq(Frame \cup {"incoming"}) /\ "error" \in Frame \cup {"incoming"}
      BY <1>0 DEF AcceptOK, Frame
    <3> QED
      BY <1>b, <3>1, AppendHas
  <2>3. AcceptOK'
    BY <1>0, <1>b, <2>1, <2>2 DEF AcceptOK
  <2> QED
    BY <1>a, <2>1, <2>3, NoneEmpty
<1>c. wire["r"] # <<>> => /\ WireOK(Taken("r"))
                         /\ Taken("r")["r"] = Tail(wire["r"])
                         /\ ~Has(Taken("r")["r"], "offer")
                         /\ Head(wire["r"]) \in Frame
  <2> SUFFICES ASSUME wire["r"] # <<>>
               PROVE  /\ WireOK(Taken("r"))
                      /\ Taken("r")["r"] = Tail(wire["r"])
                      /\ ~Has(Taken("r")["r"], "offer")
                      /\ Head(wire["r"]) \in Frame
    OBVIOUS
  <2>1. WireOK(Taken("r")) /\ Taken("r")["r"] = Tail(wire["r"])
    BY <1>0, TakenWire, Ends
  <2>2. /\ Head(wire["r"]) \in ToReceiver /\ Has(wire["r"], Head(wire["r"]))
        /\ Has(Tail(wire["r"]), "offer") => Has(wire["r"], "offer")
    BY <1>0, HeadTail DEF WireOK
  <2> QED
    BY <1>3, <2>1, <2>2 DEF ToReceiver
<1>d. /\ \A f \in {"accept", "committed", "error"} :
           WireOK(Written(wire, "r", f)) /\ Written(wire, "r", f)["r"] = wire["r"]
      /\ \A f \in {"committed", "error"} :
           WireOK(Tell(f)) /\ Tell(f)["r"] = wire["r"]
  BY <1>0, WrittenWire, Ends DEF Tell
<1>4. CASE SayAccept
  <2>1. CASE IsOpen("r")
    BY <1>0, <1>3, <1>4, <1>a, <1>d, <2>1 DEF SayAccept, NetOK, AcceptOK
  <2>2. CASE ~IsOpen("r")
    BY <1>0, <1>4, <1>b, <2>2 DEF SayAccept
  <2> QED
    BY <2>1, <2>2
<1>5. CASE Track
  BY <1>0, <1>3, <1>5, <1>a DEF Track, NetOK, AcceptOK, netVars
<1>6. CASE AnswerCli
  <2>1. CASE rc = "ended"
    BY <1>0, <1>6, <1>b, <2>1 DEF AnswerCli
  <2>2. CASE rc # "ended"
    <3>1. NetOK' /\ wire' = wire
      BY <1>0, <1>6, <2>2 DEF AnswerCli, NetOK, netVars
    <3>2. AcceptOK'
      BY <1>0, <1>6, <2>2 DEF AnswerCli, AcceptOK
    <3> QED
      BY <1>3, <1>a, <3>1, <3>2
  <2> QED
    BY <2>1, <2>2
<1>7. CASE RelayDown
  <2> DEFINE frame == Head(wire["r"])
  <2>0. wire["r"] # <<>> /\ apc = "relaying"
    BY <1>7 DEF RelayDown
  <2>1. CASE ~Fits(frame, received)
    BY <1>0, <1>7, <1>b, <1>c, <2>1 DEF RelayDown
  <2>2. CASE Fits(frame, received) /\ rc = "ended"
    BY <1>0, <1>7, <1>b, <1>c, <2>2 DEF RelayDown
  <2>3. CASE Fits(frame, received) /\ rc # "ended"
    <3>1. /\ down' = Append(down, frame) /\ wire' = Taken("r")
          /\ received' = IF frame = "data" THEN received + 1 ELSE received
          /\ apc' = IF frame = "end" THEN "committing" ELSE "relaying"
          /\ UNCHANGED <<shut, dropped, recving>>
      BY <1>7, <2>3 DEF RelayDown
    <3>2. NetOK' /\ ~Has(wire'["r"], "offer")
      BY <1>0, <1>c, <2>0, <3>1 DEF NetOK
    <3>3. frame \in Frame /\ (frame = "data" => received < Size)
      BY <1>c, <2>0, <2>3 DEF Fits
    <3> HIDE DEF frame
    <3>4. down' \in Seq(Frame \cup {"incoming"})
      BY <1>0, <3>1, <3>3 DEF AcceptOK
    <3>5. received' \in 0..Size
      BY <1>0, <3>1, <3>3, SizeAssumption DEF AcceptOK
    <3>6. AcceptOK'
      BY <1>0, <3>1, <3>4, <3>5 DEF AcceptOK
    <3> QED
      BY <1>a, <3>2, <3>6
  <2> QED
    BY <2>1, <2>2, <2>3
<1>8. CASE SenderGone
  BY <1>0, <1>8, <1>b DEF SenderGone
<1>9. CASE CliGivesUp
  BY <1>0, <1>9, <1>b, <1>d DEF CliGivesUp
<1>10. CASE Commit
  <2>1. WireOK(wire') /\ wire'["r"] = wire["r"]
    BY <1>10, <1>d DEF Commit
  <2> QED
    BY <1>0, <1>3, <1>10, <1>a, <2>1 DEF Commit, NetOK, AcceptOK
<1>11. CASE NoVerdict
  BY <1>0, <1>11, <1>b DEF NoVerdict
<1>12. CASE AcceptLingers
  BY <1>0, <1>12, <1>b DEF AcceptLingers
<1> QED
  BY <1>4, <1>5, <1>6, <1>7, <1>8, <1>9, <1>10, <1>11, <1>12 DEF AcceptTask

\* The reject task.
LEMMA RejectTaskType ==
  ASSUME Parts, OfferFirst, RejectTask
  PROVE  Parts' /\ OfferFirst'
<1>0. NetOK /\ WireOK(wire) /\ "rejected" \in CloseCode /\ "reject" \in ToSender
  BY DEF Parts, NetOK, CloseCode, Code, ToSender
<1>1. StepRecv /\ UNCHANGED <<inc, hpc, acceptVars>> /\ rpc # "idle"
  BY DEF RejectTask, SayReject, RejectLingers
<1>2. /\ SendOK' /\ SendCliOK' /\ AcceptOK' /\ RecvCliOK' /\ WorldOK'
      /\ UNCHANGED <<spc, apc, hpc, inc>>
  BY <1>1 DEF StepRecv, Parts, SendOK, SendCliOK, AcceptOK, RecvCliOK, WorldOK,
              sendVars, entryVars, sendCliVars, acceptVars, recvCliVars
<1>3. HandlerOK'
  BY <1>2 DEF RejectTask, SayReject, RejectLingers, Parts, HandlerOK
<1>4. CASE HangUp("r", "rejected", wire)
  <2>1. NetOK' /\ Cut(wire)
    BY <1>0, <1>4, HangUpNet, Ends
  <2> QED
    BY <1>0, <1>1, <1>2, <1>3, <2>1, OfferStays, Ends DEF Parts, Cut
<1>5. CASE wire' = Written(wire, "r", "reject") /\ UNCHANGED <<shut, dropped>>
  <2>1. WireOK(wire') /\ wire'["r"] = wire["r"]
    BY <1>0, <1>5, WrittenWire, Ends
  <2>2. NetOK' /\ Begins(wire'["r"], wire["r"])
    BY <1>0, <1>5, <2>1, BeginsSelf DEF NetOK, WireOK
  <2> QED
    BY <1>0, <1>1, <1>2, <1>3, <2>2, OfferStays DEF Parts
<1> QED
  BY <1>4, <1>5 DEF RejectTask, SayReject, RejectLingers

\* The receiving CLI.
LEMMA RecvCliType ==
  ASSUME Parts, OfferFirst, RecvCli \/ InterruptReceive
  PROVE  Parts' /\ OfferFirst'
<1>1. StepRecvCli
  BY DEF RecvCli, HearIncoming, SaveData, SaveHash, SaveFile, SayCommitted,
         HearFailure, InterruptReceive
<1>2. NetOK' /\ SendOK' /\ SendCliOK' /\ HandlerOK' /\ WorldOK'
  BY <1>1 DEF StepRecvCli, Parts, NetOK, SendOK, SendCliOK, HandlerOK, WorldOK,
              netVars, sendVars, entryVars, sendCliVars
<1>3. OfferFirst'
  BY <1>1 DEF StepRecvCli, OfferFirst, netVars, sendVars
<1>4. down \in Seq(Frame \cup {"incoming"}) /\ verdict \in Seq({"end", "error"})
  BY DEF Parts, AcceptOK, RecvCliOK
<1>5. down' = down \/ (down # <<>> /\ down' = Tail(down))
  BY DEF RecvCli, HearIncoming, SaveData, SaveHash, SaveFile, SayCommitted,
         HearFailure, InterruptReceive
<1>6. down' \in Seq(Frame \cup {"incoming"})
  BY <1>4, <1>5, HeadTail
<1>7. AcceptOK'
  BY <1>1, <1>6 DEF StepRecvCli, Parts, AcceptOK
<1>8. /\ Append(verdict, "end") \in Seq({"end", "error"})
      /\ Append(verdict, "error") \in Seq({"end", "error"})
  BY <1>4
<1>9. RecvCliOK'
  <2>0. RecvCliOK
    BY DEF Parts
  <2>1. CASE RefuseFile
    BY <1>8, <2>0, <2>1 DEF RefuseFile, RecvCliOK
  <2>2. CASE HearIncoming /\ ~RefuseFile
    BY <2>0, <2>2 DEF HearIncoming, RecvCliOK
  <2>3. CASE SaveData /\ ~RefuseFile
    BY <2>0, <2>3, SizeAssumption DEF SaveData, RecvCliOK
  <2>4. CASE SaveHash
    BY <2>0, <2>4 DEF SaveHash, RecvCliOK
  <2>5. CASE SaveFile /\ ~RefuseFile
    BY <2>0, <2>5 DEF SaveFile, RecvCliOK
  <2>6. CASE SayCommitted
    BY <1>8, <2>0, <2>6 DEF SayCommitted, RecvCliOK
  <2>7. CASE HearFailure \/ InterruptReceive
    BY <2>0, <2>7 DEF HearFailure, InterruptReceive, RecvCliOK
  <2> QED
    BY <2>1, <2>2, <2>3, <2>4, <2>5, <2>6, <2>7 DEF RecvCli
<1> QED
  BY <1>2, <1>3, <1>7, <1>9 DEF Parts

\* The commands that reach a daemon.
LEMMA CommandType ==
  ASSUME Parts, OfferFirst, Begun, SendCommand \/ AcceptCommand \/ RejectCommand
  PROVE  Parts' /\ OfferFirst'
<1>1. CASE SendCommand
  <2>1. NetOK' /\ SendOK' /\ SendCliOK'
    BY <1>1 DEF SendCommand, Parts, NetOK, SendOK, SendCliOK, netVars, Live
  <2>2. HandlerOK' /\ AcceptOK' /\ RecvCliOK' /\ WorldOK'
    BY <1>1 DEF SendCommand, Parts, HandlerOK, AcceptOK, RecvCliOK, WorldOK,
                recvVars, acceptVars, recvCliVars
  <2>3. CASE spc = "idle"
    <3>1. OfferFirst'
      BY <1>1, <2>3 DEF SendCommand, OfferFirst, netVars, recvVars, acceptVars
    <3> QED
      BY <2>1, <2>2, <3>1 DEF Parts
  <2> QED
    BY <1>1, <2>3 DEF SendCommand, Begun
<1>2. CASE AcceptCommand
  <2>1. NetOK' /\ SendOK' /\ SendCliOK' /\ HandlerOK'
    BY <1>2 DEF AcceptCommand, Parts, NetOK, SendOK, SendCliOK, HandlerOK, netVars,
                sendVars, entryVars, sendCliVars
  <2>2. AcceptOK' /\ RecvCliOK' /\ WorldOK'
    BY <1>2 DEF AcceptCommand, Parts, AcceptOK, RecvCliOK, WorldOK
  <2>3. OfferFirst'
    BY <1>2 DEF AcceptCommand, Answerable, OfferFirst, netVars, sendVars
  <2> QED
    BY <2>1, <2>2, <2>3 DEF Parts
<1>3. CASE RejectCommand
  <2>1. NetOK' /\ SendOK' /\ SendCliOK' /\ HandlerOK'
    BY <1>3 DEF RejectCommand, StepRecv, Parts, NetOK, SendOK, SendCliOK, HandlerOK,
                netVars, sendVars, entryVars, sendCliVars
  <2>2. AcceptOK' /\ RecvCliOK' /\ WorldOK'
    BY <1>3 DEF RejectCommand, StepRecv, Parts, AcceptOK, RecvCliOK, WorldOK,
                acceptVars, recvCliVars
  <2>3. OfferFirst'
    BY <1>3 DEF RejectCommand, StepRecv, Answerable, OfferFirst, netVars, sendVars,
                acceptVars
  <2> QED
    BY <2>1, <2>2, <2>3 DEF Parts
<1> QED
  BY <1>1, <1>2, <1>3

\* The roster changes, a connection is lost or closed, time passes.
LEMMA WorldType ==
  ASSUME Parts, OfferFirst, NEW e \in End,
         SetRosterSender \/ SetRosterReceiver \/ Lose(e) \/ Hear(e) \/ Pass(e)
  PROVE  Parts' /\ OfferFirst'
<1>0. /\ NetOK /\ WireOK(wire) /\ HandlerOK /\ "not_member" \in CloseCode
      /\ Len(wire["r"]) \in Nat
  BY DEF Parts, NetOK, WireOK, CloseCode, Code
<1>1. /\ SendOK' /\ SendCliOK' /\ RecvCliOK'
      /\ UNCHANGED <<spc, apc, hpc, rpc>>
  BY DEF SetRosterSender, SetRosterReceiver, Lose, Hear, Pass, Parts, SendOK,
         SendCliOK, RecvCliOK, sendVars, entryVars, sendCliVars, recvVars,
         acceptVars, recvCliVars
<1>2. WorldOK'
  BY DEF SetRosterSender, SetRosterReceiver, Lose, Hear, Pass, Parts, WorldOK, End
<1>3. AcceptOK' /\ HandlerOK'
  BY DEF SetRosterSender, SetRosterReceiver, Lose, Hear, Pass, Parts, AcceptOK,
         HandlerOK, recvVars, acceptVars
<1>a. ASSUME NetOK', Begins(wire'["r"], wire["r"]), UNCHANGED inc
      PROVE  Parts' /\ OfferFirst'
  BY <1>0, <1>1, <1>2, <1>3, <1>a, OfferStays DEF Parts
<1>4. CASE SetRosterSender
  <2>1. NetOK' /\ Begins(wire'["r"], wire["r"])
    <3>1. CASE Close("s", "not_member", wire)
      BY <1>0, <1>4, <3>1, CloseNet, Ends DEF SetRosterSender, NetOK, Cut
    <3>2. CASE UNCHANGED <<shut, wire>>
      BY <1>0, <1>4, <3>2, BeginsSelf DEF SetRosterSender, NetOK
    <3> QED
      BY <1>4, <3>1, <3>2 DEF SetRosterSender
  <2>2. UNCHANGED inc
    BY <1>4 DEF SetRosterSender, recvVars
  <2> QED
    BY <1>a, <2>1, <2>2
<1>5. CASE SetRosterReceiver
  <2>1. CASE Close("r", "not_member", wire) /\ inc' = "none"
    <3>1. /\ shut' \in [End -> Shut] /\ WireOK(wire')
          /\ Begins(wire'["r"], wire["r"])
      BY <1>0, <2>1, CloseNet, Ends DEF Cut
    <3>2. dropped' \in [End -> BOOLEAN]
      BY <1>0, <1>5 DEF SetRosterReceiver, NetOK, netVars
    <3>3. NetOK'
      BY <3>1, <3>2 DEF NetOK
    <3>4. /\ wire["r"] \in Seq(ToReceiver) /\ wire'["r"] \in Seq(ToReceiver)
          /\ Len(wire'["r"]) =< Len(wire["r"])
          /\ \A i \in 1..Len(wire'["r"]) : wire'["r"][i] = wire["r"][i]
      BY <1>0, <3>1 DEF WireOK, Begins
    <3>5. wire["r"] = <<>> => wire'["r"] = <<>>
      BY <3>4
    <3>6. OfferFirst'
      BY <1>1, <2>1, <3>4, <3>5 DEF OfferFirst
    <3> QED
      BY <1>1, <1>2, <1>3, <3>3, <3>6 DEF Parts
  <2>2. CASE UNCHANGED <<netVars, inc, recving>>
    BY <1>0, <1>a, <2>2, BeginsSelf DEF NetOK, netVars
  <2> QED
    BY <1>5, <2>1, <2>2 DEF SetRosterReceiver
<1>6. CASE Pass(e)
  BY <1>0, <1>6, <1>a, BeginsSelf DEF Pass, NetOK, netVars, recvVars
<1>7. CASE Lose(e) \/ Hear(e)
  <2>1. PICK rest \in Prefixes(wire[e]) : wire' = [wire EXCEPT ![e] = rest]
    BY <1>7 DEF Lose, Hear
  <2>2. \A S : wire[e] \in Seq(S) => rest \in Seq(S) /\ Begins(rest, wire[e])
    BY PrefixesBegin
  <2>3. WireOK(wire') /\ Begins(wire'["r"], wire["r"])
    <3>1. CASE e = "r"
      BY <1>0, <2>1, <2>2, <3>1 DEF WireOK, End
    <3>2. CASE e = "s"
      BY <1>0, <2>1, <2>2, <3>2, BeginsSelf DEF WireOK, End
    <3> QED
      BY <3>1, <3>2 DEF End
  <2>4. shut' \in [End -> Shut]
    <3>1. PICK code : /\ shut' = [shut EXCEPT ![e] = [by |-> "peer", code |-> code]]
                      /\ code = "lost" \/ (code = shut[Other(e)].code /\
                                           shut[Other(e)].by = "self")
      BY <1>7 DEF Lose, Hear
    <3>2. shut[Other(e)].by = "self" => shut[Other(e)].code \in CloseCode
      <4>1. shut[Other(e)] \in Shut
        BY <1>0, Ends DEF NetOK
      <4> QED
        BY <4>1 DEF Shut, NoConnection, Open, CloseCode
    <3>3. [by |-> "peer", code |-> code] \in Shut
      BY <3>1, <3>2 DEF Shut, CloseCode
    <3> QED
      BY <1>0, <3>1, <3>3 DEF NetOK
  <2>5. UNCHANGED <<dropped, inc>>
    BY <1>7 DEF Lose, Hear, recvVars
  <2> QED
    BY <1>0, <1>a, <2>3, <2>4, <2>5 DEF NetOK
<1> QED
  BY <1>4, <1>5, <1>6, <1>7

\* A daemon stops.
LEMMA StopType ==
  ASSUME Parts, OfferFirst, StopSender \/ StopReceiver
  PROVE  Parts' /\ OfferFirst'
<1>0. NetOK /\ WireOK(wire) /\ {"failed", "lost"} \subseteq CloseCode
  BY DEF Parts, NetOK, CloseCode, Code
<1>1. CASE StopSender
  BY <1>0, <1>1, FinishStays DEF StopSender, TakeBack
<1>2. CASE StopReceiver
  <2>1. NetOK' /\ wire'["r"] = <<>>
    BY <1>0, <1>2, HangUpNet, Ends DEF StopReceiver
  <2>2. SendOK' /\ SendCliOK' /\ RecvCliOK' /\ WorldOK' /\ spc' = spc
    BY <1>2 DEF StopReceiver, StepRecv, Parts, SendOK, SendCliOK, RecvCliOK,
                WorldOK, sendVars, entryVars, sendCliVars, recvCliVars
  <2>3. HandlerOK' /\ AcceptOK'
    BY <1>2 DEF StopReceiver, Parts, HandlerOK, AcceptOK
  <2>4. OfferFirst'
    BY <1>2, <2>1, <2>2 DEF StopReceiver, OfferFirst
  <2> QED
    BY <2>1, <2>2, <2>3, <2>4 DEF Parts
<1> QED
  BY <1>1, <1>2

Typed == Parts /\ OfferFirst /\ Begun /\ faults \in 0..MaxFaults

LEMMA TypedInit == Init => Typed
<1> SUFFICES ASSUME Init
             PROVE  Typed
  OBVIOUS
<1>1. NetOK /\ WorldOK
  <2>1. WireOK(wire)
    BY DEF Init, WireOK, End
  <2>2. shut \in [End -> Shut]
    BY DEF Init, Shut
  <2>3. dropped \in [End -> BOOLEAN] /\ WorldOK
    BY DEF Init, WorldOK
  <2> QED
    BY <2>1, <2>2, <2>3 DEF NetOK
<1>2. SendOK /\ SendCliOK /\ HandlerOK /\ AcceptOK /\ RecvCliOK
  <2>1. 0 \in 0..Size /\ \A S : <<>> \in Seq(S)
    BY SizeAssumption
  <2> QED
    BY <2>1 DEF Init, SendOK, SendCliOK, HandlerOK, AcceptOK, RecvCliOK
<1>3. OfferFirst
  BY DEF Init, OfferFirst, End
<1> QED
  BY <1>1, <1>2, <1>3, FaultAssumption DEF Init, Typed, Parts, Begun

LEMMA BegunStep == Begun /\ Next => Begun'
<1> SUFFICES ASSUME Begun, Next, sc' = "idle"
             PROVE  spc' = "idle"
  BY DEF Begun
<1>1. CASE SendTask \/ StopSender
  <2>1. spc # "idle" /\ UNCHANGED sc
    BY <1>1 DEF SendTask, Connect, ConnectFails, OfferAnswered, OfferUnanswered,
                Register, Recheck, Announce, Answered, Ended, Withdraw, Expire, Relay,
                Abandon, Stopped, Confirmed, Unconfirmed, StopSender, StepSend,
                sendCliVars
  <2> QED
    BY <2>1 DEF Begun
<1>2. CASE SendCli \/ InterruptSend
  BY <1>2 DEF SendCli, HearAccepted, ReadFile, WriteEnd, HearOver, InterruptSend,
              StepSendCli, sendVars, Begun
<1>3. CASE SendCommand
  BY <1>3 DEF SendCommand, Begun
<1>4. CASE OfferTask
  <2>1. StepRecv
    BY <1>4 DEF OfferTask, CheckSender, OfferMissing, Admit, Refuse,
         RefusalLingers, Queue, Link, WatchClosed, WatchExpired, StepHandler
  <2> QED
    BY <2>1 DEF StepRecv, sendVars, sendCliVars, Begun
<1>5. CASE AcceptTask
  <2>1. StepAccept
    BY <1>5 DEF AcceptTask, SayAccept, Track, AnswerCli, RelayDown, SenderGone,
         CliGivesUp, Commit, NoVerdict, AcceptLingers
  <2> QED
    BY <2>1 DEF StepAccept, StepRecv, sendVars, sendCliVars, Begun
<1>6. CASE RejectTask \/ RejectCommand \/ StopReceiver
  BY <1>6 DEF RejectTask, SayReject, RejectLingers, RejectCommand, StopReceiver,
              StepRecv, sendVars, sendCliVars, Begun
<1>7. CASE RecvCli \/ InterruptReceive
  <2>1. StepRecvCli
    BY <1>7 DEF RecvCli, HearIncoming, SaveData, SaveHash, SaveFile, SayCommitted,
         HearFailure, InterruptReceive
  <2> QED
    BY <2>1 DEF StepRecvCli, sendVars, sendCliVars, Begun
<1>8. CASE AcceptCommand \/ SetRosterSender \/ SetRosterReceiver
  BY <1>8 DEF AcceptCommand, SetRosterSender, SetRosterReceiver, sendVars,
              sendCliVars, Begun
<1>9. CASE \E e \in End : Lose(e) \/ Hear(e) \/ Pass(e)
  BY <1>9 DEF Lose, Hear, Pass, sendVars, sendCliVars, Begun
<1> QED
  BY <1>1, <1>2, <1>3, <1>4, <1>5, <1>6, <1>7, <1>8, <1>9 DEF Next, Users, Faults

LEMMA TypedStep == Typed /\ [Next]_vars => Typed'
<1> SUFFICES ASSUME Typed, [Next]_vars
             PROVE  Typed'
  OBVIOUS
<1>0. Parts /\ OfferFirst /\ Begun /\ faults \in 0..MaxFaults
  BY DEF Typed
<1>1. CASE UNCHANGED vars
  <2>1. Parts'
    BY <1>0, <1>1
    DEF vars, netVars, sendVars, entryVars, sendCliVars, recvVars, acceptVars,
        recvCliVars, Parts, NetOK, SendOK, SendCliOK, HandlerOK, AcceptOK,
        RecvCliOK, WorldOK
  <2>2. OfferFirst' /\ Begun' /\ faults' = faults
    BY <1>0, <1>1
    DEF vars, netVars, sendVars, sendCliVars, recvVars, acceptVars, OfferFirst,
        Begun
  <2> QED
    BY <1>0, <2>1, <2>2 DEF Typed
<1>2. CASE Next
  <2>1. faults' \in 0..MaxFaults
    BY <1>0, <1>2, FaultAssumption DEF Next
  <2>2. Begun'
    BY <1>0, <1>2, BegunStep
  <2>3. "s" \in End
    BY DEF End
  <2>4. Parts' /\ OfferFirst'
    BY <1>0, <1>2, <2>3, SendTaskType, SendCliType, OfferTaskType, AcceptTaskType,
       RejectTaskType, RecvCliType, CommandType, WorldType, StopType
    DEF Next, Users, Faults
  <2> QED
    BY <2>1, <2>2, <2>4 DEF Typed
<1> QED
  BY <1>1, <1>2

LEMMA TypedAlways == Spec => []Typed
BY TypedInit, TypedStep, PTL DEF Spec

\* Both daemons, both CLIs and the connection stay well formed: no daemon relays
\* more data than was offered, and the offer itself is never taken for a frame
\* of the file (transfer.rs; send.rs; receive.rs).
THEOREM TypeCorrect == Spec => []TypeOK
<1>1. Typed => TypeOK
  BY TypeParts DEF Typed
<1> QED
  BY <1>1, TypedAlways, PTL

-----------------------------------------------------------------------------
(* The sending daemon's list, against where its task is *)

Offering == {"dialing", "offering", "queued", "registered", "announcing", "waiting"}

TaskState ==
  /\ spc = "idle" => out = "none"
  /\ spc \in Offering => out = "offered"
  /\ spc \in {"relaying", "sent"} => out = "transferring"
  /\ spc = "ended" => out \notin Live
  /\ spc \in {"idle", "dialing", "offering", "queued"} => ~outConn

\* Whoever is not the sending daemon leaves its list and its task alone.
LEMMA SenderAlone ==
  ASSUME Next, ~SendTask, ~StopSender, ~SendCommand
  PROVE  UNCHANGED <<out, outConn, spc>>
<1>1. CASE SendCli \/ InterruptSend
  BY <1>1 DEF SendCli, HearAccepted, ReadFile, WriteEnd, HearOver, InterruptSend,
              StepSendCli, sendVars, entryVars
<1>2. CASE OfferTask
  BY <1>2 DEF OfferTask, CheckSender, OfferMissing, Admit, Refuse, RefusalLingers,
              Queue, Link, WatchClosed, WatchExpired, StepHandler, StepRecv,
              sendVars, entryVars
<1>3. CASE AcceptTask
  BY <1>3 DEF AcceptTask, SayAccept, Track, AnswerCli, RelayDown, SenderGone,
              CliGivesUp, Commit, NoVerdict, AcceptLingers, StepAccept, StepRecv,
              sendVars, entryVars
<1>4. CASE RejectTask \/ RejectCommand \/ StopReceiver
  BY <1>4 DEF RejectTask, SayReject, RejectLingers, RejectCommand, StopReceiver,
              StepRecv, sendVars, entryVars
<1>5. CASE RecvCli \/ InterruptReceive
  BY <1>5 DEF RecvCli, HearIncoming, SaveData, SaveHash, SaveFile, SayCommitted,
              HearFailure, InterruptReceive, StepRecvCli, sendVars, entryVars
<1>6. CASE AcceptCommand \/ SetRosterSender \/ SetRosterReceiver
  BY <1>6 DEF AcceptCommand, SetRosterSender, SetRosterReceiver, sendVars,
              entryVars
<1>7. CASE \E e \in End : Lose(e) \/ Hear(e) \/ Pass(e)
  BY <1>7 DEF Lose, Hear, Pass, sendVars, entryVars
<1> QED
  BY <1>1, <1>2, <1>3, <1>4, <1>5, <1>6, <1>7 DEF Next, Users, Faults

LEMMA SenderMoves ==
  ASSUME TaskState, SendTask \/ StopSender \/ (SendCommand /\ spc = "idle")
  PROVE  TaskState'
<1>1. ASSUME NEW state \in {"none", "done", "rejected", "cancelled", "expired",
                            "failed"},
             NEW code, NEW w, Finish(state, code, w)
      PROVE  TaskState'
  BY <1>1 DEF Finish, TaskState, Offering, Live
<1>2. CASE SendCommand /\ spc = "idle"
  BY <1>2 DEF SendCommand, TaskState, Offering, Live
<1>3. CASE StopSender \/ ConnectFails \/ OfferUnanswered
  BY <1>1, <1>3 DEF StopSender, ConnectFails, OfferUnanswered, TakeBack
<1>4. CASE Connect \/ Register \/ Recheck
  BY <1>4 DEF Connect, Register, Recheck, TaskState, Offering, entryVars
<1>5. CASE OfferAnswered
  <2>1. CASE Head(wire["s"]) = "queued"
    BY <1>5, <2>1 DEF OfferAnswered, TaskState, Offering, entryVars
  <2> QED
    BY <1>1, <1>5, <2>1 DEF OfferAnswered, TakeBack
<1>6. CASE Announce
  <2>1. CASE sc # "ended"
    BY <1>6, <2>1 DEF Announce, TaskState, Offering, entryVars
  <2> QED
    BY <1>1, <1>6, <2>1 DEF Announce
<1>7. CASE Answered
  <2>1. CASE Head(wire["s"]) = "accept"
    BY <1>7, <2>1 DEF Answered, TaskState, Offering, Live
  <2> QED
    BY <1>1, <1>7, <2>1 DEF Answered
<1>8. CASE Ended
  BY <1>1, <1>8 DEF Ended
<1>9. CASE Withdraw \/ Expire \/ Abandon \/ Stopped \/ Confirmed \/ Unconfirmed
  BY <1>1, <1>9 DEF Withdraw, Expire, Abandon, Stopped, Confirmed, Unconfirmed
<1>10. CASE Relay
  <2>1. CASE Finish("failed", "failed", wire)
    BY <1>1, <2>1
  <2>2. CASE spc' = (IF Head(up) = "end" THEN "sent" ELSE "relaying")
             /\ UNCHANGED entryVars
    BY <1>10, <2>2 DEF Relay, TaskState, Offering, entryVars
  <2> QED
    BY <1>10, <2>1, <2>2 DEF Relay
<1> QED
  BY <1>2, <1>3, <1>4, <1>5, <1>6, <1>7, <1>8, <1>9, <1>10 DEF SendTask

LEMMA TaskStateStep == Typed /\ TaskState /\ [Next]_vars => TaskState'
<1> SUFFICES ASSUME Typed, TaskState, [Next]_vars
             PROVE  TaskState'
  OBVIOUS
<1>1. CASE SendTask \/ StopSender
  BY <1>1, SenderMoves
<1>2. CASE SendCommand
  BY <1>2, SenderMoves DEF SendCommand, Typed, Begun
<1>3. CASE UNCHANGED <<out, outConn, spc>>
  BY <1>3 DEF TaskState
<1>4. CASE UNCHANGED vars
  BY <1>3, <1>4 DEF vars, sendVars, entryVars
<1> QED
  BY <1>1, <1>2, <1>3, <1>4, SenderAlone

LEMMA TaskStateAlways == Spec => []TaskState
<1>1. Init => TaskState
  BY DEF Init, TaskState, Offering
<1> QED
  BY <1>1, TypedAlways, TaskStateStep, PTL DEF Spec

\* Once the task is gone, the list of the sending daemon no longer shows the
\* offer as under way (transfer.rs, Outcome).
THEOREM EntrySettles == Spec => []EntrySettled
<1>1. TaskState => EntrySettled
  BY DEF TaskState, EntrySettled
<1> QED
  BY <1>1, TaskStateAlways, PTL

-----------------------------------------------------------------------------
(* Offers and the roster, on both sides *)

LEMMA WaitingStep == Typed /\ WaitingFromMember /\ [Next]_vars => WaitingFromMember'
<1> SUFFICES ASSUME Typed, WaitingFromMember, [Next]_vars
             PROVE  WaitingFromMember'
  OBVIOUS
<1>0. "r" \in End /\ "s" \in End /\ member \in [End -> BOOLEAN]
  BY DEF Typed, Parts, WorldOK, End
<1>a. ASSUME UNCHANGED member, inc' = inc \/ inc' = "none"
      PROVE  WaitingFromMember'
  BY <1>a DEF WaitingFromMember
<1>1. CASE SendTask \/ StopSender
  BY <1>1, <1>a DEF SendTask, Connect, ConnectFails, OfferAnswered,
    OfferUnanswered, Register, Recheck, Announce, Answered, Ended, Withdraw, Expire,
    Relay, Abandon, Stopped, Confirmed, Unconfirmed, StopSender, StepSend, recvVars
<1>2. CASE SendCli \/ InterruptSend
  BY <1>2, <1>a DEF SendCli, HearAccepted, ReadFile, WriteEnd, HearOver,
    InterruptSend, StepSendCli, recvVars
<1>3. CASE OfferTask
  <2>1. UNCHANGED member
    BY <1>3 DEF OfferTask, CheckSender, OfferMissing, Admit, Refuse, RefusalLingers,
      Queue, Link, WatchClosed, WatchExpired, StepHandler, StepRecv
  <2>2. CASE Admit
    BY <2>1, <2>2 DEF Admit, WaitingFromMember
  <2>3. CASE Link
    BY <2>1, <2>3 DEF Link, WaitingFromMember
  <2>4. CASE ~Admit /\ ~Link
    BY <1>3, <1>a, <2>1, <2>4 DEF OfferTask, CheckSender, OfferMissing, Refuse,
      RefusalLingers, Queue, WatchClosed, WatchExpired
  <2> QED
    BY <2>2, <2>3, <2>4
<1>4. CASE AcceptTask
  BY <1>4, <1>a DEF AcceptTask, SayAccept, Track, AnswerCli, RelayDown, SenderGone,
    CliGivesUp, Commit, NoVerdict, AcceptLingers, StepAccept, StepRecv
<1>5. CASE RejectTask \/ RejectCommand \/ StopReceiver
  BY <1>5, <1>a DEF RejectTask, SayReject, RejectLingers, RejectCommand,
    StopReceiver, StepRecv
<1>6. CASE RecvCli \/ InterruptReceive
  BY <1>6, <1>a DEF RecvCli, HearIncoming, SaveData, SaveHash, SaveFile,
    SayCommitted, HearFailure, InterruptReceive, StepRecvCli
<1>7. CASE SendCommand \/ AcceptCommand
  BY <1>7, <1>a DEF SendCommand, AcceptCommand, recvVars
<1>8. CASE SetRosterSender
  <2>1. member'["r"] = member["r"] /\ inc' = inc
    BY <1>0, <1>8 DEF SetRosterSender, recvVars
  <2> QED
    BY <2>1 DEF WaitingFromMember
<1>9. CASE SetRosterReceiver
  <2>1. CASE member["r"] /\ (inc # "none" \/ recving)
    BY <1>9, <2>1 DEF SetRosterReceiver, WaitingFromMember
  <2>2. CASE ~(member["r"] /\ (inc # "none" \/ recving))
    <3>1. inc' = inc /\ inc = "none"
      BY <1>9, <2>2 DEF SetRosterReceiver, WaitingFromMember
    <3> QED
      BY <3>1 DEF WaitingFromMember
  <2> QED
    BY <2>1, <2>2
<1>10. CASE \E e \in End : Lose(e) \/ Hear(e) \/ Pass(e)
  BY <1>10, <1>a DEF Lose, Hear, Pass, recvVars
<1>11. CASE UNCHANGED vars
  BY <1>11, <1>a DEF vars, recvVars
<1> QED
  BY <1>1, <1>2, <1>3, <1>4, <1>5, <1>6, <1>7, <1>8, <1>9, <1>10, <1>11
  DEF Next, Users, Faults

\* An offer waits here only while its sender is a member, although the check the
\* handler itself made is long past by then (mod.rs, admit and set_roster).
THEOREM WaitsFromMember == Spec => []WaitingFromMember
<1>1. Init => WaitingFromMember
  BY DEF Init, WaitingFromMember
<1> QED
  BY <1>1, TypedAlways, WaitingStep, PTL DEF Spec

\* Only the dialing of the sending daemon opens a connection.
LEMMA StaysShut ==
  ASSUME Typed, Next, ~SendTask, ~StopSender, IsOpen("s")'
  PROVE  IsOpen("s")
<1>0. shut \in [End -> Shut] /\ "s" \in End /\ "r" \in End /\ NetOK
      /\ WireOK(wire) /\ "not_member" \in CloseCode
  BY DEF Typed, Parts, NetOK, End, CloseCode, Code
<1>a. ASSUME shut'["s"] = shut["s"]
      PROVE  IsOpen("s")
  BY <1>a DEF IsOpen
<1>b. \A code, w : HangUp("r", code, w) => shut'["s"] = shut["s"]
  BY <1>0 DEF HangUp
<1>1. CASE SendCli \/ InterruptSend
  BY <1>1, <1>a DEF SendCli, HearAccepted, ReadFile, WriteEnd, HearOver,
    InterruptSend, StepSendCli, netVars
<1>2. CASE OfferTask
  BY <1>2, <1>a, <1>b DEF OfferTask, CheckSender, OfferMissing, Admit, Refuse,
    RefusalLingers, Queue, Link, WatchClosed, WatchExpired, netVars
<1>3. CASE AcceptTask
  <2>1. \A w : EndDropping(w) => shut'["s"] = shut["s"]
    BY <1>b DEF EndDropping, EndClosing
  <2>2. \A code, w : EndClosing(code, w) => shut'["s"] = shut["s"]
    BY <1>b DEF EndClosing
  <2> QED
    BY <1>3, <1>a, <2>1, <2>2 DEF AcceptTask, SayAccept, Track, AnswerCli,
      RelayDown, SenderGone, CliGivesUp, Commit, NoVerdict, AcceptLingers, netVars
<1>4. CASE RejectTask \/ RejectCommand \/ StopReceiver
  BY <1>4, <1>a, <1>b DEF RejectTask, SayReject, RejectLingers, RejectCommand,
    StopReceiver, netVars
<1>5. CASE RecvCli \/ InterruptReceive
  BY <1>5, <1>a DEF RecvCli, HearIncoming, SaveData, SaveHash, SaveFile,
    SayCommitted, HearFailure, InterruptReceive, StepRecvCli, netVars
<1>6. CASE SendCommand \/ AcceptCommand
  BY <1>6, <1>a DEF SendCommand, AcceptCommand, netVars
<1>7. CASE SetRosterSender
  BY <1>0, <1>7, <1>a, CloseNet DEF SetRosterSender
<1>8. CASE SetRosterReceiver
  <2>1. Close("r", "not_member", wire) => shut'["s"] = shut["s"]
    BY <1>0, CloseNet, Ends
  <2> QED
    BY <1>8, <1>a, <2>1 DEF SetRosterReceiver, netVars
<1>9. CASE \E e \in End : Pass(e)
  BY <1>9, <1>a DEF Pass, netVars
<1>10. CASE \E e \in End : Lose(e) \/ Hear(e)
  <2>1. PICK e \in End : Lose(e) \/ Hear(e)
    BY <1>10
  <2>2. PICK code : shut' = [shut EXCEPT ![e] = [by |-> "peer", code |-> code]]
    BY <2>1 DEF Lose, Hear
  <2>3. CASE e = "s"
    BY <1>0, <2>2, <2>3, NotOpen DEF IsOpen
  <2>4. CASE e = "r"
    BY <1>0, <1>a, <2>2, <2>4
  <2> QED
    BY <2>3, <2>4 DEF End
<1> QED
  BY <1>1, <1>2, <1>3, <1>4, <1>5, <1>6, <1>7, <1>8, <1>9, <1>10
  DEF Next, Users, Faults

\* What the sending daemon's own steps do.
LEMMA SendKeepsOffered ==
  ASSUME Typed, TaskState, OfferedToMember, SendTask \/ StopSender
  PROVE  OfferedToMember'
<1>0. NetOK /\ WireOK(wire) /\ "s" \in End /\ "not_member" \in CloseCode
  BY DEF Typed, Parts, NetOK, End, CloseCode, Code
<1>1. UNCHANGED member
  BY DEF SendTask, Connect, ConnectFails, OfferAnswered, OfferUnanswered, Register,
    Recheck, Announce, Answered, Ended, Withdraw, Expire, Relay, Abandon, Stopped,
    Confirmed, Unconfirmed, StopSender, StepSend
<1>2. CASE outConn' = FALSE
  BY <1>2 DEF OfferedToMember
<1>3. CASE Register
  BY <1>3 DEF Register, OfferedToMember
<1>4. CASE Recheck
  <2>1. CASE member["s"]
    BY <1>1, <2>1 DEF OfferedToMember
  <2>2. CASE ~member["s"]
    <3>1. ~IsOpen("s")'
      BY <1>0, <1>4, <2>2, CloseNet DEF Recheck
    <3> QED
      BY <3>1 DEF OfferedToMember
  <2> QED
    BY <2>1, <2>2
<1>5. CASE UNCHANGED <<outConn, shut>> /\ spc # "registered"
  BY <1>1, <1>5 DEF OfferedToMember, IsOpen
<1>6. \A state, code, w : Finish(state, code, w) => outConn' = FALSE
  BY DEF Finish
<1>7. CASE Connect \/ OfferAnswered
  <2>1. outConn' = outConn \/ outConn' = FALSE
    BY <1>6, <1>7 DEF Connect, OfferAnswered, TakeBack, entryVars
  <2>2. ~outConn
    BY <1>7 DEF Connect, OfferAnswered, TaskState
  <2> QED
    BY <2>1, <2>2 DEF OfferedToMember
<1>8. CASE ConnectFails \/ OfferUnanswered \/ StopSender
  BY <1>2, <1>6, <1>8 DEF ConnectFails, OfferUnanswered, StopSender, TakeBack
<1>9. CASE Announce \/ Answered \/ Relay
  BY <1>2, <1>5, <1>6, <1>9 DEF Announce, Answered, Relay, netVars, entryVars
<1>10. CASE Ended \/ Withdraw \/ Expire \/ Abandon \/ Stopped \/ Confirmed
            \/ Unconfirmed
  BY <1>2, <1>6, <1>10 DEF Ended, Withdraw, Expire, Abandon, Stopped, Confirmed,
    Unconfirmed
<1> QED
  BY <1>3, <1>4, <1>7, <1>8, <1>9, <1>10 DEF SendTask

LEMMA OfferedStep ==
  Typed /\ TaskState /\ OfferedToMember /\ [Next]_vars => OfferedToMember'
<1> SUFFICES ASSUME Typed, TaskState, OfferedToMember, [Next]_vars
             PROVE  OfferedToMember'
  OBVIOUS
<1>0. NetOK /\ WireOK(wire) /\ "not_member" \in CloseCode
      /\ "r" \in End /\ "s" \in End /\ member \in [End -> BOOLEAN]
  BY DEF Typed, Parts, NetOK, WorldOK, End, CloseCode, Code
<1>1. CASE SendTask \/ StopSender
  BY <1>1, SendKeepsOffered
<1>2. CASE SendCommand
  <2>1. ~outConn /\ outConn' = outConn
    BY <1>2 DEF SendCommand, Typed, Begun, TaskState
  <2> QED
    BY <2>1 DEF OfferedToMember
<1>3. CASE SetRosterSender
  <2>1. UNCHANGED <<outConn, spc>>
    BY <1>3 DEF SetRosterSender, sendVars, entryVars
  <2>2. CASE ~member["s"]
    <3>1. member'["s"]
      BY <1>0, <1>3, <2>2 DEF SetRosterSender
    <3> QED
      BY <3>1 DEF OfferedToMember
  <2>3. CASE member["s"] /\ outConn
    <3>1. ~IsOpen("s")'
      BY <1>0, <1>3, <2>3, CloseNet DEF SetRosterSender
    <3> QED
      BY <3>1 DEF OfferedToMember
  <2>4. CASE ~outConn
    BY <2>1, <2>4 DEF OfferedToMember
  <2> QED
    BY <2>2, <2>3, <2>4
<1>4. CASE Next /\ ~SendTask /\ ~StopSender /\ ~SendCommand /\ ~SetRosterSender
  <2>1. UNCHANGED <<outConn, spc>>
    BY <1>4, SenderAlone
  <2>2. IsOpen("s")' => IsOpen("s")
    BY <1>4, StaysShut
  <2>3. member'["s"] = member["s"]
    <3>1. CASE SetRosterReceiver
      BY <1>0, <3>1 DEF SetRosterReceiver
    <3>2. CASE ~SetRosterReceiver
      <4>1. CASE \E e \in End : Lose(e) \/ Hear(e) \/ Pass(e)
        BY <4>1 DEF Lose, Hear, Pass
      <4>2. CASE OfferTask \/ AcceptTask \/ RejectTask \/ RejectCommand \/ StopReceiver
        BY <4>2 DEF OfferTask, CheckSender, OfferMissing, Admit, Refuse,
          RefusalLingers, Queue, Link, WatchClosed, WatchExpired, StepHandler,
          AcceptTask, SayAccept, Track, AnswerCli, RelayDown, SenderGone,
          CliGivesUp, Commit, NoVerdict, AcceptLingers, StepAccept, RejectTask,
          SayReject, RejectLingers, RejectCommand, StopReceiver, StepRecv
      <4>3. CASE SendCli \/ InterruptSend \/ RecvCli \/ InterruptReceive \/ AcceptCommand
        BY <4>3 DEF SendCli, HearAccepted, ReadFile, WriteEnd, HearOver,
          InterruptSend, StepSendCli, RecvCli, HearIncoming, SaveData, SaveHash,
          SaveFile, SayCommitted, HearFailure, InterruptReceive, StepRecvCli,
          AcceptCommand
      <4> QED
        BY <1>4, <3>2, <4>1, <4>2, <4>3 DEF Next, Users, Faults
    <3> QED
      BY <3>1, <3>2
  <2> QED
    BY <2>1, <2>2, <2>3 DEF OfferedToMember
<1>5. CASE UNCHANGED vars
  BY <1>5 DEF vars, netVars, sendVars, entryVars, OfferedToMember, IsOpen
<1> QED
  BY <1>1, <1>2, <1>3, <1>4, <1>5

\* A peer that left the sender's roster is offered nothing for longer than the
\* one check that follows the delivery (mod.rs, set_roster; transfer.rs, send).
THEOREM OffersToMember == Spec => []OfferedToMember
<1>1. Init => OfferedToMember
  BY DEF Init, OfferedToMember
<1> QED
  BY <1>1, TypedAlways, TaskStateAlways, OfferedStep, PTL DEF Spec

-----------------------------------------------------------------------------
(* What the sender is told agrees with what is saved: FileTransfer implements *)
(* Offer.  The end of the file leaves the sender once it has relayed all of   *)
(* it, and nothing is saved before the end arrives; a commitment leaves the   *)
(* receiver once the file is saved, and nothing is reported as delivered      *)
(* before the commitment arrives.                                             *)

EndSent ==
  Has(wire["r"], "end") \/ Has(down, "end") \/ saved
    => spc = "sent" \/ (spc = "ended" /\ out \in {"failed", "none", "done"})

CommitSaved ==
  (Has(wire["s"], "committed") \/ Has(verdict, "end") \/ rc = "telling"
     \/ out = "done")
  => saved

NotYet == {"idle", "asked", "receiving"}
SavedOnce == rc \in NotYet => ~saved

\* How frames move, and what the receiving CLI makes of them, in one step.
FrameStep ==
  /\ Has(wire'["r"], "end") => Has(wire["r"], "end") \/ spc' = "sent"
  /\ Has(down', "end") => Has(down, "end") \/ Has(wire["r"], "end")
  /\ Has(wire'["s"], "committed") => Has(wire["s"], "committed") \/ Has(verdict, "end")
  /\ Has(verdict', "end") => Has(verdict, "end") \/ rc = "telling"

SaveStep ==
  /\ \/ saved' = saved
     \/ /\ saved' = TRUE /\ rc = "receiving" /\ rc' = "telling" /\ Has(down, "end")
        /\ UNCHANGED <<out, spc>>
  /\ rc' = "telling" => rc = "telling" \/ saved'
  /\ rc' \in NotYet => rc \in NotYet /\ saved' = saved

\* The wires, for a step that writes neither an end nor a commitment.
Quiet == /\ Has(wire'["r"], "end") => Has(wire["r"], "end")
         /\ Has(wire'["s"], "committed") => Has(wire["s"], "committed")

LEMMA QuietWire ==
  ASSUME NetOK, NetOK', NEW w, WireOK(w), Cut(w),
         Has(w["r"], "end") => Has(wire["r"], "end"),
         Has(w["s"], "committed") => Has(wire["s"], "committed")
  PROVE  Quiet
<1>1. /\ w["r"] \in Seq(ToReceiver) /\ wire'["r"] \in Seq(ToReceiver)
      /\ w["s"] \in Seq(ToSender) /\ wire'["s"] \in Seq(ToSender)
      /\ Begins(wire'["r"], w["r"]) /\ Begins(wire'["s"], w["s"])
  BY DEF NetOK, WireOK, Cut, End
<1> QED
  BY <1>1, BeginsHas DEF Quiet

LEMMA QuietTaken ==
  ASSUME NetOK, NEW e \in End, wire[e] # <<>>
  PROVE  /\ WireOK(Taken(e))
         /\ \A f, x : x \in End /\ Has(Taken(e)[x], f) => Has(wire[x], f)
         /\ Has(wire[e], Head(wire[e]))
<1>1. /\ WireOK(Taken(e)) /\ Taken(e)[e] = Tail(wire[e])
      /\ Taken(e)[Other(e)] = wire[Other(e)]
  BY TakenWire
<1>2. Has(wire[e], Head(wire[e])) /\ \A f : Has(Tail(wire[e]), f) => Has(wire[e], f)
  BY HeadTail DEF NetOK, WireOK, End
<1> QED
  BY <1>1, <1>2, Ends

\* A frame written by end e, on top of w.
LEMMA WrittenHas ==
  ASSUME NEW e \in End, NEW f, NEW w, WireOK(w),
         f \in IF e = "s" THEN ToReceiver ELSE ToSender
  PROVE  \A g, x : x \in End /\ Has(Written(w, e, f)[x], g) =>
           Has(w[x], g) \/ (g = f /\ x = Other(e))
<1>1. /\ Written(w, e, f)[e] = w[e]
      /\ \/ Written(w, e, f)[Other(e)] = w[Other(e)]
         \/ Written(w, e, f)[Other(e)] = Append(w[Other(e)], f)
  BY WrittenWire
<1>2. \A g : Has(Append(w[Other(e)], f), g) => g = f \/ Has(w[Other(e)], g)
  <2>1. CASE e = "s"
    BY <2>1, AppendHas, Ends DEF WireOK
  <2>2. CASE e = "r"
    BY <2>2, AppendHas, Ends DEF WireOK
  <2> QED
    BY <2>1, <2>2 DEF End
<1> QED
  BY <1>1, <1>2, Ends

\* Steps that leave the receiving CLI alone.
LEMMA QuietStep ==
  ASSUME Quiet, UNCHANGED <<down, recvCliVars>>
  PROVE  FrameStep /\ SaveStep
BY DEF Quiet, FrameStep, SaveStep, recvCliVars

LEMMA SendFrames ==
  ASSUME Typed, SendTask \/ StopSender
  PROVE  FrameStep /\ SaveStep
<1>0. /\ NetOK /\ SendOK /\ WireOK(wire) /\ "s" \in End /\ "r" \in End
      /\ {"done", "cancelled", "expired", "failed", "rejected", "not_member"}
           \subseteq CloseCode
  BY DEF Typed, Parts, NetOK, CloseCode, Code, End
<1>1. UNCHANGED <<down, recvCliVars>>
  BY DEF SendTask, Connect, ConnectFails, OfferAnswered, OfferUnanswered, Register,
    Recheck, Announce, Answered, Ended, Withdraw, Expire, Relay, Abandon, Stopped,
    Confirmed, Unconfirmed, StopSender, StepSend, recvVars, acceptVars
<1>a. ASSUME Quiet
      PROVE  FrameStep /\ SaveStep
  BY <1>1, <1>a, QuietStep
<1>b. ASSUME NEW code \in CloseCode, NEW w, WireOK(w), w["r"] = wire["r"],
             NEW state \in {"none", "done", "rejected", "cancelled", "expired",
                            "failed"},
             Finish(state, code, w)
      PROVE  FrameStep /\ SaveStep
  <2>1. wire'["s"] = <<>> /\ wire'["r"] = w["r"]
    BY <1>0, <1>b, FinishOK
  <2>2. Quiet
    BY <1>b, <2>1, NoneEmpty DEF Quiet
  <2> QED
    BY <1>a, <2>2
<1>c. ASSUME wire' = wire
      PROVE  FrameStep /\ SaveStep
  BY <1>a, <1>c DEF Quiet
<1>d. wire["s"] # <<>> => /\ WireOK(Taken("s")) /\ Taken("s")["r"] = wire["r"]
                         /\ (wire' = Taken("s") => Quiet)
  <2>1. wire["s"] # <<>> => WireOK(Taken("s")) /\ Taken("s")["r"] = wire["r"]
    BY <1>0, TakenWire, Ends
  <2>2. wire["s"] # <<>> /\ wire' = Taken("s") => Quiet
    BY <1>0, QuietTaken DEF Quiet
  <2> QED
    BY <2>1, <2>2
<1>2. CASE Connect
  <2>1. wire' = Written(wire, "s", "offer") /\ "offer" \in ToReceiver
    BY <1>2 DEF Connect, ToReceiver
  <2>2. Quiet
    BY <1>0, <2>1, WrittenHas DEF Quiet
  <2> QED
    BY <1>a, <2>2
<1>3. CASE ConnectFails \/ OfferUnanswered \/ StopSender
  BY <1>0, <1>3, <1>b DEF ConnectFails, OfferUnanswered, StopSender, TakeBack
<1>4. CASE OfferAnswered
  <2>1. CASE Head(wire["s"]) = "queued"
    BY <1>4, <1>a, <1>d, <2>1 DEF OfferAnswered
  <2>2. CASE Head(wire["s"]) # "queued"
    BY <1>0, <1>4, <1>b, <1>d, <2>2 DEF OfferAnswered, TakeBack
  <2> QED
    BY <2>1, <2>2
<1>5. CASE Register
  BY <1>5, <1>c DEF Register, netVars
<1>6. CASE Recheck
  <2>1. CASE member["s"]
    BY <1>6, <1>c, <2>1 DEF Recheck
  <2>2. CASE ~member["s"]
    <3>1. Close("s", "not_member", wire) /\ UNCHANGED dropped
      BY <1>6, <2>2 DEF Recheck
    <3>2. NetOK' /\ Cut(wire)
      BY <1>0, <3>1, CloseNet DEF NetOK
    <3>3. Quiet
      BY <1>0, <3>2, QuietWire
    <3> QED
      BY <1>a, <3>3
  <2> QED
    BY <2>1, <2>2
<1>7. CASE Announce
  <2>1. CASE sc = "ended"
    BY <1>0, <1>7, <1>b, <2>1 DEF Announce
  <2>2. CASE sc # "ended"
    BY <1>7, <1>c, <2>2 DEF Announce, netVars
  <2> QED
    BY <2>1, <2>2
<1>8. CASE Answered
  <2>1. CASE Head(wire["s"]) = "accept"
    BY <1>8, <1>a, <1>d, <2>1 DEF Answered
  <2>2. CASE Head(wire["s"]) # "accept"
    BY <1>0, <1>8, <1>b, <1>d, <2>2 DEF Answered
  <2> QED
    BY <2>1, <2>2
<1>9. CASE Ended
  <2>1. CASE ClosedWith \in {"expired", "rejected"}
    BY <1>0, <1>9, <1>b, <2>1 DEF Ended
  <2>2. CASE ClosedWith \notin {"expired", "rejected"}
    BY <1>0, <1>9, <1>b, <2>2 DEF Ended
  <2> QED
    BY <2>1, <2>2
<1>10. CASE Withdraw \/ Expire \/ Abandon \/ Stopped \/ Unconfirmed
  BY <1>0, <1>10, <1>b DEF Withdraw, Expire, Abandon, Stopped, Unconfirmed
<1>11. CASE Confirmed
  BY <1>0, <1>11, <1>b, <1>d DEF Confirmed
<1>12. CASE Relay
  <2>1. CASE Finish("failed", "failed", wire)
    BY <1>0, <1>b, <2>1
  <2>2. CASE /\ wire' = Written(wire, "s", Head(up))
             /\ spc' = IF Head(up) = "end" THEN "sent" ELSE "relaying"
    <3>1. Head(up) \in ToReceiver
      <4>1. up \in Seq(Frame) /\ up # <<>>
        BY <1>12 DEF Relay, Typed, Parts, SendCliOK
      <4> QED
        BY <4>1, HeadTail DEF ToReceiver
    <3>2. \A g, x : x \in End /\ Has(wire'[x], g) =>
                      Has(wire[x], g) \/ (g = Head(up) /\ x = Other("s"))
      BY <1>0, <2>2, <3>1, WrittenHas
    <3> QED
      BY <1>0, <1>1, <2>2, <3>2, Ends DEF FrameStep, SaveStep, recvCliVars
  <2> QED
    BY <1>12, <2>1, <2>2 DEF Relay
<1> QED
  BY <1>2, <1>3, <1>4, <1>5, <1>6, <1>7, <1>8, <1>9, <1>10, <1>11, <1>12
  DEF SendTask

LEMMA HandlerFrames ==
  ASSUME Typed, OfferTask \/ RejectTask \/ RejectCommand \/ StopReceiver
  PROVE  FrameStep /\ SaveStep
<1>0. /\ NetOK /\ WireOK(wire) /\ "s" \in End /\ "r" \in End
      /\ {"done", "failed", "not_member", "expired", "rejected", "lost"}
           \subseteq CloseCode
      /\ {"queued", "refused", "reject"} \subseteq ToSender
  BY DEF Typed, Parts, NetOK, CloseCode, Code, ToSender, End
<1>1. UNCHANGED <<down, recvCliVars>>
  BY DEF OfferTask, CheckSender, OfferMissing, Admit, Refuse, RefusalLingers, Queue,
    Link, WatchClosed, WatchExpired, StepHandler, RejectTask, SayReject,
    RejectLingers, RejectCommand, StopReceiver, StepRecv, acceptVars
<1>a. ASSUME Quiet
      PROVE  FrameStep /\ SaveStep
  BY <1>1, <1>a, QuietStep
<1>b. ASSUME NEW code \in CloseCode, HangUp("r", code, wire)
      PROVE  Quiet
  BY <1>0, <1>b, HangUpNet, NoneEmpty, Ends DEF Quiet
<1>c. ASSUME UNCHANGED netVars
      PROVE  Quiet
  BY <1>c DEF Quiet, netVars
<1>d. ASSUME wire["r"] # <<>>
      PROVE  /\ wire' = Taken("r") => Quiet
             /\ wire' = Written(Taken("r"), "r", "refused") => Quiet
  <2>1. /\ WireOK(Taken("r"))
        /\ \A f, x : x \in End /\ Has(Taken("r")[x], f) => Has(wire[x], f)
    BY <1>0, <1>d, QuietTaken
  <2>2. \A g, x : x \in End /\ Has(Written(Taken("r"), "r", "refused")[x], g) =>
                    Has(Taken("r")[x], g) \/ (g = "refused" /\ x = Other("r"))
    BY <1>0, <2>1, WrittenHas
  <2> QED
    BY <1>0, <2>1, <2>2 DEF Quiet
<1>e. \A f \in {"queued", "reject"} : wire' = Written(wire, "r", f) => Quiet
  BY <1>0, WrittenHas DEF Quiet
<1>2. CASE CheckSender \/ OfferMissing \/ RefusalLingers
  BY <1>0, <1>2, <1>a, <1>b, <1>c DEF CheckSender, OfferMissing, RefusalLingers
<1>3. CASE Admit \/ Refuse
  BY <1>0, <1>3, <1>a, <1>b, <1>d DEF Admit, Refuse
<1>4. CASE Queue
  BY <1>0, <1>4, <1>a, <1>b, <1>e DEF Queue
<1>5. CASE Link \/ WatchClosed \/ WatchExpired
  BY <1>0, <1>5, <1>a, <1>b, <1>c DEF Link, WatchClosed, WatchExpired
<1>6. CASE RejectTask
  BY <1>0, <1>6, <1>a, <1>b, <1>e DEF RejectTask, SayReject, RejectLingers
<1>7. CASE RejectCommand
  BY <1>7, <1>a, <1>c DEF RejectCommand
<1>8. CASE StopReceiver
  BY <1>0, <1>8, <1>a, <1>b DEF StopReceiver
<1> QED
  BY <1>2, <1>3, <1>4, <1>5, <1>6, <1>7, <1>8 DEF OfferTask

LEMMA AcceptFrames ==
  ASSUME Typed, AcceptTask
  PROVE  FrameStep /\ SaveStep
<1>0. /\ NetOK /\ WireOK(wire) /\ "s" \in End /\ "r" \in End
      /\ {"done", "failed", "cancelled"} \subseteq CloseCode
      /\ {"accept", "committed", "error"} \subseteq ToSender
      /\ down \in Seq(Frame \cup {"incoming"})
      /\ verdict \in Seq({"end", "error"})
  BY DEF Typed, Parts, NetOK, AcceptOK, RecvCliOK, CloseCode, Code, ToSender, End
<1>1. UNCHANGED recvCliVars
  BY DEF AcceptTask, SayAccept, Track, AnswerCli, RelayDown, SenderGone, CliGivesUp,
    Commit, NoVerdict, AcceptLingers, StepAccept, StepRecv
<1>2. SaveStep /\ UNCHANGED verdict
  BY <1>1 DEF SaveStep, recvCliVars
<1>3. \A f \in {"error", "incoming"} : \A g :
        Has(Append(down, f), g) => g = f \/ Has(down, g)
  BY <1>0, AppendHas DEF Frame
<1>a. ASSUME Quiet,
             \/ down' = down
             \/ down' = Append(down, "error") \/ down' = Append(down, "incoming")
      PROVE  FrameStep /\ SaveStep
  BY <1>2, <1>3, <1>a DEF Quiet, FrameStep
<1>b. ASSUME NEW w, WireOK(w), NEW code \in CloseCode,
             EndClosing(code, w) \/ EndDropping(w),
             Has(w["s"], "committed") => Has(wire["s"], "committed")
      PROVE  Quiet
  <2>1. wire'["r"] = <<>> /\ wire'["s"] = w["s"]
    BY <1>0, <1>b, AcceptEnds
  <2> QED
    BY <1>b, <2>1, NoneEmpty DEF Quiet
<1>c. ASSUME wire' = wire
      PROVE  Quiet
  BY <1>c DEF Quiet
<1>d. ASSUME wire["r"] # <<>>
      PROVE  /\ WireOK(Taken("r")) /\ Taken("r")["s"] = wire["s"]
             /\ wire' = Taken("r") => Quiet
             /\ Has(wire["r"], Head(wire["r"]))
             /\ Head(wire["r"]) \in ToReceiver
  <2>1. /\ WireOK(Taken("r")) /\ Has(wire["r"], Head(wire["r"]))
        /\ \A f, x : x \in End /\ Has(Taken("r")[x], f) => Has(wire[x], f)
    BY <1>0, <1>d, QuietTaken
  <2>2. Taken("r")["s"] = wire["s"]
    BY <1>0, <1>d, TakenWire, Ends
  <2>3. Head(wire["r"]) \in ToReceiver
    BY <1>0, <1>d, HeadTail DEF WireOK
  <2> QED
    BY <1>0, <2>1, <2>2, <2>3 DEF Quiet
<1>e. \A f \in {"accept", "committed", "error"} :
        /\ WireOK(Written(wire, "r", f))
        /\ \A g, x : x \in End /\ Has(Written(wire, "r", f)[x], g) =>
                       Has(wire[x], g) \/ (g = f /\ x = "s")
  <2> SUFFICES ASSUME NEW f \in {"accept", "committed", "error"}
               PROVE  /\ WireOK(Written(wire, "r", f))
                      /\ \A g, x : x \in End /\ Has(Written(wire, "r", f)[x], g) =>
                                     Has(wire[x], g) \/ (g = f /\ x = "s")
    OBVIOUS
  <2>1. f \in ToSender /\ Other("r") = "s"
    BY <1>0 DEF Other
  <2>2. WireOK(Written(wire, "r", f))
    BY <1>0, <2>1, WrittenWire
  <2>3. \A g, x : x \in End /\ Has(Written(wire, "r", f)[x], g) =>
                    Has(wire[x], g) \/ (g = f /\ x = Other("r"))
    BY <1>0, <2>1, WrittenHas
  <2> QED
    BY <2>1, <2>2, <2>3
<1>f. \A f \in {"committed", "error"} :
        /\ WireOK(Tell(f))
        /\ \A g, x : x \in End /\ Has(Tell(f)[x], g) =>
                       Has(wire[x], g) \/ (g = f /\ x = "s")
  BY <1>0, <1>e DEF Tell
<1>4. CASE SayAccept
  <2>1. CASE IsOpen("r")
    <3>1. Quiet
      BY <1>0, <1>4, <1>e, <2>1 DEF SayAccept, Quiet
    <3> QED
      BY <1>4, <1>a, <3>1 DEF SayAccept
  <2>2. CASE ~IsOpen("r")
    BY <1>0, <1>4, <1>a, <1>b, <2>2 DEF SayAccept
  <2> QED
    BY <2>1, <2>2
<1>5. CASE Track
  BY <1>5, <1>a, <1>c DEF Track, netVars
<1>6. CASE AnswerCli
  <2>1. CASE rc = "ended"
    BY <1>0, <1>6, <1>a, <1>b, <2>1 DEF AnswerCli
  <2>2. CASE rc # "ended"
    BY <1>6, <1>a, <1>c, <2>2 DEF AnswerCli, netVars
  <2> QED
    BY <2>1, <2>2
<1>7. CASE RelayDown
  <2> DEFINE frame == Head(wire["r"])
  <2>0. wire["r"] # <<>>
    BY <1>7 DEF RelayDown
  <2>1. CASE ~Fits(frame, received)
    BY <1>0, <1>7, <1>a, <1>b, <1>d, <2>0, <2>1 DEF RelayDown
  <2>2. CASE Fits(frame, received) /\ rc = "ended"
    BY <1>0, <1>7, <1>a, <1>b, <1>d, <2>0, <2>2 DEF RelayDown
  <2>3. CASE Fits(frame, received) /\ rc # "ended"
    <3>1. down' = Append(down, frame) /\ wire' = Taken("r")
      BY <1>7, <2>3 DEF RelayDown
    <3>2. Quiet /\ Has(wire["r"], frame) /\ frame \in ToReceiver
      BY <1>d, <2>0, <3>1
    <3> HIDE DEF frame
    <3>3. Has(down', "end") => Has(down, "end") \/ Has(wire["r"], "end")
      <4>1. down \in Seq(ToReceiver \cup {"incoming"})
        BY <1>0 DEF ToReceiver
      <4>2. Has(down', "end") => frame = "end" \/ Has(down, "end")
        BY <3>1, <3>2, <4>1, AppendHas
      <4> QED
        BY <3>2, <4>2
    <3> QED
      BY <1>2, <3>2, <3>3 DEF Quiet, FrameStep
  <2> QED
    BY <2>1, <2>2, <2>3
<1>8. CASE SenderGone
  BY <1>0, <1>8, <1>a, <1>b DEF SenderGone
<1>9. CASE CliGivesUp
  <2>1. Quiet
    BY <1>0, <1>9, <1>b, <1>f DEF CliGivesUp
  <2> QED
    BY <1>9, <1>a, <2>1 DEF CliGivesUp
<1>10. CASE Commit
  <2>1. verdict # <<>> /\ Has(verdict, Head(verdict)) /\ UNCHANGED down
    BY <1>0, <1>10, HeadTail DEF Commit
  <2>2. CASE Head(verdict) = "end"
    <3>1. wire' = Tell("committed")
      BY <1>10, <2>2 DEF Commit
    <3> QED
      BY <1>0, <1>2, <1>f, <2>1, <2>2, <3>1 DEF FrameStep
  <2>3. CASE Head(verdict) # "end"
    <3>1. wire' = Tell("error")
      BY <1>10, <2>3 DEF Commit
    <3> QED
      BY <1>0, <1>2, <1>f, <2>1, <3>1 DEF FrameStep
  <2> QED
    BY <2>2, <2>3
<1>11. CASE NoVerdict
  BY <1>0, <1>11, <1>a, <1>b DEF NoVerdict
<1>12. CASE AcceptLingers
  BY <1>0, <1>12, <1>a, <1>b DEF AcceptLingers
<1> QED
  BY <1>4, <1>5, <1>6, <1>7, <1>8, <1>9, <1>10, <1>11, <1>12 DEF AcceptTask

LEMMA CliFrames ==
  ASSUME Typed, RecvCli \/ InterruptReceive
  PROVE  FrameStep /\ SaveStep
<1>0. /\ down \in Seq(Frame \cup {"incoming"})
      /\ verdict \in Seq({"end", "error"})
  BY DEF Typed, Parts, AcceptOK, RecvCliOK
<1>1. UNCHANGED <<wire, out, spc>>
  BY DEF RecvCli, HearIncoming, SaveData, SaveHash, SaveFile, SayCommitted,
    HearFailure, InterruptReceive, StepRecvCli, netVars, sendVars, entryVars
<1>2. down' = down \/ (down # <<>> /\ down' = Tail(down))
  BY DEF RecvCli, HearIncoming, SaveData, SaveHash, SaveFile, SayCommitted,
    HearFailure, InterruptReceive
<1>3. Has(down', "end") => Has(down, "end")
  BY <1>0, <1>2, HeadTail
<1>4. \A f \in {"end", "error"} : Has(Append(verdict, f), "end") =>
        f = "end" \/ Has(verdict, "end")
  BY <1>0, AppendHas
<1>5. \/ verdict' = verdict \/ verdict' = Append(verdict, "error")
      \/ rc = "telling"
  BY DEF RecvCli, HearIncoming, SaveData, SaveHash, SaveFile, SayCommitted,
    HearFailure, InterruptReceive, RefuseFile
<1>6. FrameStep
  BY <1>1, <1>3, <1>4, <1>5 DEF FrameStep
<1>7. CASE SaveFile
  <2>1. Has(down, "end") /\ rc = "receiving"
    BY <1>0, <1>7, HeadTail DEF SaveFile
  <2>2. SaveStep
    BY <1>1, <1>7, <2>1 DEF SaveFile, RefuseFile, SaveStep, NotYet
  <2> QED
    BY <1>6, <2>2
<1>8. CASE ~SaveFile
  <2>1. SaveStep
    BY <1>8 DEF RecvCli, HearIncoming, SaveData, SaveHash, SayCommitted,
      HearFailure, InterruptReceive, RefuseFile, SaveStep, NotYet
  <2> QED
    BY <1>6, <2>1
<1> QED
  BY <1>7, <1>8

LEMMA WorldFrames ==
  ASSUME Typed, NEW e \in End,
         \/ SetRosterSender \/ SetRosterReceiver \/ Lose(e) \/ Hear(e) \/ Pass(e)
         \/ SendCli \/ InterruptSend \/ SendCommand \/ AcceptCommand
  PROVE  FrameStep /\ SaveStep
<1>0. /\ NetOK /\ WireOK(wire) /\ "not_member" \in CloseCode
      /\ "s" \in End /\ "r" \in End
  BY DEF Typed, Parts, NetOK, CloseCode, Code, End
<1>a. ASSUME UNCHANGED wire, UNCHANGED <<down, recvCliVars>>
      PROVE  FrameStep /\ SaveStep
  BY <1>a, QuietStep DEF Quiet
<1>b. ASSUME WireOK(wire'), Cut(wire), UNCHANGED <<down, recvCliVars>>
      PROVE  FrameStep /\ SaveStep
  <2>1. Quiet
    <3>1. /\ wire["r"] \in Seq(ToReceiver) /\ wire'["r"] \in Seq(ToReceiver)
          /\ wire["s"] \in Seq(ToSender) /\ wire'["s"] \in Seq(ToSender)
          /\ Begins(wire'["r"], wire["r"]) /\ Begins(wire'["s"], wire["s"])
      BY <1>0, <1>b DEF WireOK, Cut
    <3> QED
      BY <3>1, BeginsHas DEF Quiet
  <2> QED
    BY <1>b, <2>1, QuietStep
<1>1. CASE SetRosterSender
  <2>1. UNCHANGED <<down, recvCliVars>>
    BY <1>1 DEF SetRosterSender, recvVars, acceptVars
  <2>2. CASE Close("s", "not_member", wire)
    BY <1>0, <1>b, <2>1, <2>2, CloseNet
  <2> QED
    BY <1>1, <1>a, <2>1, <2>2 DEF SetRosterSender
<1>2. CASE SetRosterReceiver
  <2>1. UNCHANGED <<down, recvCliVars>>
    BY <1>2 DEF SetRosterReceiver
  <2>2. CASE Close("r", "not_member", wire)
    BY <1>0, <1>b, <2>1, <2>2, CloseNet
  <2> QED
    BY <1>2, <1>a, <2>1, <2>2 DEF SetRosterReceiver, netVars
<1>3. CASE Lose(e) \/ Hear(e)
  <2>1. PICK rest \in Prefixes(wire[e]) : wire' = [wire EXCEPT ![e] = rest]
    BY <1>3 DEF Lose, Hear
  <2>2. \A S : wire[e] \in Seq(S) => rest \in Seq(S) /\ Begins(rest, wire[e])
    BY PrefixesBegin
  <2>3. WireOK(wire') /\ Cut(wire)
    <3>0. Len(wire["s"]) \in Nat /\ Len(wire["r"]) \in Nat
      BY <1>0 DEF WireOK
    <3>1. CASE e = "r"
      BY <1>0, <2>1, <2>2, <3>0, <3>1, BeginsSelf DEF WireOK, Cut, End
    <3>2. CASE e = "s"
      BY <1>0, <2>1, <2>2, <3>0, <3>2, BeginsSelf DEF WireOK, Cut, End
    <3> QED
      BY <3>1, <3>2 DEF End
  <2>4. UNCHANGED <<down, recvCliVars>>
    BY <1>3 DEF Lose, Hear, recvVars, acceptVars
  <2> QED
    BY <1>b, <2>3, <2>4
<1>4. CASE Pass(e) \/ SendCli \/ InterruptSend \/ SendCommand
  BY <1>4, <1>a DEF Pass, SendCli, HearAccepted, ReadFile, WriteEnd, HearOver,
    InterruptSend, StepSendCli, SendCommand, netVars, recvVars, acceptVars
<1>5. CASE AcceptCommand
  BY <1>5 DEF AcceptCommand, netVars, FrameStep, SaveStep, NotYet
<1> QED
  BY <1>1, <1>2, <1>3, <1>4, <1>5

LEMMA EveryStep ==
  ASSUME Typed, Next
  PROVE  FrameStep /\ SaveStep
<1>1. "s" \in End
  BY DEF End
<1> QED
  BY <1>1, SendFrames, HandlerFrames, AcceptFrames, CliFrames, WorldFrames
  DEF Next, Users, Faults

\* How the sending daemon's task moves, and what its list shows then.
SenderStep ==
  \/ UNCHANGED <<spc, out>>
  \/ spc = "idle" /\ spc' = "dialing" /\ out' = "offered"
  \/ /\ \/ spc \in Offering /\ spc' \in Offering
        \/ spc = "relaying" /\ spc' \in {"relaying", "sent"}
     /\ out' = out
  \/ spc \in Offering /\ spc' = "relaying" /\ out' = "transferring"
  \/ /\ spc = "sent" /\ Has(wire["s"], "committed")
     /\ spc' = "ended" /\ out' = "done"
  \/ spc \in Offering /\ spc' = "ended" /\ out' \in {"rejected", "expired"}
  \/ spc \in Offering \cup {"relaying"} /\ spc' = "ended" /\ out' = "cancelled"
  \/ spc \notin {"idle", "ended"} /\ spc' = "ended" /\ out' \in {"failed", "none"}

LEMMA SenderSteps ==
  ASSUME Typed, Next
  PROVE  SenderStep
<1>a. \A state, code, w : Finish(state, code, w) => spc' = "ended" /\ out' = state
  BY DEF Finish
<1>1. CASE ~SendTask /\ ~StopSender /\ ~SendCommand
  BY <1>1, SenderAlone DEF SenderStep
<1>2. CASE SendCommand
  BY <1>2 DEF SendCommand, SenderStep, Typed, Begun
<1>3. CASE ConnectFails \/ OfferUnanswered \/ StopSender \/ Stopped \/ Unconfirmed
  BY <1>3, <1>a DEF ConnectFails, OfferUnanswered, StopSender, Stopped, Unconfirmed,
    TakeBack, SenderStep
<1>4. CASE Connect \/ Register \/ Recheck
  BY <1>4 DEF Connect, Register, Recheck, entryVars, SenderStep, Offering
<1>5. CASE OfferAnswered
  <2>1. CASE Head(wire["s"]) = "queued"
    BY <1>5, <2>1 DEF OfferAnswered, entryVars, SenderStep, Offering
  <2>2. CASE Head(wire["s"]) # "queued"
    BY <1>5, <1>a, <2>2 DEF OfferAnswered, TakeBack, SenderStep
  <2> QED
    BY <2>1, <2>2
<1>6. CASE Announce
  <2>1. CASE sc = "ended"
    BY <1>6, <1>a, <2>1 DEF Announce, SenderStep, Offering
  <2>2. CASE sc # "ended"
    BY <1>6, <2>2 DEF Announce, entryVars, SenderStep, Offering
  <2> QED
    BY <2>1, <2>2
<1>7. CASE Answered
  <2>1. CASE Head(wire["s"]) = "accept"
    BY <1>7, <2>1 DEF Answered, SenderStep, Offering
  <2>2. CASE Head(wire["s"]) # "accept"
    BY <1>7, <1>a, <2>2 DEF Answered, SenderStep, Offering
  <2> QED
    BY <2>1, <2>2
<1>8. CASE Ended \/ Withdraw \/ Expire \/ Abandon
  BY <1>8, <1>a DEF Ended, Withdraw, Expire, Abandon, SenderStep, Offering
<1>9. CASE Relay
  BY <1>9, <1>a DEF Relay, entryVars, SenderStep
<1>10. CASE Confirmed
  <2>1. Has(wire["s"], Head(wire["s"]))
    BY <1>10, HeadTail DEF Confirmed, Typed, Parts, NetOK, WireOK
  <2> QED
    BY <1>10, <1>a, <2>1 DEF Confirmed, SenderStep
<1> QED
  BY <1>1, <1>2, <1>3, <1>4, <1>5, <1>6, <1>7, <1>8, <1>9, <1>10 DEF SendTask

PromiseInv == TaskState /\ EndSent /\ CommitSaved /\ SavedOnce

LEMMA PromiseInit == Init => PromiseInv
BY NoneEmpty DEF Init, PromiseInv, TaskState, Offering, EndSent, CommitSaved,
  SavedOnce, NotYet, End

LEMMA PromiseStep == Typed /\ PromiseInv /\ [Next]_vars => PromiseInv'
<1> SUFFICES ASSUME Typed, PromiseInv, [Next]_vars
             PROVE  PromiseInv'
  OBVIOUS
<1>1. CASE UNCHANGED vars
  BY <1>1 DEF vars, netVars, sendVars, entryVars, recvVars, acceptVars, recvCliVars,
    PromiseInv, TaskState, EndSent, CommitSaved, SavedOnce
<1>2. CASE Next
  <2>1. FrameStep /\ SaveStep /\ SenderStep
    BY <1>2, EveryStep, SenderSteps
  <2>2. TaskState'
    BY TaskStateStep DEF PromiseInv
  <2>3. EndSent'
    <3>1. CASE spc' = "sent"
      BY <3>1 DEF EndSent
    <3>2. CASE spc' # "sent" /\ ~(Has(wire["r"], "end") \/ Has(down, "end") \/ saved)
      BY <2>1, <3>2 DEF EndSent, FrameStep, SaveStep
    <3>3. CASE Has(wire["r"], "end") \/ Has(down, "end") \/ saved
      BY <2>1, <3>3 DEF EndSent, SenderStep, PromiseInv, Offering
    <3> QED
      BY <3>1, <3>2, <3>3
  <2>4. CommitSaved'
    BY <2>1 DEF CommitSaved, PromiseInv, FrameStep, SaveStep, SenderStep
  <2>5. SavedOnce'
    BY <2>1 DEF SavedOnce, PromiseInv, SaveStep
  <2> QED
    BY <2>2, <2>3, <2>4, <2>5 DEF PromiseInv
<1> QED
  BY <1>1, <1>2

LEMMA PromiseSteps ==
  Typed /\ PromiseInv /\ [Next]_vars => [Promise!Next]_(Promise!vars)
<1> SUFFICES ASSUME Typed, PromiseInv, [Next]_vars
             PROVE  [Promise!Next]_(Promise!vars)
  OBVIOUS
<1>1. CASE UNCHANGED vars
  BY <1>1 DEF vars, sendVars, entryVars, recvCliVars, Promise!vars, fate
<1>2. CASE Next
  <2>1. SaveStep /\ SenderStep
    BY <1>2, EveryStep, SenderSteps
  <2>2. saved \in BOOLEAN /\ saved' \in BOOLEAN
    BY TypedStep DEF Typed, Parts, RecvCliOK
  <2>3. CASE saved' # saved
    <3>1. /\ saved' = TRUE /\ rc = "receiving" /\ Has(down, "end")
          /\ UNCHANGED <<out, spc>>
      BY <2>1, <2>3 DEF SaveStep
    <3>2. ~saved /\ out # "done"
      BY <2>2, <2>3, <3>1 DEF PromiseInv, CommitSaved
    <3>3. spc = "sent" \/ (spc = "ended" /\ out \in {"failed", "none"})
      BY <3>1, <3>2 DEF PromiseInv, EndSent
    <3>4. fate \in {"transferring", "failed", "forgotten"} /\ fate' = fate
      BY <3>1, <3>3 DEF fate, PromiseInv, TaskState
    <3> QED
      BY <3>1, <3>2, <3>4 DEF Promise!Next, Promise!Save
  <2>4. CASE saved' = saved
    <3>0. /\ spc \in Offering => out = "offered" /\ fate = "offered"
          /\ spc \in {"relaying", "sent"} => out = "transferring" /\ fate = "transferring"
          /\ spc = "idle" => fate = "none"
      BY DEF PromiseInv, TaskState, fate, Offering
    <3>1. CASE UNCHANGED <<spc, out>>
      BY <2>4, <3>1 DEF fate, Promise!vars
    <3>2. CASE spc = "idle" /\ spc' = "dialing" /\ out' = "offered"
      BY <2>4, <3>0, <3>2 DEF fate, Promise!Next, Promise!Make
    <3>3. CASE /\ \/ spc \in Offering /\ spc' \in Offering
                  \/ spc = "relaying" /\ spc' \in {"relaying", "sent"}
               /\ out' = out
      BY <2>4, <3>0, <3>3 DEF fate, Offering, Promise!vars
    <3>4. CASE spc \in Offering /\ spc' = "relaying" /\ out' = "transferring"
      BY <2>4, <3>0, <3>4 DEF fate, Promise!Next, Promise!Accept
    <3>5. CASE /\ spc = "sent" /\ Has(wire["s"], "committed")
               /\ spc' = "ended" /\ out' = "done"
      <4>1. saved
        BY <3>5 DEF PromiseInv, CommitSaved
      <4> QED
        BY <2>4, <3>0, <3>5, <4>1 DEF fate, Promise!Next, Promise!Deliver
    <3>6. spc \in Offering \cup {"relaying"} => ~saved
      BY DEF PromiseInv, EndSent, Offering
    <3>7. CASE spc \in Offering /\ spc' = "ended" /\ out' \in {"rejected", "expired"}
      BY <2>4, <3>0, <3>6, <3>7 DEF fate, Promise!Next, Promise!Refuse
    <3>8. CASE spc \in Offering \cup {"relaying"} /\ spc' = "ended" /\ out' = "cancelled"
      BY <2>4, <3>0, <3>6, <3>8 DEF fate, Promise!Next, Promise!Withdraw, Promise!Live
    <3>9. CASE spc \notin {"idle", "ended"} /\ spc' = "ended" /\ out' = "failed"
      <4>1. spc \in Offering \cup {"relaying", "sent"}
        BY <3>9 DEF Typed, Parts, SendOK, Offering
      <4> QED
        BY <2>4, <3>0, <3>9, <4>1 DEF fate, Promise!Next, Promise!Fail, Promise!Live
    <3>10. CASE spc' = "ended" /\ out' = "none"
      BY <2>4, <3>10 DEF fate, Promise!Next, Promise!Forget
    <3> QED
      BY <2>1, <3>1, <3>2, <3>3, <3>4, <3>5, <3>7, <3>8, <3>9, <3>10 DEF SenderStep
  <2> QED
    BY <2>3, <2>4
<1> QED
  BY <1>1, <1>2

\* The sender's list and the receiver's disk agree: every behaviour of the two
\* daemons and their CLIs is one of module Offer, so that what is shown as
\* delivered is saved, and what is shown as rejected, expired or cancelled never
\* is (transfer.rs, Files::send and Files::accept).
THEOREM TransferKeepsPromise == Spec => KeepsPromise
<1>1. Init => Promise!Init
  BY DEF Init, Promise!Init, fate
<1>2. Spec => []PromiseInv
  BY PromiseInit, PromiseStep, TypedAlways, PTL DEF Spec
<1> QED
  BY <1>1, <1>2, PromiseSteps, TypedAlways, PTL DEF Spec, KeepsPromise, Promise!Spec
=============================================================================
