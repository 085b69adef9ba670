------------------------------ MODULE FileTransfer ------------------------------
(***************************************************************************)
(* One file offer, end to end: the sending CLI (cli/src/commands/file/     *)
(* send.rs), the sending daemon's task (Files::send), the connection, the  *)
(* receiving daemon's tasks (receive_offer and its watcher, reject,        *)
(* accept; daemon/src/files) and the receiving CLI (receive.rs).           *)
(*                                                                         *)
(* Every task interleaves with the others wherever it gives up the         *)
(* registry's lock.  A connection delivers frames in order until an end    *)
(* learns that it is closed; of the frames on their way then, any suffix   *)
(* may be lost.  File contents are a number of data frames, and a hash     *)
(* frame is the hash of what the sender read.                              *)
(***************************************************************************)
EXTENDS Naturals, Sequences

CONSTANTS
  Size,       \* data frames in the offered file
  MaxFaults   \* bound: lost connections, stopped daemons and roster changes

ASSUME SizeAssumption == Size \in Nat
ASSUME FaultAssumption == MaxFaults \in Nat

VARIABLES
  member,    \* member[e]: the registry of end e lists the node at the other end
  shut,      \* shut[e]: what end e knows of the connection
  wire,      \* wire[e]: frames on their way to end e
  dropped,   \* dropped[e]: end e no longer reads or writes the stream
  late,      \* late[e]: the offer's window is over at end e
  out,       \* sender: state of the registry's outgoing entry
  outConn,   \* sender: that entry holds the connection
  spc,       \* sender: where the task running `send' is
  sent,      \* sender: data frames relayed
  sc,        \* sending CLI
  read,      \* sending CLI: data frames read from the file
  up,        \* frames from the sending CLI to its daemon
  told,      \* the last thing the daemon told the sending CLI
  inc,       \* receiver: the registry's incoming entry
  recving,   \* receiver: the transfer is in the registry's `receiving'
  hpc,       \* receiver: the task of receive_offer
  apc,       \* receiver: the task of accept
  rpc,       \* receiver: the task reject spawns
  received,  \* receiver: data frames relayed
  rc,        \* receiving CLI
  got,       \* receiving CLI: data frames written to the partial file
  hashed,    \* receiving CLI: the hash arrived
  down,      \* frames from the receiving daemon to its CLI
  verdict,   \* frames from the receiving CLI to its daemon
  saved,     \* the file is in place under its name
  faults     \* what happened, against the bound

netVars == <<shut, wire, dropped>>
entryVars == <<out, outConn>>
sendVars == <<entryVars, spc, sent, told>>
sendCliVars == <<sc, read, up>>
acceptVars == <<recving, apc, received, down>>
recvVars == <<inc, hpc, rpc, acceptVars>>
recvCliVars == <<rc, got, hashed, verdict, saved>>
vars == <<member, netVars, late, sendVars, sendCliVars, recvVars, recvCliVars,
          faults>>

End == {"s", "r"}
Other(e) == IF e = "s" THEN "r" ELSE "s"

\* close::DONE to close::REJECTED; "lost" when the connection timed out.
Code == {"done", "cancelled", "expired", "not_member", "failed", "rejected"}
NoConnection == [by |-> "none", code |-> "none"]
Open == [by |-> "nobody", code |-> "none"]
Shut == {NoConnection, Open}
          \cup [by : {"self", "peer"}, code : Code \cup {"lost"}]

Frame == {"data", "hash", "end", "error"}
ToReceiver == Frame \cup {"offer"}
ToSender == {"queued", "refused", "accept", "reject", "error", "committed"}

Live == {"offered", "transferring"}

TypeOK ==
  /\ member \in [End -> BOOLEAN]
  /\ shut \in [End -> Shut]
  /\ wire["r"] \in Seq(ToReceiver) /\ wire["s"] \in Seq(ToSender)
  /\ DOMAIN wire = End
  /\ dropped \in [End -> BOOLEAN]
  /\ late \in [End -> BOOLEAN]
  /\ out \in Live \cup {"none", "done", "rejected", "cancelled", "expired",
                        "failed"}
  /\ outConn \in BOOLEAN
  /\ spc \in {"idle", "dialing", "offering", "queued", "registered",
              "announcing", "waiting", "relaying", "sent", "ended"}
  /\ sent \in 0..Size
  /\ sc \in {"idle", "asked", "streaming", "hashed", "sent", "ended"}
  /\ read \in 0..Size
  /\ up \in Seq(Frame)
  /\ told \in {"nothing", "offered", "accepted", "over"}
  /\ inc \in {"none", "reserved", "waiting"}
  /\ recving \in BOOLEAN
  /\ hpc \in {"idle", "checking", "reading", "refusing", "queueing", "linking",
              "watching", "ended"}
  /\ apc \in {"idle", "taken", "accepted", "answering", "relaying",
              "committing", "lingering", "ended"}
  /\ rpc \in {"idle", "telling", "lingering", "ended"}
  /\ received \in 0..Size
  /\ rc \in {"idle", "asked", "receiving", "telling", "ended"}
  /\ got \in 0..Size
  /\ hashed \in BOOLEAN
  /\ down \in Seq(Frame \cup {"incoming"})
  /\ verdict \in Seq({"end", "error"})
  /\ saved \in BOOLEAN
  /\ faults \in 0..MaxFaults

Init ==
  /\ member = [e \in End |-> TRUE]
  /\ shut = [e \in End |-> NoConnection]
  /\ wire = [e \in End |-> <<>>]
  /\ dropped = [e \in End |-> FALSE]
  /\ late = [e \in End |-> FALSE]
  /\ out = "none" /\ outConn = FALSE /\ spc = "idle" /\ sent = 0
  /\ sc = "idle" /\ read = 0 /\ up = <<>> /\ told = "nothing"
  /\ inc = "none" /\ recving = FALSE
  /\ hpc = "idle" /\ apc = "idle" /\ rpc = "idle" /\ received = 0
  /\ rc = "idle" /\ got = 0 /\ hashed = FALSE
  /\ down = <<>> /\ verdict = <<>> /\ saved = FALSE
  /\ faults = 0

-----------------------------------------------------------------------------
(* The connection *)

Prefixes(s) == {SubSeq(s, 1, n) : n \in 0..Len(s)}

IsOpen(e) == shut[e] = Open

\* The wire after end e took its next frame, and after it wrote frame f.
Taken(e) == [wire EXCEPT ![e] = Tail(@)]
Written(w, e, f) ==
  IF dropped[Other(e)] THEN w ELSE [w EXCEPT ![Other(e)] = Append(@, f)]

\* Nothing more will arrive at end e.
ReadEnds(e) == wire[e] = <<>> /\ (~IsOpen(e) \/ dropped[Other(e)])

\* End e closes the connection while one of its tasks may still be reading;
\* without effect if the connection is already closed there.
Close(e, code, w) ==
  IF IsOpen(e)
  THEN /\ shut' = [shut EXCEPT ![e] = [by |-> "self", code |-> code]]
       /\ \E rest \in Prefixes(w[e]) : wire' = [w EXCEPT ![e] = rest]
  ELSE UNCHANGED shut /\ wire' = w

\* The task that held the stream of end e closes the connection and returns.
HangUp(e, code, w) ==
  /\ shut' = IF IsOpen(e)
             THEN [shut EXCEPT ![e] = [by |-> "self", code |-> code]] ELSE shut
  /\ wire' = [w EXCEPT ![e] = <<>>]
  /\ dropped' = [dropped EXCEPT ![e] = TRUE]

\* End e learns that the other end is gone: from its close, or by a timeout.
Hear(e) ==
  /\ IsOpen(e) /\ ~IsOpen(Other(e))
  /\ \E code \in {"lost", shut[Other(e)].code} :
       /\ code # "lost" => shut[Other(e)].by = "self"
       /\ shut' = [shut EXCEPT ![e] = [by |-> "peer", code |-> code]]
  /\ \E rest \in Prefixes(wire[e]) : wire' = [wire EXCEPT ![e] = rest]
  /\ UNCHANGED <<member, dropped, late, sendVars, sendCliVars, recvVars,
                 recvCliVars>>

Lose(e) ==
  /\ IsOpen(e)
  /\ shut' = [shut EXCEPT ![e] = [by |-> "peer", code |-> "lost"]]
  /\ \E rest \in Prefixes(wire[e]) : wire' = [wire EXCEPT ![e] = rest]
  /\ UNCHANGED <<member, dropped, late, sendVars, sendCliVars, recvVars,
                 recvCliVars>>

\* The receiver's window starts when the offer is admitted, the sender's when it
\* hears so: it ends later.
Pass(e) ==
  /\ ~late[e]
  /\ e = "r" => hpc \notin {"idle", "checking", "reading"}
  /\ e = "s" => late["r"] /\ spc \in {"registered", "announcing", "waiting"}
  /\ late' = [late EXCEPT ![e] = TRUE]
  /\ UNCHANGED <<member, netVars, sendVars, sendCliVars, recvVars, recvCliVars>>

-----------------------------------------------------------------------------
(* The sending daemon: Files::send *)

\* Records how the offer ended, and ends its connection to match.
Finish(state, code, w) ==
  /\ out' = state /\ outConn' = FALSE
  /\ spc' = "ended" /\ told' = "over"
  /\ HangUp("s", code, w)
  /\ UNCHANGED sent

\* The offer never got there: its entry is taken out again.
TakeBack(code, w) == Finish("none", code, w)

StepSend == UNCHANGED <<member, late, sendCliVars, recvVars, recvCliVars>>

\* `quix file send', up to the daemon's checks and the entry it lists.  It is
\* refused for its name, for a target nobody knows, or one that is no member.
SendCommand ==
  /\ sc = "idle"
  /\ \/ member["s"] /\ sc' = "asked" /\ spc' = "dialing" /\ out' = "offered"
     \/ sc' = "ended" /\ UNCHANGED <<spc, out>>
  /\ UNCHANGED <<member, netVars, late, outConn, sent, told, read, up, recvVars,
                 recvCliVars>>

Connect ==
  /\ spc = "dialing"
  /\ shut' = [e \in End |-> Open]
  /\ wire' = Written(wire, "s", "offer")
  /\ spc' = "offering" /\ hpc' = "checking"
  /\ UNCHANGED <<member, dropped, late, entryVars, sent, told, sendCliVars, inc,
                 rpc, acceptVars, recvCliVars>>

ConnectFails ==
  /\ spc = "dialing"
  /\ TakeBack("failed", wire)
  /\ StepSend

OfferAnswered ==
  /\ spc = "offering" /\ wire["s"] # <<>>
  /\ IF Head(wire["s"]) = "queued"
     THEN /\ spc' = "queued" /\ wire' = Taken("s")
          /\ UNCHANGED <<shut, dropped, entryVars, sent, told>>
     ELSE TakeBack("rejected", Taken("s"))
  /\ StepSend

\* No answer in time, or the connection ended first; the handle is dropped.
OfferUnanswered ==
  /\ spc = "offering"
  /\ TakeBack("done", wire)
  /\ StepSend

Register ==
  /\ spc = "queued"
  /\ outConn' = TRUE /\ spc' = "registered"
  /\ UNCHANGED <<netVars, out, sent, told>>
  /\ StepSend

\* Bug: the roster is not looked at again.
RecheckSkipped ==
  /\ spc = "registered"
  /\ spc' = "announcing"
  /\ UNCHANGED <<netVars, entryVars, sent, told>>
  /\ StepSend

\* The roster may have changed while the offer was on its way.
Recheck ==
  /\ spc = "registered"
  /\ spc' = "announcing"
  /\ IF member["s"] THEN UNCHANGED <<shut, wire>>
     ELSE Close("s", "not_member", wire)
  /\ UNCHANGED <<dropped, entryVars, sent, told>>
  /\ StepSend
\* Bug: returns without recording an outcome when the CLI is gone.
AnnounceForgets ==
  /\ spc = "announcing"
  /\ IF sc = "ended"
     THEN spc' = "ended" /\ UNCHANGED <<netVars, entryVars, sent, told>>
     ELSE /\ told' = "offered" /\ spc' = "waiting"
          /\ UNCHANGED <<netVars, entryVars, sent>>
  /\ StepSend

Announce ==
  /\ spc = "announcing"
  /\ IF sc = "ended" THEN Finish("cancelled", "cancelled", wire)
     ELSE /\ told' = "offered" /\ spc' = "waiting"
          /\ UNCHANGED <<netVars, entryVars, sent>>
  /\ StepSend

Answered ==
  /\ spc = "waiting" /\ wire["s"] # <<>>
  /\ IF Head(wire["s"]) = "accept"
     THEN /\ out' = "transferring" /\ told' = "accepted" /\ spc' = "relaying"
          /\ wire' = Taken("s")
          /\ UNCHANGED <<shut, dropped, outConn, sent>>
     ELSE Finish("rejected", "rejected", Taken("s"))
  /\ StepSend

\* The code the other side closed the connection with, if it closed it.
ClosedWith == IF shut["s"].by = "peer" THEN shut["s"].code
              ELSE "none"

\* The receiver ended it; how it closed says why.
Ended ==
  /\ spc = "waiting" /\ ReadEnds("s")
  /\ IF ClosedWith \in {"expired", "rejected"}
     THEN Finish(ClosedWith, ClosedWith, wire)
     ELSE Finish("failed", "failed", wire)
  /\ StepSend

Withdraw ==
  /\ spc = "waiting" /\ sc = "ended"
  /\ Finish("cancelled", "cancelled", wire)
  /\ StepSend

Expire ==
  /\ spc = "waiting" /\ late["s"]
  /\ Finish("expired", "expired", wire)
  /\ StepSend

\* The sizes both daemons hold a frame against, n data frames in.
Fits(frame, n) ==
  /\ frame = "data" => n < Size
  /\ frame = "end" => n = Size

\* A write may also fail because the receiver dropped the stream.
Relay ==
  /\ spc = "relaying" /\ up # <<>>
  /\ \/ /\ Head(up) # "error" /\ Fits(Head(up), sent) /\ IsOpen("s")
        /\ wire' = Written(wire, "s", Head(up))
        /\ sent' = IF Head(up) = "data" THEN sent + 1 ELSE sent
        /\ spc' = IF Head(up) = "end" THEN "sent" ELSE "relaying"
        /\ UNCHANGED <<shut, dropped, entryVars, told>>
     \/ /\ \/ Head(up) = "error"
           \/ ~Fits(Head(up), sent)
           \/ ~IsOpen("s")
           \/ dropped["r"]
        /\ Finish("failed", "failed", wire)
  /\ up' = Tail(up)
  /\ UNCHANGED <<member, late, sc, read, recvVars, recvCliVars>>

\* The CLI hung up mid-transfer.
Abandon ==
  /\ spc = "relaying" /\ up = <<>> /\ sc = "ended"
  /\ Finish("cancelled", "cancelled", wire)
  /\ StepSend

\* Whatever the receiver says before the end is why it is giving up.
Stopped ==
  /\ spc = "relaying"
  /\ wire["s"] # <<>> \/ ReadEnds("s")
  /\ Finish("failed", "failed", wire)
  /\ StepSend

Confirmed ==
  /\ spc = "sent" /\ wire["s"] # <<>>
  /\ IF Head(wire["s"]) = "committed" THEN Finish("done", "done", Taken("s"))
     ELSE Finish("failed", "failed", Taken("s"))
  /\ StepSend
\* Bug: only a close by the receiver ends the wait.
UnconfirmedByPeer ==
  /\ spc = "sent" /\ ReadEnds("s") /\ shut["s"].by = "peer"
  /\ Finish("failed", "failed", wire)
  /\ StepSend

Unconfirmed ==
  /\ spc = "sent" /\ ReadEnds("s")
  /\ Finish("failed", "failed", wire)
  /\ StepSend

\* The daemon stops, and its registry with it.
StopSender ==
  /\ spc \notin {"idle", "ended"}
  /\ TakeBack("failed", wire)
  /\ StepSend

-----------------------------------------------------------------------------
(* The sending CLI: send.rs *)

StepSendCli ==
  UNCHANGED <<member, netVars, late, sendVars, recvVars, recvCliVars>>

HearAccepted ==
  /\ sc = "asked" /\ told = "accepted"
  /\ sc' = "streaming"
  /\ UNCHANGED <<read, up>> /\ StepSendCli

\* The file is read to its end.  It may have grown or shrunk since it was
\* offered, or fail to be read.
ReadFile ==
  /\ sc = "streaming"
  /\ \/ /\ read < Size
        /\ up' = Append(up, "data") /\ read' = read + 1 /\ UNCHANGED sc
     \/ /\ read = Size
        /\ up' = Append(up, "hash") /\ sc' = "hashed" /\ UNCHANGED read
     \/ up' = Append(up, "error") /\ sc' = "ended" /\ UNCHANGED read
  /\ StepSendCli

WriteEnd ==
  /\ sc = "hashed"
  /\ up' = Append(up, "end") /\ sc' = "sent"
  /\ UNCHANGED read /\ StepSendCli

\* The daemon said how it ended, or went away.
HearOver ==
  /\ sc \notin {"idle", "ended"} /\ told = "over"
  /\ sc' = "ended"
  /\ UNCHANGED <<read, up>> /\ StepSendCli

InterruptSend ==
  /\ sc \notin {"idle", "ended"}
  /\ sc' = "ended"
  /\ UNCHANGED <<read, up>> /\ StepSendCli

-----------------------------------------------------------------------------
(* The receiving daemon: receive_offer *)

StepRecv == UNCHANGED <<member, late, sendVars, sendCliVars, recvCliVars>>
StepHandler == StepRecv /\ UNCHANGED <<rpc, acceptVars>>

CheckSender ==
  /\ hpc = "checking"
  /\ IF member["r"] THEN hpc' = "reading" /\ UNCHANGED netVars
     ELSE hpc' = "ended" /\ HangUp("r", "not_member", wire)
  /\ UNCHANGED inc /\ StepHandler

OfferMissing ==
  /\ hpc = "reading"
  /\ hpc' = "ended"
  /\ \E code \in {"done", "failed"} : HangUp("r", code, wire)
  /\ UNCHANGED inc /\ StepHandler

\* Bug: relies on the check made before the offer was read.
AdmitUnchecked ==
  /\ hpc = "reading" /\ wire["r"] # <<>>
  /\ inc' = "reserved" /\ hpc' = "queueing" /\ wire' = Taken("r")
  /\ UNCHANGED <<shut, dropped>> /\ StepHandler

\* Membership, the limit and the reservation under one lock.
Admit ==
  /\ hpc = "reading" /\ wire["r"] # <<>>
  /\ member["r"]
  /\ inc' = "reserved" /\ hpc' = "queueing" /\ wire' = Taken("r")
  /\ UNCHANGED <<shut, dropped>> /\ StepHandler

\* A name that is not allowed, too many offers waiting, or no longer a member.
Refuse ==
  /\ hpc = "reading" /\ wire["r"] # <<>>
  /\ IF IsOpen("r")
     THEN /\ wire' = Written(Taken("r"), "r", "refused")
          /\ hpc' = "refusing" /\ UNCHANGED <<shut, dropped>>
     ELSE hpc' = "ended" /\ HangUp("r", "done", wire)
  /\ UNCHANGED inc /\ StepHandler

RefusalLingers ==
  /\ hpc = "refusing"
  /\ hpc' = "ended" /\ HangUp("r", "done", wire)
  /\ UNCHANGED inc /\ StepHandler

Queue ==
  /\ hpc = "queueing"
  /\ IF IsOpen("r")
     THEN /\ wire' = Written(wire, "r", "queued") /\ hpc' = "linking"
          /\ UNCHANGED <<shut, dropped, inc>>
     ELSE hpc' = "ended" /\ inc' = "none" /\ HangUp("r", "done", wire)
  /\ StepHandler

\* The entry is gone if the peer left the roster in the meantime.
Link ==
  /\ hpc = "linking"
  /\ IF inc = "reserved"
     THEN inc' = "waiting" /\ hpc' = "watching" /\ UNCHANGED netVars
     ELSE hpc' = "ended" /\ HangUp("r", "done", wire) /\ UNCHANGED inc
  /\ StepHandler

\* bury_incoming: only the watcher that finds the offer unanswered takes it.
WatchClosed ==
  /\ hpc = "watching" /\ ~IsOpen("r")
  /\ hpc' = "ended" /\ inc' = "none"
  /\ IF inc = "waiting" THEN HangUp("r", "done", wire) ELSE UNCHANGED netVars
  /\ StepHandler

\* With the accept over, the watcher held the connection's last handle.
WatchExpired ==
  /\ hpc = "watching" /\ late["r"]
  /\ hpc' = "ended" /\ inc' = "none"
  /\ IF inc = "waiting" THEN HangUp("r", "expired", wire)
     ELSE IF apc = "ended" THEN HangUp("r", "done", wire)
     ELSE UNCHANGED netVars
  /\ StepHandler

-----------------------------------------------------------------------------
(* The receiving daemon: accept and reject *)

\* take_answerable.
Answerable == inc = "waiting" /\ ~late["r"]

StepAccept == StepRecv /\ UNCHANGED <<inc, hpc, rpc>>

\* The accept task returns after closing the connection.
EndClosing(code, w) ==
  /\ apc' = "ended" /\ recving' = FALSE
  /\ HangUp("r", code, w)

\* The accept task returns; the connection goes with its last handle, which the
\* offer's watcher may still hold.
EndDropping(w) ==
  IF hpc = "watching"
  THEN /\ apc' = "ended" /\ recving' = FALSE
       /\ wire' = [w EXCEPT !["r"] = <<>>]
       /\ dropped' = [dropped EXCEPT !["r"] = TRUE]
       /\ UNCHANGED shut
  ELSE EndClosing("done", w)

\* `quix file accept', up to the daemon taking the offer.
AcceptCommand ==
  /\ rc = "idle" /\ Answerable
  /\ rc' = "asked" /\ inc' = "none" /\ apc' = "taken"
  /\ UNCHANGED <<member, netVars, late, sendVars, sendCliVars, hpc, rpc, recving,
                 received, down, got, hashed, verdict, saved>>

SayAccept ==
  /\ apc = "taken"
  /\ IF IsOpen("r")
     THEN /\ wire' = Written(wire, "r", "accept") /\ apc' = "accepted"
          /\ UNCHANGED <<shut, dropped, recving>>
     ELSE EndDropping(wire)
  /\ UNCHANGED <<received, down>> /\ StepAccept

\* Registered so that removing the sender from the roster cuts it off.
Track ==
  /\ apc = "accepted"
  /\ recving' = TRUE /\ apc' = "answering"
  /\ UNCHANGED <<netVars, received, down>> /\ StepAccept

AnswerCli ==
  /\ apc = "answering"
  /\ IF rc = "ended" THEN EndDropping(wire) /\ UNCHANGED down
     ELSE /\ down' = Append(down, "incoming") /\ apc' = "relaying"
          /\ UNCHANGED <<netVars, recving>>
  /\ UNCHANGED received /\ StepAccept
\* Bug: confirms the delivery once everything is with the CLI.
RelayDownEager ==
  /\ apc = "relaying" /\ wire["r"] # <<>> /\ rc # "ended"
  /\ LET frame == Head(wire["r"]) IN
       /\ down' = Append(down, frame)
       /\ received' = IF frame = "data" THEN received + 1 ELSE received
       /\ wire' = IF frame = "end" THEN Written(Taken("r"), "r", "committed")
                  ELSE Taken("r")
       /\ apc' = IF frame = "end" THEN "lingering" ELSE "relaying"
  /\ UNCHANGED <<shut, dropped, recving>> /\ StepAccept

RelayDown ==
  /\ apc = "relaying" /\ wire["r"] # <<>>
  /\ LET frame == Head(wire["r"]) IN
       IF ~Fits(frame, received)
       THEN /\ EndClosing("failed", Taken("r"))
            /\ down' = Append(down, "error") /\ UNCHANGED received
       ELSE IF rc = "ended"
       THEN EndClosing("cancelled", Taken("r")) /\ UNCHANGED <<down, received>>
       ELSE /\ down' = Append(down, frame) /\ wire' = Taken("r")
            /\ received' = IF frame = "data" THEN received + 1 ELSE received
            /\ apc' = IF frame = "end" THEN "committing" ELSE "relaying"
            /\ UNCHANGED <<shut, dropped, recving>>
  /\ StepAccept

SenderGone ==
  /\ apc = "relaying" /\ ReadEnds("r")
  /\ EndDropping(wire)
  /\ down' = Append(down, "error")
  /\ UNCHANGED received /\ StepAccept

\* Told why if the connection still takes it; the close may overtake it.
Tell(frame) == IF IsOpen("r") THEN Written(wire, "r", frame) ELSE wire

\* The CLI sends nothing until the end: anything now is it giving up.
CliGivesUp ==
  /\ apc = "relaying"
  /\ verdict # <<>> \/ rc = "ended"
  /\ EndClosing("failed", Tell("error"))
  /\ UNCHANGED <<received, down>> /\ StepAccept

\* Only the CLI's commit makes it a delivery.
Commit ==
  /\ apc = "committing" /\ verdict # <<>>
  /\ wire' = Tell(IF Head(verdict) = "end" THEN "committed" ELSE "error")
  /\ apc' = "lingering"
  /\ UNCHANGED <<shut, dropped, recving, received, down>> /\ StepAccept

NoVerdict ==
  /\ apc = "committing" /\ verdict = <<>> /\ rc = "ended"
  /\ EndClosing("cancelled", wire)
  /\ UNCHANGED <<received, down>> /\ StepAccept

AcceptLingers ==
  /\ apc = "lingering"
  /\ EndDropping(wire)
  /\ UNCHANGED <<received, down>> /\ StepAccept

RejectCommand ==
  /\ Answerable
  /\ inc' = "none" /\ rpc' = "telling"
  /\ UNCHANGED <<netVars, hpc, acceptVars>> /\ StepRecv

SayReject ==
  /\ rpc = "telling"
  /\ IF IsOpen("r")
     THEN /\ wire' = Written(wire, "r", "reject") /\ rpc' = "lingering"
          /\ UNCHANGED <<shut, dropped>>
     ELSE rpc' = "ended" /\ HangUp("r", "rejected", wire)
  /\ UNCHANGED <<inc, hpc, acceptVars>> /\ StepRecv

RejectLingers ==
  /\ rpc = "lingering"
  /\ rpc' = "ended" /\ HangUp("r", "rejected", wire)
  /\ UNCHANGED <<inc, hpc, acceptVars>> /\ StepRecv

\* The daemon stops: its tasks and its registry are gone.
StopReceiver ==
  /\ {hpc, apc, rpc} \ {"idle", "ended"} # {}
  /\ hpc' = "ended" /\ inc' = "none" /\ recving' = FALSE
  /\ apc' = IF apc = "idle" THEN "idle" ELSE "ended"
  /\ rpc' = IF rpc = "idle" THEN "idle" ELSE "ended"
  /\ HangUp("r", "lost", wire)
  /\ UNCHANGED <<received, down>> /\ StepRecv

-----------------------------------------------------------------------------
(* The receiving CLI: receive.rs *)

StepRecvCli == UNCHANGED <<member, netVars, late, sendVars, sendCliVars, inc, hpc,
                           rpc, recving, apc, received>>

\* refuse: the daemon is told, the partial file goes.
RefuseFile ==
  /\ verdict' = Append(verdict, "error") /\ rc' = "ended"
  /\ UNCHANGED <<got, hashed, saved>>

\* The name or the free space may still be refused.
HearIncoming ==
  /\ rc = "asked" /\ down # <<>> /\ Head(down) = "incoming"
  /\ down' = Tail(down)
  /\ \/ rc' = "receiving" /\ UNCHANGED <<got, hashed, verdict, saved>>
     \/ RefuseFile
  /\ StepRecvCli

\* Any write to the partial file may fail.
SaveData ==
  /\ rc = "receiving" /\ down # <<>> /\ Head(down) = "data"
  /\ down' = Tail(down)
  /\ \/ /\ got < Size /\ got' = got + 1
        /\ UNCHANGED <<rc, hashed, verdict, saved>>
     \/ RefuseFile
  /\ StepRecvCli

SaveHash ==
  /\ rc = "receiving" /\ down # <<>> /\ Head(down) = "hash"
  /\ down' = Tail(down)
  /\ hashed' = TRUE
  /\ UNCHANGED <<rc, got, verdict, saved>> /\ StepRecvCli

\* Verified, flushed and moved to its name, or refused.
SaveFile ==
  /\ rc = "receiving" /\ down # <<>> /\ Head(down) = "end"
  /\ down' = Tail(down)
  /\ \/ /\ got = Size /\ hashed
        /\ saved' = TRUE /\ rc' = "telling"
        /\ UNCHANGED <<got, hashed, verdict>>
     \/ RefuseFile
  /\ StepRecvCli

SayCommitted ==
  /\ rc = "telling"
  /\ verdict' = Append(verdict, "end") /\ rc' = "ended"
  /\ UNCHANGED <<got, hashed, saved, down>> /\ StepRecvCli

\* The daemon reports a failure, or is gone.
HearFailure ==
  /\ rc \in {"asked", "receiving"}
  /\ \/ down # <<>> /\ Head(down) = "error"
     \/ down = <<>> /\ apc = "ended"
  /\ rc' = "ended"
  /\ UNCHANGED <<got, hashed, verdict, saved, down>> /\ StepRecvCli

InterruptReceive ==
  /\ rc \in {"asked", "receiving", "telling"}
  /\ rc' = "ended"
  /\ UNCHANGED <<got, hashed, verdict, saved, down>> /\ StepRecvCli

-----------------------------------------------------------------------------
(* The roster changes on either side: Files::set_roster *)

SetRosterSender ==
  /\ member' = [member EXCEPT !["s"] = ~@]
  /\ IF member["s"] /\ outConn THEN Close("s", "not_member", wire)
     ELSE UNCHANGED <<shut, wire>>
  /\ UNCHANGED <<dropped, late, sendVars, sendCliVars, recvVars, recvCliVars>>

\* Offers waiting here and transfers under way are dropped and closed.
SetRosterReceiver ==
  /\ member' = [member EXCEPT !["r"] = ~@]
  /\ IF member["r"] /\ (inc # "none" \/ recving)
     THEN /\ inc' = "none" /\ recving' = FALSE
          /\ Close("r", "not_member", wire)
          /\ dropped' = [dropped EXCEPT !["r"] = @ \/ inc = "waiting"]
     ELSE UNCHANGED <<netVars, inc, recving>>
  /\ UNCHANGED <<late, sendVars, sendCliVars, hpc, apc, rpc, received, down,
                 recvCliVars>>

-----------------------------------------------------------------------------
SendTask ==
  \/ Connect \/ ConnectFails \/ OfferAnswered \/ OfferUnanswered \/ Register
  \/ Recheck \/ Announce \/ Answered \/ Ended \/ Withdraw \/ Expire
  \/ Relay \/ Abandon \/ Stopped \/ Confirmed \/ Unconfirmed

SendCli == HearAccepted \/ ReadFile \/ WriteEnd \/ HearOver

OfferTask ==
  \/ CheckSender \/ OfferMissing \/ Admit \/ Refuse \/ RefusalLingers \/ Queue
  \/ Link \/ WatchClosed \/ WatchExpired

AcceptTask ==
  \/ SayAccept \/ Track \/ AnswerCli \/ RelayDown \/ SenderGone \/ CliGivesUp
  \/ Commit \/ NoVerdict \/ AcceptLingers

RejectTask == SayReject \/ RejectLingers

RecvCli ==
  \/ HearIncoming \/ SaveData \/ SaveHash \/ SaveFile \/ SayCommitted
  \/ HearFailure

Users ==
  \/ SendCommand \/ InterruptSend \/ AcceptCommand \/ RejectCommand
  \/ InterruptReceive

Faults ==
  \/ StopSender \/ StopReceiver
  \/ SetRosterSender \/ SetRosterReceiver
  \/ \E e \in End : Lose(e)

Next ==
  \/ /\ \/ SendTask \/ SendCli \/ OfferTask \/ AcceptTask \/ RejectTask \/ RecvCli
        \/ Users
        \/ \E e \in End : Hear(e) \/ Pass(e)
     /\ UNCHANGED faults
  \/ Faults /\ faults < MaxFaults /\ faults' = faults + 1

Spec == Init /\ [][Next]_vars

\* The daemons' tasks and the CLIs run, a close or a dead connection is noticed,
\* and time passes.  What users do, rosters and faults are not fair.
FairSpec ==
  /\ Spec
  /\ WF_vars(SendTask /\ UNCHANGED faults) /\ WF_vars(SendCli /\ UNCHANGED faults)
  /\ WF_vars(OfferTask /\ UNCHANGED faults)
  /\ WF_vars(AcceptTask /\ UNCHANGED faults)
  /\ WF_vars(RejectTask /\ UNCHANGED faults)
  /\ WF_vars(RecvCli /\ UNCHANGED faults)
  /\ \A e \in End : /\ WF_vars(Hear(e) /\ UNCHANGED faults)
                     /\ WF_vars(Pass(e) /\ UNCHANGED faults)

-----------------------------------------------------------------------------
(* What the transfer guarantees *)

fate == IF out = "none" /\ spc = "ended" THEN "forgotten" ELSE out

Promise == INSTANCE Offer WITH fate <- fate, saved <- saved

\* The sender's list and the receiver's disk agree: what is shown as delivered
\* is saved, what is shown as rejected, expired or cancelled never is
\* (transfer.rs, Files::send and Files::accept implement Offer).
KeepsPromise == Promise!Spec

\* An offer waits here only while its sender is a member (mod.rs, admit and
\* set_roster), although the handler's own check is long past by then.
WaitingFromMember == inc # "none" => member["r"]

\* A peer that left the sender's roster is not offered anything for longer than
\* the one check that follows the delivery (mod.rs, set_roster; transfer.rs,
\* send: "The roster may have changed while the offer was on its way").
OfferedToMember ==
  outConn /\ ~member["s"] => ~IsOpen("s") \/ spc = "registered"

\* Once the task is gone the list no longer shows the offer as under way
\* (transfer.rs, Outcome).
EntrySettled == spc = "ended" => out \notin Live

\* Whoever sent it hears the end of it, and neither daemon keeps anything:
\* every path through both daemons ends (transfer.rs, send, receive_offer,
\* accept, reject).
Over ==
  /\ spc = "ended" /\ sc = "ended"
  /\ inc = "none" /\ ~recving
  /\ {hpc, apc, rpc} \subseteq {"idle", "ended"}

OfferEnds == (spc = "dialing") ~> Over

\* "so a sender removed from the network mid-transfer is cut off rather than
\* allowed to finish" (mod.rs, Registry::receiving).
SenderIsCutOff ==
  apc \in {"relaying", "committing"} /\ ~member["r"] => ~IsOpen("r")
===============================================================================
