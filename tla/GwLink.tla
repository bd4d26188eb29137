------------------------------- MODULE GwLink -------------------------------
(***************************************************************************)
(* The Greaseweazle protocol as gw_mode.cpp speaks it, for one unit: the   *)
(* emulator's task sends a command and waits for its two byte reply, and   *)
(* after READFLUX for a stream of flux that ends with a zero.  The device  *)
(* answers in order but may take longer than any timeout, so that what is  *)
(* received may belong to a command given up long ago: rx_reset() before   *)
(* each command and rx_resync() after it are to keep the two in step.      *)
(*                                                                         *)
(* Replies and flux are bytes of one buffer and may be taken for each      *)
(* other; of the flux only the bytes matter that look like a reply.        *)
(***************************************************************************)
EXTENDS Naturals, Sequences

CONSTANTS SEEK, HEAD, READFLUX, GETFLUXSTATUS, SETBUSTYPE, MOTOR,
          FluxBytes,        \* bytes of a stream, the zero at its end apart
          GW_RESYNC_MAX,
          MaxStream,        \* bound: bytes of a stream
          MaxQueued         \* commands a device may leave unanswered

(* The commands of track_read() and of gw_rearm(), two of which stand for  *)
(* its four.                                                               *)
ReadCmds == <<SEEK, HEAD, READFLUX>>
ArmCmds == <<SETBUSTYPE, MOTOR>>
Commands == {SEEK, HEAD, READFLUX, GETFLUXSTATUS, SETBUSTYPE, MOTOR}

ASSUME GwLinkAssumption ==
    /\ Commands \cup FluxBytes \subseteq Nat \ {0} /\ READFLUX \notin {SEEK, HEAD}
    /\ GW_RESYNC_MAX \in Nat /\ MaxStream \in Nat /\ MaxQueued \in Nat \ {0}

VARIABLES
    task,       \* what runs: "none", "read", "status", "arm", "keepalive"
    step,       \* the command of it being done
    await,      \* "send", "reply", "flux" or "none"
    stale,      \* replies skipped while waiting for this one
    again,      \* the read is the second try, after a re-arm
    ok,         \* the flux was decoded
    rx,         \* received and not taken: bytes, each with a ghost, "own" if it
                \* is flux of the last read begun or the zero that ends it
    queue,      \* commands the device has not begun
    streaming,  \* bytes the device is still to send of a stream, or NoFlux
    older,      \* ghost: commands from before the last read begun that the
                \* device has not done with
    behind,     \* ghost: how many those were when it began
    refused,    \* ghost: the device was not behind and refused a command of it
    taken       \* ghost: the flux it has taken: "none", its "own" or an "other"

host == <<task, step, await, stale, again, ok>>
device == <<queue, streaming>>
ghosts == <<older, behind, refused, taken>>
linkVars == <<host, rx, device, ghosts>>

NoFlux == MaxStream + 1     \* no stream
Outstanding == Len(queue) + (IF streaming = NoFlux THEN 0 ELSE 1)

LinkTypeOK ==
    /\ task \in {"none", "read", "status", "arm", "keepalive"}
    /\ await \in {"send", "reply", "flux", "none"}
    /\ (task = "none") <=> (await = "none")
    /\ step \in 1..3 /\ stale \in 0..GW_RESYNC_MAX
    /\ again \in BOOLEAN /\ ok \in BOOLEAN /\ refused \in BOOLEAN
    /\ rx \in Seq((Commands \cup FluxBytes \cup {0, 1}) \X {"own", "other"})
    /\ queue \in Seq(Commands) /\ Len(queue) <= MaxQueued
    /\ streaming \in 0..NoFlux
    /\ older \in 0..Outstanding /\ behind \in 0..(MaxQueued + 1)
    /\ taken \in {"none", "own", "other"}

Script(t) == CASE t = "read" -> ReadCmds
               [] t = "arm" -> ArmCmds
               [] t = "status" -> <<GETFLUXSTATUS>>
               [] t = "keepalive" -> <<MOTOR>>
Command == Script(task)[step]

Become(t) == /\ task' = t /\ step' = 1
             /\ await' = IF t = "none" THEN "none" ELSE "send"

(* When another read begins, all the device has not done is older.         *)
NewRead == task # "read" /\ task' = "read"
Noted == IF NewRead THEN /\ older' = Outstanding /\ behind' = Outstanding
                         /\ refused' = FALSE /\ taken' = "none"
         ELSE UNCHANGED ghosts

-----------------------------------------------------------------------------
LinkInit ==
    /\ task = "none" /\ step = 1 /\ await = "none" /\ stale = 0
    /\ again = FALSE /\ ok = FALSE
    /\ rx = <<>> /\ queue = <<>> /\ streaming = NoFlux
    /\ older = 0 /\ behind = 0 /\ refused = FALSE /\ taken = "none"

(* gw_live_read_track() and gw_live_keepalive().                           *)
Start ==
    /\ task = "none" /\ \E t \in {"read", "keepalive"} : Become(t)
    /\ again' = FALSE /\ ok' = FALSE /\ Noted
    /\ UNCHANGED <<stale, rx, device>>

(* What a read comes to: re-arm and try once more, or give up.             *)
ReadFailed == Become(IF again THEN "none" ELSE "arm") /\ UNCHANGED again

(* Every try is the first.                                                 *)
CommandDoneRetries ==
    /\ UNCHANGED ok
    /\ \/ /\ task = "read" /\ step = Len(ReadCmds) /\ await' = "flux"
          /\ UNCHANGED <<task, step, again>>
       \/ /\ task \in {"read", "arm"} /\ step < Len(Script(task))
          /\ step' = step + 1 /\ await' = "send" /\ UNCHANGED <<task, again>>
       \/ task = "arm" /\ step = Len(ArmCmds) /\ Become("read") /\ again' = FALSE
       \/ task = "keepalive" /\ Become("none") /\ UNCHANGED again
       \/ task = "status" /\ IF ok THEN Become("none") /\ UNCHANGED again ELSE ReadFailed

CommandDone ==
    /\ UNCHANGED ok
    /\ \/ /\ task = "read" /\ step = Len(ReadCmds) /\ await' = "flux"
          /\ UNCHANGED <<task, step, again>>
       \/ /\ task \in {"read", "arm"} /\ step < Len(Script(task))
          /\ step' = step + 1 /\ await' = "send" /\ UNCHANGED <<task, again>>
       \/ task = "arm" /\ step = Len(ArmCmds) /\ Become("read") /\ again' = TRUE
       \/ task = "keepalive" /\ Become("none") /\ UNCHANGED again
       \/ task = "status" /\ IF ok THEN Become("none") /\ UNCHANGED again ELSE ReadFailed

(* The status of the flux and of the keepalive's command is not looked at. *)
CommandFailed ==
    IF task \in {"status", "keepalive"} THEN CommandDone
    ELSE /\ UNCHANGED ok
         /\ IF task = "read" THEN ReadFailed ELSE Become("none") /\ UNCHANGED again

(* gw_cmd() up to the transfer, which may fail.                            *)
Send ==
    /\ await = "send" /\ rx' = <<>> /\ stale' = 0
    /\ \/ /\ Len(queue) < MaxQueued
          /\ queue' = Append(queue, Command) /\ await' = "reply"
          /\ UNCHANGED <<task, step, again, ok>>
       \/ CommandFailed /\ UNCHANGED queue
    /\ Noted /\ UNCHANGED streaming

(* One more that is not the reply: it is skipped, GW_RESYNC_MAX of them.   *)
Skip == IF stale < GW_RESYNC_MAX
        THEN stale' = stale + 1 /\ UNCHANGED <<task, step, await, again, ok>>
        ELSE CommandFailed /\ UNCHANGED stale

(* Whatever comes is the reply.                                            *)
TakeReplyUnmatched ==
    /\ await = "reply" /\ Len(rx) >= 2
    /\ rx' = SubSeq(rx, 3, Len(rx))
    /\ IF rx[1][1] \in Commands
       THEN UNCHANGED stale /\ IF rx[2][1] = 0 THEN CommandDone ELSE CommandFailed
       ELSE Skip
    /\ Noted /\ UNCHANGED device

(* The status of the reply is not looked at.                               *)
TakeReplyUnread ==
    /\ await = "reply" /\ Len(rx) >= 2
    /\ rx' = SubSeq(rx, 3, Len(rx))
    /\ IF rx[1][1] = Command THEN UNCHANGED stale /\ CommandDone ELSE Skip
    /\ Noted /\ UNCHANGED device

(* Two bytes taken: the reply, or one to skip (rx_resync).                 *)
TakeReply ==
    /\ await = "reply" /\ Len(rx) >= 2
    /\ rx' = SubSeq(rx, 3, Len(rx))
    /\ IF rx[1][1] = Command
       THEN UNCHANGED stale /\ IF rx[2][1] = 0 THEN CommandDone ELSE CommandFailed
       ELSE Skip
    /\ Noted /\ UNCHANGED device

ReplyTimeout ==
    /\ await = "reply" /\ Len(rx) < 2
    /\ CommandFailed
    /\ Noted /\ UNCHANGED <<stale, rx, device>>

(* rx_wait_zero() and the decoding, which may fail.                        *)
Zeros == {i \in DOMAIN rx : rx[i][1] = 0}
FirstZero == CHOOSE i \in Zeros : \A j \in Zeros : i <= j

TakeFlux ==
    /\ await = "flux" /\ Zeros # {}
    /\ taken' = IF \A i \in 1..FirstZero : rx[i][2] = "own" THEN "own" ELSE "other"
    /\ rx' = SubSeq(rx, FirstZero + 1, Len(rx))
    /\ ok' \in BOOLEAN /\ Become("status")
    /\ UNCHANGED <<stale, again, device, older, behind, refused>>

(* rx_drain() drops what comes until it is quiet, or three seconds long.   *)
FluxTimeout ==
    /\ await = "flux" /\ Zeros = {}
    /\ rx' = <<>> /\ ok' = FALSE /\ Become("status")
    /\ UNCHANGED <<stale, again, device, ghosts>>

-----------------------------------------------------------------------------
(* The device is done with a command, when its flux is out if it has any.  *)
Done == older' = IF older > 0 THEN older - 1 ELSE 0
Tag == IF older = 0 THEN "own" ELSE "other"

(* The device does its oldest command, in its own time; it may refuse it.  *)
Reply(status) ==
    /\ queue # <<>> /\ streaming = NoFlux
    /\ rx' = rx \o << <<Head(queue), "other">>, <<status, "other">> >>
    /\ queue' = Tail(queue)
    /\ IF Head(queue) = READFLUX /\ status = 0
       THEN streaming' \in 0..MaxStream /\ UNCHANGED older
       ELSE Done /\ UNCHANGED streaming
    /\ refused' = (refused \/ (status = 1 /\ task = "read" /\ behind = 0))
    /\ UNCHANGED <<host, behind, taken>>

Stream ==
    /\ streaming # NoFlux
    /\ IF streaming = 0
       THEN rx' = Append(rx, <<0, Tag>>) /\ streaming' = NoFlux /\ Done
       ELSE /\ \E b \in FluxBytes : rx' = Append(rx, <<b, Tag>>)
            /\ streaming' = streaming - 1 /\ UNCHANGED older
    /\ UNCHANGED <<host, queue, behind, refused, taken>>

Host == Send \/ TakeReply \/ ReplyTimeout \/ TakeFlux \/ FluxTimeout
Device == Stream \/ \E status \in {0, 1} : Reply(status)

LinkNext == Start \/ Host \/ Device

LinkSpec == LinkInit /\ [][LinkNext]_linkVars
LinkFairSpec == LinkSpec /\ WF_linkVars(Host)

-----------------------------------------------------------------------------
(* The flux a read takes is that of its own READFLUX, whole: however late  *)
(* the replies to commands given up on come, and whatever the flux looks   *)
(* like, none of it is taken for the replies to this read's commands in a  *)
(* way that pairs it with the flux of another track; but where the device  *)
(* had three commands or more to catch up with, one for each of the        *)
(* read's, when the read began (rx_resync).                                *)
FreshFlux == behind < Len(ReadCmds) => taken # "other"

(* A command of a read that the device refuses is not passed over, so that  *)
(* the flux is of the cylinder and the head asked for; but by a read that   *)
(* began with the device behind, where an older reply can stand for this    *)
(* one's (rx_resync).                                                       *)
RefusalSeen == refused => taken = "none"

(* A read ends, whatever the device answers or does not answer: the        *)
(* machine stands still meanwhile.                                         *)
ReadEnds == (task = "read") ~> (task = "none")
=============================================================================
