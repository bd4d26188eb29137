-------------------------------- MODULE Fdc ---------------------------------
(***************************************************************************)
(* The floppy controller uPD765 (io/fdc.c) and its channel of the 8237     *)
(* (io/dmac.c, mem/dmax86.c), between a guest that sends it commands and   *)
(* an emulator that, between two frames, has a door open or close, a disk  *)
(* mounted or ejected, and says so in the controller's own registers.      *)
(*                                                                         *)
(* A command is its code and, as one, its parameters; a result is one      *)
(* thing to read.  Cylinders and the bytes themselves are left out: what   *)
(* is asked is which sectors are moved, and whether they all are.  The     *)
(* controller is that for 1.2 MB disks, whose drives are ready whether or  *)
(* not the motors run (fdc.chgreg is 3).                                   *)
(***************************************************************************)
EXTENDS Naturals, FiniteSets

CONSTANTS Drives,          \* drives of fdc.equip, numbered from 0
          Eot,             \* fdc.eot: sectors on a side
          SectorLen,       \* 128 << fdc.N
          FDC_INT_DELAY,   \* in frames
          Doors,           \* drives that are opened, ejected and mounted again
          Asked,           \* commands the guest sends, with their parameters
          Stray,           \* commands that bytes meant for a disk may look like
          Lengths,         \* what the guest programs the channel to move
          Wrap             \* the channel's counter has Wrap values

ASSUME FdcAssumption ==
    /\ 0 \in Drives /\ Drives \subseteq 0..3
    /\ {Eot, SectorLen, FDC_INT_DELAY} \subseteq Nat \ {0}
    /\ Wrap \in Nat \ {0} /\ Lengths \subseteq 1..Wrap /\ Doors \subseteq Drives

VARIABLES
    fdc,     \* the controller's registers
    dma,     \* its channel
    armed,   \* NEVENT_FDCINT is set
    ready,   \* drives for which fdd_diskready() holds
    heard,   \* ghost: what has to be told, and an interrupt was made for
    job      \* ghost: the data command that runs

vars == <<fdc, dma, armed, ready, heard, job>>

Moving == {"READ", "WRITE"}
Data == Moving \cup {"DIAG", "READID", "FORMAT"}
Outward == {"WRITE", "FORMAT"}
WithParameters == Data \cup {"SPECIFY", "SENSEDEV", "SEEK", "SCAN"}
Commands == WithParameters \cup {"SENSEINT", "INVALID"}

Heads == {0, 1}

ASSUME GuestAssumption ==
    /\ Asked \subseteq [op : WithParameters, us : Drives, hd : Heads, R : 1..Eot, mt : BOOLEAN]
    /\ Stray \subseteq Commands

(* What fdc.stat[] holds for a drive: nothing, only its number and head    *)
(* (which for head 0 of drive 0 is nothing), the end of a seek, or that    *)
(* its disk or door has changed.                                           *)
Stats == {"zero", "addr", "se", "ai"}

(* int_stat and int_timer: what is to become of stat, and when.  Nothing   *)
(* reads the one when the other has run down.                              *)
NoSeek == [timer |-> 0, stat |-> "zero"]
Later(stat) == [timer |-> FDC_INT_DELAY, stat |-> stat]

Addr(f) == IF f.us = 0 /\ f.hd = 0 THEN "zero" ELSE "addr"
Addressed(f) == [f EXCEPT !.stat[f.us] = Addr(f)]

NoJob == [op |-> "none", us |-> 0, hd |-> 0, R |-> 1, mt |-> FALSE, clean |-> TRUE,
          diverted |-> FALSE, turn |-> 0, last |-> <<0, 0, 1>>, bytes |-> 0, want |-> 0,
          end |-> "none"]

TypeOK ==
    /\ fdc \in [event : {"NEUTRAL", "CMDRECV", "BUFRECV", "BUFSEND", "BUFSEND2", "NEXTDATA"},
                cmd : Commands, rest : Nat, status : SUBSET {"RQM", "DIO", "CB"},
                us : Drives, hd : Heads, R : 1..Eot, mt : BOOLEAN,
                diag : BOOLEAN, tc : BOOLEAN, stat : [Drives -> Stats],
                int : [Drives -> [timer : 0..FDC_INT_DELAY, stat : Stats]]]
    /\ dma \in [leng : 0..Wrap - 1, out : BOOLEAN, masked : BOOLEAN, ready : BOOLEAN,
                chan : {"off", "on", "done"}]
    /\ armed \in BOOLEAN /\ ready \subseteq Drives

Init ==
    /\ fdc = [event |-> "NEUTRAL", cmd |-> "INVALID", rest |-> 0, status |-> {"RQM"},
              us |-> 0, hd |-> 0, R |-> 1, mt |-> FALSE, diag |-> FALSE,
              tc |-> FALSE, stat |-> [d \in Drives |-> "zero"],
              int |-> [d \in Drives |-> NoSeek]]
    /\ dma = [leng |-> 0, out |-> FALSE, masked |-> TRUE, ready |-> FALSE, chan |-> "off"]
    /\ armed = FALSE /\ ready = Drives /\ heard = {} /\ job = NoJob

----------------------------------------------------------------------------
(* The channel.                                                            *)

(* "on" is dmac.work and dmac.working, "done" work alone: the count has    *)
(* ended, and the channel does not start again before it was let go.       *)
Check(d) ==
    [d EXCEPT !.chan = IF d.masked \/ ~d.ready THEN "off" ELSE IF @ = "off" THEN "on" ELSE @]

DmaReady(d, on) == Check([d EXCEPT !.ready = on])

----------------------------------------------------------------------------
(* What a command comes to.  f and d are the controller and the channel so *)
(* far, j the job.                                                         *)

Quiet(f, d, j) == fdc' = f /\ dma' = d /\ job' = j /\ UNCHANGED armed

Answer == {"RQM", "DIO", "CB"}

(* fdcsend_success7() and fdcsend_error7().                                *)
Result(f, d, j, end) ==
    /\ fdc' = [f EXCEPT !.tc = FALSE, !.event = "BUFSEND", !.rest = 1, !.status = Answer,
                        !.stat[f.us] = "zero"]
    /\ dma' = DmaReady(d, FALSE)
    /\ job' = [j EXCEPT !.end = end]
    /\ armed' = TRUE

(* The channel is let go for what the guest or it is to take or to give.   *)
(* want counts from where it starts.                                       *)
Transfer(f, d, j) ==
    LET e == DmaReady(d, TRUE)
    IN  Quiet(f, e, IF j.want = 0 /\ e.chan = "on" THEN [j EXCEPT !.want = e.leng + 1] ELSE j)

(* No command: which it was and where it stood is forgotten, since nothing *)
(* reads that before the next one.                                         *)
Neutral(f) ==
    [f EXCEPT !.event = "NEUTRAL", !.status = {"RQM"}, !.cmd = "INVALID", !.rest = 0,
              !.R = 1, !.mt = FALSE, !.diag = FALSE]

Phase(f, event, len, status) ==
    [f EXCEPT !.event = event, !.rest = len, !.status = status]

Sends(f, d, j, len) == Transfer(Phase(f, "BUFSEND2", len, Answer), d, j)
Receives(f, d, j, len) == Transfer(Phase(f, "BUFRECV", len, {"RQM", "CB"}), d, j)

(* fdd_read() or fdd_write() for the sector the registers name.            *)
Taken(f, j) == [j EXCEPT !.turn = @ + 1, !.last = <<f.us, f.hd, f.R>>]

ReadSector(f, d, j) ==
    LET g == Addressed(f)
    IN  \/ Result(g, d, j, "error")
        \/ f.us \in ready /\ Sends(g, d, Taken(g, j), SectorLen)

(* Faulty: the other side is begun where this one ended.                   *)
OtherSideKeepsR(f) == [f EXCEPT !.hd = IF f.mt THEN 1 - @ ELSE @]

OtherSide(f) == [f EXCEPT !.R = 1, !.hd = IF f.mt THEN 1 - @ ELSE @]

NextSector(f, d, j) ==
    LET g == OtherSide(f)
    IN  IF f.R # Eot THEN ReadSector([f EXCEPT !.R = @ + 1], d, j)
        ELSE IF f.mt /\ g.hd = 1 THEN ReadSector(g, d, j)
        ELSE Result(g, d, j, "ok")

(* The sector just filled is written, and unless the count has ended or it *)
(* was the last one, the next is taken: writesector() leaves the status.   *)
WriteSector(f, d, j) ==
    LET g == Addressed(f)
        k == Taken(g, j)
        h == OtherSide(g)
        More(n) == Transfer([n EXCEPT !.event = "BUFRECV", !.rest = SectorLen], d, k)
    IN  \/ Result(g, d, j, "error")
        \/ /\ f.us \in ready
           /\ IF ~f.tc /\ f.R # Eot THEN More([g EXCEPT !.R = @ + 1])
              ELSE IF f.mt /\ ~f.tc /\ h.hd = 1 THEN More(Addressed(h))
              ELSE Result(h, d, k, "ok")

----------------------------------------------------------------------------
(* The commands, when their parameters p are there.                        *)

(* get_hdus(), and get_chrn() with the bit of get_mtmfsk() that is used.   *)
Named(f, p) == [f EXCEPT !.us = p.us, !.hd = p.hd]
NamedSector(f, p) == [Named(f, p) EXCEPT !.R = p.R, !.mt = p.mt]

(* A command that is to move what the channel counts begins clean when     *)
(* none of an earlier one is left in it.                                   *)
NewJob(f, d, p) ==
    [NoJob EXCEPT !.op = f.cmd, !.us = p.us, !.hd = p.hd, !.R = p.R, !.mt = p.mt,
                  !.clean = ~f.tc /\ ~d.ready]

ReadData(f, d, p) == ReadSector(NamedSector(f, p), d, NewJob(f, d, p))

ReadDiagnostic(f, d, p) ==
    LET g == Addressed([NamedSector(f, p) EXCEPT !.diag = FALSE])
        j == NewJob(f, d, p)
    IN  \/ Result(g, d, j, "error")
        \/ g.us \in ready /\ Sends([g EXCEPT !.diag = TRUE], d, j, SectorLen)
        \/ ReadSector(g, d, j)

WriteData(f, d, p) ==
    LET g == Addressed(NamedSector(f, p))
        j == NewJob(f, d, p)
    IN  \/ Result(g, d, j, "error")
        \/ g.us \in ready /\ Receives(g, d, j, SectorLen)

ReadID(f, d, p) == \E end \in {"ok", "error"} : Result(Named(f, p), d, NewJob(f, d, p), end)

(* Faulty: the end of the count does not end a format.                     *)
FormatNextOn(f, d, j, more) ==
    \/ \E end \in {"ok", "error"} : Result(f, d, j, end)
    \/ f.us \in ready /\ Receives(f, d, j, 1)

(* The ID of a sector is taken, or there are none left.                    *)
FormatNext(f, d, j, more) ==
    \/ \E end \in {"ok", "error"} : Result(f, d, j, end)
    \/ more /\ Receives(f, d, j, 1)

WriteID(f, d, p) == FormatNext(Named(f, p), d, NewJob(f, d, p), p.us \in ready)

Specify(f, d) == Quiet(Addressed(Neutral(f)), d, NoJob)

SenseDeviceStatus(f, d, p) ==
    Quiet(Phase(Addressed(Named(f, p)), "BUFSEND", 1, Answer), d, NoJob)

(* RECALIBRATE is the same.                                                *)
Seek(f, d, p) == Quiet([Named(Neutral(f), p) EXCEPT !.int[p.us] = Later("se")], d, NoJob)

(* There is no more of it: neither event nor status is changed.            *)
ScanEqual(f, d, p) == Quiet(NamedSector(f, p), d, NoJob)

Execute(f, d, p) ==
    CASE f.cmd = "READ" -> ReadData(f, d, p)
      [] f.cmd = "DIAG" -> ReadDiagnostic(f, d, p)
      [] f.cmd = "WRITE" -> WriteData(f, d, p)
      [] f.cmd = "READID" -> ReadID(f, d, p)
      [] f.cmd = "FORMAT" -> WriteID(f, d, p)
      [] f.cmd = "SPECIFY" -> Specify(f, d)
      [] f.cmd = "SENSEDEV" -> SenseDeviceStatus(f, d, p)
      [] f.cmd = "SEEK" -> Seek(f, d, p)
      [] f.cmd = "SCAN" -> ScanEqual(f, d, p)

(* The drive selected last is asked first.                                 *)
SenseInt(f, d) ==
    LET told == {i \in Drives : f.stat[i] # "zero"}
        i == IF f.us \in told THEN f.us ELSE CHOOSE m \in told : \A n \in told : m <= n
        g == Phase(f, "BUFSEND", 1, Answer)
    IN  Quiet(IF told = {} THEN g ELSE [g EXCEPT !.stat[i] = "zero"], d, NoJob)

Command(f, d, c) ==
    LET g == [f EXCEPT !.cmd = c, !.status = @ \cup {"CB"}]
    IN  IF c \in WithParameters
        THEN Quiet([g EXCEPT !.event = "CMDRECV", !.rest = 1, !.status = @ \cup {"RQM"}],
                   d, NoJob)
        ELSE IF c = "SENSEINT" THEN SenseInt(g, d)
        ELSE Quiet(Phase(g, "BUFSEND", 1, Answer), d, NoJob)

----------------------------------------------------------------------------
(* fdc_datawrite() and fdc_dataread(), which the guest reaches through the *)
(* data port and the channel without looking at the status.                *)

Moved == [job EXCEPT !.bytes = IF job.op \in Moving THEN @ + 1 ELSE @]

DataWrite(f, d) ==
    LET g == [f EXCEPT !.rest = @ - 1, !.status = @ \ {"RQM"}]
        j == Moved
    IN  CASE f.event = "BUFRECV" ->
                IF f.rest > 1 /\ ~f.tc THEN Quiet([f EXCEPT !.rest = @ - 1], d, j)
                ELSE IF f.cmd = "WRITE" THEN WriteSector(g, d, j)
                ELSE FormatNext(g, d, j, ~f.tc)
          [] f.event = "CMDRECV" ->
                IF f.rest = 1 THEN \E p \in {a \in Asked : a.op = f.cmd} : Execute(g, d, p)
                ELSE Quiet(f, d, job)
          [] OTHER -> \E c \in Stray : Command(f, d, c)

DataRead(f, d) ==
    LET g == [f EXCEPT !.rest = @ - 1]
        j == Moved
    IN  CASE f.event = "BUFSEND" ->
                Quiet(Neutral(f), d, NoJob)
          [] f.event = "BUFSEND2" ->
                IF f.tc THEN Result([g EXCEPT !.R = 1], d, j, "ok")
                ELSE IF f.rest > 1 THEN Quiet(g, d, j)
                ELSE IF f.cmd = "DIAG" /\ f.diag THEN Result(g, d, j, "ok")
                ELSE NextSector(g, d, j)
          [] OTHER -> Quiet(f, d, job)

----------------------------------------------------------------------------
(* The guest.                                                              *)

(* What has to be told, and the interrupts made for it.                    *)
TheResult == 4
Causes ==
    {d \in Drives : fdc.stat[d] \in {"se", "ai"}}
        \cup (IF fdc.event = "BUFSEND" /\ fdc.cmd \in Data THEN {TheResult} ELSE {})

Seen(new) == heard' = (heard \ new) \cap Causes'

Takes == "RQM" \in fdc.status /\ "DIO" \notin fdc.status
Gives == {"RQM", "DIO"} \subseteq fdc.status

(* fdc_o92() and fdc_i92().  The guest does not move bytes the channel     *)
(* moves, and programs the channel for the direction of the command.       *)
GuestCommand ==
    /\ Takes /\ fdc.event = "NEUTRAL"
    /\ \E c \in Commands :
        /\ c \in Data /\ ~dma.masked => dma.out = (c \in Outward)
        /\ Command(fdc, dma, c)
    /\ Seen({}) /\ UNCHANGED ready

GuestPut ==
    /\ Takes /\ fdc.event \in {"CMDRECV", "BUFRECV"}
    /\ fdc.event = "BUFRECV" => dma.masked
    /\ DataWrite(fdc, dma)
    /\ Seen({}) /\ UNCHANGED ready

GuestGet ==
    /\ Gives /\ (fdc.event = "BUFSEND" \/ (fdc.event = "BUFSEND2" /\ dma.masked))
    /\ DataRead(fdc, dma)
    /\ Seen({}) /\ UNCHANGED ready

(* fdc_o94(): bit 4 toggled, or bit 7 set, with bit 3 for the motors.      *)
Reset(f, motor) ==
    IF motor THEN [Neutral(f) EXCEPT !.int = [d \in Drives |-> Later(f.stat[d])]]
    ELSE Neutral(f)

(* Faulty: a reset cancels the interrupt that is to come.                  *)
GuestControlDrops ==
    /\ fdc' = Reset(fdc, FALSE) /\ dma' = DmaReady(dma, FALSE) /\ job' = NoJob
    /\ armed' = FALSE
    /\ Seen({}) /\ UNCHANGED ready

GuestControl ==
    /\ \/ Quiet(Reset(fdc, FALSE), DmaReady(dma, FALSE), NoJob)
       \/ \E motor \in BOOLEAN : Quiet(Reset(fdc, motor), dma, NoJob)
    /\ Seen({}) /\ UNCHANGED ready

(* The guest masks the channel, programs and unmasks it, before a command  *)
(* runs that is to use it.                                                 *)
GuestProgram ==
    /\ fdc.event \notin {"BUFSEND2", "BUFRECV"}
    /\ \E n \in Lengths, out \in BOOLEAN :
        LET off == Check([dma EXCEPT !.masked = TRUE])
        IN  /\ fdc.event = "CMDRECV" /\ fdc.cmd \in Data => out = (fdc.cmd \in Outward)
            /\ Quiet(fdc, Check([off EXCEPT !.leng = n - 1, !.out = out, !.masked = FALSE]), job)
    /\ UNCHANGED <<ready, heard>>

(* It gives up; the count is forgotten, since it is programmed anew.       *)
GuestMask ==
    /\ ~dma.masked
    /\ Quiet(fdc, Check([dma EXCEPT !.masked = TRUE, !.leng = 0, !.out = FALSE]), job)
    /\ UNCHANGED <<ready, heard>>

----------------------------------------------------------------------------
(* The machine.                                                            *)

(* Faulty: the count ends one byte early.                                  *)
DmaByteEarly ==
    /\ dma.chan = "on"
    /\ LET last == dma.leng <= 1
           f == [fdc EXCEPT !.tc = @ \/ last]
           d == [dma EXCEPT !.leng = (@ + Wrap - 1) % Wrap, !.chan = IF last THEN "done" ELSE @]
       IN  IF dma.out THEN DataWrite(f, d) ELSE DataRead(f, d)
    /\ Seen({}) /\ UNCHANGED ready

(* dmax86(): the count ends, which is TC, before the last byte is moved.   *)
DmaByte ==
    /\ dma.chan = "on"
    /\ LET last == dma.leng = 0
           f == [fdc EXCEPT !.tc = @ \/ last]
           d == [dma EXCEPT !.leng = (@ + Wrap - 1) % Wrap, !.chan = IF last THEN "done" ELSE @]
       IN  IF dma.out THEN DataWrite(f, d) ELSE DataRead(f, d)
    /\ Seen({}) /\ UNCHANGED ready

(* fdc_intwait(): the interrupt is asked for, once for all there is.       *)
Interrupt ==
    /\ armed /\ armed' = FALSE /\ heard' = Causes
    /\ UNCHANGED <<fdc, dma, ready, job>>

(* fdc_intdelay(), when a frame ends.                                      *)
Frame ==
    LET running == {d \in Drives : fdc.int[d].timer > 0}
        ended == {d \in running : fdc.int[d].timer = 1}
        int == [d \in Drives |-> IF d \in running \ ended
                                 THEN [fdc.int[d] EXCEPT !.timer = @ - 1] ELSE NoSeek]
        stat == [d \in Drives |-> IF d \in ended THEN fdc.int[d].stat ELSE fdc.stat[d]]
    IN  /\ running # {}
        /\ fdc' = [fdc EXCEPT !.int = int, !.stat = stat]
        /\ armed' = (armed \/ ended # {})
        /\ Seen(ended) /\ UNCHANGED <<dma, ready, job>>

(* Between frames: door_opened() and diskdrv_setfddex() take the disk out  *)
(* of drive d, fdd_gw_live_tick() and diskdrv_readyfddex() have it there.  *)
Announce(d) ==
    /\ ready' \in {ready \cup {d}, ready \ {d}}
    /\ fdc' = [fdc EXCEPT !.stat[d] = "ai", !.us = d]
    /\ armed' = TRUE
    /\ job' = [job EXCEPT !.diverted = @ \/ (job.op # "none" /\ d # job.us)]
    /\ Seen({d}) /\ UNCHANGED dma

Next ==
    \/ GuestCommand \/ GuestPut \/ GuestGet \/ GuestControl
    \/ GuestProgram \/ GuestMask
    \/ DmaByte \/ Interrupt \/ Frame \/ \E d \in Doors : Announce(d)

Fairness == WF_vars(DmaByte) /\ WF_vars(GuestPut) /\ WF_vars(GuestGet)

Spec == Init /\ [][Next]_vars
FairSpec == Spec /\ Fairness

----------------------------------------------------------------------------
(* Properties.                                                             *)

(* The n-th sector of a command: on from the one it names to the end of    *)
(* the side, then with MT the other side.                                  *)
Turn(j, n) ==
    LET r == j.R + n - 1
    IN  IF r <= Eot THEN <<j.us, j.hd, r>>
        ELSE IF j.mt /\ j.hd = 0 /\ r <= 2 * Eot THEN <<j.us, 1, r - Eot>>
        ELSE <<>>

(* READ and WRITE DATA read and write the sectors they name in their turn, *)
(* of the drive they name, whatever drive is served in between; unless     *)
(* another drive was announced while they run (fdc.c, diskdrv.c and        *)
(* fdd_gw_live.cpp, which share fdc.us).                                   *)
SectorsInTurn ==
    job.turn > 0 /\ ~job.diverted => job.last = Turn(job, job.turn)

(* A READ or WRITE DATA that began with nothing left over in the channel   *)
(* and that reports success has moved what the channel was to count, or    *)
(* all up to the end of the side or track (fdc.c, dmax86.c).               *)
TransferWhole ==
    job.end = "ok" /\ job.op \in Moving /\ job.clean =>
        \/ job.bytes = job.want
        \/ (Turn(job, job.turn + 1) = <<>> /\ job.bytes = job.turn * SectorLen)

(* A seek that has ended, a drive that was announced and a result that     *)
(* waits have an interrupt to come, until one was made: no reset and no    *)
(* other command loses it (fdc.c).                                         *)
NothingUntold == Causes \subseteq heard \/ armed

(* The channel is ready for no command, or its TC was for none.            *)
LeftOver == fdc.event \notin {"BUFSEND2", "BUFRECV"} /\ (dma.ready \/ fdc.tc)

(* A guest that gives and takes what the controller asks for sees every    *)
(* command through, but for SCAN, which never ends, for writes without the *)
(* channel, of which the second sector is never asked for, and for what a  *)
(* reset has left of a transfer (fdc.c).                                   *)
CommandsEnd ==
    "CB" \in fdc.status ~>
        \/ "CB" \notin fdc.status
        \/ fdc.cmd = "SCAN"
        \/ (fdc.event = "BUFRECV" /\ dma.masked)
        \/ LeftOver \/ ~job.clean
=============================================================================
