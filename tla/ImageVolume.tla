---------------------------- MODULE ImageVolume -----------------------------
(***************************************************************************)
(* Disk Image Reader Mode (src/main/usb_image.cpp behind the callbacks of  *)
(* src/main/usb_msc.cpp): the DOS volume in a floppy or hard disk image is *)
(* shown to a PC as blocks of 512 bytes.                                   *)
(*                                                                         *)
(* The tusb task serves the host.  The escape task, on a tap or ESC, has   *)
(* the file written out, waits 50 ms and restarts the board, whatever the  *)
(* host does meanwhile: it takes no lock.  The file is a FILE of the C     *)
(* library over FATFS, which keep part of what was written in memory and   *)
(* write it out when they like.                                            *)
(*                                                                         *)
(* A step is one fwrite().  Places in the file are counted in blocks.      *)
(***************************************************************************)
EXTENDS Integers, FiniteSets

CONSTANTS Places,     \* of the image file, and what it may grow by
          Idx,        \* bytes of a block that are told apart
          Byte,
          Volumes,    \* what usb_image_open() may find
          Files,      \* what the file may hold by then
          BLK_MISSING,
          Beyond,     \* blocks past the last that the host may ask for
          MaxBlocks,  \* blocks of one transfer, CFG_TUD_MSC_EP_BUFSIZE / 512
          MaxHeld     \* places the library keeps back at a time

Content == [Idx -> Byte]
Zeros == [i \in Idx |-> 0]

(* What the host reads as the number of blocks: one more than a floppy     *)
(* has, so that it is not taken for a floppy drive.                        *)
BlockCount(v) == IF v.kind = "floppy" THEN v.secs * v.k + 1 ELSE v.secs * v.k
Blocks(v) == 0..(BlockCount(v) - 1)

(* What the host asks for is compared with the capacity nowhere.           *)
Asked(v) == 0..(BlockCount(v) + Beyond - 1)

(* fd_block_off(), and the offset of a volume that is shown as it is.      *)
BlockOff(v, b) ==
    LET sec == b \div v.k
    IN  IF v.kind = "plain" THEN v.off + b
        ELSE IF sec >= v.secs THEN BLK_MISSING
        ELSE IF v.kind = "hdd" THEN v.off + b
        ELSE IF v.map[sec] = BLK_MISSING THEN BLK_MISSING
        ELSE v.map[sec] + (b % v.k)

Void(v) == {b \in Asked(v) : BlockOff(v, b) = BLK_MISSING}

(* No two blocks are at one place, and a byte that is changed on its way   *)
(* out is in the file and changed once.                                    *)
ASSUME VolumeAssumption ==
    /\ 0 \in Byte /\ Places \subseteq Int /\ BLK_MISSING \notin Places \cup Nat
    /\ Beyond \in Nat /\ MaxBlocks \in Nat \ {0} /\ MaxHeld \in Nat
    /\ Files \subseteq [Places -> Content]
    /\ \A v \in Volumes :
        /\ v.kind \in {"floppy", "hdd", "plain"} /\ v.off \in Nat
        /\ v.secs \in Nat /\ v.k \in Nat \ {0} /\ BlockCount(v) \in Nat \ {0}
        /\ \A b \in Asked(v) : BlockOff(v, b) \in Places \cup {BLK_MISSING}
        /\ \A b, c \in Asked(v) \ Void(v) : BlockOff(v, b) = BlockOff(v, c) => b = c
        /\ v.kind = "plain" => v.patches = {}
        /\ \A p \in v.patches :
            /\ p.block \in Blocks(v) \ Void(v) /\ p.idx \in Idx
            /\ {p.orig, p.virt} \subseteq Byte /\ p.orig # p.virt
            /\ \A q \in v.patches : p.block = q.block /\ p.idx = q.idx => p = q

VARIABLES vol,    \* the volume found
          file,   \* what the library has for each place of the file
          held,   \* places whose latest content is not on the card yet
          todo,   \* the write in progress: blocks left and their data
          reply,  \* ghost: the blocks a read returned in this step
          esc,    \* the escape task: "watch", "flushed", then the board is
                  \* "restarted"; "touched" by the 1200 baud request
          late    \* ghost: those written since the escape task's flush

vars == <<vol, file, held, todo, reply, esc, late>>

Nothing == [b \in {} |-> Zeros]
Up == esc \in {"watch", "flushed"}

(* First and last block of a transfer of at most MaxBlocks.                *)
Transfers(v) == {t \in Asked(v) \X Asked(v) : t[1] <= t[2] /\ t[2] - t[1] < MaxBlocks}

-----------------------------------------------------------------------------
(* The patch of byte i of block b that replaces x on the way out or in.    *)
OutPatch(v, b, i, x) == {p \in v.patches : p.block = b /\ p.idx = i /\ p.orig = x}
InPatch(v, b, i, x)  == {p \in v.patches : p.block = b /\ p.idx = i /\ p.virt = x}

(* fd_read(): the host is shown virt where the file has orig.              *)
Shown(v, b, c) ==
    [i \in Idx |-> LET ps == OutPatch(v, b, i, c[i])
                   IN  IF ps = {} THEN c[i] ELSE (CHOOSE p \in ps : TRUE).virt]

(* Faulty: what the host was shown is written back as it is.               *)
TakenAsIs(v, b, c) == c

(* fd_write(): the file gets orig where the host writes virt.              *)
Taken(v, b, c) ==
    [i \in Idx |-> LET ps == InPatch(v, b, i, c[i])
                   IN  IF ps = {} THEN c[i] ELSE (CHOOSE p \in ps : TRUE).orig]

(* What block b reads as.  A track that was never formatted reads as       *)
(* zeros.  Past the end of the file a read fails, as any read may.         *)
BlockRead(b) ==
    LET q == BlockOff(vol, b)
    IN  IF q = BLK_MISSING THEN Zeros ELSE Shown(vol, b, file[q])

Init ==
    /\ vol \in Volumes
    /\ file \in Files
    /\ \A p \in vol.patches : file[BlockOff(vol, p.block)][p.idx] = p.orig
    /\ held = {} /\ todo = Nothing /\ reply = Nothing
    /\ esc = "watch" /\ late = {}

-----------------------------------------------------------------------------
(* tud_msc_read10_cb(): the card may fail.                                 *)
HostRead ==
    /\ Up /\ todo = Nothing
    /\ \E t \in Transfers(vol) :
          reply' \in {Nothing, [b \in t[1]..t[2] |-> BlockRead(b)]}
    /\ UNCHANGED <<vol, file, held, todo, esc, late>>

(* tud_msc_write10_cb().                                                   *)
HostWrite ==
    /\ Up /\ todo = Nothing /\ reply' = Nothing
    /\ \E t \in Transfers(vol) : todo' \in [t[1]..t[2] -> Content]
    /\ UNCHANGED <<vol, file, held, esc, late>>

First(bs) == CHOOSE b \in bs : \A c \in bs : b <= c
Last(bs) == CHOOSE b \in bs : \A c \in bs : c <= b

(* fd_patched().                                                           *)
Patched(v, bs) == \E p \in v.patches : p.block \in bs

(* Faulty: the first block decides, and the run goes on past the end.      *)
WholeRunByFirst ==
    \/ vol.kind = "plain"
    \/ /\ vol.kind = "hdd" /\ ~Patched(vol, DOMAIN todo)
       /\ BlockOff(vol, First(DOMAIN todo)) # BLK_MISSING

(* Blocks the next fwrite() takes: all that are left, if they are one run  *)
(* in the file and none is patched; else one, patched on its way.          *)
WholeRun ==
    \/ vol.kind = "plain"
    \/ /\ vol.kind = "hdd" /\ ~Patched(vol, DOMAIN todo)
       /\ BlockOff(vol, Last(DOMAIN todo)) # BLK_MISSING

(* Faulty: the last block goes first.                                      *)
RunBackwards == IF WholeRun THEN DOMAIN todo ELSE {Last(DOMAIN todo)}

Run == IF WholeRun THEN DOMAIN todo ELSE {First(DOMAIN todo)}

(* A single block is looked up, a run is not.                              *)
Refused == ~WholeRun /\ Run \cap Void(vol) # {}

Data(b) == IF WholeRun THEN todo[b] ELSE Taken(vol, b, todo[b])
At(b) == IF WholeRun THEN vol.off + b ELSE BlockOff(vol, b)

(* The file once the blocks bs have been written to it.                    *)
Written(bs) ==
    [q \in Places |-> IF \E b \in bs : At(b) = q
                      THEN Data(CHOOSE b \in bs : At(b) = q) ELSE file[q]]

PlacesOf(bs) == {At(b) : b \in bs}

(* Where blocks went to, the library may keep them for a while.            *)
Keeps(bs) ==
    /\ held' \in {held \cup h : h \in SUBSET PlacesOf(bs)} /\ Cardinality(held') <= MaxHeld
    /\ late' = IF esc = "flushed" THEN held' \cap (late \cup PlacesOf(bs)) ELSE late

FileWrite ==
    /\ Up /\ todo # Nothing /\ ~Refused
    /\ file' = Written(Run) /\ Keeps(Run)
    /\ todo' = [b \in DOMAIN todo \ Run |-> todo[b]]
    /\ reply' = Nothing /\ UNCHANGED <<vol, esc>>

(* fwrite() fails: blocks below b are written, b is torn.                  *)
FileWriteFails ==
    /\ Up /\ todo # Nothing /\ ~Refused
    /\ \E b \in Run : \E torn \in Content :
          LET below == {c \in Run : c < b}
              old   == file[At(b)]
          IN  /\ \A i \in Idx : torn[i] \in {old[i], Data(b)[i]}
              /\ file' = [Written(below) EXCEPT ![At(b)] = torn]
              /\ Keeps(below \cup {b})
    /\ todo' = Nothing /\ reply' = Nothing /\ UNCHANGED <<vol, esc>>

(* A block that is not in the file refuses the write there.                *)
Refuse ==
    /\ Up /\ todo # Nothing /\ Refused
    /\ todo' = Nothing /\ reply' = Nothing
    /\ UNCHANGED <<vol, file, held, esc, late>>

(* usb_image_flush() on "safely remove".                                   *)
Eject ==
    /\ Up /\ todo = Nothing /\ held # {}
    /\ held' = {} /\ late' = {} /\ reply' = Nothing
    /\ UNCHANGED <<vol, file, todo, esc>>

(* The library writes something out.                                       *)
WriteOut ==
    /\ Up /\ \E q \in held : held' = held \ {q} /\ late' = late \ {q}
    /\ reply' = Nothing /\ UNCHANGED <<vol, file, todo, esc>>

(* Faulty: the SD card's cache is flushed instead.                         *)
EscapeFlushCache ==
    /\ esc = "watch" /\ esc' = "flushed" /\ late' = {}
    /\ reply' = Nothing /\ UNCHANGED <<vol, file, held, todo>>

(* escape_task(): usb_image_flush(), in the middle of a write maybe.       *)
EscapeFlush ==
    /\ esc = "watch" /\ esc' = "flushed" /\ held' = {} /\ late' = {}
    /\ reply' = Nothing /\ UNCHANGED <<vol, file, todo>>

(* 50 ms later: esp_restart().                                             *)
EscapeRestart ==
    /\ esc = "flushed" /\ esc' = "restarted"
    /\ reply' = Nothing /\ UNCHANGED <<vol, file, held, todo, late>>

(* tud_cdc_line_state_cb(), on the tusb task: the file is not flushed.     *)
Touch ==
    /\ Up /\ todo = Nothing /\ esc' = "touched"
    /\ reply' = Nothing /\ UNCHANGED <<vol, file, held, todo, late>>

Next ==
    \/ HostRead \/ HostWrite
    \/ FileWrite \/ FileWriteFails \/ Refuse
    \/ Eject \/ WriteOut
    \/ EscapeFlush \/ EscapeRestart \/ Touch

Spec == Init /\ [][Next]_vars

-----------------------------------------------------------------------------
TypeOK ==
    /\ vol \in Volumes /\ file \in [Places -> Content] /\ held \subseteq Places
    /\ DOMAIN todo \subseteq Asked(vol) /\ todo \in [DOMAIN todo -> Content]
    /\ DOMAIN reply \subseteq Asked(vol) /\ reply \in [DOMAIN reply -> Content]
    /\ esc \in {"watch", "flushed", "restarted", "touched"} /\ late \subseteq Places

(* The host is served by a device of blocks: what it reads is what it      *)
(* wrote, whatever of the volume is where in the file, and a failed write  *)
(* has stopped in the middle.  One value of a patched byte cannot be kept: *)
(* orig reads back as virt (usb_image_read, usb_image_write).  A volume    *)
(* that is translated answers for every block the host may ask for, zeros  *)
(* past its end; one that is shown as it is, for its own.                  *)
Served(v) == IF v.kind = "plain" THEN Blocks(v) ELSE Asked(v)

Device == INSTANCE BlockDevice
    WITH void <- Void(vol), veiled <- vol.patches,
         asked <- Asked(vol), disk <- [b \in Served(vol) |-> BlockRead(b)]

Implements == Device!Spec

(* The file keeps the layout of its own machine: no byte of the boot       *)
(* sector or the FATs has the value that is shown to a PC in its place, so *)
(* that the PC-98 finds the disk as it was, through any sequence of writes *)
(* and failures (the comment on fd_patch: "put back on the way in").       *)
LayoutKept == \A p \in vol.patches : file[BlockOff(vol, p.block)][p.idx] # p.virt

(* What is not of the volume: the container's header, other partitions,    *)
(* the headers between sectors, what is past the end.                      *)
Outside(q) == \A b \in Blocks(vol) : BlockOff(vol, b) # q

(* Where a host writes that goes past the end of a volume shown as it is.  *)
PastPlain(q) ==
    vol.kind = "plain" /\ \E b \in DOMAIN todo : b >= BlockCount(vol) /\ q = vol.off + b

(* Whatever the host asks for, nothing outside a floppy or a translated    *)
(* volume is written, not by a run that leaves the volume half way either  *)
(* (fd_block_off, fd_write); outside a volume that is shown as it is, only *)
(* the blocks past its end that the host names (usb_image_write).          *)
OutsideUntouched ==
    [][\A q \in Places : Outside(q) => file'[q] = file[q] \/ PastPlain(q)]_vars

(* What the card lacks after the restart from a tap or ESC was written     *)
(* after the flush: the host can lose the last 50 ms and nothing else      *)
(* (escape_task).                                                          *)
EscapeLosesOnlyLate == esc = "restarted" => held \subseteq late
=============================================================================
