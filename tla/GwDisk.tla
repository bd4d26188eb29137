------------------------------- MODULE GwDisk -------------------------------
(***************************************************************************)
(* A real floppy drive as FDD1 or FDD2: the track cache and the door of    *)
(* fdd_gw_live.cpp over the motor and the connection of gw_mode.cpp, for   *)
(* one drive, on the emulator's task.  The user changes disks, and the     *)
(* drive has no line that says so: a change is noticed because the menu    *)
(* was opened or because the motor has rested.                             *)
(*                                                                         *)
(* A disk is all the sectors read from it: a track in the cache is the     *)
(* disk it was read from.  Nothing is written to a disk: a sector the      *)
(* guest writes is kept in the cache for as long as the cache is.          *)
(***************************************************************************)
EXTENDS Naturals

CONSTANTS Tracks,          \* 0 is the one a mount reads
          Disks,
          NoDisk,          \* nothing cached, nothing known
          Unreadable,      \* a track read in vain, remembered as such
          GW_DOOR_FRAMES,
          GW_IDLE_HOLD     \* GW_IDLE_HOLD_US in periods of the keepalive

ASSUME GwDiskAssumption ==
    /\ 0 \in Tracks /\ NoDisk \notin Disks /\ Unreadable \notin Disks \cup {NoDisk}
    /\ GW_DOOR_FRAMES \in Nat \ {0, 1} /\ GW_IDLE_HOLD \in Nat \ {0}

VARIABLES
    pc,             \* "frame", "loop" (between frames) or "menu"
    fname,          \* fddfile[].fname: "none", "live" or "image"
    mounted, trk,   \* live_drv
    own,            \* tracks of the cache with sectors the guest wrote
    restsDiffer,    \* gw_live_rest_count() is not the d->rests kept
    s_open_frames, s_hidden,
    dev, live_on, s_spun, idle,   \* gw_dev, s_live_on, s_spun, now - s_used_us
    disk,           \* the disk in the drive
    served,         \* ghost: the disk of the sector got or written in this step
    believes,       \* ghost: the disk the guest takes the one in the drive for
    unnoticed,      \* ghost: it was changed since the menu was opened or the
                    \* motor rested
    wrote,          \* ghost: tracks the guest wrote to since it saw the door
    silent          \* ghost: the motor rested since the guest saw the door

live == <<mounted, trk, own, restsDiffer>>
door == <<s_open_frames, s_hidden>>
motor == <<dev, live_on, s_spun, idle>>
notes == <<believes, unnoticed, wrote, silent>>
vars == <<pc, fname, live, door, motor, disk, served, notes>>

Empty == [t \in Tracks |-> NoDisk]
NoRead == served' = NoDisk
Ready == fname # "none"

TypeOK ==
    /\ pc \in {"frame", "loop", "menu"}
    /\ fname \in {"none", "live", "image"} /\ s_hidden \in {"none", "live", "image"}
    /\ trk \in [Tracks -> Disks \cup {NoDisk, Unreadable}]
    /\ s_open_frames \in 0..GW_DOOR_FRAMES /\ idle \in 0..GW_IDLE_HOLD
    /\ {mounted, restsDiffer, dev, live_on, s_spun} \subseteq BOOLEAN
    /\ {unnoticed, silent} \subseteq BOOLEAN /\ own \subseteq Tracks /\ wrote \subseteq Tracks
    /\ disk \in Disks /\ served \in Disks \cup {NoDisk} /\ believes \in Disks \cup {NoDisk}
    /\ live_on => mounted

-----------------------------------------------------------------------------
(* gw_live_read_track(), up to four times: the motor is spun up, a failed  *)
(* read re-arms the drive and is tried again.  Every part of it may fail,  *)
(* but not the spinning up if the rest is sure to have gone well.          *)
ReadTrack(sure) ==
    /\ idle' = IF dev THEN 0 ELSE idle
    /\ s_spun' \in IF ~dev THEN {s_spun} ELSE IF sure THEN {TRUE} ELSE {s_spun, TRUE}

Readable == IF dev THEN {disk} ELSE {}

(* The cache outlives the rest.                                            *)
TrackLoadCached(t, result, kept, diag) ==
    /\ kept = own /\ UNCHANGED restsDiffer
    /\ IF trk[t] # NoDisk THEN result = trk[t] ELSE result \in {Unreadable} \cup Readable
    /\ trk' = [trk EXCEPT ![t] = result]
    /\ IF trk[t] # NoDisk /\ (~diag \/ result = Unreadable)
       THEN UNCHANGED <<s_spun, idle>>
       ELSE ReadTrack(trk[t] = NoDisk /\ result # Unreadable)

(* A track is read though it is cached.                                    *)
TrackLoadAnew(t, result, kept, diag) ==
    LET cache == IF mounted /\ restsDiffer THEN Empty ELSE trk
    IN  /\ kept = (IF mounted /\ restsDiffer THEN {} ELSE own \ {t})
        /\ restsDiffer' = (restsDiffer /\ ~mounted)
        /\ result \in {Unreadable} \cup Readable /\ trk' = [cache EXCEPT ![t] = result]
        /\ ReadTrack(result # Unreadable)

(* track_load_locked(): a drive that has rested may hold another disk, and *)
(* its cache goes, with all the guest wrote.  diag: READ DIAGNOSTIC reads  *)
(* the track of the disk once more.                                        *)
TrackLoad(t, result, kept, diag) ==
    LET cache == IF mounted /\ restsDiffer THEN Empty ELSE trk
    IN  /\ kept = (IF mounted /\ restsDiffer THEN {} ELSE own)
        /\ restsDiffer' = (restsDiffer /\ ~mounted)
        /\ IF cache[t] # NoDisk THEN result = cache[t]
                                ELSE result \in {Unreadable} \cup Readable
        /\ trk' = [cache EXCEPT ![t] = result]
        /\ IF cache[t] # NoDisk /\ (~diag \/ result = Unreadable)
           THEN UNCHANGED <<s_spun, idle>>
           ELSE ReadTrack(cache[t] = NoDisk /\ result # Unreadable)

(* A door opened while it is open hides the name that is already hidden.   *)
DoorReopened(name, frames) ==
    fname' = "none" /\ s_open_frames' = GW_DOOR_FRAMES /\ s_hidden' = name

(* door_opened(): the drive goes not ready and the guest is interrupted.   *)
(* One already open stays so for the rest of its frames.                   *)
DoorOpened(name, frames) ==
    IF frames > 0
    THEN fname' = name /\ s_open_frames' = frames /\ UNCHANGED s_hidden
    ELSE fname' = "none" /\ s_open_frames' = GW_DOOR_FRAMES /\ s_hidden' = name

(* gw_live_end() and the rest of forget().                                 *)
Forget ==
    /\ mounted' = FALSE /\ trk' = Empty /\ own' = {} /\ live_on' = FALSE
    /\ s_spun' = (s_spun /\ ~mounted)
    /\ UNCHANGED <<restsDiffer, dev, idle>>

-----------------------------------------------------------------------------
(* The machine starts with the drive empty, or mounted from NVS.           *)
Init ==
    /\ pc = "loop" /\ disk \in Disks /\ idle = 0
    /\ mounted \in BOOLEAN /\ dev = mounted /\ live_on = mounted /\ s_spun = mounted
    /\ fname = (IF mounted THEN "live" ELSE "none")
    /\ trk = (IF mounted THEN [Empty EXCEPT ![0] = disk] ELSE Empty)
    /\ restsDiffer = FALSE /\ s_open_frames = 0 /\ s_hidden = "none"
    /\ served = NoDisk /\ believes = NoDisk
    /\ own = {} /\ wrote = {} /\ unnoticed = FALSE /\ silent = FALSE

(* The user puts another disk in; not while a track is being read.         *)
ChangeDisk ==
    /\ disk' \in Disks \ {disk}
    /\ unnoticed' = TRUE
    /\ NoRead /\ UNCHANGED <<pc, fname, live, door, motor, believes, wrote, silent>>

(* gw_event_cb(): the device goes.  It comes back at the next mount.       *)
Unplug ==
    /\ dev /\ dev' = FALSE
    /\ NoRead /\ UNCHANGED <<pc, fname, live, door, live_on, s_spun, idle, disk, notes>>

(* The guest is told only if it loses what it wrote.                       *)
OpenMenuQuietly ==
    /\ pc = "loop" /\ pc' = "menu"
    /\ IF mounted THEN trk' = Empty /\ own' = {} /\ restsDiffer' = FALSE
       ELSE UNCHANGED <<trk, own, restsDiffer>>
    /\ IF mounted /\ own # {} THEN DoorOpened(fname, s_open_frames)
       ELSE UNCHANGED <<fname, door>>
    /\ unnoticed' = FALSE
    /\ NoRead /\ UNCHANGED <<mounted, motor, disk, believes, wrote, silent>>

(* The menu's key: fdd_gw_live_menu_opened().                              *)
OpenMenu ==
    /\ pc = "loop" /\ pc' = "menu"
    /\ IF mounted THEN /\ trk' = Empty /\ own' = {} /\ restsDiffer' = FALSE
                       /\ DoorOpened(fname, s_open_frames)
       ELSE UNCHANGED <<trk, own, restsDiffer, fname, door>>
    /\ unnoticed' = FALSE
    /\ NoRead /\ UNCHANGED <<mounted, motor, disk, believes, wrote, silent>>

(* mount_live(), from the menu.  The old image is ejected first.           *)
Mounts(ok) ==
    /\ own' = {}
    /\ \/ ok /\ mounted' = TRUE /\ dev' = TRUE /\ live_on' = TRUE
          /\ s_spun' = TRUE /\ idle' = 0 /\ restsDiffer' = FALSE
          /\ trk' = [Empty EXCEPT ![0] = disk]
          /\ DoorOpened("live", 0)
       \/ ~ok /\ mounted' = FALSE /\ live_on' = FALSE /\ trk' = Empty
          /\ s_spun' = (s_spun /\ ~mounted) /\ dev' \in {dev, TRUE}
          /\ fname' = "none" /\ UNCHANGED <<restsDiffer, idle, door>>

Mount ==
    /\ pc = "menu" /\ \E ok \in BOOLEAN : Mounts(ok)
    /\ NoRead /\ UNCHANGED <<pc, disk, notes>>

(* diskdrv_readyfddex() on an image, good or bad, and diskdrv_setfddex()   *)
(* to eject: the drive's eject() is forget().                              *)
OtherImage ==
    /\ pc = "menu" /\ Forget
    /\ fname' \in {"image", IF mounted THEN fname ELSE "none"}
    /\ NoRead /\ UNCHANGED <<pc, door, disk, notes>>

EjectImage ==
    /\ pc = "menu" /\ Forget /\ fname' = "none"
    /\ NoRead /\ UNCHANGED <<pc, door, disk, notes>>

(* However long the menu was open.                                         *)
CloseMenu ==
    /\ pc = "menu" /\ pc' = "loop" /\ idle' \in idle..GW_IDLE_HOLD
    /\ NoRead /\ UNCHANGED <<fname, live, door, dev, live_on, s_spun, disk, notes>>

(* gw_live_keepalive(), when it is due: a drive not read for long rests.   *)
Keepalive ==
    IF live_on /\ s_spun /\ dev /\ idle >= GW_IDLE_HOLD
    THEN /\ s_spun' = FALSE /\ restsDiffer' = TRUE
         /\ unnoticed' = FALSE /\ silent' = TRUE /\ UNCHANGED idle
    ELSE /\ idle' = IF idle < GW_IDLE_HOLD THEN idle + 1 ELSE idle
         /\ UNCHANGED <<s_spun, restsDiffer, unnoticed, silent>>

(* fdd_gw_live_tick(): the door closes.                                    *)
Tick ==
    IF mounted /\ s_open_frames > 0
    THEN /\ s_open_frames' = s_open_frames - 1
         /\ fname' = IF s_open_frames = 1 THEN s_hidden ELSE fname
    ELSE UNCHANGED <<s_open_frames, fname>>

Loop ==
    /\ pc = "loop" /\ pc' = "frame"
    /\ \/ Keepalive
       \/ UNCHANGED <<s_spun, restsDiffer, unnoticed, silent, idle>>
    /\ Tick /\ NoRead
    /\ UNCHANGED <<s_hidden, mounted, trk, own, dev, live_on, disk, believes, wrote>>

(* The guest asks for something of track t, and gets a sector of got.      *)
Access(t, result, kept, diag) ==
    /\ pc = "frame" /\ fname = "live"
    /\ TrackLoad(t, result, kept, diag)
    /\ UNCHANGED <<pc, fname, mounted, door, dev, live_on, disk, unnoticed, silent>>

Sees(got) ==
    IF got = Unreadable THEN NoRead /\ UNCHANGED believes
    ELSE served' = got /\ believes' = IF believes = NoDisk THEN got ELSE believes

GuestRead(t) ==
    \E result \in Disks \cup {Unreadable}, kept \in SUBSET Tracks :
        Access(t, result, kept, FALSE) /\ Sees(result) /\ own' = kept /\ UNCHANGED wrote

GuestWrite(t) ==
    \E result \in Disks \cup {Unreadable}, kept \in SUBSET Tracks :
        LET written == IF result = Unreadable THEN {} ELSE {t}
        IN  /\ Access(t, result, kept, FALSE) /\ Sees(result)
            /\ own' = kept \cup written /\ wrote' = wrote \cup written

(* READ ID, and a sector that is looked for and not there.                 *)
GuestFind(t) ==
    \E result \in Disks \cup {Unreadable}, kept \in SUBSET Tracks :
        Access(t, result, kept, FALSE) /\ Sees(Unreadable) /\ own' = kept /\ UNCHANGED wrote

(* READ DIAGNOSTIC: the disk itself is read, whatever is cached of it or   *)
(* was written; the cache answers only when that fails.                    *)
GuestDiag(t) ==
    \E result \in Disks \cup {Unreadable}, kept \in SUBSET Tracks :
        /\ Access(t, result, kept, TRUE) /\ own' = kept /\ UNCHANGED wrote
        /\ \E got \in {result} \cup (IF result = Unreadable THEN {} ELSE Readable) : Sees(got)

Guest(t) == GuestRead(t) \/ GuestWrite(t) \/ GuestFind(t) \/ GuestDiag(t)

(* The end of the frame.  A guest that found the drive not ready forgets   *)
(* the disk that was in it.                                                *)
FrameEnd ==
    /\ pc = "frame" /\ pc' = "loop"
    /\ believes' = (IF Ready THEN believes ELSE NoDisk)
    /\ wrote' = (IF Ready THEN wrote ELSE {})
    /\ NoRead /\ silent' = (silent /\ Ready)
    /\ UNCHANGED <<fname, live, door, motor, disk, unnoticed>>

Menu == OpenMenu \/ Mount \/ OtherImage \/ EjectImage \/ CloseMenu
Run == Loop \/ FrameEnd \/ \E t \in Tracks : Guest(t)

Next == ChangeDisk \/ Unplug \/ Menu \/ Run

(* The emulator's loop goes on, and the menu is closed in the end.         *)
Fairness == SF_vars(Loop) /\ WF_vars(FrameEnd) /\ WF_vars(CloseMenu)

Spec == Init /\ [][Next]_vars /\ Fairness

-----------------------------------------------------------------------------
(* A sector the guest gets comes from the disk that is in the drive, unless *)
(* that was changed since the menu was last opened or the motor last rested *)
(* ("After changing a disk, open the menu once and the machine picks up the *)
(* change", README): no track of the old disk survives either.              *)
PickedUp == served # NoDisk => served = disk \/ unnoticed

(* The guest never gets sectors of another disk without having found the    *)
(* drive not ready in between; else it would write one disk's FAT to        *)
(* another, or run half of each.  Only a rest is silent.                    *)
GuestTold == served # NoDisk => served = believes \/ unnoticed \/ silent

(* What the guest wrote is there to be read back, on every track, until it  *)
(* has found the drive not ready or the motor has rested: the cache is the  *)
(* only place its sectors are in, and is not emptied behind its back.       *)
WritesKept == served # NoDisk => silent \/ wrote \subseteq own

(* An opened door closes: however often the menu is opened meanwhile, the   *)
(* drive is ready again, if it is not mounted anew for ever.                *)
DoorCloses ==
    \/ []<><<Mount>>_vars
    \/ (mounted /\ s_open_frames > 0) ~> (Ready \/ ~mounted)
=============================================================================
