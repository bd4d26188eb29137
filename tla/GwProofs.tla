------------------------------ MODULE GwProofs ------------------------------
(***************************************************************************)
(* Proofs about the live floppy drive: first its track cache and its door, *)
(* for every number of tracks and disks and every time the door stays      *)
(* open; then the protocol its reads are made with, for every length of    *)
(* the streams, of the device's queue and of the resynchronisation.        *)
(*                                                                         *)
(* The drive's code keeps no list of what the guest has seen.  That it is  *)
(* enough rests on three facts the first invariant joins: a drive mounted  *)
(* from the menu always opens the door; a door open at the end of a frame  *)
(* makes the guest forget the disk; and a cache not yet out of date (no    *)
(* rest since, no change unnoticed) holds the disk in the drive on every   *)
(* track.                                                                  *)
(*                                                                         *)
(* Nor does a command's reply say which of two like commands it is for.    *)
(* What keeps a read in step is an account: each command it passes on      *)
(* another's reply has cost the device one of those it was behind with, so *)
(* that one behind with fewer than the read has commands has caught up     *)
(* when READFLUX is sent.                                                  *)
(***************************************************************************)
EXTENDS GwDisk, GwLink, SequenceTheorems, WellFoundedInduction, TLAPS

(* The part of TypeOK the other conjuncts need.                            *)
DiskType ==
    /\ trk \in [Tracks -> Disks \cup {NoDisk, Unreadable}]
    /\ s_open_frames \in 0..GW_DOOR_FRAMES
    /\ disk \in Disks /\ believes \in Disks \cup {NoDisk}
    /\ own \subseteq Tracks /\ wrote \subseteq Tracks

(* forget() leaves neither a name nor a track behind.                      *)
OnlyMounted ==
    /\ fname = "live" => mounted
    /\ ~mounted => trk = Empty

(* While the door is open there is no name, and in the menu it is open.    *)
NotReady ==
    /\ mounted /\ s_open_frames # 0 => fname = "none"
    /\ mounted /\ pc = "menu" => s_open_frames # 0

(* No track is of another disk, but where one of the two reasons to forget *)
(* the cache has come up.                                                  *)
CacheIsDisk ==
    mounted => \/ restsDiffer \/ unnoticed
               \/ \A t \in Tracks : trk[t] \in {NoDisk, Unreadable, disk}

(* A door that has been open for a frame has been seen open.               *)
DoorSeen ==
    mounted /\ pc # "frame" => \/ s_open_frames \in {0, GW_DOOR_FRAMES}
                              \/ (believes = NoDisk /\ wrote = {})

(* The guest knows the disk, or will find the door open before it reads.   *)
BelievesDisk ==
    mounted => \/ unnoticed \/ silent \/ believes \in {NoDisk, disk}
               \/ IF pc = "frame" THEN s_open_frames # 0 ELSE s_open_frames = GW_DOOR_FRAMES

(* The cache holds what the guest wrote, or it will find the door open     *)
(* before it reads; a rest it has not been told of is the only other way.  *)
HasWritten ==
    mounted => \/ silent \/ (wrote \subseteq own /\ (restsDiffer => wrote = {}))
               \/ IF pc = "frame" THEN s_open_frames # 0 ELSE s_open_frames = GW_DOOR_FRAMES

IInv ==
    /\ DiskType /\ OnlyMounted /\ NotReady /\ CacheIsDisk /\ DoorSeen
    /\ BelievesDisk /\ HasWritten /\ PickedUp /\ GuestTold /\ WritesKept

-----------------------------------------------------------------------------
(* flush_tracks(): a cache of nothing. *)
LEMMA EmptyFacts ==
    /\ Empty \in [Tracks -> Disks \cup {NoDisk, Unreadable}]
    /\ \A t \in Tracks : Empty[t] = NoDisk
BY DEF Empty

(* The drive empty, or mounted from NVS. *)
LEMMA InitInv == ASSUME Init PROVE IInv
<1> USE GwDiskAssumption, EmptyFacts DEF Init
<1>1. DiskType
  <2>1. trk \in [Tracks -> Disks \cup {NoDisk, Unreadable}]
    <3>1. CASE mounted  BY <3>1
    <3>2. CASE ~mounted  BY <3>2
    <3> QED  BY <3>1, <3>2
  <2> QED  BY <2>1 DEF DiskType
<1>2. OnlyMounted  BY DEF OnlyMounted
<1>3. NotReady  BY DEF NotReady
<1>4. CacheIsDisk
  <2> SUFFICES ASSUME mounted PROVE \A t \in Tracks : trk[t] \in {NoDisk, Unreadable, disk}
    BY DEF CacheIsDisk
  <2> QED  OBVIOUS
<1>5. DoorSeen  BY DEF DoorSeen
<1>6. BelievesDisk /\ HasWritten  BY DEF BelievesDisk, HasWritten
<1>7. PickedUp /\ GuestTold /\ WritesKept  BY DEF PickedUp, GuestTold, WritesKept
<1> QED  BY <1>1, <1>2, <1>3, <1>4, <1>5, <1>6, <1>7 DEF IInv

(* A step in which the guest reads nothing. *)
LEMMA NoReadShown == ASSUME NoRead PROVE PickedUp' /\ GuestTold' /\ WritesKept'
BY DEF NoRead, PickedUp, GuestTold, WritesKept

(* Another disk in the drive is unnoticed at first. *)
LEMMA ChangeDiskInv == ASSUME IInv, ChangeDisk PROVE IInv'
<1> USE DEF ChangeDisk, live, door, motor
<1>1. DiskType'  BY DEF IInv, DiskType
<1>2. OnlyMounted'  BY DEF IInv, OnlyMounted, Empty
<1>3. NotReady'  BY DEF IInv, NotReady
<1>4. CacheIsDisk'  BY DEF CacheIsDisk
<1>5. DoorSeen'  BY DEF IInv, DoorSeen
<1>6. BelievesDisk' /\ HasWritten'  BY DEF IInv, BelievesDisk, HasWritten
<1> QED  BY <1>1, <1>2, <1>3, <1>4, <1>5, <1>6, NoReadShown DEF IInv

(* The device goes: the disk, the cache and the door stay. *)
LEMMA UnplugInv == ASSUME IInv, Unplug PROVE IInv'
<1> USE DEF Unplug, live, door, notes
<1>1. DiskType' /\ OnlyMounted'  BY DEF IInv, DiskType, OnlyMounted, Empty
<1>2. NotReady' /\ CacheIsDisk'  BY DEF IInv, NotReady, CacheIsDisk
<1>3. DoorSeen' /\ BelievesDisk' /\ HasWritten'  BY DEF IInv, DoorSeen, BelievesDisk, HasWritten
<1> QED  BY <1>1, <1>2, <1>3, NoReadShown DEF IInv

(* The menu forgets the cache and opens the door, or leaves it open. *)
LEMMA OpenMenuInv == ASSUME IInv, OpenMenu PROVE IInv'
<1> USE GwDiskAssumption DEF OpenMenu
<1>1. CASE ~mounted
  <2> USE <1>1 DEF motor
  <2>1. DiskType' /\ OnlyMounted'  BY DEF IInv, DiskType, OnlyMounted, Empty, door
  <2>2. NotReady' /\ CacheIsDisk' /\ DoorSeen' /\ BelievesDisk' /\ HasWritten'
    BY DEF NotReady, CacheIsDisk, DoorSeen, BelievesDisk, HasWritten
  <2> QED  BY <2>1, <2>2, NoReadShown DEF IInv
<1>2. CASE mounted
  <2> USE <1>2 DEF motor
  <2>1. s_open_frames \in 0..GW_DOOR_FRAMES /\ fname' = "none"
        /\ s_open_frames' = (IF s_open_frames = 0 THEN GW_DOOR_FRAMES ELSE s_open_frames)
    BY DEF IInv, DiskType, NotReady, DoorOpened
  <2>2. s_open_frames' \in 0..GW_DOOR_FRAMES /\ s_open_frames' # 0  BY <2>1
  <2>3. DiskType'  BY <2>2, EmptyFacts DEF IInv, DiskType
  <2>4. OnlyMounted' /\ NotReady'  BY <2>1, <2>2 DEF OnlyMounted, NotReady
  <2>5. CacheIsDisk'  BY EmptyFacts DEF CacheIsDisk
  <2>6. DoorSeen' /\ BelievesDisk' /\ HasWritten'
    BY <2>1 DEF IInv, DoorSeen, BelievesDisk, HasWritten
  <2> QED  BY <2>3, <2>4, <2>5, <2>6, NoReadShown DEF IInv
<1> QED  BY <1>1, <1>2

(* A drive that is left unmounted keeps nothing and shows nothing. *)
LEMMA UnmountedInv ==
    ASSUME IInv, NoRead, ~mounted', trk' = Empty, fname' # "live",
           s_open_frames' = s_open_frames, disk' = disk, believes' = believes,
           own' = {}, wrote' = wrote
    PROVE  IInv'
<1>1. DiskType'  BY EmptyFacts DEF IInv, DiskType
<1>2. OnlyMounted'  BY DEF OnlyMounted, Empty
<1>3. NotReady' /\ CacheIsDisk' /\ DoorSeen' /\ BelievesDisk' /\ HasWritten'
  BY DEF NotReady, CacheIsDisk, DoorSeen, BelievesDisk, HasWritten
<1> QED  BY <1>1, <1>2, <1>3, NoReadShown DEF IInv

(* A mount always opens the door. *)
LEMMA MountInv == ASSUME IInv, Mount PROVE IInv'
<1> USE GwDiskAssumption DEF Mount, notes
<1>1. CASE Mounts(TRUE)
  <2> USE <1>1 DEF Mounts
  <2>1. fname' = "none" /\ s_open_frames' = GW_DOOR_FRAMES /\ GW_DOOR_FRAMES # 0
    BY DEF DoorOpened
  <2>2. DiskType'  BY <2>1, EmptyFacts DEF IInv, DiskType
  <2>3. OnlyMounted' /\ NotReady'  BY <2>1 DEF OnlyMounted, NotReady
  <2>4. CacheIsDisk'  BY EmptyFacts DEF CacheIsDisk, IInv, DiskType
  <2>5. DoorSeen' /\ BelievesDisk' /\ HasWritten'  BY <2>1 DEF DoorSeen, BelievesDisk, HasWritten
  <2> QED  BY <2>2, <2>3, <2>4, <2>5, NoReadShown DEF IInv
<1>2. CASE Mounts(FALSE)
  BY <1>2, UnmountedInv DEF Mounts, door
<1> QED  BY <1>1, <1>2

(* Another image, or none, in the drive. *)
LEMMA ImageInv == ASSUME IInv, OtherImage \/ EjectImage PROVE IInv'
<1> USE DEF Forget, door, notes
<1>1. CASE OtherImage
  <2>1. fname' # "live"  BY <1>1 DEF OtherImage, IInv, NotReady, OnlyMounted
  <2> QED  BY <1>1, <2>1, UnmountedInv DEF OtherImage
<1>2. CASE EjectImage
  BY <1>2, UnmountedInv DEF EjectImage
<1> QED  BY <1>1, <1>2

(* Time alone passes. *)
LEMMA CloseMenuInv == ASSUME IInv, CloseMenu PROVE IInv'
<1> USE DEF CloseMenu, live, door, notes
<1>1. DiskType' /\ OnlyMounted'  BY DEF IInv, DiskType, OnlyMounted, Empty
<1>2. NotReady' /\ CacheIsDisk'  BY DEF IInv, NotReady, CacheIsDisk
<1>3. DoorSeen' /\ BelievesDisk' /\ HasWritten'  BY DEF IInv, DoorSeen, BelievesDisk, HasWritten
<1> QED  BY <1>1, <1>2, <1>3, NoReadShown DEF IInv

(* Between frames the door closes by one, and the motor may rest. *)
LEMMA LoopInv == ASSUME IInv, Loop PROVE IInv'
<1> USE GwDiskAssumption DEF Loop
<1>1. /\ s_open_frames' \in 0..GW_DOOR_FRAMES
      /\ mounted /\ s_open_frames # 0 => s_open_frames' = s_open_frames - 1
      /\ mounted /\ s_open_frames = 0 => s_open_frames' = 0
      /\ mounted /\ s_open_frames' # 0 => fname' = fname
  BY DEF IInv, DiskType, Tick
<1>2. ~mounted => fname' = fname  BY DEF Tick
<1>3. DiskType'  BY <1>1 DEF IInv, DiskType
<1>4. OnlyMounted'  BY <1>2 DEF IInv, OnlyMounted, Empty
<1>5. NotReady'
  <2>1. mounted /\ s_open_frames' # 0 => s_open_frames # 0  BY <1>1
  <2> QED  BY <1>1, <2>1 DEF IInv, NotReady
<1>6. CacheIsDisk'
  <2>1. restsDiffer' \/ (restsDiffer' = restsDiffer /\ unnoticed' = unnoticed)
    BY DEF Keepalive
  <2> QED  BY <2>1 DEF IInv, CacheIsDisk
<1>7. DoorSeen'  BY DEF DoorSeen
<1>8. BelievesDisk' /\ HasWritten'
  <2>1. silent' \/ (silent' = silent /\ unnoticed' = unnoticed)
    BY DEF Keepalive
  <2>2. mounted /\ s_open_frames = GW_DOOR_FRAMES => s_open_frames' # 0  BY <1>1
  <2>3. BelievesDisk'  BY <2>1, <2>2 DEF IInv, BelievesDisk
  <2>4. silent' \/ (silent' = silent /\ restsDiffer' = restsDiffer)
    BY DEF Keepalive
  <2> QED  BY <2>2, <2>3, <2>4 DEF IInv, HasWritten
<1> QED  BY <1>3, <1>4, <1>5, <1>6, <1>7, <1>8, NoReadShown DEF IInv

(* What track_load_locked() answers and leaves in the cache. *)
LEMMA TrackLoadFacts ==
    ASSUME IInv, mounted, NEW t \in Tracks, NEW result \in Disks \cup {Unreadable},
           NEW kept \in SUBSET Tracks, NEW diag \in BOOLEAN, TrackLoad(t, result, kept, diag)
    PROVE  /\ trk' \in [Tracks -> Disks \cup {NoDisk, Unreadable}]
           /\ ~restsDiffer'
           /\ kept = (IF restsDiffer THEN {} ELSE own)
           /\ unnoticed \/ result \in {Unreadable, disk}
           /\ unnoticed \/ \A u \in Tracks : trk'[u] \in {NoDisk, Unreadable, disk}
<1> USE GwDiskAssumption
<1> DEFINE cache == IF mounted /\ restsDiffer THEN Empty ELSE trk
<1>1. cache \in [Tracks -> Disks \cup {NoDisk, Unreadable}]
  BY EmptyFacts DEF IInv, DiskType
<1>2. unnoticed \/ \A u \in Tracks : cache[u] \in {NoDisk, Unreadable, disk}
  BY EmptyFacts DEF IInv, CacheIsDisk
<1>3. ~restsDiffer' /\ kept = (IF restsDiffer THEN {} ELSE own)  BY DEF TrackLoad
<1>4. result \in {Unreadable, disk} \/ (cache[t] # NoDisk /\ result = cache[t])
  BY DEF TrackLoad, Readable
<1>5. trk' = [cache EXCEPT ![t] = result]  BY DEF TrackLoad
<1>6. \A u \in Tracks : trk'[u] = IF u = t THEN result ELSE cache[u]  BY <1>1, <1>5
<1>7. trk' \in [Tracks -> Disks \cup {NoDisk, Unreadable}]  BY <1>1, <1>5
<1>8. unnoticed \/ result \in {Unreadable, disk}
  <2> HIDE DEF cache
  <2> QED  BY <1>2, <1>4
<1> HIDE DEF cache
<1> QED  BY <1>2, <1>3, <1>6, <1>7, <1>8

(* Only here can PickedUp, GuestTold and WritesKept break: a sector is      *)
(* looked for in the cache, and what is written is written there.           *)
LEMMA AccessInv ==
    ASSUME IInv, NEW t \in Tracks, NEW result \in Disks \cup {Unreadable},
           NEW kept \in SUBSET Tracks, NEW diag \in BOOLEAN, NEW written \in SUBSET {t},
           NEW got \in {result, disk, Unreadable},
           Access(t, result, kept, diag), Sees(got),
           own' = kept \cup written, wrote' = wrote \cup written
    PROVE  IInv'
<1> USE GwDiskAssumption
<1>1. mounted /\ mounted' = mounted /\ pc = "frame" /\ pc' = "frame" /\ fname' = "live"
      /\ s_open_frames = 0 /\ s_open_frames' = 0 /\ disk' = disk
      /\ unnoticed' = unnoticed /\ silent' = silent
  BY DEF Access, IInv, OnlyMounted, NotReady, door
<1>2. /\ TrackLoad(t, result, kept, diag)
      /\ IF got = Unreadable THEN NoRead /\ UNCHANGED believes
         ELSE served' = got /\ believes' = IF believes = NoDisk THEN got ELSE believes
  BY DEF Access, Sees
<1>3. /\ trk' \in [Tracks -> Disks \cup {NoDisk, Unreadable}]
      /\ ~restsDiffer' /\ kept = (IF restsDiffer THEN {} ELSE own)
      /\ unnoticed \/ got \in {Unreadable, disk}
      /\ unnoticed \/ \A u \in Tracks : trk'[u] \in {NoDisk, Unreadable, disk}
  BY <1>1, <1>2, TrackLoadFacts
<1>4. unnoticed \/ silent \/ believes \in {NoDisk, disk}
  BY <1>1 DEF IInv, BelievesDisk
<1>5. unnoticed \/ silent \/ believes' \in {NoDisk, disk}
  BY <1>2, <1>3, <1>4
<1>6. DiskType'
  <2>1. own' \subseteq Tracks /\ wrote' \subseteq Tracks  BY DEF IInv, DiskType
  <2>2. got \in Disks \cup {Unreadable}  BY DEF IInv, DiskType
  <2> QED  BY <1>1, <1>2, <1>3, <2>1, <2>2 DEF IInv, DiskType
<1>7. OnlyMounted' /\ NotReady'  BY <1>1 DEF OnlyMounted, NotReady
<1>8. CacheIsDisk'  BY <1>1, <1>3 DEF CacheIsDisk
<1>9. DoorSeen'  BY <1>1 DEF DoorSeen
<1>10. BelievesDisk'  BY <1>1, <1>5 DEF BelievesDisk
<1>11. PickedUp'  BY <1>1, <1>2, <1>3 DEF PickedUp, NoRead
<1>12. GuestTold'
  <2>1. got # NoDisk  BY DEF IInv, DiskType
  <2>2. served' # NoDisk => served' = got /\ believes' # NoDisk
    BY <1>2, <2>1 DEF NoRead
  <2> QED  BY <1>1, <1>3, <1>5, <2>2, <1>2 DEF GuestTold, NoRead
<1>13. silent \/ wrote' \subseteq own'
  <2>1. silent \/ (wrote \subseteq own /\ (restsDiffer => wrote = {}))
    BY <1>1 DEF IInv, HasWritten
  <2> QED  BY <1>3, <2>1
<1>14. HasWritten' /\ WritesKept'  BY <1>1, <1>3, <1>13 DEF HasWritten, WritesKept
<1> QED  BY <1>6, <1>7, <1>8, <1>9, <1>10, <1>11, <1>12, <1>14 DEF IInv

(* The guest reads, writes, looks for a sector or diagnoses. *)
LEMMA GuestInv == ASSUME IInv, NEW t \in Tracks, Guest(t) PROVE IInv'
<1>1. CASE GuestRead(t)
  <2>1. PICK result \in Disks \cup {Unreadable}, kept \in SUBSET Tracks :
          Access(t, result, kept, FALSE) /\ Sees(result) /\ own' = kept /\ UNCHANGED wrote
    BY <1>1 DEF GuestRead
  <2>2. own' = kept \cup {} /\ wrote' = wrote \cup {} /\ {} \in SUBSET {t}  BY <2>1
  <2> QED  BY <2>1, <2>2, AccessInv
<1>2. CASE GuestWrite(t)
  <2>1. PICK result \in Disks \cup {Unreadable}, kept \in SUBSET Tracks :
          LET written == IF result = Unreadable THEN {} ELSE {t}
          IN  /\ Access(t, result, kept, FALSE) /\ Sees(result)
              /\ own' = kept \cup written /\ wrote' = wrote \cup written
    BY <1>2 DEF GuestWrite
  <2> DEFINE written == IF result = Unreadable THEN {} ELSE {t}
  <2>2. written \in SUBSET {t}  OBVIOUS
  <2> QED  BY <2>1, <2>2, AccessInv
<1>3. CASE GuestFind(t)
  <2>1. PICK result \in Disks \cup {Unreadable}, kept \in SUBSET Tracks :
          Access(t, result, kept, FALSE) /\ Sees(Unreadable) /\ own' = kept /\ UNCHANGED wrote
    BY <1>3 DEF GuestFind
  <2>2. own' = kept \cup {} /\ wrote' = wrote \cup {} /\ {} \in SUBSET {t}  BY <2>1
  <2> QED  BY <2>1, <2>2, AccessInv
<1>4. CASE GuestDiag(t)
  <2>1. PICK result \in Disks \cup {Unreadable}, kept \in SUBSET Tracks :
          /\ Access(t, result, kept, TRUE) /\ own' = kept /\ UNCHANGED wrote
          /\ \E got \in {result} \cup (IF result = Unreadable THEN {} ELSE Readable) : Sees(got)
    BY <1>4 DEF GuestDiag
  <2>2. PICK got \in {result, disk, Unreadable} : Sees(got)  BY <2>1 DEF Readable
  <2>3. own' = kept \cup {} /\ wrote' = wrote \cup {} /\ {} \in SUBSET {t}  BY <2>1
  <2> QED  BY <2>1, <2>2, <2>3, AccessInv
<1> QED  BY <1>1, <1>2, <1>3, <1>4 DEF Guest

(* A guest that found the drive not ready knows no disk. *)
LEMMA FrameEndInv == ASSUME IInv, FrameEnd PROVE IInv'
<1> USE DEF FrameEnd, live, door, motor
<1>1. believes' \in {believes, NoDisk}
      /\ (mounted /\ s_open_frames # 0 => believes' = NoDisk /\ wrote' = {})
  BY DEF Ready, IInv, NotReady
<1>2. silent' => silent  OBVIOUS
<1>3. silent /\ ~silent' => believes' = NoDisk  BY DEF Ready
<1>4. DiskType'  BY <1>1 DEF IInv, DiskType
<1>5. OnlyMounted' /\ NotReady'  BY DEF IInv, OnlyMounted, NotReady, Empty
<1>6. CacheIsDisk'  BY DEF IInv, CacheIsDisk
<1>7. DoorSeen'  BY <1>1 DEF DoorSeen
<1>8. BelievesDisk'  BY <1>1, <1>3 DEF IInv, BelievesDisk
<1>9. silent /\ ~silent' => wrote' = {}  BY DEF Ready
<1>10. HasWritten'
  <2>1. wrote' \in {wrote, {}} /\ (mounted /\ s_open_frames # 0 => wrote' = {})
    BY DEF Ready, IInv, NotReady
  <2> QED  BY <1>9, <2>1 DEF IInv, HasWritten
<1> QED  BY <1>4, <1>5, <1>6, <1>7, <1>8, <1>10, NoReadShown DEF IInv

(* Nothing changes. *)
LEMMA StutterInv == ASSUME IInv, UNCHANGED vars PROVE IInv'
<1> USE DEF vars, live, door, motor, notes
<1>1. DiskType' /\ OnlyMounted'  BY DEF IInv, DiskType, OnlyMounted, Empty
<1>2. NotReady' /\ CacheIsDisk'  BY DEF IInv, NotReady, CacheIsDisk
<1>3. DoorSeen' /\ BelievesDisk' /\ HasWritten'  BY DEF IInv, DoorSeen, BelievesDisk, HasWritten
<1>4. PickedUp' /\ GuestTold' /\ WritesKept'
  BY DEF IInv, PickedUp, GuestTold, WritesKept
<1> QED  BY <1>1, <1>2, <1>3, <1>4 DEF IInv

(* One case per action. *)
LEMMA NextInv == ASSUME IInv, [Next]_vars PROVE IInv'
<1>1. CASE ChangeDisk  BY <1>1, ChangeDiskInv
<1>2. CASE Unplug  BY <1>2, UnplugInv
<1>3. CASE Menu
  BY <1>3, OpenMenuInv, MountInv, ImageInv, CloseMenuInv DEF Menu
<1>4. CASE Run
  BY <1>4, LoopInv, FrameEndInv, GuestInv DEF Run
<1>5. CASE UNCHANGED vars  BY <1>5, StutterInv
<1> QED  BY <1>1, <1>2, <1>3, <1>4, <1>5 DEF Next

(* The inductive invariant holds in every behaviour. *)
THEOREM Invariance == Spec => []IInv
BY InitInv, NextInv, PTL DEF Spec

(* The variables keep their types, and only a mounted drive is kept live.   *)
THEOREM TypeCorrect == Spec => []TypeOK
<1> USE GwDiskAssumption
<1>1. Init => TypeOK
  <2> SUFFICES ASSUME Init PROVE TypeOK  OBVIOUS
  <2>1. DiskType  BY InitInv DEF IInv
  <2>2. {mounted, restsDiffer, dev, live_on, s_spun} \subseteq BOOLEAN
        /\ {unnoticed, silent} \subseteq BOOLEAN
    BY DEF Init
  <2> QED  BY <2>1, <2>2 DEF Init, TypeOK, DiskType
<1>2. IInv' /\ TypeOK /\ [Next]_vars => TypeOK'
  <2> SUFFICES ASSUME DiskType', TypeOK, [Next]_vars PROVE TypeOK'
    BY DEF IInv
  <2>1. CASE ChangeDisk
    BY <2>1 DEF ChangeDisk, TypeOK, DiskType, NoRead, live, door, motor
  <2>2. CASE Unplug
    BY <2>2 DEF Unplug, TypeOK, DiskType, NoRead, live, door, notes
  <2>3. CASE OpenMenu
    BY <2>3 DEF OpenMenu, DoorOpened, TypeOK, DiskType, NoRead, door, motor
  <2>4. CASE Mount
    <3>0. Mounts(TRUE) \/ Mounts(FALSE)  BY <2>4 DEF Mount
    <3>1. fname' \in {"none", "live", "image"} /\ s_hidden' \in {"none", "live", "image"}
      <4>1. CASE Mounts(TRUE)
        BY <4>1 DEF Mounts, DoorOpened
      <4>2. CASE Mounts(FALSE)
        BY <4>2 DEF Mounts, door, TypeOK
      <4> QED  BY <3>0, <4>1, <4>2
    <3> USE DEF Mount, Mounts, NoRead, notes, TypeOK
    <3>2. idle' \in 0..GW_IDLE_HOLD
      <4>1. idle' \in {0, idle}  BY <3>0
      <4> QED  BY <4>1
    <3>3. {mounted', dev', live_on', s_spun'} \subseteq BOOLEAN  BY <2>4
    <3>4. restsDiffer' \in BOOLEAN  BY <2>4
    <3>5. live_on' => mounted'  BY <2>4
    <3> QED  BY <2>4, <3>1, <3>2, <3>3, <3>4, <3>5 DEF DiskType
  <2>5. CASE OtherImage \/ EjectImage
    BY <2>5 DEF OtherImage, EjectImage, Forget, TypeOK, DiskType, NoRead, door, notes
  <2>6. CASE CloseMenu
    BY <2>6 DEF CloseMenu, TypeOK, DiskType, NoRead, live, door, notes
  <2>7. CASE Loop
    <3> USE DEF Loop, NoRead, TypeOK
    <3>1. fname' \in {"none", "live", "image"}  BY <2>7 DEF Tick
    <3>2. idle' \in 0..GW_IDLE_HOLD  BY <2>7 DEF Keepalive
    <3>3. {restsDiffer', s_spun', unnoticed', silent'} \subseteq BOOLEAN
      BY <2>7 DEF Keepalive
    <3> QED  BY <2>7, <3>1, <3>2, <3>3 DEF DiskType
  <2>8. ASSUME NEW t \in Tracks, Guest(t) PROVE TypeOK'
    <3> USE DEF TypeOK, door
    <3>0. PICK result \in Disks \cup {Unreadable}, kept \in SUBSET Tracks, diag \in BOOLEAN :
            Access(t, result, kept, diag) /\ \E got \in {result, disk, Unreadable} : Sees(got)
      <4>1. CASE GuestRead(t) \/ GuestWrite(t) \/ GuestFind(t)
        BY <4>1 DEF GuestRead, GuestWrite, GuestFind
      <4>2. CASE GuestDiag(t)
        BY <4>2 DEF GuestDiag, Readable
      <4> QED  BY <2>8, <4>1, <4>2 DEF Guest
    <3> USE DEF Access
    <3>1. idle' \in 0..GW_IDLE_HOLD
      <4>1. idle' \in {0, idle}  BY <3>0 DEF TrackLoad, ReadTrack
      <4> QED  BY <4>1
    <3>2. s_spun' \in {s_spun, TRUE}  BY <3>0 DEF TrackLoad, ReadTrack
    <3>3. restsDiffer' \in BOOLEAN  BY <3>0 DEF TrackLoad
    <3>4. served' \in Disks \cup {NoDisk}  BY <3>0 DEF Sees, NoRead
    <3> QED  BY <3>0, <3>1, <3>2, <3>3, <3>4 DEF DiskType
  <2>9. CASE FrameEnd
    BY <2>9 DEF FrameEnd, Ready, TypeOK, DiskType, NoRead, live, door, motor
  <2>10. CASE UNCHANGED vars
    BY <2>10 DEF vars, TypeOK, DiskType, live, door, motor, notes
  <2> QED
    BY <2>1, <2>2, <2>3, <2>4, <2>5, <2>6, <2>7, <2>8, <2>9, <2>10 DEF Next, Menu, Run
<1> QED  BY <1>1, <1>2, Invariance, PTL DEF Spec

(* After the menu was opened, or the motor rested, no sector of the disk    *)
(* before reaches the guest: no track of the cache outlives either.         *)
THEOREM GuestGetsTheDisk == Spec => []PickedUp
<1>1. IInv => PickedUp  BY DEF IInv
<1> QED  BY <1>1, Invariance, PTL

(* Nor of any disk but the one the guest knows, unless it has found the     *)
(* drive not ready since: a door stays open for two frames at least.        *)
THEOREM GuestIsTold == Spec => []GuestTold
<1>1. IInv => GuestTold  BY DEF IInv
<1> QED  BY <1>1, Invariance, PTL

(* Nor does the guest read back less than it wrote, but after a rest: every *)
(* other way the cache is emptied opens the door first.                     *)
THEOREM GuestKeepsWrites == Spec => []WritesKept
<1>1. IInv => WritesKept  BY DEF IInv
<1> QED  BY <1>1, Invariance, PTL

-----------------------------------------------------------------------------
(* A command under way is one of its script's, and only a read waits for   *)
(* flux.                                                                   *)
Placed ==
    /\ task # "none" => step <= Len(Script(task))
    /\ await = "flux" => task = "read" /\ step = Len(ReadCmds)

(* Each command a read has passed has cost the device one it was behind    *)
(* with, or the device has caught up.                                      *)
Spent == task = "read" => older = 0 \/ older + (step - 1) <= behind

(* A reply to be taken for this command's has cost one more already: the   *)
(* zero in it ends a command, but that of a READFLUX, which SEEK and HEAD  *)
(* are not.                                                                *)
Payable == \E i \in 1..(Len(rx) - 1) : rx[i][1] = Command /\ rx[i + 1][1] = 0
Paid == task = "read" /\ await = "reply" /\ step < Len(ReadCmds) /\ Payable
            => older = 0 \/ older + step <= behind

(* A read has sent one READFLUX, last.                                     *)
Streaming == IF streaming = NoFlux THEN 0 ELSE 1
OneFlux == task = "read" =>
    /\ \A i \in DOMAIN queue : queue[i] = READFLUX /\ i + Streaming > older =>
          step = Len(ReadCmds) /\ await # "send" /\ i = Len(queue)
    /\ streaming # NoFlux /\ older = 0 =>
          step = Len(ReadCmds) /\ await # "send" /\ queue = <<>>

(* The device has caught up before the READFLUX is sent.  What comes then  *)
(* is pairs of bytes, replies, up to that of the READFLUX, and its flux.   *)
Before == /\ queue # <<>> /\ queue[Len(queue)] = READFLUX /\ streaming = NoFlux
          /\ \E n \in 0..Len(rx) : /\ Len(rx) = 2 * n
                            /\ \A j \in 1..n : rx[2 * j - 1][1] # READFLUX
After == /\ queue = <<>>
         /\ \E k \in 1..Len(rx) :
               /\ 2 * k <= Len(rx) /\ rx[2 * k - 1][1] = READFLUX
               /\ \A j \in 1..(k - 1) : rx[2 * j - 1][1] # READFLUX
               /\ \A i \in (2 * k + 1)..Len(rx) : rx[i][2] = "own"
OwnFlux == task = "read" /\ step = Len(ReadCmds) /\ behind < Len(ReadCmds) =>
    /\ await = "reply" => Before \/ After
    /\ await = "flux" => queue = <<>> /\ \A i \in DOMAIN rx : rx[i][2] = "own"

(* A device that was not behind stays in step.                             *)
InStep == task = "read" /\ behind = 0 =>
    /\ await = "send" => queue = <<>> /\ ~refused
    /\ await = "reply" =>
          \/ queue = <<Command>> /\ rx = <<>> /\ ~refused
          \/ /\ queue = <<>> /\ Len(rx) >= 2 /\ rx[1][1] = Command
             /\ refused => rx[2][1] # 0
    /\ await = "flux" => ~refused

Untaken == /\ task = "read" => taken = "none"
           /\ refused => behind = 0

LinkInv == /\ LinkTypeOK /\ Placed /\ Spent /\ Paid /\ OneFlux /\ OwnFlux
           /\ InStep /\ Untaken /\ FreshFlux /\ RefusalSeen

-----------------------------------------------------------------------------
(* Facts about sequences: their first element, their rest after n elements, *)
(* two elements joined on, one added.                                      *)
LEMMA Pops ==
    ASSUME NEW S, NEW s \in Seq(S), s # <<>>
    PROVE  /\ Head(s) = s[1] /\ s[1] \in S /\ Tail(s) \in Seq(S) /\ Len(s) \in Nat \ {0}
           /\ Len(Tail(s)) = Len(s) - 1
           /\ \A i \in 1..Len(Tail(s)) : Tail(s)[i] = s[i + 1]
BY HeadTailProperties, EmptySeq, LenProperties

LEMMA Rest ==
    ASSUME NEW S, NEW s \in Seq(S), NEW n \in 0..Len(s)
    PROVE  /\ SubSeq(s, n + 1, Len(s)) \in Seq(S) /\ Len(SubSeq(s, n + 1, Len(s))) = Len(s) - n
           /\ \A i \in 1..(Len(s) - n) : SubSeq(s, n + 1, Len(s))[i] = s[n + i]
<1>1. Len(s) \in Nat /\ n + 1 \in Int /\ \A i \in (n + 1)..Len(s) : s[i] \in S
  BY LenProperties, ElementOfSeq
<1>2. Len(s) - (n + 1) + 1 = Len(s) - n /\ (n + 1 <= Len(s) <=> n # Len(s))
  BY <1>1
<1>3. \A i \in 1..(Len(s) - n) : (n + 1) + i - 1 = n + i
  BY <1>1
<1>4. /\ SubSeq(s, n + 1, Len(s)) \in Seq(S)
      /\ Len(SubSeq(s, n + 1, Len(s))) =
            IF n + 1 <= Len(s) THEN Len(s) - (n + 1) + 1 ELSE 0
      /\ \A i \in 1..(Len(s) - (n + 1) + 1) :
            SubSeq(s, n + 1, Len(s))[i] = s[(n + 1) + i - 1]
  BY <1>1, SubSeqProperties
<1>5. ASSUME NEW i \in 1..(Len(s) - n)
      PROVE  SubSeq(s, n + 1, Len(s))[i] = s[n + i]
  BY <1>1, <1>2, <1>3, <1>4
<1>6. Len(SubSeq(s, n + 1, Len(s))) = Len(s) - n
  <2>1. Len(s) - (n + 1) + 1 = Len(s) - n /\ (~(n + 1 <= Len(s)) => Len(s) - n = 0)
    BY <1>1
  <2> QED BY <1>4, <2>1
<1> QED BY <1>4, <1>5, <1>6

LEMMA Joins ==
    ASSUME NEW S, NEW s \in Seq(S), NEW a \in S, NEW b \in S
    PROVE  /\ s \o <<a, b>> \in Seq(S) /\ Len(s \o <<a, b>>) = Len(s) + 2
           /\ \A i \in 1..Len(s) : (s \o <<a, b>>)[i] = s[i]
           /\ (s \o <<a, b>>)[Len(s) + 1] = a /\ (s \o <<a, b>>)[Len(s) + 2] = b
<1>1. <<a, b>> \in Seq(S) /\ Len(<<a, b>>) = 2 /\ Len(s) \in Nat
  BY LenProperties
<1>2. /\ s \o <<a, b>> \in Seq(S) /\ Len(s \o <<a, b>>) = Len(s) + 2
      /\ \A i \in 1..(Len(s) + 2) :
            (s \o <<a, b>>)[i] = IF i <= Len(s) THEN s[i] ELSE <<a, b>>[i - Len(s)]
  BY <1>1, ConcatProperties
<1> QED BY <1>1, <1>2

LEMMA Adds ==
    ASSUME NEW S, NEW s \in Seq(S), NEW a \in S
    PROVE  /\ Append(s, a) \in Seq(S) /\ Len(Append(s, a)) = Len(s) + 1
           /\ \A i \in 1..Len(s) : Append(s, a)[i] = s[i]
           /\ Append(s, a)[Len(s) + 1] = a
BY LenProperties

(* What rx holds.                                                          *)
Byte == (Commands \cup FluxBytes \cup {0, 1}) \X {"own", "other"}

(* The numbers of the state, for arithmetic.                               *)
LEMMA LinkNumbers ==
    ASSUME LinkTypeOK
    PROVE  /\ Len(queue) \in Nat /\ Len(rx) \in Nat /\ step \in 1..3 /\ older \in Nat
           /\ behind \in Nat /\ streaming \in Nat /\ Streaming \in {0, 1}
           /\ Outstanding = Len(queue) + Streaming /\ older <= Outstanding
           /\ Outstanding <= MaxQueued + 1 /\ NoFlux \in Nat /\ MaxQueued \in Nat
           /\ queue \in Seq(Commands) /\ rx \in Seq(Byte)
           /\ DOMAIN rx = 1..Len(rx) /\ DOMAIN queue = 1..Len(queue)
           /\ (queue = <<>> <=> Len(queue) = 0)
           /\ Len(ReadCmds) = 3 /\ ReadCmds = <<SEEK, HEAD, READFLUX>>
<1>1. queue \in Seq(Commands) /\ rx \in Seq(Byte) /\ Len(queue) <= MaxQueued
  BY DEF LinkTypeOK, Byte
<1>2. MaxStream \in Nat /\ MaxQueued \in Nat
  BY GwLinkAssumption
<1>3. Len(queue) \in Nat /\ Len(rx) \in Nat /\ DOMAIN rx = 1..Len(rx) /\ DOMAIN queue = 1..Len(queue)
      /\ (queue = <<>> <=> Len(queue) = 0)
  BY <1>1, LenProperties, EmptySeq
<1>4. Streaming \in {0, 1} /\ Outstanding = Len(queue) + Streaming
  BY DEF Streaming, Outstanding
<1>5. step \in 1..3 /\ older \in 0..Outstanding /\ behind \in 0..(MaxQueued + 1) /\ streaming \in 0..NoFlux
  BY DEF LinkTypeOK
<1> QED BY <1>1, <1>2, <1>3, <1>4, <1>5 DEF NoFlux, ReadCmds

(* The command under way, from its script.                                 *)
LEMMA CommandIs ==
    ASSUME LinkTypeOK, Placed, task # "none"
    PROVE  /\ Command \in Commands
           /\ task = "read" => /\ step = 1 => Command = SEEK
                               /\ step = 2 => Command = HEAD
                               /\ step = 3 => Command = READFLUX
<1>1. task \in {"read", "status", "arm", "keepalive"} /\ step \in 1..3 /\ step <= Len(Script(task))
  BY DEF LinkTypeOK, Placed
<1>2. Script("read") = <<SEEK, HEAD, READFLUX>> /\ Script("arm") = <<SETBUSTYPE, MOTOR>>
      /\ Script("status") = <<GETFLUXSTATUS>> /\ Script("keepalive") = <<MOTOR>>
  BY DEF Script, ReadCmds, ArmCmds
<1>3. CASE task = "read"
  BY <1>1, <1>2, <1>3 DEF Command, Commands
<1>4. CASE task = "arm"
  BY <1>1, <1>2, <1>4 DEF Command, Commands
<1>5. CASE task \in {"status", "keepalive"}
  BY <1>1, <1>2, <1>5 DEF Command, Commands
<1> QED BY <1>1, <1>3, <1>4, <1>5

(* What becomes of a command, done or failed.                              *)
LEMMA Moves ==
    ASSUME LinkTypeOK, Placed, task # "none", CommandDone \/ CommandFailed
    PROVE  /\ task' \in {"none", "read", "status", "arm", "keepalive"}
           /\ await' \in {"send", "flux", "none"}
           /\ (task' = "none") <=> (await' = "none")
           /\ step' \in 1..3 /\ again' \in BOOLEAN /\ ok' \in BOOLEAN /\ Placed'
           /\ NewRead => step' = 1 /\ await' = "send"
           /\ task = "read" /\ task' = "read" =>
                 \/ step = 3 /\ step' = 3 /\ await' = "flux"
                 \/ step < 3 /\ step' = step + 1 /\ await' = "send"
           /\ task = "read" /\ CommandFailed => task' # "read"
<1>1. /\ task \in {"read", "status", "arm", "keepalive"} /\ step \in 1..3
      /\ again \in BOOLEAN /\ ok \in BOOLEAN /\ step <= Len(Script(task))
  BY DEF LinkTypeOK, Placed
<1>2. /\ Len(Script("read")) = 3 /\ Len(Script("arm")) = 2 /\ Len(Script("status")) = 1
      /\ Len(Script("keepalive")) = 1 /\ Len(ReadCmds) = 3 /\ Len(ArmCmds) = 2
  BY DEF Script, ReadCmds, ArmCmds
<1>3. ASSUME NEW t \in {"none", "read", "status", "arm", "keepalive"}, Become(t)
      PROVE  /\ task' = t /\ step' = 1 /\ await' \in {"send", "none"}
             /\ (task' = "none") <=> (await' = "none")
             /\ Placed'
  <2>1. /\ task' = t /\ step' = 1 /\ await' = IF t = "none" THEN "none" ELSE "send"
    BY <1>3 DEF Become
  <2>2. t # "none" => 1 <= Len(Script(t))
    BY <1>2
  <2>3. Placed'
    BY <2>1, <2>2 DEF Placed
  <2> QED BY <2>1, <2>3
<1>4. ASSUME ReadFailed
      PROVE  /\ again' = again /\ task' \in {"none", "arm"} /\ step' = 1
             /\ await' \in {"send", "none"}
             /\ (task' = "none") <=> (await' = "none")
             /\ Placed'
  BY <1>1, <1>3, <1>4 DEF ReadFailed
<1>5. CASE CommandDone
  <2>1. CASE task = "read" /\ step = Len(ReadCmds) /\ await' = "flux" /\ UNCHANGED <<task, step, again>>
    <3>1. Placed'
      BY <1>2, <2>1 DEF Placed
    <3> QED BY <1>1, <1>2, <1>5, <2>1, <3>1 DEF CommandDone, CommandFailed, NewRead, ReadFailed, Become
  <2>2. CASE /\ task \in {"read", "arm"} /\ step < Len(Script(task))
             /\ step' = step + 1 /\ await' = "send" /\ UNCHANGED <<task, again>>
    <3>1. step' <= Len(Script(task)) /\ step' \in 1..3 /\ step < 3
      <4>1. PICK n \in {2, 3} : Len(Script(task)) = n
        BY <1>2, <2>2
      <4>2. step < n /\ step' = step + 1 /\ step \in 1..3
        BY <1>1, <2>2, <4>1
      <4> QED BY <4>1, <4>2
    <3>2. Placed'
      BY <2>2, <3>1 DEF Placed
    <3> QED BY <1>1, <1>2, <1>5, <2>2, <3>1, <3>2 DEF CommandDone, CommandFailed, NewRead, ReadFailed, Become
  <2>3. CASE task = "arm" /\ step = Len(ArmCmds) /\ Become("read") /\ again' = TRUE
    BY <1>1, <1>3, <1>5, <2>3 DEF CommandDone, Become
  <2>4. CASE task = "keepalive" /\ Become("none") /\ UNCHANGED again
    BY <1>1, <1>3, <1>5, <2>4 DEF CommandDone, NewRead
  <2>5. CASE task = "status" /\ IF ok THEN Become("none") /\ UNCHANGED again ELSE ReadFailed
    <3>1. CASE Become("none") /\ UNCHANGED again
      BY <1>1, <1>3, <1>5, <2>5, <3>1 DEF CommandDone, NewRead
    <3>2. CASE ReadFailed
      BY <1>1, <1>4, <1>5, <2>5, <3>2 DEF CommandDone, NewRead
    <3> QED BY <2>5, <3>1, <3>2
  <2> QED BY <1>5, <2>1, <2>2, <2>3, <2>4, <2>5 DEF CommandDone
<1>6. CASE CommandFailed /\ ~CommandDone
  <2>1. task \in {"read", "arm"} /\ UNCHANGED ok
    BY <1>1, <1>6 DEF CommandFailed
  <2>2. CASE task = "read"
    <3>1. ReadFailed
      BY <1>6, <2>2 DEF CommandFailed
    <3> QED BY <1>1, <1>4, <2>1, <2>2, <3>1 DEF NewRead
  <2>3. CASE task = "arm"
    BY <1>1, <1>3, <1>6, <2>1, <2>3 DEF CommandFailed, NewRead
  <2> QED BY <2>1, <2>2, <2>3
<1> QED BY <1>5, <1>6

(* The rest of the types, for steps of the host.                           *)
LEMMA HostTypes ==
    ASSUME LinkTypeOK, UNCHANGED streaming, queue' \in Seq(Commands), Len(queue') <= MaxQueued,
           Len(queue) <= Len(queue'), rx' \in Seq(Byte), stale' \in 0..GW_RESYNC_MAX, Noted,
           task' \in {"none", "read", "status", "arm", "keepalive"},
           await' \in {"send", "reply", "flux", "none"},
           (task' = "none") <=> (await' = "none"),
           step' \in 1..3, again' \in BOOLEAN, ok' \in BOOLEAN
    PROVE  LinkTypeOK'
<1>1. Len(queue) \in Nat /\ Len(queue') \in Nat
  BY LinkNumbers, LenProperties
<1>2. /\ Outstanding' = Len(queue') + Streaming /\ Outstanding = Len(queue) + Streaming
      /\ Streaming \in {0, 1}
  BY DEF Outstanding, Streaming
<1>3. Outstanding \in 0..(MaxQueued + 1) /\ older \in 0..Outstanding /\ behind \in 0..(MaxQueued + 1)
  <2>1. Outstanding \in 0..(MaxQueued + 1)
    BY <1>1, <1>2, LinkNumbers
  <2> QED BY <2>1 DEF LinkTypeOK
<1>4. MaxQueued \in Nat
  BY LinkNumbers
<1>5. older' \in 0..Outstanding /\ behind' \in 0..(MaxQueued + 1)
      /\ refused' \in BOOLEAN /\ taken' \in {"none", "own", "other"}
  <2>1. CASE NewRead
    <3>1. older' = Outstanding /\ behind' = Outstanding
      BY <2>1 DEF Noted
    <3>2. refused' \in BOOLEAN /\ taken' \in {"none", "own", "other"}
      BY <2>1 DEF Noted
    <3>3. older' \in 0..Outstanding /\ behind' \in 0..(MaxQueued + 1)
      BY <1>3, <3>1
    <3> QED BY <3>2, <3>3
  <2>2. CASE ~NewRead
    BY <1>3, <2>2 DEF Noted, ghosts, LinkTypeOK
  <2> QED BY <2>1, <2>2
<1>6. older' \in 0..Outstanding'
  BY <1>1, <1>2, <1>5
<1>7. NoFlux' = NoFlux /\ streaming' \in 0..NoFlux
  BY DEF NoFlux, LinkTypeOK
<1> QED BY <1>5, <1>6, <1>7 DEF LinkTypeOK, Byte

(* A read that is over, or was not, says nothing of its commands.          *)
LEMMA Over ==
    ASSUME task' # "read", UNCHANGED <<behind, refused, taken>>, LinkInv
    PROVE  /\ Spent' /\ Paid' /\ OneFlux' /\ OwnFlux' /\ InStep' /\ Untaken'
           /\ FreshFlux' /\ RefusalSeen'
BY DEF LinkInv, Spent, Paid, OneFlux, OwnFlux, InStep, Untaken, FreshFlux, RefusalSeen

(* One that begins has it all before it.                                   *)
LEMMA Begins ==
    ASSUME LinkTypeOK, NewRead, Noted, step' = 1, await' = "send", UNCHANGED device
    PROVE  /\ Spent' /\ Paid' /\ OneFlux' /\ OwnFlux' /\ InStep' /\ Untaken'
           /\ FreshFlux' /\ RefusalSeen'
<1>1. /\ older' = Outstanding /\ behind' = Outstanding /\ refused' = FALSE /\ taken' = "none"
      /\ queue' = queue /\ streaming' = streaming
  BY DEF Noted, device
<1>2. /\ Len(queue) \in Nat /\ Streaming \in {0, 1} /\ Outstanding = Len(queue) + Streaming
      /\ DOMAIN queue = 1..Len(queue) /\ (queue = <<>> <=> Len(queue) = 0) /\ Len(ReadCmds) = 3
  BY LinkNumbers
<1>3. Spent' /\ Paid' /\ OwnFlux' /\ Untaken' /\ FreshFlux' /\ RefusalSeen'
  BY <1>1, <1>2 DEF Spent, Paid, OwnFlux, Untaken, FreshFlux, RefusalSeen
<1>4. OneFlux'
  <2>1. Streaming' = Streaming
    BY <1>1 DEF Streaming, NoFlux
  <2>2. \A i \in DOMAIN queue' : ~(i + Streaming' > older')
    BY <1>1, <1>2, <2>1
  <2>3. streaming' # NoFlux => older' # 0
    BY <1>1, <1>2 DEF Streaming
  <2>4. NoFlux' = NoFlux
    BY DEF NoFlux
  <2> QED BY <2>2, <2>3, <2>4 DEF OneFlux
<1>5. InStep'
  BY <1>1, <1>2 DEF InStep
<1> QED BY <1>3, <1>4, <1>5

LEMMA LinkStart ==
    ASSUME LinkInv, Start
    PROVE  LinkInv'
<1>1. LinkTypeOK /\ Placed
  BY DEF LinkInv
<1>2. /\ task = "none" /\ task' \in {"read", "keepalive"} /\ step' = 1 /\ await' = "send"
      /\ again' = FALSE /\ ok' = FALSE /\ Noted /\ UNCHANGED <<stale, rx, device>>
  BY DEF Start, Become
<1>3. LinkTypeOK'
  <2>1. /\ queue' \in Seq(Commands) /\ Len(queue') <= MaxQueued /\ Len(queue) <= Len(queue')
        /\ rx' \in Seq(Byte) /\ stale' \in 0..GW_RESYNC_MAX /\ UNCHANGED streaming
    BY <1>1, <1>2, LinkNumbers DEF device, LinkTypeOK
  <2>2. /\ task' \in {"none", "read", "status", "arm", "keepalive"}
        /\ await' \in {"send", "reply", "flux", "none"}
        /\ (task' = "none") <=> (await' = "none")
    BY <1>2, Zenon
  <2>3. step' \in 1..3 /\ again' \in BOOLEAN /\ ok' \in BOOLEAN
    <3>1. step' = 1
      BY <1>2
    <3>2. again' \in BOOLEAN /\ ok' \in BOOLEAN
      BY <1>2, Zenon
    <3> QED BY <3>1, <3>2
  <2>4. Noted
    BY <1>2
  <2> QED BY <1>1, <2>1, <2>2, <2>3, <2>4, HostTypes
<1>4. Placed'
  BY <1>2 DEF Placed, Script, ReadCmds
<1>5. CASE NewRead
  BY <1>1, <1>2, <1>3, <1>4, <1>5, Begins DEF LinkInv
<1>6. CASE ~NewRead
  BY <1>1, <1>2, <1>3, <1>4, <1>6, Over DEF LinkInv, NewRead, Noted, ghosts
<1> QED BY <1>5, <1>6

(* A command done or failed leaves the read, begins one, or goes on.       *)
LEMMA Leaves ==
    ASSUME LinkInv, LinkTypeOK', task # "none", CommandDone \/ CommandFailed, Noted,
           queue' = queue, UNCHANGED streaming,
           ~(task = "read" /\ task' = "read")
    PROVE  LinkInv'
<1>1. LinkTypeOK /\ Placed /\ device' = device
  BY DEF LinkInv, device
<1>2. Placed' /\ (NewRead => step' = 1 /\ await' = "send")
  BY <1>1, Moves
<1>3. CASE NewRead
  BY <1>1, <1>2, <1>3, Begins DEF LinkInv
<1>4. CASE ~NewRead
  <2>1. task' # "read" /\ UNCHANGED <<behind, refused, taken>>
    BY <1>4 DEF NewRead, Noted, ghosts
  <2> QED BY <1>2, <2>1, Over DEF LinkInv
<1> QED BY <1>3, <1>4

LEMMA LinkSend ==
    ASSUME LinkInv, Send
    PROVE  LinkInv'
<1>1. LinkTypeOK /\ Placed
  BY DEF LinkInv
<1>2. await = "send" /\ rx' = <<>> /\ stale' = 0 /\ Noted /\ UNCHANGED streaming /\ task # "none"
  BY <1>1 DEF Send, LinkTypeOK
<1>3. rx' \in Seq(Byte) /\ Len(rx') = 0 /\ stale' \in 0..GW_RESYNC_MAX
  BY <1>2, EmptySeq, GwLinkAssumption
<1>4. CASE CommandFailed /\ UNCHANGED queue
  <2>1. LinkTypeOK'
    <3>1. queue' \in Seq(Commands) /\ Len(queue') <= MaxQueued /\ Len(queue) <= Len(queue')
      BY <1>1, <1>4, LinkNumbers DEF LinkTypeOK
    <3>2. /\ task' \in {"none", "read", "status", "arm", "keepalive"}
          /\ await' \in {"send", "reply", "flux", "none"}
          /\ (task' = "none") <=> (await' = "none")
          /\ step' \in 1..3 /\ again' \in BOOLEAN /\ ok' \in BOOLEAN
      BY <1>1, <1>2, <1>4, Moves
    <3> QED BY <1>1, <1>2, <1>3, <3>1, <3>2, HostTypes
  <2>2. ~(task = "read" /\ task' = "read")
    BY <1>1, <1>2, <1>4, Moves
  <2> QED BY <1>2, <1>4, <2>1, <2>2, Leaves
<1>5. CASE /\ Len(queue) < MaxQueued
           /\ queue' = Append(queue, Command) /\ await' = "reply"
           /\ UNCHANGED <<task, step, again, ok>>
  <2>1. /\ queue' \in Seq(Commands) /\ Len(queue') = Len(queue) + 1
        /\ \A i \in 1..Len(queue) : queue'[i] = queue[i]
        /\ queue'[Len(queue) + 1] = Command
    BY <1>1, <1>2, <1>5, CommandIs, LinkNumbers, Adds
  <2>2. /\ Len(queue) \in Nat /\ older \in Nat /\ behind \in Nat /\ step \in 1..3 /\ Streaming \in {0, 1}
        /\ Len(ReadCmds) = 3 /\ DOMAIN queue = 1..Len(queue) /\ (queue = <<>> <=> Len(queue) = 0)
        /\ MaxQueued \in Nat
    BY <1>1, LinkNumbers
  <2>3. ~NewRead /\ UNCHANGED ghosts
    BY <1>2, <1>5 DEF NewRead, Noted
  <2>4. LinkTypeOK'
    <3>1. Len(queue') <= MaxQueued /\ Len(queue) <= Len(queue')
      BY <1>5, <2>1, <2>2
    <3>2. /\ task' \in {"none", "read", "status", "arm", "keepalive"}
          /\ (task' = "none") <=> (await' = "none")
          /\ step' \in 1..3 /\ again' \in BOOLEAN /\ ok' \in BOOLEAN
      BY <1>1, <1>2, <1>5 DEF LinkTypeOK
    <3> QED BY <1>1, <1>2, <1>3, <1>5, <2>1, <3>1, <3>2, HostTypes
  <2>5. Placed'
    BY <1>1, <1>5 DEF Placed
  <2>6. CASE task # "read"
    BY <1>5, <2>3, <2>4, <2>5, <2>6, Over DEF LinkInv, ghosts
  <2>7. CASE task = "read"
    <3>1. /\ older' = older /\ behind' = behind /\ refused' = refused /\ taken' = taken
          /\ task' = "read" /\ step' = step /\ Streaming' = Streaming /\ NoFlux' = NoFlux
          /\ DOMAIN queue' = 1..Len(queue') /\ queue' # <<>>
      <4>1. older' = older /\ behind' = behind /\ refused' = refused /\ taken' = taken
        BY <2>3 DEF ghosts
      <4>2. task' = "read" /\ step' = step /\ Streaming' = Streaming /\ NoFlux' = NoFlux
        BY <1>2, <1>5, <2>7 DEF Streaming, NoFlux
      <4>3. DOMAIN queue' = 1..Len(queue') /\ queue' # <<>>
        BY <2>1, <2>2, LenProperties, EmptySeq
      <4> QED BY <4>1, <4>2, <4>3
    <3>2. Spent'
      <4>1. older = 0 \/ older + (step - 1) <= behind
        BY <2>7 DEF LinkInv, Spent
      <4> QED BY <3>1, <4>1 DEF Spent
    <3>3. Paid'
      <4>1. ~Payable'
        BY <1>3 DEF Payable
      <4> QED BY <4>1 DEF Paid
    <3>4. OneFlux /\ (step # 3 => Command # READFLUX) /\ (step = 3 => Command = READFLUX)
      BY <1>1, <1>2, <2>2, <2>7, CommandIs, GwLinkAssumption DEF LinkInv
    <3>5. OneFlux'
      <4>1. ASSUME NEW i \in DOMAIN queue', queue'[i] = READFLUX, i + Streaming' > older'
            PROVE  step' = 3 /\ i = Len(queue')
        <5>1. CASE i = Len(queue) + 1
          BY <2>1, <2>2, <3>1, <3>4, <4>1, <5>1
        <5>2. CASE i \in 1..Len(queue)
          BY <1>2, <2>1, <2>2, <2>7, <3>1, <3>4, <4>1, <5>2 DEF OneFlux
        <5> QED BY <2>1, <2>2, <3>1, <5>1, <5>2
      <4>2. ~(streaming' # NoFlux /\ older' = 0)
        BY <1>2, <2>7, <3>1, <3>4 DEF OneFlux
      <4> QED BY <1>5, <2>2, <3>1, <4>1, <4>2 DEF OneFlux
    <3>6. OwnFlux'
      <4>1. SUFFICES ASSUME step = 3, behind < 3 PROVE Before'
        BY <1>5, <2>2, <3>1 DEF OwnFlux
      <4>2. older = 0
        BY <2>2, <2>7, <4>1 DEF LinkInv, Spent
      <4>3. streaming' = NoFlux
        BY <1>2, <2>7, <3>4, <4>2 DEF OneFlux
      <4>4. queue' # <<>> /\ queue'[Len(queue')] = READFLUX
        BY <2>1, <3>1, <3>4, <4>1
      <4>5. \E n \in 0..Len(rx') : /\ Len(rx') = 2 * n
                                   /\ \A j \in 1..n : rx'[2 * j - 1][1] # READFLUX
        BY <1>3
      <4> QED BY <3>1, <4>3, <4>4, <4>5 DEF Before
    <3>7. InStep'
      <4>1. SUFFICES ASSUME behind = 0 PROVE queue' = <<Command'>> /\ rx' = <<>> /\ ~refused'
        BY <1>5, <3>1 DEF InStep
      <4>2. queue = <<>> /\ ~refused
        BY <1>2, <2>7, <4>1 DEF LinkInv, InStep
      <4>3. Command' = Command
        BY <1>5 DEF Command
      <4>4. queue' = <<Command>>
        BY <1>5, <4>2
      <4> QED BY <1>2, <3>1, <4>2, <4>3, <4>4
    <3>8. Untaken' /\ FreshFlux' /\ RefusalSeen'
      BY <2>2, <2>7, <3>1 DEF LinkInv, Untaken, FreshFlux, RefusalSeen
    <3> QED BY <2>4, <2>5, <3>2, <3>3, <3>5, <3>6, <3>7, <3>8 DEF LinkInv
  <2> QED BY <2>6, <2>7
<1> QED BY <1>4, <1>5 DEF Send

-----------------------------------------------------------------------------
(* The two bytes are taken.                                                *)
LEMMA Takes ==
    ASSUME LinkTypeOK, Len(rx) >= 2, rx' = SubSeq(rx, 3, Len(rx))
    PROVE  /\ rx' \in Seq(Byte) /\ Len(rx') = Len(rx) - 2 /\ DOMAIN rx' = 1..Len(rx')
           /\ \A i \in 1..Len(rx') : rx'[i] = rx[i + 2]
<1>1. Len(rx) \in Nat /\ rx \in Seq(Byte)
  BY LinkNumbers
<1>2. 2 \in 0..Len(rx) /\ 2 + 1 = 3
  BY <1>1
<1>3. /\ rx' \in Seq(Byte) /\ Len(rx') = Len(rx) - 2
      /\ \A i \in 1..(Len(rx) - 2) : rx'[i] = rx[2 + i]
  BY <1>1, <1>2, Rest
<1>4. DOMAIN rx' = 1..Len(rx')
  BY <1>3, LenProperties
<1>5. \A i \in 1..Len(rx') : i \in Int /\ 2 + i = i + 2
  OBVIOUS
<1> QED BY <1>3, <1>4, <1>5

(* The reply to this command, or what is taken for it.                     *)
LEMMA LinkMatch ==
    ASSUME LinkInv, LinkTypeOK', await = "reply", Len(rx) >= 2, rx' = SubSeq(rx, 3, Len(rx)),
           rx[1][1] = Command, IF rx[2][1] = 0 THEN CommandDone ELSE CommandFailed,
           Noted, UNCHANGED device
    PROVE  LinkInv'
<1>1. LinkTypeOK /\ Placed /\ task # "none" /\ queue' = queue /\ streaming' = streaming
  BY DEF LinkInv, LinkTypeOK, device
<1>2. CASE ~(task = "read" /\ task' = "read")
  BY <1>1, <1>2, Leaves
<1>3. CASE task = "read" /\ task' = "read"
  <2>1. /\ rx[2][1] = 0 /\ CommandDone
        /\ \/ step = 3 /\ step' = 3 /\ await' = "flux"
           \/ step < 3 /\ step' = step + 1 /\ await' = "send"
        /\ Placed'
    BY <1>1, <1>3, Moves
  <2>2. older' = older /\ behind' = behind /\ refused' = refused /\ taken' = taken
    BY <1>3 DEF NewRead, Noted, ghosts
  <2>3. /\ Len(queue) \in Nat /\ Len(rx) \in Nat /\ older \in Nat /\ behind \in Nat
        /\ step \in 1..3 /\ Len(ReadCmds) = 3 /\ DOMAIN queue = 1..Len(queue)
    BY <1>1, LinkNumbers
  <2>4. Streaming' = Streaming /\ NoFlux' = NoFlux
    BY <1>1 DEF Streaming, NoFlux
  <2>5. Spent'
    <3>1. CASE step = 3 /\ step' = 3 /\ await' = "flux"
      <4>1. older = 0 \/ older + (step - 1) <= behind
        BY <1>3 DEF LinkInv, Spent
      <4> QED BY <2>2, <3>1, <4>1 DEF Spent
    <3>2. CASE step < 3 /\ step' = step + 1 /\ await' = "send"
      <4>1. 1 \in 1..(Len(rx) - 1) /\ 1 + 1 = 2
        BY <2>3
      <4>2. Payable
        BY <2>1, <4>1 DEF Payable
      <4>3. older = 0 \/ older + step <= behind
        BY <1>3, <2>3, <3>2, <4>2 DEF LinkInv, Paid
      <4>4. step' - 1 = step
        BY <2>3, <3>2
      <4> QED BY <2>2, <4>3, <4>4 DEF Spent
    <3> QED BY <2>1, <3>1, <3>2
  <2>6. Paid'
    BY <2>1 DEF Paid
  <2>7. OneFlux'
    <3>1. OneFlux
      BY DEF LinkInv
    <3>2. (step = 3 /\ await # "send") => (step' = 3 /\ await' # "send")
      BY <2>1, <2>3
    <3> QED BY <1>1, <1>3, <2>2, <2>3, <2>4, <3>1, <3>2 DEF OneFlux
  <2>8. OwnFlux'
    <3>1. SUFFICES ASSUME step = 3, behind < 3, await' = "flux"
                   PROVE  queue' = <<>> /\ \A i \in DOMAIN rx' : rx'[i][2] = "own"
      BY <2>1, <2>2, <2>3 DEF OwnFlux
    <3>2. Before \/ After
      BY <1>3, <2>3, <3>1 DEF LinkInv, OwnFlux
    <3>3. rx[1][1] = READFLUX
      BY <1>1, <1>3, <3>1, CommandIs
    <3>4. ~Before
      <4>1. SUFFICES ASSUME NEW n \in 0..Len(rx), Len(rx) = 2 * n,
                            \A j \in 1..n : rx[2 * j - 1][1] # READFLUX
                     PROVE  FALSE
        BY DEF Before
      <4>2. 1 \in 1..n /\ 2 * 1 - 1 = 1
        BY <2>3, <4>1
      <4> QED BY <3>3, <4>1, <4>2
    <3>5. After
      BY <3>2, <3>4
    <3>6. PICK k \in 1..Len(rx) :
               /\ 2 * k <= Len(rx) /\ rx[2 * k - 1][1] = READFLUX
               /\ \A j \in 1..(k - 1) : rx[2 * j - 1][1] # READFLUX
               /\ \A i \in (2 * k + 1)..Len(rx) : rx[i][2] = "own"
      BY <3>5 DEF After
    <3>7. k = 1
      <4>1. SUFFICES ASSUME k # 1 PROVE FALSE
        OBVIOUS
      <4>2. 1 \in 1..(k - 1) /\ 2 * 1 - 1 = 1
        BY <4>1
      <4> QED BY <3>3, <3>6, <4>2
    <3>8. ASSUME NEW i \in DOMAIN rx' PROVE rx'[i][2] = "own"
      <4>1. i \in 1..(Len(rx) - 2) /\ rx'[i] = rx[i + 2]
        BY <1>1, Takes
      <4>2. i + 2 \in (2 * k + 1)..Len(rx)
        BY <2>3, <3>7, <4>1
      <4> QED BY <3>6, <4>1, <4>2
    <3> QED BY <1>1, <3>5, <3>8 DEF After
  <2>9. InStep'
    <3>1. SUFFICES ASSUME behind = 0 PROVE queue' = <<>> /\ ~refused'
      BY <2>1, <2>2 DEF InStep
    <3>2. rx # <<>>
      BY <2>3, EmptySeq
    <3> QED BY <1>1, <1>3, <2>1, <2>2, <3>1, <3>2 DEF LinkInv, InStep
  <2>10. Untaken' /\ FreshFlux' /\ RefusalSeen'
    BY <1>3, <2>2 DEF LinkInv, Untaken, FreshFlux, RefusalSeen
  <2> QED BY <2>1, <2>5, <2>6, <2>7, <2>8, <2>9, <2>10 DEF LinkInv
<1> QED BY <1>2, <1>3

(* One that is not.                                                        *)
LEMMA LinkSkip ==
    ASSUME LinkInv, LinkTypeOK', await = "reply", Len(rx) >= 2, rx' = SubSeq(rx, 3, Len(rx)),
           rx[1][1] # Command, UNCHANGED <<task, step, await, again, ok>>,
           Noted, UNCHANGED device
    PROVE  LinkInv'
<1>1. /\ LinkTypeOK /\ Placed /\ task # "none" /\ queue' = queue /\ streaming' = streaming
      /\ task' = task /\ step' = step /\ await' = await
  BY DEF LinkInv, LinkTypeOK, device
<1>2. older' = older /\ behind' = behind /\ refused' = refused /\ taken' = taken
  BY <1>1 DEF NewRead, Noted, ghosts
<1>3. Placed'
  BY <1>1 DEF Placed
<1>4. CASE task # "read"
  BY <1>1, <1>2, <1>3, <1>4, Over DEF LinkInv
<1>5. CASE task = "read"
  <2>1. /\ Len(rx) \in Nat /\ step \in 1..3 /\ Len(ReadCmds) = 3
        /\ Streaming' = Streaming /\ NoFlux' = NoFlux /\ Command' = Command
    BY <1>1, LinkNumbers DEF Streaming, NoFlux, Command
  <2>2. /\ Len(rx') = Len(rx) - 2 /\ \A i \in 1..Len(rx') : rx'[i] = rx[i + 2]
    BY <1>1, Takes
  <2>3. Spent' /\ OneFlux' /\ Untaken' /\ FreshFlux' /\ RefusalSeen'
    BY <1>1, <1>2, <2>1 DEF LinkInv, Spent, OneFlux, Untaken, FreshFlux, RefusalSeen
  <2>4. Paid'
    <3>1. Payable' => Payable
      <4>1. SUFFICES ASSUME NEW i \in 1..(Len(rx') - 1), rx'[i][1] = Command, rx'[i + 1][1] = 0
                     PROVE  Payable
        BY <2>1 DEF Payable
      <4>2. /\ i \in 1..Len(rx') /\ i + 1 \in 1..Len(rx') /\ (i + 1) + 2 = (i + 2) + 1
            /\ i + 2 \in 1..(Len(rx) - 1)
        BY <2>1, <2>2
      <4> QED BY <2>2, <4>1, <4>2 DEF Payable
    <3> QED BY <1>1, <1>2, <3>1 DEF LinkInv, Paid
  <2>5. OwnFlux'
    <3>1. SUFFICES ASSUME step = 3, behind < 3 PROVE Before' \/ After'
      BY <1>1, <1>2, <2>1 DEF OwnFlux
    <3>2. Before \/ After
      BY <1>5, <2>1, <3>1 DEF LinkInv, OwnFlux
    <3>3. rx[1][1] # READFLUX
      BY <1>1, <1>5, <3>1, CommandIs
    <3>4. CASE Before
      <4>1. PICK n \in 0..Len(rx) : /\ Len(rx) = 2 * n
                                    /\ \A j \in 1..n : rx[2 * j - 1][1] # READFLUX
        BY <3>4 DEF Before
      <4>2. n - 1 \in 0..Len(rx') /\ Len(rx') = 2 * (n - 1)
        BY <2>1, <2>2, <4>1
      <4>3. ASSUME NEW j \in 1..(n - 1) PROVE rx'[2 * j - 1][1] # READFLUX
        <5>1. j + 1 \in 1..n /\ 2 * j - 1 \in 1..Len(rx') /\ (2 * j - 1) + 2 = 2 * (j + 1) - 1
          BY <2>1, <4>2
        <5> QED BY <2>2, <4>1, <5>1
      <4> QED BY <1>1, <2>1, <3>4, <4>2, <4>3 DEF Before
    <3>5. CASE After
      <4>1. PICK k \in 1..Len(rx) :
               /\ 2 * k <= Len(rx) /\ rx[2 * k - 1][1] = READFLUX
               /\ \A j \in 1..(k - 1) : rx[2 * j - 1][1] # READFLUX
               /\ \A i \in (2 * k + 1)..Len(rx) : rx[i][2] = "own"
        BY <3>5 DEF After
      <4>2. k # 1
        BY <3>3, <4>1
      <4>3. k - 1 \in 1..Len(rx') /\ 2 * (k - 1) <= Len(rx')
        BY <2>1, <2>2, <4>1, <4>2
      <4>4. rx'[2 * (k - 1) - 1][1] = READFLUX
        <5>1. 2 * (k - 1) - 1 \in 1..Len(rx') /\ (2 * (k - 1) - 1) + 2 = 2 * k - 1
          BY <2>1, <4>2, <4>3
        <5> QED BY <2>2, <4>1, <5>1
      <4>5. ASSUME NEW j \in 1..((k - 1) - 1) PROVE rx'[2 * j - 1][1] # READFLUX
        <5>1. j \in Int /\ k \in Int /\ 1 <= j /\ j <= k - 2
          OBVIOUS
        <5>2. j + 1 \in 1..(k - 1) /\ (2 * j - 1) + 2 = 2 * (j + 1) - 1 /\ 2 * j - 1 \in Int
              /\ 1 <= 2 * j - 1 /\ 2 * j - 1 <= 2 * (k - 1)
          BY <5>1
        <5>3. Len(rx') \in Int
          BY <2>1, <2>2
        <5>4. 2 * j - 1 \in 1..Len(rx')
          BY <4>3, <5>2, <5>3
        <5> QED BY <2>2, <4>1, <5>2, <5>4
      <4>6. ASSUME NEW i \in (2 * (k - 1) + 1)..Len(rx') PROVE rx'[i][2] = "own"
        <5>1. i \in 1..Len(rx') /\ i + 2 \in (2 * k + 1)..Len(rx)
          BY <2>1, <2>2, <4>2
        <5> QED BY <2>2, <4>1, <5>1
      <4>7. queue' = <<>>
        BY <1>1, <3>5 DEF After
      <4> QED BY <4>3, <4>4, <4>5, <4>6, <4>7 DEF After
    <3> QED BY <3>2, <3>4, <3>5
  <2>6. InStep'
    <3>1. SUFFICES ASSUME behind = 0 PROVE FALSE
      BY <1>2 DEF InStep
    <3>2. rx # <<>>
      BY <2>1, EmptySeq
    <3> QED BY <1>5, <3>1, <3>2 DEF LinkInv, InStep
  <2> QED BY <1>3, <2>3, <2>4, <2>5, <2>6 DEF LinkInv
<1> QED BY <1>4, <1>5

LEMMA LinkTake ==
    ASSUME LinkInv, TakeReply
    PROVE  LinkInv'
<1>1. LinkTypeOK /\ Placed
  BY DEF LinkInv
<1>2. /\ await = "reply" /\ Len(rx) >= 2 /\ rx' = SubSeq(rx, 3, Len(rx)) /\ Noted
      /\ UNCHANGED device /\ task # "none"
  BY <1>1 DEF TakeReply, LinkTypeOK
<1>3. /\ queue' \in Seq(Commands) /\ Len(queue') <= MaxQueued /\ Len(queue) <= Len(queue')
      /\ rx' \in Seq(Byte) /\ UNCHANGED streaming
  BY <1>1, <1>2, LinkNumbers, Takes DEF device, LinkTypeOK
<1>4. stale \in 0..GW_RESYNC_MAX /\ GW_RESYNC_MAX \in Nat
  BY <1>1, GwLinkAssumption DEF LinkTypeOK
<1>5. ASSUME CommandDone \/ CommandFailed, stale' = stale
      PROVE  LinkTypeOK'
  <2>1. /\ task' \in {"none", "read", "status", "arm", "keepalive"}
        /\ await' \in {"send", "reply", "flux", "none"}
        /\ (task' = "none") <=> (await' = "none")
        /\ step' \in 1..3 /\ again' \in BOOLEAN /\ ok' \in BOOLEAN
    BY <1>1, <1>2, <1>5, Moves
  <2> QED BY <1>1, <1>2, <1>3, <1>4, <1>5, <2>1, HostTypes
<1>6. CASE rx[1][1] = Command
  <2>1. stale' = stale /\ IF rx[2][1] = 0 THEN CommandDone ELSE CommandFailed
    BY <1>6 DEF TakeReply
  <2>2. LinkTypeOK'
    BY <1>5, <2>1
  <2> QED BY <1>2, <1>6, <2>1, <2>2, LinkMatch
<1>7. CASE rx[1][1] # Command /\ stale < GW_RESYNC_MAX
  <2>1. stale' = stale + 1 /\ UNCHANGED <<task, step, await, again, ok>>
    BY <1>7 DEF TakeReply, Skip
  <2>2. LinkTypeOK'
    <3>1. stale' \in 0..GW_RESYNC_MAX
      BY <1>4, <1>7, <2>1
    <3>2. /\ task' \in {"none", "read", "status", "arm", "keepalive"}
          /\ await' \in {"send", "reply", "flux", "none"}
          /\ (task' = "none") <=> (await' = "none")
          /\ step' \in 1..3 /\ again' \in BOOLEAN /\ ok' \in BOOLEAN
      BY <1>1, <2>1 DEF LinkTypeOK
    <3> QED BY <1>1, <1>2, <1>3, <3>1, <3>2, HostTypes
  <2> QED BY <1>2, <1>7, <2>1, <2>2, LinkSkip
<1>8. CASE rx[1][1] # Command /\ ~(stale < GW_RESYNC_MAX)
  <2>1. CommandFailed /\ stale' = stale
    BY <1>8 DEF TakeReply, Skip
  <2>2. LinkTypeOK' /\ ~(task = "read" /\ task' = "read")
    BY <1>1, <1>2, <1>5, <2>1, Moves
  <2> QED BY <1>2, <2>1, <2>2, Leaves DEF device
<1> QED BY <1>6, <1>7, <1>8

LEMMA LinkTimeout ==
    ASSUME LinkInv, ReplyTimeout
    PROVE  LinkInv'
<1>1. LinkTypeOK /\ Placed
  BY DEF LinkInv
<1>2. /\ await = "reply" /\ CommandFailed /\ Noted /\ UNCHANGED <<stale, rx, device>>
      /\ task # "none"
  BY <1>1 DEF ReplyTimeout, LinkTypeOK
<1>3. /\ queue' \in Seq(Commands) /\ Len(queue') <= MaxQueued /\ Len(queue) <= Len(queue')
      /\ rx' \in Seq(Byte) /\ UNCHANGED streaming /\ stale' \in 0..GW_RESYNC_MAX
  BY <1>1, <1>2, LinkNumbers DEF device, LinkTypeOK
<1>4. /\ task' \in {"none", "read", "status", "arm", "keepalive"}
      /\ await' \in {"send", "reply", "flux", "none"}
      /\ (task' = "none") <=> (await' = "none")
      /\ step' \in 1..3 /\ again' \in BOOLEAN /\ ok' \in BOOLEAN
      /\ ~(task = "read" /\ task' = "read")
  BY <1>1, <1>2, Moves
<1>5. LinkTypeOK'
  BY <1>1, <1>2, <1>3, <1>4, HostTypes
<1> QED BY <1>2, <1>4, <1>5, Leaves DEF device

-----------------------------------------------------------------------------
(* A set of numbers has a least one: the first zero received.              *)
LEMMA Least ==
    ASSUME NEW S \in SUBSET Nat, S # {}
    PROVE  \E m \in S : \A n \in S : m <= n
<1>1. PICK m \in S : \A n \in Nat : <<n, m>> \in OpToRel(<, Nat) => n \notin S
  <2>1. IsWellFoundedOn(OpToRel(<, Nat), Nat)
    BY NatLessThanWellFounded
  <2> QED BY <2>1, WFMin, Zenon
<1>2. ASSUME NEW n \in S PROVE m <= n
  <2>1. n \in Nat /\ m \in Nat
    OBVIOUS
  <2>2. ~(n < m)
    BY <1>1, <2>1, Zenon DEF OpToRel
  <2> QED BY <2>1, <2>2
<1> QED BY <1>2

LEMMA LinkFlux ==
    ASSUME LinkInv, TakeFlux \/ FluxTimeout
    PROVE  LinkInv'
<1>1. LinkTypeOK /\ Placed
  BY DEF LinkInv
<1>2. /\ await = "flux" /\ ok' \in BOOLEAN /\ task' = "status" /\ step' = 1 /\ await' = "send"
      /\ UNCHANGED <<stale, again, device, older, behind, refused>>
  <2>1. CASE TakeFlux
    BY <2>1 DEF TakeFlux, Become
  <2>2. CASE FluxTimeout
    BY <2>2 DEF FluxTimeout, Become, ghosts
  <2> QED BY <2>1, <2>2
<1>3. task = "read" /\ step = 3
  BY <1>1, <1>2, LinkNumbers DEF Placed
<1>4. Len(rx) \in Nat /\ rx \in Seq(Byte) /\ DOMAIN rx = 1..Len(rx) /\ behind \in Nat /\ Len(ReadCmds) = 3
  BY <1>1, LinkNumbers
<1>5. rx' \in Seq(Byte) /\ taken' \in {"none", "own", "other"}
      /\ (behind < 3 => taken' # "other") /\ (refused => taken' = "none")
  <2>1. CASE TakeFlux
    <3>1. FirstZero \in Zeros
      <4>1. Zeros \in SUBSET Nat /\ Zeros # {}
        BY <1>4, <2>1 DEF TakeFlux, Zeros
      <4>2. \E m \in Zeros : \A n \in Zeros : m <= n
        BY <4>1, Least
      <4> QED BY <4>2, Zenon DEF FirstZero
    <3>2. FirstZero \in 1..Len(rx)
      BY <1>4, <3>1 DEF Zeros
    <3>3. rx' \in Seq(Byte)
      <4>1. FirstZero \in 0..Len(rx)
        BY <1>4, <3>2
      <4> QED BY <1>4, <2>1, <4>1, Rest DEF TakeFlux
    <3>4. taken' = IF \A i \in 1..FirstZero : rx[i][2] = "own" THEN "own" ELSE "other"
      BY <2>1 DEF TakeFlux
    <3>5. ASSUME behind < 3 PROVE taken' # "other"
      <4>1. \A i \in 1..Len(rx) : rx[i][2] = "own"
        BY <1>2, <1>3, <1>4, <3>5 DEF LinkInv, OwnFlux
      <4>2. \A i \in 1..FirstZero : i \in 1..Len(rx)
        BY <1>4, <3>2
      <4> QED BY <3>4, <4>1, <4>2
    <3>6. ~refused
      BY <1>2, <1>3 DEF LinkInv, InStep, Untaken
    <3>7. taken' \in {"none", "own", "other"}
      BY <3>4
    <3> QED BY <3>3, <3>5, <3>6, <3>7
  <2>2. CASE FluxTimeout
    <3>1. rx' = <<>> /\ taken' = taken
      BY <2>2 DEF FluxTimeout, ghosts
    <3>2. taken = "none"
      BY <1>3 DEF LinkInv, Untaken
    <3>3. rx' \in Seq(Byte)
      BY <3>1
    <3> QED BY <3>1, <3>2, <3>3
  <2> QED BY <2>1, <2>2
<1>6. LinkTypeOK'
  <2>1. /\ queue' = queue /\ streaming' = streaming /\ older' = older /\ behind' = behind
        /\ stale' = stale /\ again' = again /\ refused' = refused
    BY <1>2 DEF device
  <2>2. Outstanding' = Outstanding /\ NoFlux' = NoFlux
    BY <2>1 DEF Outstanding, NoFlux
  <2>3. step' \in 1..3
    BY <1>2
  <2> QED BY <1>1, <1>2, <1>5, <2>1, <2>2, <2>3 DEF LinkTypeOK, Byte
<1>7. Placed'
  BY <1>2 DEF Placed, Script
<1>8. Spent' /\ Paid' /\ OneFlux' /\ OwnFlux' /\ InStep'
  BY <1>2 DEF Spent, Paid, OneFlux, OwnFlux, InStep
<1>9. Untaken' /\ FreshFlux' /\ RefusalSeen'
  <2>1. behind' = behind /\ refused' = refused /\ task' # "read"
    BY <1>2
  <2>2. Untaken' /\ RefusalSeen'
    BY <1>5, <2>1 DEF LinkInv, Untaken, RefusalSeen
  <2>3. FreshFlux'
    BY <1>4, <1>5, <2>1 DEF FreshFlux
  <2> QED BY <2>2, <2>3
<1> QED BY <1>6, <1>7, <1>8, <1>9 DEF LinkInv

(* The rest of the types, for steps of the device.                         *)
LEMMA DeviceTypes ==
    ASSUME LinkTypeOK, UNCHANGED <<host, behind, taken>>, rx' \in Seq(Byte),
           queue' \in Seq(Commands), Len(queue') <= MaxQueued, streaming' \in 0..NoFlux,
           older' \in 0..(Outstanding'), refused' \in BOOLEAN
    PROVE  LinkTypeOK' /\ (Placed => Placed') /\ NoFlux' = NoFlux
<1>1. /\ task' = task /\ step' = step /\ await' = await /\ stale' = stale
      /\ again' = again /\ ok' = ok /\ behind' = behind /\ taken' = taken
  BY DEF host
<1>2. NoFlux' = NoFlux
  BY DEF NoFlux
<1>3. LinkTypeOK'
  BY <1>1, <1>2 DEF LinkTypeOK, Byte
<1>4. Placed => Placed'
  BY <1>1 DEF Placed
<1> QED BY <1>2, <1>3, <1>4

LEMMA LinkStream ==
    ASSUME LinkInv, Stream
    PROVE  LinkInv'
<1>1. LinkTypeOK /\ Placed
  BY DEF LinkInv
<1>2. /\ streaming # NoFlux /\ UNCHANGED <<host, queue, behind, refused, taken>>
      /\ task' = task /\ step' = step /\ await' = await /\ NoFlux' = NoFlux
  BY DEF Stream, host, NoFlux
<1>3. /\ Len(queue) \in Nat /\ Len(rx) \in Nat /\ step \in 1..3 /\ older \in Nat /\ behind \in Nat
      /\ streaming \in Nat /\ NoFlux \in Nat /\ queue \in Seq(Commands) /\ rx \in Seq(Byte)
      /\ older <= Outstanding /\ Outstanding = Len(queue) + Streaming
      /\ DOMAIN queue = 1..Len(queue) /\ DOMAIN rx = 1..Len(rx)
      /\ (queue = <<>> <=> Len(queue) = 0) /\ Len(ReadCmds) = 3
  BY <1>1, LinkNumbers
<1>4. Streaming = 1 /\ Tag \in {"own", "other"} /\ (Tag = "other" <=> older # 0)
  BY <1>2 DEF Streaming, Tag
<1>5. PICK b \in FluxBytes \cup {0} :
         /\ rx' = Append(rx, <<b, Tag>>)
         /\ \/ b = 0 /\ streaming' = NoFlux /\ Streaming' = 0
               /\ older' = IF older > 0 THEN older - 1 ELSE 0
            \/ b # 0 /\ streaming' = streaming - 1 /\ streaming \in 1..NoFlux /\ Streaming' = 1
               /\ older' = older
  <2>1. CASE streaming = 0
    BY <1>2, <2>1 DEF Stream, Done, Streaming
  <2>2. CASE streaming # 0
    <3>1. streaming \in 1..NoFlux
      BY <1>1, <1>3, <2>2 DEF LinkTypeOK
    <3>2. streaming' = streaming - 1 /\ older' = older /\ \E b \in FluxBytes : rx' = Append(rx, <<b, Tag>>)
      BY <2>2 DEF Stream
    <3>3. streaming' # NoFlux
      BY <1>3, <3>1, <3>2
    <3>4. Streaming' = 1
      BY <1>2, <3>3 DEF Streaming
    <3>5. \A b \in FluxBytes : b # 0
      BY GwLinkAssumption
    <3> QED BY <3>1, <3>2, <3>4, <3>5
  <2> QED BY <2>1, <2>2
<1>6. <<b, Tag>> \in Byte
  BY <1>4 DEF Byte
<1>7. /\ rx' \in Seq(Byte) /\ Len(rx') = Len(rx) + 1 /\ \A i \in 1..Len(rx) : rx'[i] = rx[i]
      /\ rx'[Len(rx) + 1] = <<b, Tag>>
  BY <1>3, <1>5, <1>6, Adds
<1>8. older' \in Nat /\ older' <= older /\ (older = 0 <=> older' = 0 /\ Tag = "own")
      /\ older' + Streaming >= older + Streaming'
      /\ (older' # older => older' = older - 1 /\ b = 0)
      /\ (b = 0 /\ older # 0 => older' = older - 1)
  <2>1. older' \in Nat /\ older' <= older /\ older' + Streaming >= older + Streaming'
        /\ (older' # older => older' = older - 1 /\ b = 0)
        /\ (b = 0 /\ older # 0 => older' = older - 1)
        /\ (older = 0 => older' = 0)
    BY <1>3, <1>4, <1>5
  <2> QED BY <1>4, <2>1
<1>9. ASSUME NEW n \in Nat, older + n <= behind
      PROVE  older' + n <= behind
  <2>1. older' \in Nat /\ older' <= older /\ older \in Nat /\ behind \in Nat /\ n \in Nat
    BY <1>3, <1>8
  <2>2. \A u, v, w, z \in Nat : u <= v /\ v + w <= z => u + w <= z
    OBVIOUS
  <2> QED BY <1>9, <2>1, <2>2
<1>10. LinkTypeOK' /\ Placed'
  <2>1. Outstanding' = Len(queue) + Streaming'
    BY <1>2 DEF Outstanding, Streaming
  <2>2. older' \in 0..(Outstanding')
    <3>1. Streaming' \in {0, 1}
      BY DEF Streaming
    <3> QED BY <1>3, <1>4, <1>5, <2>1, <3>1
  <2>3. streaming' \in 0..NoFlux
    BY <1>3, <1>5
  <2>4. Len(queue') <= MaxQueued /\ queue' \in Seq(Commands) /\ refused' \in BOOLEAN
    BY <1>1, <1>2 DEF LinkTypeOK
  <2> QED BY <1>1, <1>2, <1>7, <2>2, <2>3, <2>4, DeviceTypes
<1>11. CASE task # "read"
  BY <1>2, <1>10, <1>11, Over DEF LinkInv
<1>12. CASE task = "read"
  <2>1. Command' = Command /\ queue' = queue /\ behind' = behind
    BY <1>2 DEF Command
  <2>2. Spent'
    <3>1. older = 0 \/ older + (step - 1) <= behind
      BY <1>12 DEF LinkInv, Spent
    <3>2. step - 1 \in Nat
      BY <1>3
    <3>3. older = 0 => older' = 0
      BY <1>5
    <3> QED BY <1>2, <1>9, <3>1, <3>2, <3>3 DEF Spent
  <2>3. Paid'
    <3>1. SUFFICES ASSUME await = "reply", step < 3, Payable', older' # 0
                   PROVE  older' + step <= behind
      BY <1>2, <1>3 DEF Paid
    <3>2. older # 0 /\ (older + (step - 1) <= behind)
      BY <1>8, <1>12, <3>1 DEF LinkInv, Spent
    <3>3. PICK i \in 1..(Len(rx') - 1) : rx'[i][1] = Command /\ rx'[i + 1][1] = 0
      BY <2>1, <3>1 DEF Payable
    <3>4. CASE i + 1 = Len(rx) + 1
      <4>1. b = 0
        BY <1>7, <3>3, <3>4
      <4> QED BY <1>3, <1>8, <3>2, <4>1
    <3>5. CASE i + 1 <= Len(rx)
      <4>1. i \in 1..(Len(rx) - 1) /\ i \in 1..Len(rx) /\ i + 1 \in 1..Len(rx)
        BY <1>3, <1>7, <3>5
      <4>2. Payable
        BY <1>7, <3>3, <4>1 DEF Payable
      <4>3. older + step <= behind
        BY <1>3, <1>12, <3>1, <3>2, <4>2 DEF LinkInv, Paid
      <4>4. step \in Nat
        BY <1>3
      <4> QED BY <1>9, <4>3, <4>4
    <3> QED BY <1>3, <1>7, <3>4, <3>5
  <2>4. OneFlux
    BY DEF LinkInv
  <2>5. OneFlux'
    <3>1. ASSUME NEW i \in DOMAIN queue, queue[i] = READFLUX, i + Streaming' > older'
          PROVE  step = 3 /\ await # "send" /\ i = Len(queue)
      <4>1. i + Streaming > older
        BY <1>3, <1>4, <1>5, <1>8, <3>1
      <4> QED BY <1>3, <1>12, <2>4, <3>1, <4>1 DEF OneFlux
    <3>2. ASSUME streaming' # NoFlux, older' = 0
          PROVE  step = 3 /\ await # "send" /\ queue = <<>>
      <4>1. older = 0
        BY <1>5, <3>2
      <4> QED BY <1>2, <1>3, <1>12, <2>4, <4>1 DEF OneFlux
    <3> QED BY <1>2, <1>3, <2>1, <3>1, <3>2 DEF OneFlux
  <2>6. OwnFlux'
    <3>1. SUFFICES ASSUME step = 3, behind < 3
                   PROVE  /\ await = "reply" => After'
                          /\ await = "flux" => queue = <<>> /\ \A i \in DOMAIN rx' : rx'[i][2] = "own"
      BY <1>2, <1>3, <2>1 DEF OwnFlux
    <3>2. older = 0 /\ Tag = "own"
      <4>1. older = 0
        BY <1>3, <1>12, <3>1 DEF LinkInv, Spent
      <4> QED BY <4>1, <1>8
    <3>3. rx'[Len(rx) + 1][2] = "own"
      BY <1>7, <3>2
    <3>4. ASSUME await = "reply" PROVE After'
      <4>1. After
        BY <1>2, <1>3, <1>12, <3>1, <3>4 DEF LinkInv, OwnFlux, Before
      <4>2. PICK k \in 1..Len(rx) :
               /\ 2 * k <= Len(rx) /\ rx[2 * k - 1][1] = READFLUX
               /\ \A j \in 1..(k - 1) : rx[2 * j - 1][1] # READFLUX
               /\ \A i \in (2 * k + 1)..Len(rx) : rx[i][2] = "own"
        BY <4>1 DEF After
      <4>3. k \in 1..Len(rx') /\ 2 * k <= Len(rx') /\ 2 * k - 1 \in 1..Len(rx)
        BY <1>3, <1>7, <4>2
      <4>4. rx'[2 * k - 1][1] = READFLUX
        BY <1>7, <4>2, <4>3
      <4>5. ASSUME NEW j \in 1..(k - 1) PROVE rx'[2 * j - 1][1] # READFLUX
        <5>1. 2 * j - 1 \in 1..Len(rx)
          BY <1>3, <4>2
        <5> QED BY <1>7, <4>2, <5>1
      <4>6. ASSUME NEW i \in (2 * k + 1)..Len(rx') PROVE rx'[i][2] = "own"
        <5>1. CASE i = Len(rx) + 1
          BY <3>3, <5>1
        <5>2. CASE i # Len(rx) + 1
          <6>1. i \in (2 * k + 1)..Len(rx) /\ i \in 1..Len(rx)
            BY <1>3, <1>7, <5>2
          <6> QED BY <1>7, <4>2, <6>1
        <5> QED BY <5>1, <5>2
      <4>7. queue' = <<>>
        BY <2>1, <4>1 DEF After
      <4> QED BY <4>3, <4>4, <4>5, <4>6, <4>7 DEF After
    <3>5. ASSUME await = "flux" PROVE queue = <<>> /\ \A i \in DOMAIN rx' : rx'[i][2] = "own"
      <4>1. queue = <<>> /\ \A i \in DOMAIN rx : rx[i][2] = "own"
        BY <1>3, <1>12, <3>1, <3>5 DEF LinkInv, OwnFlux
      <4>2. DOMAIN rx' = 1..(Len(rx) + 1)
        BY <1>7, LenProperties
      <4>3. ASSUME NEW i \in 1..(Len(rx) + 1) PROVE rx'[i][2] = "own"
        <5>1. CASE i = Len(rx) + 1
          BY <3>3, <5>1
        <5>2. CASE i # Len(rx) + 1
          <6>1. i \in 1..Len(rx)
            BY <1>3, <5>2
          <6> QED BY <1>3, <1>7, <4>1, <6>1
        <5> QED BY <5>1, <5>2
      <4> QED BY <4>1, <4>2, <4>3
    <3> QED BY <3>4, <3>5
  <2>7. InStep'
    <3>1. SUFFICES ASSUME behind = 0
                   PROVE  /\ await = "send" => queue = <<>> /\ ~refused
                          /\ await = "reply" => /\ queue = <<>> /\ Len(rx') >= 2 /\ rx'[1][1] = Command
                                                /\ refused => rx'[2][1] # 0
                          /\ await = "flux" => ~refused
      BY <1>2, <2>1 DEF InStep
    <3>2. older = 0
      BY <1>3, <1>12, <3>1 DEF LinkInv, Spent
    <3>3. queue = <<>>
      BY <1>2, <1>12, <2>4, <3>2 DEF OneFlux
    <3>4. ASSUME await = "reply"
          PROVE  /\ Len(rx') >= 2 /\ rx'[1][1] = Command
                 /\ refused => rx'[2][1] # 0
      <4>1. Len(<<Command>>) = 1 /\ queue # <<Command>>
        BY <1>3, <3>3
      <4>2. Len(rx) >= 2 /\ rx[1][1] = Command /\ (refused => rx[2][1] # 0)
        BY <1>12, <3>1, <3>4, <4>1 DEF LinkInv, InStep
      <4>3. 1 \in 1..Len(rx) /\ 2 \in 1..Len(rx) /\ Len(rx') >= 2
        BY <1>3, <1>7, <4>2
      <4> QED BY <1>7, <4>2, <4>3
    <3>5. (await = "send" => ~refused) /\ (await = "flux" => ~refused)
      BY <1>12, <3>1 DEF LinkInv, InStep
    <3> QED BY <3>3, <3>4, <3>5
  <2>8. Untaken' /\ FreshFlux' /\ RefusalSeen'
    BY <1>2, <1>12 DEF LinkInv, Untaken, FreshFlux, RefusalSeen
  <2> QED BY <1>10, <2>2, <2>3, <2>5, <2>6, <2>7, <2>8 DEF LinkInv
<1> QED BY <1>11, <1>12

-----------------------------------------------------------------------------
LEMMA LinkReply ==
    ASSUME LinkInv, NEW status \in {0, 1}, Reply(status)
    PROVE  LinkInv'
<1>1. LinkTypeOK /\ Placed
  BY DEF LinkInv
<1>2. /\ queue # <<>> /\ streaming = NoFlux /\ UNCHANGED <<host, behind, taken>>
      /\ task' = task /\ step' = step /\ await' = await /\ NoFlux' = NoFlux
      /\ rx' = rx \o << <<Head(queue), "other">>, <<status, "other">> >> /\ queue' = Tail(queue)
      /\ behind' = behind /\ taken' = taken
  BY DEF Reply, host, NoFlux
<1>3. /\ Len(queue) \in Nat /\ Len(rx) \in Nat /\ step \in 1..3 /\ older \in Nat /\ behind \in Nat
      /\ NoFlux \in Nat /\ queue \in Seq(Commands) /\ rx \in Seq(Byte)
      /\ older <= Outstanding /\ Outstanding = Len(queue) + Streaming
      /\ DOMAIN queue = 1..Len(queue) /\ DOMAIN rx = 1..Len(rx)
      /\ (queue = <<>> <=> Len(queue) = 0) /\ Len(ReadCmds) = 3
  BY <1>1, LinkNumbers
<1>4. /\ Streaming = 0 /\ Head(queue) = queue[1] /\ queue[1] \in Commands /\ 0 \notin Commands
      /\ queue' \in Seq(Commands) /\ Len(queue') = Len(queue) - 1 /\ Len(queue) \in Nat \ {0}
      /\ \A i \in 1..Len(queue') : queue'[i] = queue[i + 1]
      /\ DOMAIN queue' = 1..Len(queue') /\ (queue' = <<>> <=> Len(queue') = 0)
  <2>1. /\ Head(queue) = queue[1] /\ queue[1] \in Commands
        /\ queue' \in Seq(Commands) /\ Len(queue') = Len(queue) - 1 /\ Len(queue) \in Nat \ {0}
        /\ \A i \in 1..Len(queue') : queue'[i] = queue[i + 1]
    BY <1>2, <1>3, Pops
  <2>2. DOMAIN queue' = 1..Len(queue') /\ (queue' = <<>> <=> Len(queue') = 0)
    BY <2>1, LenProperties, EmptySeq
  <2>3. Streaming = 0 /\ 0 \notin Commands
    BY <1>2, GwLinkAssumption DEF Streaming
  <2> QED BY <2>1, <2>2, <2>3
<1>5. /\ rx' \in Seq(Byte) /\ Len(rx') = Len(rx) + 2 /\ \A i \in 1..Len(rx) : rx'[i] = rx[i]
      /\ rx'[Len(rx) + 1] = <<queue[1], "other">> /\ rx'[Len(rx) + 2] = <<status, "other">>
  <2>1. <<queue[1], "other">> \in Byte /\ <<status, "other">> \in Byte
    BY <1>4 DEF Byte
  <2> QED BY <1>2, <1>3, <1>4, <2>1, Joins
<1>6. \/ /\ queue[1] = READFLUX /\ status = 0 /\ streaming' \in 0..MaxStream /\ older' = older
         /\ Streaming' = 1
      \/ /\ ~(queue[1] = READFLUX /\ status = 0) /\ streaming' = NoFlux /\ Streaming' = 0
         /\ older' = IF older > 0 THEN older - 1 ELSE 0
  <2>1. CASE queue[1] = READFLUX /\ status = 0
    <3>1. streaming' \in 0..MaxStream /\ older' = older
      BY <1>4, <2>1 DEF Reply
    <3>2. streaming' # NoFlux
      BY <3>1, GwLinkAssumption DEF NoFlux
    <3>3. Streaming' = 1
      BY <1>2, <3>2 DEF Streaming
    <3> QED BY <2>1, <3>1, <3>3
  <2>2. CASE ~(queue[1] = READFLUX /\ status = 0)
    <3>1. streaming' = NoFlux /\ older' = IF older > 0 THEN older - 1 ELSE 0
      BY <1>2, <1>4, <2>2 DEF Reply, Done
    <3> QED BY <1>2, <2>2, <3>1 DEF Streaming
  <2> QED BY <2>1, <2>2
<1>7. refused' = (refused \/ (status = 1 /\ task = "read" /\ behind = 0))
  BY DEF Reply
<1>8. older' \in Nat /\ older' <= older /\ (older = 0 => older' = 0)
      /\ older' + 1 >= older + Streaming'
      /\ (Streaming' = 0 /\ older # 0 => older' = older - 1)
  BY <1>3, <1>6
<1>9. ASSUME NEW n \in Nat, older + n <= behind
      PROVE  older' + n <= behind
  <2>1. older' \in Nat /\ older' <= older /\ older \in Nat /\ behind \in Nat /\ n \in Nat
    BY <1>3, <1>8
  <2>2. \A u, v, w, z \in Nat : u <= v /\ v + w <= z => u + w <= z
    OBVIOUS
  <2> QED BY <1>9, <2>1, <2>2
<1>10. LinkTypeOK' /\ Placed'
  <2>1. Outstanding' = Len(queue) - 1 + Streaming'
    BY <1>2, <1>4 DEF Outstanding, Streaming
  <2>2. older' \in 0..(Outstanding')
    <3>1. older <= Len(queue) /\ Len(queue) \in Nat \ {0} /\ older \in Nat
      BY <1>3, <1>4
    <3> QED BY <1>6, <2>1, <3>1
  <2>3. streaming' \in 0..NoFlux
    <3>1. CASE streaming' \in 0..MaxStream
      BY <3>1, GwLinkAssumption DEF NoFlux
    <3>2. CASE streaming' = NoFlux
      BY <1>3, <3>2
    <3> QED BY <1>6, <3>1, <3>2
  <2>4. Len(queue') <= MaxQueued
    <3>1. Len(queue) <= MaxQueued /\ MaxQueued \in Nat
      BY <1>1, GwLinkAssumption DEF LinkTypeOK
    <3> QED BY <1>4, <3>1
  <2>5. refused' \in BOOLEAN
    BY <1>7
  <2> QED BY <1>1, <1>2, <1>4, <1>5, <2>2, <2>3, <2>4, <2>5, DeviceTypes
<1>11. CASE task # "read"
  <2>1. refused' = refused
    BY <1>1, <1>7, <1>11 DEF LinkTypeOK
  <2> QED BY <1>2, <1>10, <1>11, <2>1, Over DEF LinkInv
<1>12. CASE task = "read"
  <2>1. Command' = Command /\ taken = "none" /\ (refused => behind = 0)
    BY <1>2, <1>12 DEF Command, LinkInv, Untaken
  <2>2. Spent'
    <3>1. older = 0 \/ older + (step - 1) <= behind
      BY <1>12 DEF LinkInv, Spent
    <3>2. step - 1 \in Nat
      BY <1>3
    <3> QED BY <1>2, <1>8, <1>9, <3>1, <3>2 DEF Spent
  <2>3. Paid'
    <3>1. SUFFICES ASSUME await = "reply", step < 3, Payable', older' # 0
                   PROVE  older' + step <= behind
      BY <1>2, <1>3 DEF Paid
    <3>2. older # 0 /\ (older + (step - 1) <= behind) /\ Command # READFLUX
      <4>1. older # 0 /\ (older + (step - 1) <= behind)
        BY <1>8, <1>12, <3>1 DEF LinkInv, Spent
      <4>2. Command \in {SEEK, HEAD}
        BY <1>1, <1>3, <1>12, <3>1, CommandIs
      <4> QED BY <4>1, <4>2, GwLinkAssumption
    <3>3. PICK i \in 1..(Len(rx') - 1) : rx'[i][1] = Command /\ rx'[i + 1][1] = 0
      BY <2>1, <3>1 DEF Payable
    <3>4. CASE i = Len(rx) + 1
      <4>1. Streaming' = 0
        BY <1>5, <1>6, <3>2, <3>3, <3>4
      <4>2. older' = older - 1
        BY <1>8, <3>2, <4>1
      <4> QED BY <1>3, <3>2, <4>2
    <3>5. CASE i = Len(rx)
      <4>1. rx'[i + 1][1] = queue[1]
        BY <1>5, <3>5
      <4> QED BY <1>4, <3>3, <4>1
    <3>6. CASE i + 1 <= Len(rx)
      <4>1. i \in 1..(Len(rx) - 1) /\ i \in 1..Len(rx) /\ i + 1 \in 1..Len(rx)
        BY <1>3, <1>5, <3>6
      <4>2. Payable
        BY <1>5, <3>3, <4>1 DEF Payable
      <4>3. older + step <= behind
        BY <1>3, <1>12, <3>1, <3>2, <4>2 DEF LinkInv, Paid
      <4>4. step \in Nat
        BY <1>3
      <4> QED BY <1>9, <4>3, <4>4
    <3>7. i = Len(rx) + 1 \/ i = Len(rx) \/ i + 1 <= Len(rx)
      <4>1. Len(rx') = Len(rx) + 2 /\ Len(rx) \in Nat
        BY <1>3, <1>5
      <4>2. i \in 1..(Len(rx) + 1)
        BY <4>1
      <4> QED BY <4>1, <4>2
    <3> QED BY <3>4, <3>5, <3>6, <3>7
  <2>4. OneFlux
    BY DEF LinkInv
  <2>5. OneFlux'
    <3>1. ASSUME NEW i \in 1..Len(queue'), queue'[i] = READFLUX, i + Streaming' > older'
          PROVE  step = 3 /\ await # "send" /\ i = Len(queue')
      <4>1. i + 1 \in 1..Len(queue) /\ queue[i + 1] = READFLUX
        BY <1>4, <3>1
      <4>2. (i + 1) + Streaming > older
        <5>1. older' + 1 >= older + Streaming' /\ Streaming' \in {0, 1} /\ older' \in Nat /\ older \in Nat
          BY <1>3, <1>6, <1>8
        <5>2. i \in Nat /\ Streaming = 0
          BY <1>4
        <5>3. i + Streaming' > older'
          BY <3>1
        <5>4. \A p, q, r \in Nat : \A t \in {0, 1} : q + 1 >= r + t /\ p + t > q => p + 1 > r
          OBVIOUS
        <5>5. i + 1 > older
          BY <5>1, <5>2, <5>3, <5>4
        <5> QED BY <5>2, <5>5
      <4>3. step = 3 /\ await # "send" /\ i + 1 = Len(queue)
        BY <1>3, <1>12, <2>4, <4>1, <4>2 DEF OneFlux
      <4> QED BY <1>4, <4>3
    <3>2. ASSUME streaming' # NoFlux, older' = 0
          PROVE  step = 3 /\ await # "send" /\ queue' = <<>>
      <4>1. queue[1] = READFLUX /\ older = 0
        BY <1>6, <3>2
      <4>2. 1 \in 1..Len(queue) /\ 1 + Streaming > older
        BY <1>4, <4>1
      <4>3. step = 3 /\ await # "send" /\ 1 = Len(queue)
        BY <1>3, <1>12, <2>4, <4>1, <4>2 DEF OneFlux
      <4>4. Len(queue') = 0
        <5>1. Len(queue') = Len(queue) - 1
          BY <1>4
        <5> QED BY <4>3, <5>1
      <4> QED BY <1>4, <4>3, <4>4
    <3> QED BY <1>2, <1>3, <1>4, <3>1, <3>2 DEF OneFlux
  <2>6. OwnFlux'
    <3>1. SUFFICES ASSUME step = 3, behind < 3
                   PROVE  /\ await = "reply" => Before' \/ After'
                          /\ await = "flux" => queue' = <<>> /\ \A i \in DOMAIN rx' : rx'[i][2] = "own"
      BY <1>2, <1>3 DEF OwnFlux
    <3>2. older = 0
      BY <1>3, <1>12, <3>1 DEF LinkInv, Spent
    <3>3. await # "flux"
      BY <1>2, <1>3, <1>12, <3>1 DEF LinkInv, OwnFlux
    <3>4. ASSUME await = "reply" PROVE Before' \/ After'
      <4>1. Before
        BY <1>2, <1>3, <1>12, <3>1, <3>4 DEF LinkInv, OwnFlux, After
      <4>2. PICK n \in 0..Len(rx) : /\ Len(rx) = 2 * n
                                    /\ \A j \in 1..n : rx[2 * j - 1][1] # READFLUX
        BY <4>1 DEF Before
      <4>3. ASSUME NEW j \in 1..n PROVE rx'[2 * j - 1][1] # READFLUX
        <5>1. 2 * j - 1 \in 1..Len(rx)
          BY <1>3, <4>2
        <5> QED BY <1>5, <4>2, <5>1
      <4>4. /\ n + 1 \in 1..Len(rx') /\ Len(rx') = 2 * (n + 1) /\ 2 * (n + 1) - 1 = Len(rx) + 1
            /\ rx'[2 * (n + 1) - 1][1] = queue[1]
        <5>1. n + 1 \in 1..Len(rx') /\ Len(rx') = 2 * (n + 1) /\ 2 * (n + 1) - 1 = Len(rx) + 1
          BY <1>3, <1>5, <4>2
        <5> QED BY <1>5, <5>1
      <4>5. CASE Len(queue) = 1
        <5>1. queue' = <<>> /\ queue[1] = READFLUX
          BY <1>4, <4>1, <4>5 DEF Before
        <5>2. /\ 2 * (n + 1) <= Len(rx') /\ rx'[2 * (n + 1) - 1][1] = READFLUX
              /\ \A i \in (2 * (n + 1) + 1)..Len(rx') : rx'[i][2] = "own"
          BY <4>4, <5>1
        <5>3. \A j \in 1..((n + 1) - 1) : rx'[2 * j - 1][1] # READFLUX
          BY <4>2, <4>3
        <5>4. After'
          BY <4>4, <5>1, <5>2, <5>3 DEF After
        <5> QED BY <5>4
      <4>6. CASE Len(queue) # 1
        <5>1. queue[1] # READFLUX
          <6>1. SUFFICES ASSUME queue[1] = READFLUX PROVE FALSE
            OBVIOUS
          <6>2. 1 \in 1..Len(queue) /\ 1 + Streaming > older
            BY <1>4, <3>2
          <6> QED BY <1>3, <1>12, <2>4, <4>6, <6>1, <6>2 DEF OneFlux
        <5>2. queue' # <<>> /\ streaming' = NoFlux /\ queue'[Len(queue')] = READFLUX
          <6>1. Len(queue') \in 1..Len(queue') /\ Len(queue') + 1 = Len(queue)
            BY <1>4, <4>6
          <6>2. queue'[Len(queue')] = queue[Len(queue)]
            BY <1>4, <6>1
          <6> QED BY <1>4, <1>6, <4>1, <5>1, <6>1, <6>2 DEF Before
        <5>3. ASSUME NEW j \in 1..(n + 1) PROVE rx'[2 * j - 1][1] # READFLUX
          <6>1. CASE j = n + 1
            BY <4>4, <5>1, <6>1
          <6>2. CASE j # n + 1
            <7>1. j \in 1..n
              BY <4>2, <6>2
            <7> QED BY <4>3, <7>1
          <6> QED BY <6>1, <6>2
        <5>4. n + 1 \in 0..Len(rx')
          BY <4>4
        <5>5. Before'
          BY <1>2, <4>4, <5>2, <5>3, <5>4 DEF Before
        <5> QED BY <5>5
      <4> QED BY <4>5, <4>6
    <3> QED BY <3>3, <3>4
  <2>7. InStep'
    <3>1. SUFFICES ASSUME behind = 0
                   PROVE  /\ await = "send" => FALSE
                          /\ await = "reply" => /\ queue' = <<>> /\ Len(rx') >= 2 /\ rx'[1][1] = Command
                                                /\ refused' => rx'[2][1] # 0
                          /\ await = "flux" => FALSE
      BY <1>2, <2>1 DEF InStep
    <3>2. await # "send"
      BY <1>2, <1>12, <3>1 DEF LinkInv, InStep
    <3>3. await # "flux"
      <4>1. ASSUME await = "flux" PROVE FALSE
        <5>1. step = 3 /\ behind < 3
          BY <1>1, <1>3, <3>1, <4>1 DEF Placed
        <5> QED BY <1>2, <1>3, <1>12, <4>1, <5>1 DEF LinkInv, OwnFlux
      <4> QED BY <4>1
    <3>4. ASSUME await = "reply"
          PROVE  /\ queue' = <<>> /\ Len(rx') >= 2 /\ rx'[1][1] = Command
                 /\ refused' => rx'[2][1] # 0
      <4>1. queue = <<Command>> /\ rx = <<>> /\ ~refused
        BY <1>2, <1>12, <3>1, <3>4 DEF LinkInv, InStep
      <4>2. Len(queue) = 1 /\ queue[1] = Command /\ Len(rx) = 0
        BY <4>1
      <4>3. queue' = <<>>
        BY <1>4, <4>2
      <4>4. Len(rx') = 2 /\ rx'[1] = <<Command, "other">> /\ rx'[2] = <<status, "other">>
        BY <1>5, <4>2
      <4>5. refused' => status = 1
        BY <1>7, <4>1
      <4> QED BY <4>3, <4>4, <4>5
    <3> QED BY <3>2, <3>3, <3>4
  <2>8. Untaken' /\ FreshFlux' /\ RefusalSeen'
    <3>1. taken' = "none" /\ (refused' => behind' = 0)
      BY <1>2, <1>7, <2>1
    <3> QED BY <3>1 DEF Untaken, FreshFlux, RefusalSeen
  <2> QED BY <1>10, <2>2, <2>3, <2>5, <2>6, <2>7, <2>8 DEF LinkInv
<1> QED BY <1>11, <1>12

LEMMA LinkStarts == LinkInit => LinkInv
<1> SUFFICES ASSUME LinkInit PROVE LinkInv
  OBVIOUS
<1>1. /\ task = "none" /\ step = 1 /\ await = "none" /\ stale = 0 /\ again = FALSE /\ ok = FALSE
      /\ rx = <<>> /\ queue = <<>> /\ streaming = NoFlux
      /\ older = 0 /\ behind = 0 /\ refused = FALSE /\ taken = "none"
  BY DEF LinkInit
<1>2. MaxStream \in Nat /\ MaxQueued \in Nat /\ GW_RESYNC_MAX \in Nat
  BY GwLinkAssumption
<1>3. Len(queue) = 0 /\ Outstanding = 0
  BY <1>1 DEF Outstanding
<1>4. LinkTypeOK
  <2>1. /\ step \in 1..3 /\ stale \in 0..GW_RESYNC_MAX /\ streaming \in 0..NoFlux
        /\ older \in 0..Outstanding /\ behind \in 0..(MaxQueued + 1) /\ Len(queue) <= MaxQueued
    BY <1>1, <1>2, <1>3 DEF NoFlux
  <2>2. queue \in Seq(Commands) /\ rx \in Seq((Commands \cup FluxBytes \cup {0, 1}) \X {"own", "other"})
    BY <1>1
  <2> QED BY <1>1, <2>1, <2>2 DEF LinkTypeOK
<1> QED BY <1>1, <1>4 DEF LinkInv, Placed, Spent, Paid, OneFlux, OwnFlux, InStep, Untaken,
                          FreshFlux, RefusalSeen

LEMMA LinkStays == LinkInv /\ [LinkNext]_linkVars => LinkInv'
<1> SUFFICES ASSUME LinkInv, [LinkNext]_linkVars PROVE LinkInv'
  OBVIOUS
<1>1. CASE Start
  BY <1>1, LinkStart
<1>2. CASE Host
  BY <1>2, LinkSend, LinkTake, LinkTimeout, LinkFlux DEF Host
<1>3. CASE Device
  BY <1>3, LinkStream, LinkReply DEF Device
<1>4. CASE UNCHANGED linkVars
  <2>1. /\ task' = task /\ step' = step /\ await' = await /\ stale' = stale /\ again' = again
        /\ ok' = ok /\ rx' = rx /\ queue' = queue /\ streaming' = streaming /\ older' = older
        /\ behind' = behind /\ refused' = refused /\ taken' = taken
    BY <1>4 DEF linkVars, host, device, ghosts
  <2>2. LinkTypeOK' /\ Placed' /\ Spent' /\ Untaken' /\ FreshFlux' /\ RefusalSeen'
    BY <2>1 DEF LinkInv, LinkTypeOK, Outstanding, NoFlux, Placed, Spent, Untaken, FreshFlux, RefusalSeen
  <2>3. Paid' /\ OneFlux' /\ InStep'
    BY <2>1 DEF LinkInv, Paid, Payable, Command, OneFlux, Streaming, NoFlux, InStep
  <2>4. OwnFlux'
    BY <2>1 DEF LinkInv, OwnFlux, Before, After, NoFlux
  <2> QED BY <2>2, <2>3, <2>4 DEF LinkInv
<1> QED BY <1>1, <1>2, <1>3, <1>4 DEF LinkNext

LEMMA LinkHolds == LinkSpec => []LinkInv
BY LinkStarts, LinkStays, PTL DEF LinkSpec

(* The variables of the link keep their types: no more stale replies are   *)
(* skipped than GW_RESYNC_MAX, and the device is never behind with more    *)
(* commands from before a read than it has in all (gw_cmd).                *)
THEOREM LinkTypeCorrect == LinkSpec => []LinkTypeOK
<1>1. LinkInv => LinkTypeOK
  BY DEF LinkInv
<1> QED BY <1>1, LinkHolds, PTL

(* The flux a read takes is that of its own READFLUX, whole, unless the    *)
(* device was behind with three commands or more when the read began:      *)
(* whatever its bytes look like and however many replies are skipped       *)
(* (gw_cmd, rx_wait_zero).                                                 *)
THEOREM FluxFresh == LinkSpec => []FreshFlux
<1>1. LinkInv => FreshFlux
  BY DEF LinkInv
<1> QED BY <1>1, LinkHolds, PTL

(* A read of which a device that was not behind refuses a command takes no *)
(* flux (gw_cmd, track_read).                                              *)
THEOREM RefusalKept == LinkSpec => []RefusalSeen
<1>1. LinkInv => RefusalSeen
  BY DEF LinkInv
<1> QED BY <1>1, LinkHolds, PTL
=============================================================================
