------------------------------ MODULE UsbModeProofs ------------------------------
(***************************************************************************)
(* The invariants of BootModes, and what a boot restores, for every number *)
(* of floppy drives and of resets and for every set of images.             *)
(*                                                                         *)
(* Each part of the invariant says what the keys of NVS, or the PHY        *)
(* mapping, are worth at each place the board can be cut off.              *)
(*                                                                         *)
(* And the bound of FlushTimer, for every width of the counter, every      *)
(* period and every buffer: with Wrap = 2^32, FLUSH_IDLE_MS = 100 and      *)
(* PollDelay = 20 it is that of the program.  The test sees two readings   *)
(* of a counter that wraps.  The invariant says what each is, modulo Wrap: *)
(* the clock is quiet ticks past the last write and, in the test, Preempt  *)
(* - sleep ticks past the loop's own reading.                              *)
(***************************************************************************)
EXTENDS BootModes, FlushTimer, TLAPS

(* Only a USB Mode has the socket, from the step that takes it; a reset    *)
(* may leave it so until the boot's first step.                            *)
Socket ==
    /\ at \notin {"reset", "stack", "loop", "late"} => phy = "console"
    /\ at \in {"stack", "loop", "late"} => phy = "device"

(* The flag is set on the way to a restart only, by a request.             *)
Flag == usbmsc # "none" => asked /\ at \in {"restart", "reset", "flag"}

(* The keys already set hold the disk set that is being saved; without a   *)
(* torn save NVS has the last one, where names are those of the disks.     *)
Saved ==
    /\ at = "save" => \A d \in Drives : d < key => fdd_hdd[d] = name[d]
    /\ ~torn => \A d \in Drives : left[d] \in {fdd_hdd[d], Absent}

(* What the boot and the save have made of the HDD.                        *)
HddDrive ==
    /\ at \in {"floppies", "run"} => (fdd_hdd[Hdd] = Empty => name[Hdd] = Empty)
    /\ at = "floppies" => (Exists(fdd_hdd[Hdd]) => name[Hdd] = fdd_hdd[Hdd])

(* From the choice of a drive to the end of the USB Mode its image is that *)
(* drive's: in the drive, then in its key, then served.                    *)
Chosen ==
    /\ at = "save" /\ job = "image" => name[usbimgdrv] = picked
    /\ at = "arm" /\ job = "image" => fdd_hdd[usbimgdrv] = picked
    /\ usbmsc = "image" => fdd_hdd[usbimgdrv] = picked
    /\ InUsb /\ job = "image" => fdd_hdd[usbimgdrv] = picked
    /\ served # Empty => InUsb /\ served = picked

(* A save on the way to a USB Mode knows which.                            *)
Armed == at = "arm" => job \in Modes

(* Nothing is served before it is opened, and a USB Mode is one of the two. *)
Opening ==
    /\ at = "buffers" => served = Empty
    /\ InUsb => job \in Modes

IInv == TypeOK /\ Armed /\ Socket /\ Flag /\ Saved /\ HddDrive /\ Opening /\ Chosen

-----------------------------------------------------------------------------
(* The drives, and the names that are no image. *)
LEMMA Constants ==
    /\ NFloppy \in Nat /\ NFloppy > 0 /\ MaxCuts \in Nat
    /\ Hdd \in Drives /\ 0 \in Drives /\ Hdd \notin Floppies /\ Floppies \subseteq Drives
    /\ \A d \in Drives : d \in Nat /\ d <= Hdd /\ (d # Hdd => d \in Floppies /\ d < Hdd /\ d + 1 \in Drives)
    /\ DefaultHdd \in Images /\ Empty \notin Images /\ Mark \notin Images /\ Absent \notin Images
    /\ Absent # Empty /\ Absent # Mark /\ Empty # Mark
BY BootAssumption DEF Images, Floppies, Hdd, Drives

(* One name for every drive. *)
LEMMA Uniform == ASSUME NEW S, NEW n \in S PROVE AllDrives(n) \in [Drives -> S]
BY DEF AllDrives

(* A restart loses the RAM and keeps NVS. *)
LEMMA Restarts ==
    ASSUME TypeOK, StartAgain
    PROVE  /\ at' = "reset" /\ served' = Empty /\ name' \in [Drives -> Images \cup {Empty, Mark}]
           /\ live' = {} /\ bare' = Floppies /\ job' = "run" /\ key' = 0
           /\ mounted' = FALSE /\ ever_mounted' = FALSE /\ late' = FALSE
           /\ fdd_hdd' = fdd_hdd /\ usbmsc' = usbmsc /\ usbimgdrv' = usbimgdrv
           /\ asked' = asked /\ picked' = picked /\ left' = left /\ torn' = torn
BY Uniform DEF StartAgain, nvs, ghosts

(* A new board. *)
LEMMA InitInv == Init => IInv
<1> SUFFICES ASSUME Init PROVE IInv
  OBVIOUS
<1>1. TypeOK
  <2>1. name \in [Drives -> Images \cup {Empty, Mark}]
    BY Uniform DEF Init
  <2>2. fdd_hdd \in [Drives -> Images \cup {Empty, Mark, Absent}] /\ left = fdd_hdd
    BY Uniform DEF Init
  <2> QED
    <3>1. {mounted, ever_mounted, late, card, asked, torn} \subseteq BOOLEAN
      BY DEF Init
    <3>2. cuts \in 0..MaxCuts /\ key \in Drives /\ usbimgdrv \in Drives
      BY Constants DEF Init
    <3> QED
      BY <2>1, <2>2, <3>1, <3>2, Zenon DEF Init, TypeOK, Modes, UsbStages
<1>2. Armed /\ Socket /\ Flag
  BY DEF Init, Armed, Socket, Flag
<1>3. Saved /\ HddDrive
  BY DEF Init, Saved, HddDrive
<1>4. Opening /\ Chosen
  BY DEF Init, Opening, Chosen, InUsb, UsbStages
<1> QED
  BY <1>1, <1>2, <1>3, <1>4 DEF IInv

-----------------------------------------------------------------------------
(* A boot and a save put names into the drives and the keys. *)
LEMMA TypeInv == ASSUME TypeOK, Armed, Next PROVE TypeOK'
<1> USE Constants DEF TypeOK, Modes, UsbStages
<1>1. CASE BootRestorePhy
  BY <1>1 DEF BootRestorePhy, RestorePhyMap, disks, menu, usb, nvs, world, ghosts
<1>2. CASE BootFlagTake
  BY <1>2 DEF BootFlagTake, EraseFlag, disks, menu, usb, world
<1>3. CASE BootHdd
  BY <1>3 DEF BootHdd, Exists, menu, usb, nvs, world, ghosts
<1>4. CASE BootFloppies
  BY <1>4 DEF BootFloppies, Exists, menu, usb, nvs, world, ghosts
<1>5. CASE MenuNext
  BY <1>5 DEF MenuNext, MenuOpen, MenuClose, EjectHdd, ChooseSd, EjectFloppy, MountLive, ApplyFloppy, Ejected,
              ApplyHdd, ChooseImageDrive, SaveFor, Images, disks, menu, usb, nvs, world, ghosts
<1>6. CASE SaveNext
  <2>1. CASE SaveSettings
    <3>1. fdd_hdd' \in [Drives -> Images \cup {Empty, Mark, Absent}]
      BY <2>1 DEF SaveSettings, SaveKey
    <3>2. key' \in Drives /\ left' \in [Drives -> Images \cup {Empty, Mark, Absent}]
      BY <2>1 DEF SaveSettings
    <3>3. at' \in {"save", "arm", "run", "restart"} /\ torn' \in BOOLEAN
      BY <2>1 DEF SaveSettings
    <3> QED
      BY <2>1, <3>1, <3>2, <3>3 DEF SaveSettings, disks, usb, world
  <2>2. CASE Request
    BY <2>2 DEF Armed, Request, disks, menu, usb, world
  <2>3. CASE Restart
    BY <2>3, Restarts DEF Restart, world
  <2> QED
    BY <1>6, <2>1, <2>2, <2>3 DEF SaveNext
<1>7. CASE UsbNext
  <2>1. CASE UsbNothing \/ StackFails \/ NoHost
    <3>1. StartAgain /\ UNCHANGED world /\ phy' \in {"console", "device"}
      BY <2>1 DEF UsbNothing, StackFails, NoHost, RestorePhyMap
    <3> QED
      BY <3>1, Restarts DEF world
  <2>2. CASE UsbBuffers \/ UsbOpen
    BY <2>2 DEF UsbBuffers, UsbOpen, Exists, disks, menu, usb, nvs, world, ghosts
  <2>3. CASE TakePhy \/ StartStack
    BY <2>3 DEF TakePhy, StartStack, disks, menu, usb, nvs, world, ghosts
  <2>4. CASE Poll
    BY <2>4 DEF Poll, disks, menu, nvs, world, ghosts
  <2> QED
    BY <1>7, <2>1, <2>2, <2>3, <2>4 DEF UsbNext
<1>8. CASE TwentyFiveSeconds
  BY <1>8 DEF TwentyFiveSeconds, disks, menu, nvs, world, ghosts
<1>9. CASE HostNext
  <2>1. CASE HostMounts
    BY <2>1 DEF HostMounts, disks, menu, nvs, world, ghosts
  <2>2. CASE HostRewrites
    BY <2>2 DEF HostRewrites, disks, menu, usb, nvs, ghosts
  <2>3. CASE Escape
    BY <2>3, Restarts DEF Escape, world
  <2> QED
    BY <1>9, <2>1, <2>2, <2>3 DEF HostNext
<1>10. CASE Reset
  <2>1. cuts' \in 0..MaxCuts /\ phy' = phy /\ card' = card /\ files' = files
    BY <1>10 DEF Reset
  <2> QED
    BY <1>10, <2>1, Restarts DEF Reset
<1>11. CASE PowerCut
  <2>1. cuts' \in 0..MaxCuts /\ phy' = "console" /\ card' \in BOOLEAN /\ files' = files
    BY <1>11 DEF PowerCut
  <2> QED
    BY <1>11, <2>1, Restarts DEF PowerCut
<1> QED
  BY <1>1, <1>2, <1>3, <1>4, <1>5, <1>6, <1>7, <1>8, <1>9, <1>10, <1>11 DEF Next, BootNext

-----------------------------------------------------------------------------
(* Only the end of a save arms. *)
LEMMA ArmedInv == ASSUME TypeOK, Armed, Next PROVE Armed'
<1> USE DEF Armed
<1>1. CASE BootNext
  BY <1>1 DEF BootNext, BootRestorePhy, BootFlagTake, BootHdd, BootFloppies
<1>2. CASE MenuNext
  BY <1>2 DEF MenuNext, MenuOpen, MenuClose, EjectHdd, ChooseSd, EjectFloppy, MountLive, ApplyFloppy, Ejected,
              ApplyHdd, ChooseImageDrive, SaveFor
<1>3. CASE SaveNext
  BY <1>3 DEF SaveNext, SaveSettings, Request, Restart, StartAgain, TypeOK, Modes
<1>4. CASE UsbNext
  BY <1>4 DEF UsbNext, UsbBuffers, UsbOpen, UsbNothing, TakePhy, StartStack, StackFails, Poll, NoHost,
              StartAgain
<1>5. CASE TwentyFiveSeconds \/ HostNext
  BY <1>5 DEF TwentyFiveSeconds, HostNext, HostMounts, HostRewrites, Escape, DeviceUp, StartAgain, menu
<1>6. CASE Reset \/ PowerCut
  BY <1>6 DEF Reset, PowerCut, StartAgain
<1> QED
  BY <1>1, <1>2, <1>3, <1>4, <1>5, <1>6 DEF Next

(* The mapping changes where the socket changes hands. *)
LEMMA SocketInv == ASSUME TypeOK, Socket, Next PROVE Socket'
<1> USE DEF Socket
<1>1. CASE BootNext
  BY <1>1 DEF BootNext, BootRestorePhy, BootFlagTake, BootHdd, BootFloppies, RestorePhyMap
<1>2. CASE MenuNext
  BY <1>2 DEF MenuNext, MenuOpen, MenuClose, EjectHdd, ChooseSd, EjectFloppy, MountLive, ApplyFloppy, Ejected,
              ApplyHdd, ChooseImageDrive, SaveFor
<1>3. CASE SaveNext
  BY <1>3 DEF SaveNext, SaveSettings, Request, Restart, StartAgain, TypeOK, Modes
<1>4. CASE UsbNext
  BY <1>4 DEF UsbNext, UsbBuffers, UsbOpen, UsbNothing, TakePhy, StartStack, StackFails, Poll, NoHost,
              StartAgain, RestorePhyMap
<1>5. CASE TwentyFiveSeconds \/ HostNext
  BY <1>5 DEF TwentyFiveSeconds, HostNext, HostMounts, HostRewrites, Escape, DeviceUp, StartAgain
<1>6. CASE Reset \/ PowerCut
  BY <1>6 DEF Reset, PowerCut, StartAgain
<1> QED
  BY <1>1, <1>2, <1>3, <1>4, <1>5, <1>6 DEF Next

(* The flag goes on before the restart and off at the boot. *)
LEMMA FlagInv == ASSUME TypeOK, Flag, Next PROVE Flag'
<1> USE DEF Flag
<1>1. CASE BootNext
  BY <1>1 DEF BootNext, BootRestorePhy, BootFlagTake, BootHdd, BootFloppies, EraseFlag, nvs, ghosts
<1>2. CASE MenuNext
  BY <1>2 DEF MenuNext, MenuOpen, MenuClose, EjectHdd, ChooseSd, EjectFloppy, MountLive, ApplyFloppy, Ejected,
              ApplyHdd, ChooseImageDrive, SaveFor, nvs, ghosts
<1>3. CASE SaveNext
  BY <1>3 DEF SaveNext, SaveSettings, Request, Restart, StartAgain, nvs, ghosts
<1>4. CASE UsbNext
  BY <1>4 DEF UsbNext, UsbBuffers, UsbOpen, UsbNothing, TakePhy, StartStack, StackFails, Poll, NoHost,
              StartAgain, nvs, ghosts
<1>5. CASE TwentyFiveSeconds \/ HostNext
  BY <1>5 DEF TwentyFiveSeconds, HostNext, HostMounts, HostRewrites, Escape, DeviceUp, StartAgain,
              nvs, ghosts
<1>6. CASE Reset \/ PowerCut
  BY <1>6 DEF Reset, PowerCut, StartAgain, nvs, ghosts
<1> QED
  BY <1>1, <1>2, <1>3, <1>4, <1>5, <1>6 DEF Next

(* The last key makes the disk set complete. *)
LEMMA LastKey ==
    ASSUME TypeOK, Saved, SaveSettings, ~(key < Hdd)
    PROVE  fdd_hdd' = name
<1>1. key = Hdd /\ Hdd \in Nat
  BY Constants DEF TypeOK
<1>2. fdd_hdd' = [fdd_hdd EXCEPT ![Hdd] = name[Hdd]]
  BY <1>1 DEF SaveSettings, SaveKey
<1>3. ASSUME NEW d \in Drives PROVE fdd_hdd'[d] = name[d]
  <2>1. CASE d = Hdd
    BY <1>2, <2>1, Constants DEF TypeOK
  <2>2. CASE d # Hdd
    BY <1>1, <1>2, <2>2, Constants DEF Saved, SaveSettings, TypeOK
  <2> QED
    BY <2>1, <2>2
<1> QED
  BY <1>2, <1>3 DEF TypeOK

(* A save goes through the keys in order and ends with all of them. *)
LEMMA SavedInv == ASSUME TypeOK, Saved, Next PROVE Saved'
<1> USE DEF Saved
<1>1. CASE BootNext
  BY <1>1 DEF BootNext, BootRestorePhy, BootFlagTake, BootHdd, BootFloppies, nvs, ghosts
<1>2. CASE MenuNext
  <2>1. UNCHANGED <<fdd_hdd, left, torn>> /\ (at' = "save" => key' = 0)
    BY <1>2 DEF MenuNext, MenuOpen, MenuClose, EjectHdd, ChooseSd, EjectFloppy, MountLive, ApplyFloppy, Ejected,
                ApplyHdd, ChooseImageDrive, SaveFor, nvs, ghosts
  <2> QED
    BY <2>1, Constants
<1>3. CASE SaveSettings
  <2>1. fdd_hdd' = [fdd_hdd EXCEPT ![key] = name[key]] /\ name' = name
    BY <1>3 DEF SaveSettings, SaveKey, disks
  <2>2. \A d \in Drives : d < key + 1 => fdd_hdd'[d] = name[d]
    <3> SUFFICES ASSUME NEW d \in Drives, d < key + 1 PROVE fdd_hdd'[d] = name[d]
      OBVIOUS
    <3>1. key \in Drives /\ key \in Nat /\ d \in Nat
      BY Constants DEF TypeOK
    <3>2. CASE d = key
      BY <2>1, <3>1, <3>2 DEF TypeOK
    <3>3. CASE d # key
      <4>1. d < key
        BY <3>1, <3>3
      <4> QED
        BY <1>3, <2>1, <3>3, <4>1 DEF SaveSettings, TypeOK
    <3> QED
      BY <3>2, <3>3
  <2>3. CASE key < Hdd
    BY <1>3, <2>1, <2>2, <2>3 DEF SaveSettings
  <2>4. CASE ~(key < Hdd)
    <3>1. fdd_hdd' = name
      BY <1>3, <2>4, LastKey
    <3>2. \A d \in Drives : left'[d] \in {name[d], Absent}
      BY <1>3, <2>4 DEF SaveSettings
    <3>3. \A d \in Drives : left'[d] \in {fdd_hdd'[d], Absent}
      BY <3>1, <3>2
    <3>4. at' # "save" /\ torn' = FALSE
      BY <1>3, <2>4 DEF SaveSettings, TypeOK, Modes
    <3> QED
      BY <3>3, <3>4
  <2> QED
    BY <2>3, <2>4
<1>4. CASE Request \/ Restart
  BY <1>4 DEF Request, Restart, StartAgain, nvs, ghosts
<1>5. CASE UsbNext
  BY <1>5 DEF UsbNext, UsbBuffers, UsbOpen, UsbNothing, TakePhy, StartStack, StackFails, Poll, NoHost,
              StartAgain, nvs, ghosts
<1>6. CASE TwentyFiveSeconds \/ HostNext
  BY <1>6 DEF TwentyFiveSeconds, HostNext, HostMounts, HostRewrites, Escape, DeviceUp, StartAgain,
              nvs, ghosts
<1>7. CASE Reset \/ PowerCut
  BY <1>7 DEF Reset, PowerCut, StartAgain, nvs, ghosts
<1> QED
  BY <1>1, <1>2, <1>3, <1>4, <1>5, <1>6, <1>7 DEF Next, SaveNext

(* The boot makes of the key what it is; a run goes on from a boot or from *)
(* a save. *)
LEMMA HddDriveInv == ASSUME TypeOK, Saved, HddDrive, Next PROVE HddDrive'
<1> USE Constants DEF HddDrive
<1>1. CASE BootRestorePhy \/ BootFlagTake
  BY <1>1 DEF BootRestorePhy, BootFlagTake, EraseFlag
<1>2. CASE BootHdd
  <2>1. name'[Hdd] = IF Exists(fdd_hdd[Hdd]) THEN fdd_hdd[Hdd]
                     ELSE IF FirstRun /\ Exists(DefaultHdd) THEN DefaultHdd ELSE Empty
    BY <1>2 DEF BootHdd, TypeOK
  <2>2. ~Exists(Empty) /\ (fdd_hdd[Hdd] = Empty => ~FirstRun)
    BY DEF Exists, FirstRun, have_nvs_disks
  <2>3. UNCHANGED <<fdd_hdd, card, files>>
    BY <1>2 DEF BootHdd, nvs, world
  <2> QED
    BY <1>2, <2>1, <2>2, <2>3 DEF BootHdd, Exists
<1>3. CASE BootFloppies
  <2>1. name'[Hdd] = name[Hdd]
    <3>1. Hdd \notin live' /\ Hdd \notin Floppies
      BY <1>3 DEF BootFloppies
    <3> QED
      BY <1>3, <3>1 DEF BootFloppies
  <2> QED
    BY <1>3, <2>1 DEF BootFloppies, nvs
<1>4. CASE MenuNext
  BY <1>4 DEF MenuNext, MenuOpen, MenuClose, EjectHdd, ChooseSd, EjectFloppy, MountLive, ApplyFloppy, Ejected,
              ApplyHdd, ChooseImageDrive, SaveFor
<1>5. CASE SaveSettings
  <2>1. CASE key < Hdd
    BY <1>5, <2>1 DEF SaveSettings
  <2>2. CASE ~(key < Hdd)
    <3>1. key = Hdd
      BY <2>2 DEF TypeOK
    <3>2. fdd_hdd'[Hdd] = name'[Hdd]
      BY <1>5, <3>1 DEF SaveSettings, SaveKey, disks, TypeOK
    <3> QED
      BY <1>5, <2>2, <3>2 DEF SaveSettings, TypeOK, Modes
  <2> QED
    BY <2>1, <2>2
<1>6. CASE Request \/ Restart
  BY <1>6 DEF Request, Restart, StartAgain
<1>7. CASE UsbNext
  BY <1>7 DEF UsbNext, UsbBuffers, UsbOpen, UsbNothing, TakePhy, StartStack, StackFails, Poll, NoHost,
              StartAgain
<1>8. CASE TwentyFiveSeconds \/ HostNext
  BY <1>8 DEF TwentyFiveSeconds, HostNext, HostMounts, HostRewrites, Escape, DeviceUp, StartAgain
<1>9. CASE Reset \/ PowerCut
  BY <1>9 DEF Reset, PowerCut, StartAgain
<1> QED
  BY <1>1, <1>2, <1>3, <1>4, <1>5, <1>6, <1>7, <1>8, <1>9 DEF Next, BootNext, SaveNext

(* The boot takes the mode from the flag, and opens nothing before its     *)
(* buffers are there. *)
LEMMA OpeningInv == ASSUME TypeOK, Opening, Chosen, Next PROVE Opening'
<1> USE DEF Opening, InUsb, UsbStages
<1>1. CASE BootRestorePhy \/ BootHdd \/ BootFloppies
  BY <1>1 DEF BootRestorePhy, BootHdd, BootFloppies
<1>2. CASE BootFlagTake
  BY <1>2 DEF BootFlagTake, Chosen, TypeOK, Modes, usb
<1>3. CASE MenuNext
  BY <1>3 DEF MenuNext, MenuOpen, MenuClose, EjectHdd, ChooseSd, EjectFloppy, MountLive, ApplyFloppy, Ejected,
              ApplyHdd, ChooseImageDrive, SaveFor
<1>4. CASE SaveNext
  BY <1>4 DEF SaveNext, SaveSettings, Request, Restart, StartAgain, TypeOK, Modes
<1>5. CASE UsbNext
  BY <1>5 DEF UsbNext, UsbBuffers, UsbOpen, UsbNothing, TakePhy, StartStack, StackFails, Poll, NoHost,
              StartAgain, disks, menu
<1>6. CASE TwentyFiveSeconds \/ HostNext
  BY <1>6 DEF TwentyFiveSeconds, HostNext, HostMounts, HostRewrites, Escape, DeviceUp, StartAgain,
              disks, menu
<1>7. CASE Reset \/ PowerCut
  BY <1>7 DEF Reset, PowerCut, StartAgain
<1> QED
  BY <1>1, <1>2, <1>3, <1>4, <1>5, <1>6, <1>7 DEF Next, BootNext

(* The drive chosen, and the image in it, change in the menu only; the     *)
(* disk set, in the menu and at boot.                                      *)
LEMMA ChosenInv == ASSUME TypeOK, Flag, Saved, Opening, Chosen, Next PROVE Chosen'
<1> USE DEF Chosen, InUsb, UsbStages
<1>1. CASE BootRestorePhy \/ BootHdd \/ BootFloppies
  BY <1>1 DEF BootRestorePhy, BootHdd, BootFloppies, menu, usb, nvs, ghosts
<1>2. CASE BootFlagTake
  BY <1>2 DEF BootFlagTake, EraseFlag, usb
<1>3. CASE MenuNext
  <2>1. usbmsc = "none" /\ served = Empty
    BY <1>3 DEF MenuNext, MenuOpen, MenuClose, EjectHdd, ChooseSd, EjectFloppy, MountLive, ApplyFloppy, Ejected,
                ApplyHdd, ChooseImageDrive, Flag
  <2>2. at' \in {"menu", "save"} /\ usbmsc' = usbmsc /\ served' = served
    BY <1>3 DEF MenuNext, MenuOpen, MenuClose, EjectHdd, ChooseSd, EjectFloppy, MountLive, ApplyFloppy, Ejected,
                ApplyHdd, ChooseImageDrive, SaveFor, usb, nvs
  <2>3. at' = "save" /\ job' = "image" => name'[usbimgdrv'] = picked'
    BY <1>3 DEF MenuNext, MenuOpen, MenuClose, EjectHdd, ChooseSd, EjectFloppy, MountLive, ApplyFloppy, Ejected,
                ApplyHdd, ChooseImageDrive, SaveFor, disks
  <2> QED
    BY <2>1, <2>2, <2>3
<1>4. CASE SaveSettings
  <2>1. UNCHANGED <<name, job, served, usbmsc, usbimgdrv, picked>> /\ usbmsc = "none"
    BY <1>4 DEF SaveSettings, disks, usb, Flag
  <2>2. CASE key < Hdd
    BY <1>4, <2>1, <2>2 DEF SaveSettings
  <2>3. CASE ~(key < Hdd)
    <3>1. fdd_hdd' = name
      BY <1>4, <2>3, LastKey
    <3> QED
      BY <1>4, <2>1, <2>3, <3>1 DEF SaveSettings
  <2> QED
    BY <2>2, <2>3
<1>5. CASE Request
  BY <1>5 DEF Request, disks, usb
<1>6. CASE UsbBuffers \/ TakePhy \/ StartStack
  <2>1. UNCHANGED <<name, job, served, fdd_hdd, usbmsc, usbimgdrv, picked>>
    BY <1>6 DEF UsbBuffers, TakePhy, StartStack, disks, menu, usb, nvs, ghosts
  <2>2. InUsb /\ at' \in UsbStages \cup {"halt"} /\ (at' = "halt" => at = "buffers")
    BY <1>6 DEF UsbBuffers, TakePhy, StartStack
  <2>3. at = "buffers" => served = Empty
    BY DEF Opening
  <2> QED
    BY <2>1, <2>2, <2>3
<1>7. CASE UsbOpen
  <2>1. UNCHANGED <<name, job, fdd_hdd, usbmsc, usbimgdrv, picked>>
    BY <1>7 DEF UsbOpen, disks, menu, nvs, ghosts
  <2>2. InUsb /\ at' \in UsbStages /\ (served' = served \/ (job # "sd" /\ served' = fdd_hdd[usbimgdrv]))
    BY <1>7 DEF UsbOpen
  <2>3. job # "sd" => job = "image"
    BY <1>7 DEF Opening, UsbOpen, Modes
  <2> QED
    BY <2>1, <2>2, <2>3
<1>8. CASE Poll \/ TwentyFiveSeconds
  BY <1>8 DEF Poll, TwentyFiveSeconds, disks, menu, nvs, ghosts
<1>9. CASE HostMounts \/ HostRewrites
  BY <1>9 DEF HostMounts, HostRewrites, DeviceUp, disks, menu, usb, nvs, ghosts
<1>10. CASE StartAgain
  BY <1>10 DEF StartAgain, nvs, ghosts
<1> QED
  BY <1>1, <1>2, <1>3, <1>4, <1>5, <1>6, <1>7, <1>8, <1>9, <1>10
     DEF Next, BootNext, SaveNext, UsbNext, HostNext, Restart, UsbNothing, StackFails, NoHost, Escape,
         Reset, PowerCut

-----------------------------------------------------------------------------
(* What the last run left, the PHY mapping and NVS hold in every state,    *)
(* wherever the board was cut off. *)
THEOREM Invariance == Spec => []IInv
<1>1. IInv /\ [Next]_vars => IInv'
  <2> SUFFICES ASSUME IInv, [Next]_vars PROVE IInv'
    OBVIOUS
  <2>1. CASE Next
    BY <2>1, TypeInv, ArmedInv, SocketInv, FlagInv, SavedInv, HddDriveInv, OpeningInv, ChosenInv DEF IInv
  <2>2. CASE UNCHANGED vars
    <3> USE <2>2 DEF vars, disks, menu, usb, nvs, world, ghosts
    <3>1. TypeOK'
      BY DEF IInv, TypeOK
    <3>2. Armed' /\ Socket' /\ Flag' /\ Saved'
      BY DEF IInv, Armed, Socket, Flag, Saved
    <3>3. HddDrive' /\ Opening' /\ Chosen'
      BY DEF IInv, HddDrive, Opening, Chosen, Exists, InUsb
    <3> QED
      BY <3>1, <3>2, <3>3 DEF IInv
  <2> QED
    BY <2>1, <2>2
<1> QED
  BY <1>1, InitInv, PTL DEF Spec

(* usb_msc.cpp: whoever uses the socket has it, after any resets.          *)
THEOREM SocketBelongs == Spec => []SocketFollowsMode
<1>1. IInv => SocketFollowsMode
  BY DEF IInv, Socket, SocketFollowsMode, DeviceUp
<1> QED
  BY <1>1, Invariance, PTL

(* main.cpp: the first run's default does not undo an eject.               *)
THEOREM EjectHolds == Spec => []HddStaysEjected
<1>1. IInv => HddStaysEjected
  BY DEF IInv, HddDrive, HddStaysEjected
<1> QED
  BY <1>1, Invariance, PTL

(* usb_image.cpp: the host is given the image the user chose.              *)
THEOREM HostGetsTheChosen == Spec => []ImageIsTheChosen
<1>1. IInv => ImageIsTheChosen
  BY DEF IInv, Chosen, ImageIsTheChosen
<1> QED
  BY <1>1, Invariance, PTL

(* BOARD.md: a USB Mode is entered once for each request, however resets   *)
(* and power cuts fall.                                                    *)
THEOREM OneShot == Spec => UsbModeIsOneShot
<1>1. IInv /\ [Next]_vars => [~InUsb /\ InUsb' => asked /\ ~asked']_vars
  <2> SUFFICES ASSUME IInv, Next, ~InUsb, InUsb' PROVE asked /\ ~asked'
    OBVIOUS
  <2>1. BootFlagTake /\ usbmsc # "none"
    BY DEF Next, BootNext, MenuNext, SaveNext, UsbNext, HostNext, InUsb, UsbStages, DeviceUp, IInv, TypeOK,
           BootRestorePhy, BootFlagTake, BootHdd, BootFloppies, MenuOpen, MenuClose, EjectHdd, ChooseSd,
           EjectFloppy, MountLive, ApplyFloppy, ApplyHdd, ChooseImageDrive, SaveFor, SaveSettings, Request,
           Restart, StartAgain, UsbBuffers, UsbOpen, UsbNothing, TakePhy, StartStack, StackFails, Poll,
           NoHost, TwentyFiveSeconds, HostMounts, HostRewrites, Escape, Reset, PowerCut, Modes
  <2> QED
    BY <2>1 DEF BootFlagTake, IInv, Flag
<1> QED
  BY <1>1, Invariance, PTL DEF Spec, UsbModeIsOneShot

(* A boot puts back into every drive what was in it at the last save that  *)
(* was not cut short (save_settings, emu_task).                            *)
THEOREM MountsRestored == Spec => RestoresMounts
<1>1. IInv /\ [Next]_vars
        => [BootFloppies /\ ~torn => \A d \in Drives : Restorable(d) => Inside(d)' = left[d]]_vars
  <2> SUFFICES ASSUME IInv, BootFloppies, ~torn, NEW d \in Drives, Restorable(d)
               PROVE  Inside(d)' = left[d]
    OBVIOUS
  <2> USE Constants
  <2>1. fdd_hdd[d] = left[d]
    BY DEF IInv, Saved, Restorable, Exists
  <2>2. CASE d = Hdd
    <3>1. name'[Hdd] = name[Hdd]
      BY DEF BootFloppies
    <3>2. name[Hdd] = fdd_hdd[Hdd]
      BY <2>1, <2>2 DEF Restorable, IInv, HddDrive, BootFloppies
    <3>3. Hdd \notin bare'
      BY DEF BootFloppies
    <3> QED
      BY <2>1, <2>2, <3>1, <3>2, <3>3 DEF Inside
  <2>3. CASE d # Hdd
    <3>1. d \in Floppies /\ fdd_hdd[d] # Mark /\ d \notin live'
      BY <2>1, <2>3 DEF Restorable, Exists, BootFloppies
    <3>2. name'[d] = IF Exists(fdd_hdd[d]) /\ files[fdd_hdd[d]] = "good" THEN fdd_hdd[d] ELSE Empty
      BY <2>3, <3>1 DEF BootFloppies
    <3>3. name'[d] = left[d]
      BY <2>1, <2>3, <3>2 DEF Restorable, Exists
    <3> QED
      BY <3>3 DEF Inside, BootFloppies
  <2> QED
    BY <2>2, <2>3
<1> QED
  BY <1>1, Invariance, PTL DEF Spec, RestoresMounts

-----------------------------------------------------------------------------
(* Reading b was taken n ticks before reading a.                           *)
Past(a, b, n) == a = b + n \/ a = b + n - Wrap

(* The last write is quiet ticks old.                                      *)
WriteAge == s_count > 0 => Past(clock, s_last_write_ms, quiet)

(* What the loop has read is as old as the time it was preempted for.      *)
ReadAge ==
    /\ loop = "sleep" => sleep <= PollDelay
    /\ loop = "test" => sleep <= Preempt /\ Past(clock, now, Preempt - sleep)

(* How long the host can have been quiet, by where the loop stands.        *)
LoopLate ==
    s_count > 0 =>
        /\ loop = "sleep" => quiet <= FLUSH_IDLE_MS + Preempt + (PollDelay - sleep)
        /\ loop = "poll" => quiet <= FLUSH_IDLE_MS + Preempt + PollDelay
        /\ loop = "test" => quiet <= FLUSH_IDLE_MS + Preempt + PollDelay + (Preempt - sleep)

TimerInv == TimerTypeOK /\ WriteAge /\ ReadAge /\ LoopLate

-----------------------------------------------------------------------------
(* The constants, as the arithmetic below needs them. *)
LEMMA TimerConstants ==
    /\ PollDelay \in Nat /\ CacheSectors \in Nat /\ Wrap \in Nat /\ FLUSH_IDLE_MS \in Nat
    /\ Preempt \in Nat /\ MaxAge \in Nat /\ CacheSectors > 0 /\ PollDelay > 0
    /\ FLUSH_IDLE_MS + PollDelay + 2 * Preempt < Wrap
    /\ FLUSH_IDLE_MS + PollDelay + 2 * Preempt < MaxAge
BY TimerAssumption DEF Lag

(* The unsigned subtraction gives the age of a write that was there when *)
(* the clock was read; for a younger one it gives anything. *)
LEMMA Subtraction ==
    ASSUME TimerInv, loop = "test", s_count > 0, ~(IdleFor > FLUSH_IDLE_MS)
    PROVE  quiet <= FLUSH_IDLE_MS + Preempt
<1> USE TimerConstants DEF TimerInv, TimerTypeOK
<1>1. Past(clock, s_last_write_ms, quiet)
  BY DEF WriteAge
<1>2. sleep \in 0..Preempt /\ Past(clock, now, Preempt - sleep)
  BY DEF ReadAge
<1>3. quiet <= FLUSH_IDLE_MS + Preempt + PollDelay + (Preempt - sleep)
  BY DEF LoopLate
<1>4. CASE quiet < Preempt - sleep
  BY <1>2, <1>4
<1>5. CASE quiet >= Preempt - sleep
  <2>1. IdleFor = quiet - (Preempt - sleep)
    BY <1>1, <1>2, <1>3, <1>5 DEF Past, IdleFor
  <2> QED
    BY <2>1, <1>2
<1> QED
  BY <1>2, <1>4, <1>5

(* The bound is the largest of the three. *)
LEMMA Bounded == TimerInv => QuietLossBounded
BY TimerConstants DEF TimerInv, TimerTypeOK, ReadAge, LoopLate, QuietLossBounded, Lag

(* Nothing is collected yet. *)
LEMMA TimerInitInv == TimerInit => TimerInv
BY TimerConstants DEF TimerInit, TimerInv, TimerTypeOK, WriteAge, ReadAge, LoopLate

-----------------------------------------------------------------------------
(* A tick moves the clock, the sleep and the age together. *)
LEMMA TickInv == ASSUME TimerInv, Tick PROVE TimerInv'
<1> USE TimerConstants
<1>1. TimerTypeOK'
  BY DEF TimerInv, TimerTypeOK, Tick, Older
<1>2. WriteAge'
  <2>1. s_count > 0 => quiet' = quiet + 1
    BY Bounded DEF TimerInv, TimerTypeOK, Tick, Older, QuietLossBounded, Lag
  <2>2. s_count > 0 => quiet + 1 < Wrap
    BY Bounded DEF TimerInv, TimerTypeOK, Tick, QuietLossBounded, LoopLate, ReadAge
  <2>3. clock' = IF clock + 1 = Wrap THEN 0 ELSE clock + 1
    BY DEF Tick
  <2>4. UNCHANGED <<s_count, s_last_write_ms>>
    BY DEF Tick
  <2> QED
    BY <2>1, <2>2, <2>3, <2>4 DEF TimerInv, TimerTypeOK, WriteAge, Past
<1>3. ReadAge'
  BY DEF TimerInv, TimerTypeOK, ReadAge, Past, Tick
<1>4. LoopLate'
  BY DEF TimerInv, TimerTypeOK, LoopLate, Tick, Older
<1> QED
  BY <1>1, <1>2, <1>3, <1>4 DEF TimerInv

(* A write is as old as nothing. *)
LEMMA HostWriteInv == ASSUME TimerInv, HostWrite PROVE TimerInv'
BY TimerConstants DEF TimerInv, TimerTypeOK, WriteAge, ReadAge, LoopLate, Past, HostWrite

(* An empty buffer bounds nothing. *)
LEMMA HostSettleInv == ASSUME TimerInv, HostSettle PROVE TimerInv'
BY TimerConstants DEF TimerInv, TimerTypeOK, WriteAge, ReadAge, LoopLate, Past, HostSettle

(* The loop wakes with its sleep used up. *)
LEMMA WakeInv == ASSUME TimerInv, Wake PROVE TimerInv'
BY TimerConstants DEF TimerInv, TimerTypeOK, WriteAge, ReadAge, LoopLate, Past, Wake

(* The reading is new. *)
LEMMA ReadClockInv == ASSUME TimerInv, ReadClock PROVE TimerInv'
<1> USE TimerConstants DEF TimerInv, TimerTypeOK, ReadClock
<1>1. CASE s_count > 0
  BY <1>1 DEF WriteAge, ReadAge, LoopLate, Past
<1>2. CASE ~(s_count > 0)
  BY <1>2 DEF WriteAge, ReadAge, LoopLate, Past
<1> QED
  BY <1>1, <1>2

(* A test that does not flush has seen a host quiet for no longer than *)
(* FLUSH_IDLE_MS. *)
LEMMA TestInv == ASSUME TimerInv, Test PROVE TimerInv'
<1> USE TimerConstants DEF TimerInv, TimerTypeOK, Test
<1>1. CASE IdleFor > FLUSH_IDLE_MS
  BY <1>1 DEF WriteAge, ReadAge, LoopLate
<1>2. CASE ~(IdleFor > FLUSH_IDLE_MS)
  <2>1. s_count > 0 => quiet <= FLUSH_IDLE_MS + Preempt
    BY <1>2, Subtraction
  <2> QED
    BY <1>2, <2>1 DEF WriteAge, ReadAge, LoopLate, Past
<1> QED
  BY <1>1, <1>2

-----------------------------------------------------------------------------
(* The types, the ages and the bound hold in every state. *)
THEOREM TimerInvariance == TimerSpec => []TimerInv
<1>1. TimerInv /\ [TimerNext]_timerVars => TimerInv'
  <2> SUFFICES ASSUME TimerInv, [TimerNext]_timerVars PROVE TimerInv'
    OBVIOUS
  <2>1. CASE UNCHANGED timerVars
    BY <2>1 DEF timerVars, TimerInv, TimerTypeOK, WriteAge, ReadAge, LoopLate, Past
  <2> QED
    BY <2>1, TickInv, HostWriteInv, HostSettleInv, WakeInv, ReadClockInv, TestInv DEF TimerNext
<1> QED
  BY <1>1, TimerInitInv, PTL DEF TimerSpec

(* usb_msc.cpp: the idle flush leaves no sector in the buffer of a host    *)
(* quiet for FLUSH_IDLE_MS and the loop's lag, whatever the width of the   *)
(* millisecond counter and wherever it wraps.                              *)
THEOREM QuietLoss == TimerSpec => []QuietLossBounded
BY TimerInvariance, Bounded, PTL
=============================================================================
