------------------------------ MODULE BootModes ------------------------------
(***************************************************************************)
(* What survives a restart and what each boot makes of it: app_main() and  *)
(* the disk set in src/main/main.cpp, the disk menu's rows that mount,     *)
(* save and restart (menu_disk.cpp), and the two USB Modes, from the flag  *)
(* in NVS to the restart that ends them (usb_msc.cpp, usb_image.cpp).      *)
(*                                                                         *)
(* Reset and power cuts come between any two steps.  A key set in NVS is   *)
(* taken to be there from then on, committed or not.                       *)
(***************************************************************************)
EXTENDS Naturals

CONSTANTS NFloppy,     \* floppy drives; the last drive is the HDD
          FloppyImages, HddImages,
          DefaultHdd,  \* "/HDD.NHD"
          Empty,       \* the empty name
          Mark,        \* GW_LIVE_MARK
          Absent,      \* a key that NVS does not have
          MaxCuts      \* bound: resets and power cuts

Images == FloppyImages \cup HddImages
Floppies == 0..(NFloppy - 1)
Hdd == NFloppy
Drives == 0..NFloppy

ASSUME BootAssumption ==
    /\ NFloppy \in Nat \ {0} /\ MaxCuts \in Nat
    /\ DefaultHdd \in HddImages /\ FloppyImages \cap HddImages = {}
    /\ Images \cap {Empty, Mark, Absent} = {} /\ Absent \notin {Empty, Mark} /\ Empty # Mark

VARIABLES
    at,           \* where the board stands
    name,         \* np2cfg.fddfile[], np2cfg.sasihdd[0]
    live,         \* floppy drives with a live drive mounted
    bare,         \* floppy drives with nothing in them, whatever they are named
    job, key,     \* what save_settings() is called for, and the key it sets next
    served,       \* the image a USB Mode opened
    mounted, ever_mounted, late,   \* tud_mounted(), and 25 s have gone by
    fdd_hdd, usbmsc, usbimgdrv,    \* the keys of NVS
    phy,          \* who has the PHY of the USB-C socket
    card, files,  \* the card is in; each image: "none", "good" or "bad"
    cuts,         \* bound
    asked,        \* ghost: a USB Mode was asked for, and has not come
    picked,       \* ghost: the image the menu showed for the drive chosen
    left, torn    \* ghosts: the disks in the drives at the last save, Absent
                  \* where the name was not the disk's; a save was cut short

nvs == <<fdd_hdd, usbmsc, usbimgdrv>>
usb == <<served, mounted, ever_mounted, late>>
disks == <<name, live, bare>>
menu == <<job, key>>
world == <<card, files, cuts>>
ghosts == <<asked, picked, left, torn>>
vars == <<at, disks, menu, usb, nvs, phy, world, ghosts>>

Modes == {"sd", "image"}
UsbStages == {"buffers", "open", "nothing", "phy", "stack", "loop", "late"}
InUsb == at \in UsbStages
DeviceUp == at \in {"loop", "late"}

TypeOK ==
    /\ at \in {"reset", "flag", "hdd", "floppies", "run", "menu", "save", "arm", "restart", "halt"}
                 \cup UsbStages
    /\ name \in [Drives -> Images \cup {Empty, Mark}] /\ live \subseteq Floppies
    /\ bare \subseteq Floppies
    /\ job \in {"run", "restart"} \cup Modes /\ key \in Drives
    /\ served \in Images \cup {Empty} /\ {mounted, ever_mounted, late} \subseteq BOOLEAN
    /\ fdd_hdd \in [Drives -> Images \cup {Empty, Mark, Absent}]
    /\ usbmsc \in {"none"} \cup Modes /\ usbimgdrv \in Drives
    /\ phy \in {"console", "device"} /\ card \in BOOLEAN
    /\ files \in [Images -> {"none", "good", "bad"}] /\ cuts \in 0..MaxCuts
    /\ asked \in BOOLEAN /\ torn \in BOOLEAN /\ picked \in Images \cup {Empty, Mark}
    /\ left \in [Drives -> Images \cup {Empty, Mark, Absent}]

AllDrives(n) == [d \in Drives |-> n]

(* A board out of its box, with any card.                                  *)
Init ==
    /\ at = "reset" /\ name = AllDrives(Empty) /\ live = {} /\ bare = Floppies
    /\ job = "run" /\ key = 0
    /\ served = Empty /\ mounted = FALSE /\ ever_mounted = FALSE /\ late = FALSE
    /\ fdd_hdd = AllDrives(Absent) /\ usbmsc = "none" /\ usbimgdrv = Hdd
    /\ phy = "console" /\ card \in BOOLEAN /\ files \in [Images -> {"none", "good", "bad"}]
    /\ cuts = 0 /\ asked = FALSE /\ picked = Empty /\ left = AllDrives(Absent) /\ torn = FALSE

Exists(n) == card /\ n \in Images /\ files[n] # "none"

-----------------------------------------------------------------------------
(* Every way to start again loses the RAM; only a power cut puts the PHY   *)
(* mapping back.                                                           *)
StartAgain ==
    /\ at' = "reset"
    /\ name' = AllDrives(Empty) /\ live' = {} /\ bare' = Floppies /\ job' = "run" /\ key' = 0
    /\ served' = Empty /\ mounted' = FALSE /\ ever_mounted' = FALSE /\ late' = FALSE
    /\ UNCHANGED <<nvs, ghosts>>

(* Faulty: the mapping is left as the last run had it.                     *)
KeepPhyMap == phy' = phy

RestorePhyMap == phy' = "console"

BootRestorePhy ==
    /\ at = "reset" /\ at' = "flag"
    /\ RestorePhyMap
    /\ UNCHANGED <<disks, menu, usb, nvs, world, ghosts>>

(* Faulty: the flag is for the way out of USB Mode to clear.               *)
ReadFlag == UNCHANGED usbmsc

(* usb_msc_boot_flag_take(): the flag is erased as it is read.             *)
EraseFlag == usbmsc' = "none"

BootFlagTake ==
    /\ at = "flag"
    /\ IF usbmsc = "none"
       THEN at' = "hdd" /\ UNCHANGED <<job, asked>>
       ELSE at' = "buffers" /\ job' = usbmsc /\ asked' = FALSE
    /\ EraseFlag
    /\ UNCHANGED <<disks, key, usb, fdd_hdd, usbimgdrv, phy, world, picked, left, torn>>

have_nvs_disks == \E d \in Drives : fdd_hdd[d] # Absent

(* Faulty: the default disk wherever no HDD is saved.                      *)
FirstRunIfEmpty == fdd_hdd[Hdd] \in {Absent, Empty}

FirstRun == ~have_nvs_disks

(* sd_mount(), the saved names, and the HDD.                               *)
BootHdd ==
    /\ at = "hdd" /\ at' = "floppies"
    /\ name' = [name EXCEPT ![Hdd] =
                  CASE Exists(fdd_hdd[Hdd]) -> fdd_hdd[Hdd]
                    [] ~Exists(fdd_hdd[Hdd]) /\ FirstRun /\ Exists(DefaultHdd) -> DefaultHdd
                    [] OTHER -> Empty]
    /\ UNCHANGED <<live, bare, menu, usb, nvs, phy, world, ghosts>>

(* The floppies, after pccore_reset(): a live drive may not be there, and  *)
(* an image that fdd_set() refuses leaves no name.                         *)
BootFloppies ==
    /\ at = "floppies" /\ at' = "run"
    /\ live' \in SUBSET {d \in Floppies : fdd_hdd[d] = Mark}
    /\ name' = [d \in Drives |->
                  CASE d \in live' -> Mark
                    [] d \in Floppies /\ Exists(fdd_hdd[d]) /\ files[fdd_hdd[d]] = "good" -> fdd_hdd[d]
                    [] d = Hdd -> name[Hdd]
                    [] OTHER -> Empty]
    /\ bare' = {d \in Floppies : name'[d] = Empty}
    /\ UNCHANGED <<menu, usb, nvs, phy, world, ghosts>>

-----------------------------------------------------------------------------
(* The disk menu.                                                          *)
MenuOpen ==
    /\ at = "run" /\ at' = "menu"
    /\ UNCHANGED <<disks, menu, usb, nvs, phy, world, ghosts>>

(* forget(), which ejects a live drive, clears its mark; the name of an    *)
(* image outlives the image.                                               *)
Ejected(d) == IF name[d] = Mark THEN [name EXCEPT ![d] = Empty] ELSE name

(* apply_image() on a floppy: what was in the drive is ejected; an image   *)
(* that fdd_set() refuses leaves the name of the one before.               *)
ApplyFloppy(d, n) ==
    /\ at = "menu" /\ Exists(n)
    /\ live' = live \ {d}
    /\ IF files[n] = "good"
       THEN name' = [name EXCEPT ![d] = n] /\ bare' = bare \ {d}
       ELSE name' = Ejected(d) /\ bare' = bare \cup {d}
    /\ UNCHANGED <<at, menu, usb, nvs, phy, world, ghosts>>

EjectFloppy(d) ==
    /\ at = "menu"
    /\ live' = live \ {d} /\ name' = [name EXCEPT ![d] = Empty] /\ bare' = bare \cup {d}
    /\ UNCHANGED <<at, menu, usb, nvs, phy, world, ghosts>>

(* mount_live(): one that fails has ejected the drive.                     *)
MountLive(d) ==
    /\ at = "menu"
    /\ \/ live' = live \cup {d} /\ name' = [name EXCEPT ![d] = Mark] /\ bare' = bare \ {d}
       \/ live' = live \ {d} /\ name' = Ejected(d) /\ bare' = bare \cup {d}
    /\ UNCHANGED <<at, menu, usb, nvs, phy, world, ghosts>>

ApplyHdd(n) ==
    /\ at = "menu" /\ Exists(n)
    /\ name' = [name EXCEPT ![Hdd] = n]
    /\ UNCHANGED <<at, live, bare, menu, usb, nvs, phy, world, ghosts>>

SaveFor(what) == at' = "save" /\ key' = 0 /\ job' = what

(* ESC, and the RESET row.                                                 *)
MenuClose ==
    /\ at = "menu"
    /\ \E what \in {"run", "restart"} : SaveFor(what)
    /\ UNCHANGED <<disks, usb, nvs, phy, world, ghosts>>

EjectHdd ==
    /\ at = "menu"
    /\ name' = [name EXCEPT ![Hdd] = Empty]
    /\ SaveFor("restart")
    /\ UNCHANGED <<live, bare, usb, nvs, phy, world, ghosts>>

ChooseSd ==
    /\ at = "menu"
    /\ SaveFor("sd")
    /\ UNCHANGED <<disks, usb, nvs, phy, world, ghosts>>

Usable(d) == name[d] # Empty /\ d \notin live

(* Faulty: the mode is asked for before the disk set is saved.             *)
ChooseImageDriveAndArm(d) ==
    /\ at = "menu" /\ Usable(d)
    /\ usbimgdrv' = d /\ picked' = name[d]
    /\ SaveFor("restart")
    /\ usbmsc' = "image" /\ asked' = TRUE
    /\ UNCHANGED <<disks, usb, fdd_hdd, phy, world, left, torn>>

ChooseImageDrive(d) ==
    /\ at = "menu" /\ Usable(d)
    /\ usbimgdrv' = d /\ picked' = name[d]
    /\ SaveFor("image")
    /\ UNCHANGED <<disks, usb, fdd_hdd, usbmsc, phy, world, asked, left, torn>>

(* Faulty: a drive without a disk keeps the name saved for it.             *)
SaveKeyUnlessEmpty ==
    fdd_hdd' = IF name[key] = Empty THEN fdd_hdd ELSE [fdd_hdd EXCEPT ![key] = name[key]]

SaveKey == fdd_hdd' = [fdd_hdd EXCEPT ![key] = name[key]]

(* A failed mount leaves a drive the name of a disk that is not in it.     *)
Misnamed(d) == d \in bare /\ name[d] # Empty

(* save_settings() sets fdd0, fdd1 and hdd, in this order.                 *)
SaveSettings ==
    /\ at = "save"
    /\ SaveKey
    /\ IF key < Hdd
       THEN key' = key + 1 /\ torn' = TRUE /\ UNCHANGED <<at, left>>
       ELSE /\ at' = IF job \in Modes THEN "arm" ELSE job
            /\ key' = 0 /\ torn' = FALSE
            /\ left' = [d \in Drives |-> IF Misnamed(d) THEN Absent ELSE name[d]]
    /\ UNCHANGED <<disks, job, usb, usbmsc, usbimgdrv, phy, world, asked, picked>>

(* usb_msc_request().                                                      *)
Request ==
    /\ at = "arm" /\ at' = "restart"
    /\ usbmsc' = job /\ asked' = TRUE
    /\ UNCHANGED <<disks, menu, usb, fdd_hdd, usbimgdrv, phy, world, picked, left, torn>>

Restart == at = "restart" /\ StartAgain /\ UNCHANGED <<phy, world>>

-----------------------------------------------------------------------------
(* The USB Modes.                                                          *)
UsbBuffers ==
    /\ at = "buffers" /\ at' \in {"open", "halt"}
    /\ UNCHANGED <<disks, menu, usb, nvs, phy, world, ghosts>>

(* The card, or usb_image_open(): the image saved for the drive chosen,    *)
(* with a volume in it or not.                                             *)
UsbOpen ==
    /\ at = "open"
    /\ \/ /\ IF job = "sd" THEN card /\ UNCHANGED served
                           ELSE Exists(fdd_hdd[usbimgdrv]) /\ served' = fdd_hdd[usbimgdrv]
          /\ at' = "phy"
       \/ (job = "sd" => ~card) /\ at' = "nothing" /\ UNCHANGED served
    /\ UNCHANGED <<disks, menu, mounted, ever_mounted, late, nvs, phy, world, ghosts>>

UsbNothing == at = "nothing" /\ StartAgain /\ UNCHANGED <<phy, world>>

TakePhy ==
    /\ at = "phy" /\ at' = "stack"
    /\ phy' = "device"
    /\ UNCHANGED <<disks, menu, usb, nvs, world, ghosts>>

StartStack ==
    /\ at = "stack" /\ at' = "loop"
    /\ UNCHANGED <<disks, menu, usb, nvs, phy, world, ghosts>>

StackFails == at = "stack" /\ RestorePhyMap /\ StartAgain /\ UNCHANGED world

HostMounts ==
    /\ DeviceUp /\ mounted' = ~mounted
    /\ UNCHANGED <<at, disks, menu, served, ever_mounted, late, nvs, phy, world, ghosts>>

TwentyFiveSeconds ==
    /\ at = "loop" /\ ~late /\ late' = TRUE
    /\ UNCHANGED <<at, disks, menu, served, mounted, ever_mounted, nvs, phy, world, ghosts>>

(* Faulty: a host that has come late is not waited for, nor is any.        *)
GiveUpNever == FALSE

GiveUp == ~mounted /\ ~ever_mounted /\ late

(* The main loop's test.                                                   *)
Poll ==
    /\ at = "loop"
    /\ ever_mounted' = (ever_mounted \/ mounted)
    /\ at' = IF GiveUp THEN "late" ELSE "loop"
    /\ UNCHANGED <<disks, menu, served, mounted, late, nvs, phy, world, ghosts>>

NoHost == at = "late" /\ StartAgain /\ UNCHANGED <<phy, world>>

(* A tap, ESC, or the 1200 baud touch of a host.                           *)
Escape == DeviceUp /\ StartAgain /\ UNCHANGED <<phy, world>>

(* The host makes, deletes and spoils files.                               *)
HostRewrites ==
    /\ DeviceUp /\ mounted
    /\ \E n \in Images, f \in {"none", "good", "bad"} :
          /\ job = "sd" \/ (n = served /\ f # "none")
          /\ files' = [files EXCEPT ![n] = f]
    /\ UNCHANGED <<at, disks, menu, usb, nvs, phy, card, cuts, ghosts>>

-----------------------------------------------------------------------------
(* RESET or a panic.                                                       *)
Reset ==
    /\ cuts < MaxCuts /\ cuts' = cuts + 1
    /\ StartAgain
    /\ UNCHANGED <<phy, card, files>>

(* Without power the card may come out, or go in.                          *)
PowerCut ==
    /\ cuts < MaxCuts /\ cuts' = cuts + 1
    /\ StartAgain
    /\ phy' = "console" /\ card' \in BOOLEAN
    /\ UNCHANGED files

BootNext == BootRestorePhy \/ BootFlagTake \/ BootHdd \/ BootFloppies
MenuNext ==
    \/ MenuOpen \/ MenuClose \/ EjectHdd \/ ChooseSd
    \/ \E d \in Floppies : EjectFloppy(d) \/ MountLive(d) \/ \E n \in FloppyImages : ApplyFloppy(d, n)
    \/ \E n \in HddImages : ApplyHdd(n)
    \/ \E d \in Drives : ChooseImageDrive(d)
SaveNext == SaveSettings \/ Request \/ Restart
UsbNext == UsbBuffers \/ UsbOpen \/ UsbNothing \/ TakePhy \/ StartStack \/ StackFails \/ Poll \/ NoHost
HostNext == HostMounts \/ HostRewrites \/ Escape

Next == BootNext \/ MenuNext \/ SaveNext \/ UsbNext \/ TwentyFiveSeconds \/ HostNext
            \/ Reset \/ PowerCut

(* The boot task runs, and the seconds pass.                               *)
Fairness == WF_vars(BootNext) /\ WF_vars(UsbNext) /\ WF_vars(TwentyFiveSeconds)

Spec == Init /\ [][Next]_vars /\ Fairness

-----------------------------------------------------------------------------
(* BOARD.md: "one-shot by construction".  However resets and power cuts    *)
(* fall between the steps, a USB Mode is entered only if the menu asked    *)
(* for one that has not come yet, and for each request once.               *)
UsbModeIsOneShot == [][~InUsb /\ InUsb' => asked /\ ~asked']_vars

(* The mapping of the PHY survives a reset: the emulator always has its    *)
(* console on the socket, and a device stack always has the socket.        *)
SocketFollowsMode ==
    /\ at \in {"hdd", "floppies", "run", "menu", "save"} => phy = "console"
    /\ DeviceUp => phy = "device"

(* main.cpp: the default disk of the first run does not undo an eject: a   *)
(* machine that runs has no HDD unless one is saved, or none ever was.     *)
HddStaysEjected == (at = "run" /\ fdd_hdd[Hdd] = Empty) => name[Hdd] = Empty

(* After a save that was not cut short a boot puts back into each drive    *)
(* what was in it, nothing where there was nothing, if the card still has  *)
(* the image (save_settings, emu_task).  It is about the disks in the      *)
(* drives: a drive that had been left with the name of a disk that was not *)
(* in it may come back with that disk.                                     *)
Inside(d) == IF d \in bare THEN Empty ELSE name[d]

Restorable(d) ==
    left[d] = Empty \/ (Exists(left[d]) /\ (d = Hdd \/ files[left[d]] = "good"))

RestoresMounts ==
    [][BootFloppies /\ ~torn => \A d \in Drives : Restorable(d) => Inside(d)' = left[d]]_vars

(* usb_image.cpp: the image a host is given is the one the menu showed in  *)
(* the drive the user chose.                                               *)
ImageIsTheChosen == (served # Empty) => (served = picked)

(* A USB Mode no host comes to ends: the board gets back to the emulator,  *)
(* or says that it is out of memory.                                       *)
UsbModeEnds == InUsb ~> (at \in {"run", "halt"} \/ ever_mounted)
==============================================================================
