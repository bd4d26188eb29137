# np2 for the M5Stack Tab5: specifications, model checks and proofs

np2_TAB5 is firmware that turns an M5Stack Tab5 (an ESP32-P4 board with a
microSD slot, two USB ports, a touch panel, Bluetooth through a second chip,
FreeRTOS) into a PC-9801. It is the np2kai emulator
(`src/components/np2kai/np2kai/`, C) driven by about 10,700 lines of C++ of its
own (`src/main/`). This directory holds TLA+ modules translated from that code,
TLC configurations that check them, and TLAPS proofs about ten of them.

Paths in this file are relative to the repository's root, as in `PROJECT.json`,
whose `map` says for each definition which lines it stands for.

- [1. The system](#1-the-system)
- [2. Where it is hard](#2-where-it-is-hard)
- [3. Modules](#3-modules)
- [4. What the runs check](#4-what-the-runs-check)
- [5. What is proved](#5-what-is-proved)
- [6. Where the code and what is said of it part](#6-disagreements)
- [7. What is left out](#7-what-is-left-out)
- [8. Plan](#8-plan)
- [9. Running it](#9-running-it)

## 1. The system

### Two programs in one image

`app_main()` (`src/main/main.cpp`) first looks at a one-shot flag in NVS. If it
is set the board is an **SD card reader** or a **disk image reader** for a PC
until it restarts (`usb_msc.cpp`, `usb_image.cpp`); the emulator never runs
then. Otherwise it mounts the card, restores the disk set from NVS and becomes
the **emulator**. The only way from one to the other is a restart.

### The emulator's loop

One task runs everything the machine is. Each turn of its loop:

1. if a menu key, a menu tap or a request is pending, opens the disk menu, which
   is modal: the machine stands still, the menu pops key events for itself;
2. `gw_live_keepalive()` and `fdd_gw_live_tick()` look after real floppy drives;
3. a change of clock asked for in the menu is applied to the event scheduler;
4. key events are drained from a queue into `keystat.c`;
5. `pccore_exec()` runs one frame of the machine;
6. lamps, sound and pacing.

Beside it run the USB host's tasks and Bluetooth's (both parse keyboard and mouse
reports and push key events), the I2S audio task and the task that blits the
frame to the panel.

### Components

| Component | Sources | State | Operations | Talks to | Correct when | Here |
|---|---|---|---|---|---|---|
| SD card reader cache | `usb_msc.cpp` | two buffers, the run being collected, a job queue, a counting semaphore of free buffers, the mutex, the failure flag | write10, read10, SYNCHRONIZE CACHE, eject, 1200 baud touch, idle flush, escape, the writer's jobs | TinyUSB's callbacks, the card driver, the restart | buffers are never shared, tokens never lost, data reaches the card in order, a settled cache is on the card, every command is answered | modelled, proved |
| Boot, disk set and USB Modes | `main.cpp`, `menu_disk.cpp`, `usb_msc.cpp`, `usb_image.cpp` | NVS keys, the PHY mapping of the USB-C socket, `np2cfg` | the steps of a boot, the menu's mount, eject, save and restart rows, both USB Modes | NVS, the card, the PC | a mode is entered once per request and ends; mounts survive restarts and ejects stay ejected; the host gets the image that was chosen | modelled, proved |
| USB keyboard and mouse | `usb_kbd.cpp` | previous report, the queue `s_kq`, the menu request, mouse counters, the count of mice | a report, a plug, an unplug | the queue, the mouse counters | the machine holds the keys that are reported, and gets the motion | modelled but for mouse buttons and enumeration, proved |
| Bluetooth HID | `bt_hid.cpp` | slot table, previous report, bonds | open, close, input, scan, pair | the same queue | the same; a dropped link leaves nothing held | open, close, input of keyboards and mice modelled, proved |
| Mouse port and touch panel | `io/mouseif.c`, `platform_stubs.cpp`, `touch_mouse.cpp` | the port's counter, what is left of a poll | a poll each frame, latch, reset, a finger that moves | the mouse counters, the guest | motion is counted once, and arrives | modelled but for gestures, proved |
| Disk menu | `menu_disk.cpp` | the page, `g_menu_req` | rows | NVS, the mounts, the queue | takes events; what it saves is restored | its part of KeyPath, GwDisk, BootModes |
| Emulated keyboard | `keystat.c`, `io/serial.c` | key table, repeat list, the port's buffer and register | key down, key up, repeat, transfer, read, command, reset | the event scheduler, the guest | the codes sent tell the truth, none is stranded, only held keys repeat | modelled, proved |
| Event scheduler | `nevent.c`, `pccore.c`, `timemng.c` | sorted list of events, expired queue, slice | set, reset, progress, execute, force exit, change of clock | every device, the CPU | events run in time order once, time neither jumps nor stops | modelled |
| GreaseWeazle link | `gw_mode.cpp` | devices found, receive ring, motor state | open, command, reply, resynchronise, flux, re-arm, rest | the USB host driver | a read takes its own flux, and ends | modelled, proved |
| Live floppy drive | `fdd_gw_live.cpp` | track cache, door | mount, forget, sector read and write, format, tick, door | the link, `fddfile.c`, the menu | the guest gets the disk in the drive, is told of a change and reads back what it wrote | modelled, proved |
| Floppy controller and its DMA channel | `io/fdc.c`, `io/dmac.c`, `mem/dmax86.c`, `fdd/diskdrv.c` | phase, drive, sector, status of each drive, seek timers, TC; the channel's count | the data port, commands, DMA bytes, resets, seek ends, announcements | the guest, the drives, the scheduler | sectors are moved in turn and whole, every cause gets an interrupt, commands end | modelled, proved |
| Image volume | `usb_image.cpp` | the volume found, where its sectors are, bytes shown otherwise than they are, the file | read, write, eject, the escape's flush | TinyUSB's callbacks, the image file | the host is served by a disk, the PC-98's layout survives it | modelled but for the formats' loaders, proved |
| SD and file layer | `sd_tab5.cpp`, `dosio_sd.cpp` | read cache, bounce buffers | file calls | the card | the cache is never stale | planned |
| Audio | `audio_codec.cpp` | the ring | fill, play | I2S | no sample overwritten | planned |
| Panel and blit | `lcd_mipi.cpp`, `panel_tab5.cpp` | the frame handed over, power rails | hand-over, rotate | the blit task | a frame is not drawn over while it is blitted | planned |
| Clock, screenshot | `rtc_tab5.cpp`, `screenshot.cpp` | | | | | not modelled |
| CPU, interrupt and timer chips, image formats, graphics, sound, memory, BIOS | `src/components/np2kai/np2kai/` | the machine | port reads and writes | the scheduler | as the chips | not modelled; what other modules need of them is in those |
| Build, ROM sources, vendored code | scripts, `src/rom_src`, libraries | | | | | not modelled |

`PROJECT.json` has the list in full, with the reason for everything that is not
modelled.

## 2. Where it is hard

The `hazards` of `PROJECT.json` name 40 places, each at its line; they fall in
nine groups.

- **Four tasks and one cache.** The tasks that fill and flush share a mutex; the
  writer takes none. Buffers go round robin and are merely counted, so nothing
  in the code ties the token a task has taken to the buffer it fills.
- **Interrupted protocols.** USB Modes and saved mounts are several NVS keys, and
  a reset or a power cut comes between any two. The PHY mapping lives in the
  always-on domain and outlives the reset that should undo it.
- **Lossy hand-overs.** Key events go through a queue that drops when full and a
  menu that eats them; a lost release is a key that types for ever.
- **Emulated time.** Callbacks set events while others are due, an STI stretches
  a slice, a port write cuts one short, the menu changes the clock. Every device
  of the machine relies on the order that comes of it.
- **A device that answers late.** Greaseweazle replies that come after their
  timeout look like replies to the next command, and flux bytes like replies.
- **A drive without a change line.** A disk changed is noticed only because the
  menu was opened or the motor rested, and the guest must be told.
- **Unlocked sharing** of mouse counters, of the count of mice and of the two
  values the idle flush tests.
- **A disk seen two ways.** A PC writes a volume whose boot sector it is shown
  otherwise than it is in the file, through a library that keeps part of it in
  memory, while a tap may restart the board.
- **One register for several drives.** A door that opens between two frames
  writes into the floppy controller's registers in the middle of a command, and
  resets leave its DMA channel as it is.

## 3. Modules

The abstract specifications are small and say what a component promises; the
detailed ones follow the code.

```
  WriteBehind <== WriteCache  <-- WriteCacheProofs, MCWriteCache
  BlockDevice <== ImageVolume <-- ImageVolumeProofs, MCImageVolume --> FloppyImage
  HidKeys     <-- KeyPath     <-- MCKeyPath
                  KeyPath, MousePath  <-- HidProofs
  Timers      <== NEvent      <-- NEventProofs
                  GwDisk, GwLink      <-- GwProofs
                  Keyboard    <-- KeyboardProofs, MCKeyboard
                  Fdc         <-- FdcProofs, MCFdc
                  BootModes, FlushTimer  <-- UsbModeProofs

  A <== B : B implements A, which TLC checks and a theorem states
  A <-- B : B EXTENDS A
```

### WriteBehind, WriteCache (`usb_msc.cpp`)

`WriteBehind` is a medium and a queue of accepted sector writes. Writes land one
at a time and in order, a power cut loses what is pending and nothing else, only
a card error may drop a write.

`WriteCache` has the four tasks. `pc` says where the tusb, main and escape tasks
stand, `s_mux` who holds the mutex, `s_free_bufs` the counting semaphore,
`s_wr_queue` the job queue and `job`/`landed` what the writer is at. A step is
what a task does between two points where it may wait or where another task's
view matters:

| Action | Code |
|---|---|
| `HostWrite`, `WriteLock`, `WriteTakeBuf`, `WriteCopy`, `WriteDone` | `tud_msc_write10_cb`: the command, the lock and a run that does not fit, the token, one run of sectors copied, the answer |
| `HostSettle`, `BarrierBegin`, `BarrierTake`, `BarrierEnd`, `Unlock` | SYNCHRONIZE CACHE, eject, the touch and read10 down to `barrier_locked()`: submit, take every token, give them back, unlock |
| `MainCheck` | the main loop's idle test; when it holds is `FlushTimer`'s business |
| `Escape` | the escape task on a tap or ESC |
| `WriterReceive`, `WriterSector`, `WriterDone`, `WriterFail` | the writer task; a sector reaches the card at a time, an error stops a job |
| `RestartByTask`, `PowerCut` | `esp_restart()` and the user |

The refinement mapping makes `pending` of the writer's remaining sectors, the
queue and the buffer being filled, in that order, as one sequence flattened.

### FlushTimer (`usb_msc.cpp`, the main loop)

The unlocked test `ms - s_last_write_ms > FLUSH_IDLE_MS` on a counter that
wraps, with a write allowed between its two reads. `HostWrite`, `HostSettle`,
`Wake`, `ReadClock` and `Test` run at instants, `Tick` lets a millisecond pass.
What `WriteCache` does in detail is a single step here.

### HidKeys, KeyPath (`usb_kbd.cpp`, `bt_hid.cpp`, `main.cpp`, `menu_disk.cpp`)

`HidKeys` turns reports into events, for the USB and the Bluetooth transport:
`Report` compares with the transport's previous report, `Act` pushes one change
at a time so that other tasks come in between, `Push` drops on a full queue,
`BtOpen` and `BtClose` are the slots. `KeyPath` adds the emulator: `LoopTop`
opens the menu on request, `MenuKey` pops an event for the menu, `Drain` feeds
one to the machine, `RunFrame` goes round. Two ghosts say where the path is
allowed to be wrong: `lost` (a code whose latest event was dropped or eaten)
and `shared` (a code two keys have held).

### Keyboard (`keystat.c`, `io/serial.c`)

`KeyDown`, `KeyUp`, `KeyRepeat`, `Callback` (the transfer event), `GuestRead`,
`GuestCommand`, `GuestReset`. The state is the key table `ref`, the repeat list
and the port: buffer, replies, register, status, whether the event is armed. The
guest is what it makes of the codes it reads (`Makes`); a press the repeat list
has no room for sends nothing (`NotTaken`). `unsaid` marks keys whose latest
code a full buffer or a full repeat list has thrown away. `MCKeyboard` gives TLC
a VIEW that forgets the register's contents once they have been read, which
nothing looks at any more.

### Timers, NEvent (`nevent.c`, `pccore.c`)

`Timers` is a set of timers with due times: a timer fires once per setting, in
the order of due times, nothing but a protected instruction runs while one is
overdue, and a timer set from its due time keeps its phase. How long an
instruction takes is read off the timer it cannot set (`Cycles`). A change of the
clock (`Rescale`) keeps the timers' order and, since the list and the slice are
rounded apart, may make one that was not due one cycle overdue, not more.

`NEvent` has the sorted list, the clocks counted from the start of the slice,
the expired queue and the flag that tells an event set anew from an expired one.
`Set` and `Reset` are the calls, `SetAt` what a setting does to the list.
`Instruction`, `ShadowInstruction` (after an STI and its like) and `Halt` are the
CPU; `Progress` is `nevent_progress()`; `Screen`, `SysTimer`, `OneShot`,
`Superseded` and `Resume` are the callbacks run from the expired queue, and the
end of it; `StartFrame`, `HostSet`, `ChangeClock` are the host's. The mapping
takes a timer's remaining time to be its clock less what has elapsed of the
slice.

### GwDisk (`fdd_gw_live.cpp`, `gw_mode.cpp`)

One drive. A track in the cache is the disk it was read from, so that a stale
cache is visible. `OpenMenu`, `Mount`, `OtherImage`, `EjectImage`, `CloseMenu`,
`Loop` (keepalive and door), the guest's `GuestRead`, `GuestWrite`, `GuestFind`
(READ ID) and `GuestDiag` (READ DIAGNOSTIC), `FrameEnd`, and the user's `ChangeDisk` and `Unplug`. The guest is reduced to
`believes`, the disk it takes to be in the drive, which it forgets when a frame
ends with the drive not ready, and `wrote`, the tracks it has written since; `own`
are the tracks of the cache that hold what it wrote, which no disk ever gets.

### GwLink (`gw_mode.cpp`)

One connection: the script of commands of a track read, of a status query, of a
re-arm and of the keepalive; `Send`, `TakeReply` (with `rx_resync()`'s skipping),
`ReplyTimeout`, `TakeFlux`, `FluxTimeout`, and the device's `Reply` and `Stream`,
in order but as late as it likes. All of it arrives in one buffer, and bytes of
flux may look like command codes. Ghosts tell what the bytes do not: each byte
carries whether it is flux of the last read begun; `older` counts the commands
from before that read the device is not done with, `behind` what they were when it
began, `refused` that a device that was not behind refused one of the read's, and
`taken` says whose flux was taken. Nothing in the code asks how far behind the
device is. It matters all the same: each older reply can stand for one of the
read's three commands, so that a read that finds the device three behind can be
answered throughout by the past and take another track's flux. `FreshFlux` is
about reads with fewer than that, and the number is exact: with one more in its
premise TLC finds a read that takes another's.

### MousePath (`usb_kbd.cpp`, `bt_hid.cpp`, `platform_stubs.cpp`, `io/mouseif.c`)

The tasks that report motion and count mice, and the emulator's task that polls.
None of them locks: a load and a store are two steps (`ReportLoad`,
`ReportStore`, `AttachLoad`, ...), with what is in between in `doing`. `Plug`,
`Connected`, `Open`, `Unplug`, `BtMouseOpen` and `BtMouseClose` bring mice and take
them away; `SyncBegin`, `SyncLoad` and `SyncClear` are the poll, `GuestRead`, `Latch`
and `Reset` the port. One axis is modelled. `owed` is the motion reported and not
latched; `raced` and `miscount` say that a store has met another, after which
nothing is accounted for.

### BlockDevice, FloppyImage, ImageVolume (`usb_image.cpp`, `usb_msc.cpp`)

`BlockDevice` is what a PC expects of a disk: a write stores its blocks in order,
a failed one stops in the middle, a read returns what is stored. Two things it
has to know: *void* blocks, of tracks that were never formatted or past the end of
a volume that is translated, and *veiled* bytes, which cannot show one of their
values. Of blocks the host asks for that are not its own it promises nothing but
that its own stay as they are.

`FloppyImage` is `open_fd()` as operators: where the sectors of a floppy are in
its file (`Added`, `Find`, `FdMap`), whether the volume can be shown
(`FdUsable`), and which bytes are shown otherwise than they are (`FdPatches`).

`ImageVolume` has the host's `HostRead` and `HostWrite`, one step per `fwrite()`
(`FileWrite`, `FileWriteFails`, `Refuse`), `Eject`, the library that writes out
when it likes (`WriteOut`), and the escape task, which takes no lock
(`EscapeFlush`, `EscapeRestart`); `Touch` is the 1200 baud request. `held` are
the places the card does not have yet. Nothing compares a block number with the
capacity, so the host asks for blocks past it as well (`Asked`); `Refused` and
`WholeRun` are the only tests of them. The mapping reads `disk` off the file
through `BlockOff` and `Shown`: for a floppy or a translated volume every block
that can be asked for, for one shown as it is its own (`Served`).

### Fdc (`io/fdc.c`, `io/dmac.c`, `mem/dmax86.c`, `fdd/diskdrv.c`)

`fdc` has the controller's registers under the code's names (`event`, `cmd`,
`us`, `hd`, `R`, `mt`, `tc`, `stat`, the seek timers `int`), `dma` the channel:
`chan` is "on" while `dmac.working`, "done" when the count has ended and the
channel has not been let go. The guest has `GuestCommand`, `GuestPut` and
`GuestGet` (the data port), `GuestControl` (resets), `GuestProgram` and
`GuestMask` (the channel); the machine `DmaByte` (a byte of a transfer),
`Interrupt`, `Frame` (seek ends) and `Announce` (a door, a mount, an eject, which
set `stat` and `us` between frames). A command is an operator over the registers,
the channel and the ghost `job`: `ReadSector`, `NextSector`, `WriteSector`,
`FormatNext`, `Seek`, `SenseInt` and so on, in the functions of those names;
`Result` is their common end. `job` counts sectors and bytes of a data command;
`heard` are the causes an interrupt was made for.

### BootModes (`main.cpp`, `menu_disk.cpp`, `usb_msc.cpp`, `usb_image.cpp`)

`at` is where the board stands: the steps of a boot (`BootRestorePhy`,
`BootFlagTake`, `BootHdd`, `BootFloppies`), the emulator, the menu's rows
(`ApplyFloppy`, `MountLive`, `ApplyHdd`, `EjectFloppy`, `EjectHdd`, `MenuClose`,
`Request`, `ChooseSd`, `ChooseImageDrive`), a save key by key (`SaveKey`,
`SaveSettings`), and a USB Mode (`UsbBuffers`, `UsbOpen`, `UsbNothing`, `TakePhy`,
`StartStack`, `StackFails`, `Poll`, `GiveUp`, `NoHost`, `Escape`). `Reset` and
`PowerCut` come between any two. NVS keys, the PHY mapping and the card survive.
`name` is what a drive is called, `bare` the drives with nothing in them: a mount
that fails parts the two (`Misnamed`).

## 4. What the runs check

| Run | Properties | Bounds | What it shows |
|---|---|---|---|
| `WriteCache_safety` | `NoBufferRace`, `TokensConserved`, `AcceptedSurvives`, `BarrierSettles`, `TouchStrandsNothing`, `WriteOrderKept` | 3 sectors, 2 buffers of 2, transfers of 2, two values (symmetric) | every interleaving of the four tasks, card errors and power cuts |
| `WriteCache_live` | `HostAnswered`, `QuietHostSettles` | 2 sectors, one value | no task hangs; a quiet host's data reaches the card |
| `FlushTimer_bound` | `QuietLossBounded` | counter of 16, idle 5, poll 2, preemption 1, 4 sectors, ages to 12 | the bound on what an unplug loses |
| `KeyPath_safety` | `MachineFollows` | ESC, F11, SHIFT; queue of 2; two Bluetooth keyboards | the machine holds what is reported |
| `MousePath_poll` | `MotionConserved`, `PresenceCount`, `MotionArrives` | a USB and a Bluetooth mouse and the panel, steps of 1, counters of two bits | motion and presence under every interleaving |
| `Keyboard_safety` | `CodesTellTruth`, `ByteNeverStranded`, `RepeatOnlyHeld` | 3 keys, 2 that repeat, port of 3 codes, repeat list of 1 | what the guest ends up believing |
| `NEvent_frames` | `Implements`, `CyclesCounted`, `FrameEnds` | periods 1 and 3, instructions of 1 and 2 cycles, multiples 1 and 2, frame of 2+1, clock wrapping at 4, one shadow | order, phase, time and the end of a frame |
| `GwDisk_change` | `PickedUp`, `GuestTold`, `WritesKept`, `DoorCloses` | 2 tracks, 2 disks, door of 3 frames, idle hold of 2 | the disk the guest gets, and its own writes |
| `Fdc_guest` | `SectorsInTurn`, `TransferWhole`, `NothingUntold`, `CommandsEnd` | 2 drives, one with a door; 2 sectors a side of 2 bytes; ten commands; a count of 3; seeks of a frame | every order of commands, bytes, resets, doors and interrupts |
| `GwLink_step` | `FreshFlux`, `RefusalSeen`, `ReadEnds` | 2 stale replies skipped, 4 commands unanswered, streams of a byte that may look like SEEK, HEAD or READFLUX | late replies |
| `BootModes_resets` | `SocketFollowsMode`, `HddStaysEjected`, `ImageIsTheChosen`, `UsbModeIsOneShot`, `RestoresMounts`, `UsbModeEnds` | one floppy drive and one image, an HDD and two, 3 cuts | what restarts leave behind |
| `ImageVolume_host` | `LayoutKept`, `EscapeLosesOnlyLate`, `OutsideUntouched`, `Implements` | a file of 8 places that may grow by one; a floppy of 4 tracks, an HDD volume and a plain one, each asked for up to 2 blocks past its end; transfers of up to 3 blocks, bytes of two values, 1 place kept back | reads, writes, failures, the escape, on three layouts |

A module's type invariant is stated in each. It is proved, or part of the
invariant that is.

**Why the bounds are enough.** They are the smallest at which the interesting
cases occur together. Two buffers are the code's own number; a transfer of two
over buffers of two gives a run that fits, one that fills a buffer exactly, and
one that is split, and three sectors give a run that is not contiguous. One
counter period of 16 against a bound of 9 ticks wraps in the middle of a test.
A queue of two fills, a repeat list of one overflows, and a port of three codes is
the smallest that holds what a reset sends again and overflows otherwise. Periods of one and three on either side
of the frame's parts make events meet, come early and come late, and instructions
of two cycles let any of them be served late. Two tracks are the one a mount reads and
another. Four unanswered commands are one more than a read has, and more than
`GW_RESYNC_MAX` lets the host skip, so that reads that begin too far behind occur
beside those that do not. Three cuts are one in the boot, one in the
save and one in the mode between them. A floppy of four tracks of 1024 bytes has
sectors of two blocks, out of order in the file, with headers between them, one
track that is missing and one entry that leaves the file; a transfer of three
blocks crosses from one into the next and past it. Two blocks past the end let a
run begin inside a volume and end outside it; of the plain volume they are one
more block of the file and one that makes it longer. Counters of two bits wrap when
two mice move. Two sectors a side are a first and a last one; a count of 3 over
sectors of 2 ends in the middle of the second, a command that begins with the last
sector ends before the count, and the same count left over is one of 5, which is
more than a track without MT has. The theorems below hold for every value.

**Counters.** Unbounded quantities are bounded in guards, each by a named
constant: `MaxXfer`, `MaxAge`, `MaxShadow`, `MaxStream`, `MaxQueued`, `MaxCuts`,
`MaxBlocks`, `MaxHeld`, `Beyond`; in MousePath each mouse comes once (`UsbMice`, `BtMice`)
and only those of `Moved` move. `Wrap` (`Half` in MousePath) is the width of the counters that wrap in the code.

**Deadlock** is checked everywhere but in `BootModes_resets` (with OUT OF MEMORY
on the screen the program loops for ever, and at the last cut allowed nothing
more happens in the model) and in `ImageVolume_host`, which ends with the restart.

**Fairness**, and why the code justifies it:

| Specification | Fairness | Reason |
|---|---|---|
| `WriteCache` `FairSpec` | weak, of each task's next step, of the idle test when the host is quiet, and of a restart a task has asked for | FreeRTOS runs every task that is ready: none of the four polls without a delay. The host, the user, the card's errors and the power owe nothing. |
| `NEvent` | weak, of `Frame` | `pccore_exec()` is a loop that waits for nothing. |
| `GwDisk` | strong of `Loop`, weak of `FrameEnd` and `CloseMenu` | The emulator's loop goes round; the user closes the menu in the end. Strong, since opening the menu again and again disables `Loop` in between. |
| `GwLink` `LinkFairSpec` | weak, of `Host` | Every wait has a timeout. The device owes nothing. |
| `MousePath` `MouseFairSpec` | weak, of the poll and of each task's next step | FreeRTOS runs tasks that are ready; the emulator polls once a frame, outside the menu. That the guest keeps reading (strong, of `Latch`) is the premise of `MotionArrives`, not an assumption. |
| `Fdc` | weak, of `DmaByte`, `GuestPut` and `GuestGet` | A DMA byte is moved at every instruction while the channel works. A guest that has sent a command gives its parameters and takes its result; resets, doors and masks owe nothing. |
| `BootModes` | weak, of the boot's steps, of the USB Mode's and of the 25 seconds | One task runs them and none of them waits for a host. |

The others are safety runs and have none.

**Mutants.** Every property of a passing run has a mutant in `PROJECT.json`: a
mapped definition in a plausible wrong form (the operators named in `as`, such as
`SubmitToFront`, `WriteTakeAnyBuf`, `BarrierEndEarly`, `WriterFailKeepsToken`,
`BtCloseSilent`, `SetFromNow`, `ForceExitUncounted`, `TakeReplyUnmatched`,
`KeepPhyMap`, `SaveKeyUnlessEmpty`, `RunBackwards`, `TakenAsIs`, `SyncBeginDrops`,
`OtherSideKeepsR`, `DmaByteEarly`), with which TLC finds that property violated.

## 5. What is proved

Forty-two theorems, in eight modules, about eleven of the components: every safety
property a run checks, and the refinements of WriteBehind, BlockDevice and Timers.
Each takes the constants from their named `ASSUME`s only: any card,
any number and size of buffers, any width of counter, any keys and codes, any
number of tracks, sectors, disks, images, drives and mice, any table of an image's
sectors, any periods of events, any length of queue. In brackets is the property of the runs that a
theorem states for all of these; the `TypeCorrect`s and `SubmitFindsRoom` have no
run of their own.

**WriteCacheProofs** - `TypeCorrect`, `TokensKept` (`TokensConserved`),
`SubmitFindsRoom` (`SubmitNeverWaits`), `BuffersApart` (`NoBufferRace`),
`BarrierMeansIt` (`BarrierSettles`), `TouchKeepsAll` (`TouchStrandsNothing`),
`AcceptedKept` (`AcceptedSurvives`), `Implements` (`WriteOrderKept`). That
tokens are counted does not show that buffers are apart: the argument needs where
each buffer is. `Ring` says it: going back from `s_fill`, the buffers one, two,
... steps behind are those in the queue, newest first, then the writer's. With
`TokensConserved` there are fewer of them than there are buffers while one is
being filled, so none is `s_fill` itself. `Mutex` (who is inside), `Fill` (a
filled buffer is not given up, nothing is collected while a barrier drains) and
`InRange` (no address beyond the card) make it inductive.

What the host has written is spread over the buffer being filled, the queue, the
writer's job and the card. Two views of it are proved. Sector by sector: `Latest`
has the youngest run that covers a sector hold what the host wrote there last, and
the card where no run covers it. `WriteCopy`, a submit, a job taken, a sector
written and a job ended each move data from one place to the next and leave that
as it was, which uses `BuffersApart`'s lemma: a copy must not touch a buffer that
another run is in. `Drained` says that a task past the barrier has left nothing in
any of the three places, since it holds all the tokens; then the card is what the
host wrote.

And in order: `PInv` says that the card with all of `Pending` applied, first to
last, is what was accepted. `PendingMoves` puts every step of the program into one
of four forms: `Pending` grows at the end by one command's sectors, loses its
first, loses a failed job's, or stays. Those are `WriteBehind`'s actions, so the
refinement follows. Sequences of any length are reached without induction on data:
that the flattened sequence splits where its parts do, and that the last write to
a sector is the one that shows, are proved of the least index that would be a
counterexample, which well-foundedness of the numbers gives (`WFMin`).

**HidProofs** - `TypeCorrect`, `FollowsAlways` (`MachineFollows`), of keys;
`MouseTypeCorrect`, `MotionKept` (`MotionConserved`), `PresenceCounted`
(`PresenceCount`), of mice. `Down` is
what the machine will hold once it has taken the queue: what the youngest event
of a code says, or the key table if none is queued. It changes only with a push
(`DownAppended`), not when the loop takes an event (`DownDrained`). `Follows` lets
it lag behind the reports by the changes not acted on yet, and `Alone` says a code
has one holder unless it counts as shared: without it the release of one key would
undo another's press. Of the mice, conservation is arithmetic modulo the counters'
width (`WrapUnique`, `WrapSum`: two ways of wrapping a sum agree); it is inductive
once `Polled` says that a poll under way has left nothing of the last. `Counted`
has the count of mice differ from the mice heard by those a task is just counting
in or out, and `Unheard` that a mouse is in one place at a time, so that none is
counted twice.

**KeyboardProofs** - `TypeCorrect`, `TruthInTheEnd` (`CodesTellTruth`),
`NoneStranded` (`ByteNeverStranded`), `OnlyHeldRepeat` (`RepeatOnlyHeld`). The
invariant is the three properties and the types; the work is in what codes on
their way make of a key. The last code of a key decides (`MakesByLast`), codes sent
decide over those before them (`ConcatTells`), and a code moved from the buffer's
head into the register changes nothing of it (`HeadTells`).

**FdcProofs** - `TypeCorrect`, `InTurnAlways` (`SectorsInTurn`), `WholeAlways`
(`TransferWhole`), `ToldAlways` (`NothingUntold`). A command under way keeps two
accounts. `AtTurn`: the registers are at the sector whose turn it is, counted from
where the command began, over the end of a side with MT. `Counting`: the bytes
moved and those the channel has still to count are what the guest asked for,
unless it has masked the channel and goes on by hand; a wrap of the count, the end
of a sector and TC each keep it. Handlers hand controller, channel and job on
within a step, so that both are said of what a handler is given and leaves
(`Fine`), and `Told` that it begins no cause for which no interrupt is armed.

**NEventProofs** - `TypeCorrect`, `CyclesAreCounted` (`CyclesCounted`),
`ImplementsTimers` (`Implements`). What is due at the end of a slice is a beginning
of the list only while the list is in the order of the clocks (`List`), and nothing
is overdue while the CPU runs only if no slice outlives the first event (`Fits`),
an STI's apart: `SetAt` has to keep both, wherever it puts the event. `Stages` says
where FLAMES is, on the list or among the expired, for as long as a frame runs, and
`InTurn` that of the expired those not set anew are in the order of their due times.
Steps are put into two forms: `Changed` (some events set from now, others
cancelled), of instructions, the host and interrupts; `Rearmed` (some set from now,
the one served from its due time), of callbacks. `RunStep` and `ServeStep` take
them to `Timers`' actions. That a callback of an event set anew is a stutter is
`SupersededStep`. The list is closed up by a loop: what it leaves, at any length, is
proved by induction over its steps, from the least one at which it would fail
(`Least`, `Induction`, `ThoseKeep`). A change of the clock is arithmetic of C's
division (`QuotientIs`, `QuotientRises`); `RoundingLoses` is the cycle that
`Rescale` allows.

**GwProofs** - `TypeCorrect`, `GuestGetsTheDisk` (`PickedUp`), `GuestIsTold`
(`GuestTold`), `GuestKeepsWrites` (`WritesKept`). `CacheIsDisk` says a cache with
no reason to be out of date is of the disk in the drive, on every track;
`OnlyMounted`, `NotReady`, `DoorSeen` and `BelievesDisk` join the door to what the
guest knows, and `HasWritten` to what it has written since.

Of the link: `LinkTypeCorrect`, `FluxFresh` (`FreshFlux`), `RefusalKept`
(`RefusalSeen`). `FreshFlux` is an account. `Spent`: each command a read has passed
has cost the device one of those it was behind with, or it has caught up; `Paid`
has the same a step earlier, of a reply that can be taken for this command's, since
the zero in it ended another (that of a READFLUX, which ends none, is not taken for
SEEK's or HEAD's: the one place where the codes' values matter). A device less than
three behind has thus caught up when READFLUX goes out. `OneFlux` says that a read
has sent only one, and `OwnFlux` what the buffer then holds: replies in pairs up to
READFLUX's, so that skipping two bytes at a time stays on their boundary, and
behind it nothing but the read's own flux. `InStep` is the stricter account for a
device that was not behind at all, which `RefusalSeen` needs.

**ImageVolumeProofs** - `TypeCorrect`, `LayoutSurvives` (`LayoutKept`),
`EscapeBounded` (`EscapeLosesOnlyLate`), `OutsideSafe` (`OutsideUntouched`),
`ReaderImplements` (`Implements`). A
write goes out as a run of blocks from where the run begins in the file, or block
by block as the table has them. Of a run only the last block is looked up:
`BelowIsThere` shows that those before it are then in the volume, and
`PastEndIsVoid` that past its end there is nothing, so that a block that is written
is the volume's own or was named past the end of a volume shown as it is
(`WrittenIsOwn`). `AtIsOff` shows both come to the same places, and
`PatchedAlone` that no block with patched bytes goes out unpatched in a run.
`HeldLate` bounds what the card lacks by what was written after the flush.

For the refinement, initial states map to initial states and every step to a step
of `BlockDevice` or a stutter. It rests on one equation, `ShownAgain`: what is put into the file for a block and then
shown is what the device sees stored, by whichever way it was written.
`RunIsFirst` shows that the blocks of an `fwrite()` are the first of what is left
of the command, `SeenIsShown` that reads agree, `OneAtATime` that a write under
way leaves no answer of a read behind.

**UsbModeProofs** - of the boot: `SocketBelongs` (`SocketFollowsMode`), `EjectHolds`
(`HddStaysEjected`), `HostGetsTheChosen` (`ImageIsTheChosen`), `OneShot`
(`UsbModeIsOneShot`), `MountsRestored` (`RestoresMounts`). The parts of the
invariant say what the NVS keys and the PHY mapping are worth at each place the
board can be cut off: `Socket`, `Flag`, `Saved` (the keys already set hold the
set being saved), `HddDrive`, `Chosen` (from the choice to the USB Mode the image
is the drive's, then its key's, then the one served), `Armed`, `Opening`. The
last two theorems are action properties and use the same invariant.

Of the flush timer: `QuietLoss` (`QuietLossBounded`). `WriteAge` and `ReadAge`
say how old the two readings are, modulo the counter; `LoopLate` bounds the time the
host has been quiet by where the loop stands. With 2^32, 100 ms and 20 ms these
are the program's numbers.

**Only model-checked.** The liveness properties (`HostAnswered`,
`QuietHostSettles`, `FrameEnds`, `DoorCloses`, `ReadEnds`, `CommandsEnd`,
`MotionArrives`, `UsbModeEnds`): they rest on fairness, which is out of the
prover's reach. What `FloppyImage` makes of
a floppy's image: the proofs of ImageVolume take any table of sectors and any
patches that keep `ImageVolume`'s assumptions instead.

<a name="6-disagreements"></a>
## 6. Where the code and what is said of it part

The models have the code as it is. Every run passes; where a comment promises
more than the code does, the properties say what the code does. Met while
modelling:

*The card reader and the image reader*

- `usb_msc.cpp:371` says of `barrier_locked()` "Wait until everything submitted
  has reached the card." A write the card refuses sets `s_failed`, gives its token
  back like a good one, and flush commands go on reporting success: the
  properties of WriteCache all except `s_failed`.
- `usb_msc.cpp:1240-1241` says an unplug without eject loses at most
  `FLUSH_IDLE_MS` of writes. `QuietLossBounded` holds from the *last* write: a
  host that goes on writing slowly, each write contiguous to the one before, puts
  the flush off until the buffer is full. In image mode nothing of it holds: the
  test looks at `s_count`, which that mode does not use.
- In image mode SYNCHRONIZE CACHE (`usb_msc.cpp:593`) and the 1200 baud touch call
  `flush_cache()` and never `usb_image_flush()`: what stdio and FATFS keep of the
  file stays where it is until an eject or the escape.
- The escape task flushes and then waits 50 ms before it restarts; a write
  acknowledged in that time is lost. `TouchStrandsNothing` speaks of the touch,
  which restarts with the cache settled, and `EscapeLosesOnlyLate` of the escape.
- A host that writes the original value to a patched byte reads the patch's back
  (`usb_image.cpp:117-119`): `BlockDevice` calls such bytes veiled.
- A volume that needs no translation is read and written without a look at its
  size (`usb_image.cpp:878-905`, `usb_msc.cpp:471-491` and `541-551`): what a host
  writes past the capacity it was told goes to what follows in the file, or makes
  the file longer. The other volumes refuse it (`usb_image.cpp:504`).
  `OutsideUntouched` says so of each.

*Keys and mice*

- `bt_hid.cpp:396-397` says closing a link releases "anything the emulator still
  thinks is held". The releases are dropped by a full queue and eaten by an open
  menu, and the key stays down: `MachineFollows` excepts codes in `lost`.
- The two SHIFT keys share a code, so that releasing one releases both (`shared`
  excepts it); a USB keyboard unplugged releases nothing, and the buttons of a
  mouse unplugged stay latched.
- A latch hands over at most -128..127 of the motion and drops the rest. The count
  of mice is wrong for good after a lost update, after an open whose result nobody
  looks at, or when the detach comes before the attach: `PresenceCount` excepts
  these (`miscount`). Nothing is polled while the menu is open.

*Floppy drives*

- `main.cpp:682-683` takes opening the menu as a change of disk, because "a disk
  can only be swapped while the menu holds the machine still". A mount from the
  menu reads cylinder 0 at once and nothing is forgotten when the menu closes: a
  disk changed in between is read with the old cylinder 0. `PickedUp` counts from
  the opening of the menu.
- What the guest writes to a live drive lives in the track cache; READ DIAGNOSTIC
  (`fdd_gw_live.cpp:449-516`) reads the disk itself and does not see it.
- `menu_disk.cpp:752` calls an empty drive an empty string. An image or a live
  mount that fails ejects the drive but leaves the previous name in
  `np2cfg.fddfile`, so that the menu shows, saves and offers a disk that is not in
  the drive, and the next boot mounts it. `BootModes` has this as it is (`Ejected`,
  `Misnamed`); `RestoresMounts` is about the disks in the drives and excepts a
  drive saved with such a name.
- The floppy controller: an announcement between frames overwrites `fdc.us` in the
  middle of a transfer; a reset by bit 7 leaves the DMA channel running and its TC
  behind; SCAN commands never end; without DMA a write of several sectors never
  asks for the second; a status announced in `stat[]` is overwritten by a seek end
  or the next command on that drive; two seek ends in a frame make one interrupt;
  `fdc_hold` and `fdc_resume` are never reached, as nothing assigns
  `fdc_track_ready`.

*Not in a model*

- A stage record made by another task after stage 92 or 93 overwrites it;
  `bt_hid.cpp:916-918` deletes a semaphore its giver may still use; names saved are
  overwritten by empty ones when the card was absent at boot and the menu closes.

## 7. What is left out

- **WriteCache**: contents of a sector are a value; inquiry and capacity commands
  change nothing; the lamp is not state.
- **HidKeys, KeyPath**: keys without a PC-98 code, mouse buttons, enumeration,
  scanning and pairing. What a report can hold is any subset of the (finitely
  many) keys of the model, so the limit of six keys in a boot report does not show.
- **MousePath**: one axis; each mouse is connected once, and those of `Moved`
  move. After two stores have met (`raced`, `miscount`) motion or presence is no
  longer accounted for. Gestures of the touch panel are external.
- **Keyboard**: whether IRQ1 is served (the guest may read at any time), the LED
  command `0x9d`, the other commands, the user key table, RS-232C.
- **NEvent**: three of the events, one of each way of being set: the frame's, one
  that sets itself from its due time, one set from now by another's callback.
  `nevent_setbyms()` is a conversion. What the devices do in their callbacks is
  nothing but what they set. The 20 cycles that the CPU takes to accept an
  interrupt (`i286c.c:302`) are not counted: they are like an instruction of that
  length.
- **Fdc**: the workaround with the track register and the cylinder a drive stands
  at, the busy bits of the status, `fdc.intreq`, non-DMA mode set by SPECIFY, the
  clock switch of `chgreg` other than 3, the BIOS's direct use through INT 1Bh,
  the delay of `diskdrv_callback`, and the interrupt controller. The guest sets its
  channel up for the direction of the command before it gives it, and moves no
  bytes that the channel moves.
- **ImageVolume**: patches beyond the 64 of `s_patch[]`, which the code
  drops, block numbers whose place in bytes leaves the 32-bit `long` of `fseek()`
  or that leave 32 bits in the middle of a transfer (`Beyond` keeps the host below
  them), a write-out that fails inside the library, read-only files, and the loaders of the
  formats but for a floppy's, which is `FloppyImage`.
- **GwDisk**: one drive; the user does not change disks in the middle of a track
  read; the merging of captures and the sector search.
- **GwLink**: decoding. The device answers in order but refuses and delays at
  will. `FreshFlux` excepts reads begun with the device three commands behind or
  more, `RefusalSeen` those begun with it behind at all: an old reply to SEEK can
  then hide that this one was refused.
- **BootModes**: a key set in NVS is there at once; the case that NVS does not
  open, the stage record and the plain values. The PC and the user are external.
- **Components not modelled** are in `PROJECT.json` with their reasons: pixels,
  numeric code, register sequences, instruction interpretation, vendored code.

## 8. Plan

Done, in the order in which it mattered: the cache (data loss), the flush timer,
the key path, the keyboard, the scheduler, the live drive and its link, the boot,
the image reader, the mouse, the floppy controller.

To extend the model, in this order:

1. `GwUnits` (`gw_mode.cpp`): devices found, opened, unplugged and back; the
   callback against a transfer; `s_found[]` full.
2. `AudioRing` (`audio_codec.cpp`) and `BlitHandover` (`lcd_mipi.cpp`): a producer
   and a consumer each. A lossy bounded queue is what the first promises.
3. `FileCache` (`dosio_sd.cpp`), `Pic` (8259 under the scheduler), Bluetooth's
   slots (`bt_hid.cpp`).

Each with a run of its own, in place of one whose question a theorem has settled.

Their safety properties, once TLC agrees, are to be proved like the others; a proof
goes into the module of the component it belongs to.

## 9. Running it

    tlc -workers 2 -config WriteCache_safety.cfg MCWriteCache.tla
    tlapm WriteCacheProofs.tla

`PROJECT.json` pairs each configuration with its module. On two cores `Fdc_guest`
takes about three minutes, `MousePath_poll` two, the safety runs of WriteCache,
Keyboard and KeyPath and `NEvent_frames` one to two, the others seconds. The proof
modules are those named `...Proofs`: WriteCacheProofs takes a few minutes, HidProofs,
GwProofs, FdcProofs and NEventProofs one to two, the others less.
