----------------------------- MODULE MousePath ------------------------------
(***************************************************************************)
(* From the mice to the guest: the counters of src/main/usb_kbd.cpp that   *)
(* every mouse adds to, and the PC-98 mouse port (np2kai io/mouseif.c)     *)
(* that the emulator's task feeds from them once a frame.                  *)
(*                                                                         *)
(* USB mice, Bluetooth mice and the touch panel each have their task; the  *)
(* USB host has two, hid_task for what is plugged in and the driver's for  *)
(* reports and what is pulled out.  None takes a lock: each load and each  *)
(* store of a counter is a step, and what a task does in between stays in  *)
(* its register.                                                           *)
(*                                                                         *)
(* One axis is modelled; the other is handled alike next to it.            *)
(***************************************************************************)
EXTENDS Integers, FiniteSets

CONSTANTS UsbMice, BtMice, \* bound: each comes once, and comes back as another
          Motion,       \* what a report says the mouse has moved
          Half,         \* 2^15: the counters are int16_t
          Moved         \* bound: mice that are moved at all

ASSUME MouseAssumption ==
    /\ IsFiniteSet(UsbMice) /\ IsFiniteSet(BtMice) /\ UsbMice \cap BtMice = {}
    /\ "touch" \notin UsbMice \cup BtMice
    /\ Half \in Nat \ {0} /\ Motion \subseteq Int
    /\ Moved \subseteq UsbMice \cup BtMice \cup {"touch"}

Movers == {"hid", "driver", "bt", "touch"}
Tasks == Movers \cup {"emu"}
Counter == -Half..(Half - 1)
Wrap(n) == ((n + Half) % (2 * Half)) - Half

VARIABLES
    g_umouse_dx, g_umouse_present,
    fresh,      \* mice not seen yet
    plugged,    \* USB mice in the socket
    queued,     \* those hid_task has yet to be told of
    mice,       \* mice whose reports get through
    doing,      \* where each task is, with its register
    x, rx,      \* the port: to be read, and left of the last poll
    owed,       \* ghost: motion reported and not latched
    raced,      \* ghost: g_umouse_dx was stored over a change
    miscount    \* ghost: so was g_umouse_present, or it was not meant

counters == <<g_umouse_dx, owed, raced>>
presence == <<g_umouse_present, miscount>>
sockets  == <<fresh, plugged, queued, mice>>
port     == <<x, rx>>
mouseVars == <<counters, presence, sockets, doing, port>>

Idle == [op |-> "idle"]
Does(t, what) == doing' = [doing EXCEPT ![t] = what]

(* A store over a change loses it; after one there is no more to account.  *)
Stores(reg, n, account) ==
    /\ g_umouse_dx' = n
    /\ raced' = (raced \/ reg # g_umouse_dx)
    /\ owed' = IF raced' THEN 0 ELSE account

(* Motion leaves the port.                                                 *)
Taken(n) == owed' = IF raced THEN 0 ELSE Wrap(owed - n)

MouseInit ==
    /\ g_umouse_dx = 0 /\ g_umouse_present = 0
    /\ fresh = UsbMice \cup BtMice /\ plugged = {} /\ queued = {} /\ mice = {}
    /\ doing = [t \in Tasks |-> IF t = "touch" THEN [op |-> "attach"] ELSE Idle]
    /\ x = 0 /\ rx = 0
    /\ owed = 0 /\ raced = FALSE /\ miscount = FALSE

-----------------------------------------------------------------------------
(* hid_mouse_delta(): load, add, store.                                    *)
Reporters(m) == IF m \in UsbMice THEN "driver" ELSE IF m \in BtMice THEN "bt" ELSE "touch"

ReportLoad(m) == LET t == Reporters(m) IN
    /\ m \in mice \cap Moved /\ doing[t] = Idle
    /\ \E d \in Motion : Does(t, [op |-> "report", d |-> d, reg |-> g_umouse_dx])
    /\ UNCHANGED <<counters, presence, sockets, port>>

ReportStore(t) ==
    /\ doing[t].op = "report"
    /\ Stores(doing[t].reg, Wrap(doing[t].reg + doing[t].d), Wrap(owed + doing[t].d))
    /\ Does(t, Idle) /\ UNCHANGED <<presence, sockets, port>>

-----------------------------------------------------------------------------
(* hid_mouse_attach().                                                     *)
AttachLoad(t) ==
    /\ doing[t].op = "attach"
    /\ Does(t, [op |-> "attached", reg |-> g_umouse_present])
    /\ UNCHANGED <<counters, presence, sockets, port>>

AttachStore(t) ==
    /\ doing[t].op = "attached"
    /\ g_umouse_present' = doing[t].reg + 1
    /\ miscount' = (miscount \/ doing[t].reg # g_umouse_present)
    /\ mice' = IF t = "touch" THEN mice \cup {"touch"} ELSE mice
    /\ Does(t, Idle) /\ UNCHANGED <<counters, fresh, plugged, queued, port>>

(* hid_mouse_detach() reads the counter twice.                             *)
DetachCheck(t) ==
    /\ doing[t].op = "detach"
    /\ IF g_umouse_present > 0
       THEN Does(t, [op |-> "detaching"]) /\ UNCHANGED miscount
       ELSE Does(t, Idle) /\ miscount' = TRUE
    /\ UNCHANGED <<counters, g_umouse_present, sockets, port>>

DetachLoad(t) ==
    /\ doing[t].op = "detaching"
    /\ Does(t, [op |-> "detached", reg |-> g_umouse_present])
    /\ UNCHANGED <<counters, presence, sockets, port>>

DetachStore(t) ==
    /\ doing[t].op = "detached"
    /\ g_umouse_present' = doing[t].reg - 1
    /\ miscount' = (miscount \/ doing[t].reg # g_umouse_present)
    /\ Does(t, Idle) /\ UNCHANGED <<counters, sockets, port>>

-----------------------------------------------------------------------------
(* A USB mouse is plugged in: hid_dev_cb().                                *)
Plug(m) ==
    /\ m \in fresh \cap UsbMice /\ fresh' = fresh \ {m}
    /\ plugged' = plugged \cup {m} /\ queued' = queued \cup {m}
    /\ UNCHANGED <<counters, presence, mice, doing, port>>

(* hid_dev_event(): a device already gone has no parameters.               *)
Connected(m) ==
    /\ m \in queued /\ doing["hid"] = Idle
    /\ queued' = queued \ {m}
    /\ IF m \in plugged THEN Does("hid", [op |-> "open", mouse |-> m])
       ELSE UNCHANGED doing
    /\ UNCHANGED <<counters, presence, fresh, plugged, mice, port>>

(* It is opened and started, and its reports come, before it is counted.   *)
(* One that has gone meanwhile is counted too: no result is looked at.     *)
Open ==
    /\ doing["hid"].op = "open"
    /\ LET m == doing["hid"].mouse
       IN  IF m \in plugged THEN mice' = mice \cup {m} /\ UNCHANGED miscount
           ELSE miscount' = TRUE /\ UNCHANGED mice
    /\ Does("hid", [op |-> "attach"])
    /\ UNCHANGED <<counters, g_umouse_present, fresh, plugged, queued, port>>

(* hid_iface_cb() is told of an open device that goes.                     *)
Unplug(m) ==
    /\ m \in plugged /\ plugged' = plugged \ {m}
    /\ \/ m \notin mice /\ UNCHANGED <<mice, doing>>
       \/ m \in mice /\ mice' = mice \ {m}
          /\ doing["driver"] = Idle /\ Does("driver", [op |-> "detach"])
    /\ UNCHANGED <<counters, presence, fresh, queued, port>>

(* Faulty: a mouse is counted that finds no slot.                          *)
BtMouseOpenCountsAll(m) ==
    /\ m \in fresh \cap BtMice /\ fresh' = fresh \ {m}
    /\ doing["bt"] = Idle /\ Does("bt", [op |-> "attach"])
    /\ mice' \in {mice, mice \cup {m}}
    /\ UNCHANGED <<counters, presence, plugged, queued, port>>

(* handle_open(): without a slot, which keyboards take as well, the link   *)
(* is closed again.                                                        *)
BtMouseOpen(m) ==
    /\ m \in fresh \cap BtMice /\ fresh' = fresh \ {m}
    /\ doing["bt"] = Idle
    /\ \/ mice' = mice \cup {m} /\ Does("bt", [op |-> "attach"])
       \/ UNCHANGED <<mice, doing>>
    /\ UNCHANGED <<counters, presence, plugged, queued, port>>

(* handle_close().                                                         *)
BtMouseClose(m) ==
    /\ m \in BtMice \cap mice /\ doing["bt"] = Idle
    /\ mice' = mice \ {m}
    /\ Does("bt", [op |-> "detach"])
    /\ UNCHANGED <<counters, presence, fresh, plugged, queued, port>>

-----------------------------------------------------------------------------
Runs == doing["emu"] = Idle

(* Faulty: a port with nothing to tell the guest is not polled for.        *)
SyncBeginMoving ==
    /\ Runs /\ <<x, rx>> # <<0, 0>>
    /\ x' = Wrap(x + rx) /\ rx' = 0
    /\ IF g_umouse_present = 0 THEN UNCHANGED doing ELSE Does("emu", [op |-> "load"])
    /\ UNCHANGED <<counters, presence, sockets>>

(* Faulty: the rest of the last poll is dropped.                           *)
SyncBeginDrops ==
    /\ Runs
    /\ x' = x /\ rx' = 0
    /\ IF g_umouse_present = 0 THEN UNCHANGED doing ELSE Does("emu", [op |-> "load"])
    /\ UNCHANGED <<counters, presence, sockets>>

(* mouseif_sync(), and mousemng_getstat() in it, once a frame: what is     *)
(* left of the last poll is added at once, then the counter is taken.      *)
SyncBegin ==
    /\ Runs
    /\ x' = Wrap(x + rx) /\ rx' = 0
    /\ IF g_umouse_present = 0 THEN UNCHANGED doing ELSE Does("emu", [op |-> "load"])
    /\ UNCHANGED <<counters, presence, sockets>>

SyncLoad ==
    /\ doing["emu"].op = "load"
    /\ Does("emu", [op |-> "clear", reg |-> g_umouse_dx])
    /\ UNCHANGED <<counters, presence, sockets, port>>

SyncClear ==
    /\ doing["emu"].op = "clear"
    /\ Stores(doing["emu"].reg, 0, owed) /\ rx' = doing["emu"].reg
    /\ Does("emu", Idle) /\ UNCHANGED <<presence, sockets, x>>

(* calc_mousexy(): a share of the motion polled, by the time since, and no *)
(* more than is left of it.                                                *)
Shares == {d \in Counter : (0 <= d /\ d <= rx) \/ (rx <= d /\ d <= 0)}

(* The guest reads the port.                                               *)
GuestRead ==
    /\ Runs
    /\ \E d \in Shares : x' = Wrap(x + d) /\ rx' = rx - d
    /\ UNCHANGED <<counters, presence, sockets, doing>>

(* setportc(): the guest lowers bit 7 and raises it, and has what x was.   *)
Latch ==
    /\ Runs
    /\ \E d \in Shares : rx' = rx - d /\ Taken(x + d)
    /\ x' = 0
    /\ UNCHANGED <<g_umouse_dx, raced, presence, sockets, doing>>

(* mouseif_reset(): what the port has is forgotten.                        *)
Reset ==
    /\ Runs /\ x' = 0 /\ rx' = 0 /\ Taken(x + rx)
    /\ UNCHANGED <<g_umouse_dx, raced, presence, sockets, doing>>

-----------------------------------------------------------------------------
TaskStep(t) ==
    \/ ReportStore(t)
    \/ AttachLoad(t) \/ AttachStore(t)
    \/ DetachCheck(t) \/ DetachLoad(t) \/ DetachStore(t)

Sync == SyncBegin \/ SyncLoad \/ SyncClear

MouseNext ==
    \/ \E m \in UsbMice \cup BtMice \cup {"touch"} : ReportLoad(m)
    \/ \E t \in Movers : TaskStep(t)
    \/ \E m \in UsbMice : Plug(m) \/ Connected(m) \/ Unplug(m)
    \/ Open
    \/ \E m \in BtMice : BtMouseOpen(m) \/ BtMouseClose(m)
    \/ Sync \/ GuestRead \/ Latch \/ Reset

(* The tasks run; the emulator's goes round its loop, outside the menu.    *)
Fairness == WF_mouseVars(Sync) /\ \A t \in Movers : WF_mouseVars(TaskStep(t))

MouseSpec == MouseInit /\ [][MouseNext]_mouseVars
MouseFairSpec == MouseSpec /\ Fairness

-----------------------------------------------------------------------------
(* What each task can be at, and what its registers hold there.            *)
Doings ==
    [hid |-> {"idle", "open", "attach", "attached"},
     driver |-> {"idle", "report", "detach", "detaching", "detached"},
     bt |-> {"idle", "report", "attach", "attached", "detach", "detaching", "detached"},
     touch |-> {"idle", "report", "attach", "attached"},
     emu |-> {"idle", "load", "clear"}]

Fits(t, w) ==
    /\ w.op \in Doings[t]
    /\ w.op = "report" => w.d \in Motion /\ w.reg \in Counter
    /\ w.op = "clear" => w.reg \in Counter
    /\ w.op \in {"attached", "detached"} => w.reg \in Int
    /\ w.op = "open" => w.mouse \in UsbMice

(* The types of the variables.                                             *)
MouseTypeOK ==
    /\ {g_umouse_dx, x, rx, owed} \subseteq Counter /\ g_umouse_present \in Int
    /\ fresh \subseteq UsbMice \cup BtMice /\ queued \cup plugged \subseteq UsbMice
    /\ mice \subseteq UsbMice \cup BtMice \cup {"touch"}
    /\ DOMAIN doing = Tasks /\ \A t \in Tasks : Fits(t, doing[t])
    /\ {raced, miscount} \subseteq BOOLEAN

(* All motion reported is in the counter or in the port until the guest    *)
(* latches it, however polls, reads and reports interleave, unless one     *)
(* report or poll was stored over another (hid_mouse_delta and             *)
(* mousemng_getstat take no lock).  Counted modulo 2^16, as the code does. *)
MotionConserved == ~raced => owed = Wrap(g_umouse_dx + x + rx)

(* Once the tasks are done, the count is that of the mice that can be      *)
(* heard, so that neither a mouse present for none nor a touch panel that  *)
(* is not heard is left, unless two updates met, a mouse was gone before   *)
(* it was opened, or one was gone before any was counted                   *)
(* (hid_input.h: "Mouse presence is refcounted across transports").        *)
PresenceCount ==
    ~miscount /\ (\A t \in Movers : doing[t].op \in {"idle", "report"}) =>
        g_umouse_present = Cardinality(mice)

(* A guest whose driver keeps reading gets all the motion once the mice    *)
(* rest: nothing stays in the counter or in the rest of a poll             *)
(* (mouseif_sync: "x += rx").                                              *)
Resting == \A t \in Movers : doing[t].op # "report"
GuestReads == SF_mouseVars(Latch)
MotionArrives ==
    GuestReads /\ <>[]Resting /\ <>[](g_umouse_present # 0)
        => <>[](g_umouse_dx = 0 /\ rx = 0 /\ x = 0)
=============================================================================
