------------------------------ MODULE KeyPath -------------------------------
(***************************************************************************)
(* A key's way from a USB or Bluetooth keyboard to the emulated one:       *)
(* HidKeys puts events on s_kq, the emulator's loop (src/main/main.cpp)    *)
(* drains it into keystat.c once per frame, unless the disk menu           *)
(* (src/main/menu_disk.cpp) is open and takes the events for itself.       *)
(* What keystat.c makes of an event is module Keyboard; here only the keys *)
(* it holds down are kept.                                                 *)
(*                                                                         *)
(* The report tasks run on another core and interleave with every step of  *)
(* the emulator.                                                           *)
(***************************************************************************)
EXTENDS HidKeys

CONSTANT NK_ESC      \* the code that leaves the menu

ASSUME EscAssumption == NK_ESC \in Nat

VARIABLES ref,       \* keys keystat.ref[] says are down
          emu        \* where the emulator's loop stands

vars == <<hidVars, ref, emu>>

TypeOK == HidTypeOK /\ ref \subseteq Codes
                    /\ emu \in {"top", "menu", "drain"}

Init == HidInit /\ ref = {} /\ emu = "top"

-----------------------------------------------------------------------------
(* The top of the loop: a menu request opens the menu, which holds the     *)
(* machine still.                                                          *)
LoopTop ==
    /\ emu = "top"
    /\ emu' = IF g_menu_req THEN "menu" ELSE "drain"
    /\ g_menu_req' = FALSE
    /\ UNCHANGED <<s_prev, left, s_kq, btUp, lost, shared, ref>>

(* The menu takes every event, presses and releases of the machine's keys  *)
(* alike.  ESC leaves the menu, or only the submenu it is in.              *)
MenuKey ==
    /\ emu = "menu" /\ s_kq # <<>>
    /\ s_kq' = Tail(s_kq)
    /\ lost' = lost \cup {Head(s_kq).code}
    /\ emu' \in IF Head(s_kq).down /\ Head(s_kq).code = NK_ESC
                THEN {"menu", "drain"} ELSE {"menu"}
    /\ UNCHANGED <<s_prev, left, g_menu_req, btUp, shared, ref>>

(* One event goes from the queue into the emulated keyboard.               *)
Drain ==
    /\ emu = "drain" /\ s_kq # <<>>
    /\ s_kq' = Tail(s_kq)
    /\ ref' = IF Head(s_kq).down THEN ref \cup {Head(s_kq).code}
                                 ELSE ref \ {Head(s_kq).code}
    /\ UNCHANGED <<s_prev, left, g_menu_req, btUp, lost, shared, emu>>

(* The queue is empty: the frame runs, whatever the guest does in it.      *)
RunFrame ==
    /\ emu = "drain" /\ s_kq = <<>> /\ emu' = "top"
    /\ UNCHANGED <<hidVars, ref>>

HidStep == HidNext /\ UNCHANGED <<ref, emu>>

Next == LoopTop \/ MenuKey \/ Drain \/ RunFrame \/ HidStep

Spec == Init /\ [][Next]_vars

-----------------------------------------------------------------------------
(* No event is on its way to the emulated keyboard.                        *)
EventsSettled == s_kq = <<>> /\ \A s \in Sources : left[s] = {}

(* Once the events have been taken, the emulated machine holds the keys    *)
(* the keyboards report, except where an event was dropped or eaten by the *)
(* menu: a key nobody reports is up, and a reported one is down unless two *)
(* keys with its code were held (usb_kbd.cpp, bt_hid.cpp, keystat.c).      *)
MachineFollows ==
    EventsSettled =>
        \A c \in Codes \ lost : /\ c \in ref => c \in Reported
                                /\ c \in Reported \ shared => c \in ref
=============================================================================
