------------------------------ MODULE HidKeys -------------------------------
(***************************************************************************)
(* Keyboard reports become key events (src/main/usb_kbd.cpp and the        *)
(* keyboard half of src/main/bt_hid.cpp).                                  *)
(*                                                                         *)
(* Two tasks parse reports: the USB host's and the Bluetooth stack's.      *)
(* hid_kbd_report() compares a report with the previous one of the same    *)
(* transport and pushes what changed to s_kq without waiting; a full queue *)
(* drops the event.  All Bluetooth keyboards share one previous report.    *)
(*                                                                         *)
(* A step is one push, so that the emulator can pop between two of them.   *)
(***************************************************************************)
EXTENDS Naturals, Sequences, FiniteSets

CONSTANTS Keys,          \* HID usages that have a PC-98 code
          MenuKeys,      \* Pause, F11, F12: they open the menu
          Bits,          \* modifier bits, numbered in the order of mods[]
          Code,          \* the code of each key and modifier bit
          Fitted,        \* what the keyboards of a transport can send
          QLen,          \* length of s_kq (64 in the code)
          BT_MAX_DEV     \* Bluetooth device slots (3 in the code)

Sources == {"usb", "bt"}
Inputs  == Keys \cup MenuKeys \cup Bits
Codes   == {Code[k] : k \in Keys \cup Bits}

ASSUME HidAssumption ==
    /\ Inputs \subseteq Nat /\ IsFiniteSet(Inputs) /\ Keys \cap MenuKeys = {}
    /\ (Keys \cup MenuKeys) \cap Bits = {}
    /\ DOMAIN Code = Keys \cup Bits
    /\ Fitted \in [Sources -> SUBSET Inputs]
    /\ QLen \in Nat \ {0} /\ BT_MAX_DEV \in Nat

VARIABLES
    s_prev,       \* s_prevkeys and s_prevmod: the last report, per transport
    left,         \* changes of that report not acted on yet
    s_kq,         \* key events for the emulator
    g_menu_req,   \* a menu key has been pressed
    btUp,         \* Bluetooth keyboards in the slot table
    lost,         \* ghost: codes whose latest event was dropped or discarded
    shared        \* ghost: codes that two keys have been holding

hidVars == <<s_prev, left, s_kq, g_menu_req, btUp, lost, shared>>

Event == [code : Codes, down : BOOLEAN]

HidTypeOK ==
    /\ s_prev \in [Sources -> SUBSET Inputs]
    /\ left \in [Sources -> SUBSET Inputs]
    /\ s_kq \in Seq(Event) /\ Len(s_kq) <= QLen
    /\ g_menu_req \in BOOLEAN
    /\ btUp \in 0..BT_MAX_DEV
    /\ lost \subseteq Codes /\ shared \subseteq Codes

HidInit ==
    /\ s_prev = [s \in Sources |-> {}] /\ left = [s \in Sources |-> {}]
    /\ s_kq = <<>> /\ g_menu_req = FALSE /\ btUp = 0
    /\ lost = {} /\ shared = {}

(* Keys and modifiers holding code c by the last report of their source.   *)
Holding(prev, c) == {h \in Sources \X (Keys \cup Bits) :
                        h[2] \in prev[h[1]] /\ Code[h[2]] = c}
Reported == {c \in Codes : Holding(s_prev, c) # {}}

(* Begin of a report from source s carrying the inputs d.  s_prev is read  *)
(* by this task only, so it takes its new value here and not at the end.   *)
Begin(s, d) ==
    /\ left[s] = {}
    /\ left' = [left EXCEPT ![s] = (d \ s_prev[s]) \cup (s_prev[s] \ d)]
    /\ s_prev' = [s_prev EXCEPT ![s] = d]
    /\ shared' = {c \in Codes :
                    /\ Holding(s_prev', c) # {}
                    /\ \/ c \in shared
                       \/ Cardinality(Holding(s_prev', c)
                                      \cup Holding(left', c)) > 1}

(* The order of a report: modifiers as mods[] lists them, keys released,   *)
(* keys pressed (menu keys among them).                                    *)
NextChanges(s) ==
    LET mods     == left[s] \cap Bits
        released == left[s] \ s_prev[s]
    IN  IF mods # {} THEN {m \in mods : \A n \in mods : m <= n}
        ELSE IF released # {} THEN released ELSE left[s]

(* Faulty: the queue grows without bound.                                  *)
PushAlways(c, dn) ==
    s_kq' = Append(s_kq, [code |-> c, down |-> dn]) /\ lost' = lost \ {c}

(* kq_push(): an event that finds the queue full is gone.                  *)
Push(c, dn) ==
    IF Len(s_kq) < QLen
    THEN s_kq' = Append(s_kq, [code |-> c, down |-> dn]) /\ lost' = lost \ {c}
    ELSE s_kq' = s_kq /\ lost' = lost \cup {c}

-----------------------------------------------------------------------------
(* A keyboard of source s sends a report that differs from the last.       *)
Report(s) ==
    /\ \E d \in SUBSET Fitted[s] : d # s_prev[s] /\ Begin(s, d)
    /\ UNCHANGED <<s_kq, g_menu_req, btUp, lost>>

(* hid_iface_cb(): a boot report from the USB keyboard.                    *)
UsbReport == Report("usb")

(* handle_input(): a report from a Bluetooth keyboard in the slot table,   *)
(* brought into boot layout first.                                         *)
BtReport == btUp > 0 /\ Report("bt")

(* hid_kbd_report() acts on one change.  The release of a menu key has no  *)
(* code and pushes nothing.                                                *)
Act(s) ==
    /\ \E k \in NextChanges(s) :
          /\ left' = [left EXCEPT ![s] = @ \ {k}]
          /\ IF k \in MenuKeys
             THEN /\ g_menu_req' = (g_menu_req \/ k \in s_prev[s])
                  /\ UNCHANGED <<s_kq, lost>>
             ELSE /\ Push(Code[k], k \in s_prev[s])
                  /\ UNCHANGED g_menu_req
    /\ UNCHANGED <<s_prev, btUp, shared>>

(* handle_open() gives the keyboard a slot; without one it closes it.      *)
BtOpen ==
    /\ left["bt"] = {} /\ btUp < BT_MAX_DEV
    /\ btUp' = btUp + 1
    /\ UNCHANGED <<s_prev, left, s_kq, g_menu_req, lost, shared>>

(* Faulty: the slot is freed without the all-zero report.                  *)
BtCloseSilent ==
    /\ btUp > 0 /\ left["bt"] = {}
    /\ btUp' = btUp - 1
    /\ s_prev' = [s_prev EXCEPT !["bt"] = {}]
    /\ shared' = {c \in shared : Holding(s_prev', c) # {}}
    /\ UNCHANGED <<left, s_kq, g_menu_req, lost>>

(* handle_close(): the link drops and an all-zero report releases what the *)
(* Bluetooth keyboards hold.                                               *)
BtClose ==
    /\ btUp > 0 /\ Begin("bt", {})
    /\ btUp' = btUp - 1
    /\ UNCHANGED <<s_kq, g_menu_req, lost>>

HidNext ==
    \/ UsbReport \/ BtReport
    \/ \E s \in Sources : Act(s)
    \/ BtOpen
    \/ BtClose
=============================================================================
