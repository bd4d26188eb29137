------------------------------ MODULE Keyboard ------------------------------
(***************************************************************************)
(* The emulated keyboard: the state of the keys (keystat.c) and the serial *)
(* port that carries their codes to the guest (io/serial.c), both in       *)
(* src/components/np2kai/np2kai/.                                          *)
(*                                                                         *)
(* keystat_down() and keystat_up() turn events into make and break codes,  *)
(* keystat_send() keeps the list of keys that may repeat, keyboard_send()  *)
(* queues a code and arms the transfer event, keyboard_callback() loads    *)
(* the data register, the guest reads it.  Everything here runs on the     *)
(* emulator's task.  The LED command (0x9d) is left out.                   *)
(***************************************************************************)
EXTENDS Naturals, Sequences, FiniteSets

CONSTANTS KeyCodes,            \* PC-98 key codes, numbers below 80h
          Repeats,             \* those without KBEX_NONREP
          KB_BUF,              \* codes the port buffers (128 in the code)
          KEYREPEAT_BUF_MAX,   \* keys the repeat list holds (16)
          Ack                  \* a reply to a command, which is no key code

ASSUME KeyboardAssumption ==
    /\ KeyCodes \subseteq 0..127 /\ Repeats \subseteq KeyCodes
    /\ KB_BUF \in Nat /\ Cardinality(KeyCodes) <= KB_BUF
    /\ KEYREPEAT_BUF_MAX \in Nat \ {0}
    /\ Ack \notin [code : KeyCodes, make : BOOLEAN]

VARIABLES
    ref,            \* keys keystat.ref[] says are down
    keyrepeat_buf,  \* keys that may repeat, the newest last
    keyrep,         \* the guest has left auto repeat on (keyrep # 0x70)
    reqparam,       \* a command's parameter byte is due
    ctrls,          \* replies to commands waiting in keybrd.ctr
    buf,            \* codes waiting in keybrd.buf
    data,           \* the data register
    ready,          \* status bit 1: data not read yet
    armed,          \* NEVENT_KEYBOARD is set
    guest,          \* external: keys the guest takes to be down
    unsaid          \* ghost: keys whose latest code was thrown away

vars == <<ref, keyrepeat_buf, keyrep, reqparam, ctrls, buf, data, ready,
             armed, guest, unsaid>>
serialVars == <<ctrls, data, ready, guest>>

Byte == [code : KeyCodes, make : BOOLEAN]

TypeOK ==
    /\ ref \subseteq KeyCodes /\ guest \subseteq KeyCodes
    /\ unsaid \subseteq KeyCodes
    /\ keyrepeat_buf \in Seq(Repeats)
    /\ Len(keyrepeat_buf) <= KEYREPEAT_BUF_MAX
    /\ keyrep \in BOOLEAN /\ reqparam \in BOOLEAN
    /\ ctrls \in 0..1
    /\ buf \in Seq(Byte) /\ Len(buf) <= KB_BUF
    /\ data \in Byte \cup {Ack}
    /\ ready \in BOOLEAN /\ armed \in BOOLEAN

Init ==
    /\ ref = {} /\ keyrepeat_buf = <<>> /\ keyrep = TRUE /\ reqparam = FALSE
    /\ ctrls = 0 /\ buf = <<>> /\ data = Ack /\ ready = FALSE
    /\ armed = FALSE /\ guest = {} /\ unsaid = {}

-----------------------------------------------------------------------------
Make(c)  == [code |-> c, make |-> TRUE]
Break(c) == [code |-> c, make |-> FALSE]

(* keyboard_send() for each of bytes: a code that finds the buffer full    *)
(* only sets the overrun bit.  An appended code arms the transfer event.   *)
(* mute: keys whose last code does not even get here.                      *)
Send(bytes, mute) ==
    LET room == KB_BUF - Len(buf)
        n    == IF Len(bytes) <= room THEN Len(bytes) ELSE room
        Of(i, j) == {bytes[k].code : k \in i..j}
    IN  /\ buf' = buf \o SubSeq(bytes, 1, n)
        /\ armed' = (armed \/ n > 0)
        /\ unsaid' = (unsaid \ Of(1, n)) \cup Of(n + 1, Len(bytes)) \cup mute

(* The repeat list as keystat_send() leaves it for a break code of c: the  *)
(* newest entry that is c is taken out, those after it move down.          *)
Without(c) ==
    LET at == {i \in DOMAIN keyrepeat_buf : keyrepeat_buf[i] = c}
        Removed(k) == [i \in 1..(Len(keyrepeat_buf) - 1) |->
                          keyrepeat_buf[IF i < k THEN i ELSE i + 1]]
    IN  IF at = {} THEN keyrepeat_buf
        ELSE Removed(CHOOSE k \in at : \A i \in at : i <= k)

(* Faulty: the repeat list is not bounded.                                 *)
PressUnbounded(c, pre, list) ==
    /\ keyrepeat_buf' = IF c \in Repeats THEN Append(list, c) ELSE list
    /\ Send(Append(pre, Make(c)), {})

(* keystat_down() of a key that is up: a key that may repeat joins the     *)
(* repeat list; when the list is full or has the key already, its code is  *)
(* not sent at all.                                                        *)
NotTaken(c, list) ==
    c \in Repeats /\ (Len(list) >= KEYREPEAT_BUF_MAX \/ \E i \in DOMAIN list : list[i] = c)

Press(c, pre, list) ==
    IF NotTaken(c, list)
    THEN /\ keyrepeat_buf' = list
         /\ Send(pre, {c})
    ELSE /\ keyrepeat_buf' = IF c \in Repeats THEN Append(list, c) ELSE list
         /\ Send(Append(pre, Make(c)), {})

(* keystat_keydown(): a key that is down already repeats as break and make *)
(* if it may, and is ignored if not.                                       *)
KeyDown(c) ==
    /\ ref' = ref \cup {c}
    /\ \/ /\ c \notin ref
          /\ Press(c, <<>>, keyrepeat_buf)
       \/ /\ c \in ref /\ c \in Repeats /\ keyrep
          /\ Press(c, <<Break(c)>>, Without(c))
       \/ /\ c \in ref /\ ~(c \in Repeats /\ keyrep)
          /\ UNCHANGED <<keyrepeat_buf, buf, armed, unsaid>>
    /\ UNCHANGED <<keyrep, reqparam, serialVars>>

(* Faulty: the released key stays in the repeat list.                      *)
KeyUpKeepsList(c) ==
    /\ ref' = ref \ {c}
    /\ keyrepeat_buf' = keyrepeat_buf
    /\ IF c \in ref THEN Send(<<Break(c)>>, {})
                    ELSE UNCHANGED <<buf, armed, unsaid>>
    /\ UNCHANGED <<keyrep, reqparam, serialVars>>

(* keystat_keyup(): a key that is down leaves the repeat list and sends    *)
(* its break code.                                                         *)
KeyUp(c) ==
    /\ ref' = ref \ {c}
    /\ IF c \in ref
       THEN keyrepeat_buf' = Without(c) /\ Send(<<Break(c)>>, {})
       ELSE UNCHANGED <<keyrepeat_buf, buf, armed, unsaid>>
    /\ UNCHANGED <<keyrep, reqparam, serialVars>>

(* keyrepeat_proc() when the interval has passed: the newest repeats.      *)
KeyRepeat ==
    /\ keyrepeat_buf # <<>>
    /\ LET c == keyrepeat_buf[Len(keyrepeat_buf)]
       IN  Send(<<Break(c), Make(c)>>, {})
    /\ UNCHANGED <<ref, keyrepeat_buf, keyrep, reqparam, serialVars>>

-----------------------------------------------------------------------------
(* Faulty: the event is set again only when the register was loaded.       *)
CallbackWaitsForRead ==
    /\ armed
    /\ armed' = (~ready /\ (ctrls > 0 \/ buf # <<>>))
    /\ \/ /\ ~ready /\ ctrls > 0
          /\ ctrls' = ctrls - 1 /\ data' = Ack /\ ready' = TRUE
          /\ UNCHANGED buf
       \/ /\ ~ready /\ ctrls = 0 /\ buf # <<>>
          /\ data' = Head(buf) /\ buf' = Tail(buf) /\ ready' = TRUE
          /\ UNCHANGED ctrls
       \/ /\ ready \/ (ctrls = 0 /\ buf = <<>>)
          /\ UNCHANGED <<ctrls, data, buf, ready>>
    /\ UNCHANGED <<ref, keyrepeat_buf, keyrep, reqparam, guest, unsaid>>

(* keyboard_callback(): nothing waiting leaves the event unarmed; else the *)
(* register is loaded, if the guest has read it, and the event set again.  *)
Callback ==
    /\ armed
    /\ armed' = (ctrls > 0 \/ buf # <<>>)
    /\ \/ /\ ~ready /\ ctrls > 0
          /\ ctrls' = ctrls - 1 /\ data' = Ack /\ ready' = TRUE
          /\ UNCHANGED buf
       \/ /\ ~ready /\ ctrls = 0 /\ buf # <<>>
          /\ data' = Head(buf) /\ buf' = Tail(buf) /\ ready' = TRUE
          /\ UNCHANGED ctrls
       \/ /\ ready \/ (ctrls = 0 /\ buf = <<>>)
          /\ UNCHANGED <<ctrls, data, buf, ready>>
    /\ UNCHANGED <<ref, keyrepeat_buf, keyrep, reqparam, guest, unsaid>>

(* The guest's handler finds the status bit set and reads port 41h.        *)
GuestRead ==
    /\ ready
    /\ ready' = FALSE
    /\ guest' = IF data = Ack THEN guest
                ELSE IF data.make THEN guest \cup {data.code}
                ELSE guest \ {data.code}
    /\ UNCHANGED <<ref, keyrepeat_buf, keyrep, reqparam, ctrls, buf, data,
                   armed, unsaid>>

(* The guest sets auto repeat: 9Ch and its parameter, each answered by one *)
(* byte that replaces a reply still waiting.                               *)
GuestCommand ==
    /\ reqparam' = ~reqparam
    /\ IF reqparam THEN keyrep' \in BOOLEAN ELSE UNCHANGED keyrep
    /\ ctrls' = 1 /\ armed' = TRUE
    /\ UNCHANGED <<ref, keyrepeat_buf, buf, data, ready, guest, unsaid>>

(* Keys in the order of their codes.                                       *)
Sorted(S) == CHOOSE s \in [1..Cardinality(S) -> S] :
                \A i, j \in DOMAIN s : i < j => s[i] < s[j]

(* Faulty: the keys that are down are not sent again.                      *)
ResetForgets ==
    /\ ctrls' = 0 /\ ready' = FALSE /\ reqparam' = FALSE
    /\ buf' = <<>> /\ armed' = FALSE /\ unsaid' = {}
    /\ keyrepeat_buf' = <<>> /\ guest' = {}
    /\ UNCHANGED <<ref, keyrep, data>>

(* keyboard_resetsignal(): the port is emptied, the keys that are down are *)
(* sent again in the order of their codes and the repeat list is emptied.  *)
(* External: a guest that resets the keyboard starts with no key down.     *)
GuestReset ==
    /\ ctrls' = 0 /\ ready' = FALSE /\ reqparam' = FALSE
    /\ buf' = [i \in 1..Cardinality(ref) |-> Make(Sorted(ref)[i])]
    /\ armed' = (ref # {}) /\ unsaid' = {}
    /\ keyrepeat_buf' = <<>> /\ guest' = {}
    /\ UNCHANGED <<ref, keyrep, data>>

Next ==
    \/ \E c \in KeyCodes : KeyDown(c) \/ KeyUp(c)
    \/ KeyRepeat
    \/ Callback \/ GuestRead \/ GuestCommand \/ GuestReset

Spec == Init /\ [][Next]_vars

-----------------------------------------------------------------------------
(* Codes on their way to the guest, oldest first.                          *)
InFlight == (IF ready /\ data # Ack THEN <<data>> ELSE <<>>) \o buf

(* What a guest that takes the keys down to be down makes of c by codes q: *)
(* the newest that is of c counts.                                         *)
Makes(q, down, c) ==
    LET says == {i \in DOMAIN q : q[i].code = c}
    IN  IF says = {} THEN c \in down
        ELSE \E i \in says : q[i].make /\ \A j \in says : j <= i

(* What the guest will take c to be once it has read all of them.          *)
WillBeDown(c) == Makes(InFlight, guest, c)

(* The codes sent and still to be read end with the guest seeing each key  *)
(* as keystat.ref[] has it, through repeats, resets and presses of keys    *)
(* already down, unless the latest code of the key was thrown away by a    *)
(* full buffer or a full repeat list (keystat.c, io/serial.c).             *)
CodesTellTruth == \A c \in KeyCodes \ unsaid : WillBeDown(c) <=> c \in ref

(* A code or reply waiting in the port has the transfer event armed: no    *)
(* reset, command or unread register leaves it stranded (serial.c).        *)
ByteNeverStranded == ctrls > 0 \/ buf # <<>> => armed

(* What keyrepeat_proc() may repeat is a repeatable key that is down, once *)
(* in the list: no key types on after its release (keystat.c).             *)
RepeatOnlyHeld ==
    /\ \A i \in DOMAIN keyrepeat_buf : keyrepeat_buf[i] \in ref \cap Repeats
    /\ \A i, j \in DOMAIN keyrepeat_buf :
          keyrepeat_buf[i] = keyrepeat_buf[j] => i = j
=============================================================================
