----------------------------- MODULE MCKeyPath ------------------------------
(* Small instances of KeyPath for TLC: the keys ESC, F11 and a SHIFT bit.  *)
EXTENDS KeyPath

(* HID usages; a modifier bit is 256 and its place in mods[].              *)
Esc == 41
F11 == 68
LShift == 256

NK_SHIFT == 112

KeyCode == [k \in {Esc, LShift} |-> IF k = Esc THEN NK_ESC ELSE NK_SHIFT]

(* Both keyboards type ESC and SHIFT, the USB one opens the menu too.      *)
Boards == [s \in Sources |-> IF s = "usb" THEN {Esc, F11, LShift}
                            ELSE {Esc, LShift}]
=============================================================================
