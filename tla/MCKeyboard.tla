---------------------------- MODULE MCKeyboard ------------------------------
(***************************************************************************)
(* Keyboard.tla for TLC.  What the data register holds after the guest has *)
(* read it is looked at by no action and no property.                      *)
(***************************************************************************)
EXTENDS Keyboard

View == <<ref, keyrepeat_buf, keyrep, reqparam, ctrls, buf,
          IF ready THEN data ELSE Ack, ready, armed, guest, unsaid>>
=============================================================================
