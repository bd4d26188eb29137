------------------------------- MODULE MCFdc --------------------------------
(* A small instance of Fdc for TLC: two drives, the second with a door.    *)
EXTENDS Fdc

Ask(op, us, R, mt) == [op |-> op, us |-> us, hd |-> 0, R |-> R, mt |-> mt]

(* From the first sector of a track on, and the last one of a side.        *)
Both ==
    {Ask("READ", 0, 1, TRUE), Ask("READ", 1, 2, FALSE), Ask("WRITE", 0, 1, TRUE),
     Ask("DIAG", 0, 1, FALSE), Ask("READID", 0, 1, FALSE), Ask("FORMAT", 0, 1, FALSE),
     Ask("SPECIFY", 0, 1, FALSE), Ask("SENSEDEV", 0, 1, FALSE), Ask("SEEK", 1, 1, FALSE),
     Ask("SCAN", 0, 1, FALSE)}
=============================================================================
