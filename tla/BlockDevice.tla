---------------------------- MODULE BlockDevice -----------------------------
(***************************************************************************)
(* What the disk image reader promises the host: a device of blocks.       *)
(*                                                                         *)
(* A write stores its blocks in order and a failed one stops at a block    *)
(* that may be torn; a read returns what is stored.  Void blocks (a track  *)
(* that was never formatted, the block past the end of a floppy) read as   *)
(* zeros and refuse writes.  A veiled byte can show every value but one:   *)
(* another stands for it.                                                  *)
(*                                                                         *)
(* The host may ask for blocks that are not the device's: of those it has  *)
(* any content or none, and a write to them changes nothing of the disk.   *)
(***************************************************************************)
EXTENDS Integers

CONSTANTS Content,  \* of a block: a function of its bytes
          Zeros     \* the content of a void block

VARIABLES void,     \* blocks that hold nothing
          veiled,   \* bytes with a value they cannot show, and its stand-in
          asked,    \* blocks the host may ask for
    disk,     \* the content of each block of the device
          todo,     \* blocks of the write in progress and what goes there
          reply     \* what the host is given in this step

vars == <<void, veiled, asked, disk, todo, reply>>

Nothing == [b \in {} |-> Zeros]

(* What a block is seen to hold once x is stored there.                    *)
Seen(b, x) ==
    [i \in DOMAIN x |->
        IF \E v \in veiled : v.block = b /\ v.idx = i /\ v.orig = x[i]
        THEN (CHOOSE v \in veiled : v.block = b /\ v.idx = i /\ v.orig = x[i]).virt
        ELSE x[i]]

Init == /\ todo = Nothing /\ reply = Nothing
        /\ \A b \in void : disk[b] = Zeros

Begin == /\ todo = Nothing /\ reply' = Nothing
         /\ \E lo, hi \in asked : todo' \in [lo..hi -> Content]
         /\ UNCHANGED <<void, veiled, asked, disk>>

(* The blocks below b are stored.                                          *)
Stored(b) == [c \in DOMAIN disk |->
                  IF c \in DOMAIN todo /\ c < b THEN Seen(c, todo[c]) ELSE disk[c]]

Write == \E last \in DOMAIN todo :
    /\ \A c \in DOMAIN todo : c <= last => c \notin void
    /\ disk' = Stored(last + 1)
    /\ todo' = [c \in {d \in DOMAIN todo : d > last} |-> todo[c]]
    /\ reply' = Nothing /\ UNCHANGED <<void, veiled, asked>>

Fail == \E b \in DOMAIN todo :
    /\ \A c \in DOMAIN todo : c < b => c \notin void
    /\ \/ disk' = Stored(b)
       \/ /\ b \in DOMAIN disk \ void
          /\ \E x \in Content : disk' = [Stored(b) EXCEPT ![b] = Seen(b, x)]
    /\ todo' = Nothing /\ reply' = Nothing /\ UNCHANGED <<void, veiled, asked>>

Read == /\ todo = Nothing
        /\ \/ reply' = Nothing
           \/ \E lo, hi \in asked :
                 /\ reply' \in [lo..hi -> Content]
                 /\ \A b \in (lo..hi) \cap DOMAIN disk : reply'[b] = disk[b]
        /\ UNCHANGED <<void, veiled, asked, disk, todo>>

Next == Begin \/ Write \/ Fail \/ Read

Spec == Init /\ [][Next]_vars
=============================================================================
