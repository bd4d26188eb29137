---------------------------- MODULE WriteBehind ----------------------------
(***************************************************************************)
(* What the SD card reader promises a host, with no buffers, tasks or      *)
(* semaphores: a medium and the accepted sector writes that have not       *)
(* reached it yet.  Accepted writes reach the medium one sector at a time  *)
(* and strictly in the order the host made them; a power cut or a restart  *)
(* loses what is still pending and nothing else; only a card error may     *)
(* drop a write, and it leaves the reader degraded until it is restarted.  *)
(***************************************************************************)
EXTENDS Naturals, Sequences

CONSTANTS Sectors,   \* the sector addresses of the medium
          Val        \* the contents a sector can have

VARIABLES medium,    \* what is on the medium, sector by sector
          pending,   \* accepted and not yet on the medium, oldest first
          degraded   \* a write has been lost since the last restart

vars == <<medium, pending, degraded>>

SectorWrite == [lba : Sectors, val : Val]

(* The store once a sequence of sector writes has landed on it: each       *)
(* sector holds the last value written to it.                              *)
Landed(store, ws) ==
    [s \in DOMAIN store |->
        LET hits == {i \in DOMAIN ws : ws[i].lba = s}
        IN  IF hits = {} THEN store[s]
            ELSE ws[CHOOSE i \in hits : \A j \in hits : j <= i].val]

Init ==
    /\ medium \in [Sectors -> Val]
    /\ pending = <<>>
    /\ degraded = FALSE

(* The host's next writes join the tail of the queue.                      *)
Accept ==
    /\ pending' \in Seq(SectorWrite)
    /\ Len(pending') > Len(pending)
    /\ SubSeq(pending', 1, Len(pending)) = pending
    /\ UNCHANGED <<medium, degraded>>

Land ==
    /\ pending # <<>>
    /\ medium' = [medium EXCEPT ![Head(pending).lba] = Head(pending).val]
    /\ pending' = Tail(pending)
    /\ UNCHANGED degraded

(* The card refuses a transfer: the oldest writes are lost.                *)
Drop ==
    /\ \E n \in 0..Len(pending) :
          pending' = SubSeq(pending, n + 1, Len(pending))
    /\ degraded' = TRUE
    /\ UNCHANGED medium

Restart ==
    /\ pending' = <<>>
    /\ degraded' = FALSE
    /\ UNCHANGED medium

Next == Accept \/ Land \/ Drop \/ Restart

Spec == Init /\ [][Next]_vars
=============================================================================
