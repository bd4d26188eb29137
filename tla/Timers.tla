------------------------------- MODULE Timers -------------------------------
(***************************************************************************)
(* What nevent.c promises the devices: a set of timers over the emulated   *)
(* CPU's cycles.  A timer fires once per setting, in the order of the due  *)
(* times, and while one is overdue the CPU runs nothing but the            *)
(* instruction after an STI and its like.  A timer that sets itself again  *)
(* relative to its due time keeps its phase however late it was served,    *)
(* and so does the one that ends the frame.                                *)
(***************************************************************************)
EXTENDS Integers

CONSTANTS Ids,         \* the timers
          FLAMES,      \* the one that ends the frame
          Delays       \* per timer, the cycles it may be set for

VARIABLES armed,       \* timers set and not expired
          firing,      \* timers expired whose callback has not run yet
          left,        \* cycles to the due time; negative when overdue
          shadow,      \* the next instruction runs whatever is overdue
          frame        \* a frame is running

tvars == <<armed, firing, left, shadow, frame>>

Init ==
    /\ armed = {} /\ firing = {} /\ frame = FALSE /\ shadow = FALSE
    /\ left = [id \in Ids |-> 0]

(* The timers whose left means something.                                  *)
Live == armed \cup firing \cup (IF frame THEN {} ELSE {FLAMES})

(* n cycles pass; the timers of new are set, from now.                     *)
Elapse(n, new) ==
    /\ \A id \in new : left'[id] \in Delays[id]
    /\ \A id \in Live' \ new : left'[id] = left[id] - n

(* How long an instruction takes, by the timer it does not set.            *)
Cycles == left[FLAMES] - left'[FLAMES]

(* An instruction; it may set timers and cancel others.                    *)
Instruction ==
    /\ frame /\ firing = {}
    /\ shadow \/ \A id \in armed : left[id] > 0
    /\ \E new, gone \in SUBSET (Ids \ {FLAMES}) :
         /\ armed' = (armed \ gone) \cup new
         /\ Cycles > 0 /\ Elapse(Cycles, new)
    /\ shadow' \in BOOLEAN
    /\ UNCHANGED <<firing, frame>>

(* An interrupt is taken, which cancels timers.                            *)
Cancel ==
    /\ frame /\ firing = {}
    /\ \E gone \in SUBSET (Ids \ {FLAMES}) : armed' = armed \ gone
    /\ Elapse(0, {})
    /\ UNCHANGED <<firing, shadow, frame>>

(* Every overdue timer expires.                                            *)
Expire ==
    /\ frame /\ firing = {} /\ ~shadow
    /\ \E S \in SUBSET armed :
         /\ S # {} /\ \A id \in S : left[id] <= 0
         /\ \A id \in S, other \in armed \ S : left[id] < left[other]
         /\ firing' = S /\ armed' = armed \ S
    /\ Elapse(0, {})
    /\ UNCHANGED <<shadow, frame>>

(* The callback of the earliest expired timer runs.  It may set its timer  *)
(* from its due time and others from now; one that was to fire and is set  *)
(* anew waits again.  Only FLAMES ends the frame, and when it is not set.  *)
Serve(id) ==
    /\ \A other \in firing : left[id] <= left[other]
    /\ \E new \in SUBSET (Ids \ {id, FLAMES}), again \in SUBSET {id} :
         /\ firing' = firing \ ({id} \cup new)
         /\ armed' = armed \cup new \cup again
         /\ frame' = (frame /\ (id = FLAMES => again # {}))
         /\ \A t \in new : left'[t] \in Delays[t]
         /\ \A t \in again : left'[t] - left[t] \in Delays[t]
         /\ \A t \in Live' \ (new \cup again) : left'[t] = left[t]
    /\ UNCHANGED shadow

(* Between frames the host sets timers, or changes the speed, which moves  *)
(* the due times, puts none before an earlier one, and by its rounding     *)
(* makes none more than one cycle overdue that was not.                    *)
HostSets ==
    /\ ~frame /\ firing = {}
    /\ \E new \in SUBSET (Ids \ {FLAMES}) : armed' = armed \cup new /\ Elapse(0, new)
    /\ UNCHANGED <<firing, shadow, frame>>

Rescale ==
    /\ ~frame /\ firing = {}
    /\ \A s, t \in armed : left[s] <= left[t] => left'[s] <= left'[t]
    /\ \A t \in armed : left[t] > 0 => left'[t] >= -1
    /\ UNCHANGED <<armed, firing, shadow, frame>>

(* A frame starts; FLAMES goes on from its last due time.                  *)
StartFrame ==
    /\ ~frame /\ firing = {}
    /\ frame' = TRUE /\ armed' = armed \cup {FLAMES}
    /\ left'[FLAMES] - left[FLAMES] \in Delays[FLAMES]
    /\ \A t \in armed : left'[t] = left[t]
    /\ UNCHANGED <<firing, shadow>>

Next ==
    \/ Instruction \/ Cancel \/ Expire \/ \E id \in firing : Serve(id)
    \/ HostSets \/ Rescale \/ StartFrame

Spec == Init /\ [][Next]_tvars
=============================================================================
