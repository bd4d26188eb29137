------------------------------- MODULE NEvent -------------------------------
(***************************************************************************)
(* The event scheduler of the emulated machine (nevent.c), driven as       *)
(* pccore_exec() drives it: the CPU runs a slice, nevent_progress() takes  *)
(* its cycles off every event and runs the callbacks that are due, until   *)
(* screendisp() ends the frame.                                            *)
(*                                                                         *)
(* Clocks count from the start of the slice.  CPU_BASECLOCK is its length, *)
(* CPU_REMCLOCK what is left of it; their difference has elapsed.  All of  *)
(* it runs on the emulator's task, but the order of instructions, port     *)
(* writes, ends of slice and callbacks is the guest's.                     *)
(*                                                                         *)
(* Of the events three are kept: FLAMES, a rate generator like ITIMER, and *)
(* a one-shot like PICMASK that the rate generator's callback sets.        *)
(***************************************************************************)
EXTENDS Integers, Sequences, FiniteSets
Fs == INSTANCE FiniteSetsExt

CONSTANTS FLAMES, ITIMER, PICMASK,
          NEVENT_MAXCLOCK,     \* slice length when no event is set
          DispClock, VsyncClock, \* the two parts of a frame, at multiple 1
          Periods,             \* cycles events are set for
          Costs,               \* cycles an instruction takes
          Mults,               \* clock multiples
          Wrap,                \* CPU_CLOCK wraps here (2^32)
          MaxShadow            \* STIs and their like in a row

Ids == {FLAMES, ITIMER, PICMASK}

ASSUME NEventAssumption ==
    /\ FLAMES # ITIMER /\ FLAMES # PICMASK /\ ITIMER # PICMASK
    /\ NEVENT_MAXCLOCK \in Nat \ {0} /\ Wrap \in Nat \ {0} /\ MaxShadow \in Nat \ {0}
    /\ DispClock \in Nat \ {0} /\ VsyncClock \in Nat \ {0}
    /\ \A S \in {Periods, Costs, Mults} : S # {} /\ S \subseteq Nat \ {0}

VARIABLES
    ev,              \* g_nevent and the slice: see Events
    waitevent,       \* expired events whose callbacks are still to run
    CPU_CLOCK,       \* cycles of the slices that are over
    multiple,        \* pccore.multiple
    proc,            \* FLAMES's callback: "vsync" or "disp"
    screendispflag,  \* the frame goes on
    shadow,          \* instructions in a row that made sure of one more
    pc,              \* "host", "cpu" or "callbacks"
    spent            \* ghost: cycles the last step took

vars == <<ev, waitevent, CPU_CLOCK, multiple, proc, screendispflag, shadow,
          pc, spent>>

(* level: events set, the earliest first; setevent: those with             *)
(* NEVENT_SETEVENT in flag.                                                *)
Events == [clock : [Ids -> Int], setevent : SUBSET Ids, level : Seq(Ids),
           base : Int, rem : Int]

Elems(s) == {s[i] : i \in DOMAIN s}
Distinct(s) == \A i, j \in DOMAIN s : s[i] = s[j] => i = j

TypeOK ==
    /\ ev \in Events /\ waitevent \in Seq(Ids)
    /\ Distinct(ev.level) /\ Distinct(waitevent)
    /\ CPU_CLOCK \in 0..(Wrap - 1)
    /\ multiple \in Mults /\ proc \in {"vsync", "disp"}
    /\ screendispflag \in BOOLEAN /\ shadow \in 0..MaxShadow
    /\ pc \in {"host", "cpu", "callbacks"}

-----------------------------------------------------------------------------
Elapsed(e) == e.base - e.rem

(* A list without those not in S, as a loop closes it up.                  *)
Those(s, S) ==
    LET kept[n \in 0..Len(s)] ==
            IF n = 0 THEN <<>>
            ELSE IF s[n] \in S THEN Append(kept[n - 1], s[n]) ELSE kept[n - 1]
    IN  kept[Len(s)]

(* nevent_reset(): the event leaves the list.  What it does not do is stop *)
(* the callback of one that has expired.                                   *)
Reset(e, id) == [e EXCEPT !.level = Those(e.level, Ids \ {id})]

(* The event goes behind those due no later, and as the first of the list  *)
(* it sets the slice's end.                                                *)
SetAt(e, id, at) ==
    LET sooner == {x \in Ids \ {id} : e.clock[x] <= at}
        first  == Those(e.level, sooner)
        last   == Those(e.level, Ids \ (sooner \cup {id}))
    IN  [clock |-> [e.clock EXCEPT ![id] = at],
         setevent |-> e.setevent \ {id},
         level |-> first \o <<id>> \o last,
         base |-> IF first = <<>> THEN at ELSE e.base,
         rem |-> IF first = <<>> THEN at - Elapsed(e) ELSE e.rem]

(* Faulty: a late event pushes those after it back.                        *)
SetFromNow(e, id, clk, absolute) == SetAt(e, id, clk + Elapsed(e))

(* nevent_set(): clk, counted from now or from the event's last due time.  *)
Set(e, id, clk, absolute) ==
    SetAt(e, id, IF absolute THEN clk + Elapsed(e) ELSE e.clock[id] + clk)

(* Faulty: a slice cut short is counted in full.                           *)
ForceExitUncounted(e) == IF e.rem > 0 THEN [e EXCEPT !.rem = 0] ELSE e

(* nevent_forceexit(): the slice ends here.                                *)
ForceExit(e) ==
    IF e.rem > 0 THEN [e EXCEPT !.base = @ - e.rem, !.rem = 0] ELSE e

-----------------------------------------------------------------------------
Init ==
    /\ ev = [clock |-> [id \in Ids |-> 0], setevent |-> {}, level |-> <<>>,
             base |-> 0, rem |-> 0]
    /\ waitevent = <<>> /\ CPU_CLOCK = 0
    /\ multiple \in Mults /\ proc = "vsync"
    /\ screendispflag = FALSE /\ shadow = 0 /\ pc = "host" /\ spent = 0

(* Between frames the loop sets events from now (a key that arms the       *)
(* keyboard's).                                                            *)
HostSet ==
    /\ pc = "host"
    /\ \E n \in Periods : ev' = Set(ev, PICMASK, n, TRUE)
    /\ spent' = 0
    /\ UNCHANGED <<waitevent, CPU_CLOCK, multiple, proc, screendispflag, shadow, pc>>

(* Scaling as C does it: to the nearest, the quotient truncated.           *)
Scaled(n, new) ==
    LET x == n * new + multiple \div 2
    IN  IF x >= 0 THEN x \div multiple ELSE -((-x) \div multiple)

(* nevent_changeclock(): the menu's CPU row, between two frames.           *)
ChangeClock ==
    /\ pc = "host"
    /\ \E new \in Mults \ {multiple} :
         /\ multiple' = new
         /\ ev' = IF ev.level = <<>> THEN ev ELSE
              LET At(id) == IF Scaled(ev.clock[id], new) > 0
                            THEN Scaled(ev.clock[id], new) ELSE 1
                  clock == [id \in Ids |-> IF id \in Elems(ev.level) /\ ev.clock[id] > 0
                                           THEN At(id) ELSE ev.clock[id]]
                  first == clock[ev.level[1]]
              IN  [ev EXCEPT !.clock = clock,
                     !.base = IF ev.base = ev.rem THEN first ELSE Scaled(@, new),
                     !.rem = IF ev.base = ev.rem THEN first ELSE Scaled(@, new)]
    /\ spent' = 0
    /\ UNCHANGED <<waitevent, CPU_CLOCK, proc, screendispflag, shadow, pc>>

(* pccore_exec() begins a frame.                                           *)
StartFrame ==
    /\ pc = "host"
    /\ ev' = Set(ev, FLAMES, DispClock * multiple, FALSE)
    /\ proc' = "vsync" /\ screendispflag' = TRUE /\ pc' = "callbacks" /\ spent' = 0
    /\ UNCHANGED <<waitevent, CPU_CLOCK, multiple, shadow>>

(* What the instruction's port accesses do to the events.                  *)
Effects(e) == {e, ForceExit(e)}
              \cup {Set(e, ITIMER, n * multiple, TRUE) : n \in Periods}
              \cup {Set(e, PICMASK, n, TRUE) : n \in Periods}
              \cup {Reset(e, id) : id \in {ITIMER, PICMASK}}

(* After n cycles.  HLT instead ends the slice one cycle late.             *)
Spend(n) == [ev EXCEPT !.rem = @ - n]

(* An instruction.  STI, POPF and the like leave exactly one cycle, so     *)
(* that one more instruction runs (NEXT_OPCODE, REMAIN_ADJUST).            *)
Instruction(n) ==
    /\ pc = "cpu" /\ ev.rem > 0
    /\ \E e \in {Spend(n)} : ev' \in Effects(e)
    /\ shadow' = 0 /\ spent' = n
    /\ UNCHANGED <<waitevent, CPU_CLOCK, multiple, proc, screendispflag, pc>>

Halt == Instruction(ev.rem + 1)

ShadowInstruction(n) ==
    /\ pc = "cpu" /\ ev.rem > 0 /\ shadow < MaxShadow
    /\ ev' = [ev EXCEPT !.base = @ - (ev.rem - n) + 1, !.rem = 1]
    /\ shadow' = shadow + 1 /\ spent' = n
    /\ UNCHANGED <<waitevent, CPU_CLOCK, multiple, proc, screendispflag, pc>>

(* nevent_progress() up to nevent_execute(): the slice's cycles come off   *)
(* every event, those due go to waitevent, the next slice ends with the    *)
(* first that is not.  A list without FLAMES ends the frame.               *)
SliceEnds(due) ==
    /\ pc = "cpu" /\ ev.rem <= 0
    /\ LET after(id) == ev.clock[id] - ev.base
           level == Elems(ev.level)
           waits == {id \in level : after(id) > due}
           next  == Fs!Min({NEVENT_MAXCLOCK} \cup {after(id) : id \in waits})
       IN  /\ ev' = [clock |-> [id \in Ids |-> IF id \in level THEN after(id) ELSE ev.clock[id]],
                     setevent |-> ev.setevent \cup (level \ waits),
                     level |-> Those(ev.level, waits), base |-> next, rem |-> ev.rem + next]
           /\ waitevent' = Those(ev.level, Ids \ (waits \cup ev.setevent))
    /\ CPU_CLOCK' = (CPU_CLOCK + ev.base) % Wrap
    /\ screendispflag' = (screendispflag /\ FLAMES \in Elems(ev.level))
    /\ pc' = "callbacks" /\ spent' = 0
    /\ UNCHANGED <<multiple, proc, shadow>>

(* Faulty: due one cycle late, so that a slice of no cycles never ends.    *)
ProgressLate == SliceEnds(-1)

Progress == SliceEnds(0)

(* Leaving a callback: nevent_execute() clears NEVENT_SETEVENT.            *)
Served(e, id) ==
    /\ ev' = [e EXCEPT !.setevent = @ \ {id}]
    /\ waitevent' = Tail(waitevent) /\ spent' = 0
    /\ UNCHANGED <<CPU_CLOCK, multiple, shadow, pc>>

InCallback(id) == pc = "callbacks" /\ waitevent # <<>> /\ Head(waitevent) = id

(* screenvsync() and screendisp(), which do not look at flag.              *)
Screen ==
    /\ InCallback(FLAMES)
    /\ \/ /\ proc = "vsync" /\ proc' = "disp"
          /\ Served(Set(ev, FLAMES, VsyncClock * multiple, FALSE), FLAMES)
          /\ UNCHANGED screendispflag
       \/ /\ proc = "disp" /\ screendispflag' = FALSE
          /\ Served(ev, FLAMES) /\ UNCHANGED proc

(* systimer(): a masked timer interrupt sets PICMASK; the timer goes on at *)
(* its period.                                                             *)
SysTimer ==
    /\ InCallback(ITIMER) /\ ITIMER \in ev.setevent
    /\ \E n, m \in Periods :
          \E e \in {ev, Set(ev, PICMASK, m, TRUE)} :
             Served(Set(e, ITIMER, n * multiple, FALSE), ITIMER)
    /\ UNCHANGED <<proc, screendispflag>>

(* picmask() and one-shots: some set themselves again (keyboard_callback). *)
OneShot ==
    /\ InCallback(PICMASK) /\ PICMASK \in ev.setevent
    /\ \E e \in {ev} \cup {Set(ev, PICMASK, n, FALSE) : n \in Periods} :
          Served(e, PICMASK)
    /\ UNCHANGED <<proc, screendispflag>>

(* A callback that finds NEVENT_SETEVENT cleared does nothing: the event   *)
(* was set anew after it expired.                                          *)
Superseded ==
    /\ \E id \in {ITIMER, PICMASK} \ ev.setevent :
          InCallback(id) /\ Served(ev, id)
    /\ UNCHANGED <<proc, screendispflag>>

(* All callbacks have run: the frame ends, or pic_irq() delivers what is   *)
(* pending (the timer's interrupt cancels PICMASK) and the CPU goes on.    *)
Resume ==
    /\ pc = "callbacks" /\ waitevent = <<>>
    /\ \/ ~screendispflag /\ pc' = "host" /\ ev' = ev
       \/ screendispflag /\ pc' = "cpu" /\ ev' \in {ev, Reset(ev, PICMASK)}
    /\ spent' = 0
    /\ UNCHANGED <<waitevent, CPU_CLOCK, multiple, proc, screendispflag, shadow>>

Run == Halt \/ \E n \in Costs : Instruction(n) \/ ShadowInstruction(n)
Callback == Screen \/ SysTimer \/ OneShot \/ Superseded
Frame == Run \/ Progress \/ Callback \/ Resume

Next == HostSet \/ ChangeClock \/ StartFrame \/ Frame

(* pccore_exec() is a loop that waits for nothing.                         *)
Spec == Init /\ [][Next]_vars /\ WF_vars(Frame)

-----------------------------------------------------------------------------
(* What is asked of the timers, in cycles at any multiple.                 *)
Scale(S) == {n * m : n \in S, m \in Mults}
Delays == [id \in Ids |->
             CASE id = FLAMES -> Scale({DispClock, VsyncClock})
               [] id = ITIMER -> Scale(Periods)
               [] OTHER -> Periods]

T == INSTANCE Timers WITH
        armed <- Elems(ev.level),
        firing <- Elems(waitevent) \cap ev.setevent,
        left <- [id \in Ids |-> ev.clock[id] - Elapsed(ev)],
        shadow <- shadow > 0,
        frame <- screendispflag

(* The list, the two queues and the slice do what the timers promise: what *)
(* is due runs in time order, once, before another instruction that no STI *)
(* protects, and a timer that goes on keeps its phase.                     *)
Implements == T!Spec

(* Pacing, sound and the input of the analog board read the cycles run so  *)
(* far as CPU_CLOCK + CPU_BASECLOCK - CPU_REMCLOCK (main.cpp).  Setting    *)
(* events, ending slices early and stretching them never make that jump:   *)
(* it moves by what the CPU spent, and otherwise with the clock alone.     *)
Cycles == (CPU_CLOCK + Elapsed(ev)) % Wrap

CyclesCounted ==
    [][multiple' = multiple => Cycles' = (Cycles + spent') % Wrap]_vars

(* A frame always ends, whatever events the guest sets: the loop of        *)
(* pccore_exec() has no other way out.                                     *)
FrameEnds == (pc = "cpu") ~> (pc = "host")
=============================================================================
