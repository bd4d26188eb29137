----------------------------- MODULE FlushTimer -----------------------------
(***************************************************************************)
(* The clock behind the idle flush of USB Mode (src/main/usb_msc.cpp).     *)
(*                                                                         *)
(* The main loop polls, and settles the write-back cache when sectors are  *)
(* collected and the last write is more than FLUSH_IDLE_MS old.  It takes  *)
(* no lock for that test, and the milliseconds it compares are unsigned    *)
(* and wrap.  WriteCache leaves the outcome of the test open; here it is   *)
(* decided, and everything WriteCache models in detail is one step.        *)
(***************************************************************************)
EXTENDS Naturals

CONSTANTS Wrap,          \* the millisecond counter counts modulo Wrap (2^32)
          FLUSH_IDLE_MS, \* 100 ms, in ticks
          PollDelay,     \* the loop's vTaskDelay: 20 ms, in ticks
          Preempt,       \* ticks the tusb task may take from the loop
                         \* between its two reads
          CacheSectors,  \* sectors in one buffer
          MaxAge         \* bound: ages are counted up to here

(* How late the loop can find the host quiet: one sleep, and a preemption  *)
(* in the test that just missed it and in the one that finds it.           *)
Lag == PollDelay + 2 * Preempt

ASSUME TimerAssumption ==
    /\ PollDelay \in Nat \ {0} /\ CacheSectors \in Nat \ {0}
    /\ Wrap \in Nat /\ FLUSH_IDLE_MS \in Nat /\ Preempt \in Nat /\ MaxAge \in Nat
    /\ FLUSH_IDLE_MS + Lag < Wrap
    /\ FLUSH_IDLE_MS + Lag < MaxAge

VARIABLES clock,            \* esp_timer_get_time() / 1000 as a uint32_t
          s_last_write_ms,
          s_count,          \* sectors collected and not handed to the writer
          loop,             \* where the main loop stands
          now,              \* the clock as the loop's test has read it
          sleep,            \* ticks the loop sleeps, or may be preempted
          quiet             \* ghost: ticks since the host wrote last

timerVars == <<clock, s_last_write_ms, s_count, loop, now, sleep, quiet>>

Older(age) == IF age < MaxAge THEN age + 1 ELSE age

TimerInit ==
    /\ clock \in 0..(Wrap - 1)
    /\ s_last_write_ms = 0 /\ s_count = 0
    /\ loop = "poll" /\ now = 0 /\ sleep = 0
    /\ quiet = 0

(* A millisecond tick.  The loop is late by no more than Preempt.          *)
Tick ==
    /\ loop \in {"sleep", "test"} /\ sleep > 0
    /\ clock' = IF clock + 1 = Wrap THEN 0 ELSE clock + 1
    /\ sleep' = sleep - 1
    /\ quiet' = Older(quiet)
    /\ UNCHANGED <<s_last_write_ms, s_count, loop, now>>

(* The tail of write10: one more sector, and the buffer goes to the writer *)
(* when it is full.                                                        *)
HostWrite ==
    /\ s_count' = IF s_count + 1 = CacheSectors THEN 0 ELSE s_count + 1
    /\ s_last_write_ms' = clock
    /\ quiet' = 0
    /\ UNCHANGED <<clock, loop, now, sleep>>

(* A read or SYNCHRONIZE CACHE: the barrier settles everything.            *)
HostSettle ==
    /\ s_count > 0
    /\ s_count' = 0
    /\ UNCHANGED <<clock, s_last_write_ms, loop, now, sleep, quiet>>

(* The loop wakes, finds sectors collected and reads the clock; the host   *)
(* may write before it goes on to read s_last_write_ms.                    *)
Wake ==
    /\ loop = "sleep" /\ sleep = 0
    /\ loop' = "poll"
    /\ UNCHANGED <<clock, s_last_write_ms, s_count, now, sleep, quiet>>

ReadClock ==
    /\ loop = "poll"
    /\ IF s_count > 0
       THEN loop' = "test" /\ now' = clock /\ sleep' = Preempt
       ELSE loop' = "sleep" /\ sleep' = PollDelay /\ UNCHANGED now
    /\ UNCHANGED <<clock, s_last_write_ms, s_count, quiet>>

(* Faulty: a subtraction that saturates at zero instead of wrapping.       *)
IdleForSigned == IF now > s_last_write_ms THEN now - s_last_write_ms ELSE 0

(* now - s_last_write_ms, as the unsigned subtraction it is.               *)
IdleFor ==
    IF now >= s_last_write_ms THEN now - s_last_write_ms ELSE now + Wrap - s_last_write_ms

Test ==
    /\ loop = "test"
    /\ s_count' = IF IdleFor > FLUSH_IDLE_MS THEN 0 ELSE s_count
    /\ loop' = "sleep" /\ sleep' = PollDelay
    /\ UNCHANGED <<clock, s_last_write_ms, now, quiet>>

TimerNext == Tick \/ HostWrite \/ HostSettle \/ Wake \/ ReadClock \/ Test

TimerSpec == TimerInit /\ [][TimerNext]_timerVars

-----------------------------------------------------------------------------
(* The types of the variables.                                             *)
TimerTypeOK ==
    /\ clock \in 0..(Wrap - 1) /\ s_last_write_ms \in 0..(Wrap - 1)
    /\ s_count \in 0..(CacheSectors - 1) /\ loop \in {"sleep", "poll", "test"}
    /\ now \in 0..(Wrap - 1) /\ sleep \in 0..(PollDelay + Preempt)
    /\ quiet \in 0..MaxAge

(* Once the host has written nothing for FLUSH_IDLE_MS and the loop's lag, *)
(* no sector is left in the buffer, wherever the counter wraps and however *)
(* the unlocked test interleaves with a write.  It says nothing of a host  *)
(* that goes on writing slowly: each write puts the flush off.             *)
QuietLossBounded == s_count > 0 => quiet <= FLUSH_IDLE_MS + Lag
=============================================================================
