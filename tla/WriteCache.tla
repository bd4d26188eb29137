----------------------------- MODULE WriteCache -----------------------------
(***************************************************************************)
(* The SD card reader's write-back cache (src/main/usb_msc.cpp).           *)
(*                                                                         *)
(* Four tasks share it.  "tusb" runs TinyUSB's callbacks, one host command *)
(* at a time; "main" polls every 20 ms and settles the cache when the host *)
(* has gone quiet; "escape" leaves USB Mode on a tap or ESC; the writer    *)
(* task is the only one that writes the card.  The first three take s_mux; *)
(* the writer never does, and meets them only at the job queue and the     *)
(* counting semaphore of free buffers.                                     *)
(*                                                                         *)
(* A step is what one task does between two points where it may wait or    *)
(* another task's view of the shared state matters: taking s_mux, taking a *)
(* buffer, copying one run of sectors, one sector reaching the card.       *)
(***************************************************************************)
EXTENDS Naturals, Sequences, FiniteSets

CONSTANTS Last,             \* the last sector of the card
          CACHE_BUFS,       \* write-back buffers (2 in the code)
          CacheSectors,     \* s_cache_sectors: sectors in one buffer
          MaxXfer,          \* bound: sectors in one write10 callback
          Val,              \* contents of a sector
          Blank,            \* buffer memory no write has filled
          NoTask, NoJob     \* s_mux is free; the writer is waiting

Sectors == 0..Last
Buffers == 0..(CACHE_BUFS - 1)
Tasks   == {"tusb", "main", "escape"}

ASSUME SizesAssumption ==
    /\ Last \in Nat /\ CACHE_BUFS \in Nat \ {0}
    /\ CacheSectors \in Nat \ {0} /\ MaxXfer \in Nat \ {0}
ASSUME NamesAssumption ==
    /\ Blank \notin Val
    /\ NoTask \notin Tasks
    /\ NoJob \notin [idx : Buffers, lba : Sectors, count : 1..CacheSectors]

VARIABLES
    card,         \* what the card holds
    s_cache,      \* the buffers' contents
    s_fill,       \* the buffer being filled
    s_have_buf,   \* its token has been taken from s_free_bufs
    s_lba,        \* first sector of the run being collected
    s_count,      \* sectors collected
    s_wr_queue,   \* jobs handed to the writer
    s_free_bufs,  \* counting semaphore: buffers nobody owns
    s_mux,        \* holder of the cache mutex
    s_failed,     \* a card write has failed
    job,          \* the writer's current job
    landed,       \* sectors of it already on the card
    pc,           \* where each task that uses s_mux stands
    taken,        \* tokens barrier_locked() has collected
    cmd,          \* the host command the tusb task serves
    accepted      \* ghost: last value the host handed over, per sector

cacheVars  == <<s_cache, s_fill, s_have_buf, s_lba, s_count>>
writerVars == <<card, job, landed, s_failed>>
vars == <<cacheVars, writerVars, s_wr_queue, s_free_bufs, s_mux, pc, taken,
          cmd, accepted>>

Job == [idx : Buffers, lba : Sectors, count : 1..CacheSectors]
Xfer == UNION {[1..n -> Val] : n \in 1..MaxXfer}
NoCmd == [op |-> "none", lba |-> 0, data |-> <<>>]

(* What is left of a command, in the form the tusb task holds it: the next *)
(* sector and the data still to copy.                                      *)
Cmd == [op : {"none", "flush", "touch", "write"}, lba : Nat,
        data : {d \in Seq(Val) : Len(d) <= MaxXfer}]

Sq == INSTANCE SequencesExt

-----------------------------------------------------------------------------
Contents == Val \cup {Blank}
BlankBuffer == [k \in 0..(CacheSectors - 1) |-> Blank]

(* RAM as usb_msc_run() sets it up, over a card that keeps its contents.   *)
Init ==
    /\ card \in [Sectors -> Val] /\ accepted = card
    /\ s_cache = [b \in Buffers |-> BlankBuffer]
    /\ s_fill = 0 /\ s_have_buf = FALSE /\ s_lba = 0 /\ s_count = 0
    /\ s_wr_queue = <<>> /\ s_free_bufs = CACHE_BUFS /\ s_mux = NoTask
    /\ s_failed = FALSE /\ job = NoJob /\ landed = 0
    /\ pc = [t \in Tasks |-> "idle"]
    /\ taken = 0 /\ cmd = NoCmd

(* Faulty: a job jumps the queue.                                          *)
SubmitToFront(cnt) ==
    /\ Len(s_wr_queue) < CACHE_BUFS
    /\ s_wr_queue' = <<[idx |-> s_fill, lba |-> s_lba, count |-> cnt]>> \o s_wr_queue
    /\ s_fill' = (s_fill + 1) % CACHE_BUFS
    /\ s_count' = 0
    /\ s_have_buf' = FALSE

(* Submitting the filled buffer: submit_locked() past its empty check.     *)
(* xQueueSend waits for room, which is the first conjunct.                 *)
Submit(cnt) ==
    /\ Len(s_wr_queue) < CACHE_BUFS
    /\ s_wr_queue' = Append(s_wr_queue,
                            [idx |-> s_fill, lba |-> s_lba, count |-> cnt])
    /\ s_fill' = (s_fill + 1) % CACHE_BUFS
    /\ s_count' = 0
    /\ s_have_buf' = FALSE

Go(t, label) == pc' = [pc EXCEPT ![t] = label]

-----------------------------------------------------------------------------
(* The host issues a command; the tusb task takes it up.  A write is        *)
(* refused before s_mux is taken once a card write has failed.             *)
HostWrite ==
    /\ pc["tusb"] = "idle" /\ ~s_failed
    /\ \E d \in Xfer, s \in Sectors :
          /\ s + Len(d) <= Last + 1
          /\ cmd' = [op |-> "write", lba |-> s, data |-> d]
    /\ Go("tusb", "w_lock")
    /\ UNCHANGED <<cacheVars, writerVars, s_wr_queue, s_free_bufs, s_mux,
                   taken, accepted>>

(* Faulty: the touch restarts without the flush.                           *)
TouchUnflushed ==
    /\ pc["tusb"] = "idle"
    /\ \E o \in {"flush", "touch"} :
          /\ cmd' = [op |-> o, lba |-> 0, data |-> <<>>]
          /\ Go("tusb", IF o = "touch" THEN "restart" ELSE "lock")
    /\ UNCHANGED <<cacheVars, writerVars, s_wr_queue, s_free_bufs, s_mux,
                   taken, accepted>>

(* A read, SYNCHRONIZE CACHE or eject ("flush"), or the 1200 baud touch:   *)
(* each starts with the barrier.                                           *)
HostSettle ==
    /\ pc["tusb"] = "idle"
    /\ \E o \in {"flush", "touch"} :
          cmd' = [op |-> o, lba |-> 0, data |-> <<>>]
    /\ Go("tusb", "lock")
    /\ UNCHANGED <<cacheVars, writerVars, s_wr_queue, s_free_bufs, s_mux,
                   taken, accepted>>

(* Faulty: the contiguity test is missing.                                 *)
WriteLockAnywhere ==
    /\ pc["tusb"] = "w_lock" /\ s_mux = NoTask
    /\ s_mux' = "tusb"
    /\ s_lba' = IF s_count = 0 THEN cmd.lba ELSE s_lba
    /\ Go("tusb", "w_copy")
    /\ UNCHANGED <<s_cache, s_fill, s_have_buf, s_count, s_wr_queue, writerVars,
                   s_free_bufs, taken, cmd, accepted>>

(* write10 takes s_mux; a run that is no longer contiguous is submitted    *)
(* and a new one starts at the command's sector.                           *)
WriteLock ==
    /\ pc["tusb"] = "w_lock" /\ s_mux = NoTask
    /\ s_mux' = "tusb"
    /\ IF s_count > 0 /\ cmd.lba # s_lba + s_count
       THEN Submit(s_count) /\ s_lba' = cmd.lba
       ELSE /\ s_lba' = IF s_count = 0 THEN cmd.lba ELSE s_lba
            /\ UNCHANGED <<s_wr_queue, s_fill, s_count, s_have_buf>>
    /\ Go("tusb", "w_copy")
    /\ UNCHANGED <<s_cache, writerVars, s_free_bufs, taken, cmd, accepted>>

(* Faulty: takes a buffer without waiting for one to be free.              *)
WriteTakeAnyBuf ==
    /\ pc["tusb"] = "w_copy" /\ cmd.data # <<>> /\ ~s_have_buf
    /\ s_free_bufs' = IF s_free_bufs > 0 THEN s_free_bufs - 1 ELSE 0
    /\ s_have_buf' = TRUE
    /\ UNCHANGED <<s_cache, s_fill, s_lba, s_count, writerVars, s_wr_queue,
                   s_mux, pc, taken, cmd, accepted>>

(* ... waits for a buffer if it has none ...                               *)
WriteTakeBuf ==
    /\ pc["tusb"] = "w_copy" /\ cmd.data # <<>> /\ ~s_have_buf
    /\ s_free_bufs > 0
    /\ s_free_bufs' = s_free_bufs - 1
    /\ s_have_buf' = TRUE
    /\ UNCHANGED <<s_cache, s_fill, s_lba, s_count, writerVars, s_wr_queue,
                   s_mux, pc, taken, cmd, accepted>>

(* ... copies what fits, and submits the buffer when it is full ...        *)
WriteCopy ==
    /\ pc["tusb"] = "w_copy" /\ cmd.data # <<>> /\ s_have_buf
    /\ LET room == CacheSectors - s_count
           n    == IF Len(cmd.data) < room THEN Len(cmd.data) ELSE room
           full == s_count + n = CacheSectors
       IN  /\ s_cache' = [s_cache EXCEPT ![s_fill] =
                 [k \in 0..(CacheSectors - 1) |->
                     IF k \in s_count..(s_count + n - 1)
                     THEN cmd.data[k - s_count + 1]
                     ELSE s_cache[s_fill][k]]]
           /\ accepted' = [s \in Sectors |->
                 IF s \in cmd.lba..(cmd.lba + n - 1)
                 THEN cmd.data[s - cmd.lba + 1] ELSE accepted[s]]
           /\ cmd' = [cmd EXCEPT !.lba  = @ + n,
                                 !.data = SubSeq(@, n + 1, Len(@))]
           /\ IF full
              THEN Submit(s_count + n) /\ s_lba' = s_lba + s_count + n
              ELSE /\ s_count' = s_count + n
                   /\ UNCHANGED <<s_lba, s_fill, s_have_buf, s_wr_queue>>
    /\ UNCHANGED <<writerVars, s_free_bufs, s_mux, pc, taken>>

(* ... and acknowledges.                                                   *)
WriteDone ==
    /\ pc["tusb"] = "w_copy" /\ cmd.data = <<>>
    /\ s_mux' = NoTask /\ cmd' = NoCmd
    /\ Go("tusb", "idle")
    /\ UNCHANGED <<cacheVars, writerVars, s_wr_queue, s_free_bufs, taken,
                   accepted>>

-----------------------------------------------------------------------------
(* Faulty: only a full buffer is settled when the host goes quiet.         *)
MainCheckFull ==
    /\ pc["main"] = "idle" /\ s_count = CacheSectors
    /\ Go("main", "lock")
    /\ UNCHANGED <<cacheVars, writerVars, s_wr_queue, s_free_bufs, s_mux,
                   taken, cmd, accepted>>

(* The main loop finds sectors collected and the host quiet for longer     *)
(* than FLUSH_IDLE_MS.  It reads s_count and the clock without s_mux, so   *)
(* the answer to the timed half of the test is left open here; FlushTimer  *)
(* has the clock.                                                          *)
MainCheck ==
    /\ pc["main"] = "idle" /\ s_count > 0
    /\ Go("main", "lock")
    /\ UNCHANGED <<cacheVars, writerVars, s_wr_queue, s_free_bufs, s_mux,
                   taken, cmd, accepted>>

(* A tap on the panel or ESC on the keyboard.                              *)
Escape ==
    /\ pc["escape"] = "idle"
    /\ Go("escape", "lock")
    /\ UNCHANGED <<cacheVars, writerVars, s_wr_queue, s_free_bufs, s_mux,
                   taken, cmd, accepted>>

(* flush_cache() and read10: s_mux, then barrier_locked(), which submits   *)
(* what has been collected ...                                             *)
BarrierBegin(t) ==
    /\ pc[t] = "lock" /\ s_mux = NoTask
    /\ s_mux' = t
    /\ IF s_count > 0
       THEN Submit(s_count)
       ELSE UNCHANGED <<s_wr_queue, s_fill, s_count, s_have_buf>>
    /\ Go(t, "drain")
    /\ UNCHANGED <<s_cache, s_lba, writerVars, s_free_bufs, taken, cmd, accepted>>

(* ... collects every token, each one proof that a buffer is idle ...      *)
BarrierTake(t) ==
    /\ pc[t] = "drain" /\ taken < CACHE_BUFS /\ s_free_bufs > 0
    /\ s_free_bufs' = s_free_bufs - 1
    /\ taken' = taken + 1
    /\ UNCHANGED <<cacheVars, writerVars, s_wr_queue, s_mux, pc, cmd, accepted>>

(* Faulty: the loop stops one token early.                                 *)
BarrierEndEarly(t) ==
    /\ pc[t] = "drain" /\ taken = CACHE_BUFS - 1
    /\ s_free_bufs' = s_free_bufs + taken
    /\ taken' = 0
    /\ s_have_buf' = FALSE
    /\ Go(t, "settled")
    /\ UNCHANGED <<s_cache, s_fill, s_lba, s_count, writerVars, s_wr_queue,
                   s_mux, cmd, accepted>>

(* Faulty: gives back one token too few.                                   *)
BarrierEndShort(t) ==
    /\ pc[t] = "drain" /\ taken = CACHE_BUFS
    /\ s_free_bufs' = s_free_bufs + taken - 1
    /\ taken' = 0
    /\ s_have_buf' = FALSE
    /\ Go(t, "settled")
    /\ UNCHANGED <<s_cache, s_fill, s_lba, s_count, writerVars, s_wr_queue,
                   s_mux, cmd, accepted>>

(* ... and gives them all back.                                            *)
BarrierEnd(t) ==
    /\ pc[t] = "drain" /\ taken = CACHE_BUFS
    /\ s_free_bufs' = s_free_bufs + taken
    /\ taken' = 0
    /\ s_have_buf' = FALSE
    /\ Go(t, "settled")
    /\ UNCHANGED <<s_cache, s_fill, s_lba, s_count, writerVars, s_wr_queue,
                   s_mux, cmd, accepted>>

(* The caller reads the card if that is what it came for, gives s_mux back *)
(* and goes on: to its idle state, or to the restart that a touch or an    *)
(* escape was for.                                                         *)
Unlock(t) ==
    /\ pc[t] = "settled"
    /\ s_mux' = NoTask
    /\ Go(t, IF t = "escape" \/ (t = "tusb" /\ cmd.op = "touch")
             THEN "restart" ELSE "idle")
    /\ cmd' = IF t = "tusb" /\ cmd.op # "touch" THEN NoCmd ELSE cmd
    /\ UNCHANGED <<cacheVars, writerVars, s_wr_queue, s_free_bufs, taken,
                   accepted>>

-----------------------------------------------------------------------------
(* The writer task: take a job, put it on the card sector by sector, give  *)
(* the buffer's token back.  The token goes back after an error too.  The  *)
(* memory keeps its stale bytes; the model forgets them, so that anything  *)
(* that would use them shows up as Blank.                                  *)
GiveBufBack ==
    /\ s_cache' = [s_cache EXCEPT ![job.idx] = BlankBuffer]
    /\ s_free_bufs' = s_free_bufs + 1
    /\ job' = NoJob /\ landed' = 0

WriterReceive ==
    /\ job = NoJob /\ s_wr_queue # <<>>
    /\ job' = Head(s_wr_queue)
    /\ s_wr_queue' = Tail(s_wr_queue)
    /\ landed' = 0
    /\ UNCHANGED <<cacheVars, card, s_failed, s_free_bufs, s_mux, pc, taken,
                   cmd, accepted>>

WriterSector ==
    /\ job # NoJob /\ landed < job.count
    /\ card' = [card EXCEPT ![job.lba + landed] = s_cache[job.idx][landed]]
    /\ landed' = landed + 1
    /\ UNCHANGED <<cacheVars, job, s_failed, s_wr_queue, s_free_bufs, s_mux,
                   pc, taken, cmd, accepted>>

WriterDone ==
    /\ job # NoJob /\ landed = job.count
    /\ GiveBufBack
    /\ UNCHANGED <<s_fill, s_have_buf, s_lba, s_count, card, s_failed,
                   s_wr_queue, s_mux, pc, taken, cmd, accepted>>

(* Faulty: an error path that gives no token back.                         *)
WriterFailKeepsToken ==
    /\ job # NoJob /\ landed < job.count
    /\ job' = NoJob /\ landed' = 0 /\ s_failed' = TRUE
    /\ UNCHANGED <<cacheVars, card, s_wr_queue, s_free_bufs, s_mux, pc, taken,
                   cmd, accepted>>

WriterFail ==
    /\ job # NoJob /\ landed < job.count
    /\ GiveBufBack
    /\ s_failed' = TRUE
    /\ UNCHANGED <<s_fill, s_have_buf, s_lba, s_count, card, s_wr_queue,
                   s_mux, pc, taken, cmd, accepted>>

-----------------------------------------------------------------------------
(* esp_restart() or a power cut: RAM starts again, the card stays.         *)
Reboot ==
    /\ card' = card /\ accepted' = card
    /\ s_cache' = [b \in Buffers |-> BlankBuffer]
    /\ s_fill' = 0 /\ s_have_buf' = FALSE /\ s_lba' = 0 /\ s_count' = 0
    /\ s_wr_queue' = <<>> /\ s_free_bufs' = CACHE_BUFS /\ s_mux' = NoTask
    /\ s_failed' = FALSE /\ job' = NoJob /\ landed' = 0
    /\ pc' = [t \in Tasks |-> "idle"]
    /\ taken' = 0 /\ cmd' = NoCmd

RestartByTask == (pc["tusb"] = "restart" \/ pc["escape"] = "restart") /\ Reboot
PowerCut == Reboot

CallerStep(t) == BarrierBegin(t) \/ BarrierTake(t) \/ BarrierEnd(t) \/ Unlock(t)
WriteStep == WriteLock \/ WriteTakeBuf \/ WriteCopy \/ WriteDone
WriterStep == WriterReceive \/ WriterSector \/ WriterDone \/ WriterFail
HostStep == HostWrite \/ HostSettle

Next ==
    \/ HostStep \/ WriteStep \/ WriterStep
    \/ MainCheck \/ Escape
    \/ \E t \in Tasks : CallerStep(t)
    \/ RestartByTask \/ PowerCut

(* Every task the scheduler runs keeps running; the main loop finds the    *)
(* host quiet once it has sent nothing for long enough; a restart that a   *)
(* task has reached happens.  The host, the user, the power and the card's *)
(* errors owe nothing.                                                     *)
QuietCheck == pc["tusb"] = "idle" /\ MainCheck

Fairness ==
    /\ WF_vars(WriteStep)
    /\ WF_vars(WriterStep)
    /\ \A t \in Tasks : WF_vars(CallerStep(t))
    /\ WF_vars(QuietCheck)
    /\ WF_vars(RestartByTask)

Spec == Init /\ [][Next]_vars
FairSpec == Spec /\ Fairness

-----------------------------------------------------------------------------
(* The types of the variables.                                             *)
TypeOK ==
    /\ card \in [Sectors -> Contents] /\ accepted \in [Sectors -> Contents]
    /\ s_cache \in [Buffers -> [0..(CacheSectors - 1) -> Contents]]
    /\ s_fill \in Buffers /\ s_have_buf \in BOOLEAN
    /\ s_lba \in 0..(Last + 1) /\ s_count \in 0..CacheSectors
    /\ s_wr_queue \in Seq(Job) /\ s_free_bufs \in 0..CACHE_BUFS
    /\ s_mux \in Tasks \cup {NoTask}
    /\ s_failed \in BOOLEAN
    /\ job \in Job \cup {NoJob} /\ landed \in 0..CacheSectors
    /\ pc \in [Tasks -> {"idle", "lock", "drain", "settled", "w_lock",
                         "w_copy", "restart"}]
    /\ taken \in 0..CACHE_BUFS /\ cmd \in Cmd

(* A buffer is never filled while it waits for the writer or is being      *)
(* written, and no two jobs share one.  The code indexes the buffers round *)
(* robin and counts tokens, with nothing tying a token to its buffer.      *)
QueuedBufs == {s_wr_queue[i].idx : i \in DOMAIN s_wr_queue}
NoBufferRace ==
    /\ \A i, j \in DOMAIN s_wr_queue :
          s_wr_queue[i].idx = s_wr_queue[j].idx => i = j
    /\ job # NoJob => job.idx \notin QueuedBufs
    /\ s_have_buf => /\ s_fill \notin QueuedBufs
                     /\ job # NoJob => job.idx # s_fill

(* No token is ever lost or made up: a semaphore short of one would hang   *)
(* the next barrier for good, with s_mux held.                             *)
Writing == IF job = NoJob THEN 0 ELSE 1
Filling == IF s_have_buf THEN 1 ELSE 0
TokensConserved ==
    s_free_bufs + taken + Len(s_wr_queue) + Writing + Filling = CACHE_BUFS

(* xQueueSend never waits: whoever holds a filled buffer finds room in the *)
(* queue, so s_mux is never held across a wait for the queue.              *)
SubmitNeverWaits == s_have_buf => Len(s_wr_queue) < CACHE_BUFS

(* The sector writes of a job from its k-th sector on, and all those the   *)
(* host has handed over that are not on the card yet, oldest first.        *)
JobWrites(j, k) ==
    [i \in 1..(j.count - k) |->
        [lba |-> j.lba + k + i - 1, val |-> s_cache[j.idx][k + i - 1]]]

Pending ==
    (IF job = NoJob THEN <<>> ELSE JobWrites(job, landed))
        \o Sq!FlattenSeq([i \in 1..Len(s_wr_queue) |-> JobWrites(s_wr_queue[i], 0)])
        \o JobWrites([idx |-> s_fill, lba |-> s_lba, count |-> s_count], 0)

Promise == INSTANCE WriteBehind
             WITH medium <- card, pending <- Pending, degraded <- s_failed

(* Until a card write fails, everything the host has handed over is either *)
(* on the card or on its way there behind older data: the card with the    *)
(* pending writes landed in order is what the host believes it holds.      *)
AcceptedSurvives == ~s_failed => Promise!Landed(card, Pending) = accepted

(* A caller past barrier_locked() finds the card up to date, so read10     *)
(* never returns stale data, and SYNCHRONIZE CACHE, eject and the idle     *)
(* flush mean what they say - unless a card write has failed.              *)
BarrierSettles ==
    \A t \in Tasks : pc[t] = "settled" /\ ~s_failed =>
        /\ Pending = <<>>
        /\ card = accepted

(* The 1200 baud touch restarts the board with nothing stranded in RAM:    *)
(* between giving s_mux back and esp_restart() no other task can add data. *)
TouchStrandsNothing ==
    pc["tusb"] = "restart" /\ ~s_failed => card = accepted

(* The cache implements the abstract reader: host writes reach the card    *)
(* sector by sector in the order they were made, so whatever a power cut   *)
(* leaves is a prefix of them.                                             *)
WriteOrderKept == Promise!Spec

(* Every host command is answered (or the board restarts): no task waits   *)
(* for ever for s_mux, a token, or room in the queue.                      *)
HostAnswered == (pc["tusb"] # "idle") ~> (pc["tusb"] = "idle")

(* Once the host stops sending commands, all it wrote reaches the card.    *)
QuietHostSettles == <>[](pc["tusb"] = "idle") => <>[](Pending = <<>>)
=============================================================================
