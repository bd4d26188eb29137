-------------------------- MODULE WriteCacheProofs --------------------------
(***************************************************************************)
(* Proofs about the write-back cache for every card size, number and size  *)
(* of buffers and transfer length.                                         *)
(*                                                                         *)
(* The code ties no token to a buffer: it counts tokens, fills buffers     *)
(* round robin and relies on a FIFO queue with one writer.  The inductive  *)
(* invariant makes that argument explicit: reading backwards from s_fill,  *)
(* the buffers one step behind, two steps behind, ... are exactly the ones *)
(* in the queue, newest first, and then the writer's; and there are no     *)
(* more of them than tokens out.                                           *)
(*                                                                         *)
(* On it rest two views of the contents.  Latest says where the youngest   *)
(* data of each sector is, and gives what a barrier means.  PInv says what *)
(* the pending writes come to, in their order, and gives the refinement of *)
(* WriteBehind: every step moves the head or the tail of one sequence, or  *)
(* nothing of it (PendingMoves).                                           *)
(***************************************************************************)
EXTENDS WriteCache, SequenceTheorems, WellFoundedInduction, TLAPS

(* The buffer k steps behind f, going round.                               *)
Behind(f, k) == IF k <= f THEN f - k ELSE f + CACHE_BUFS - k

Ring ==
    LET n == Len(s_wr_queue)
    IN  /\ \A i \in 1..n : s_wr_queue[i].idx = Behind(s_fill, n + 1 - i)
        /\ job # NoJob => job.idx = Behind(s_fill, n + 1)

(* s_mux is held exactly by the task inside its critical section, and only *)
(* the tusb task writes.                                                   *)
Mutex ==
    /\ \A t \in Tasks : pc[t] \in {"drain", "settled", "w_copy"} <=> s_mux = t
    /\ \A t \in Tasks : pc[t] \in {"w_lock", "w_copy"} => t = "tusb"

(* A filled buffer is never given up unsubmitted, and nothing is collected *)
(* while a barrier drains.                                                 *)
Fill ==
    /\ s_count > 0 => s_have_buf
    /\ s_have_buf /\ s_count = 0 => pc["tusb"] = "w_copy" /\ cmd.data # <<>>
    /\ \A t \in Tasks : pc[t] = "drain" => s_count = 0
    /\ taken > 0 => \E t \in Tasks : pc[t] = "drain"

(* Everything addressed lies on the card.                                  *)
InRange ==
    /\ s_lba + s_count <= Last + 1
    /\ cmd.lba + Len(cmd.data) <= Last + 1
    /\ \A i \in 1..Len(s_wr_queue) :
          s_wr_queue[i].lba + s_wr_queue[i].count <= Last + 1
    /\ job # NoJob => job.lba + job.count <= Last + 1 /\ landed <= job.count
    /\ pc["tusb"] = "w_copy" => cmd.lba = s_lba + s_count

IInv == TypeOK /\ Ring /\ Mutex /\ Fill /\ InRange /\ TokensConserved

(* The terms of the token count.                                           *)
LEMMA Counts ==
    ASSUME TypeOK
    PROVE  /\ Writing \in 0..1 /\ Filling \in 0..1
           /\ Len(s_wr_queue) \in Nat /\ s_free_bufs \in Nat /\ taken \in Nat
<1>1. Writing \in 0..1 /\ Filling \in 0..1
  BY DEF Writing, Filling
<1>2. Len(s_wr_queue) \in Nat
  BY LenProperties DEF TypeOK
<1> QED
  BY <1>1, <1>2 DEF TypeOK

(* A step that moves no token keeps the count.                             *)
LEMMA SameTokens ==
    ASSUME TokensConserved,
           UNCHANGED <<s_free_bufs, taken, s_wr_queue, job, s_have_buf>>
    PROVE  TokensConserved'
<1>1. Writing' = Writing /\ Filling' = Filling
  BY DEF Writing, Filling
<1> QED
  BY <1>1 DEF TokensConserved

(* Submitting moves the token of the filled buffer to the queue.           *)
LEMMA QueuedToken ==
    ASSUME TypeOK, TokensConserved, Filling = 1, Filling' = 0, Writing' = Writing,
           Len(s_wr_queue') = Len(s_wr_queue) + 1, UNCHANGED <<s_free_bufs, taken>>
    PROVE  TokensConserved'
BY Counts DEF TokensConserved

(* s_fill goes round: the code's % on a buffer index.                      *)
LEMMA NextBuf ==
    ASSUME NEW f \in Buffers
    PROVE  (f + 1) % CACHE_BUFS = IF f + 1 = CACHE_BUFS THEN 0 ELSE f + 1
BY SizesAssumption DEF Buffers

(* Going one buffer on puts every other one a step further behind.         *)
LEMMA BehindNext ==
    ASSUME NEW f \in Buffers, NEW k \in 0..(CACHE_BUFS - 1)
    PROVE  Behind((f + 1) % CACHE_BUFS, k + 1) = Behind(f, k)
BY NextBuf, SizesAssumption DEF Behind, Buffers

(* What submitting a run of c sectors does to the queue and the ring.      *)
LEMMA SubmitQueues ==
    ASSUME TypeOK, Ring, TokensConserved, InRange, s_have_buf,
           NEW c \in 1..CacheSectors, s_lba + c <= Last + 1,
           Submit(c), job' = job
    PROVE  /\ s_wr_queue' \in Seq(Job)
           /\ Len(s_wr_queue') = Len(s_wr_queue) + 1
           /\ s_fill' \in Buffers
           /\ \A i \in 1..Len(s_wr_queue') :
                 s_wr_queue'[i].lba + s_wr_queue'[i].count <= Last + 1
           /\ Ring'
<1> USE SizesAssumption
<1> DEFINE new == [idx |-> s_fill, lba |-> s_lba, count |-> c]
           n == Len(s_wr_queue)
<1>1. new \in Job
  BY DEF TypeOK, Job, Sectors
<1>2. s_wr_queue' = Append(s_wr_queue, new) /\ s_wr_queue \in Seq(Job)
  BY DEF Submit, TypeOK
<1>3. /\ s_wr_queue' \in Seq(Job) /\ n \in Nat /\ Len(s_wr_queue') = n + 1
      /\ \A i \in 1..n : s_wr_queue'[i] = s_wr_queue[i]
      /\ s_wr_queue'[n + 1] = new
  BY <1>1, <1>2, AppendProperties, LenProperties
<1>4. /\ s_fill \in Buffers /\ s_fill' = (s_fill + 1) % CACHE_BUFS
      /\ s_fill' \in Buffers
  BY NextBuf DEF Submit, TypeOK, Buffers
<1> HIDE DEF new, n
<1>7. \A i \in 1..Len(s_wr_queue') :
         s_wr_queue'[i].lba + s_wr_queue'[i].count <= Last + 1
  BY <1>1, <1>3 DEF InRange, new, n
<1>8. n + 1 <= CACHE_BUFS /\ (job # NoJob => n + 2 <= CACHE_BUFS)
  <2>1. Filling = 1
    BY DEF Filling
  <2>2. job # NoJob => Writing = 1
    BY DEF Writing
  <2> QED
    BY <1>3, <2>1, <2>2, Counts DEF TokensConserved, n
<1>9. Ring'
  <2>1. ASSUME NEW i \in 1..n
        PROVE  s_wr_queue'[i].idx = Behind(s_fill', n + 2 - i)
    <3>1. s_wr_queue'[i].idx = Behind(s_fill, n + 1 - i)
      BY <1>3 DEF Ring, n
    <3>2. n + 1 - i \in 0..(CACHE_BUFS - 1) /\ n + 2 - i = (n + 1 - i) + 1
      BY <1>3, <1>8
    <3> QED
      BY <3>1, <3>2, <1>4, BehindNext
  <2>2. s_wr_queue'[n + 1].idx = Behind(s_fill', 1)
    <3>1. s_wr_queue'[n + 1].idx = Behind(s_fill, 0)
      BY <1>3, <1>4 DEF new, Behind, Buffers
    <3> QED
      BY <3>1, <1>4, BehindNext
  <2>3. job # NoJob => job.idx = Behind(s_fill', n + 2)
    <3> SUFFICES ASSUME job # NoJob PROVE job.idx = Behind(s_fill', n + 2)
      OBVIOUS
    <3>1. n + 1 \in 0..(CACHE_BUFS - 1) /\ n + 2 = (n + 1) + 1
      BY <1>3, <1>8
    <3> QED
      BY <3>1, <1>4, BehindNext DEF Ring, n
  <2> QED
    BY <1>3, <2>1, <2>2, <2>3 DEF Ring, n
<1> QED
  BY <1>3, <1>4, <1>7, <1>9 DEF n

(* usb_msc_run()'s first state satisfies the inductive invariant.          *)
THEOREM InitIInv == Init => IInv
<1> SUFFICES ASSUME Init PROVE IInv
  OBVIOUS
<1>1. TypeOK
  <2>1. card \in [Sectors -> Contents] /\ accepted \in [Sectors -> Contents]
    BY DEF Init, Contents
  <2>2. s_cache \in [Buffers -> [0..(CacheSectors - 1) -> Contents]]
    BY DEF Init, Contents, BlankBuffer
  <2>3. cmd \in Cmd
    BY SizesAssumption DEF Init, Cmd, NoCmd
  <2>4. s_wr_queue \in Seq(Job)
    BY DEF Init
  <2>5. s_have_buf \in BOOLEAN /\ s_failed \in BOOLEAN
    BY DEF Init
  <2>6. /\ s_fill \in Buffers /\ s_lba \in 0..(Last + 1)
        /\ s_count \in 0..CacheSectors /\ s_free_bufs \in 0..CACHE_BUFS
        /\ landed \in 0..CacheSectors /\ taken \in 0..CACHE_BUFS
    BY SizesAssumption DEF Init, Buffers
  <2>7. pc \in [Tasks -> {"idle", "lock", "drain", "settled", "w_lock",
                         "w_copy", "restart"}]
    BY DEF Init
  <2> QED
    BY <2>1, <2>2, <2>3, <2>4, <2>5, <2>6, <2>7 DEF Init, TypeOK
<1>2. Ring /\ Mutex /\ Fill /\ InRange
  BY SizesAssumption, NamesAssumption DEF Init, Ring, Mutex, Fill, InRange, NoCmd, Tasks
<1>3. TokensConserved
  <2>1. Writing = 0 /\ Filling = 0
    BY DEF Init, Writing, Filling
  <2> QED
    BY <2>1, SizesAssumption DEF Init, TokensConserved
<1> QED
  BY <1>1, <1>2, <1>3 DEF IInv

(* HostWrite preserves the inductive invariant.                            *)
LEMMA HostWriteKeeps ==
    ASSUME IInv, HostWrite
    PROVE  IInv'
<1> USE SizesAssumption, NamesAssumption DEF HostWrite, Go, cacheVars, writerVars
<1>1. TypeOK'
  <2>1. PICK d \in Xfer, s \in Sectors :
           s + Len(d) <= Last + 1 /\ cmd' = [op |-> "write", lba |-> s, data |-> d]
    OBVIOUS
  <2>2. d \in Seq(Val) /\ Len(d) <= MaxXfer
    <3>1. PICK n \in 1..MaxXfer : d \in [1..n -> Val]
      BY DEF Xfer
    <3> QED
      BY <3>1
  <2>3. cmd' \in Cmd
    BY <2>1, <2>2 DEF Cmd, Sectors
  <2> QED
    BY <2>3 DEF IInv, TypeOK, Tasks
<1>2. Ring'
  BY DEF IInv, Ring
<1>3. Mutex'
  BY DEF IInv, TypeOK, Mutex, Tasks
<1>4. Fill'
  BY DEF IInv, TypeOK, Mutex, Fill, Tasks
<1>5. InRange'
  BY DEF IInv, TypeOK, InRange, Mutex, Tasks, Cmd, Xfer
<1>6. TokensConserved'
  BY SameTokens DEF IInv
<1> QED
  BY <1>1, <1>2, <1>3, <1>4, <1>5, <1>6 DEF IInv

(* HostSettle preserves the inductive invariant.                           *)
LEMMA HostSettleKeeps ==
    ASSUME IInv, HostSettle
    PROVE  IInv'
<1> USE SizesAssumption, NamesAssumption DEF HostSettle, Go, cacheVars, writerVars
<1>1. TypeOK'
  BY DEF IInv, TypeOK, Cmd, Tasks
<1>2. Ring'
  BY DEF IInv, Ring
<1>3. Mutex'
  BY DEF IInv, TypeOK, Mutex, Tasks
<1>4. Fill'
  BY DEF IInv, TypeOK, Mutex, Fill, Tasks
<1>5. InRange'
  BY DEF IInv, TypeOK, InRange, Mutex, Tasks
<1>6. TokensConserved'
  BY SameTokens DEF IInv
<1> QED
  BY <1>1, <1>2, <1>3, <1>4, <1>5, <1>6 DEF IInv

(* WriteLock preserves the inductive invariant.                            *)
LEMMA WriteLockKeeps ==
    ASSUME IInv, WriteLock
    PROVE  IInv'
<1> USE SizesAssumption, NamesAssumption DEF WriteLock, Go, writerVars
<1> DEFINE fresh == s_count > 0 /\ cmd.lba # s_lba + s_count
<1>0. fresh => /\ s_wr_queue' \in Seq(Job)
               /\ Len(s_wr_queue') = Len(s_wr_queue) + 1
               /\ s_fill' \in Buffers
               /\ \A i \in 1..Len(s_wr_queue') :
                     s_wr_queue'[i].lba + s_wr_queue'[i].count <= Last + 1
               /\ Ring'
  <2> SUFFICES ASSUME fresh
               PROVE  /\ s_wr_queue' \in Seq(Job)
                      /\ Len(s_wr_queue') = Len(s_wr_queue) + 1
                      /\ s_fill' \in Buffers
                      /\ \A i \in 1..Len(s_wr_queue') :
                            s_wr_queue'[i].lba + s_wr_queue'[i].count <= Last + 1
                      /\ Ring'
    OBVIOUS
  <2>1. s_count \in 1..CacheSectors /\ s_have_buf
    BY DEF IInv, TypeOK, Fill
  <2>2. Submit(s_count) /\ job' = job
    OBVIOUS
  <2>3. s_lba + s_count <= Last + 1
    BY DEF IInv, InRange
  <2> QED
    BY <2>1, <2>2, <2>3, SubmitQueues DEF IInv
<1>1. TypeOK'
  <2>1. s_have_buf' \in BOOLEAN
    BY DEF IInv, TypeOK, Submit
  <2>2. s_count' \in 0..CacheSectors /\ s_lba' \in 0..(Last + 1)
    BY DEF IInv, TypeOK, Submit, InRange, Cmd
  <2>3. s_wr_queue' \in Seq(Job) /\ s_fill' \in Buffers
    BY <1>0 DEF IInv, TypeOK
  <2>4. pc' \in [Tasks -> {"idle", "lock", "drain", "settled", "w_lock",
                          "w_copy", "restart"}]
    BY DEF IInv, TypeOK
  <2> QED
    BY <2>1, <2>2, <2>3, <2>4 DEF IInv, TypeOK, Tasks
<1>2. Ring'
  BY <1>0 DEF IInv, Ring
<1>3. Mutex'
  BY DEF Submit, IInv, TypeOK, Mutex, Tasks
<1>4. Fill'
  BY DEF Submit, IInv, TypeOK, Mutex, Fill, Tasks, Cmd, NoCmd
<1>5. InRange'
  <2>1. UNCHANGED <<cmd, job, landed>> /\ cmd.lba + Len(cmd.data) <= Last + 1
    BY DEF IInv, InRange
  <2>2. \A i \in 1..Len(s_wr_queue') :
           s_wr_queue'[i].lba + s_wr_queue'[i].count <= Last + 1
    BY <1>0 DEF IInv, InRange
  <2>3. s_lba' + s_count' = cmd.lba /\ cmd.lba <= Last + 1
    <3>1. \/ s_lba' = cmd.lba /\ s_count' = 0
          \/ s_lba' = s_lba /\ s_count' = s_count /\ cmd.lba = s_lba + s_count
      BY DEF Submit, IInv, TypeOK
    <3>2. cmd.lba \in Nat /\ Len(cmd.data) \in Nat
      BY LenProperties DEF IInv, TypeOK, Cmd
    <3> QED
      BY <2>1, <3>1, <3>2
  <2> QED
    BY <2>1, <2>2, <2>3 DEF IInv, InRange
<1>6. TokensConserved'
  <2>1. CASE fresh
    <3>1. Filling = 1 /\ Filling' = 0
      BY <2>1 DEF Filling, IInv, Fill, Submit
    <3>2. Writing' = Writing
      BY DEF Writing
    <3>3. Len(s_wr_queue') = Len(s_wr_queue) + 1 /\ UNCHANGED <<s_free_bufs, taken>>
      BY <2>1, <1>0
    <3> QED
      BY <3>1, <3>2, <3>3, QueuedToken DEF IInv
  <2>2. CASE ~(fresh)
    BY <2>2, SameTokens DEF IInv
  <2> QED
    BY <2>1, <2>2
<1> QED
  BY <1>1, <1>2, <1>3, <1>4, <1>5, <1>6 DEF IInv

(* WriteTakeBuf preserves the inductive invariant.                         *)
LEMMA WriteTakeBufKeeps ==
    ASSUME IInv, WriteTakeBuf
    PROVE  IInv'
<1> USE SizesAssumption, NamesAssumption DEF WriteTakeBuf, writerVars
<1>1. TypeOK'
  BY DEF IInv, TypeOK
<1>2. Ring'
  BY DEF IInv, Ring
<1>3. Mutex'
  BY DEF IInv, TypeOK, Mutex, Tasks
<1>4. Fill'
  BY DEF IInv, TypeOK, Mutex, Fill, Tasks
<1>5. InRange'
  BY DEF IInv, TypeOK, InRange, Mutex, Tasks
<1>6. TokensConserved'
  <2>1. Filling = 0 /\ Filling' = 1
    BY DEF Filling
  <2>2. Writing' = Writing
    BY DEF Writing
  <2>3. s_free_bufs' = s_free_bufs - 1 /\ UNCHANGED <<s_wr_queue, taken>>
    BY DEF WriteTakeBuf
  <2> QED
    BY <2>1, <2>2, <2>3, Counts DEF IInv, TokensConserved
<1> QED
  BY <1>1, <1>2, <1>3, <1>4, <1>5, <1>6 DEF IInv

(* WriteCopy preserves the inductive invariant.                            *)
LEMMA WriteCopyKeeps ==
    ASSUME IInv, WriteCopy
    PROVE  IInv'
<1> USE SizesAssumption, NamesAssumption
<1> DEFINE len == Len(cmd.data)
           room == CacheSectors - s_count
           n == IF len < room THEN len ELSE room
           full == s_count + n = CacheSectors
<1>1. /\ cmd.data \in Seq(Val) /\ len \in Nat \ {0} /\ len <= MaxXfer
      /\ cmd.lba \in Nat
  <2>1. cmd.data \in Seq(Val) /\ len <= MaxXfer /\ cmd.lba \in Nat
    BY DEF IInv, TypeOK, Cmd
  <2>2. cmd.data # <<>>
    BY DEF WriteCopy
  <2> QED
    BY <2>1, <2>2, EmptySeq, LenProperties
<1>fits.
      /\ s_count \in 0..CacheSectors /\ n \in Nat /\ n <= len
      /\ s_count + n \in 1..CacheSectors /\ s_lba \in Nat
      /\ s_lba + s_count + n <= Last + 1 /\ cmd.lba + n <= Last + 1
      /\ ~full => n = len
  <2>1. s_count \in 0..CacheSectors /\ s_lba \in Nat
    BY DEF IInv, TypeOK
  <2>2. cmd.lba + len <= Last + 1 /\ cmd.lba = s_lba + s_count
    BY DEF IInv, InRange, WriteCopy
  <2> HIDE DEF len
  <2>3. room \in Nat
    BY <2>1
  <2>4. n \in Nat /\ n <= len /\ n <= room /\ (n = len \/ n = room)
    BY <1>1, <2>3
  <2>5. s_count + n \in 1..CacheSectors
    BY <1>1, <2>1, <2>4
  <2>6. s_lba + s_count + n <= Last + 1 /\ cmd.lba + n <= Last + 1
    BY <1>1, <2>1, <2>2, <2>4
  <2>7. ~full => n = len
    <3>1. n = room => full
      BY <2>1, <2>4
    <3> QED
      BY <3>1, <2>4
  <2> QED
    BY <2>1, <2>4, <2>5, <2>6, <2>7
<1>2. /\ s_have_buf /\ pc["tusb"] = "w_copy" /\ pc' = pc /\ s_mux' = s_mux
      /\ taken' = taken /\ job' = job /\ s_free_bufs' = s_free_bufs
      /\ card' = card /\ landed' = landed /\ s_failed' = s_failed
      /\ cmd' = [cmd EXCEPT !.lba = @ + n, !.data = SubSeq(@, n + 1, Len(@))]
      /\ full => Submit(s_count + n) /\ s_lba' = s_lba + s_count + n
      /\ ~full => /\ s_count' = s_count + n
                  /\ UNCHANGED <<s_lba, s_fill, s_have_buf, s_wr_queue>>
  BY DEF WriteCopy, writerVars
<1> HIDE DEF n, full, room
<1>3. /\ cmd' \in Cmd
      /\ cmd'.lba = cmd.lba + n /\ Len(cmd'.data) = len - n
      /\ ~full => cmd'.data = <<>>
  <2> DEFINE rest == SubSeq(cmd.data, n + 1, len)
  <2>1. rest \in Seq(Val) /\ Len(rest) = len - n
    <3>1. \A i \in (n + 1)..len : i \in 1..len
      BY <1>1, <1>fits
    <3>2. /\ rest \in Seq(Val)
          /\ Len(rest) = IF n + 1 <= len THEN len - (n + 1) + 1 ELSE 0
      BY <1>1, <1>fits, <3>1, SubSeqProperties
    <3> QED
      BY <1>1, <1>fits, <3>2
  <2>2. ~full => rest = <<>>
    BY <2>1, <1>1, <1>fits, EmptySeq
  <2>3. cmd' = [cmd EXCEPT !.lba = cmd.lba + n, !.data = rest]
    BY <1>2
  <2> HIDE DEF rest
  <2>4. cmd \in Cmd /\ cmd.lba + n \in Nat /\ Len(rest) <= MaxXfer
    BY <1>1, <1>fits, <2>1 DEF IInv, TypeOK
  <2> QED
    BY <2>1, <2>2, <2>3, <2>4 DEF Cmd
<1>4. s_cache' \in [Buffers -> [0..(CacheSectors - 1) -> Contents]]
  <2>1. \A k \in s_count..(s_count + n - 1) :
           cmd.data[k - s_count + 1] \in Contents
    <3> SUFFICES ASSUME NEW k \in s_count..(s_count + n - 1)
                 PROVE  cmd.data[k - s_count + 1] \in Contents
      OBVIOUS
    <3>1. k - s_count + 1 \in 1..len
      BY <1>1, <1>fits
    <3> QED
      BY <3>1, <1>1, ElementOfSeq DEF Contents
  <2>2. s_cache' = [s_cache EXCEPT ![s_fill] =
                       [k \in 0..(CacheSectors - 1) |->
                           IF k \in s_count..(s_count + n - 1)
                           THEN cmd.data[k - s_count + 1]
                           ELSE s_cache[s_fill][k]]]
    BY DEF WriteCopy, n, room
  <2>3. s_cache \in [Buffers -> [0..(CacheSectors - 1) -> Contents]]
        /\ s_fill \in Buffers
    BY DEF IInv, TypeOK
  <2> QED
    BY <2>1, <2>2, <2>3
<1>5. accepted' \in [Sectors -> Contents]
  <2>1. \A s \in cmd.lba..(cmd.lba + n - 1) :
           cmd.data[s - cmd.lba + 1] \in Contents
    <3> SUFFICES ASSUME NEW s \in cmd.lba..(cmd.lba + n - 1)
                 PROVE  cmd.data[s - cmd.lba + 1] \in Contents
      OBVIOUS
    <3>1. s - cmd.lba + 1 \in 1..len
      BY <1>1, <1>fits
    <3> QED
      BY <3>1, <1>1, ElementOfSeq DEF Contents
  <2>2. accepted' = [s \in Sectors |->
                       IF s \in cmd.lba..(cmd.lba + n - 1)
                       THEN cmd.data[s - cmd.lba + 1] ELSE accepted[s]]
    BY DEF WriteCopy, n, room
  <2>3. accepted \in [Sectors -> Contents]
    BY DEF IInv, TypeOK
  <2> QED
    BY <2>1, <2>2, <2>3
<1> HIDE DEF len
<1>6. full => /\ s_wr_queue' \in Seq(Job)
              /\ Len(s_wr_queue') = Len(s_wr_queue) + 1
              /\ s_fill' \in Buffers
              /\ \A i \in 1..Len(s_wr_queue') :
                    s_wr_queue'[i].lba + s_wr_queue'[i].count <= Last + 1
              /\ Ring'
  <2> SUFFICES ASSUME full
               PROVE  /\ s_wr_queue' \in Seq(Job)
                      /\ Len(s_wr_queue') = Len(s_wr_queue) + 1
                      /\ s_fill' \in Buffers
                      /\ \A i \in 1..Len(s_wr_queue') :
                            s_wr_queue'[i].lba + s_wr_queue'[i].count <= Last + 1
                      /\ Ring'
    OBVIOUS
  <2> DEFINE c == s_count + n
  <2>1. c \in 1..CacheSectors /\ s_lba + c <= Last + 1
    BY <1>fits
  <2>2. Submit(c) /\ job' = job /\ s_have_buf
    BY <1>2
  <2> HIDE DEF c
  <2> QED
    BY <2>1, <2>2, SubmitQueues DEF IInv
<1>7. full => s_count' = 0 /\ s_have_buf' = FALSE
  BY <1>2 DEF Submit
<1>after.
      \/ s_count' = 0 /\ s_lba' = s_lba + s_count + n
      \/ s_count' = s_count + n /\ s_lba' = s_lba
  BY <1>2, <1>7
<1>8. TypeOK'
  <2>1. s_have_buf' \in BOOLEAN /\ s_failed' \in BOOLEAN
    BY <1>2, <1>7 DEF IInv, TypeOK
  <2>2. s_count' \in 0..CacheSectors /\ s_lba' \in 0..(Last + 1)
    <3>1. s_lba \in 0..(Last + 1)
      BY DEF IInv, TypeOK
    <3> QED
      BY <3>1, <1>fits, <1>after
  <2>3. s_wr_queue' \in Seq(Job) /\ s_fill' \in Buffers
    BY <1>2, <1>6 DEF IInv, TypeOK
  <2> QED
    BY <2>1, <2>2, <2>3, <1>2, <1>3, <1>4, <1>5 DEF IInv, TypeOK
<1>9. Ring'
  BY <1>2, <1>6 DEF IInv, Ring
<1>10. Mutex'
  BY <1>2 DEF IInv, Mutex
<1>11. Fill'
  <2>1. \A t \in Tasks : pc[t] # "drain"
    BY <1>2 DEF IInv, Mutex, Tasks
  <2>2. taken' = 0
    BY <2>1, <1>2 DEF IInv, Fill, TypeOK
  <2>3. CASE full
    BY <2>1, <2>2, <2>3, <1>2, <1>7 DEF Fill
  <2>4. CASE ~full
    BY <2>1, <2>2, <2>4, <1>1, <1>fits, <1>2, <1>3 DEF Fill
  <2> QED
    BY <2>3, <2>4
<1>12. InRange'
  <2>1. s_lba' + s_count' <= Last + 1 /\ cmd'.lba = s_lba' + s_count'
    <3>1. cmd.lba = s_lba + s_count /\ cmd'.lba = cmd.lba + n
      BY <1>2, <1>3 DEF IInv, InRange
    <3> QED
      BY <3>1, <1>fits, <1>after
  <2>2. cmd'.lba + Len(cmd'.data) <= Last + 1
    BY <1>1, <1>fits, <1>3 DEF IInv, InRange, len
  <2>3. \A i \in 1..Len(s_wr_queue') :
           s_wr_queue'[i].lba + s_wr_queue'[i].count <= Last + 1
    BY <1>2, <1>6 DEF IInv, InRange
  <2> QED
    BY <2>1, <2>2, <2>3, <1>2 DEF IInv, InRange
<1>13. TokensConserved'
  <2>1. CASE full
    <3>1. Filling = 1 /\ Filling' = 0
      BY <2>1, <1>2, <1>7 DEF Filling
    <3>2. Writing' = Writing
      BY <1>2 DEF Writing
    <3>3. Len(s_wr_queue') = Len(s_wr_queue) + 1 /\ UNCHANGED <<s_free_bufs, taken>>
      BY <2>1, <1>2, <1>6
    <3> QED
      BY <3>1, <3>2, <3>3, QueuedToken DEF IInv
  <2>2. CASE ~full
    BY <2>2, <1>2, SameTokens DEF IInv
  <2> QED
    BY <2>1, <2>2
<1> QED
  BY <1>8, <1>9, <1>10, <1>11, <1>12, <1>13 DEF IInv

(* WriteDone preserves the inductive invariant.                            *)
LEMMA WriteDoneKeeps ==
    ASSUME IInv, WriteDone
    PROVE  IInv'
<1> USE SizesAssumption, NamesAssumption DEF WriteDone, Go, cacheVars, writerVars
<1>1. TypeOK'
  BY DEF IInv, TypeOK, Cmd, NoCmd, Tasks
<1>2. Ring'
  BY DEF IInv, Ring
<1>3. Mutex'
  BY DEF IInv, TypeOK, Mutex, Tasks
<1>4. Fill'
  BY DEF IInv, TypeOK, Mutex, Fill, Tasks, NoCmd
<1>5. InRange'
  BY DEF IInv, TypeOK, InRange, Mutex, Tasks, NoCmd
<1>6. TokensConserved'
  BY SameTokens DEF IInv
<1> QED
  BY <1>1, <1>2, <1>3, <1>4, <1>5, <1>6 DEF IInv

(* MainCheck preserves the inductive invariant.                            *)
LEMMA MainCheckKeeps ==
    ASSUME IInv, MainCheck
    PROVE  IInv'
<1> USE SizesAssumption, NamesAssumption DEF MainCheck, Go, cacheVars, writerVars
<1>1. TypeOK'
  BY DEF IInv, TypeOK, Tasks
<1>2. Ring'
  BY DEF IInv, Ring
<1>3. Mutex'
  BY DEF IInv, TypeOK, Mutex, Tasks
<1>4. Fill'
  BY DEF IInv, TypeOK, Mutex, Fill, Tasks
<1>5. InRange'
  BY DEF IInv, TypeOK, InRange, Mutex, Tasks
<1>6. TokensConserved'
  BY SameTokens DEF IInv
<1> QED
  BY <1>1, <1>2, <1>3, <1>4, <1>5, <1>6 DEF IInv

(* Escape preserves the inductive invariant.                               *)
LEMMA EscapeKeeps ==
    ASSUME IInv, Escape
    PROVE  IInv'
<1> USE SizesAssumption, NamesAssumption DEF Escape, Go, cacheVars, writerVars
<1>1. TypeOK'
  BY DEF IInv, TypeOK, Tasks
<1>2. Ring'
  BY DEF IInv, Ring
<1>3. Mutex'
  BY DEF IInv, TypeOK, Mutex, Tasks
<1>4. Fill'
  BY DEF IInv, TypeOK, Mutex, Fill, Tasks
<1>5. InRange'
  BY DEF IInv, TypeOK, InRange, Mutex, Tasks
<1>6. TokensConserved'
  BY SameTokens DEF IInv
<1> QED
  BY <1>1, <1>2, <1>3, <1>4, <1>5, <1>6 DEF IInv

(* BarrierBegin preserves the inductive invariant.                         *)
LEMMA BarrierBeginKeeps ==
    ASSUME IInv, NEW t \in Tasks, BarrierBegin(t)
    PROVE  IInv'
<1> USE SizesAssumption, NamesAssumption DEF BarrierBegin, Go, writerVars
<1>0. s_count > 0 => /\ s_wr_queue' \in Seq(Job)
                     /\ Len(s_wr_queue') = Len(s_wr_queue) + 1
                     /\ s_fill' \in Buffers
                     /\ \A i \in 1..Len(s_wr_queue') :
                          s_wr_queue'[i].lba + s_wr_queue'[i].count <= Last + 1
                     /\ Ring'
  <2> SUFFICES ASSUME s_count > 0
               PROVE  /\ s_wr_queue' \in Seq(Job)
                      /\ Len(s_wr_queue') = Len(s_wr_queue) + 1
                      /\ s_fill' \in Buffers
                      /\ \A i \in 1..Len(s_wr_queue') :
                            s_wr_queue'[i].lba + s_wr_queue'[i].count <= Last + 1
                      /\ Ring'
    OBVIOUS
  <2>1. s_count \in 1..CacheSectors /\ s_have_buf
    BY DEF IInv, TypeOK, Fill
  <2>2. Submit(s_count) /\ job' = job
    OBVIOUS
  <2>3. s_lba + s_count <= Last + 1
    BY DEF IInv, InRange
  <2> QED
    BY <2>1, <2>2, <2>3, SubmitQueues DEF IInv
<1>1. TypeOK'
  <2>1. s_have_buf' \in BOOLEAN
    BY DEF IInv, TypeOK, Submit
  <2>2. s_count' \in 0..CacheSectors /\ s_lba' \in 0..(Last + 1)
    BY DEF IInv, TypeOK, Submit
  <2>3. s_wr_queue' \in Seq(Job) /\ s_fill' \in Buffers
    BY <1>0 DEF IInv, TypeOK
  <2>4. pc' \in [Tasks -> {"idle", "lock", "drain", "settled", "w_lock",
                          "w_copy", "restart"}]
    BY DEF IInv, TypeOK
  <2> QED
    BY <2>1, <2>2, <2>3, <2>4 DEF IInv, TypeOK, Tasks
<1>2. Ring'
  BY <1>0 DEF IInv, Ring
<1>3. Mutex'
  BY DEF Submit, IInv, TypeOK, Mutex, Tasks
<1>4. Fill'
  BY DEF Submit, IInv, TypeOK, Mutex, Fill, Tasks, Cmd, NoCmd
<1>5. InRange'
  BY <1>0 DEF Submit, IInv, TypeOK, InRange, Mutex, Tasks
<1>6. TokensConserved'
  <2>1. CASE s_count > 0
    <3>1. Filling = 1 /\ Filling' = 0
      BY <2>1 DEF Filling, IInv, Fill, Submit
    <3>2. Writing' = Writing
      BY DEF Writing
    <3>3. Len(s_wr_queue') = Len(s_wr_queue) + 1 /\ UNCHANGED <<s_free_bufs, taken>>
      BY <2>1, <1>0
    <3> QED
      BY <3>1, <3>2, <3>3, QueuedToken DEF IInv
  <2>2. CASE ~(s_count > 0)
    BY <2>2, SameTokens DEF IInv
  <2> QED
    BY <2>1, <2>2
<1> QED
  BY <1>1, <1>2, <1>3, <1>4, <1>5, <1>6 DEF IInv

(* BarrierTake preserves the inductive invariant.                          *)
LEMMA BarrierTakeKeeps ==
    ASSUME IInv, NEW t \in Tasks, BarrierTake(t)
    PROVE  IInv'
<1> USE SizesAssumption, NamesAssumption DEF BarrierTake, cacheVars, writerVars
<1>1. TypeOK'
  BY DEF IInv, TypeOK, Tasks
<1>2. Ring'
  BY DEF IInv, Ring
<1>3. Mutex'
  BY DEF IInv, TypeOK, Mutex, Tasks
<1>4. Fill'
  BY DEF IInv, TypeOK, Mutex, Fill, Tasks
<1>5. InRange'
  BY DEF IInv, TypeOK, InRange, Mutex, Tasks
<1>6. TokensConserved'
  <2>1. Filling' = Filling
    BY DEF Filling
  <2>2. Writing' = Writing
    BY DEF Writing
  <2>3. s_free_bufs' = s_free_bufs - 1 /\ taken' = taken + 1 /\ UNCHANGED s_wr_queue
    BY DEF BarrierTake
  <2> QED
    BY <2>1, <2>2, <2>3, Counts DEF IInv, TokensConserved
<1> QED
  BY <1>1, <1>2, <1>3, <1>4, <1>5, <1>6 DEF IInv

(* BarrierEnd preserves the inductive invariant.                           *)
LEMMA BarrierEndKeeps ==
    ASSUME IInv, NEW t \in Tasks, BarrierEnd(t)
    PROVE  IInv'
<1> USE SizesAssumption, NamesAssumption DEF BarrierEnd, Go, writerVars
<1>1. TypeOK'
  <2>1. s_free_bufs' \in 0..CACHE_BUFS
    BY Counts DEF IInv, TokensConserved
  <2>2. s_have_buf' \in BOOLEAN
    OBVIOUS
  <2> QED
    BY <2>1, <2>2 DEF IInv, TypeOK, Tasks
<1>2. Ring'
  BY DEF IInv, Ring
<1>3. Mutex'
  BY DEF IInv, TypeOK, Mutex, Tasks
<1>4. Fill'
  BY DEF IInv, TypeOK, Mutex, Fill, Tasks
<1>5. InRange'
  BY DEF IInv, TypeOK, InRange, Mutex, Tasks
<1>6. TokensConserved'
  <2>1. Filling = 0 /\ Filling' = 0
    <3>1. pc[t] = "drain" /\ s_mux = t /\ s_count = 0
      BY DEF IInv, Mutex, Fill
    <3>2. pc["tusb"] # "w_copy"
      BY <3>1 DEF IInv, Mutex, Tasks
    <3>3. ~s_have_buf
      BY <3>1, <3>2 DEF IInv, Fill
    <3> QED
      BY <3>3 DEF Filling
  <2>2. Writing' = Writing
    BY DEF Writing
  <2>3. s_free_bufs' = s_free_bufs + taken /\ taken' = 0 /\ UNCHANGED s_wr_queue
    BY DEF BarrierEnd
  <2> QED
    BY <2>1, <2>2, <2>3, Counts DEF IInv, TokensConserved
<1> QED
  BY <1>1, <1>2, <1>3, <1>4, <1>5, <1>6 DEF IInv

(* Unlock preserves the inductive invariant.                               *)
LEMMA UnlockKeeps ==
    ASSUME IInv, NEW t \in Tasks, Unlock(t)
    PROVE  IInv'
<1> USE SizesAssumption, NamesAssumption DEF Unlock, Go, cacheVars, writerVars
<1>1. TypeOK'
  BY DEF IInv, TypeOK, Cmd, NoCmd, Tasks
<1>2. Ring'
  BY DEF IInv, Ring
<1>3. Mutex'
  BY DEF IInv, TypeOK, Mutex, Tasks
<1>4. Fill'
  BY DEF IInv, TypeOK, Mutex, Fill, Tasks
<1>5. InRange'
  BY DEF IInv, TypeOK, InRange, Mutex, Tasks, NoCmd
<1>6. TokensConserved'
  BY SameTokens DEF IInv
<1> QED
  BY <1>1, <1>2, <1>3, <1>4, <1>5, <1>6 DEF IInv

(* WriterReceive preserves the inductive invariant.                        *)
LEMMA WriterReceiveKeeps ==
    ASSUME IInv, WriterReceive
    PROVE  IInv'
<1> USE SizesAssumption, NamesAssumption DEF WriterReceive, cacheVars
<1>0. /\ s_wr_queue' \in Seq(Job) /\ job' \in Job /\ job' = s_wr_queue[1]
      /\ Len(s_wr_queue) \in Nat \ {0}
      /\ Len(s_wr_queue') = Len(s_wr_queue) - 1
      /\ \A i \in 1..Len(s_wr_queue') : s_wr_queue'[i] = s_wr_queue[i + 1]
  BY HeadTailProperties, EmptySeq, LenProperties, ElementOfSeq DEF IInv, TypeOK
<1>1. TypeOK'
  BY <1>0 DEF IInv, TypeOK
<1>2. Ring'
  <2>1. job'.idx = Behind(s_fill', Len(s_wr_queue') + 1)
    BY <1>0 DEF IInv, Ring
  <2>2. \A i \in 1..Len(s_wr_queue') :
           s_wr_queue'[i].idx = Behind(s_fill', Len(s_wr_queue') + 1 - i)
    BY <1>0 DEF IInv, Ring
  <2> QED
    BY <2>1, <2>2 DEF Ring
<1>3. Mutex'
  BY DEF IInv, TypeOK, Mutex, Tasks
<1>4. Fill'
  BY DEF IInv, TypeOK, Mutex, Fill, Tasks
<1>5. InRange'
  BY <1>0 DEF IInv, TypeOK, InRange, Job
<1>6. TokensConserved'
  <2>1. Filling' = Filling
    BY DEF Filling
  <2>2. Writing = 0 /\ Writing' = 1
    BY <1>0 DEF Writing, Job
  <2>3. Len(s_wr_queue') = Len(s_wr_queue) - 1 /\ UNCHANGED <<s_free_bufs, taken>>
    BY <1>0
  <2> QED
    BY <2>1, <2>2, <2>3, Counts DEF IInv, TokensConserved
<1> QED
  BY <1>1, <1>2, <1>3, <1>4, <1>5, <1>6 DEF IInv

(* WriterSector preserves the inductive invariant.                         *)
LEMMA WriterSectorKeeps ==
    ASSUME IInv, WriterSector
    PROVE  IInv'
<1> USE SizesAssumption, NamesAssumption DEF WriterSector, cacheVars
<1>1. TypeOK'
  <2>1. job \in Job /\ landed \in 0..(CacheSectors - 1)
    BY DEF IInv, TypeOK, Job
  <2>2. job.lba + landed \in Sectors
    BY <2>1 DEF IInv, InRange, Job, Sectors
  <2>3. s_cache[job.idx][landed] \in Contents
    BY <2>1 DEF IInv, TypeOK, Job
  <2>4. card' \in [Sectors -> Contents]
    BY <2>2, <2>3 DEF IInv, TypeOK
  <2>5. landed' \in 0..CacheSectors
    BY <2>1
  <2> QED
    BY <2>4, <2>5 DEF IInv, TypeOK
<1>2. Ring'
  BY DEF IInv, Ring
<1>3. Mutex'
  BY DEF IInv, TypeOK, Mutex, Tasks
<1>4. Fill'
  BY DEF IInv, TypeOK, Mutex, Fill, Tasks
<1>5. InRange'
  <2>1. landed' <= job.count
    BY DEF IInv, TypeOK, Job
  <2> QED
    BY <2>1 DEF IInv, InRange
<1>6. TokensConserved'
  BY SameTokens DEF IInv
<1> QED
  BY <1>1, <1>2, <1>3, <1>4, <1>5, <1>6 DEF IInv

(* WriterDone preserves the inductive invariant.                           *)
LEMMA WriterDoneKeeps ==
    ASSUME IInv, WriterDone
    PROVE  IInv'
<1> USE SizesAssumption, NamesAssumption DEF WriterDone, GiveBufBack
<1>1. TypeOK'
  <2>1. s_cache' \in [Buffers -> [0..(CacheSectors - 1) -> Contents]]
    BY DEF IInv, TypeOK, Contents, BlankBuffer, Job
  <2>2. Writing = 1
    BY DEF Writing
  <2>3. s_free_bufs' \in 0..CACHE_BUFS
    BY <2>2, Counts DEF IInv, TokensConserved
  <2> QED
    BY <2>1, <2>3 DEF IInv, TypeOK
<1>2. Ring'
  BY DEF IInv, Ring
<1>3. Mutex'
  BY DEF IInv, TypeOK, Mutex, Tasks
<1>4. Fill'
  BY DEF IInv, TypeOK, Mutex, Fill, Tasks
<1>5. InRange'
  BY DEF IInv, TypeOK, InRange, Mutex, Tasks
<1>6. TokensConserved'
  <2>1. Filling' = Filling
    BY DEF Filling
  <2>2. Writing = 1 /\ Writing' = 0
    BY DEF Writing
  <2>3. s_free_bufs' = s_free_bufs + 1 /\ UNCHANGED <<s_wr_queue, taken>>
    BY DEF WriterDone, GiveBufBack
  <2> QED
    BY <2>1, <2>2, <2>3, Counts DEF IInv, TokensConserved
<1> QED
  BY <1>1, <1>2, <1>3, <1>4, <1>5, <1>6 DEF IInv

(* WriterFail preserves the inductive invariant.                           *)
LEMMA WriterFailKeeps ==
    ASSUME IInv, WriterFail
    PROVE  IInv'
<1> USE SizesAssumption, NamesAssumption DEF WriterFail, GiveBufBack
<1>1. TypeOK'
  <2>1. s_cache' \in [Buffers -> [0..(CacheSectors - 1) -> Contents]]
    BY DEF IInv, TypeOK, Contents, BlankBuffer, Job
  <2>2. Writing = 1
    BY DEF Writing
  <2>3. s_free_bufs' \in 0..CACHE_BUFS
    BY <2>2, Counts DEF IInv, TokensConserved
  <2> QED
    BY <2>1, <2>3 DEF IInv, TypeOK
<1>2. Ring'
  BY DEF IInv, Ring
<1>3. Mutex'
  BY DEF IInv, TypeOK, Mutex, Tasks
<1>4. Fill'
  BY DEF IInv, TypeOK, Mutex, Fill, Tasks
<1>5. InRange'
  BY DEF IInv, TypeOK, InRange, Mutex, Tasks
<1>6. TokensConserved'
  <2>1. Filling' = Filling
    BY DEF Filling
  <2>2. Writing = 1 /\ Writing' = 0
    BY DEF Writing
  <2>3. s_free_bufs' = s_free_bufs + 1 /\ UNCHANGED <<s_wr_queue, taken>>
    BY DEF WriterFail, GiveBufBack
  <2> QED
    BY <2>1, <2>2, <2>3, Counts DEF IInv, TokensConserved
<1> QED
  BY <1>1, <1>2, <1>3, <1>4, <1>5, <1>6 DEF IInv

(* Reboot preserves the inductive invariant.                               *)
LEMMA RebootKeeps ==
    ASSUME IInv, Reboot
    PROVE  IInv'
<1> USE SizesAssumption, NamesAssumption DEF Reboot
<1>1. TypeOK'
  <2>1. s_cache' \in [Buffers -> [0..(CacheSectors - 1) -> Contents]]
    BY DEF Contents, BlankBuffer
  <2>2. cmd' \in Cmd
    BY DEF Cmd, NoCmd
  <2>3. s_wr_queue' \in Seq(Job)
    OBVIOUS
  <2>4. s_have_buf' \in BOOLEAN /\ s_failed' \in BOOLEAN
    OBVIOUS
  <2>5. /\ s_fill' \in Buffers /\ s_lba' \in 0..(Last + 1)
        /\ s_count' \in 0..CacheSectors /\ s_free_bufs' \in 0..CACHE_BUFS
        /\ landed' \in 0..CacheSectors /\ taken' \in 0..CACHE_BUFS
    BY DEF Buffers
  <2>6. pc' \in [Tasks -> {"idle", "lock", "drain", "settled", "w_lock",
                          "w_copy", "restart"}]
    OBVIOUS
  <2> QED
    BY <2>1, <2>2, <2>3, <2>4, <2>5, <2>6 DEF IInv, TypeOK
<1>2. Ring'
  BY DEF IInv, Ring
<1>3. Mutex'
  BY DEF IInv, TypeOK, Mutex, Tasks
<1>4. Fill'
  BY DEF IInv, TypeOK, Mutex, Fill, Tasks
<1>5. InRange'
  BY DEF InRange, NoCmd
<1>6. TokensConserved'
  <2>1. Filling' = 0
    BY DEF Filling
  <2>2. Writing' = 0
    BY DEF Writing
  <2>3. s_free_bufs' = CACHE_BUFS /\ Len(s_wr_queue') = 0 /\ taken' = 0
    BY DEF Reboot
  <2> QED
    BY <2>1, <2>2, <2>3, Counts DEF IInv, TokensConserved
<1> QED
  BY <1>1, <1>2, <1>3, <1>4, <1>5, <1>6 DEF IInv
(* Every step of every task preserves it.                                  *)
THEOREM StepIInv == IInv /\ [Next]_vars => IInv'
<1> SUFFICES ASSUME IInv, [Next]_vars PROVE IInv'
  OBVIOUS
<1>1. CASE HostStep
  BY <1>1, HostWriteKeeps, HostSettleKeeps DEF HostStep
<1>2. CASE WriteStep
  BY <1>2, WriteLockKeeps, WriteTakeBufKeeps, WriteCopyKeeps, WriteDoneKeeps
  DEF WriteStep
<1>3. CASE WriterStep
  BY <1>3, WriterReceiveKeeps, WriterSectorKeeps, WriterDoneKeeps, WriterFailKeeps
  DEF WriterStep
<1>4. CASE MainCheck \/ Escape
  BY <1>4, MainCheckKeeps, EscapeKeeps
<1>5. CASE \E t \in Tasks : CallerStep(t)
  BY <1>5, BarrierBeginKeeps, BarrierTakeKeeps, BarrierEndKeeps, UnlockKeeps
  DEF CallerStep
<1>6. CASE RestartByTask \/ PowerCut
  BY <1>6, RebootKeeps DEF RestartByTask, PowerCut
<1>7. CASE UNCHANGED vars
  <2>1. TokensConserved'
    BY <1>7, SameTokens DEF IInv, vars, cacheVars, writerVars
  <2> QED
    BY <2>1, <1>7 DEF vars, cacheVars, writerVars, IInv, TypeOK, Ring, Mutex, Fill, InRange
<1> QED
  BY <1>1, <1>2, <1>3, <1>4, <1>5, <1>6, <1>7 DEF Next

(* The inductive invariant holds of every behaviour.                       *)
THEOREM Invariance == Spec => []IInv
BY InitIInv, StepIInv, PTL DEF Spec

(* The variables keep their types: no index, address, count or token count *)
(* in usb_msc.cpp ever leaves its range, whatever the sizes.               *)
THEOREM TypeCorrect == Spec => []TypeOK
BY Invariance, PTL DEF IInv

(* No token of s_free_bufs is lost or made up, whatever the number of      *)
(* buffers: the barrier always finds the CACHE_BUFS tokens it waits for.   *)
THEOREM TokensKept == Spec => []TokensConserved
BY Invariance, PTL DEF IInv

(* submit_locked() never blocks in xQueueSend, whatever the number of      *)
(* buffers.                                                                *)
THEOREM SubmitFindsRoom == Spec => []SubmitNeverWaits
<1>1. IInv => SubmitNeverWaits
  <2> SUFFICES ASSUME IInv, s_have_buf PROVE Len(s_wr_queue) < CACHE_BUFS
    BY DEF SubmitNeverWaits
  <2>1. Filling = 1
    BY DEF Filling
  <2> QED
    BY <2>1, Counts, SizesAssumption DEF IInv, TokensConserved
<1> QED
  BY <1>1, Invariance, PTL

(* No buffer is two things at once: none of those behind s_fill is s_fill. *)
LEMMA BuffersAreApart == IInv => NoBufferRace
<1> SUFFICES ASSUME IInv PROVE NoBufferRace
  OBVIOUS
<1> DEFINE n == Len(s_wr_queue)
<1>1. /\ n \in Nat /\ DOMAIN s_wr_queue = 1..n /\ s_fill \in Buffers
      /\ n <= CACHE_BUFS
      /\ s_have_buf => n < CACHE_BUFS
      /\ job # NoJob => n < CACHE_BUFS
      /\ job # NoJob /\ s_have_buf => n + 1 < CACHE_BUFS
  <2>1. job # NoJob => Writing = 1
    BY DEF Writing
  <2>2. s_have_buf => Filling = 1
    BY DEF Filling
  <2>3. n + Writing + Filling <= CACHE_BUFS
    BY Counts, SizesAssumption DEF IInv, TokensConserved
  <2>4. n \in Nat /\ DOMAIN s_wr_queue = 1..n /\ s_fill \in Buffers
    BY LenProperties DEF IInv, TypeOK
  <2>5. n <= CACHE_BUFS
    BY <2>3, <2>4, Counts, SizesAssumption DEF IInv
  <2>6. s_have_buf => n < CACHE_BUFS
    BY <2>2, <2>3, <2>4, Counts, SizesAssumption DEF IInv
  <2>7. job # NoJob => n < CACHE_BUFS
    BY <2>1, <2>3, <2>4, Counts, SizesAssumption DEF IInv
  <2>8. job # NoJob /\ s_have_buf => n + 1 < CACHE_BUFS
    BY <2>1, <2>2, <2>3, <2>4, SizesAssumption
  <2> QED
    BY <2>4, <2>5, <2>6, <2>7, <2>8
<1>2. /\ \A i \in 1..n : s_wr_queue[i].idx = Behind(s_fill, n + 1 - i)
      /\ job # NoJob => job.idx = Behind(s_fill, n + 1)
  BY DEF IInv, Ring
<1> HIDE DEF n
<1>3. \A k, m \in 1..CACHE_BUFS :
         Behind(s_fill, k) = Behind(s_fill, m) => k = m
  BY <1>1, SizesAssumption DEF Behind, Buffers
<1>4. \A k \in 1..(CACHE_BUFS - 1) : Behind(s_fill, k) # s_fill
  BY <1>1, SizesAssumption DEF Behind, Buffers
<1>5. ASSUME NEW i \in 1..n, NEW j \in 1..n,
             s_wr_queue[i].idx = s_wr_queue[j].idx
      PROVE  i = j
  BY <1>1, <1>2, <1>3, <1>5, SizesAssumption
<1>6. ASSUME job # NoJob, NEW i \in 1..n
      PROVE  job.idx # s_wr_queue[i].idx
  <2>1. n + 1 \in 1..CACHE_BUFS /\ n + 1 - i \in 1..CACHE_BUFS
    BY <1>1, <1>6, SizesAssumption
  <2> QED
    BY <2>1, <1>1, <1>2, <1>3, <1>6
<1>7. ASSUME s_have_buf, NEW i \in 1..n
      PROVE  s_fill # s_wr_queue[i].idx
  <2>1. n + 1 - i \in 1..(CACHE_BUFS - 1)
    BY <1>1, <1>7, SizesAssumption
  <2> QED
    BY <2>1, <1>2, <1>4
<1>8. ASSUME s_have_buf, job # NoJob
      PROVE  job.idx # s_fill
  <2>1. n + 1 \in 1..(CACHE_BUFS - 1)
    BY <1>1, <1>8, SizesAssumption
  <2> QED
    BY <2>1, <1>2, <1>4, <1>8
<1> QED
  BY <1>1, <1>5, <1>6, <1>7, <1>8 DEF NoBufferRace, QueuedBufs

(* Counting tokens and going round robin is enough to keep the buffer      *)
(* being filled apart from those queued and the one being written, and all *)
(* of them apart from each other, whatever the number of buffers.          *)
THEOREM BuffersApart == Spec => []NoBufferRace
BY BuffersAreApart, Invariance, PTL

-----------------------------------------------------------------------------
(***************************************************************************)
(* Proofs about what the cache holds: past the barrier the card is up to   *)
(* date, for every card, number and size of buffers and transfer length.   *)
(*                                                                         *)
(* Pending data is a sequence of runs; what counts of it for a sector is   *)
(* the youngest run that covers it, and the card if none does.  Latest     *)
(* says that this is what the host wrote last.  A barrier empties all      *)
(* three places a run can be in, and nothing is collected until it is over *)
(* (Drained): then the card is all there is.                               *)
(***************************************************************************)

(* Sector s is in run r from its k-th sector on, and what the run's buffer *)
(* has for it.                                                             *)
Covers(r, k, s) == s \in (r.lba + k)..(r.lba + r.count - 1)
Has(cache, r, s) == cache[r.idx][s - r.lba]

InLater(q, i, s) == \E k \in (i + 1)..Len(q) : Covers(q[k], 0, s)
InJob(s) == job # NoJob /\ Covers(job, landed, s)

(* With the run fill being collected and the runs q queued, the youngest   *)
(* data of sector s is acc[s].                                             *)
Youngest(cache, acc, fill, q, s) ==
    /\ Covers(fill, 0, s) => Has(cache, fill, s) = acc[s]
    /\ ~Covers(fill, 0, s) =>
          /\ \A i \in 1..Len(q) :
                Covers(q[i], 0, s) /\ ~InLater(q, i, s) => Has(cache, q[i], s) = acc[s]
          /\ ~InLater(q, 0, s) =>
                /\ InJob(s) => Has(cache, job, s) = acc[s]
                /\ ~InJob(s) => card[s] = acc[s]

Collected == [idx |-> s_fill, lba |-> s_lba, count |-> s_count]

Latest == ~s_failed =>
    \A s \in Sectors : Youngest(s_cache, accepted, Collected, s_wr_queue, s)

(* None of the three places a run can be in has one.                       *)
Quiet == s_count = 0 /\ s_wr_queue = <<>> /\ job = NoJob

Drained == (\E t \in Tasks : pc[t] = "settled") \/ pc["tusb"] = "restart" => Quiet

CInv == IInv /\ Latest /\ Drained

-----------------------------------------------------------------------------
(* The run being collected is a job but for its count, which may be 0.     *)
LEMMA CollectedFacts ==
    ASSUME IInv
    PROVE  /\ s_fill \in Buffers /\ s_lba \in Nat /\ s_count \in 0..CacheSectors
           /\ s_wr_queue \in Seq(Job) /\ Len(s_wr_queue) \in Nat
           /\ \A i \in 1..Len(s_wr_queue) : s_wr_queue[i] \in Job
           /\ s_count > 0 => Collected \in Job
<1>1. /\ s_fill \in Buffers /\ s_lba \in Nat /\ s_count \in 0..CacheSectors
      /\ s_wr_queue \in Seq(Job) /\ Len(s_wr_queue) \in Nat
      /\ s_lba + s_count <= Last + 1
  BY LenProperties, SizesAssumption DEF IInv, TypeOK, InRange
<1>2. \A i \in 1..Len(s_wr_queue) : s_wr_queue[i] \in Job
  BY <1>1, ElementOfSeq
<1>3. s_count > 0 => Collected \in Job
  BY <1>1, SizesAssumption DEF Collected, Job, Sectors
<1> QED BY <1>1, <1>2, <1>3

(* A run that is submitted is the youngest of the queue. *)
LEMMA Submitted ==
    ASSUME NEW cache, NEW acc, NEW q \in Seq(Job), NEW fill \in Job, NEW next,
           next.lba \in Int, next.count = 0, NEW s \in Sectors,
           Youngest(cache, acc, fill, q, s)
    PROVE  Youngest(cache, acc, next, Append(q, fill), s)
<1> DEFINE n == Len(q)
           r == Append(q, fill)
<1>1. /\ n \in Nat /\ Len(r) = n + 1 /\ r[n + 1] = fill
      /\ \A i \in 1..n : r[i] = q[i]
  BY AppendProperties, LenProperties
<1>2. ~Covers(next, 0, s)
  BY SizesAssumption DEF Covers, Sectors
<1> HIDE DEF r
<1>3. ASSUME NEW i \in 0..n
      PROVE  InLater(r, i, s) <=> InLater(q, i, s) \/ Covers(fill, 0, s)
  <2>1. \A k \in (i + 1)..Len(r) : k \in (i + 1)..n \/ k = n + 1
    BY <1>1
  <2>2. (i + 1)..n \subseteq (i + 1)..Len(r) /\ n + 1 \in (i + 1)..Len(r)
        /\ (i + 1)..n \subseteq 1..n
    BY <1>1
  <2> HIDE DEF n
  <2> QED BY <1>1, <2>1, <2>2 DEF InLater, n
<1>4. ASSUME NEW i \in 1..Len(r), Covers(r[i], 0, s), ~InLater(r, i, s)
      PROVE  Has(cache, r[i], s) = acc[s]
  <2>1. CASE i = n + 1
    BY <1>1, <1>4, <2>1 DEF Youngest
  <2>2. CASE i # n + 1
    <3>1. i \in 1..n /\ r[i] = q[i]
      BY <1>1, <2>2
    <3>2. ~InLater(q, i, s) /\ ~Covers(fill, 0, s)
      BY <1>3, <1>4, <3>1
    <3> QED BY <1>4, <3>1, <3>2 DEF Youngest
  <2> QED BY <2>1, <2>2
<1>5. ASSUME ~InLater(r, 0, s)
      PROVE  /\ InJob(s) => Has(cache, job, s) = acc[s]
             /\ ~InJob(s) => card[s] = acc[s]
  <2>1. ~InLater(q, 0, s) /\ ~Covers(fill, 0, s)
    BY <1>1, <1>3, <1>5
  <2> QED BY <2>1 DEF Youngest
<1> HIDE DEF n
<1>6. Youngest(cache, acc, next, r, s)
  BY <1>2, <1>4, <1>5 DEF Youngest
<1> QED BY <1>6 DEF r

(* The same for the code's Submit, of c sectors.                           *)
LEMMA SubmitKeeps ==
    ASSUME IInv, NEW cache, NEW acc, NEW c \in 1..CacheSectors, s_lba + c <= Last + 1,
           Submit(c), s_lba' \in Int, NEW s \in Sectors,
           Youngest(cache, acc, [idx |-> s_fill, lba |-> s_lba, count |-> c], s_wr_queue, s)
    PROVE  Youngest(cache, acc, Collected', s_wr_queue', s)
<1> DEFINE fill == [idx |-> s_fill, lba |-> s_lba, count |-> c]
<1>1. fill \in Job
  BY CollectedFacts, SizesAssumption DEF Job, Sectors
<1>2. s_wr_queue' = Append(s_wr_queue, fill) /\ s_count' = 0
  BY DEF Submit
<1>3. Collected'.lba \in Int /\ Collected'.count = 0
  BY <1>2 DEF Collected
<1> HIDE DEF fill
<1>4. Youngest(cache, acc, fill, s_wr_queue, s)
  BY DEF fill
<1> QED BY <1>1, <1>2, <1>3, <1>4, CollectedFacts, Submitted

(* A step in which the writer stands still, and one that changes nothing.  *)
LEMMA WriterStill ==
    ASSUME UNCHANGED <<card, job, landed>>, NEW s
    PROVE  Youngest(s_cache, accepted, Collected, s_wr_queue, s)'
              <=> Youngest(s_cache', accepted', Collected', s_wr_queue', s)
BY DEF Youngest, InJob

LEMMA ContentsStill ==
    ASSUME Latest, UNCHANGED <<card, job, landed, s_failed, s_cache, accepted, s_wr_queue,
                               s_fill, s_lba, s_count>>
    PROVE  Latest'
<1>1. Collected' = Collected
  BY DEF Collected
<1> QED BY <1>1, WriterStill DEF Latest

-----------------------------------------------------------------------------
LEMMA InitContents == ASSUME Init PROVE Latest /\ Drained
<1>1. Latest
  <2>1. SUFFICES ASSUME NEW s \in Sectors
                 PROVE  Youngest(s_cache, accepted, Collected, s_wr_queue, s)
    BY DEF Latest
  <2>2. ~Covers(Collected, 0, s) /\ ~InJob(s) /\ card[s] = accepted[s]
    BY <2>1, SizesAssumption DEF Init, Covers, Collected, InJob, Sectors
  <2>3. s_wr_queue = <<>> /\ Len(s_wr_queue) = 0
    BY DEF Init
  <2> QED BY <2>2, <2>3 DEF Youngest
<1>2. Drained
  BY NamesAssumption DEF Init, Drained, Quiet, Tasks
<1> QED BY <1>1, <1>2

(* write10 submits a run that is not contiguous.                           *)
LEMMA WriteLockLatest == ASSUME IInv, Latest, WriteLock PROVE Latest'
<1> USE DEF WriteLock
<1>1. SUFFICES ASSUME ~s_failed, NEW s \in Sectors
               PROVE  Youngest(s_cache', accepted', Collected', s_wr_queue', s)
  BY WriterStill DEF Latest, writerVars
<1>2. Youngest(s_cache, accepted, Collected, s_wr_queue, s)
  BY <1>1 DEF Latest
<1>3. s_cache' = s_cache /\ accepted' = accepted /\ cmd.lba \in Int
  BY DEF IInv, TypeOK, Cmd
<1>4. CASE s_count > 0 /\ cmd.lba # s_lba + s_count
  <2>1. Submit(s_count) /\ s_lba' \in Int
    BY <1>3, <1>4
  <2>2. s_count \in 1..CacheSectors /\ s_lba + s_count <= Last + 1
    BY <1>4, CollectedFacts DEF IInv, InRange
  <2> QED BY <1>2, <1>3, <2>1, <2>2, SubmitKeeps DEF Collected
<1>5. CASE ~(s_count > 0 /\ cmd.lba # s_lba + s_count)
  <2>1. s_fill' = s_fill /\ s_count' = s_count /\ s_wr_queue' = s_wr_queue
        /\ (s_count # 0 => s_lba' = s_lba) /\ s_lba' \in Int
    BY <1>3, <1>5, CollectedFacts
  <2>2. CASE s_count = 0
    <3>1. ~Covers(Collected, 0, s) /\ ~Covers(Collected', 0, s)
      BY <2>1, <2>2, CollectedFacts, SizesAssumption DEF Covers, Collected, Sectors
    <3> QED BY <1>2, <1>3, <2>1, <3>1 DEF Youngest
  <2>3. CASE s_count # 0
    <3>1. Collected' = Collected
      BY <2>1, <2>3 DEF Collected
    <3> QED BY <1>2, <1>3, <2>1, <3>1
  <2> QED BY <2>2, <2>3
<1> QED BY <1>4, <1>5

(* The barrier submits what has been collected.                            *)
LEMMA BarrierBeginLatest ==
    ASSUME IInv, Latest, NEW t \in Tasks, BarrierBegin(t) PROVE Latest'
<1> USE DEF BarrierBegin
<1>1. SUFFICES ASSUME ~s_failed, NEW s \in Sectors
               PROVE  Youngest(s_cache', accepted', Collected', s_wr_queue', s)
  BY WriterStill DEF Latest, writerVars
<1>2. Youngest(s_cache, accepted, Collected, s_wr_queue, s)
  BY <1>1 DEF Latest
<1>3. s_cache' = s_cache /\ accepted' = accepted /\ s_lba' = s_lba
  OBVIOUS
<1>4. CASE s_count > 0
  <2>1. Submit(s_count) /\ s_lba' \in Int
    BY <1>4, CollectedFacts
  <2>2. s_count \in 1..CacheSectors /\ s_lba + s_count <= Last + 1
    BY <1>4, CollectedFacts DEF IInv, InRange
  <2> QED BY <1>2, <1>3, <2>1, <2>2, SubmitKeeps DEF Collected
<1>5. CASE ~(s_count > 0)
  <2>1. Collected' = Collected /\ s_wr_queue' = s_wr_queue
    BY <1>5 DEF Collected
  <2> QED BY <1>2, <1>3, <2>1
<1> QED BY <1>4, <1>5

(* The buffer that is filled is nobody else's, so that what others have    *)
(* stays as it is (NoBufferRace).                                          *)
LEMMA Apart ==
    ASSUME IInv, s_have_buf
    PROVE  /\ \A i \in 1..Len(s_wr_queue) : s_wr_queue[i].idx # s_fill
           /\ job # NoJob => job.idx # s_fill
<1>1. NoBufferRace
  BY BuffersAreApart
<1>2. DOMAIN s_wr_queue = 1..Len(s_wr_queue)
  BY LenProperties DEF IInv, TypeOK
<1> QED BY <1>1, <1>2 DEF NoBufferRace, QueuedBufs

LEMMA CopyFacts ==
    ASSUME IInv, WriteCopy
    PROVE  \E n \in Nat :
       /\ s_count + n \in 1..CacheSectors /\ s_lba + s_count + n <= Last + 1
       /\ cmd.lba = s_lba + s_count /\ n <= Len(cmd.data)
       /\ s_cache' = [s_cache EXCEPT ![s_fill] =
             [k \in 0..(CacheSectors - 1) |->
                 IF k \in s_count..(s_count + n - 1)
                 THEN cmd.data[k - s_count + 1] ELSE s_cache[s_fill][k]]]
       /\ accepted' = [s \in Sectors |->
             IF s \in cmd.lba..(cmd.lba + n - 1)
             THEN cmd.data[s - cmd.lba + 1] ELSE accepted[s]]
       /\ IF s_count + n = CacheSectors
          THEN Submit(s_count + n) /\ s_lba' = s_lba + s_count + n
          ELSE s_count' = s_count + n /\ UNCHANGED <<s_lba, s_fill, s_wr_queue>>
<1> DEFINE len == Len(cmd.data)
           room == CacheSectors - s_count
           n == IF len < room THEN len ELSE room
<1>1. /\ cmd.data \in Seq(Val) /\ cmd.data # <<>> /\ cmd.lba = s_lba + s_count
      /\ cmd.lba + len <= Last + 1
  BY DEF IInv, TypeOK, Cmd, InRange, WriteCopy
<1>2. len \in Nat \ {0}
  BY <1>1, EmptySeq, LenProperties
<1>3. s_count \in 0..CacheSectors /\ s_lba \in Nat
  BY CollectedFacts
<1>4. s_count # 0 \/ CacheSectors # 0
  BY SizesAssumption
<1> HIDE DEF len
<1>5. room \in Nat /\ n \in Nat /\ n <= len /\ n <= room /\ (n = len \/ n = room)
  BY <1>2, <1>3, SizesAssumption
<1>6. s_count + n \in 1..CacheSectors /\ s_lba + s_count + n <= Last + 1
  BY <1>1, <1>2, <1>3, <1>5, SizesAssumption
<1>7. /\ s_cache' = [s_cache EXCEPT ![s_fill] =
             [k \in 0..(CacheSectors - 1) |->
                 IF k \in s_count..(s_count + n - 1)
                 THEN cmd.data[k - s_count + 1] ELSE s_cache[s_fill][k]]]
      /\ accepted' = [s \in Sectors |->
             IF s \in cmd.lba..(cmd.lba + n - 1)
             THEN cmd.data[s - cmd.lba + 1] ELSE accepted[s]]
      /\ IF s_count + n = CacheSectors
         THEN Submit(s_count + n) /\ s_lba' = s_lba + s_count + n
         ELSE s_count' = s_count + n /\ UNCHANGED <<s_lba, s_fill, s_wr_queue>>
  BY DEF WriteCopy, len
<1>8. n <= Len(cmd.data)
  BY <1>5 DEF len
<1> HIDE DEF n
<1> QED BY <1>1, <1>5, <1>6, <1>7, <1>8

(* What is copied is the youngest data of its sectors.                     *)
LEMMA WriteCopyLatest == ASSUME IInv, Latest, WriteCopy PROVE Latest'
<1>1. PICK n \in Nat :
       /\ s_count + n \in 1..CacheSectors /\ s_lba + s_count + n <= Last + 1
       /\ cmd.lba = s_lba + s_count /\ n <= Len(cmd.data)
       /\ s_cache' = [s_cache EXCEPT ![s_fill] =
             [k \in 0..(CacheSectors - 1) |->
                 IF k \in s_count..(s_count + n - 1)
                 THEN cmd.data[k - s_count + 1] ELSE s_cache[s_fill][k]]]
       /\ accepted' = [s \in Sectors |->
             IF s \in cmd.lba..(cmd.lba + n - 1)
             THEN cmd.data[s - cmd.lba + 1] ELSE accepted[s]]
       /\ IF s_count + n = CacheSectors
          THEN Submit(s_count + n) /\ s_lba' = s_lba + s_count + n
          ELSE s_count' = s_count + n /\ UNCHANGED <<s_lba, s_fill, s_wr_queue>>
  BY CopyFacts
<1>2. s_have_buf /\ UNCHANGED <<card, job, landed, s_failed>>
  BY DEF WriteCopy, writerVars
<1>3. SUFFICES ASSUME ~s_failed, NEW s \in Sectors
               PROVE  Youngest(s_cache', accepted', Collected', s_wr_queue', s)
  BY <1>2, WriterStill DEF Latest
<1>4. Youngest(s_cache, accepted, Collected, s_wr_queue, s)
  BY <1>3 DEF Latest
<1>5. /\ s_fill \in Buffers /\ s_lba \in Nat /\ s_count \in 0..CacheSectors /\ s \in Nat
      /\ s_cache \in [Buffers -> [0..(CacheSectors - 1) -> Contents]]
  BY CollectedFacts, SizesAssumption DEF IInv, TypeOK, Sectors
<1> DEFINE fill == [idx |-> s_fill, lba |-> s_lba, count |-> s_count + n]
<1>6. ASSUME NEW b, b # s_fill PROVE s_cache'[b] = s_cache[b]
  BY <1>1, <1>5, <1>6
<1>7. ASSUME s \in cmd.lba..(cmd.lba + n - 1)
      PROVE  Youngest(s_cache', accepted', fill, s_wr_queue, s)
  <2> DEFINE k == s - s_lba
  <2>1. k \in s_count..(s_count + n - 1) /\ k \in 0..(CacheSectors - 1)
        /\ k - s_count + 1 = s - cmd.lba + 1
    BY <1>1, <1>5, <1>7, SizesAssumption
  <2> HIDE DEF k
  <2>2. s_cache'[s_fill][k] = cmd.data[s - cmd.lba + 1]
    BY <1>1, <1>5, <2>1
  <2>3. accepted'[s] = cmd.data[s - cmd.lba + 1]
    BY <1>1, <1>3, <1>7
  <2>4. Covers(fill, 0, s)
    BY <1>1, <1>5, <1>7 DEF Covers
  <2> QED BY <2>2, <2>3, <2>4 DEF Youngest, Has, k
<1>8. ASSUME s \notin cmd.lba..(cmd.lba + n - 1)
      PROVE  Youngest(s_cache', accepted', fill, s_wr_queue, s)
  <2>1. accepted'[s] = accepted[s]
    BY <1>1, <1>3, <1>8
  <2>2. Covers(fill, 0, s) <=> Covers(Collected, 0, s)
    BY <1>1, <1>5, <1>8 DEF Covers, Collected
  <2>3. ASSUME Covers(Collected, 0, s)
        PROVE  Has(s_cache', fill, s) = Has(s_cache, Collected, s)
    <3> DEFINE k == s - s_lba
    <3>1. k \in 0..(CacheSectors - 1) /\ k \notin s_count..(s_count + n - 1)
      BY <1>1, <1>5, <1>8, <2>3, SizesAssumption DEF Covers, Collected
    <3> HIDE DEF k
    <3>2. s_cache'[s_fill][k] = s_cache[s_fill][k]
      BY <1>1, <1>5, <3>1
    <3> QED BY <3>2 DEF Has, Collected, k
  <2>4. ASSUME NEW i \in 1..Len(s_wr_queue)
        PROVE  Has(s_cache', s_wr_queue[i], s) = Has(s_cache, s_wr_queue[i], s)
    BY <1>2, <1>6, Apart DEF Has
  <2>5. job # NoJob => Has(s_cache', job, s) = Has(s_cache, job, s)
    BY <1>2, <1>6, Apart DEF Has
  <2> HIDE DEF fill
  <2> QED BY <1>4, <2>1, <2>2, <2>3, <2>4, <2>5 DEF Youngest, InJob
<1>9. Youngest(s_cache', accepted', fill, s_wr_queue, s)
  BY <1>7, <1>8
<1>10. CASE s_count + n = CacheSectors
  <2>1. Submit(s_count + n) /\ s_lba' \in Int
    BY <1>1, <1>5, <1>10
  <2>2. s_count + n \in 1..CacheSectors /\ s_lba + (s_count + n) <= Last + 1
    BY <1>1, <1>5, SizesAssumption
  <2> QED BY <1>9, <2>1, <2>2, SubmitKeeps
<1>11. CASE s_count + n # CacheSectors
  <2>1. Collected' = fill /\ s_wr_queue' = s_wr_queue
    BY <1>1, <1>11 DEF Collected
  <2> QED BY <1>9, <2>1
<1> QED BY <1>10, <1>11

-----------------------------------------------------------------------------
LEMMA WriterReceiveLatest == ASSUME IInv, Latest, WriterReceive PROVE Latest'
<1> USE DEF WriterReceive, cacheVars
<1> DEFINE q == s_wr_queue
           r == s_wr_queue'
<1>1. /\ Len(q) \in Nat \ {0} /\ Len(r) = Len(q) - 1 /\ job' = q[1]
      /\ \A i \in 1..Len(r) : r[i] = q[i + 1]
      /\ q[1] \in Job
  BY HeadTailProperties, EmptySeq, LenProperties, ElementOfSeq DEF IInv, TypeOK
<1>2. UNCHANGED <<s_cache, accepted, card, s_failed>> /\ Collected' = Collected
      /\ job = NoJob /\ landed' = 0
  BY DEF Collected
<1>3. SUFFICES ASSUME ~s_failed, NEW s \in Sectors
               PROVE  Youngest(s_cache, accepted, Collected, s_wr_queue, s)'
  BY <1>2 DEF Latest
<1>4. Youngest(s_cache, accepted, Collected, q, s)
  BY <1>3 DEF Latest
<1>5. job' # NoJob /\ (InJob(s)' <=> Covers(q[1], 0, s)) /\ ~InJob(s)
  BY <1>1, <1>2, NamesAssumption DEF InJob, Job, Covers
<1> HIDE DEF q, r
<1>6. ASSUME NEW i \in 0..Len(r) PROVE InLater(r, i, s) <=> InLater(q, i + 1, s)
  <2>1. ASSUME InLater(r, i, s) PROVE InLater(q, i + 1, s)
    <3>1. PICK k \in (i + 1)..Len(r) : Covers(r[k], 0, s)
      BY <2>1 DEF InLater
    <3>2. k \in 1..Len(r) /\ k + 1 \in (i + 1 + 1)..Len(q)
      BY <1>1
    <3> QED BY <1>1, <3>1, <3>2 DEF InLater
  <2>2. ASSUME InLater(q, i + 1, s) PROVE InLater(r, i, s)
    <3>1. PICK k \in (i + 1 + 1)..Len(q) : Covers(q[k], 0, s)
      BY <2>2 DEF InLater
    <3>2. k - 1 \in 1..Len(r) /\ k - 1 \in (i + 1)..Len(r) /\ (k - 1) + 1 = k
      BY <1>1
    <3>3. r[k - 1] = q[k]
      BY <1>1, <3>2
    <3> QED BY <3>1, <3>2, <3>3 DEF InLater
  <2> QED BY <2>1, <2>2
<1>7. ASSUME NEW i \in 1..Len(r), ~Covers(Collected, 0, s),
             Covers(r[i], 0, s), ~InLater(r, i, s)
      PROVE  Has(s_cache, r[i], s) = accepted[s]
  <2>1. i + 1 \in 1..Len(q) /\ r[i] = q[i + 1] /\ ~InLater(q, i + 1, s)
    BY <1>1, <1>6, <1>7
  <2> QED BY <1>4, <1>7, <2>1 DEF Youngest
<1>8. ASSUME ~Covers(Collected, 0, s), ~InLater(r, 0, s)
      PROVE  /\ InJob(s)' => Has(s_cache, q[1], s) = accepted[s]
             /\ ~InJob(s)' => card[s] = accepted[s]
  <2>1. ~InLater(q, 1, s) /\ 1 \in 1..Len(q)
    BY <1>1, <1>6, <1>8
  <2>2. ~InJob(s)' => ~InLater(q, 0, s)
    <3>1. SUFFICES ASSUME InLater(q, 0, s), ~InLater(q, 1, s) PROVE InJob(s)'
      BY <2>1
    <3>2. PICK k \in (0 + 1)..Len(q) : Covers(q[k], 0, s)
      BY <3>1 DEF InLater
    <3>3. k \notin (1 + 1)..Len(q)
      BY <3>1, <3>2 DEF InLater
    <3>4. k = 1
      BY <1>1, <3>2, <3>3
    <3> QED BY <1>5, <3>2, <3>4
  <2>3. InJob(s)' => Has(s_cache, q[1], s) = accepted[s]
    BY <1>4, <1>5, <1>8, <2>1 DEF Youngest
  <2>4. ~InLater(q, 0, s) => card[s] = accepted[s]
    BY <1>4, <1>5, <1>8 DEF Youngest
  <2> QED BY <2>2, <2>3, <2>4
<1>9. Covers(Collected, 0, s) => Has(s_cache, Collected, s) = accepted[s]
  BY <1>4 DEF Youngest
<1> QED BY <1>1, <1>2, <1>7, <1>8, <1>9 DEF Youngest, r

(* A sector that lands was the youngest, or a younger one is behind it.    *)
LEMMA WriterSectorLatest == ASSUME IInv, Latest, WriterSector PROVE Latest'
<1> USE DEF WriterSector, cacheVars
<1>1. /\ job \in Job /\ job.lba \in Nat /\ job.count \in Nat /\ landed \in Nat
      /\ landed < job.count /\ landed' = landed + 1
      /\ job.lba + landed \in Sectors
  BY SizesAssumption DEF IInv, TypeOK, InRange, Job, Sectors
<1>2. /\ UNCHANGED <<s_cache, accepted, s_wr_queue, s_failed, job>> /\ Collected' = Collected
      /\ card' = [card EXCEPT ![job.lba + landed] = s_cache[job.idx][landed]]
  BY DEF Collected
<1>3. SUFFICES ASSUME ~s_failed, NEW s \in Sectors
               PROVE  Youngest(s_cache, accepted, Collected, s_wr_queue, s)'
  BY <1>2 DEF Latest
<1>4. Youngest(s_cache, accepted, Collected, s_wr_queue, s)
  BY <1>3 DEF Latest
<1>5. CASE s = job.lba + landed
  <2>1. InJob(s) /\ ~InJob(s)'
    BY <1>1, <1>2, <1>5 DEF InJob, Covers
  <2>2. s - job.lba = landed
    BY <1>1, <1>5
  <2>3. card'[s] = Has(s_cache, job, s)
    BY <1>1, <1>2, <1>5, <2>2 DEF Has, IInv, TypeOK
  <2> QED BY <1>2, <1>4, <2>1, <2>3 DEF Youngest
<1>6. CASE s # job.lba + landed
  <2>1. InJob(s)' <=> InJob(s)
    <3>1. s \in Int
      BY <1>3, SizesAssumption DEF Sectors
    <3>2. Covers(job, landed + 1, s) <=> Covers(job, landed, s)
      BY <1>1, <1>6, <3>1 DEF Covers
    <3>3. InJob(s)' <=> job # NoJob /\ Covers(job, landed + 1, s)
      BY <1>1, <1>2 DEF InJob, Covers
    <3> QED BY <3>2, <3>3 DEF InJob
  <2>2. card'[s] = card[s]
    BY <1>1, <1>2, <1>3, <1>6 DEF IInv, TypeOK
  <2> QED BY <1>2, <1>4, <2>1, <2>2 DEF Youngest
<1> QED BY <1>5, <1>6

(* The buffer given back has nothing of anybody's.                         *)
LEMMA WriterDoneLatest == ASSUME IInv, Latest, WriterDone PROVE Latest'
<1> USE DEF WriterDone, GiveBufBack
<1>1. /\ job \in Job /\ job # NoJob /\ landed = job.count
      /\ UNCHANGED <<card, accepted, s_wr_queue, s_failed>> /\ Collected' = Collected
      /\ s_cache' = [s_cache EXCEPT ![job.idx] = BlankBuffer] /\ job' = NoJob
  BY DEF IInv, TypeOK, Collected
<1>2. ASSUME NEW b, b # job.idx PROVE s_cache'[b] = s_cache[b]
  BY <1>1, <1>2 DEF IInv, TypeOK
<1> HIDE DEF WriterDone, GiveBufBack
<1>3. SUFFICES ASSUME ~s_failed, NEW s \in Sectors
               PROVE  Youngest(s_cache, accepted, Collected, s_wr_queue, s)'
  BY <1>1 DEF Latest
<1>4. Youngest(s_cache, accepted, Collected, s_wr_queue, s)
  BY <1>3 DEF Latest
<1>5. ~InJob(s) /\ ~InJob(s)'
  BY <1>1, <1>3, SizesAssumption DEF InJob, Covers, Job, Sectors
<1>6. ASSUME Covers(Collected, 0, s)
      PROVE  Has(s_cache', Collected, s) = Has(s_cache, Collected, s)
  <2>1. s_count > 0
    BY <1>3, <1>6, CollectedFacts, SizesAssumption DEF Covers, Collected, Sectors
  <2>2. s_have_buf
    BY <2>1 DEF IInv, Fill
  <2> QED BY <1>1, <1>2, <2>2, Apart DEF Has, Collected
<1>7. ASSUME NEW i \in 1..Len(s_wr_queue)
      PROVE  Has(s_cache', s_wr_queue[i], s) = Has(s_cache, s_wr_queue[i], s)
  <2>1. s_wr_queue[i].idx # job.idx
    BY <1>1, <1>7, BuffersAreApart, LenProperties DEF NoBufferRace, QueuedBufs, IInv, TypeOK
  <2> QED BY <1>2, <2>1 DEF Has
<1> QED BY <1>1, <1>4, <1>5, <1>6, <1>7 DEF Youngest

LEMMA RebootLatest == ASSUME Reboot PROVE Latest' /\ Drained'
<1>1. Latest'
  <2>1. SUFFICES ASSUME NEW s \in Sectors
                 PROVE  Youngest(s_cache, accepted, Collected, s_wr_queue, s)'
    BY DEF Latest
  <2>2. ~Covers(Collected, 0, s)' /\ ~InJob(s)' /\ card'[s] = accepted'[s]
    BY <2>1, SizesAssumption DEF Reboot, Covers, Collected, InJob, Sectors
  <2>3. s_wr_queue' = <<>> /\ Len(s_wr_queue') = 0
    BY DEF Reboot
  <2> QED BY <2>2, <2>3 DEF Youngest
<1>2. Drained'
  BY NamesAssumption DEF Reboot, Drained, Quiet, Tasks
<1> QED BY <1>1, <1>2

LEMMA NextLatest == ASSUME IInv, Latest, [Next]_vars PROVE Latest'
<1> USE DEF cacheVars, writerVars
<1>1. CASE HostStep
  BY <1>1, ContentsStill DEF HostStep, HostWrite, HostSettle
<1>2. CASE WriteStep
  <2>1. CASE WriteTakeBuf \/ WriteDone
    BY <2>1, ContentsStill DEF WriteTakeBuf, WriteDone
  <2> QED BY <1>2, <2>1, WriteLockLatest, WriteCopyLatest DEF WriteStep
<1>3. CASE WriterStep
  <2>1. CASE WriterFail
    BY <2>1 DEF WriterFail, Latest
  <2> QED BY <1>3, <2>1, WriterReceiveLatest, WriterSectorLatest, WriterDoneLatest
          DEF WriterStep
<1>4. CASE MainCheck \/ Escape
  BY <1>4, ContentsStill DEF MainCheck, Escape
<1>5. ASSUME NEW t \in Tasks, CallerStep(t) PROVE Latest'
  <2>1. CASE BarrierTake(t) \/ BarrierEnd(t) \/ Unlock(t)
    BY <2>1, ContentsStill DEF BarrierTake, BarrierEnd, Unlock
  <2> QED BY <1>5, <2>1, BarrierBeginLatest DEF CallerStep
<1>6. CASE RestartByTask \/ PowerCut
  BY <1>6, RebootLatest DEF RestartByTask, PowerCut
<1>7. CASE UNCHANGED vars
  BY <1>7, ContentsStill DEF vars
<1> QED BY <1>1, <1>2, <1>3, <1>4, <1>5, <1>6, <1>7 DEF Next

-----------------------------------------------------------------------------
(* Nobody collects, queues or writes while a settled caller holds s_mux or *)
(* the touch is about to restart.                                          *)
LEMMA QuietStays ==
    ASSUME IInv, Quiet, Next, \/ \E t \in Tasks : pc[t] = "settled"
                              \/ pc["tusb"] = "restart"
    PROVE  Quiet'
<1> USE NamesAssumption DEF Quiet, cacheVars, writerVars
<1>1. pc["tusb"] # "w_lock" \/ s_mux # NoTask
  BY DEF IInv, Mutex, Tasks
<1>2. pc["tusb"] # "w_copy"
  BY DEF IInv, Mutex, Tasks
<1>3. CASE HostStep
  BY <1>3 DEF HostStep, HostWrite, HostSettle
<1>4. CASE WriteStep
  BY <1>1, <1>2, <1>4 DEF WriteStep, WriteLock, WriteTakeBuf, WriteCopy, WriteDone
<1>5. CASE WriterStep
  BY <1>5 DEF WriterStep, WriterReceive, WriterSector, WriterDone, WriterFail
<1>6. CASE MainCheck \/ Escape
  BY <1>6 DEF MainCheck, Escape
<1>7. ASSUME NEW t \in Tasks, CallerStep(t) PROVE Quiet'
  BY <1>7 DEF CallerStep, BarrierBegin, BarrierTake, BarrierEnd, Unlock
<1>8. CASE RestartByTask \/ PowerCut
  BY <1>8 DEF RestartByTask, PowerCut, Reboot
<1> QED BY <1>3, <1>4, <1>5, <1>6, <1>7, <1>8 DEF Next

(* A caller that has all tokens finds every buffer idle.                   *)
LEMMA AllTokens ==
    ASSUME IInv, NEW t \in Tasks, BarrierEnd(t)
    PROVE  Quiet'
<1>1. s_count = 0 /\ taken = CACHE_BUFS
  BY DEF IInv, Fill, BarrierEnd
<1>2. Writing = 0 /\ Len(s_wr_queue) = 0
  BY <1>1, Counts, SizesAssumption DEF IInv, TokensConserved
<1>3. job = NoJob
  BY <1>2 DEF Writing
<1>4. s_wr_queue = <<>>
  BY <1>2, EmptySeq DEF IInv, TypeOK
<1> QED BY <1>1, <1>3, <1>4 DEF BarrierEnd, Quiet, writerVars

LEMMA NextDrained == ASSUME IInv, Drained, [Next]_vars PROVE Drained'
<1> USE NamesAssumption DEF cacheVars, writerVars, Go
<1> DEFINE past == (\E t \in Tasks : pc[t] = "settled") \/ pc["tusb"] = "restart"
<1>1. CASE past /\ Next
  BY <1>1, QuietStays DEF Drained, Quiet
<1>2. CASE ~past /\ Next
  <2>1. CASE \E t \in Tasks : BarrierEnd(t)
    BY <2>1, AllTokens DEF Drained, Quiet
  <2>2. CASE ~ \E t \in Tasks : BarrierEnd(t)
    <3>1. ASSUME NEW t \in Tasks, NEW label \in {"idle", "lock", "drain", "w_lock", "w_copy"},
                 NEW u \in Tasks, pc' = [pc EXCEPT ![u] = label]
          PROVE  pc'[t] \notin {"settled", "restart"} \/ pc'[t] = pc[t]
      BY <3>1 DEF IInv, TypeOK
    <3>2. ASSUME NEW t \in Tasks
          PROVE  pc'[t] \notin {"settled", "restart"} \/ pc'[t] = pc[t]
      <4>1. CASE HostStep
        BY <3>1, <4>1 DEF HostStep, HostWrite, HostSettle, Tasks
      <4>2. CASE WriteStep
        BY <3>1, <4>2 DEF WriteStep, WriteLock, WriteTakeBuf, WriteCopy, WriteDone, Tasks
      <4>3. CASE WriterStep
        BY <4>3 DEF WriterStep, WriterReceive, WriterSector, WriterDone, WriterFail, GiveBufBack
      <4>4. CASE MainCheck \/ Escape
        BY <3>1, <4>4 DEF MainCheck, Escape, Tasks
      <4>5. ASSUME NEW u \in Tasks, CallerStep(u)
            PROVE  pc'[t] \notin {"settled", "restart"} \/ pc'[t] = pc[t]
        <5>1. ~BarrierEnd(u) /\ ~Unlock(u)
          BY <1>2, <2>2 DEF Unlock
        <5> QED BY <3>1, <4>5, <5>1 DEF CallerStep, BarrierBegin, BarrierTake
      <4>6. CASE RestartByTask \/ PowerCut
        BY <4>6 DEF RestartByTask, PowerCut, Reboot
      <4> QED BY <1>2, <4>1, <4>2, <4>3, <4>4, <4>5, <4>6 DEF Next
    <3>3. "tusb" \in Tasks
      BY DEF Tasks
    <3> QED BY <1>2, <3>2, <3>3 DEF Drained
  <2> QED BY <2>1, <2>2
<1>3. CASE UNCHANGED vars
  BY <1>3 DEF vars, Drained, Quiet
<1> QED BY <1>1, <1>2, <1>3

THEOREM ContentsInvariance == Spec => []CInv
<1>1. Init => CInv
  BY InitIInv, InitContents DEF CInv
<1>2. CInv /\ [Next]_vars => CInv'
  BY StepIInv, NextLatest, NextDrained DEF CInv
<1> QED BY <1>1, <1>2, PTL DEF Spec

-----------------------------------------------------------------------------
(* FlattenSeq, by the least index at which two ways to build it up would   *)
(* differ.                                                                 *)

(* What FlattenSeq builds up, block by block.                              *)
Flattens(bs, f) == f = [i \in 1..Len(bs) |-> IF i = 1 THEN bs[i] ELSE f[i - 1] \o bs[i]]

(* A set of naturals that is not empty has a least.                        *)
LEMMA Least ==
    ASSUME NEW B, B \subseteq Nat, B # {}
    PROVE  \E n \in B : \A m \in B : n <= m
<1>1. PICK n \in B : \A m \in B : <<m, n>> \notin OpToRel(<, Nat)
  BY WFMin, NatLessThanWellFounded, Zenon
<1>2. \A m \in B : ~(m < n)
  BY <1>1, Zenon DEF OpToRel
<1> QED BY <1>2

LEMMA FlattensExists ==
    ASSUME NEW T, NEW bs \in Seq(Seq(T))
    PROVE  \E f : Flattens(bs, f)
<1> DEFINE Upto(m, f) == f = [i \in 1..m |-> IF i = 1 THEN bs[i] ELSE f[i - 1] \o bs[i]]
           bad == {m \in Nat : ~ \E f : Upto(m, f)}
<1>1. Len(bs) \in Nat
  BY LenProperties
<1>2. SUFFICES ASSUME bad # {} PROVE FALSE
  <2>1. \E f : Upto(Len(bs), f)
    <3> HIDE DEF Upto
    <3> QED BY <1>1, <1>2
  <2> QED BY <2>1 DEF Flattens
<1>3. PICK n \in bad : \A m \in bad : n <= m
  <2>1. bad \subseteq Nat
    OBVIOUS
  <2> HIDE DEF bad
  <2> QED BY <1>2, <2>1, Least
<1>4. n \in Nat /\ ~ \E f : Upto(n, f)
  <2> HIDE DEF Upto
  <2> QED BY <1>3
<1>5. CASE n = 0
  <2>1. Upto(n, [i \in 1..0 |-> <<>>])
    BY <1>5
  <2> HIDE DEF Upto
  <2> QED BY <1>4, <2>1
<1>6. CASE n # 0
  <2>1. n - 1 \in Nat /\ ~(n <= n - 1)
    BY <1>4, <1>6
  <2>2. PICK f : Upto(n - 1, f)
    <3>1. n - 1 \notin bad
      BY <1>3, <2>1
    <3> HIDE DEF Upto
    <3> QED BY <2>1, <3>1
  <2> DEFINE g == [i \in 1..n |-> IF i < n THEN f[i] ELSE IF n = 1 THEN bs[1] ELSE f[n - 1] \o bs[n]]
  <2>3. \A i \in 1..n : g[i] = IF i = 1 THEN bs[i] ELSE g[i - 1] \o bs[i]
    <3> SUFFICES ASSUME NEW i \in 1..n
                 PROVE  g[i] = IF i = 1 THEN bs[i] ELSE g[i - 1] \o bs[i]
      OBVIOUS
    <3>1. CASE i = n
      BY <1>4, <3>1
    <3>2. CASE i # n
      <4>1. i \in 1..(n - 1) /\ i < n /\ (i # 1 => i - 1 \in 1..n /\ i - 1 < n)
        BY <1>4, <3>2
      <4>2. f[i] = IF i = 1 THEN bs[i] ELSE f[i - 1] \o bs[i]
        BY <2>2, <4>1
      <4>3. g[i] = f[i] /\ (i # 1 => g[i - 1] = f[i - 1])
        BY <4>1
      <4> QED BY <4>2, <4>3
    <3> QED BY <3>1, <3>2
  <2>4. Upto(n, g)
    <3>1. g = [i \in 1..n |-> g[i]]
      OBVIOUS
    <3> HIDE DEF g
    <3> QED BY <2>3, <3>1
  <2> HIDE DEF Upto, g
  <2> QED BY <1>4, <2>4
<1> QED BY <1>5, <1>6

LEMMA FlatEmpty == Sq!FlattenSeq(<<>>) = <<>>
BY DEF Sq!FlattenSeq

LEMMA FlatDef ==
    ASSUME NEW T, NEW bs \in Seq(Seq(T)), Len(bs) > 0
    PROVE  \E f : /\ Sq!FlattenSeq(bs) = f[Len(bs)]
                  /\ \A i \in 1..Len(bs) : f[i] = IF i = 1 THEN bs[i] ELSE f[i - 1] \o bs[i]
<1> DEFINE F(f) == f = [i \in 1..Len(bs) |-> IF i = 1 THEN bs[i] ELSE f[i - 1] \o bs[i]]
           g == CHOOSE f : F(f)
<1>1. Sq!FlattenSeq(bs) = g[Len(bs)]
  BY DEF Sq!FlattenSeq
<1>2. \E f : F(f)
  BY FlattensExists DEF Flattens
<1>3. F(g)
  <2> HIDE DEF F
  <2> QED BY <1>2
<1>4. \A i \in 1..Len(bs) : g[i] = IF i = 1 THEN bs[i] ELSE g[i - 1] \o bs[i]
  <2> HIDE DEF g
  <2> QED BY <1>3
<1> HIDE DEF g
<1> QED BY <1>1, <1>4

(* Two ways to build up the same differ nowhere if their steps do not.     *)
LEMMA FlatSteps ==
    ASSUME NEW T, NEW bs \in Seq(Seq(T)), NEW f,
           \A i \in 1..Len(bs) : f[i] = IF i = 1 THEN bs[i] ELSE f[i - 1] \o bs[i]
    PROVE  \A i \in 1..Len(bs) : f[i] \in Seq(T)
<1> DEFINE bad == {i \in 1..Len(bs) : f[i] \notin Seq(T)}
<1>1. Len(bs) \in Nat /\ \A i \in 1..Len(bs) : bs[i] \in Seq(T)
  BY LenProperties, ElementOfSeq
<1>2. SUFFICES ASSUME bad # {} PROVE FALSE
  OBVIOUS
<1>3. bad \subseteq Nat
  BY <1>1
<1> HIDE DEF bad
<1>4. PICK n \in bad : \A m \in bad : n <= m
  BY <1>2, <1>3, Least
<1>5. n \in 1..Len(bs) /\ f[n] \notin Seq(T)
  BY <1>4 DEF bad
<1>6. n # 1
  BY <1>1, <1>5
<1>7. n - 1 \in 1..Len(bs) /\ ~(n <= n - 1)
  BY <1>1, <1>5, <1>6
<1>8. f[n - 1] \in Seq(T)
  BY <1>4, <1>7 DEF bad
<1>9. f[n] = f[n - 1] \o bs[n]
  BY <1>5, <1>6
<1> QED BY <1>1, <1>5, <1>8, <1>9, ConcatProperties

LEMMA FlatType ==
    ASSUME NEW T, NEW bs \in Seq(Seq(T))
    PROVE  Sq!FlattenSeq(bs) \in Seq(T)
<1>1. Len(bs) \in Nat
  BY LenProperties
<1>2. CASE Len(bs) = 0
  BY <1>2, EmptySeq, FlatEmpty
<1>3. CASE Len(bs) > 0
  <2>1. PICK f : /\ Sq!FlattenSeq(bs) = f[Len(bs)]
                 /\ \A i \in 1..Len(bs) : f[i] = IF i = 1 THEN bs[i] ELSE f[i - 1] \o bs[i]
    BY <1>3, FlatDef
  <2>2. Len(bs) \in 1..Len(bs)
    BY <1>1, <1>3
  <2> QED BY <2>1, <2>2, FlatSteps
<1> QED BY <1>1, <1>2, <1>3

LEMMA FlatAppend ==
    ASSUME NEW T, NEW bs \in Seq(Seq(T)), NEW b \in Seq(T)
    PROVE  Sq!FlattenSeq(Append(bs, b)) = Sq!FlattenSeq(bs) \o b
<1> DEFINE n == Len(bs)
           cs == Append(bs, b)
<1>1. /\ n \in Nat /\ cs \in Seq(Seq(T)) /\ Len(cs) = n + 1 /\ cs[n + 1] = b
      /\ \A i \in 1..n : cs[i] = bs[i]
  BY AppendProperties, LenProperties
<1> HIDE DEF cs
<1>2. PICK g : /\ Sq!FlattenSeq(cs) = g[n + 1]
               /\ \A i \in 1..(n + 1) : g[i] = IF i = 1 THEN cs[i] ELSE g[i - 1] \o cs[i]
  <2>1. Len(cs) > 0
    BY <1>1
  <2> QED BY <1>1, <2>1, FlatDef
<1>3. CASE n = 0
  <2>1. Sq!FlattenSeq(bs) = <<>>
    BY <1>3, EmptySeq, FlatEmpty
  <2>2. g[1] = b
    BY <1>1, <1>2, <1>3
  <2> QED BY <1>2, <1>3, <2>1, <2>2, ConcatEmptySeq DEF cs
<1>4. CASE n > 0
  <2>1. PICK f : /\ Sq!FlattenSeq(bs) = f[n]
                 /\ \A i \in 1..n : f[i] = IF i = 1 THEN bs[i] ELSE f[i - 1] \o bs[i]
    BY <1>4, FlatDef
  <2> DEFINE bad == {i \in 1..n : f[i] # g[i]}
  <2>2. bad = {}
    <3>1. SUFFICES ASSUME bad # {} PROVE FALSE
      OBVIOUS
    <3>2. bad \subseteq Nat
      BY <1>1
    <3> HIDE DEF bad
    <3>3. PICK k \in bad : \A m \in bad : k <= m
      BY <3>1, <3>2, Least
    <3>4. k \in 1..n /\ f[k] # g[k]
      BY <3>3 DEF bad
    <3>5. k \in 1..(n + 1) /\ cs[k] = bs[k]
      BY <1>1, <3>4
    <3>6. k # 1
      BY <1>2, <2>1, <3>4, <3>5
    <3>7. k - 1 \in 1..n /\ ~(k <= k - 1)
      BY <1>1, <3>4, <3>6
    <3>8. f[k - 1] = g[k - 1]
      BY <3>3, <3>7 DEF bad
    <3> QED BY <1>2, <2>1, <3>4, <3>5, <3>6, <3>8
  <2>3. f[n] = g[n]
    <3>1. n \in 1..n
      BY <1>1, <1>4
    <3> QED BY <2>2, <3>1
  <2>4. g[n + 1] = g[n] \o b
    <3>1. n + 1 \in 1..(n + 1) /\ n + 1 # 1 /\ (n + 1) - 1 = n
      BY <1>1, <1>4
    <3> QED BY <1>1, <1>2, <3>1
  <2> QED BY <1>2, <2>1, <2>3, <2>4 DEF cs
<1> QED BY <1>1, <1>3, <1>4

(* cs is bs with a in front.                                               *)
LEMMA FlatFirst ==
    ASSUME NEW T, NEW bs \in Seq(Seq(T)), NEW a \in Seq(T), NEW cs \in Seq(Seq(T)),
           Len(cs) = Len(bs) + 1, cs[1] = a, \A i \in 1..Len(bs) : cs[i + 1] = bs[i]
    PROVE  Sq!FlattenSeq(cs) = a \o Sq!FlattenSeq(bs)
<1> DEFINE n == Len(bs)
<1>1. n \in Nat /\ Len(cs) = n + 1 /\ \A i \in 1..n : bs[i] \in Seq(T)
  BY LenProperties, ElementOfSeq
<1>2. PICK g : /\ Sq!FlattenSeq(cs) = g[Len(cs)]
               /\ \A i \in 1..Len(cs) : g[i] = IF i = 1 THEN cs[i] ELSE g[i - 1] \o cs[i]
  <2>1. Len(cs) > 0
    BY <1>1
  <2> QED BY <2>1, FlatDef
<1>3. g[1] = a
  BY <1>1, <1>2
<1>4. CASE n = 0
  <2>1. Sq!FlattenSeq(bs) = <<>>
    BY <1>4, EmptySeq, FlatEmpty
  <2> QED BY <1>2, <1>3, <1>4, <2>1, ConcatEmptySeq
<1>5. CASE n > 0
  <2>1. PICK f : /\ Sq!FlattenSeq(bs) = f[n]
                 /\ \A i \in 1..n : f[i] = IF i = 1 THEN bs[i] ELSE f[i - 1] \o bs[i]
    BY <1>5, FlatDef
  <2>2. \A i \in 1..n : f[i] \in Seq(T)
    BY <2>1, FlatSteps
  <2> DEFINE bad == {i \in 1..n : g[i + 1] # a \o f[i]}
  <2>3. bad = {}
    <3>1. SUFFICES ASSUME bad # {} PROVE FALSE
      OBVIOUS
    <3>2. bad \subseteq Nat
      BY <1>1
    <3> HIDE DEF bad
    <3>3. PICK k \in bad : \A m \in bad : k <= m
      BY <3>1, <3>2, Least
    <3>4. k \in 1..n /\ g[k + 1] # a \o f[k]
      BY <3>3 DEF bad
    <3>5. k + 1 \in 1..(n + 1) /\ k + 1 # 1 /\ (k + 1) - 1 = k /\ cs[k + 1] = bs[k]
      BY <1>1, <3>4
    <3>6. g[k + 1] = g[k] \o bs[k]
      BY <1>2, <3>5
    <3>7. CASE k = 1
      BY <1>3, <2>1, <3>4, <3>6, <3>7
    <3>8. CASE k # 1
      <4>1. k - 1 \in 1..n /\ ~(k <= k - 1) /\ (k - 1) + 1 = k
        BY <1>1, <3>4, <3>8
      <4>2. g[k] = a \o f[k - 1]
        BY <3>3, <4>1 DEF bad
      <4>3. f[k] = f[k - 1] \o bs[k]
        BY <2>1, <3>4, <3>8
      <4>4. (a \o f[k - 1]) \o bs[k] = a \o (f[k - 1] \o bs[k])
        <5> DEFINE u == f[k - 1]
                   v == bs[k]
        <5>1. u \in Seq(T) /\ v \in Seq(T)
          BY <1>1, <2>2, <3>4, <4>1
        <5> HIDE DEF u, v
        <5>2. (a \o u) \o v = a \o (u \o v)
          BY <5>1, ConcatAssociative
        <5> QED BY <5>2 DEF u, v
      <4> QED BY <3>4, <3>6, <4>2, <4>3, <4>4
    <3> QED BY <3>7, <3>8
  <2>4. n \in 1..n
    BY <1>1, <1>5
  <2> QED BY <1>2, <2>1, <2>3, <2>4
<1> QED BY <1>1, <1>4, <1>5

-----------------------------------------------------------------------------
(* What a run of sectors in a buffer will write, and all the cache has to. *)
Writes == [lba : Int, val : Contents]

Cache == [Buffers -> [0..(CacheSectors - 1) -> Contents]]
Run == [idx : Buffers, lba : Int, count : 0..CacheSectors]

RunWrites(cache, r, k) ==
    [i \in 1..(r.count - k) |-> [lba |-> r.lba + k + i - 1, val |-> cache[r.idx][k + i - 1]]]

Front(cache, j, k) == IF j = NoJob THEN <<>> ELSE RunWrites(cache, j, k)

Runs(cache, q) == [i \in 1..Len(q) |-> RunWrites(cache, q[i], 0)]

Chain(cache, front, q, fill) ==
    front \o Sq!FlattenSeq(Runs(cache, q)) \o RunWrites(cache, fill, 0)

LEMMA PendingIs ==
    /\ Pending = Chain(s_cache, Front(s_cache, job, landed), s_wr_queue, Collected)
    /\ Pending' = Chain(s_cache', Front(s_cache', job', landed'), s_wr_queue', Collected')
BY DEF Pending, Chain, Front, Runs, RunWrites, JobWrites, Collected

LEMMA RunFacts ==
    ASSUME NEW cache \in Cache, NEW r \in Run, NEW k \in 0..r.count
    PROVE  /\ RunWrites(cache, r, k) \in Seq(Writes)
           /\ Len(RunWrites(cache, r, k)) = r.count - k
           /\ \A i \in 1..(r.count - k) :
                 RunWrites(cache, r, k)[i] = [lba |-> r.lba + k + i - 1, val |-> cache[r.idx][k + i - 1]]
<1> DEFINE w == RunWrites(cache, r, k)
           m == r.count - k
<1>1. r.count \in 0..CacheSectors /\ r.lba \in Int /\ r.idx \in Buffers /\ CacheSectors \in Nat
      /\ m \in Nat
  BY SizesAssumption DEF Run
<1>2. \A i \in 1..m : w[i] = [lba |-> r.lba + k + i - 1, val |-> cache[r.idx][k + i - 1]]
  BY DEF RunWrites
<1>3. ASSUME NEW i \in 1..m PROVE w[i] \in Writes
  <2>1. k + i - 1 \in 0..(CacheSectors - 1) /\ r.lba + k + i - 1 \in Int
    BY <1>1
  <2>2. cache[r.idx][k + i - 1] \in Contents
    BY <1>1, <2>1 DEF Cache
  <2>3. w[i] = [lba |-> r.lba + k + i - 1, val |-> cache[r.idx][k + i - 1]]
    BY <1>2
  <2> HIDE DEF w
  <2> QED BY <2>1, <2>2, <2>3 DEF Writes
<1>4. w \in [1..m -> Writes]
  <2>1. w = [i \in 1..m |-> w[i]]
    BY DEF RunWrites
  <2> HIDE DEF w, m
  <2> QED BY <1>3, <2>1
<1> HIDE DEF w, m
<1>5. w \in Seq(Writes) /\ Len(w) = m
  BY <1>1, <1>4
<1> QED BY <1>2, <1>5 DEF w, m

LEMMA RunsFacts ==
    ASSUME NEW cache \in Cache, NEW q \in Seq(Job)
    PROVE  /\ Runs(cache, q) \in Seq(Seq(Writes)) /\ Len(Runs(cache, q)) = Len(q)
           /\ \A i \in 1..Len(q) : Runs(cache, q)[i] = RunWrites(cache, q[i], 0)
           /\ Sq!FlattenSeq(Runs(cache, q)) \in Seq(Writes)
<1> DEFINE bs == Runs(cache, q)
           n == Len(q)
<1>1. n \in Nat /\ \A i \in 1..n : q[i] \in Job
  BY LenProperties, ElementOfSeq
<1>2. bs = [i \in 1..n |-> RunWrites(cache, q[i], 0)]
  BY DEF Runs
<1>3. ASSUME NEW i \in 1..n PROVE RunWrites(cache, q[i], 0) \in Seq(Writes)
  <2>1. q[i] \in Run /\ 0 \in 0..q[i].count
    BY <1>1, SizesAssumption DEF Job, Run, Sectors
  <2> QED BY <2>1, RunFacts
<1> HIDE DEF bs, n
<1>4. bs \in [1..n -> Seq(Writes)]
  BY <1>2, <1>3
<1>5. bs \in Seq(Seq(Writes)) /\ Len(bs) = n
  BY <1>1, <1>4
<1>6. \A i \in 1..n : bs[i] = RunWrites(cache, q[i], 0)
  BY <1>2
<1> QED BY <1>5, <1>6, FlatType DEF bs, n

(* A run that is queued comes after the others ...                         *)
LEMMA RunsAppend ==
    ASSUME NEW cache \in Cache, NEW q \in Seq(Job), NEW r \in Job
    PROVE  Sq!FlattenSeq(Runs(cache, Append(q, r)))
              = Sq!FlattenSeq(Runs(cache, q)) \o RunWrites(cache, r, 0)
<1> DEFINE p == Append(q, r)
           w == RunWrites(cache, r, 0)
           bs == Runs(cache, q)
           cs == Runs(cache, p)
           n == Len(q)
<1>1. p \in Seq(Job) /\ n \in Nat /\ Len(p) = n + 1 /\ p[n + 1] = r /\ \A i \in 1..n : p[i] = q[i]
  BY AppendProperties, LenProperties
<1>2. w \in Seq(Writes)
  <2>1. r \in Run /\ 0 \in 0..r.count
    BY SizesAssumption DEF Job, Run, Sectors
  <2> QED BY <2>1, RunFacts
<1> HIDE DEF p
<1>3. bs \in Seq(Seq(Writes)) /\ Len(bs) = n /\ \A i \in 1..n : bs[i] = RunWrites(cache, q[i], 0)
  BY RunsFacts
<1>4. cs \in Seq(Seq(Writes)) /\ Len(cs) = n + 1
      /\ \A i \in 1..(n + 1) : cs[i] = RunWrites(cache, p[i], 0)
  <2>1. Len(cs) = Len(p) /\ \A i \in 1..Len(p) : cs[i] = RunWrites(cache, p[i], 0)
    BY <1>1, RunsFacts
  <2>2. cs \in Seq(Seq(Writes))
    BY <1>1, RunsFacts
  <2> QED BY <1>1, <2>1, <2>2
<1> HIDE DEF bs, cs, n
<1>5. cs = Append(bs, w)
  <2>1. /\ Append(bs, w) \in Seq(Seq(Writes)) /\ Len(Append(bs, w)) = n + 1
        /\ Append(bs, w)[n + 1] = w /\ \A i \in 1..n : Append(bs, w)[i] = bs[i]
    BY <1>2, <1>3, AppendProperties
  <2>2. ASSUME NEW i \in 1..(n + 1) PROVE cs[i] = Append(bs, w)[i]
    <3>1. i = n + 1 \/ i \in 1..n
      BY <1>1
    <3>2. CASE i = n + 1
      BY <1>1, <1>4, <2>1, <3>2
    <3>3. CASE i \in 1..n
      BY <1>1, <1>3, <1>4, <2>1, <3>3
    <3> QED BY <3>1, <3>2, <3>3
  <2> QED BY <1>4, <2>1, <2>2, SeqEqual
<1> QED BY <1>2, <1>3, <1>5, FlatAppend DEF bs, cs, p

(* ... and one that is taken out before them.                              *)
LEMMA RunsTail ==
    ASSUME NEW cache \in Cache, NEW q \in Seq(Job), q # <<>>
    PROVE  Sq!FlattenSeq(Runs(cache, q))
              = RunWrites(cache, Head(q), 0) \o Sq!FlattenSeq(Runs(cache, Tail(q)))
<1> DEFINE p == Tail(q)
           w == RunWrites(cache, Head(q), 0)
           bs == Runs(cache, p)
           cs == Runs(cache, q)
<1>1. /\ p \in Seq(Job) /\ Len(q) = Len(p) + 1 /\ Len(p) \in Nat /\ Head(q) = q[1] /\ Head(q) \in Job
      /\ \A i \in 1..Len(p) : p[i] = q[i + 1]
  BY HeadTailProperties, EmptySeq, LenProperties
<1>2. w \in Seq(Writes)
  <2>1. Head(q) \in Run /\ 0 \in 0..Head(q).count
    BY <1>1, SizesAssumption DEF Job, Run, Sectors
  <2> QED BY <2>1, RunFacts
<1> HIDE DEF p
<1>3. bs \in Seq(Seq(Writes)) /\ Len(bs) = Len(p) /\ \A i \in 1..Len(p) : bs[i] = RunWrites(cache, p[i], 0)
  BY <1>1, RunsFacts
<1>4. cs \in Seq(Seq(Writes)) /\ Len(cs) = Len(q) /\ \A i \in 1..Len(q) : cs[i] = RunWrites(cache, q[i], 0)
  BY RunsFacts
<1>5. Len(cs) = Len(bs) + 1 /\ cs[1] = w
  BY <1>1, <1>3, <1>4
<1> HIDE DEF bs, cs, w
<1>6. ASSUME NEW i \in 1..Len(bs) PROVE cs[i + 1] = bs[i]
  <2>1. i + 1 \in 1..Len(q) /\ i \in 1..Len(p)
    BY <1>1, <1>3
  <2> QED BY <1>1, <1>3, <1>4, <2>1
<1> QED BY <1>2, <1>3, <1>4, <1>5, <1>6, FlatFirst DEF bs, cs, w, p

LEMMA HeadTailOfConcat ==
    ASSUME NEW T, NEW a \in Seq(T), NEW b \in Seq(T), a # <<>>
    PROVE  a \o b \in Seq(T) /\ a \o b # <<>> /\ Head(a \o b) = Head(a) /\ Tail(a \o b) = Tail(a) \o b
<1> DEFINE p == a \o b
           u == Tail(p)
           v == Tail(a) \o b
<1>1. Len(a) \in Nat /\ Len(a) > 0 /\ Len(b) \in Nat
  BY LenProperties, EmptySeq
<1>2. /\ p \in Seq(T) /\ Len(p) = Len(a) + Len(b)
      /\ \A i \in 1..(Len(a) + Len(b)) : p[i] = IF i <= Len(a) THEN a[i] ELSE b[i - Len(a)]
  BY ConcatProperties
<1> HIDE DEF p
<1>3. p # <<>> /\ Head(p) = p[1] /\ Head(a) = a[1] /\ p[1] = a[1]
  BY <1>1, <1>2
<1>4. /\ Tail(a) \in Seq(T) /\ Len(Tail(a)) = Len(a) - 1
      /\ \A i \in 1..Len(Tail(a)) : Tail(a)[i] = a[i + 1]
  BY HeadTailProperties
<1>5. u \in Seq(T) /\ Len(u) = Len(p) - 1 /\ \A i \in 1..Len(u) : u[i] = p[i + 1]
  BY <1>2, <1>3, HeadTailProperties
<1>6. /\ v \in Seq(T) /\ Len(v) = (Len(a) - 1) + Len(b)
      /\ \A i \in 1..Len(v) :
            v[i] = IF i <= Len(a) - 1 THEN Tail(a)[i] ELSE b[i - (Len(a) - 1)]
  BY <1>4, ConcatProperties
<1> HIDE DEF u, v
<1>7. ASSUME NEW i \in 1..Len(u) PROVE u[i] = v[i]
  <2>1. i + 1 \in 1..(Len(a) + Len(b)) /\ i \in 1..Len(v) /\ i - (Len(a) - 1) = (i + 1) - Len(a)
    BY <1>1, <1>2, <1>5, <1>6
  <2>2. CASE i + 1 <= Len(a)
    <3>1. i <= Len(a) - 1 /\ i \in 1..Len(Tail(a))
      BY <1>1, <1>4, <1>5, <2>2
    <3> QED BY <1>2, <1>4, <1>5, <1>6, <2>1, <2>2, <3>1
  <2>3. CASE ~(i + 1 <= Len(a))
    <3>1. ~(i <= Len(a) - 1)
      BY <1>1, <2>1, <2>3
    <3> QED BY <1>2, <1>5, <1>6, <2>1, <2>3, <3>1
  <2> QED BY <2>2, <2>3
<1>8. u = v
  <2>1. Len(u) = Len(v)
    BY <1>1, <1>2, <1>5, <1>6
  <2> QED BY <1>5, <1>6, <1>7, <2>1, SeqEqual
<1> QED BY <1>2, <1>3, <1>8 DEF p, u, v

LEMMA StateFacts ==
    ASSUME IInv
    PROVE  /\ s_cache \in Cache /\ Collected \in Run /\ s_wr_queue \in Seq(Job)
           /\ job # NoJob => job \in Job /\ job \in Run /\ landed \in 0..job.count
           /\ Front(s_cache, job, landed) \in Seq(Writes)
<1>1. s_cache \in Cache /\ s_wr_queue \in Seq(Job)
  BY DEF IInv, TypeOK, Cache
<1>2. Collected \in Run
  BY SizesAssumption DEF IInv, TypeOK, Collected, Run
<1>3. job # NoJob => job \in Job /\ job \in Run /\ landed \in 0..job.count
  BY SizesAssumption DEF IInv, TypeOK, InRange, Job, Run, Sectors
<1>4. CASE job = NoJob
  BY <1>1, <1>2, <1>3, <1>4, EmptySeq DEF Front
<1>5. CASE job # NoJob
  BY <1>1, <1>2, <1>3, <1>5, RunFacts DEF Front
<1> QED BY <1>1, <1>2, <1>3, <1>4, <1>5

LEMMA NoRun ==
    ASSUME NEW cache, NEW r, r.count = 0
    PROVE  RunWrites(cache, r, 0) = <<>>
BY DEF RunWrites

LEMMA EmptyChain ==
    ASSUME NEW cache, NEW fill, fill.count = 0
    PROVE  Chain(cache, <<>>, <<>>, fill) = <<>>
<1>1. Runs(cache, <<>>) = <<>>
  BY DEF Runs
<1>2. Chain(cache, <<>>, <<>>, fill) = (<<>> \o <<>>) \o <<>>
  BY <1>1, NoRun, FlatEmpty DEF Chain
<1> QED BY <1>2

(* Only the buffers a chain speaks of matter to it.                        *)
LEMMA SameChain ==
    ASSUME NEW a \in Cache, NEW b, NEW front, NEW q \in Seq(Job), NEW fill \in Run,
           \A i \in 1..Len(q) : a[q[i].idx] = b[q[i].idx],
           fill.count # 0 => a[fill.idx] = b[fill.idx]
    PROVE  Chain(a, front, q, fill) = Chain(b, front, q, fill)
<1>1. \A i \in 1..Len(q) : RunWrites(a, q[i], 0) = RunWrites(b, q[i], 0)
  BY DEF RunWrites
<1>2. Runs(a, q) = Runs(b, q)
  BY <1>1 DEF Runs
<1>3. RunWrites(a, fill, 0) = RunWrites(b, fill, 0)
  <2>1. CASE fill.count = 0
    BY <2>1, NoRun
  <2>2. CASE fill.count # 0
    BY <2>2 DEF RunWrites
  <2> QED BY <2>1, <2>2
<1> QED BY <1>2, <1>3 DEF Chain

(* Submitting moves the run that was collected, and nothing else.          *)
LEMMA SubmitChain ==
    ASSUME NEW cache \in Cache, NEW front \in Seq(Writes), NEW q \in Seq(Job), NEW fill \in Job,
           NEW next, next.count = 0
    PROVE  Chain(cache, front, Append(q, fill), next) = Chain(cache, front, q, fill)
<1> DEFINE m == Sq!FlattenSeq(Runs(cache, q))
           w == RunWrites(cache, fill, 0)
<1>1. m \in Seq(Writes)
  BY RunsFacts
<1>2. w \in Seq(Writes)
  <2>1. fill \in Run /\ 0 \in 0..fill.count
    BY SizesAssumption DEF Job, Run, Sectors
  <2> QED BY <2>1, RunFacts
<1>3. Chain(cache, front, Append(q, fill), next) = (front \o (m \o w)) \o <<>>
  BY RunsAppend, NoRun DEF Chain
<1>4. Chain(cache, front, q, fill) = (front \o m) \o w
  BY DEF Chain
<1> HIDE DEF m, w
<1>5. (front \o m) \o w = front \o (m \o w)
  BY <1>1, <1>2, ConcatAssociative
<1>6. m \o w \in Seq(Writes)
  BY <1>1, <1>2, ConcatProperties
<1>7. front \o (m \o w) \in Seq(Writes)
  BY <1>6, ConcatProperties
<1>8. (front \o (m \o w)) \o <<>> = front \o (m \o w)
  BY <1>7, ConcatEmptySeq
<1> QED BY <1>3, <1>4, <1>5, <1>8

LEMMA SubmitPending ==
    ASSUME IInv, NEW cache \in Cache, NEW c \in 1..CacheSectors, s_lba + c <= Last + 1, Submit(c)
    PROVE  Chain(cache, Front(s_cache, job, landed), s_wr_queue', Collected')
              = Chain(cache, Front(s_cache, job, landed), s_wr_queue,
                      [idx |-> s_fill, lba |-> s_lba, count |-> c])
<1> DEFINE fill == [idx |-> s_fill, lba |-> s_lba, count |-> c]
<1>1. fill \in Job
  BY SizesAssumption DEF Job, Sectors, IInv, TypeOK
<1>2. s_wr_queue' = Append(s_wr_queue, fill) /\ Collected'.count = 0
  BY DEF Submit, Collected
<1> HIDE DEF fill
<1>3. Chain(cache, Front(s_cache, job, landed), s_wr_queue', Collected')
        = Chain(cache, Front(s_cache, job, landed), s_wr_queue, fill)
  BY <1>1, <1>2, StateFacts, SubmitChain
<1> QED BY <1>3 DEF fill

-----------------------------------------------------------------------------
(* How each step moves what is pending.                                    *)
LEMMA StillPending ==
    ASSUME UNCHANGED <<s_cache, job, landed, s_wr_queue, s_fill, s_lba, s_count>>
    PROVE  Pending' = Pending
<1>1. Collected' = Collected
  BY DEF Collected
<1> QED BY <1>1, PendingIs

LEMMA WriteLockPending == ASSUME IInv, WriteLock PROVE Pending' = Pending
<1>1. s_cache' = s_cache /\ job' = job /\ landed' = landed
  BY DEF WriteLock, writerVars
<1>2. CASE s_count > 0 /\ cmd.lba # s_lba + s_count
  <2>1. Submit(s_count) /\ s_count \in 1..CacheSectors /\ s_lba + s_count <= Last + 1
    BY <1>2 DEF WriteLock, IInv, TypeOK, InRange
  <2> QED BY <1>1, <2>1, StateFacts, SubmitPending, PendingIs DEF Collected
<1>3. CASE ~(s_count > 0 /\ cmd.lba # s_lba + s_count)
  <2>1. s_wr_queue' = s_wr_queue /\ s_fill' = s_fill /\ s_count' = s_count
        /\ (s_count # 0 => s_lba' = s_lba)
    BY <1>3 DEF WriteLock
  <2>2. CASE s_count = 0
    <3>1. RunWrites(s_cache, Collected, 0) = <<>> /\ RunWrites(s_cache, Collected', 0) = <<>>
      BY <2>1, <2>2, NoRun DEF Collected
    <3> QED BY <1>1, <2>1, <3>1, PendingIs DEF Chain
  <2>3. CASE s_count # 0
    BY <1>1, <2>1, <2>3, StillPending
  <2> QED BY <2>2, <2>3
<1> QED BY <1>2, <1>3

LEMMA BarrierBeginPending ==
    ASSUME IInv, NEW t \in Tasks, BarrierBegin(t) PROVE Pending' = Pending
<1>1. s_cache' = s_cache /\ job' = job /\ landed' = landed /\ s_lba' = s_lba
  BY DEF BarrierBegin, writerVars
<1>2. CASE s_count > 0
  <2>1. Submit(s_count) /\ s_count \in 1..CacheSectors /\ s_lba + s_count <= Last + 1
    BY <1>2 DEF BarrierBegin, IInv, TypeOK, InRange
  <2> QED BY <1>1, <2>1, StateFacts, SubmitPending, PendingIs DEF Collected
<1>3. CASE ~(s_count > 0)
  BY <1>1, <1>3, StillPending DEF BarrierBegin
<1> QED BY <1>2, <1>3

LEMMA WriterReceivePending == ASSUME IInv, WriterReceive PROVE Pending' = Pending
<1> DEFINE q == s_wr_queue
           w == RunWrites(s_cache, Head(q), 0)
           m == Sq!FlattenSeq(Runs(s_cache, Tail(q)))
           c == RunWrites(s_cache, Collected, 0)
<1>1. /\ job = NoJob /\ q # <<>> /\ job' = Head(q) /\ q' = Tail(q) /\ landed' = 0
      /\ s_cache' = s_cache /\ Collected' = Collected
  BY DEF WriterReceive, cacheVars, Collected
<1>2. /\ s_cache \in Cache /\ q \in Seq(Job) /\ Tail(q) \in Seq(Job) /\ Head(q) \in Job
      /\ Head(q) \in Run /\ 0 \in 0..Head(q).count
  <2>1. s_cache \in Cache /\ q \in Seq(Job)
    BY StateFacts
  <2>2. Tail(q) \in Seq(Job) /\ Head(q) \in Job
    BY <1>1, <2>1, HeadTailProperties
  <2>3. \A r \in Job : r \in Run /\ 0 \in 0..r.count
    BY SizesAssumption DEF Job, Run, Sectors
  <2> HIDE DEF q
  <2> QED BY <2>1, <2>2, <2>3
<1>3. w \in Seq(Writes) /\ m \in Seq(Writes)
  BY <1>2, RunFacts, RunsFacts
<1>4. Sq!FlattenSeq(Runs(s_cache, q)) = w \o m
  BY <1>1, <1>2, RunsTail
<1>5. Head(q) # NoJob
  BY <1>2, NamesAssumption DEF Job
<1>6. Pending = (<<>> \o (w \o m)) \o c
  BY <1>1, <1>4, PendingIs DEF Chain, Front
<1>7. Pending' = (w \o m) \o c
  BY <1>1, <1>5, PendingIs DEF Chain, Front
<1> HIDE DEF w, m, c
<1>8. <<>> \o (w \o m) = w \o m
  BY <1>3, ConcatProperties, ConcatEmptySeq
<1> QED BY <1>6, <1>7, <1>8

(* The oldest write lands.                                                 *)
LEMMA WriterSectorPending ==
    ASSUME IInv, WriterSector
    PROVE  /\ Pending # <<>> /\ Pending' = Tail(Pending)
           /\ Head(Pending) = [lba |-> job.lba + landed, val |-> s_cache[job.idx][landed]]
<1> DEFINE f == RunWrites(s_cache, job, landed)
           g == RunWrites(s_cache, job, landed + 1)
           m == Sq!FlattenSeq(Runs(s_cache, s_wr_queue))
           c == RunWrites(s_cache, Collected, 0)
           w == [lba |-> job.lba + landed, val |-> s_cache[job.idx][landed]]
           rest == (g \o m) \o c
<1>1. /\ job # NoJob /\ landed < job.count /\ landed' = landed + 1 /\ job' = job
      /\ s_cache' = s_cache /\ s_wr_queue' = s_wr_queue /\ Collected' = Collected
  BY DEF WriterSector, cacheVars, Collected
<1>2. /\ s_cache \in Cache /\ s_wr_queue \in Seq(Job) /\ job \in Run /\ Collected \in Run
      /\ landed \in 0..job.count
  BY <1>1, StateFacts
<1>3. /\ job.count \in Nat /\ landed \in Nat /\ landed + 1 \in 0..job.count /\ job.lba \in Int
      /\ 0 \in 0..Collected.count
  BY <1>1, <1>2, SizesAssumption DEF Run
<1>4. /\ f \in Seq(Writes) /\ g \in Seq(Writes) /\ m \in Seq(Writes) /\ c \in Seq(Writes)
      /\ Len(f) = job.count - landed /\ Len(g) = job.count - (landed + 1)
      /\ \A i \in 1..(job.count - landed) :
            f[i] = [lba |-> job.lba + landed + i - 1, val |-> s_cache[job.idx][landed + i - 1]]
      /\ \A i \in 1..(job.count - (landed + 1)) :
            g[i] = [lba |-> job.lba + (landed + 1) + i - 1,
                    val |-> s_cache[job.idx][(landed + 1) + i - 1]]
  BY <1>2, <1>3, RunFacts, RunsFacts
<1>5. Pending = (f \o m) \o c /\ Pending' = rest
  BY <1>1, PendingIs DEF Chain, Front
<1> HIDE DEF f, g, m, c
<1>6. f # <<>> /\ Head(f) = w /\ Tail(f) = g
  <2>1. f # <<>> /\ Head(f) = f[1] /\ 1 \in 1..(job.count - landed)
    BY <1>1, <1>3, <1>4
  <2>2. f[1] = w
    <3>1. job.lba + landed + 1 - 1 = job.lba + landed /\ landed + 1 - 1 = landed
      BY <1>3
    <3> QED BY <1>4, <2>1, <3>1
  <2>3. /\ Tail(f) \in Seq(Writes) /\ Len(Tail(f)) = Len(f) - 1
        /\ \A i \in 1..Len(Tail(f)) : Tail(f)[i] = f[i + 1]
    BY <1>4, <2>1, HeadTailProperties
  <2>4. Len(Tail(f)) = Len(g)
    BY <1>3, <1>4, <2>3
  <2>5. ASSUME NEW i \in 1..Len(g) PROVE Tail(f)[i] = g[i]
    <3>1. i + 1 \in 1..(job.count - landed) /\ i \in 1..(job.count - (landed + 1))
      BY <1>3, <1>4, <2>5
    <3>2. job.lba + landed + (i + 1) - 1 = job.lba + (landed + 1) + i - 1
          /\ landed + (i + 1) - 1 = (landed + 1) + i - 1
      BY <1>3
    <3>3. f[i + 1] = [lba |-> job.lba + landed + (i + 1) - 1, val |-> s_cache[job.idx][landed + (i + 1) - 1]]
      BY <1>4, <3>1
    <3>4. g[i] = [lba |-> job.lba + (landed + 1) + i - 1, val |-> s_cache[job.idx][(landed + 1) + i - 1]]
      BY <1>4, <3>1
    <3>5. f[i + 1] = g[i]
      BY <3>2, <3>3, <3>4
    <3> QED BY <2>3, <2>4, <3>5
  <2> QED BY <1>4, <2>1, <2>2, <2>3, <2>4, <2>5, SeqEqual
<1> HIDE DEF w
<1>7. ASSUME NEW a \in Seq(Writes), NEW b \in Seq(Writes), a # <<>>
      PROVE  a \o b \in Seq(Writes) /\ a \o b # <<>> /\ Head(a \o b) = Head(a) /\ Tail(a \o b) = Tail(a) \o b
  BY <1>7, HeadTailOfConcat
<1>8. f \o m \in Seq(Writes) /\ f \o m # <<>> /\ Head(f \o m) = w /\ Tail(f \o m) = g \o m
  BY <1>4, <1>6, <1>7
<1>9. (f \o m) \o c # <<>> /\ Head((f \o m) \o c) = w /\ Tail((f \o m) \o c) = (g \o m) \o c
  <2> DEFINE x == f \o m
  <2>1. x \in Seq(Writes) /\ x # <<>> /\ Head(x) = w /\ Tail(x) = g \o m
    BY <1>8
  <2> HIDE DEF x
  <2>2. x \o c # <<>> /\ Head(x \o c) = Head(x) /\ Tail(x \o c) = Tail(x) \o c
    BY <1>4, <1>7, <2>1
  <2>3. x \o c # <<>> /\ Head(x \o c) = w /\ Tail(x \o c) = (g \o m) \o c
    BY <2>1, <2>2
  <2> QED BY <2>3 DEF x
<1> QED BY <1>5, <1>9 DEF w
-----------------------------------------------------------------------------
(* The writer's run leads the chain.                                       *)
LEMMA ChainFront ==
    ASSUME NEW cache \in Cache, NEW front \in Seq(Writes), NEW q \in Seq(Job), NEW fill \in Run
    PROVE  /\ Chain(cache, <<>>, q, fill) \in Seq(Writes)
           /\ Chain(cache, front, q, fill) = front \o Chain(cache, <<>>, q, fill)
<1> DEFINE m == Sq!FlattenSeq(Runs(cache, q))
           w == RunWrites(cache, fill, 0)
<1>1. m \in Seq(Writes)
  BY RunsFacts
<1>2. w \in Seq(Writes)
  <2>1. 0 \in 0..fill.count
    BY SizesAssumption DEF Run
  <2> QED BY <2>1, RunFacts
<1>3. Chain(cache, front, q, fill) = (front \o m) \o w /\ Chain(cache, <<>>, q, fill) = (<<>> \o m) \o w
  BY DEF Chain
<1> HIDE DEF m, w
<1>4. <<>> \o m = m /\ (front \o m) \o w = front \o (m \o w) /\ m \o w \in Seq(Writes)
  BY <1>1, <1>2, ConcatAssociative, ConcatEmptySeq, ConcatProperties
<1> QED BY <1>3, <1>4

(* Nothing pending is in the buffer the writer gives back.                 *)
LEMMA ReleasedPending ==
    ASSUME IInv, job # NoJob, GiveBufBack, UNCHANGED <<s_wr_queue, s_fill, s_lba, s_count>>
    PROVE  Pending' = Chain(s_cache, <<>>, s_wr_queue, Collected)
<1>1. /\ job' = NoJob /\ Collected' = Collected /\ s_wr_queue' = s_wr_queue
      /\ s_cache' = [s_cache EXCEPT ![job.idx] = BlankBuffer]
  BY DEF GiveBufBack, Collected
<1>2. s_cache \in Cache /\ s_wr_queue \in Seq(Job) /\ Collected \in Run
  BY StateFacts
<1>3. ASSUME NEW b, b # job.idx PROVE s_cache[b] = s_cache'[b]
  BY <1>1, <1>2, <1>3 DEF Cache
<1>4. ASSUME NEW i \in 1..Len(s_wr_queue) PROVE s_cache[s_wr_queue[i].idx] = s_cache'[s_wr_queue[i].idx]
  <2>1. s_wr_queue[i].idx # job.idx
    BY <1>2, <1>4, BuffersAreApart, LenProperties DEF NoBufferRace, QueuedBufs
  <2> QED BY <1>3, <2>1
<1>5. Collected.count # 0 => s_cache[Collected.idx] = s_cache'[Collected.idx]
  <2>1. s_count # 0 => s_have_buf
    BY DEF IInv, Fill, TypeOK
  <2>2. s_have_buf => s_fill # job.idx
    BY Apart
  <2> QED BY <1>3, <2>1, <2>2 DEF Collected
<1>6. Chain(s_cache, <<>>, s_wr_queue, Collected) = Chain(s_cache', <<>>, s_wr_queue, Collected)
  BY <1>2, <1>4, <1>5, SameChain
<1>7. Pending' = Chain(s_cache', <<>>, s_wr_queue, Collected)
  BY <1>1, PendingIs DEF Front
<1> QED BY <1>6, <1>7

LEMMA WriterDonePending == ASSUME IInv, WriterDone PROVE Pending' = Pending
<1>1. /\ job # NoJob /\ landed = job.count /\ GiveBufBack
      /\ UNCHANGED <<s_wr_queue, s_fill, s_lba, s_count>>
  BY DEF WriterDone
<1>2. Front(s_cache, job, landed) = <<>>
  <2>1. s_cache \in Cache /\ job \in Run /\ landed \in 0..job.count /\ job.count - job.count = 0
    BY <1>1, StateFacts DEF Run
  <2>2. RunWrites(s_cache, job, landed) \in Seq(Writes) /\ Len(RunWrites(s_cache, job, landed)) = 0
    BY <1>1, <2>1, RunFacts
  <2> QED BY <1>1, <2>2, EmptySeq DEF Front
<1> QED BY <1>1, <1>2, ReleasedPending, PendingIs

(* The rest of the writer's run is lost.                                   *)
LEMMA WriterFailPending ==
    ASSUME IInv, WriterFail
    PROVE  \E n \in 0..Len(Pending) : Pending' = SubSeq(Pending, n + 1, Len(Pending))
<1> DEFINE f == Front(s_cache, job, landed)
           g == Chain(s_cache, <<>>, s_wr_queue, Collected)
<1>1. f \in Seq(Writes) /\ g \in Seq(Writes) /\ Pending = f \o g
  BY StateFacts, ChainFront, PendingIs
<1>2. Pending' = g
  BY ReleasedPending DEF WriterFail
<1> HIDE DEF f, g
<1>3. Len(f) \in Nat /\ Len(g) \in Nat /\ Len(Pending) = Len(f) + Len(g)
  BY <1>1, LenProperties, ConcatProperties
<1>4. SubSeq(Pending, Len(f) + 1, Len(Pending)) = g
  BY <1>1, <1>3, SubSeqOfConcat2
<1>5. Len(f) \in 0..Len(Pending)
  BY <1>3
<1> QED BY <1>2, <1>4, <1>5

(* A collected run that grows by n sectors.                                *)
LEMMA RunGrows ==
    ASSUME NEW a \in Cache, NEW b \in Cache, NEW r \in Run, NEW n \in Nat,
           r.count + n \in 0..CacheSectors,
           \A k \in 0..(r.count - 1) : b[r.idx][k] = a[r.idx][k]
    PROVE  LET big == [idx |-> r.idx, lba |-> r.lba, count |-> r.count + n]
           IN  RunWrites(b, big, 0) = RunWrites(a, r, 0) \o RunWrites(b, big, r.count)
<1> DEFINE big == [idx |-> r.idx, lba |-> r.lba, count |-> r.count + n]
           u == RunWrites(b, big, 0)
           v == RunWrites(a, r, 0)
           w == RunWrites(b, big, r.count)
           c == r.count
<1>1. /\ c \in Nat /\ big \in Run /\ big.count = c + n /\ big.lba = r.lba /\ big.idx = r.idx
      /\ r.lba \in Int /\ 0 \in 0..c /\ 0 \in 0..big.count /\ c \in 0..big.count
  BY SizesAssumption DEF Run
<1> HIDE DEF big
<1>2. /\ u \in Seq(Writes) /\ Len(u) = big.count - 0
      /\ \A i \in 1..(big.count - 0) :
            u[i] = [lba |-> big.lba + 0 + i - 1, val |-> b[big.idx][0 + i - 1]]
  <2> USE <1>1
  <2> QED BY RunFacts
<1>3. /\ v \in Seq(Writes) /\ Len(v) = c - 0
      /\ \A i \in 1..(c - 0) : v[i] = [lba |-> r.lba + 0 + i - 1, val |-> a[r.idx][0 + i - 1]]
  BY <1>1, RunFacts
<1>4. /\ w \in Seq(Writes) /\ Len(w) = big.count - c
      /\ \A i \in 1..(big.count - c) :
            w[i] = [lba |-> big.lba + c + i - 1, val |-> b[big.idx][c + i - 1]]
  BY <1>1, RunFacts
<1>5. /\ v \o w \in Seq(Writes) /\ Len(v \o w) = Len(v) + Len(w)
      /\ \A i \in 1..(Len(v) + Len(w)) : (v \o w)[i] = IF i <= Len(v) THEN v[i] ELSE w[i - Len(v)]
  BY <1>3, <1>4, ConcatProperties
<1>6. c - 0 = c /\ big.count - 0 = c + n /\ big.count - c = n
  BY <1>1
<1> DEFINE x == v \o w
<1> HIDE DEF u, v, w, c, x
<1>7. ASSUME NEW i \in 1..(c + n) PROVE u[i] = x[i]
  <2>1. u[i] = [lba |-> r.lba + 0 + i - 1, val |-> b[r.idx][0 + i - 1]]
    BY <1>1, <1>2, <1>6
  <2>2. 0 + i - 1 = i - 1 /\ r.lba + 0 + i - 1 = r.lba + i - 1
    BY <1>1
  <2>3. CASE i <= c
    <3>1. i \in 1..c /\ i - 1 \in 0..(c - 1) /\ i \in 1..(Len(v) + Len(w)) /\ i <= Len(v)
      BY <1>1, <1>3, <1>4, <1>6, <2>3
    <3>2. v[i] = [lba |-> r.lba + 0 + i - 1, val |-> a[r.idx][0 + i - 1]]
      BY <1>3, <1>6, <3>1
    <3>3. b[r.idx][i - 1] = a[r.idx][i - 1]
      BY <3>1 DEF c
    <3>4. x[i] = v[i]
      BY <1>5, <3>1 DEF x
    <3> QED BY <2>1, <2>2, <3>2, <3>3, <3>4
  <2>4. CASE ~(i <= c)
    <3> DEFINE j == i - c
    <3>1. j \in 1..n /\ i \in 1..(Len(v) + Len(w)) /\ ~(i <= Len(v)) /\ i - Len(v) = j
      BY <1>1, <1>3, <1>4, <1>6, <2>4
    <3>2. c + j - 1 = i - 1 /\ r.lba + c + j - 1 = r.lba + i - 1
      BY <1>1
    <3> HIDE DEF j
    <3>3. w[j] = [lba |-> r.lba + c + j - 1, val |-> b[r.idx][c + j - 1]]
      BY <1>1, <1>4, <1>6, <3>1
    <3>4. x[i] = w[j]
      BY <1>5, <3>1 DEF x
    <3> QED BY <2>1, <2>2, <3>2, <3>3, <3>4
  <2> QED BY <2>3, <2>4
<1>8. u = x
  <2>1. Len(u) = c + n /\ Len(x) = c + n /\ u \in Seq(Writes) /\ x \in Seq(Writes)
    BY <1>1, <1>2, <1>3, <1>4, <1>5, <1>6 DEF x
  <2> QED BY <1>7, <2>1, SeqEqual
<1> QED BY <1>8 DEF u, v, w, c, x, big

(* What is copied joins the tail, and it is what the host handed over.     *)
LEMMA WriteCopyPending ==
    ASSUME IInv, WriteCopy
    PROVE  \E r \in Seq(Promise!SectorWrite) :
              /\ Pending' = Pending \o r
              /\ \A i \in 1..Len(r) : accepted'[r[i].lba] = r[i].val
              /\ \A s \in Sectors : (\A i \in 1..Len(r) : r[i].lba # s) => accepted'[s] = accepted[s]
<1>1. PICK n \in Nat :
       /\ s_count + n \in 1..CacheSectors /\ s_lba + s_count + n <= Last + 1
       /\ cmd.lba = s_lba + s_count /\ n <= Len(cmd.data)
       /\ s_cache' = [s_cache EXCEPT ![s_fill] =
             [k \in 0..(CacheSectors - 1) |->
                 IF k \in s_count..(s_count + n - 1)
                 THEN cmd.data[k - s_count + 1] ELSE s_cache[s_fill][k]]]
       /\ accepted' = [s \in Sectors |->
             IF s \in cmd.lba..(cmd.lba + n - 1)
             THEN cmd.data[s - cmd.lba + 1] ELSE accepted[s]]
       /\ IF s_count + n = CacheSectors
          THEN Submit(s_count + n) /\ s_lba' = s_lba + s_count + n
          ELSE s_count' = s_count + n /\ UNCHANGED <<s_lba, s_fill, s_wr_queue>>
  BY CopyFacts
<1>2. s_have_buf /\ job' = job /\ landed' = landed /\ cmd.data \in Seq(Val)
  BY DEF WriteCopy, writerVars, IInv, TypeOK, Cmd
<1>3. /\ s_fill \in Buffers /\ s_lba \in Nat /\ s_count \in 0..CacheSectors
      /\ s_cache \in Cache /\ s_wr_queue \in Seq(Job) /\ Collected \in Run
      /\ CacheSectors \in Nat /\ Last \in Nat
  BY CollectedFacts, StateFacts, SizesAssumption
<1>4. s_cache' \in Cache
  BY WriteCopyKeeps DEF IInv, TypeOK, Cache
<1>5. ASSUME NEW b, b # s_fill PROVE s_cache[b] = s_cache'[b]
  BY <1>1, <1>3, <1>5 DEF Cache
<1>6. ASSUME NEW k \in 0..(CacheSectors - 1)
      PROVE  s_cache'[s_fill][k] = IF k \in s_count..(s_count + n - 1)
                                   THEN cmd.data[k - s_count + 1] ELSE s_cache[s_fill][k]
  BY <1>1, <1>3, <1>6 DEF Cache
<1> DEFINE big == [idx |-> s_fill, lba |-> s_lba, count |-> s_count + n]
           r == RunWrites(s_cache', big, s_count)
           f == Front(s_cache, job, landed)
           m == Sq!FlattenSeq(Runs(s_cache, s_wr_queue))
           c == RunWrites(s_cache, Collected, 0)
<1>7. /\ big \in Run /\ big.count = s_count + n /\ big.idx = s_fill /\ big.lba = s_lba
      /\ s_count \in 0..big.count
  BY <1>1, <1>3 DEF Run
<1> HIDE DEF big
<1>8. /\ r \in Seq(Writes) /\ Len(r) = n
      /\ \A i \in 1..n : r[i] = [lba |-> cmd.lba + i - 1, val |-> cmd.data[i]]
  <2>1. /\ r \in Seq(Writes) /\ Len(r) = big.count - s_count
        /\ \A i \in 1..(big.count - s_count) :
              r[i] = [lba |-> big.lba + s_count + i - 1, val |-> s_cache'[big.idx][s_count + i - 1]]
    BY <1>4, <1>7, RunFacts
  <2> HIDE DEF r
  <2>2. big.count - s_count = n
    BY <1>3, <1>7
  <2>3. ASSUME NEW i \in 1..n PROVE r[i] = [lba |-> cmd.lba + i - 1, val |-> cmd.data[i]]
    <3> DEFINE k == s_count + i - 1
    <3>1. k \in 0..(CacheSectors - 1) /\ k \in s_count..(s_count + n - 1) /\ k - s_count + 1 = i
      BY <1>1, <1>3
    <3> HIDE DEF k
    <3>2. s_cache'[s_fill][k] = cmd.data[i]
      BY <1>6, <3>1
    <3>3. r[i] = [lba |-> big.lba + s_count + i - 1, val |-> s_cache'[big.idx][k]]
      BY <2>1, <2>2 DEF k
    <3> QED BY <1>1, <1>7, <3>2, <3>3
  <2> QED BY <2>1, <2>2, <2>3
<1> HIDE DEF r
<1>9. r \in Seq(Promise!SectorWrite)
  <2>1. ASSUME NEW i \in 1..n PROVE r[i] \in Promise!SectorWrite
    <3>1. cmd.lba + i - 1 \in Sectors
      BY <1>1, <1>3 DEF Sectors
    <3>2. cmd.data[i] \in Val
      <4>1. i \in 1..Len(cmd.data)
        BY <1>1, <1>2, LenProperties
      <4> QED BY <1>2, <4>1, ElementOfSeq
    <3> QED BY <1>8, <3>1, <3>2 DEF Promise!SectorWrite
  <2>2. r = [i \in 1..n |-> r[i]]
    BY <1>8
  <2> QED BY <2>1, <2>2
<1>10. Pending' = Pending \o r
  <2>1. Front(s_cache', job', landed') = f
    <3>1. job # NoJob => s_cache[job.idx] = s_cache'[job.idx]
      BY <1>2, <1>5, Apart
    <3> QED BY <1>2, <3>1 DEF Front, RunWrites
  <2>2. Pending' = Chain(s_cache', f, s_wr_queue, big)
    <3>1. CASE s_count + n = CacheSectors
      <4>1. Chain(s_cache', f, s_wr_queue', Collected') = Chain(s_cache', f, s_wr_queue, big)
        BY <1>1, <1>3, <1>4, <3>1, SubmitPending DEF big
      <4> QED BY <2>1, <4>1, PendingIs
    <3>2. CASE s_count + n # CacheSectors
      <4>1. Collected' = big /\ s_wr_queue' = s_wr_queue
        BY <1>1, <3>2 DEF Collected, big
      <4> QED BY <2>1, <4>1, PendingIs
    <3> QED BY <3>1, <3>2
  <2>3. Runs(s_cache', s_wr_queue) = Runs(s_cache, s_wr_queue)
    <3>1. ASSUME NEW i \in 1..Len(s_wr_queue)
          PROVE  RunWrites(s_cache', s_wr_queue[i], 0) = RunWrites(s_cache, s_wr_queue[i], 0)
      <4>1. s_cache'[s_wr_queue[i].idx] = s_cache[s_wr_queue[i].idx]
        BY <1>2, <1>5, Apart
      <4> QED BY <4>1 DEF RunWrites
    <3> QED BY <3>1 DEF Runs
  <2>4. RunWrites(s_cache', big, 0) = c \o r
    <3>1. ASSUME NEW k \in 0..(s_count - 1) PROVE s_cache'[s_fill][k] = s_cache[s_fill][k]
      <4>1. k \in 0..(CacheSectors - 1) /\ k \notin s_count..(s_count + n - 1)
        BY <1>3
      <4> QED BY <1>6, <4>1
    <3>2. /\ Collected.idx = s_fill /\ Collected.lba = s_lba /\ Collected.count = s_count
          /\ s_count + n \in 0..CacheSectors
      BY <1>1 DEF Collected
    <3>3. RunWrites(s_cache', [idx |-> Collected.idx, lba |-> Collected.lba, count |-> Collected.count + n], 0)
            = c \o RunWrites(s_cache', [idx |-> Collected.idx, lba |-> Collected.lba, count |-> Collected.count + n], Collected.count)
      BY <1>3, <1>4, <3>1, <3>2, RunGrows
    <3> QED BY <3>2, <3>3 DEF big, r
  <2>5. Pending = (f \o m) \o c /\ Pending' = (f \o m) \o (c \o r)
    BY <2>2, <2>3, <2>4, PendingIs DEF Chain
  <2>6. m \in Seq(Writes) /\ f \in Seq(Writes) /\ c \in Seq(Writes)
    <3>1. 0 \in 0..Collected.count
      BY <1>3 DEF Collected
    <3> QED BY <1>3, <3>1, RunFacts, RunsFacts, StateFacts
  <2> DEFINE x == f \o m
  <2> HIDE DEF f, m, c
  <2>7. x \in Seq(Writes)
    BY <2>6, ConcatProperties
  <2> HIDE DEF x
  <2>8. (x \o c) \o r = x \o (c \o r)
    <3>1. \A u, v, w \in Seq(Writes) : (u \o v) \o w = u \o (v \o w)
      BY ConcatAssociative
    <3> QED BY <1>8, <2>6, <2>7, <3>1
  <2> QED BY <2>5, <2>8 DEF x
<1>11. ASSUME NEW i \in 1..Len(r) PROVE accepted'[r[i].lba] = r[i].val
  <2>1. cmd.lba + i - 1 \in Sectors /\ cmd.lba + i - 1 \in cmd.lba..(cmd.lba + n - 1)
        /\ (cmd.lba + i - 1) - cmd.lba + 1 = i
    BY <1>1, <1>3, <1>8 DEF Sectors
  <2> QED BY <1>1, <1>8, <2>1
<1>12. ASSUME NEW s \in Sectors, \A i \in 1..Len(r) : r[i].lba # s PROVE accepted'[s] = accepted[s]
  <2>1. s \notin cmd.lba..(cmd.lba + n - 1)
    <3> SUFFICES ASSUME s \in cmd.lba..(cmd.lba + n - 1) PROVE FALSE
      OBVIOUS
    <3> DEFINE i == s - cmd.lba + 1
    <3>1. i \in 1..n /\ cmd.lba + i - 1 = s
      BY <1>1, <1>3 DEF Sectors
    <3> HIDE DEF i
    <3> QED BY <1>8, <1>12, <3>1
  <2> QED BY <1>1, <2>1
<1> QED BY <1>9, <1>10, <1>11, <1>12
-----------------------------------------------------------------------------
(* A sector holds the last value written to it, or what it held before.    *)
LEMMA LandedAt ==
    ASSUME NEW T, NEW ws \in Seq(T), NEW store, NEW s \in DOMAIN store
    PROVE  \/ /\ Promise!Landed(store, ws)[s] = store[s]
              /\ \A i \in 1..Len(ws) : ws[i].lba # s
           \/ \E i \in 1..Len(ws) :
                 /\ ws[i].lba = s /\ \A j \in 1..Len(ws) : ws[j].lba = s => j <= i
                 /\ Promise!Landed(store, ws)[s] = ws[i].val
<1> DEFINE hits == {i \in DOMAIN ws : ws[i].lba = s}
           last == CHOOSE i \in hits : \A j \in hits : j <= i
<1>1. DOMAIN ws = 1..Len(ws) /\ Len(ws) \in Nat
  BY LenProperties
<1>2. Promise!Landed(store, ws)[s] = IF hits = {} THEN store[s] ELSE ws[last].val
  BY DEF Promise!Landed
<1>3. ASSUME hits # {} PROVE \E i \in hits : \A j \in hits : j <= i
  <2> DEFINE gaps == {Len(ws) - i : i \in hits}
  <2>1. gaps \subseteq Nat /\ gaps # {}
    BY <1>1, <1>3
  <2>2. PICK g \in gaps : \A h \in gaps : g <= h
    <3> HIDE DEF gaps
    <3> QED BY <2>1, Least
  <2>3. PICK i \in hits : g = Len(ws) - i
    OBVIOUS
  <2>4. ASSUME NEW j \in hits PROVE j <= i
    <3>1. g <= Len(ws) - j
      BY <2>2
    <3> QED BY <1>1, <2>3, <3>1
  <2> QED BY <2>4
<1>4. CASE hits = {}
  BY <1>1, <1>2, <1>4
<1>5. CASE hits # {}
  <2>1. last \in hits /\ \A j \in hits : j <= last
    <3> HIDE DEF hits
    <3> QED BY <1>3, <1>5
  <2>2. last \in 1..Len(ws) /\ ws[last].lba = s /\ \A j \in 1..Len(ws) : ws[j].lba = s => j <= last
    <3> HIDE DEF last
    <3> QED BY <1>1, <2>1
  <2>3. Promise!Landed(store, ws)[s] = ws[last].val
    BY <1>2, <1>5
  <2> HIDE DEF last
  <2> QED BY <2>2, <2>3
<1> QED BY <1>4, <1>5

LEMMA LandedShape ==
    ASSUME NEW store, NEW ws
    PROVE  Promise!Landed(store, ws) = [s \in DOMAIN store |-> Promise!Landed(store, ws)[s]]
BY DEF Promise!Landed

(* Writing the oldest to the card changes nothing in the end ...           *)
LEMMA LandedHead ==
    ASSUME NEW T, NEW ws \in Seq(T), ws # <<>>, NEW store, Head(ws).lba \in DOMAIN store
    PROVE  Promise!Landed([store EXCEPT ![Head(ws).lba] = Head(ws).val], Tail(ws))
              = Promise!Landed(store, ws)
<1> DEFINE h == Head(ws)
           to == [store EXCEPT ![h.lba] = h.val]
           t == Tail(ws)
           old == Promise!Landed(store, ws)
           new == Promise!Landed(to, t)
<1>1. /\ t \in Seq(T) /\ Len(t) = Len(ws) - 1 /\ Len(ws) \in Nat \ {0} /\ h = ws[1]
      /\ \A i \in 1..Len(t) : t[i] = ws[i + 1]
  BY HeadTailProperties, EmptySeq, LenProperties
<1>2. DOMAIN to = DOMAIN store /\ to[h.lba] = h.val /\ \A s \in DOMAIN store : s # h.lba => to[s] = store[s]
  OBVIOUS
<1>3. old = [s \in DOMAIN store |-> old[s]] /\ new = [s \in DOMAIN store |-> new[s]]
  <2>1. old = [s \in DOMAIN store |-> old[s]] /\ new = [s \in DOMAIN to |-> new[s]]
    BY LandedShape
  <2> HIDE DEF old, new, to
  <2> QED BY <1>2, <2>1
<1>4. ASSUME NEW s \in DOMAIN store PROVE new[s] = old[s]
  <2>1. \/ old[s] = store[s] /\ \A i \in 1..Len(ws) : ws[i].lba # s
        \/ \E i \in 1..Len(ws) : /\ ws[i].lba = s /\ \A j \in 1..Len(ws) : ws[j].lba = s => j <= i
                                 /\ old[s] = ws[i].val
    BY LandedAt
  <2> HIDE DEF t, to, h, old
  <2>2. \/ new[s] = to[s] /\ \A i \in 1..Len(t) : t[i].lba # s
        \/ \E i \in 1..Len(t) : /\ t[i].lba = s /\ \A j \in 1..Len(t) : t[j].lba = s => j <= i
                                /\ new[s] = t[i].val
    <3>1. s \in DOMAIN to /\ t \in Seq(T)
      BY <1>1, <1>2
    <3> QED BY ONLY <3>1, LandedAt
  <2> HIDE DEF new
  <2>3. \A i \in 1..Len(t) : i + 1 \in 1..Len(ws) /\ t[i] = ws[i + 1]
    BY <1>1
  <2>4. ASSUME NEW i \in 1..Len(t), t[i].lba = s, \A j \in 1..Len(t) : t[j].lba = s => j <= i,
               new[s] = t[i].val
        PROVE  new[s] = old[s]
    <3>1. i + 1 \in 1..Len(ws) /\ ws[i + 1].lba = s /\ ws[i + 1] = t[i]
      BY <2>3, <2>4
    <3>2. PICK k \in 1..Len(ws) : /\ ws[k].lba = s /\ \A j \in 1..Len(ws) : ws[j].lba = s => j <= k
                                  /\ old[s] = ws[k].val
      BY <2>1, <3>1
    <3>3. i + 1 <= k
      BY <3>1, <3>2
    <3>4. k - 1 \in 1..Len(t) /\ (k - 1) + 1 = k
      BY <1>1, <3>2, <3>3
    <3>5. t[k - 1] = ws[k]
      BY <2>3, <3>4
    <3>6. k - 1 <= i
      BY <2>4, <3>2, <3>4, <3>5
    <3>7. k = i + 1
      BY <1>1, <3>3, <3>6
    <3> QED BY <2>4, <3>1, <3>2, <3>7
  <2>5. ASSUME new[s] = to[s], \A i \in 1..Len(t) : t[i].lba # s
        PROVE  new[s] = old[s]
    <3>1. ASSUME NEW k \in 1..Len(ws), ws[k].lba = s PROVE k = 1
      <4>1. SUFFICES ASSUME k # 1 PROVE FALSE
        OBVIOUS
      <4>2. k - 1 \in 1..Len(t) /\ (k - 1) + 1 = k
        BY <1>1, <4>1
      <4>3. t[k - 1] = ws[k]
        BY <2>3, <4>2
      <4> QED BY <2>5, <3>1, <4>2, <4>3
    <3>2. CASE h.lba = s
      <4>1. 1 \in 1..Len(ws) /\ ws[1].lba = s
        BY <1>1, <3>2
      <4>2. old[s] = ws[1].val
        BY <2>1, <3>1, <4>1
      <4> QED BY <1>1, <1>2, <2>5, <3>2, <4>2
    <3>3. CASE h.lba # s
      <4>1. \A k \in 1..Len(ws) : ws[k].lba # s
        BY <1>1, <3>1, <3>3
      <4>2. old[s] = store[s]
        BY <2>1, <4>1
      <4> QED BY <1>2, <1>4, <2>5, <3>3, <4>2
    <3> QED BY <3>2, <3>3
  <2> QED BY <2>2, <2>4, <2>5
<1> HIDE DEF old, new
<1>5. new = old
  BY <1>3, <1>4
<1> QED BY <1>5 DEF old, new, to, h, t

(* ... and what joins the tail overwrites what it addresses and no more.   *)
LEMMA LandedTail ==
    ASSUME NEW T, NEW p \in Seq(T), NEW r \in Seq(T), NEW store, NEW acc,
           acc = [s \in DOMAIN store |-> acc[s]],
           \A i \in 1..Len(r) : acc[r[i].lba] = r[i].val,
           \A s \in DOMAIN store : (\A i \in 1..Len(r) : r[i].lba # s)
                                      => acc[s] = Promise!Landed(store, p)[s]
    PROVE  Promise!Landed(store, p \o r) = acc
<1> DEFINE q == p \o r
           old == Promise!Landed(store, p)
           new == Promise!Landed(store, q)
<1>1. /\ q \in Seq(T) /\ Len(q) = Len(p) + Len(r) /\ Len(p) \in Nat /\ Len(r) \in Nat
      /\ \A i \in 1..(Len(p) + Len(r)) : q[i] = IF i <= Len(p) THEN p[i] ELSE r[i - Len(p)]
  BY ConcatProperties, LenProperties
<1> HIDE DEF q
<1>2. \A i \in 1..Len(p) : i \in 1..Len(q) /\ q[i] = p[i]
  BY <1>1
<1>3. ASSUME NEW i \in 1..Len(r) PROVE Len(p) + i \in 1..Len(q) /\ q[Len(p) + i] = r[i]
  <2>1. Len(p) + i \in 1..(Len(p) + Len(r)) /\ ~(Len(p) + i <= Len(p)) /\ (Len(p) + i) - Len(p) = i
    BY <1>1
  <2> QED BY <1>1, <2>1
<1>4. new = [s \in DOMAIN store |-> new[s]]
  BY LandedShape
<1>5. ASSUME NEW s \in DOMAIN store PROVE new[s] = acc[s]
  <2>1. \/ old[s] = store[s] /\ \A i \in 1..Len(p) : p[i].lba # s
        \/ \E i \in 1..Len(p) : /\ p[i].lba = s /\ \A j \in 1..Len(p) : p[j].lba = s => j <= i
                                /\ old[s] = p[i].val
    BY LandedAt
  <2>2. \/ new[s] = store[s] /\ \A i \in 1..Len(q) : q[i].lba # s
        \/ \E i \in 1..Len(q) : /\ q[i].lba = s /\ \A j \in 1..Len(q) : q[j].lba = s => j <= i
                                /\ new[s] = q[i].val
    <3>1. s \in DOMAIN store /\ q \in Seq(T)
      BY <1>1
    <3> QED BY ONLY <3>1, LandedAt
  <2>3. (\A i \in 1..Len(r) : r[i].lba # s) => acc[s] = old[s]
    OBVIOUS
  <2> HIDE DEF old, new
  <2>4. ASSUME new[s] = store[s], \A i \in 1..Len(q) : q[i].lba # s
        PROVE  new[s] = acc[s]
    <3>1. \A i \in 1..Len(r) : r[i].lba # s
      BY <1>3, <2>4
    <3>2. \A i \in 1..Len(p) : p[i].lba # s
      BY <1>2, <2>4
    <3> QED BY <2>1, <2>3, <2>4, <3>1, <3>2
  <2>5. ASSUME NEW i \in 1..Len(q), q[i].lba = s, \A j \in 1..Len(q) : q[j].lba = s => j <= i,
               new[s] = q[i].val
        PROVE  new[s] = acc[s]
    <3>1. CASE i <= Len(p)
      <4>1. i \in 1..Len(p) /\ q[i] = p[i]
        BY <1>1, <3>1
      <4>2. ASSUME NEW k \in 1..Len(r) PROVE r[k].lba # s
        <5>1. ~(Len(p) + k <= i)
          BY <1>1, <3>1
        <5> QED BY <1>3, <2>5, <5>1
      <4>3. PICK k \in 1..Len(p) : /\ p[k].lba = s /\ \A j \in 1..Len(p) : p[j].lba = s => j <= k
                                   /\ old[s] = p[k].val
        BY <2>1, <2>5, <4>1
      <4>4. i <= k /\ k <= i
        BY <1>2, <2>5, <4>1, <4>3
      <4>5. k = i
        BY <1>1, <4>3, <4>4
      <4> QED BY <2>3, <2>5, <4>1, <4>2, <4>3, <4>5
    <3>2. CASE ~(i <= Len(p))
      <4> DEFINE k == i - Len(p)
      <4>1. k \in 1..Len(r) /\ q[i] = r[k]
        BY <1>1, <3>2
      <4> HIDE DEF k
      <4> QED BY <2>5, <4>1
    <3> QED BY <3>1, <3>2
  <2> QED BY <2>2, <2>4, <2>5
<1> HIDE DEF new
<1>6. new = acc
  BY <1>4, <1>5
<1> QED BY <1>6 DEF new, q

LEMMA LandedNone ==
    ASSUME NEW store, store = [s \in DOMAIN store |-> store[s]]
    PROVE  Promise!Landed(store, <<>>) = store
BY DEF Promise!Landed
-----------------------------------------------------------------------------
(* What a step does to the card, the pending writes and what the host      *)
(* believes, with no buffers in sight.                                     *)
NothingMoves == UNCHANGED <<card, Pending, s_failed, accepted>>

TailGrows ==
    /\ UNCHANGED <<card, s_failed>>
    /\ \E r \in Seq(Promise!SectorWrite) :
          /\ Pending' = Pending \o r
          /\ \A i \in 1..Len(r) : accepted'[r[i].lba] = r[i].val
          /\ \A s \in Sectors : (\A i \in 1..Len(r) : r[i].lba # s) => accepted'[s] = accepted[s]

HeadLands ==
    /\ Pending # <<>> /\ Pending' = Tail(Pending)
    /\ card' = [card EXCEPT ![Head(Pending).lba] = Head(Pending).val]
    /\ UNCHANGED <<s_failed, accepted>>

HeadsLost ==
    /\ \E n \in 0..Len(Pending) : Pending' = SubSeq(Pending, n + 1, Len(Pending))
    /\ s_failed' = TRUE /\ card' = card

AllLost ==
    /\ Pending' = <<>> /\ s_failed' = FALSE
    /\ card' = card /\ accepted' = card

LEMMA RebootPending == ASSUME Reboot PROVE AllLost
<1>1. /\ s_wr_queue' = <<>> /\ job' = NoJob /\ Collected'.count = 0
      /\ s_failed' = FALSE /\ card' = card /\ accepted' = card
  BY DEF Reboot, Collected
<1>2. Pending' = Chain(s_cache', <<>>, <<>>, Collected')
  BY <1>1, PendingIs DEF Front
<1>3. Pending' = <<>>
  BY <1>1, <1>2, EmptyChain
<1> QED BY <1>1, <1>3 DEF AllLost

LEMMA PendingMoves ==
    ASSUME IInv, [Next]_vars
    PROVE  NothingMoves \/ TailGrows \/ HeadLands \/ HeadsLost \/ AllLost
<1> USE DEF cacheVars, writerVars
<1>1. CASE HostStep
  BY <1>1, StillPending DEF HostStep, HostWrite, HostSettle, NothingMoves
<1>2. CASE WriteStep
  <2>1. CASE WriteLock
    BY <2>1, WriteLockPending DEF WriteLock, NothingMoves
  <2>2. CASE WriteTakeBuf \/ WriteDone
    BY <2>2, StillPending DEF WriteTakeBuf, WriteDone, NothingMoves
  <2>3. CASE WriteCopy
    <3>1. UNCHANGED <<card, s_failed>>
      BY <2>3 DEF WriteCopy
    <3> QED BY <2>3, <3>1, WriteCopyPending DEF TailGrows
  <2> QED BY <1>2, <2>1, <2>2, <2>3 DEF WriteStep
<1>3. CASE WriterStep
  <2>1. CASE WriterReceive
    BY <2>1, WriterReceivePending DEF WriterReceive, NothingMoves
  <2>2. CASE WriterSector
    <3>1. /\ Pending # <<>> /\ Pending' = Tail(Pending)
          /\ Head(Pending) = [lba |-> job.lba + landed, val |-> s_cache[job.idx][landed]]
      BY <2>2, WriterSectorPending
    <3>2. /\ card' = [card EXCEPT ![job.lba + landed] = s_cache[job.idx][landed]]
          /\ s_failed' = s_failed /\ accepted' = accepted
      BY <2>2 DEF WriterSector
    <3>3. Head(Pending).lba = job.lba + landed /\ Head(Pending).val = s_cache[job.idx][landed]
      BY <3>1
    <3> QED BY <3>1, <3>2, <3>3 DEF HeadLands
  <2>3. CASE WriterDone
    BY <2>3, WriterDonePending DEF WriterDone, NothingMoves
  <2>4. CASE WriterFail
    <3>1. s_failed' = TRUE /\ card' = card
      BY <2>4 DEF WriterFail
    <3> QED BY <2>4, <3>1, WriterFailPending DEF HeadsLost
  <2> QED BY <1>3, <2>1, <2>2, <2>3, <2>4 DEF WriterStep
<1>4. CASE MainCheck \/ Escape
  BY <1>4, StillPending DEF MainCheck, Escape, NothingMoves
<1>5. ASSUME NEW t \in Tasks, CallerStep(t) PROVE NothingMoves
  <2>1. CASE BarrierBegin(t)
    BY <2>1, BarrierBeginPending DEF BarrierBegin, NothingMoves
  <2>2. CASE BarrierTake(t) \/ BarrierEnd(t) \/ Unlock(t)
    BY <2>2, StillPending DEF BarrierTake, BarrierEnd, Unlock, NothingMoves
  <2> QED BY <1>5, <2>1, <2>2 DEF CallerStep
<1>6. CASE RestartByTask \/ PowerCut
  BY <1>6, RebootPending DEF RestartByTask, PowerCut
<1>7. CASE UNCHANGED vars
  BY <1>7, StillPending DEF vars, NothingMoves
<1> QED BY <1>1, <1>2, <1>3, <1>4, <1>5, <1>6, <1>7 DEF Next

-----------------------------------------------------------------------------
(* What is pending is sectors of the card and data of the host's, never    *)
(* buffer memory that no write has filled; and landed on the card it gives *)
(* what the host believes.                                                 *)
PInv == Pending \in Seq(Promise!SectorWrite) /\ AcceptedSurvives

LEMMA InitPending == ASSUME Init PROVE Pending = <<>> /\ PInv
<1>1. s_wr_queue = <<>> /\ job = NoJob /\ Collected.count = 0 /\ accepted = card
      /\ card = [s \in DOMAIN card |-> card[s]]
  BY DEF Init, Collected
<1>2. Pending = Chain(s_cache, <<>>, <<>>, Collected)
  BY <1>1, PendingIs DEF Front
<1>3. Pending = <<>>
  BY <1>1, <1>2, EmptyChain
<1>4. Pending \in Seq(Promise!SectorWrite)
  BY <1>3
<1>5. AcceptedSurvives
  BY <1>1, <1>3, LandedNone DEF AcceptedSurvives
<1> QED BY <1>3, <1>4, <1>5 DEF PInv

LEMMA NextPending == ASSUME IInv, PInv, [Next]_vars PROVE PInv'
<1> DEFINE p == Pending
           SW == Promise!SectorWrite
<1>1. p \in Seq(SW) /\ (~s_failed => Promise!Landed(card, p) = accepted)
  BY DEF PInv, AcceptedSurvives
<1>2. IInv'
  BY StepIInv
<1>3. /\ card \in [Sectors -> Contents] /\ accepted \in [Sectors -> Contents]
      /\ card' \in [Sectors -> Contents] /\ accepted' \in [Sectors -> Contents]
  BY <1>2 DEF IInv, TypeOK
<1>4. SUFFICES p' \in Seq(SW) /\ (~s_failed' => Promise!Landed(card', p') = accepted')
  BY DEF PInv, AcceptedSurvives, SW, Promise!SectorWrite, Promise!Landed
<1> HIDE DEF p, SW
<1>5. CASE NothingMoves
  BY <1>1, <1>5 DEF NothingMoves, p
<1>6. CASE TailGrows
  <2>1. PICK r \in Seq(SW) :
          /\ p' = p \o r
          /\ \A i \in 1..Len(r) : accepted'[r[i].lba] = r[i].val
          /\ \A s \in Sectors : (\A i \in 1..Len(r) : r[i].lba # s) => accepted'[s] = accepted[s]
    BY <1>6 DEF TailGrows, p, SW
  <2>2. card' = card /\ s_failed' = s_failed
    BY <1>6 DEF TailGrows
  <2>3. p \o r \in Seq(SW)
    BY <1>1, ConcatProperties
  <2>4. ASSUME ~s_failed PROVE Promise!Landed(card, p \o r) = accepted'
    <3> DEFINE acc == accepted'
    <3>1. acc = [s \in DOMAIN card |-> acc[s]] /\ DOMAIN card = Sectors
      BY <1>3
    <3>2. \A s \in DOMAIN card : (\A i \in 1..Len(r) : r[i].lba # s)
                                    => acc[s] = Promise!Landed(card, p)[s]
      BY <1>1, <2>1, <2>4, <3>1
    <3>3. \A i \in 1..Len(r) : acc[r[i].lba] = r[i].val
      BY <2>1
    <3>4. p \in Seq(SW) /\ r \in Seq(SW) /\ acc = [s \in DOMAIN card |-> acc[s]]
      BY <1>1, <3>1
    <3> HIDE DEF acc
    <3>5. Promise!Landed(card, p \o r) = acc
      BY ONLY <3>2, <3>3, <3>4, LandedTail
    <3> QED BY <3>5 DEF acc
  <2> QED BY <2>1, <2>2, <2>3, <2>4
<1>7. CASE HeadLands
  <2>1. /\ p # <<>> /\ p' = Tail(p) /\ card' = [card EXCEPT ![Head(p).lba] = Head(p).val]
        /\ s_failed' = s_failed /\ accepted' = accepted
    BY <1>7 DEF HeadLands, p
  <2>2. Tail(p) \in Seq(SW) /\ Head(p) \in SW
    BY <1>1, <2>1, HeadTailProperties
  <2>3. Head(p).lba \in DOMAIN card
    BY <1>3, <2>2 DEF SW, Promise!SectorWrite
  <2>4. Promise!Landed(card', Tail(p)) = Promise!Landed(card, p)
    BY <1>1, <2>1, <2>3, LandedHead
  <2> QED BY <1>1, <2>1, <2>2, <2>4
<1>8. CASE HeadsLost
  <2>1. PICK n \in 0..Len(p) : p' = SubSeq(p, n + 1, Len(p))
    BY <1>8 DEF HeadsLost, p
  <2>2. Len(p) \in Nat /\ \A i \in (n + 1)..Len(p) : p[i] \in SW
    BY <1>1, LenProperties, ElementOfSeq
  <2>3. SubSeq(p, n + 1, Len(p)) \in Seq(SW)
    <3>1. n + 1 \in Int /\ Len(p) \in Int
      BY <2>1, <2>2
    <3> QED BY <2>2, <3>1, SubSeqProperties
  <2> QED BY <1>8, <2>1, <2>3 DEF HeadsLost
<1>9. CASE AllLost
  <2>1. p' = <<>> /\ accepted' = card' /\ card' = [s \in DOMAIN card' |-> card'[s]]
    BY <1>3, <1>9 DEF AllLost, p
  <2>2. Promise!Landed(card', <<>>) = card'
    BY <2>1, LandedNone
  <2> QED BY <2>1, <2>2, EmptySeq
<1> QED BY <1>5, <1>6, <1>7, <1>8, <1>9, PendingMoves

(* Until a card write fails, the card with the pending writes landed in    *)
(* order is what the host believes it holds: nothing accepted is lost,     *)
(* overtaken or taken from another buffer, for every card, number and size *)
(* of buffers and transfer length.                                         *)
THEOREM AcceptedKept == Spec => []AcceptedSurvives
<1>1. Init => IInv /\ PInv
  BY InitIInv, InitPending
<1>2. (IInv /\ PInv) /\ [Next]_vars => (IInv /\ PInv)'
  BY StepIInv, NextPending
<1>3. IInv /\ PInv => AcceptedSurvives
  BY DEF PInv
<1> QED BY <1>1, <1>2, <1>3, PTL DEF Spec

(* The write-back cache implements the abstract reader of WriteBehind:     *)
(* copying a run is an Accept, a sector reaching the card a Land, a failed *)
(* transfer a Drop, a restart or a power cut a Restart, and every other    *)
(* step - locks, tokens, the queue, the barrier - a stutter.               *)
THEOREM Implements == Spec => WriteOrderKept
<1>1. Init => Promise!Init
  <2> SUFFICES ASSUME Init PROVE Promise!Init
    OBVIOUS
  <2>1. Pending = <<>>
    BY InitPending
  <2> QED BY <2>1 DEF Init, Promise!Init
<1>2. IInv /\ PInv /\ [Next]_vars => [Promise!Next]_Promise!vars
  <2> SUFFICES ASSUME IInv, PInv, [Next]_vars PROVE [Promise!Next]_Promise!vars
    OBVIOUS
  <2>1. CASE NothingMoves
    BY <2>1 DEF NothingMoves, Promise!vars
  <2>2. CASE TailGrows
    <3> DEFINE p == Pending
    <3>1. PICK r \in Seq(Promise!SectorWrite) : p' = p \o r
      BY <2>2 DEF TailGrows
    <3>2. card' = card /\ s_failed' = s_failed
      BY <2>2 DEF TailGrows
    <3>3. p \in Seq(Promise!SectorWrite)
      BY DEF PInv
    <3>4. CASE r = <<>>
      <4>1. p' = p
        <5> HIDE DEF p
        <5> QED BY <3>1, <3>3, <3>4, ConcatEmptySeq
      <4> QED BY <3>2, <4>1 DEF Promise!vars
    <3>5. CASE r # <<>>
      <4>1. p' \in Seq(Promise!SectorWrite) /\ Len(p') > Len(p) /\ SubSeq(p', 1, Len(p)) = p
        <5> HIDE DEF p
        <5>1. \A u, v \in Seq(Promise!SectorWrite) : v # <<>> =>
                 u \o v \in Seq(Promise!SectorWrite) /\ Len(u \o v) > Len(u)
          BY ConcatProperties, LenProperties, EmptySeq
        <5>2. \A u, v \in Seq(Promise!SectorWrite) : SubSeq(u \o v, 1, Len(u)) = u
          BY SubSeqOfConcat1, LenProperties, SubSeqFull
        <5> QED BY <3>1, <3>3, <3>5, <5>1, <5>2
      <4>2. Promise!Accept
        BY <3>2, <4>1 DEF Promise!Accept, Promise!SectorWrite
      <4> QED BY <4>2 DEF Promise!Next
    <3> QED BY <3>4, <3>5
  <2>3. CASE HeadLands
    <3>1. Promise!Land
      BY <2>3 DEF HeadLands, Promise!Land
    <3> QED BY <3>1 DEF Promise!Next
  <2>4. CASE HeadsLost
    <3>1. Promise!Drop
      BY <2>4 DEF HeadsLost, Promise!Drop
    <3> QED BY <3>1 DEF Promise!Next
  <2>5. CASE AllLost
    <3>1. Promise!Restart
      BY <2>5 DEF AllLost, Promise!Restart
    <3> QED BY <3>1 DEF Promise!Next
  <2> QED BY <2>1, <2>2, <2>3, <2>4, <2>5, PendingMoves
<1>3. Init => IInv /\ PInv
  BY InitIInv, InitPending
<1>4. (IInv /\ PInv) /\ [Next]_vars => (IInv /\ PInv)'
  BY StepIInv, NextPending
<1> QED BY <1>1, <1>2, <1>3, <1>4, PTL DEF Spec, WriteOrderKept, Promise!Spec

-----------------------------------------------------------------------------
(* With all three places empty the card is what the host believes.         *)
LEMMA QuietCard == ASSUME CInv, Quiet, ~s_failed PROVE card = accepted
<1>1. ASSUME NEW s \in Sectors PROVE card[s] = accepted[s]
  <2>1. Youngest(s_cache, accepted, Collected, s_wr_queue, s)
    BY <1>1 DEF CInv, Latest
  <2>2. ~Covers(Collected, 0, s) /\ ~InJob(s)
    BY <1>1, CollectedFacts, SizesAssumption DEF CInv, Quiet, Covers, Collected, InJob, Sectors
  <2>3. Len(s_wr_queue) = 0
    BY DEF Quiet
  <2>4. ~InLater(s_wr_queue, 0, s)
    BY <2>3 DEF InLater
  <2> QED BY <2>1, <2>2, <2>4 DEF Youngest
<1>2. card \in [Sectors -> Contents] /\ accepted \in [Sectors -> Contents]
  BY DEF CInv, IInv, TypeOK
<1> QED BY <1>1, <1>2

LEMMA QuietPending == ASSUME Quiet PROVE Pending = <<>>
<1>1. job = NoJob /\ s_wr_queue = <<>> /\ Collected.count = 0
  BY DEF Quiet, Collected
<1>2. Pending = Chain(s_cache, <<>>, <<>>, Collected)
  BY <1>1, PendingIs DEF Front
<1> QED BY <1>1, <1>2, EmptyChain

(* Past barrier_locked() the card is up to date unless a card write has    *)
(* failed, for every card, number and size of buffers and transfer length: *)
(* read10 never returns stale data, and SYNCHRONIZE CACHE, eject and the   *)
(* idle flush mean what they say.                                          *)
THEOREM BarrierMeansIt == Spec => []BarrierSettles
<1>1. CInv => BarrierSettles
  <2> SUFFICES ASSUME CInv, NEW t \in Tasks, pc[t] = "settled", ~s_failed
               PROVE  Pending = <<>> /\ card = accepted
    BY DEF BarrierSettles
  <2>1. Quiet
    BY DEF CInv, Drained, Quiet
  <2> QED BY <2>1, QuietCard, QuietPending
<1> QED BY <1>1, ContentsInvariance, PTL

(* The 1200 baud touch restarts with nothing in RAM, whatever the other    *)
(* tasks do between the unlock and esp_restart() (tud_cdc_line_state_cb).  *)
THEOREM TouchKeepsAll == Spec => []TouchStrandsNothing
<1>1. CInv => TouchStrandsNothing
  <2> SUFFICES ASSUME CInv, pc["tusb"] = "restart", ~s_failed PROVE card = accepted
    BY DEF TouchStrandsNothing
  <2>1. Quiet
    BY DEF CInv, Drained, Quiet
  <2> QED BY <2>1, QuietCard
<1> QED BY <1>1, ContentsInvariance, PTL
=============================================================================
