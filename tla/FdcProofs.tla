----------------------------- MODULE FdcProofs ------------------------------
(***************************************************************************)
(* Proofs about the floppy controller, for any drives, any number and size *)
(* of sectors, whatever the guest asks for, any width of the channel's     *)
(* counter.                                                                *)
(*                                                                         *)
(* A command under way keeps two accounts.  The registers are at the       *)
(* sector whose turn it is (AtTurn), whatever drive fdc.us was set to; and *)
(* the bytes moved and those the channel has still to count are what it    *)
(* began with (Counting), unless the guest has masked it and goes on by    *)
(* hand.  What a handler leaves is said of the controller, channel and job *)
(* it is given (Fine), since it hands them on from one to the next.        *)
(***************************************************************************)
EXTENDS Fdc, TLAPS

Transfers == {"BUFSEND2", "BUFRECV"}

FType(f) ==
    f \in [event : {"NEUTRAL", "CMDRECV", "BUFRECV", "BUFSEND", "BUFSEND2", "NEXTDATA"},
           cmd : Commands, rest : Nat, status : SUBSET {"RQM", "DIO", "CB"},
           us : Drives, hd : Heads, R : 1..Eot, mt : BOOLEAN,
           diag : BOOLEAN, tc : BOOLEAN, stat : [Drives -> Stats],
           int : [Drives -> [timer : 0..FDC_INT_DELAY, stat : Stats]]]

DType(d) ==
    d \in [leng : 0..Wrap - 1, out : BOOLEAN, masked : BOOLEAN, ready : BOOLEAN,
           chan : {"off", "on", "done"}]

JType(j) ==
    j \in [op : Data \cup {"none"}, us : Drives, hd : Heads, R : 1..Eot, mt : BOOLEAN,
           clean : BOOLEAN, diverted : BOOLEAN, turn : Nat,
           last : Drives \X Heads \X (1..Eot), bytes : Nat, want : Nat,
           end : {"none", "ok", "error"}]

Whole(n) == n * SectorLen

(* The registers are at the n-th sector of the command.                    *)
AtTurn(f, j, n) == f.mt = j.mt /\ <<j.us, f.hd, f.R>> = Turn(j, n)

(* The sector that is read was counted, the one that is filled was not.    *)
TurnNow(f, j) == IF f.event = "BUFRECV" THEN j.turn + 1 ELSE j.turn

Counted(j) == j.clean /\ j.op \in Moving

Counting(d, j) ==
    \/ d.masked
    \/ d.chan = "on" /\ j.want = j.bytes + d.leng + 1
    \/ ~d.ready /\ j.want = 0 /\ j.bytes = 0

(* A command under way, in a transfer.                                     *)
Underway(f, d, j) ==
    /\ f.rest >= 1 /\ f.cmd \in Data /\ f.cmd = j.op /\ j.end = "none"
    /\ f.event = "BUFSEND2" => f.cmd \in {"READ", "DIAG"}
    /\ f.event = "BUFRECV" => f.cmd \in Outward
    /\ ~j.diverted => f.us = j.us
    /\ f.cmd \in Moving \/ (f.cmd = "DIAG" /\ ~f.diag) => AtTurn(f, j, TurnNow(f, j))
    /\ f.event = "BUFSEND2" /\ (f.cmd = "READ" \/ ~f.diag) => j.turn > 0
    /\ Counted(j) => /\ j.bytes + f.rest = Whole(TurnNow(f, j))
                     /\ ~f.tc /\ Counting(d, j)

InTransfer(f, d, j) == f.event \in Transfers => d.ready /\ Underway(f, d, j)

(* A channel that runs is let go and not masked, and one that is clean is  *)
(* programmed for the direction of the command.                            *)
Channel(d) == d.chan # "off" => d.ready /\ ~d.masked

Aimed(f, d, j) ==
    /\ f.cmd \in Data /\ ~d.masked
    /\ (f.event = "CMDRECV" /\ ~d.ready) \/ (f.event \in Transfers /\ j.clean)
    => d.out = (f.cmd \in Outward)

InTurn(j) == j.turn > 0 /\ ~j.diverted => j.last = Turn(j, j.turn)

AllMoved(j) ==
    \/ j.bytes = j.want
    \/ Turn(j, j.turn + 1) = <<>> /\ j.bytes = Whole(j.turn)

WholeMoved(j) == j.end = "ok" /\ Counted(j) => AllMoved(j)

Fine(f, d, j) ==
    /\ FType(f) /\ DType(d) /\ JType(j)
    /\ InTransfer(f, d, j) /\ Channel(d) /\ Aimed(f, d, j)
    /\ InTurn(j) /\ WholeMoved(j)

Signals(f) == {i \in Drives : f.stat[i] \in {"se", "ai"}}
CausesOf(f) ==
    Signals(f) \cup (IF f.event = "BUFSEND" /\ f.cmd \in Data THEN {TheResult} ELSE {})

(* A handler may end what has to be told, and nothing begins untold.       *)
Told == armed' = TRUE \/ (armed' = armed /\ CausesOf(fdc') \subseteq CausesOf(fdc))
Done == Fine(fdc', dma', job') /\ Told

IInv == Fine(fdc, dma, job) /\ armed \in BOOLEAN /\ ready \subseteq Drives /\ NothingUntold

-----------------------------------------------------------------------------
(* The order of sectors, and the arithmetic.                               *)
LEMMA WholeNext == \A n \in Nat : Whole(n) \in Nat /\ Whole(n + 1) = Whole(n) + SectorLen
BY FdcAssumption DEF Whole

LEMMA WrapDown ==
    ASSUME NEW n \in 0..(Wrap - 1)
    PROVE  (n + Wrap - 1) % Wrap = IF n = 0 THEN Wrap - 1 ELSE n - 1
BY FdcAssumption

LEMMA TurnFirst ==
    ASSUME NEW j, JType(j)
    PROVE  Turn(j, 1) = <<j.us, j.hd, j.R>>
BY FdcAssumption DEF JType, Turn

LEMMA TurnNext ==
    ASSUME NEW j, JType(j), NEW n \in Nat, n > 0, NEW hd \in Heads, NEW R \in 1..Eot,
           <<j.us, hd, R>> = Turn(j, n)
    PROVE  /\ R # Eot => <<j.us, hd, R + 1>> = Turn(j, n + 1)
           /\ R = Eot /\ j.mt /\ hd = 0 => <<j.us, 1, 1>> = Turn(j, n + 1)
           /\ R = Eot /\ ~(j.mt /\ hd = 0) => Turn(j, n + 1) = <<>>
<1> DEFINE r == j.R + n - 1
<1>1. j.R \in 1..Eot /\ j.hd \in {0, 1} /\ Eot \in Nat /\ Eot > 0 /\ r \in Nat /\ r > 0
      /\ j.mt \in BOOLEAN
  BY FdcAssumption DEF JType, Heads
<1> DEFINE Place(m) == IF m <= Eot THEN <<j.us, j.hd, m>>
                       ELSE IF j.mt /\ j.hd = 0 /\ m <= 2 * Eot THEN <<j.us, 1, m - Eot>>
                       ELSE <<>>
<1>2. Turn(j, n) = Place(r) /\ Turn(j, n + 1) = Place(r + 1)
  <2>1. Turn(j, n) = Place(j.R + n - 1) /\ Turn(j, n + 1) = Place(j.R + (n + 1) - 1)
    BY DEF Turn
  <2>2. j.R + (n + 1) - 1 = r + 1
    BY <1>1
  <2> HIDE DEF Place
  <2> QED BY <2>1, <2>2
<1> HIDE DEF r
<1>3. <<j.us, hd, R>> = Place(r)
  BY <1>2
<1>4. CASE r <= Eot
  <2>1. hd = j.hd /\ R = r
    BY <1>3, <1>4
  <2> QED BY <1>1, <1>2, <2>1
<1>5. CASE ~(r <= Eot) /\ j.mt /\ j.hd = 0 /\ r <= 2 * Eot
  <2>1. hd = 1 /\ R = r - Eot
    BY <1>3, <1>5
  <2> QED BY <1>1, <1>2, <1>5, <2>1
<1>6. CASE ~(r <= Eot) /\ ~(j.mt /\ j.hd = 0 /\ r <= 2 * Eot)
  <2>1. Place(r) = <<>>
    BY <1>6
  <2>2. <<j.us, hd, R>> # <<>>
    OBVIOUS
  <2> QED BY <1>3, <2>1, <2>2
<1> QED BY <1>4, <1>5, <1>6

-----------------------------------------------------------------------------
(* The channel, and the drive addressed.                                   *)
LEMMA CheckFacts ==
    ASSUME NEW d, DType(d)
    PROVE  /\ DType(Check(d)) /\ Channel(Check(d))
           /\ Check(d).leng = d.leng /\ Check(d).masked = d.masked
           /\ Check(d).out = d.out /\ Check(d).ready = d.ready
           /\ Check(d).chan = IF d.masked \/ ~d.ready THEN "off"
                              ELSE IF d.chan = "off" THEN "on" ELSE d.chan
BY DEF DType, Check, Channel

LEMMA DmaReadyFacts ==
    ASSUME NEW d, DType(d), NEW on \in BOOLEAN
    PROVE  /\ DType(DmaReady(d, on)) /\ Channel(DmaReady(d, on))
           /\ DmaReady(d, on).leng = d.leng /\ DmaReady(d, on).masked = d.masked
           /\ DmaReady(d, on).out = d.out /\ DmaReady(d, on).ready = on
           /\ DmaReady(d, on).chan = IF d.masked \/ ~on THEN "off"
                                     ELSE IF d.chan = "off" THEN "on" ELSE d.chan
<1> DEFINE e == [d EXCEPT !.ready = on]
<1>1. DType(e) /\ e.leng = d.leng /\ e.masked = d.masked /\ e.out = d.out /\ e.ready = on
      /\ e.chan = d.chan
  BY DEF DType
<1>2. DmaReady(d, on) = Check(e)
  BY DEF DmaReady
<1> HIDE DEF e
<1> QED BY <1>1, <1>2, CheckFacts

LEMMA AddressedFacts ==
    ASSUME NEW f, FType(f)
    PROVE  /\ FType(Addressed(f)) /\ Signals(Addressed(f)) \subseteq Signals(f)
           /\ Addressed(f).us = f.us /\ Addressed(f).hd = f.hd /\ Addressed(f).R = f.R
           /\ Addressed(f).mt = f.mt /\ Addressed(f).cmd = f.cmd /\ Addressed(f).tc = f.tc
           /\ Addressed(f).diag = f.diag /\ Addressed(f).event = f.event
           /\ Addressed(f).rest = f.rest /\ Addressed(f).status = f.status
<1>1. Addr(f) \in Stats /\ Addr(f) \notin {"se", "ai"}
  BY DEF Addr, Stats
<1>2. f.us \in Drives /\ f.stat \in [Drives -> Stats]
  BY DEF FType
<1>3. [f.stat EXCEPT ![f.us] = Addr(f)] \in [Drives -> Stats]
  BY <1>1, <1>2
<1>4. FType(Addressed(f))
  BY <1>3 DEF FType, Addressed
<1>5. Addressed(f).stat = [f.stat EXCEPT ![f.us] = Addr(f)]
  BY DEF FType, Addressed
<1>6. Signals(Addressed(f)) \subseteq Signals(f)
  BY <1>1, <1>2, <1>5 DEF Signals
<1> QED BY <1>4, <1>6 DEF FType, Addressed

-----------------------------------------------------------------------------
(* What the handlers end in.                                               *)
LEMMA ResultDone ==
    ASSUME NEW f, NEW d, NEW j, NEW end \in {"ok", "error"},
           FType(f), DType(d), JType(j), InTurn(j),
           end = "ok" /\ Counted(j) => AllMoved(j),
           Result(f, d, j, end)
    PROVE  Done
<1> DEFINE g == fdc'
           e == dma'
           k == job'
<1>1. /\ g = [f EXCEPT !.tc = FALSE, !.event = "BUFSEND", !.rest = 1, !.status = Answer,
                        !.stat[f.us] = "zero"]
      /\ e = DmaReady(d, FALSE) /\ k = [j EXCEPT !.end = end] /\ armed' = TRUE
  BY DEF Result
<1>2. FType(g) /\ g.event = "BUFSEND"
  <2>1. [f.stat EXCEPT ![f.us] = "zero"] \in [Drives -> Stats]
    BY DEF FType, Stats
  <2>2. Answer \in SUBSET {"RQM", "DIO", "CB"}
    BY DEF Answer
  <2> QED BY <1>1, <2>1, <2>2 DEF FType
<1>3. DType(e) /\ Channel(e)
  BY <1>1, DmaReadyFacts
<1>4. /\ JType(k) /\ k.end = end /\ k.op = j.op /\ k.clean = j.clean /\ k.turn = j.turn
      /\ k.diverted = j.diverted /\ k.last = j.last /\ k.bytes = j.bytes /\ k.want = j.want
      /\ k.R = j.R /\ k.us = j.us /\ k.hd = j.hd /\ k.mt = j.mt
  BY <1>1 DEF JType
<1> HIDE DEF g, e, k
<1>5. \A n : Turn(k, n) = Turn(j, n)
  BY <1>4 DEF Turn
<1>6. InTurn(k)
  BY <1>4, <1>5 DEF InTurn
<1>7. WholeMoved(k)
  BY <1>4, <1>5 DEF WholeMoved, Counted, AllMoved
<1>8. InTransfer(g, e, k) /\ Aimed(g, e, k)
  BY <1>2 DEF InTransfer, Aimed, Transfers
<1> QED BY <1>1, <1>2, <1>3, <1>4, <1>6, <1>7, <1>8 DEF Done, Told, Fine, g, e, k

(* Nothing is transferred, and nothing is begun that has to be told.       *)
LEMMA QuietDone ==
    ASSUME NEW f, NEW d, NEW j,
           FType(f), DType(d), JType(j), Channel(d), Aimed(f, d, j), InTurn(j), WholeMoved(j),
           InTransfer(f, d, j), CausesOf(f) \subseteq CausesOf(fdc),
           Quiet(f, d, j)
    PROVE  Done
BY DEF Quiet, Done, Told, Fine

LEMMA NoJobFacts == JType(NoJob) /\ InTurn(NoJob) /\ WholeMoved(NoJob) /\ ~Counted(NoJob)
<1>1. 0 \in Drives /\ 0 \in Heads /\ 1 \in 1..Eot
  BY FdcAssumption DEF Heads
<1>2. <<0, 0, 1>> \in Drives \X Heads \X (1..Eot)
  BY <1>1
<1>3. JType(NoJob)
  BY <1>1, <1>2 DEF JType, NoJob
<1> QED BY <1>3 DEF NoJob, InTurn, WholeMoved, Counted, Moving

LEMMA TransferDone ==
    ASSUME NEW f, NEW d, NEW j,
           FType(f), DType(d), JType(j), Channel(d), InTurn(j),
           f.event \in Transfers, Underway(f, d, j),
           j.clean /\ ~d.masked => d.out = (f.cmd \in Outward),
           Signals(f) \subseteq Signals(fdc),
           Transfer(f, d, j)
    PROVE  Done
<1> DEFINE e == DmaReady(d, TRUE)
           k == IF j.want = 0 /\ e.chan = "on" THEN [j EXCEPT !.want = e.leng + 1] ELSE j
<1>1. Quiet(f, e, k)
  BY DEF Transfer
<1>2. /\ DType(e) /\ Channel(e) /\ e.leng = d.leng /\ e.masked = d.masked /\ e.out = d.out
      /\ e.ready = TRUE
      /\ e.chan = IF d.masked THEN "off" ELSE IF d.chan = "off" THEN "on" ELSE d.chan
  BY DmaReadyFacts
<1> HIDE DEF e
<1>3. e.leng \in 0..(Wrap - 1) /\ Wrap \in Nat /\ e.leng + 1 \in Nat
  BY <1>2, FdcAssumption DEF DType
<1>4. /\ JType(k) /\ k.op = j.op /\ k.clean = j.clean /\ k.turn = j.turn /\ k.end = j.end
      /\ k.diverted = j.diverted /\ k.last = j.last /\ k.bytes = j.bytes
      /\ k.R = j.R /\ k.us = j.us /\ k.hd = j.hd /\ k.mt = j.mt
      /\ k.want = IF j.want = 0 /\ e.chan = "on" THEN e.leng + 1 ELSE j.want
  BY <1>3 DEF JType
<1> HIDE DEF k
<1>5. \A n : Turn(k, n) = Turn(j, n)
  BY <1>4 DEF Turn
<1>6. InTurn(k) /\ WholeMoved(k)
  BY <1>4, <1>5 DEF InTurn, WholeMoved, Underway
<1>7. ASSUME Counted(j) PROVE Counting(e, k)
  <2>1. Counting(d, j)
    BY <1>7 DEF Underway
  <2>2. j.bytes \in Nat /\ j.want \in Nat /\ d.leng \in 0..(Wrap - 1)
    BY DEF JType, DType
  <2>3. CASE d.masked
    BY <1>2, <2>3 DEF Counting
  <2>4. CASE ~d.masked /\ d.chan = "on" /\ j.want = j.bytes + d.leng + 1
    <3>1. e.chan = "on" /\ j.want # 0
      BY <1>2, <1>3, <2>2, <2>4
    <3> QED BY <1>2, <1>4, <2>4, <3>1 DEF Counting
  <2>5. CASE ~d.masked /\ ~d.ready /\ j.want = 0 /\ j.bytes = 0
    <3>1. d.chan = "off"
      BY <2>5 DEF Channel
    <3>2. e.chan = "on"
      BY <1>2, <2>5, <3>1
    <3>3. k.want = e.leng + 1 /\ k.bytes = 0
      BY <1>4, <2>5, <3>2
    <3> QED BY <1>3, <3>2, <3>3 DEF Counting
  <2> QED BY <2>1, <2>3, <2>4, <2>5 DEF Counting
<1>8. Underway(f, e, k)
  <2>1. Counted(k) <=> Counted(j)
    BY <1>4 DEF Counted
  <2>2. TurnNow(f, k) = TurnNow(f, j)
    BY <1>4 DEF TurnNow
  <2>3. AtTurn(f, j, TurnNow(f, j)) => AtTurn(f, k, TurnNow(f, k))
    BY <1>4, <1>5, <2>2 DEF AtTurn
  <2> QED BY <1>4, <1>7, <2>1, <2>2, <2>3 DEF Underway
<1>9. InTransfer(f, e, k)
  BY <1>2, <1>8 DEF InTransfer
<1>10. Aimed(f, e, k)
  BY <1>2, <1>4 DEF Aimed, Transfers
<1>11. CausesOf(f) \subseteq CausesOf(fdc)
  BY DEF CausesOf, Transfers
<1> QED BY <1>1, <1>2, <1>4, <1>6, <1>9, <1>10, <1>11, QuietDone

-----------------------------------------------------------------------------
(* The sectors of a command in their turn.                                 *)
Begun(f, d, j) ==
    /\ FType(f) /\ DType(d) /\ JType(j) /\ Channel(d) /\ InTurn(j)
    /\ f.cmd \in Data /\ f.cmd = j.op /\ j.end = "none"
    /\ ~j.diverted => f.us = j.us
    /\ j.clean /\ ~d.masked => d.out = (f.cmd \in Outward)
    /\ Signals(f) \subseteq Signals(fdc)

LEMMA TakenFacts ==
    ASSUME NEW f, NEW d, NEW j, Begun(f, d, j), AtTurn(f, j, j.turn + 1)
    PROVE  LET k == Taken(f, j)
           IN  /\ JType(k) /\ InTurn(k) /\ k.turn = j.turn + 1 /\ k.turn > 0
               /\ k.op = j.op /\ k.clean = j.clean /\ k.diverted = j.diverted /\ k.end = j.end
               /\ k.us = j.us /\ k.mt = j.mt /\ k.bytes = j.bytes /\ k.want = j.want
               /\ \A n : Turn(k, n) = Turn(j, n)
<1> DEFINE k == Taken(f, j)
<1>1. /\ JType(k) /\ k.turn = j.turn + 1 /\ k.op = j.op /\ k.clean = j.clean
      /\ k.diverted = j.diverted /\ k.us = j.us /\ k.mt = j.mt /\ k.R = j.R /\ k.hd = j.hd
      /\ k.bytes = j.bytes /\ k.want = j.want /\ k.end = j.end
      /\ k.last = <<f.us, f.hd, f.R>>
  <2>1. <<f.us, f.hd, f.R>> \in Drives \X Heads \X (1..Eot)
    BY DEF Begun, FType
  <2>2. j.turn + 1 \in Nat
    BY DEF Begun, JType
  <2>3. k = [j EXCEPT !.turn = @ + 1, !.last = <<f.us, f.hd, f.R>>]
    BY DEF Taken
  <2>4. JType(j)
    BY DEF Begun
  <2> QED BY <2>1, <2>2, <2>3, <2>4 DEF JType
<1> HIDE DEF k
<1>2. \A n : Turn(k, n) = Turn(j, n)
  BY <1>1 DEF Turn
<1>3. k.turn > 0
  BY <1>1 DEF Begun, JType
<1>4. InTurn(k)
  BY <1>1, <1>2 DEF InTurn, AtTurn, Begun
<1> QED BY <1>1, <1>2, <1>3, <1>4 DEF k

LEMMA ReadSectorDone ==
    ASSUME NEW f, NEW d, NEW j, Begun(f, d, j), AtTurn(f, j, j.turn + 1),
           f.cmd = "READ" \/ (f.cmd = "DIAG" /\ ~f.diag),
           Counted(j) => j.bytes = Whole(j.turn) /\ ~f.tc /\ Counting(d, j),
           ReadSector(f, d, j)
    PROVE  Done
<1> DEFINE g == Addressed(f)
<1>1. /\ FType(g) /\ Signals(g) \subseteq Signals(f) /\ g.us = f.us /\ g.hd = f.hd
      /\ g.R = f.R /\ g.mt = f.mt /\ g.cmd = f.cmd /\ g.tc = f.tc /\ g.diag = f.diag
  BY AddressedFacts DEF Begun
<1> HIDE DEF g
<1>2. CASE Result(g, d, j, "error")
  BY <1>1, <1>2, ResultDone DEF Begun
<1>3. CASE Sends(g, d, Taken(g, j), SectorLen)
  <2> DEFINE k == Taken(g, j)
             h == Phase(g, "BUFSEND2", SectorLen, Answer)
  <2>1. Begun(g, d, j) /\ AtTurn(g, j, j.turn + 1)
    BY <1>1 DEF Begun, AtTurn
  <2>2. /\ JType(k) /\ InTurn(k) /\ k.turn = j.turn + 1 /\ k.turn > 0
        /\ k.op = j.op /\ k.clean = j.clean /\ k.diverted = j.diverted /\ k.end = j.end
        /\ k.us = j.us /\ k.mt = j.mt /\ k.bytes = j.bytes /\ k.want = j.want
        /\ \A n : Turn(k, n) = Turn(j, n)
    BY <2>1, TakenFacts
  <2>3. SectorLen \in Nat /\ SectorLen >= 1
    BY FdcAssumption
  <2>4. Answer \in SUBSET {"RQM", "DIO", "CB"}
    BY DEF Answer
  <2>5. /\ FType(h) /\ h.event = "BUFSEND2" /\ h.rest = SectorLen /\ h.cmd = g.cmd /\ h.us = g.us
        /\ h.hd = g.hd /\ h.R = g.R /\ h.mt = g.mt /\ h.tc = g.tc /\ h.diag = g.diag
        /\ h.stat = g.stat
    BY <1>1, <2>3, <2>4 DEF FType, Phase
  <2>6. Transfer(h, d, k)
    BY <1>3 DEF Sends
  <2> HIDE DEF h, k
  <2>7. Signals(h) \subseteq Signals(fdc)
    BY <1>1, <2>5 DEF Signals, Begun
  <2>8. Counted(j) => k.bytes + h.rest = Whole(k.turn)
    <3>1. j.turn \in Nat
      BY DEF Begun, JType
    <3> QED BY <2>2, <2>5, <3>1, WholeNext
  <2>9. TurnNow(h, k) = k.turn /\ AtTurn(h, k, k.turn)
    BY <1>1, <2>2, <2>5 DEF TurnNow, AtTurn
  <2>10. (Counted(k) <=> Counted(j)) /\ (Counting(d, j) => Counting(d, k))
    BY <2>2 DEF Counted, Counting
  <2>11. Underway(h, d, k)
    <3>1. h.rest >= 1 /\ h.cmd \in Data /\ h.cmd = k.op /\ k.end = "none" /\ h.cmd \in {"READ", "DIAG"}
      BY <1>1, <2>2, <2>3, <2>5 DEF Begun
    <3>2. ~k.diverted => h.us = k.us
      BY <1>1, <2>2, <2>5 DEF Begun
    <3>3. Counted(k) => k.bytes + h.rest = Whole(TurnNow(h, k)) /\ ~h.tc /\ Counting(d, k)
      BY <1>1, <2>5, <2>8, <2>9, <2>10
    <3> QED BY <2>2, <2>5, <2>9, <3>1, <3>2, <3>3 DEF Underway
  <2>12. h.event \in Transfers
    BY <2>5 DEF Transfers
  <2>13. k.clean /\ ~d.masked => d.out = (h.cmd \in Outward)
    BY <1>1, <2>2, <2>5 DEF Begun
  <2> QED BY <2>2, <2>5, <2>6, <2>7, <2>11, <2>12, <2>13, TransferDone DEF Begun
<1> QED BY <1>2, <1>3 DEF ReadSector, g

LEMMA OtherSideFacts ==
    ASSUME NEW f, FType(f)
    PROVE  LET g == OtherSide(f)
           IN  /\ FType(g) /\ g.R = 1 /\ g.hd = IF f.mt THEN 1 - f.hd ELSE f.hd
               /\ g.us = f.us /\ g.mt = f.mt /\ g.cmd = f.cmd /\ g.tc = f.tc /\ g.diag = f.diag
               /\ g.stat = f.stat /\ g.event = f.event
               /\ (f.mt /\ g.hd = 1) <=> (f.mt /\ f.hd = 0)
<1>1. f.hd \in {0, 1} /\ 1 \in 1..Eot /\ f.mt \in BOOLEAN
  BY FdcAssumption DEF FType, Heads
<1>2. 1 - f.hd \in Heads /\ (1 - f.hd = 1 <=> f.hd = 0)
  BY <1>1 DEF Heads
<1> QED BY <1>1, <1>2 DEF FType, OtherSide

(* Where the next sector is.                                               *)
LEMMA NextIsInTurn ==
    ASSUME NEW f, NEW j, NEW n \in Nat, n > 0, FType(f), JType(j), AtTurn(f, j, n)
    PROVE  /\ f.R # Eot => AtTurn([f EXCEPT !.R = @ + 1], j, n + 1)
           /\ f.R = Eot /\ f.mt /\ f.hd = 0 => AtTurn(OtherSide(f), j, n + 1)
           /\ f.R = Eot /\ ~(f.mt /\ f.hd = 0) => Turn(j, n + 1) = <<>>
<1>1. f.hd \in Heads /\ f.R \in 1..Eot /\ f.mt = j.mt /\ <<j.us, f.hd, f.R>> = Turn(j, n)
  BY DEF FType, AtTurn
<1>2. /\ f.R # Eot => <<j.us, f.hd, f.R + 1>> = Turn(j, n + 1)
      /\ f.R = Eot /\ j.mt /\ f.hd = 0 => <<j.us, 1, 1>> = Turn(j, n + 1)
      /\ f.R = Eot /\ ~(j.mt /\ f.hd = 0) => Turn(j, n + 1) = <<>>
  BY <1>1, TurnNext
<1>3. LET g == [f EXCEPT !.R = @ + 1] IN g.hd = f.hd /\ g.R = f.R + 1 /\ g.mt = f.mt
  BY DEF FType
<1>4. LET g == OtherSide(f) IN g.R = 1 /\ g.mt = f.mt /\ (f.mt /\ f.hd = 0 => g.hd = 1)
  BY DEF FType, OtherSide
<1> QED BY <1>1, <1>2, <1>3, <1>4 DEF AtTurn

LEMMA NextSectorDone ==
    ASSUME NEW f, NEW d, NEW j, Begun(f, d, j), AtTurn(f, j, j.turn), j.turn > 0,
           f.cmd = "READ" \/ (f.cmd = "DIAG" /\ ~f.diag),
           Counted(j) => j.bytes = Whole(j.turn) /\ ~f.tc /\ Counting(d, j),
           NextSector(f, d, j)
    PROVE  Done
<1> DEFINE g == OtherSide(f)
           h == [f EXCEPT !.R = @ + 1]
<1>1. FType(f) /\ JType(j) /\ j.turn \in Nat
  BY DEF Begun, JType
<1>2. /\ FType(g) /\ g.us = f.us /\ g.cmd = f.cmd /\ g.tc = f.tc /\ g.diag = f.diag
      /\ g.stat = f.stat /\ ((f.mt /\ g.hd = 1) <=> (f.mt /\ f.hd = 0))
  BY <1>1, OtherSideFacts
<1>3. ASSUME f.R # Eot
      PROVE  /\ FType(h) /\ h.us = f.us /\ h.cmd = f.cmd /\ h.tc = f.tc /\ h.diag = f.diag
             /\ h.stat = f.stat
  <2>1. f.R + 1 \in 1..Eot
    BY <1>1, <1>3, FdcAssumption DEF FType
  <2> QED BY <1>1, <2>1 DEF FType
<1>4. /\ f.R # Eot => AtTurn(h, j, j.turn + 1)
      /\ f.R = Eot /\ f.mt /\ f.hd = 0 => AtTurn(g, j, j.turn + 1)
      /\ f.R = Eot /\ ~(f.mt /\ f.hd = 0) => Turn(j, j.turn + 1) = <<>>
  BY <1>1, NextIsInTurn
<1>5. IF f.R # Eot THEN ReadSector(h, d, j)
      ELSE IF f.mt /\ g.hd = 1 THEN ReadSector(g, d, j) ELSE Result(g, d, j, "ok")
  BY DEF NextSector
<1> HIDE DEF g, h
<1>6. CASE f.R # Eot
  <2>1. Begun(h, d, j)
    BY <1>3, <1>6 DEF Begun, Signals
  <2> QED BY <1>3, <1>4, <1>5, <1>6, <2>1, ReadSectorDone
<1>7. CASE f.R = Eot /\ f.mt /\ g.hd = 1
  <2>1. Begun(g, d, j)
    BY <1>2 DEF Begun, Signals
  <2> QED BY <1>2, <1>4, <1>5, <1>7, <2>1, ReadSectorDone
<1>8. CASE f.R = Eot /\ ~(f.mt /\ g.hd = 1)
  <2>1. Counted(j) => AllMoved(j)
    BY <1>2, <1>4, <1>8 DEF AllMoved
  <2> QED BY <1>2, <1>5, <1>8, <2>1, ResultDone DEF Begun
<1> QED BY <1>6, <1>7, <1>8

LEMMA FillDone ==
    ASSUME NEW h, NEW d, NEW k, Begun(h, d, k), AtTurn(h, k, k.turn + 1),
           h.event = "BUFRECV", h.rest = SectorLen, h.cmd = "WRITE",
           Counted(k) => k.bytes = Whole(k.turn) /\ ~h.tc /\ Counting(d, k),
           Transfer(h, d, k)
    PROVE  Done
<1>1. SectorLen \in Nat /\ SectorLen >= 1 /\ k.turn \in Nat
  BY FdcAssumption DEF Begun, JType
<1>2. TurnNow(h, k) = k.turn + 1 /\ Whole(k.turn + 1) = Whole(k.turn) + SectorLen
  BY <1>1, WholeNext DEF TurnNow
<1>3. Underway(h, d, k)
  <2>1. Counted(k) => k.bytes + h.rest = Whole(TurnNow(h, k)) /\ ~h.tc /\ Counting(d, k)
    BY <1>2
  <2>2. h.rest >= 1 /\ h.cmd \in Outward /\ h.event # "BUFSEND2"
    BY <1>1 DEF Outward
  <2>3. ~k.diverted => h.us = k.us
    BY DEF Begun
  <2> QED BY <1>2, <2>1, <2>2, <2>3 DEF Underway, Begun
<1> QED BY <1>3, TransferDone DEF Begun, Transfers

LEMMA WriteSectorDone ==
    ASSUME NEW f, NEW d, NEW j, Begun(f, d, j), AtTurn(f, j, j.turn + 1), f.cmd = "WRITE",
           Counted(j) => IF f.tc THEN j.bytes = j.want
                         ELSE j.bytes = Whole(j.turn + 1) /\ Counting(d, j),
           WriteSector(f, d, j)
    PROVE  Done
<1> DEFINE g == Addressed(f)
           k == Taken(g, j)
           h == OtherSide(g)
           m == Addressed(h)
           up == [g EXCEPT !.R = @ + 1]
           More(n) == Transfer([n EXCEPT !.event = "BUFRECV", !.rest = SectorLen], d, k)
<1>1. /\ FType(g) /\ Signals(g) \subseteq Signals(f) /\ g.us = f.us /\ g.hd = f.hd
      /\ g.R = f.R /\ g.mt = f.mt /\ g.cmd = f.cmd /\ g.tc = f.tc
  BY AddressedFacts DEF Begun
<1>2. \/ Result(g, d, j, "error")
      \/ IF ~f.tc /\ f.R # Eot THEN More(up)
         ELSE IF f.mt /\ ~f.tc /\ h.hd = 1 THEN More(m) ELSE Result(h, d, k, "ok")
  BY DEF WriteSector
<1>3. /\ FType(h) /\ h.us = g.us /\ h.mt = g.mt /\ h.cmd = g.cmd /\ h.tc = g.tc
      /\ h.stat = g.stat /\ ((g.mt /\ h.hd = 1) <=> (g.mt /\ g.hd = 0))
  BY <1>1, OtherSideFacts
<1>4. /\ FType(m) /\ Signals(m) \subseteq Signals(h) /\ m.us = h.us /\ m.hd = h.hd
      /\ m.R = h.R /\ m.mt = h.mt /\ m.cmd = h.cmd /\ m.tc = h.tc
  BY <1>3, AddressedFacts
<1>5. ASSUME f.R # Eot
      PROVE  FType(up) /\ up.us = g.us /\ up.cmd = g.cmd /\ up.tc = g.tc /\ up.stat = g.stat
  <2>1. g.R + 1 \in 1..Eot
    BY <1>1, <1>5, FdcAssumption DEF FType
  <2> QED BY <1>1, <2>1 DEF FType
<1>6. Begun(g, d, j) /\ AtTurn(g, j, j.turn + 1)
  BY <1>1 DEF Begun, AtTurn
<1> HIDE DEF g
<1>7. /\ JType(k) /\ InTurn(k) /\ k.turn = j.turn + 1 /\ k.turn > 0
      /\ k.op = j.op /\ k.clean = j.clean /\ k.diverted = j.diverted /\ k.end = j.end
      /\ k.us = j.us /\ k.mt = j.mt /\ k.bytes = j.bytes /\ k.want = j.want
      /\ \A n : Turn(k, n) = Turn(j, n)
  BY <1>6, TakenFacts
<1> HIDE DEF k
<1>8. k.turn \in Nat /\ AtTurn(g, k, k.turn)
  BY <1>6, <1>7 DEF AtTurn, JType
<1>9. /\ f.R # Eot => AtTurn(up, k, k.turn + 1)
      /\ f.R = Eot /\ f.mt /\ f.hd = 0 => AtTurn(h, k, k.turn + 1)
      /\ f.R = Eot /\ ~(f.mt /\ f.hd = 0) => Turn(k, k.turn + 1) = <<>>
  BY <1>1, <1>7, <1>8, NextIsInTurn
<1> HIDE DEF h, m, up
<1>10. /\ Counted(k) <=> Counted(j)
       /\ Counted(k) => IF f.tc THEN k.bytes = k.want
                        ELSE k.bytes = Whole(k.turn) /\ Counting(d, k)
  BY <1>7 DEF Counted, Counting
<1>11. ASSUME NEW n, More(n), FType(n), Signals(n) \subseteq Signals(fdc), n.us = f.us,
              n.cmd = f.cmd, n.tc = f.tc, ~f.tc, AtTurn(n, k, k.turn + 1)
       PROVE  Done
  <2> DEFINE o == [n EXCEPT !.event = "BUFRECV", !.rest = SectorLen]
  <2>1. /\ FType(o) /\ o.event = "BUFRECV" /\ o.rest = SectorLen /\ o.us = n.us /\ o.cmd = n.cmd
        /\ o.tc = n.tc /\ o.hd = n.hd /\ o.R = n.R /\ o.mt = n.mt /\ o.stat = n.stat
    BY <1>11, FdcAssumption DEF FType
  <2>2. Transfer(o, d, k)
    BY <1>11
  <2> HIDE DEF o
  <2>3. Begun(o, d, k)
    BY <1>7, <1>11, <2>1 DEF Begun, Signals
  <2>4. AtTurn(o, k, k.turn + 1)
    BY <1>11, <2>1 DEF AtTurn
  <2> QED BY <1>10, <1>11, <2>1, <2>2, <2>3, <2>4, FillDone
<1> HIDE DEF More
<1>12. Signals(g) \subseteq Signals(fdc) /\ Signals(h) \subseteq Signals(fdc)
  BY <1>1, <1>3 DEF Begun, Signals
<1>13. CASE Result(g, d, j, "error")
  BY <1>1, <1>13, ResultDone DEF Begun
<1>14. CASE ~f.tc /\ f.R # Eot /\ More(up)
  <2>1. Signals(up) \subseteq Signals(fdc)
    BY <1>5, <1>12, <1>14 DEF Signals
  <2> QED BY <1>1, <1>5, <1>9, <1>11, <1>14, <2>1
<1>15. CASE ~f.tc /\ f.R = Eot /\ f.mt /\ h.hd = 1 /\ More(m)
  <2>1. AtTurn(h, k, k.turn + 1)
    BY <1>1, <1>3, <1>9, <1>15
  <2>2. AtTurn(m, k, k.turn + 1)
    BY <1>4, <2>1 DEF AtTurn
  <2>3. Signals(m) \subseteq Signals(fdc)
    BY <1>4, <1>12
  <2>4. m.us = f.us /\ m.cmd = f.cmd /\ m.tc = f.tc
    BY <1>1, <1>3, <1>4
  <2> QED BY <1>4, <1>11, <1>15, <2>2, <2>3, <2>4
<1>16. CASE f.tc /\ Result(h, d, k, "ok")
  <2>1. Counted(k) => AllMoved(k)
    BY <1>10, <1>16 DEF AllMoved
  <2> QED BY <1>3, <1>7, <1>16, <2>1, ResultDone DEF Begun
<1>17. CASE ~f.tc /\ f.R = Eot /\ ~(f.mt /\ h.hd = 1) /\ Result(h, d, k, "ok")
  <2>1. Turn(k, k.turn + 1) = <<>>
    BY <1>1, <1>3, <1>9, <1>17
  <2>2. Counted(k) => AllMoved(k)
    BY <1>10, <1>17, <2>1 DEF AllMoved
  <2> QED BY <1>3, <1>7, <1>17, <2>2, ResultDone DEF Begun
<1> QED BY <1>2, <1>13, <1>14, <1>15, <1>16, <1>17

LEMMA FormatNextDone ==
    ASSUME NEW f, NEW d, NEW j, NEW more, Begun(f, d, j), f.cmd = "FORMAT", FormatNext(f, d, j, more)
    PROVE  Done
<1>1. ~Counted(j)
  BY DEF Begun, Counted, Moving
<1>2. CASE \E end \in {"ok", "error"} : Result(f, d, j, end)
  BY <1>1, <1>2, ResultDone DEF Begun
<1>3. CASE Receives(f, d, j, 1)
  <2> DEFINE h == Phase(f, "BUFRECV", 1, {"RQM", "CB"})
  <2>1. /\ FType(h) /\ h.event = "BUFRECV" /\ h.rest = 1 /\ h.us = f.us /\ h.cmd = f.cmd
        /\ h.stat = f.stat /\ h.diag = f.diag
    BY DEF Begun, FType, Phase
  <2>2. Transfer(h, d, j)
    BY <1>3 DEF Receives
  <2> HIDE DEF h
  <2>3. Begun(h, d, j)
    BY <2>1 DEF Begun, Signals
  <2>4. Underway(h, d, j)
    BY <1>1, <2>1, <2>3 DEF Underway, Begun, Outward, Moving
  <2> QED BY <2>1, <2>2, <2>3, <2>4, TransferDone DEF Begun, Transfers
<1> QED BY <1>2, <1>3 DEF FormatNext

-----------------------------------------------------------------------------
(* The commands.                                                           *)
LEMMA RestDone ==
    ASSUME NEW f, NEW d, FType(f), DType(d), Channel(d), f.event \notin Transfers,
           f.event = "CMDRECV" /\ f.cmd \in Data /\ ~d.masked /\ ~d.ready
              => d.out = (f.cmd \in Outward),
           f.event = "BUFSEND" => f.cmd \notin Data,
           Signals(f) \subseteq Signals(fdc),
           Quiet(f, d, NoJob)
    PROVE  Done
<1>1. InTransfer(f, d, NoJob) /\ Aimed(f, d, NoJob)
  BY DEF InTransfer, Aimed
<1>2. CausesOf(f) \subseteq CausesOf(fdc)
  BY DEF CausesOf
<1> QED BY <1>1, <1>2, NoJobFacts, QuietDone

LEMMA NeutralFacts ==
    ASSUME NEW f, FType(f)
    PROVE  /\ FType(Neutral(f)) /\ Neutral(f).event = "NEUTRAL" /\ Neutral(f).us = f.us
           /\ Neutral(f).hd = f.hd /\ Neutral(f).stat = f.stat /\ Neutral(f).int = f.int
<1>1. 1 \in 1..Eot /\ "INVALID" \in Commands
  BY FdcAssumption DEF Commands
<1> QED BY <1>1 DEF FType, Neutral

LEMMA SenseIntDone ==
    ASSUME NEW f, NEW d, FType(f), DType(d), Channel(d), f.cmd = "SENSEINT",
           Signals(f) \subseteq Signals(fdc), SenseInt(f, d)
    PROVE  Done
<1> DEFINE told == {i \in Drives : f.stat[i] # "zero"}
           i == IF f.us \in told THEN f.us ELSE CHOOSE m \in told : \A n \in told : m <= n
           g == Phase(f, "BUFSEND", 1, Answer)
           h == IF told = {} THEN g ELSE [g EXCEPT !.stat[i] = "zero"]
<1>1. Quiet(h, d, NoJob)
  BY DEF SenseInt
<1>2. Answer \in SUBSET {"RQM", "DIO", "CB"}
  BY DEF Answer
<1>3. FType(g) /\ g.event = "BUFSEND" /\ g.cmd = f.cmd /\ g.stat = f.stat
  BY <1>2 DEF FType, Phase
<1> HIDE DEF g
<1>4. told \subseteq 0..3 /\ told \subseteq Drives
  BY FdcAssumption
<1>5. told # {} => i \in Drives
  <2>1. ASSUME told # {} PROVE \E m \in told : \A n \in told : m <= n
    <3> HIDE DEF told
    <3>1. \A n \in told : n \in Nat /\ (n = 0 \/ n = 1 \/ n = 2 \/ n = 3)
      BY <1>4
    <3>2. CASE 0 \in told
      <4>1. \A n \in told : 0 <= n
        BY <3>1
      <4> QED BY <3>2, <4>1
    <3>3. CASE 0 \notin told /\ 1 \in told
      <4>1. \A n \in told : 1 <= n
        BY <3>1, <3>3
      <4> QED BY <3>3, <4>1
    <3>4. CASE 0 \notin told /\ 1 \notin told /\ 2 \in told
      <4>1. \A n \in told : 2 <= n
        BY <3>1, <3>4
      <4> QED BY <3>4, <4>1
    <3>5. CASE 0 \notin told /\ 1 \notin told /\ 2 \notin told
      <4>1. \A n \in told : n = 3
        BY <3>1, <3>5
      <4>2. 3 \in told /\ \A n \in told : 3 <= n
        BY <2>1, <4>1
      <4> QED BY <4>2
    <3> QED BY <3>2, <3>3, <3>4, <3>5
  <2> HIDE DEF told
  <2> QED BY <1>4, <2>1
<1> HIDE DEF i, told
<1>6. /\ FType(h) /\ h.event = "BUFSEND" /\ h.cmd = f.cmd /\ Signals(h) \subseteq Signals(f)
  <2>1. CASE told = {}
    BY <1>3, <2>1 DEF Signals
  <2>2. CASE told # {}
    <3>1. h = [g EXCEPT !.stat[i] = "zero"] /\ i \in Drives /\ g.stat \in [Drives -> Stats]
      BY <1>3, <1>5, <2>2 DEF FType
    <3> HIDE DEF h
    <3>2. [g.stat EXCEPT ![i] = "zero"] \in [Drives -> Stats]
      BY <3>1 DEF Stats
    <3>3. FType(h) /\ h.event = "BUFSEND" /\ h.cmd = f.cmd /\ h.stat = [g.stat EXCEPT ![i] = "zero"]
      BY <1>3, <3>1, <3>2 DEF FType
    <3> QED BY <1>3, <3>1, <3>3 DEF Signals
  <2> QED BY <2>1, <2>2
<1> HIDE DEF h
<1>7. "SENSEINT" \notin Data
  BY DEF Data, Moving
<1> QED BY <1>1, <1>6, <1>7, RestDone DEF Transfers

LEMMA CommandDone ==
    ASSUME NEW f, NEW d, NEW c \in Commands, FType(f), DType(d), Channel(d),
           Signals(f) \subseteq Signals(fdc),
           c \in Data /\ ~d.masked /\ ~d.ready => d.out = (c \in Outward),
           Command(f, d, c)
    PROVE  Done
<1> DEFINE g == [f EXCEPT !.cmd = c, !.status = @ \cup {"CB"}]
           h == [g EXCEPT !.event = "CMDRECV", !.rest = 1, !.status = @ \cup {"RQM"}]
           r == Phase(g, "BUFSEND", 1, Answer)
<1>1. FType(g) /\ g.cmd = c /\ g.stat = f.stat
  BY DEF FType
<1>2. IF c \in WithParameters THEN Quiet(h, d, NoJob)
      ELSE IF c = "SENSEINT" THEN SenseInt(g, d) ELSE Quiet(r, d, NoJob)
  BY DEF Command
<1> HIDE DEF g
<1>3. Signals(g) \subseteq Signals(fdc)
  BY <1>1 DEF Signals
<1>4. CASE c \in WithParameters
  <2>1. FType(h) /\ h.event = "CMDRECV" /\ h.cmd = c /\ h.stat = f.stat
    BY <1>1 DEF FType
  <2>2. Quiet(h, d, NoJob)
    BY <1>2, <1>4
  <2> HIDE DEF h
  <2> QED BY <2>1, <2>2, RestDone DEF Transfers, Signals
<1>5. CASE c = "SENSEINT"
  <2>1. c \notin WithParameters
    BY <1>5 DEF WithParameters, Data, Moving
  <2> QED BY <1>1, <1>2, <1>3, <1>5, <2>1, SenseIntDone
<1>6. CASE c \notin WithParameters /\ c # "SENSEINT"
  <2>1. FType(r) /\ r.event = "BUFSEND" /\ r.cmd = c /\ r.stat = f.stat
    BY <1>1 DEF FType, Phase, Answer
  <2>2. Quiet(r, d, NoJob) /\ c \notin Data
    BY <1>2, <1>6 DEF WithParameters
  <2> HIDE DEF r
  <2> QED BY <2>1, <2>2, RestDone DEF Transfers, Signals
<1> QED BY <1>4, <1>5, <1>6

LEMMA NamedFacts ==
    ASSUME NEW f, FType(f), NEW p \in Asked
    PROVE  /\ LET g == Named(f, p)
              IN  /\ FType(g) /\ g.us = p.us /\ g.cmd = f.cmd /\ g.tc = f.tc /\ g.stat = f.stat
                  /\ g.event = f.event /\ g.diag = f.diag /\ g.int = f.int
           /\ LET g == NamedSector(f, p)
              IN  /\ FType(g) /\ g.us = p.us /\ g.hd = p.hd /\ g.R = p.R /\ g.mt = p.mt
                  /\ g.cmd = f.cmd /\ g.tc = f.tc /\ g.stat = f.stat /\ g.event = f.event
                  /\ g.diag = f.diag
<1>1. p.us \in Drives /\ p.hd \in Heads /\ p.R \in 1..Eot /\ p.mt \in BOOLEAN
  BY GuestAssumption
<1> QED BY <1>1 DEF FType, Named, NamedSector

LEMMA NewJobFacts ==
    ASSUME NEW f, NEW d, FType(f), DType(d), NEW p \in Asked, f.cmd \in Data
    PROVE  LET j == NewJob(f, d, p)
           IN  /\ JType(j) /\ InTurn(j) /\ j.op = f.cmd /\ j.us = p.us /\ j.mt = p.mt
               /\ j.hd = p.hd /\ j.R = p.R /\ j.end = "none" /\ ~j.diverted /\ j.turn = 0
               /\ j.clean => ~f.tc /\ ~d.ready
               /\ j.bytes = 0 /\ j.bytes = Whole(0) /\ j.want = 0
               /\ j.clean => Counting(d, j)
<1> DEFINE j == NewJob(f, d, p)
<1>1. p.us \in Drives /\ p.hd \in Heads /\ p.R \in 1..Eot /\ p.mt \in BOOLEAN
  BY GuestAssumption
<1>2. f.tc \in BOOLEAN /\ d.ready \in BOOLEAN
  BY DEF FType, DType
<1>3. (~f.tc /\ ~d.ready) \in BOOLEAN
  OBVIOUS
<1>4. JType(NoJob)
  BY NoJobFacts
<1>5. /\ JType(j) /\ j.op = f.cmd /\ j.us = p.us /\ j.hd = p.hd /\ j.R = p.R /\ j.mt = p.mt
      /\ j.clean = (~f.tc /\ ~d.ready)
  BY <1>1, <1>3, <1>4 DEF JType, NewJob
<1>6. j.end = "none" /\ j.diverted = FALSE /\ j.turn = 0 /\ j.bytes = 0 /\ j.want = 0
  BY DEF NewJob, NoJob
<1> HIDE DEF j
<1>7. Whole(0) = 0
  BY FdcAssumption DEF Whole
<1>8. InTurn(j)
  BY <1>6 DEF InTurn
<1>9. j.clean => ~f.tc /\ ~d.ready
  BY <1>2, <1>5
<1>10. j.clean => Counting(d, j)
  BY <1>6, <1>9 DEF Counting
<1> QED BY <1>5, <1>6, <1>7, <1>8, <1>9, <1>10 DEF j

(* A command of a transfer, with its parameters.                           *)
LEMMA BegunFacts ==
    ASSUME NEW f, NEW d, NEW p \in Asked, NEW g, FType(f), DType(d), Channel(d),
           f.cmd \in Data, ~d.masked /\ ~d.ready => d.out = (f.cmd \in Outward),
           Signals(f) \subseteq Signals(fdc),
           FType(g), g.us = p.us, g.cmd = f.cmd, g.tc = f.tc, Signals(g) \subseteq Signals(f)
    PROVE  LET j == NewJob(f, d, p)
           IN  /\ Begun(g, d, j) /\ j.turn = 0 /\ InTurn(j)
               /\ g.hd = p.hd /\ g.R = p.R /\ g.mt = p.mt => AtTurn(g, j, j.turn + 1)
               /\ Counted(j) => j.bytes = Whole(j.turn) /\ ~g.tc /\ Counting(d, j)
               /\ \A end : f.cmd \notin Moving \/ end # "ok" => (end = "ok" /\ Counted(j) => AllMoved(j))
<1> DEFINE j == NewJob(f, d, p)
<1>1. /\ JType(j) /\ InTurn(j) /\ j.op = f.cmd /\ j.us = p.us /\ j.mt = p.mt
      /\ j.hd = p.hd /\ j.R = p.R /\ j.end = "none" /\ ~j.diverted /\ j.turn = 0
      /\ j.clean => ~f.tc /\ ~d.ready
      /\ j.bytes = 0 /\ j.bytes = Whole(0) /\ j.want = 0
      /\ j.clean => Counting(d, j)
  BY NewJobFacts
<1> HIDE DEF j
<1>2. Begun(g, d, j)
  BY <1>1 DEF Begun
<1>3. g.hd = p.hd /\ g.R = p.R /\ g.mt = p.mt => AtTurn(g, j, j.turn + 1)
  <2>1. Turn(j, 1) = <<j.us, j.hd, j.R>> /\ j.turn + 1 = 1
    BY <1>1, TurnFirst
  <2> QED BY <1>1, <2>1 DEF AtTurn
<1>4. Counted(j) => j.bytes = Whole(j.turn) /\ ~g.tc /\ Counting(d, j)
  BY <1>1 DEF Counted
<1>5. f.cmd \notin Moving => ~Counted(j)
  BY <1>1 DEF Counted
<1> QED BY <1>1, <1>2, <1>3, <1>4, <1>5 DEF j

LEMMA ExecuteDone ==
    ASSUME NEW f, NEW d, NEW p \in Asked, p.op = f.cmd, FType(f), DType(d), Channel(d),
           f.event = "CMDRECV",
           f.cmd \in Data /\ ~d.masked /\ ~d.ready => d.out = (f.cmd \in Outward),
           Signals(f) \subseteq Signals(fdc), Execute(f, d, p)
    PROVE  Done
<1> DEFINE j == NewJob(f, d, p)
           s == NamedSector(f, p)
           n == Named(f, p)
<1>1. f.cmd \in WithParameters
  BY GuestAssumption
<1>2. /\ FType(n) /\ n.us = p.us /\ n.cmd = f.cmd /\ n.tc = f.tc /\ n.stat = f.stat
      /\ n.event = f.event /\ n.diag = f.diag
      /\ FType(s) /\ s.us = p.us /\ s.hd = p.hd /\ s.R = p.R /\ s.mt = p.mt
      /\ s.cmd = f.cmd /\ s.tc = f.tc /\ s.stat = f.stat /\ s.event = f.event /\ s.diag = f.diag
  BY NamedFacts
<1>3. Signals(n) = Signals(f) /\ Signals(s) = Signals(f)
  BY <1>2 DEF Signals
<1> HIDE DEF s, n
<1>4. ASSUME NEW g, FType(g), g.us = p.us, g.cmd = f.cmd, g.tc = f.tc,
             Signals(g) \subseteq Signals(f), f.cmd \in Data
      PROVE  /\ Begun(g, d, j) /\ j.turn = 0 /\ InTurn(j) /\ JType(j)
             /\ g.hd = p.hd /\ g.R = p.R /\ g.mt = p.mt => AtTurn(g, j, j.turn + 1)
             /\ Counted(j) => j.bytes = Whole(j.turn) /\ ~g.tc /\ Counting(d, j)
             /\ \A end : f.cmd \notin Moving \/ end # "ok" => (end = "ok" /\ Counted(j) => AllMoved(j))
  BY <1>4, BegunFacts, NewJobFacts
<1> HIDE DEF j
<1>5. ASSUME NEW g, FType(g), g.us = p.us, g.cmd = f.cmd, g.tc = f.tc,
             Signals(g) \subseteq Signals(f), f.cmd \in Data, NEW end \in {"ok", "error"},
             f.cmd \notin Moving \/ end # "ok", Result(g, d, j, end)
      PROVE  Done
  BY <1>4, <1>5, ResultDone
<1>6. CASE f.cmd = "READ"
  <2>1. ReadSector(s, d, j)
    BY <1>6 DEF Execute, ReadData, j, s
  <2>2. f.cmd \in Data
    BY <1>6 DEF Data, Moving
  <2> QED BY <1>2, <1>3, <1>4, <1>6, <2>1, <2>2, ReadSectorDone
<1>7. CASE f.cmd = "DIAG"
  <2> DEFINE e == [s EXCEPT !.diag = FALSE]
             g == Addressed(e)
             h == Phase([g EXCEPT !.diag = TRUE], "BUFSEND2", SectorLen, Answer)
  <2>1. \/ Result(g, d, j, "error")
        \/ Transfer(h, d, j)
        \/ ReadSector(g, d, j)
    BY <1>7 DEF Execute, ReadDiagnostic, Sends, j, s
  <2>2. /\ FType(e) /\ e.us = s.us /\ e.hd = s.hd /\ e.R = s.R /\ e.mt = s.mt /\ e.cmd = s.cmd
        /\ e.tc = s.tc /\ e.stat = s.stat /\ e.diag = FALSE
    BY <1>2 DEF FType
  <2> HIDE DEF e
  <2>3. /\ FType(g) /\ Signals(g) \subseteq Signals(e) /\ g.us = e.us /\ g.hd = e.hd /\ g.R = e.R
        /\ g.mt = e.mt /\ g.cmd = e.cmd /\ g.tc = e.tc /\ g.diag = e.diag
    BY <2>2, AddressedFacts
  <2>4. f.cmd \in Data /\ f.cmd \notin Moving
    BY <1>7 DEF Data, Moving
  <2>5. Signals(g) \subseteq Signals(f)
    BY <1>3, <2>2, <2>3 DEF Signals
  <2> HIDE DEF g
  <2>6. CASE Result(g, d, j, "error")
    BY <1>2, <1>5, <2>2, <2>3, <2>4, <2>5, <2>6
  <2>7. CASE ReadSector(g, d, j)
    BY <1>2, <1>4, <1>7, <2>2, <2>3, <2>4, <2>5, <2>7, ReadSectorDone
  <2>8. CASE Transfer(h, d, j)
    <3>1. /\ FType(h) /\ h.event = "BUFSEND2" /\ h.rest = SectorLen /\ h.us = g.us /\ h.cmd = g.cmd
          /\ h.tc = g.tc /\ h.stat = g.stat /\ h.diag = TRUE
      BY <2>3, FdcAssumption DEF FType, Phase, Answer
    <3> HIDE DEF h
    <3>2. Signals(h) \subseteq Signals(f)
      BY <2>5, <3>1 DEF Signals
    <3>3. Begun(h, d, j)
      BY <1>2, <1>4, <2>2, <2>3, <2>4, <3>1, <3>2
    <3>4. j.op = "DIAG" /\ ~Counted(j)
      BY <1>7, <2>4, <3>1, <3>3, <1>2, <2>2, <2>3 DEF Begun, Counted
    <3>5. SectorLen >= 1
      BY FdcAssumption
    <3>6. h.cmd = "DIAG"
      BY <3>3, <3>4 DEF Begun
    <3>7. Underway(h, d, j)
      BY <3>1, <3>3, <3>4, <3>5, <3>6 DEF Underway, Begun, Moving
    <3> QED BY <2>8, <3>1, <3>3, <3>7, TransferDone DEF Begun, Transfers
  <2> QED BY <2>1, <2>6, <2>7, <2>8
<1>8. CASE f.cmd = "WRITE"
  <2> DEFINE g == Addressed(s)
             h == Phase(g, "BUFRECV", SectorLen, {"RQM", "CB"})
  <2>1. \/ Result(g, d, j, "error")
        \/ Transfer(h, d, j)
    BY <1>8 DEF Execute, WriteData, Receives, j, s
  <2>2. /\ FType(g) /\ Signals(g) \subseteq Signals(s) /\ g.us = s.us /\ g.hd = s.hd /\ g.R = s.R
        /\ g.mt = s.mt /\ g.cmd = s.cmd /\ g.tc = s.tc
    BY <1>2, AddressedFacts
  <2>3. f.cmd \in Data
    BY <1>8 DEF Data, Moving
  <2> HIDE DEF g
  <2>4. CASE Result(g, d, j, "error")
    BY <1>2, <1>3, <1>5, <2>2, <2>3, <2>4
  <2>5. CASE Transfer(h, d, j)
    <3>1. /\ FType(h) /\ h.event = "BUFRECV" /\ h.rest = SectorLen /\ h.us = g.us /\ h.hd = g.hd
          /\ h.R = g.R /\ h.mt = g.mt /\ h.cmd = g.cmd /\ h.tc = g.tc /\ h.stat = g.stat
      BY <2>2, FdcAssumption DEF FType, Phase
    <3> HIDE DEF h
    <3>2. Signals(h) \subseteq Signals(f)
      BY <1>3, <2>2, <3>1 DEF Signals
    <3> QED BY <1>2, <1>4, <1>8, <2>2, <2>3, <2>5, <3>1, <3>2, FillDone
  <2> QED BY <2>1, <2>4, <2>5
<1>9. CASE f.cmd = "READID"
  <2>1. \E end \in {"ok", "error"} : Result(n, d, j, end)
    BY <1>9 DEF Execute, ReadID, j, n
  <2>2. f.cmd \in Data /\ f.cmd \notin Moving
    BY <1>9 DEF Data, Moving
  <2> QED BY <1>2, <1>3, <1>5, <2>1, <2>2
<1>10. CASE f.cmd = "FORMAT"
  <2>1. FormatNext(n, d, j, p.us \in ready)
    BY <1>10 DEF Execute, WriteID, j, n
  <2>2. f.cmd \in Data
    BY <1>10 DEF Data
  <2> QED BY <1>2, <1>3, <1>4, <1>10, <2>1, <2>2, FormatNextDone
<1>11. CASE f.cmd = "SPECIFY"
  <2> DEFINE g == Addressed(Neutral(f))
  <2>1. Quiet(g, d, NoJob)
    BY <1>11 DEF Execute, Specify
  <2>2. FType(g) /\ Signals(g) \subseteq Signals(f) /\ g.event = "NEUTRAL"
    BY NeutralFacts, AddressedFacts DEF Signals
  <2> HIDE DEF g
  <2> QED BY <2>1, <2>2, RestDone DEF Transfers
<1>12. CASE f.cmd = "SENSEDEV"
  <2> DEFINE g == Addressed(n)
             h == Phase(g, "BUFSEND", 1, Answer)
  <2>1. Quiet(h, d, NoJob)
    BY <1>12 DEF Execute, SenseDeviceStatus, n
  <2>2. FType(g) /\ Signals(g) \subseteq Signals(n) /\ g.cmd = n.cmd
    BY <1>2, AddressedFacts
  <2> HIDE DEF g
  <2>3. FType(h) /\ h.event = "BUFSEND" /\ h.cmd = g.cmd /\ h.stat = g.stat
    BY <2>2 DEF FType, Phase, Answer
  <2> HIDE DEF h
  <2>4. h.cmd \notin Data
    BY <1>2, <1>12, <2>2, <2>3 DEF Data, Moving
  <2>5. Signals(h) \subseteq Signals(f)
    BY <1>3, <2>2, <2>3 DEF Signals
  <2> QED BY <2>1, <2>3, <2>4, <2>5, RestDone DEF Transfers
<1>13. CASE f.cmd = "SEEK"
  <2> DEFINE e == Neutral(f)
             g == Named(e, p)
             h == [g EXCEPT !.int[p.us] = Later("se")]
  <2>1. Quiet(h, d, NoJob)
    BY <1>13 DEF Execute, Seek
  <2>2. FType(e) /\ e.event = "NEUTRAL" /\ e.stat = f.stat
    BY NeutralFacts
  <2> HIDE DEF e
  <2>3. FType(g) /\ g.event = "NEUTRAL" /\ g.stat = f.stat
    BY <2>2, NamedFacts
  <2> HIDE DEF g
  <2>4. Later("se") \in [timer : 0..FDC_INT_DELAY, stat : Stats]
    BY FdcAssumption DEF Later, Stats
  <2>5. g.int \in [Drives -> [timer : 0..FDC_INT_DELAY, stat : Stats]]
    BY <2>3 DEF FType
  <2>6. [g.int EXCEPT ![p.us] = Later("se")] \in [Drives -> [timer : 0..FDC_INT_DELAY, stat : Stats]]
    BY <2>4, <2>5
  <2>7. FType(h) /\ h.event = "NEUTRAL" /\ h.stat = f.stat
    BY <2>3, <2>6 DEF FType
  <2> HIDE DEF h
  <2> QED BY <2>1, <2>7, RestDone DEF Transfers, Signals
<1>14. CASE f.cmd = "SCAN"
  <2>1. Quiet(s, d, NoJob)
    BY <1>14 DEF Execute, ScanEqual, s
  <2>2. s.cmd \notin Data
    BY <1>2, <1>14 DEF Data, Moving
  <2> QED BY <1>2, <1>3, <2>1, <2>2, RestDone DEF Transfers
<1> QED BY <1>1, <1>6, <1>7, <1>8, <1>9, <1>10, <1>11, <1>12, <1>13, <1>14
       DEF WithParameters, Data, Moving

-----------------------------------------------------------------------------
(* A byte is given or taken: by the guest, or by the channel that has just *)
(* counted it.                                                             *)
Reached(f, d) ==
    /\ FType(f) /\ DType(d) /\ Channel(d)
    /\ f.event = fdc.event /\ f.cmd = fdc.cmd /\ f.rest = fdc.rest /\ f.us = fdc.us
    /\ f.hd = fdc.hd /\ f.R = fdc.R /\ f.mt = fdc.mt /\ f.diag = fdc.diag /\ f.stat = fdc.stat
    /\ d.masked = dma.masked /\ d.out = dma.out /\ d.ready = dma.ready
    /\ fdc.event \in Transfers /\ Counted(job) =>
          IF f.tc THEN job.bytes + 1 = job.want
          ELSE d.masked \/ (d.chan = "on" /\ job.want = job.bytes + 1 + d.leng + 1)

LEMMA MovedFacts ==
    ASSUME JType(job)
    PROVE  LET j == Moved
           IN  /\ JType(j) /\ j.op = job.op /\ j.clean = job.clean /\ j.turn = job.turn
               /\ j.end = job.end /\ j.diverted = job.diverted /\ j.last = job.last
               /\ j.want = job.want /\ j.us = job.us /\ j.mt = job.mt
               /\ Counted(job) => j.bytes = job.bytes + 1
               /\ \A n : Turn(j, n) = Turn(job, n)
<1> DEFINE j == Moved
<1>1. job.bytes \in Nat /\ job.bytes + 1 \in Nat
  BY DEF JType
<1>2. /\ JType(j) /\ j.op = job.op /\ j.clean = job.clean /\ j.turn = job.turn
      /\ j.end = job.end /\ j.diverted = job.diverted /\ j.last = job.last /\ j.R = job.R
      /\ j.want = job.want /\ j.us = job.us /\ j.mt = job.mt /\ j.hd = job.hd
      /\ j.bytes = IF job.op \in Moving THEN job.bytes + 1 ELSE job.bytes
  BY <1>1 DEF JType, Moved
<1> HIDE DEF j
<1>3. \A n : Turn(j, n) = Turn(job, n)
  BY <1>2 DEF Turn
<1> QED BY <1>2, <1>3 DEF Counted, j

(* Of a command under way, one byte more.                                  *)
LEMMA ByteFacts ==
    ASSUME IInv, NEW f, NEW d, Reached(f, d), fdc.event \in Transfers,
           NEW g, FType(g), g.event = f.event, g.cmd = f.cmd, g.rest = f.rest - 1, g.us = f.us,
           g.hd = f.hd, g.R = f.R, g.mt = f.mt, g.diag = f.diag, g.stat = f.stat, g.tc = f.tc
    PROVE  LET j == Moved
           IN  /\ Begun(g, d, j) /\ JType(j) /\ InTurn(j) /\ WholeMoved(j)
               /\ g.cmd \in Moving \/ (g.cmd = "DIAG" /\ ~g.diag) => AtTurn(g, j, TurnNow(g, j))
               /\ Counted(j) /\ g.tc => j.bytes = j.want
               /\ Counted(j) /\ ~g.tc => Counting(d, j) /\ j.bytes + g.rest = Whole(TurnNow(g, j))
               /\ g.event = "BUFSEND2" => g.cmd \in {"READ", "DIAG"}
               /\ g.event = "BUFRECV" => g.cmd \in Outward
               /\ g.event = "BUFSEND2" /\ (g.cmd = "READ" \/ ~g.diag) => j.turn > 0
               /\ g.rest >= 1 /\ ~g.tc => Fine(g, d, j)
               /\ Signals(g) = Signals(fdc) /\ CausesOf(g) = CausesOf(fdc)
<1> DEFINE j == Moved
<1>1. JType(job) /\ d.ready /\ Underway(fdc, dma, job) /\ InTurn(job) /\ Aimed(fdc, dma, job)
  BY DEF IInv, Fine, InTransfer, Reached
<1>2. /\ JType(j) /\ j.op = job.op /\ j.clean = job.clean /\ j.turn = job.turn
      /\ j.end = job.end /\ j.diverted = job.diverted /\ j.last = job.last
      /\ j.want = job.want /\ j.us = job.us /\ j.mt = job.mt
      /\ Counted(job) => j.bytes = job.bytes + 1
      /\ \A n : Turn(j, n) = Turn(job, n)
  BY <1>1, MovedFacts
<1> HIDE DEF j
<1>3. InTurn(j) /\ WholeMoved(j)
  BY <1>1, <1>2 DEF InTurn, WholeMoved, Underway
<1>4. Signals(g) = Signals(fdc) /\ CausesOf(g) = CausesOf(fdc)
  BY DEF Signals, CausesOf, Reached
<1>5. j.clean /\ ~d.masked => d.out = (g.cmd \in Outward)
  BY <1>1, <1>2 DEF Aimed, Reached, Underway
<1>6. Begun(g, d, j)
  BY <1>1, <1>2, <1>3, <1>4, <1>5 DEF Begun, Reached, Underway
<1>7. TurnNow(g, j) = TurnNow(fdc, job)
  BY <1>2 DEF TurnNow, Reached
<1>8. g.cmd \in Moving \/ (g.cmd = "DIAG" /\ ~g.diag) => AtTurn(g, j, TurnNow(g, j))
  BY <1>1, <1>2, <1>7 DEF AtTurn, Reached, Underway
<1>9. Counted(j) <=> Counted(job)
  BY <1>2 DEF Counted
<1>10. Counted(j) /\ g.tc => j.bytes = j.want
  BY <1>2, <1>9 DEF Reached
<1>11. ASSUME Counted(j), ~g.tc
       PROVE  Counting(d, j) /\ j.bytes + g.rest = Whole(TurnNow(g, j))
  <2>1. d.masked \/ (d.chan = "on" /\ job.want = job.bytes + 1 + d.leng + 1)
    BY <1>9, <1>11 DEF Reached
  <2>2. job.bytes + fdc.rest = Whole(TurnNow(fdc, job))
    BY <1>1, <1>9, <1>11 DEF Underway
  <2>3. job.bytes \in Nat /\ fdc.rest \in Nat /\ g.rest = fdc.rest - 1
    BY <1>1 DEF JType, Reached, FType
  <2>4. j.bytes = job.bytes + 1
    BY <1>2, <1>9, <1>11
  <2>5. j.bytes + g.rest = job.bytes + fdc.rest
    BY <2>3, <2>4
  <2> QED BY <1>2, <1>7, <2>1, <2>2, <2>4, <2>5 DEF Counting
<1>12. /\ g.event = "BUFSEND2" => g.cmd \in {"READ", "DIAG"}
       /\ g.event = "BUFRECV" => g.cmd \in Outward
       /\ g.event = "BUFSEND2" /\ (g.cmd = "READ" \/ ~g.diag) => j.turn > 0
  BY <1>1, <1>2 DEF Reached, Underway
<1>13. ASSUME g.rest >= 1, ~g.tc PROVE Fine(g, d, j)
  <2>1. Underway(g, d, j)
    <3>1. Counted(j) => j.bytes + g.rest = Whole(TurnNow(g, j)) /\ ~g.tc /\ Counting(d, j)
      BY <1>11, <1>13
    <3>2. ~j.diverted => g.us = j.us
      BY <1>6 DEF Begun
    <3> QED BY <1>6, <1>8, <1>12, <1>13, <3>1, <3>2 DEF Underway, Begun
  <2>2. InTransfer(g, d, j)
    BY <1>1, <2>1 DEF InTransfer
  <2>3. g.event \in Transfers
    BY DEF Reached
  <2>4. Aimed(g, d, j)
    BY <1>5, <2>3 DEF Aimed, Transfers
  <2> QED BY <1>2, <1>3, <2>2, <2>4 DEF Fine, Reached
<1> QED BY <1>2, <1>3, <1>4, <1>6, <1>8, <1>10, <1>11, <1>12, <1>13 DEF j

(* What nothing is done with changes nothing.                              *)
LEMMA IgnoredDone ==
    ASSUME IInv, NEW f, NEW d, Reached(f, d), fdc.event \in Transfers => ~job.clean,
           Quiet(f, d, job)
    PROVE  Done
<1>1. JType(job) /\ InTurn(job) /\ WholeMoved(job)
  BY DEF IInv, Fine
<1>2. InTransfer(f, d, job)
  <2>1. ASSUME f.event \in Transfers PROVE d.ready /\ Underway(f, d, job)
    <3>1. dma.ready /\ Underway(fdc, dma, job) /\ ~Counted(job)
      BY <2>1 DEF IInv, Fine, InTransfer, Reached, Counted
    <3> QED BY <3>1 DEF Underway, Reached, AtTurn, TurnNow
  <2> QED BY <2>1 DEF InTransfer
<1>3. Aimed(f, d, job)
  BY DEF IInv, Fine, Aimed, Reached
<1>4. CausesOf(f) \subseteq CausesOf(fdc)
  BY DEF CausesOf, Signals, Reached
<1> QED BY <1>1, <1>2, <1>3, <1>4, QuietDone DEF Reached

LEMMA DataWriteDone ==
    ASSUME IInv, NEW f, NEW d, Reached(f, d),
           f.event \notin {"BUFRECV", "CMDRECV"} => d.ready,
           DataWrite(f, d)
    PROVE  Done
<1> DEFINE g == [f EXCEPT !.rest = @ - 1, !.status = @ \ {"RQM"}]
           q == [f EXCEPT !.rest = @ - 1]
           j == Moved
<1>1. /\ f.event = fdc.event /\ f.cmd = fdc.cmd /\ f.rest = fdc.rest /\ f.stat = fdc.stat
      /\ FType(f) /\ DType(d) /\ Channel(d) /\ f.rest \in Nat
      /\ d.masked = dma.masked /\ d.out = dma.out /\ d.ready = dma.ready
  BY DEF Reached, FType
<1>2. ASSUME f.rest >= 1
      PROVE  /\ FType(g) /\ g.event = f.event /\ g.cmd = f.cmd /\ g.rest = f.rest - 1 /\ g.us = f.us
             /\ g.hd = f.hd /\ g.R = f.R /\ g.mt = f.mt /\ g.diag = f.diag /\ g.stat = f.stat
             /\ g.tc = f.tc
             /\ FType(q) /\ q.event = f.event /\ q.cmd = f.cmd /\ q.rest = f.rest - 1 /\ q.us = f.us
             /\ q.hd = f.hd /\ q.R = f.R /\ q.mt = f.mt /\ q.diag = f.diag /\ q.stat = f.stat
             /\ q.tc = f.tc
  <2>1. f.rest - 1 \in Nat
    BY <1>1, <1>2
  <2> QED BY <1>1, <2>1 DEF FType
<1>3. CASE f.event = "BUFRECV"
  <2>1. fdc.event \in Transfers /\ f.rest >= 1 /\ f.cmd \in Outward
    BY <1>1, <1>3 DEF Transfers, IInv, Fine, InTransfer, Underway
  <2>2. IF f.rest > 1 /\ ~f.tc THEN Quiet(q, d, j)
        ELSE IF f.cmd = "WRITE" THEN WriteSector(g, d, j) ELSE FormatNext(g, d, j, ~f.tc)
    BY <1>3 DEF DataWrite
  <2> HIDE DEF g, q, j
  <2>3. CASE f.rest > 1 /\ ~f.tc
    <3>1. q.rest >= 1 /\ ~q.tc
      BY <1>1, <1>2, <2>1, <2>3
    <3>2. Fine(q, d, j) /\ CausesOf(q) = CausesOf(fdc)
      BY <1>2, <2>1, <3>1, ByteFacts DEF j
    <3> QED BY <2>2, <2>3, <3>2, QuietDone DEF Fine
  <2>4. /\ Begun(g, d, j) /\ JType(j)
        /\ g.cmd \in Moving => AtTurn(g, j, TurnNow(g, j))
        /\ Counted(j) /\ g.tc => j.bytes = j.want
        /\ Counted(j) /\ ~g.tc => Counting(d, j) /\ j.bytes + g.rest = Whole(TurnNow(g, j))
    BY <1>2, <2>1, ByteFacts DEF j
  <2>5. TurnNow(g, j) = j.turn + 1
    BY <1>2, <1>3, <2>1 DEF TurnNow
  <2>6. CASE ~(f.rest > 1 /\ ~f.tc) /\ f.cmd = "WRITE"
    <3>1. WriteSector(g, d, j) /\ g.cmd = "WRITE"
      BY <1>2, <2>1, <2>2, <2>6
    <3>2. ASSUME Counted(j) PROVE IF g.tc THEN j.bytes = j.want
                                  ELSE j.bytes = Whole(j.turn + 1) /\ Counting(d, j)
      <4>1. CASE g.tc
        BY <2>4, <3>2, <4>1
      <4>2. CASE ~g.tc
        <5>1. g.rest = 0
          BY <1>1, <1>2, <2>1, <2>6, <4>2
        <5>2. j.bytes \in Nat /\ j.bytes + g.rest = Whole(j.turn + 1) /\ Counting(d, j)
          BY <2>4, <2>5, <3>2, <4>2 DEF JType
        <5>3. j.bytes + g.rest = j.bytes
          BY <5>1, <5>2
        <5> QED BY <4>2, <5>2, <5>3
      <4> QED BY <4>1, <4>2
    <3>3. AtTurn(g, j, j.turn + 1)
      BY <2>4, <2>5, <3>1 DEF Moving
    <3> QED BY <2>4, <3>1, <3>2, <3>3, WriteSectorDone
  <2>7. CASE ~(f.rest > 1 /\ ~f.tc) /\ f.cmd # "WRITE"
    <3>1. FormatNext(g, d, j, ~f.tc) /\ g.cmd = "FORMAT"
      BY <1>2, <2>1, <2>2, <2>7 DEF Outward
    <3> QED BY <2>4, <3>1, FormatNextDone
  <2> QED BY <2>3, <2>6, <2>7
<1>4. CASE f.event = "CMDRECV"
  <2>1. IF f.rest = 1 THEN \E p \in {a \in Asked : a.op = f.cmd} : Execute(g, d, p)
        ELSE Quiet(f, d, job)
    BY <1>4 DEF DataWrite
  <2> HIDE DEF g, q, j
  <2>2. CASE f.rest = 1
    <3>1. PICK p \in Asked : p.op = f.cmd /\ Execute(g, d, p)
      BY <2>1, <2>2
    <3>2. f.cmd \in Data /\ ~d.masked /\ ~d.ready => d.out = (f.cmd \in Outward)
      BY <1>1, <1>4 DEF IInv, Fine, Aimed
    <3>3. /\ FType(g) /\ g.event = "CMDRECV" /\ g.cmd = f.cmd /\ Signals(g) \subseteq Signals(fdc)
      BY <1>1, <1>2, <1>4, <2>2 DEF Signals
    <3> QED BY <1>1, <3>1, <3>2, <3>3, ExecuteDone
  <2>3. CASE f.rest # 1
    BY <1>1, <1>4, <2>1, <2>3, IgnoredDone DEF Transfers
  <2> QED BY <2>2, <2>3
<1>5. CASE f.event \notin {"BUFRECV", "CMDRECV"}
  <2>1. PICK c \in Stray : Command(f, d, c)
    BY <1>5 DEF DataWrite
  <2>2. c \in Commands /\ Signals(f) \subseteq Signals(fdc)
    BY <1>1, GuestAssumption DEF Signals
  <2> QED BY <1>1, <1>5, <2>1, <2>2, CommandDone
<1> QED BY <1>3, <1>4, <1>5

LEMMA DataReadDone ==
    ASSUME IInv, NEW f, NEW d, Reached(f, d), f.event = "BUFRECV" => ~job.clean,
           DataRead(f, d)
    PROVE  Done
<1> DEFINE g == [f EXCEPT !.rest = @ - 1]
           r == [g EXCEPT !.R = 1]
           j == Moved
<1>1. /\ f.event = fdc.event /\ f.cmd = fdc.cmd /\ f.rest = fdc.rest /\ f.stat = fdc.stat
      /\ FType(f) /\ DType(d) /\ Channel(d) /\ f.rest \in Nat
  BY DEF Reached, FType
<1>2. CASE f.event = "BUFSEND"
  <2>1. Quiet(Neutral(f), d, NoJob)
    BY <1>2 DEF DataRead
  <2>2. FType(Neutral(f)) /\ Neutral(f).event = "NEUTRAL" /\ Neutral(f).stat = f.stat
    BY <1>1, NeutralFacts
  <2>3. Signals(Neutral(f)) \subseteq Signals(fdc)
    BY <1>1, <2>2 DEF Signals
  <2> QED BY <1>1, <2>1, <2>2, <2>3, RestDone DEF Transfers
<1>3. CASE f.event = "BUFSEND2"
  <2>1. fdc.event \in Transfers /\ f.rest >= 1 /\ f.cmd \in {"READ", "DIAG"}
    BY <1>1, <1>3 DEF Transfers, IInv, Fine, InTransfer, Underway
  <2>2. IF f.tc THEN Result(r, d, j, "ok")
        ELSE IF f.rest > 1 THEN Quiet(g, d, j)
        ELSE IF f.cmd = "DIAG" /\ f.diag THEN Result(g, d, j, "ok")
        ELSE NextSector(g, d, j)
    BY <1>3 DEF DataRead
  <2>3. /\ FType(g) /\ g.event = f.event /\ g.cmd = f.cmd /\ g.rest = f.rest - 1 /\ g.us = f.us
        /\ g.hd = f.hd /\ g.R = f.R /\ g.mt = f.mt /\ g.diag = f.diag /\ g.stat = f.stat
        /\ g.tc = f.tc
    <3>1. f.rest - 1 \in Nat
      BY <1>1, <2>1
    <3> QED BY <1>1, <3>1 DEF FType
  <2> HIDE DEF g
  <2>4. FType(r)
    <3>1. 1 \in 1..Eot
      BY FdcAssumption
    <3> QED BY <2>3, <3>1 DEF FType
  <2> HIDE DEF r, j
  <2>5. /\ Begun(g, d, j) /\ JType(j) /\ InTurn(j)
        /\ g.cmd \in Moving \/ (g.cmd = "DIAG" /\ ~g.diag) => AtTurn(g, j, TurnNow(g, j))
        /\ Counted(j) /\ g.tc => j.bytes = j.want
        /\ Counted(j) /\ ~g.tc => Counting(d, j) /\ j.bytes + g.rest = Whole(TurnNow(g, j))
        /\ g.event = "BUFSEND2" /\ (g.cmd = "READ" \/ ~g.diag) => j.turn > 0
        /\ g.rest >= 1 /\ ~g.tc => Fine(g, d, j)
        /\ CausesOf(g) = CausesOf(fdc)
    BY <2>1, <2>3, ByteFacts DEF j
  <2>6. CASE f.tc
    <3>1. Counted(j) => AllMoved(j)
      BY <2>3, <2>5, <2>6 DEF AllMoved
    <3> QED BY <1>1, <2>2, <2>4, <2>5, <2>6, <3>1, ResultDone
  <2>7. CASE ~f.tc /\ f.rest > 1
    <3>1. g.rest >= 1
      BY <1>1, <2>3, <2>7
    <3>2. Fine(g, d, j)
      BY <2>3, <2>5, <2>7, <3>1
    <3> QED BY <2>2, <2>5, <2>7, <3>2, QuietDone DEF Fine
  <2>8. CASE ~f.tc /\ ~(f.rest > 1) /\ f.cmd = "DIAG" /\ f.diag
    <3>1. ~Counted(j)
      BY <2>3, <2>5, <2>8 DEF Begun, Counted, Moving
    <3> QED BY <1>1, <2>2, <2>3, <2>5, <2>8, <3>1, ResultDone
  <2>9. CASE ~f.tc /\ ~(f.rest > 1) /\ ~(f.cmd = "DIAG" /\ f.diag)
    <3>1. g.rest = 0
      BY <1>1, <2>1, <2>3, <2>9
    <3>2. TurnNow(g, j) = j.turn
      BY <1>3, <2>3 DEF TurnNow
    <3>3. g.cmd = "READ" \/ (g.cmd = "DIAG" /\ ~g.diag)
      BY <2>1, <2>3, <2>9
    <3>4. j.turn > 0 /\ AtTurn(g, j, j.turn)
      BY <1>3, <2>3, <2>5, <3>2, <3>3 DEF Moving
    <3>5. ASSUME Counted(j) PROVE j.bytes = Whole(j.turn) /\ ~g.tc /\ Counting(d, j)
      <4>1. Counting(d, j) /\ j.bytes + g.rest = Whole(j.turn) /\ ~g.tc
        BY <2>3, <2>5, <2>9, <3>2, <3>5
      <4>2. j.bytes \in Nat
        BY <2>5 DEF JType
      <4>3. j.bytes + g.rest = j.bytes
        BY <3>1, <4>2
      <4> QED BY <4>1, <4>3
    <3>6. NextSector(g, d, j)
      BY <2>2, <2>9
    <3> QED BY <2>5, <3>3, <3>4, <3>5, <3>6, NextSectorDone
  <2> QED BY <2>6, <2>7, <2>8, <2>9
<1>4. CASE f.event \notin {"BUFSEND", "BUFSEND2"}
  <2>1. Quiet(f, d, job)
    BY <1>4 DEF DataRead
  <2>2. fdc.event \in Transfers => ~job.clean
    BY <1>1, <1>4 DEF Transfers
  <2> QED BY <2>1, <2>2, IgnoredDone
<1> QED BY <1>2, <1>3, <1>4

-----------------------------------------------------------------------------
(* What has to be told keeps its interrupt.                                *)
LEMMA ToldFacts ==
    ASSUME NothingUntold, armed \in BOOLEAN, Told,
           heard' = heard \/ (\E new : Seen(new) /\ (new = {} \/ armed' = TRUE))
    PROVE  NothingUntold' /\ armed' \in BOOLEAN
<1>1. Causes = CausesOf(fdc) /\ Causes' = CausesOf(fdc')
  BY DEF Causes, CausesOf, Signals
<1>2. armed' \in BOOLEAN
  BY DEF Told
<1>3. CASE armed' = TRUE
  BY <1>2, <1>3 DEF NothingUntold
<1>4. CASE armed' # TRUE
  <2>1. armed' = armed /\ Causes' \subseteq Causes
    BY <1>1, <1>4 DEF Told
  <2>2. armed = FALSE /\ Causes \subseteq heard
    BY <1>4, <2>1 DEF NothingUntold
  <2>3. heard' = heard \/ heard' = heard \cap Causes'
    BY <1>4 DEF Seen
  <2> QED BY <1>2, <2>1, <2>2, <2>3 DEF NothingUntold
<1> QED BY <1>2, <1>3, <1>4

LEMMA HandlerKeeps ==
    ASSUME IInv, Done, ready' = ready, heard' = heard \/ Seen({})
    PROVE  IInv'
<1>1. NothingUntold' /\ armed' \in BOOLEAN
  BY ToldFacts DEF IInv, Done
<1> QED BY <1>1 DEF IInv, Done

LEMMA ReachedByGuest ==
    ASSUME IInv, fdc.event \in Transfers => dma.masked
    PROVE  Reached(fdc, dma)
BY DEF IInv, Fine, Reached, InTransfer, Underway

LEMMA GuestCommandKeeps == IInv /\ GuestCommand => IInv'
<1> SUFFICES ASSUME IInv, GuestCommand PROVE IInv'
  OBVIOUS
<1>1. PICK c \in Commands : (c \in Data /\ ~dma.masked => dma.out = (c \in Outward))
                             /\ Command(fdc, dma, c)
  BY DEF GuestCommand
<1>2. Done
  BY <1>1, CommandDone DEF IInv, Fine
<1> QED BY <1>2, HandlerKeeps DEF GuestCommand

LEMMA GuestPutKeeps == IInv /\ GuestPut => IInv'
<1> SUFFICES ASSUME IInv, GuestPut PROVE IInv'
  OBVIOUS
<1>1. Reached(fdc, dma)
  BY ReachedByGuest DEF GuestPut, Transfers
<1>2. Done
  BY <1>1, DataWriteDone DEF GuestPut
<1> QED BY <1>2, HandlerKeeps DEF GuestPut

LEMMA GuestGetKeeps == IInv /\ GuestGet => IInv'
<1> SUFFICES ASSUME IInv, GuestGet PROVE IInv'
  OBVIOUS
<1>1. Reached(fdc, dma)
  BY ReachedByGuest DEF GuestGet, Transfers
<1>2. Done
  BY <1>1, DataReadDone DEF GuestGet
<1> QED BY <1>2, HandlerKeeps DEF GuestGet

LEMMA ResetFacts ==
    ASSUME NEW f, FType(f), NEW motor \in BOOLEAN
    PROVE  FType(Reset(f, motor)) /\ Reset(f, motor).event = "NEUTRAL"
           /\ Reset(f, motor).stat = f.stat
<1> DEFINE g == Neutral(f)
           moved == [d \in Drives |-> Later(f.stat[d])]
<1>1. FType(g) /\ g.event = "NEUTRAL" /\ g.stat = f.stat
  BY NeutralFacts
<1> HIDE DEF g
<1>2. moved \in [Drives -> [timer : 0..FDC_INT_DELAY, stat : Stats]]
  BY FdcAssumption DEF FType, Later
<1> HIDE DEF moved
<1>3. FType([g EXCEPT !.int = moved]) /\ [g EXCEPT !.int = moved].event = "NEUTRAL"
      /\ [g EXCEPT !.int = moved].stat = f.stat
  BY <1>1, <1>2 DEF FType
<1> QED BY <1>1, <1>3 DEF Reset, g, moved

LEMMA GuestControlKeeps == IInv /\ GuestControl => IInv'
<1> SUFFICES ASSUME IInv, GuestControl PROVE IInv'
  OBVIOUS
<1>1. FType(fdc) /\ DType(dma) /\ Channel(dma)
  BY DEF IInv, Fine
<1>2. PICK motor \in BOOLEAN, d \in {dma, DmaReady(dma, FALSE)} :
         Quiet(Reset(fdc, motor), d, NoJob)
  BY DEF GuestControl
<1>3. DType(d) /\ Channel(d)
  BY <1>1, DmaReadyFacts
<1> DEFINE g == Reset(fdc, motor)
<1>4. FType(g) /\ g.event = "NEUTRAL" /\ g.stat = fdc.stat
  BY <1>1, ResetFacts
<1>5. Quiet(g, d, NoJob)
  BY <1>2
<1> HIDE DEF g
<1>6. Done
  BY <1>3, <1>4, <1>5, RestDone DEF Transfers, Signals
<1> QED BY <1>6, HandlerKeeps DEF GuestControl

LEMMA GuestProgramKeeps == IInv /\ GuestProgram => IInv'
<1> SUFFICES ASSUME IInv, GuestProgram PROVE IInv'
  OBVIOUS
<1>1. FType(fdc) /\ DType(dma) /\ JType(job) /\ InTurn(job) /\ WholeMoved(job)
  BY DEF IInv, Fine
<1> DEFINE off == Check([dma EXCEPT !.masked = TRUE])
           e(n, out) == [off EXCEPT !.leng = n - 1, !.out = out, !.masked = FALSE]
<1>2. PICK n \in Lengths, out \in BOOLEAN :
         /\ fdc.event = "CMDRECV" /\ fdc.cmd \in Data => out = (fdc.cmd \in Outward)
         /\ Quiet(fdc, Check(e(n, out)), job)
  BY DEF GuestProgram
<1>3. DType(off)
  <2>1. DType([dma EXCEPT !.masked = TRUE])
    BY <1>1 DEF DType
  <2> QED BY <2>1, CheckFacts
<1>4. DType(e(n, out)) /\ e(n, out).out = out
  <2>1. n - 1 \in 0..(Wrap - 1)
    BY FdcAssumption
  <2> HIDE DEF off
  <2> QED BY <1>3, <2>1 DEF DType
<1> DEFINE d == Check(e(n, out))
<1>5. DType(d) /\ Channel(d) /\ d.out = out
  <2> HIDE DEF e
  <2> QED BY <1>4, CheckFacts
<1>6. Quiet(fdc, d, job)
  BY <1>2
<1> HIDE DEF d
<1>7. InTransfer(fdc, d, job) /\ Aimed(fdc, d, job)
  BY <1>2, <1>5 DEF InTransfer, Aimed, Transfers, GuestProgram
<1>8. Done
  BY <1>1, <1>5, <1>6, <1>7, QuietDone
<1> QED BY <1>8, HandlerKeeps DEF GuestProgram

LEMMA GuestMaskKeeps == IInv /\ GuestMask => IInv'
<1> SUFFICES ASSUME IInv, GuestMask PROVE IInv'
  OBVIOUS
<1>1. /\ FType(fdc) /\ DType(dma) /\ JType(job) /\ InTurn(job) /\ WholeMoved(job)
      /\ InTransfer(fdc, dma, job)
  BY DEF IInv, Fine
<1> DEFINE e == [dma EXCEPT !.masked = TRUE, !.leng = 0, !.out = FALSE]
           d == Check(e)
<1>2. DType(e) /\ e.masked = TRUE /\ e.ready = dma.ready
  <2>1. 0 \in 0..(Wrap - 1)
    BY <1>1, FdcAssumption DEF DType
  <2> QED BY <1>1, <2>1 DEF DType
<1>3. Quiet(fdc, d, job)
  BY DEF GuestMask
<1> HIDE DEF e
<1>4. DType(d) /\ Channel(d) /\ d.masked = TRUE /\ d.ready = dma.ready
  BY <1>2, CheckFacts
<1> HIDE DEF d
<1>5. InTransfer(fdc, d, job) /\ Aimed(fdc, d, job)
  BY <1>1, <1>4 DEF InTransfer, Aimed, Underway, Counting
<1>6. Done
  BY <1>1, <1>3, <1>4, <1>5, QuietDone
<1> QED BY <1>6, HandlerKeeps DEF GuestMask

(* The channel has counted its byte before it is moved.                    *)
LEMMA DmaByteKeeps == IInv /\ DmaByte => IInv'
<1> SUFFICES ASSUME IInv, DmaByte PROVE IInv'
  OBVIOUS
<1> DEFINE last == dma.leng = 0
           f == [fdc EXCEPT !.tc = @ \/ last]
           d == [dma EXCEPT !.leng = (@ + Wrap - 1) % Wrap, !.chan = IF last THEN "done" ELSE @]
<1>1. /\ FType(fdc) /\ DType(dma) /\ JType(job) /\ Channel(dma) /\ Aimed(fdc, dma, job)
      /\ InTransfer(fdc, dma, job) /\ dma.chan = "on" /\ dma.ready /\ ~dma.masked
  BY DEF IInv, Fine, DmaByte, Channel
<1>2. IF dma.out THEN DataWrite(f, d) ELSE DataRead(f, d)
  BY DEF DmaByte
<1>3. dma.leng \in 0..(Wrap - 1) /\ Wrap \in Nat /\ last \in BOOLEAN
  BY <1>1, FdcAssumption DEF DType
<1>4. (dma.leng + Wrap - 1) % Wrap = IF last THEN Wrap - 1 ELSE dma.leng - 1
  BY <1>3, WrapDown
<1>5. (dma.leng + Wrap - 1) % Wrap \in 0..(Wrap - 1)
  BY <1>3, <1>4
<1>6. /\ DType(d) /\ d.masked = dma.masked /\ d.out = dma.out /\ d.ready = dma.ready
      /\ d.leng = (dma.leng + Wrap - 1) % Wrap /\ d.chan = IF last THEN "done" ELSE dma.chan
  BY <1>1, <1>5 DEF DType
<1>7. /\ FType(f) /\ f.event = fdc.event /\ f.cmd = fdc.cmd /\ f.rest = fdc.rest /\ f.us = fdc.us
      /\ f.hd = fdc.hd /\ f.R = fdc.R /\ f.mt = fdc.mt /\ f.diag = fdc.diag /\ f.stat = fdc.stat
      /\ f.tc = (fdc.tc \/ last)
  <2>1. (fdc.tc \/ last) \in BOOLEAN
    OBVIOUS
  <2> HIDE DEF last
  <2> QED BY <1>1, <2>1 DEF FType
<1> HIDE DEF f, d
<1>8. ASSUME fdc.event \in Transfers, Counted(job)
      PROVE  IF f.tc THEN job.bytes + 1 = job.want
             ELSE d.masked \/ (d.chan = "on" /\ job.want = job.bytes + 1 + d.leng + 1)
  <2>1. ~fdc.tc /\ job.want = job.bytes + dma.leng + 1
    BY <1>1, <1>8 DEF InTransfer, Underway, Counting
  <2>2. job.bytes \in Nat
    BY <1>1 DEF JType
  <2>3. CASE last
    <3>1. job.bytes + 1 = job.want
      BY <1>3, <2>1, <2>2, <2>3
    <3> QED BY <1>7, <2>3, <3>1
  <2>4. CASE ~last
    <3>1. d.leng = dma.leng - 1 /\ d.chan = "on"
      BY <1>1, <1>4, <1>6, <2>4
    <3>2. job.want = job.bytes + 1 + d.leng + 1
      BY <1>3, <2>1, <2>2, <3>1
    <3>3. ~f.tc
      BY <1>7, <2>1, <2>4
    <3> QED BY <3>1, <3>2, <3>3
  <2> QED BY <2>3, <2>4
<1>9. Channel(d)
  BY <1>1, <1>6 DEF Channel
<1>10. Reached(f, d)
  BY <1>6, <1>7, <1>8, <1>9 DEF Reached
<1>11. CASE dma.out
  <2>1. Done
    BY <1>1, <1>2, <1>6, <1>10, <1>11, DataWriteDone
  <2> QED BY <2>1, HandlerKeeps DEF DmaByte
<1>12. CASE ~dma.out
  <2>1. f.event = "BUFRECV" => ~job.clean
    <3>1. f.event = "BUFRECV" => fdc.cmd \in Data /\ fdc.cmd \in Outward
      BY <1>1, <1>7 DEF InTransfer, Underway, Transfers
    <3> QED BY <1>1, <1>7, <1>12, <3>1 DEF Aimed, Transfers
  <2>2. Done
    BY <1>2, <1>10, <1>12, <2>1, DataReadDone
  <2> QED BY <2>2, HandlerKeeps DEF DmaByte
<1> QED BY <1>11, <1>12

LEMMA InterruptKeeps == IInv /\ Interrupt => IInv'
BY DEF IInv, Interrupt, NothingUntold, Causes

LEMMA FrameKeeps == IInv /\ Frame => IInv'
<1> SUFFICES ASSUME IInv, Frame PROVE IInv'
  OBVIOUS
<1> DEFINE Ints == [timer : 0..FDC_INT_DELAY, stat : Stats]
           running == {d \in Drives : fdc.int[d].timer > 0}
           ended == {d \in running : fdc.int[d].timer = 1}
           int == [d \in Drives |-> IF d \in running \ ended
                                    THEN [fdc.int[d] EXCEPT !.timer = @ - 1] ELSE NoSeek]
           stat == [d \in Drives |-> IF d \in ended THEN fdc.int[d].stat ELSE fdc.stat[d]]
<1>1. fdc' = [fdc EXCEPT !.int = int, !.stat = stat]
  BY DEF Frame
<1>2. armed' = (armed \/ ended # {}) /\ Seen(ended) /\ dma' = dma /\ ready' = ready /\ job' = job
  BY DEF Frame
<1>3. Fine(fdc, dma, job) /\ FType(fdc) /\ armed \in BOOLEAN /\ NothingUntold
  BY DEF IInv, Fine
<1>4. fdc.int \in [Drives -> Ints] /\ fdc.stat \in [Drives -> Stats]
  BY <1>3 DEF FType
<1>5. int \in [Drives -> Ints]
  <2> SUFFICES ASSUME NEW d \in Drives
               PROVE  (IF d \in running \ ended THEN [fdc.int[d] EXCEPT !.timer = @ - 1]
                       ELSE NoSeek) \in Ints
    OBVIOUS
  <2>1. fdc.int[d] \in Ints /\ fdc.int[d].timer \in 0..FDC_INT_DELAY
    BY <1>4
  <2>2. CASE d \in running \ ended
    <3>1. fdc.int[d].timer - 1 \in 0..FDC_INT_DELAY
      BY <2>1, <2>2, FdcAssumption
    <3>2. [fdc.int[d] EXCEPT !.timer = @ - 1] \in Ints
      BY <2>1, <3>1
    <3> QED BY <2>2, <3>2
  <2>3. CASE ~(d \in running \ ended)
    BY <2>3, FdcAssumption DEF NoSeek, Stats
  <2> QED BY <2>2, <2>3
<1>6. stat \in [Drives -> Stats]
  BY <1>4
<1>7. ended = {} => stat = fdc.stat
  <2> HIDE DEF ended
  <2> QED BY <1>4
<1> HIDE DEF int, stat, ended
<1> DEFINE g == fdc'
<1>8. /\ FType(g) /\ g.event = fdc.event /\ g.cmd = fdc.cmd /\ g.rest = fdc.rest /\ g.us = fdc.us
      /\ g.hd = fdc.hd /\ g.R = fdc.R /\ g.mt = fdc.mt /\ g.diag = fdc.diag /\ g.tc = fdc.tc
      /\ g.stat = stat
  BY <1>1, <1>3, <1>5, <1>6 DEF FType
<1> HIDE DEF g
<1>9. InTransfer(g, dma, job)
  BY <1>3, <1>8 DEF Fine, InTransfer, Underway, AtTurn, TurnNow
<1>10. Aimed(g, dma, job)
  BY <1>3, <1>8 DEF Fine, Aimed
<1>11. Fine(fdc', dma', job')
  BY <1>2, <1>3, <1>8, <1>9, <1>10 DEF Fine, g
<1>12. armed' = TRUE \/ (armed' = armed /\ CausesOf(fdc') \subseteq CausesOf(fdc))
  <2>1. CASE ended = {}
    <3>1. CausesOf(g) = CausesOf(fdc)
      BY <1>7, <1>8, <2>1 DEF CausesOf, Signals
    <3>2. armed' = armed
      BY <1>2, <1>3, <2>1, Zenon
    <3> QED BY <3>1, <3>2 DEF g
  <2>2. CASE ended # {}
    BY <1>2, <2>2, Zenon
  <2> QED BY <2>1, <2>2
<1>13. ended = {} \/ armed' = TRUE
  BY <1>2, Zenon
<1>14. NothingUntold' /\ armed' \in BOOLEAN
  BY <1>2, <1>3, <1>12, <1>13, ToldFacts DEF Told
<1> QED BY <1>2, <1>11, <1>14 DEF IInv

LEMMA AnnounceKeeps == \A i \in Doors : IInv /\ Announce(i) => IInv'
<1> SUFFICES ASSUME NEW i \in Doors, IInv, Announce(i) PROVE IInv'
  OBVIOUS
<1>1. i \in Drives
  BY FdcAssumption
<1>2. /\ FType(fdc) /\ DType(dma) /\ JType(job) /\ InTurn(job) /\ WholeMoved(job) /\ Channel(dma)
      /\ InTransfer(fdc, dma, job) /\ Aimed(fdc, dma, job)
  BY DEF IInv, Fine
<1> DEFINE g == fdc'
           j == job'
<1>3. g = [fdc EXCEPT !.stat[i] = "ai", !.us = i]
  BY DEF Announce
<1>4. [fdc.stat EXCEPT ![i] = "ai"] \in [Drives -> Stats]
  BY <1>2 DEF FType, Stats
<1>5. /\ FType(g) /\ g.event = fdc.event /\ g.cmd = fdc.cmd /\ g.rest = fdc.rest /\ g.us = i
      /\ g.hd = fdc.hd /\ g.R = fdc.R /\ g.mt = fdc.mt /\ g.diag = fdc.diag /\ g.tc = fdc.tc
  BY <1>1, <1>2, <1>3, <1>4 DEF FType
<1>6. j = [job EXCEPT !.diverted = @ \/ (job.op # "none" /\ i # job.us)]
  BY DEF Announce
<1>7. /\ JType(j) /\ j.op = job.op /\ j.clean = job.clean /\ j.turn = job.turn
      /\ j.end = job.end /\ j.last = job.last /\ j.R = job.R /\ j.bytes = job.bytes
      /\ j.want = job.want /\ j.us = job.us /\ j.mt = job.mt /\ j.hd = job.hd
      /\ j.diverted = (job.diverted \/ (job.op # "none" /\ i # job.us))
  <2>1. (job.diverted \/ (job.op # "none" /\ i # job.us)) \in BOOLEAN
    OBVIOUS
  <2> QED BY <1>2, <1>6, <2>1 DEF JType
<1> HIDE DEF g, j
<1>8. \A n : Turn(j, n) = Turn(job, n)
  BY <1>7 DEF Turn
<1>9. InTurn(j) /\ WholeMoved(j)
  BY <1>2, <1>7, <1>8 DEF InTurn, WholeMoved, Counted, AllMoved
<1>10. InTransfer(g, dma, j)
  <2>1. ASSUME g.event \in Transfers PROVE dma.ready /\ Underway(g, dma, j)
    <3>1. dma.ready /\ Underway(fdc, dma, job)
      BY <1>2, <1>5, <2>1 DEF InTransfer
    <3>2. job.op # "none"
      BY <3>1 DEF Underway, Data, Moving
    <3>3. ~j.diverted => g.us = j.us
      BY <1>5, <1>7, <3>2
    <3>4. TurnNow(g, j) = TurnNow(fdc, job)
      BY <1>5, <1>7 DEF TurnNow
    <3>5. AtTurn(fdc, job, TurnNow(fdc, job)) => AtTurn(g, j, TurnNow(g, j))
      BY <1>5, <1>7, <1>8, <3>4 DEF AtTurn
    <3>6. (Counted(j) <=> Counted(job)) /\ (Counting(dma, job) => Counting(dma, j))
      BY <1>7 DEF Counted, Counting
    <3> QED BY <1>5, <1>7, <3>1, <3>3, <3>4, <3>5, <3>6 DEF Underway
  <2> QED BY <2>1 DEF InTransfer
<1>11. Aimed(g, dma, j)
  BY <1>2, <1>5, <1>7 DEF Aimed
<1>12. Fine(fdc', dma', job')
  BY <1>2, <1>5, <1>7, <1>9, <1>10, <1>11 DEF Fine, Announce, g, j
<1>13. ready' \subseteq Drives /\ armed' = TRUE
  BY <1>1 DEF Announce, IInv
<1> QED BY <1>12, <1>13 DEF IInv, NothingUntold

LEMMA IdleKeeps == IInv /\ UNCHANGED vars => IInv'
BY DEF IInv, vars, NothingUntold, Causes

LEMMA InitInv == Init => IInv
<1> SUFFICES ASSUME Init PROVE IInv
  OBVIOUS
<1>1. 0 \in Drives /\ 0 \in Heads /\ 1 \in 1..Eot /\ "INVALID" \in Commands
      /\ 0 \in 0..FDC_INT_DELAY
  BY FdcAssumption DEF Heads, Commands
<1>2. NoSeek \in [timer : 0..FDC_INT_DELAY, stat : Stats] /\ "zero" \in Stats
  BY <1>1 DEF NoSeek, Stats
<1>3. FType(fdc) /\ fdc.event = "NEUTRAL" /\ Signals(fdc) = {}
  BY <1>1, <1>2 DEF Init, FType, Signals
<1>4. DType(dma) /\ Channel(dma)
  <2>1. 0 \in 0..(Wrap - 1)
    BY FdcAssumption
  <2> QED BY <2>1 DEF Init, DType, Channel
<1>5. job = NoJob /\ JType(NoJob) /\ InTurn(NoJob) /\ WholeMoved(NoJob)
  BY NoJobFacts DEF Init
<1>6. InTransfer(fdc, dma, job) /\ Aimed(fdc, dma, job)
  BY <1>3 DEF InTransfer, Aimed, Transfers
<1>7. NothingUntold
  BY <1>3 DEF NothingUntold, Causes, Signals
<1> QED BY <1>3, <1>4, <1>5, <1>6, <1>7 DEF IInv, Fine, Init

THEOREM NextInv == IInv /\ [Next]_vars => IInv'
BY GuestCommandKeeps, GuestPutKeeps, GuestGetKeeps, GuestControlKeeps, GuestProgramKeeps,
   GuestMaskKeeps, DmaByteKeeps, InterruptKeeps, FrameKeeps, AnnounceKeeps, IdleKeeps DEF Next

(* A command under way is at the sector whose turn it is, and what it has  *)
(* moved and what the channel has still to count are what it began with.   *)
THEOREM Invariance == Spec => []IInv
BY InitInv, NextInv, PTL DEF Spec

(* The registers, the channel and the ghosts stay within their types.      *)
THEOREM TypeCorrect == Spec => []TypeOK
<1>1. IInv => TypeOK
  BY DEF IInv, Fine, FType, DType, TypeOK
<1> QED BY <1>1, Invariance, PTL

(* READ and WRITE DATA read and write the sectors they name in their turn, *)
(* whatever is announced for other drives before or after them.            *)
THEOREM InTurnAlways == Spec => []SectorsInTurn
<1>1. IInv => SectorsInTurn
  BY DEF IInv, Fine, InTurn, SectorsInTurn
<1> QED BY <1>1, Invariance, PTL

(* A transfer that reports success has moved all the channel was to count, *)
(* or all there was up to the end of the side or track.                    *)
THEOREM WholeAlways == Spec => []TransferWhole
<1>1. IInv => TransferWhole
  BY DEF IInv, Fine, WholeMoved, Counted, AllMoved, Whole, TransferWhole
<1> QED BY <1>1, Invariance, PTL

(* Nothing that has to be told loses the interrupt that is to come for it. *)
THEOREM ToldAlways == Spec => []NothingUntold
<1>1. IInv => NothingUntold
  BY DEF IInv
<1> QED BY <1>1, Invariance, PTL
=============================================================================
