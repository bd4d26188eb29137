------------------------------ MODULE HidProofs ------------------------------
(***************************************************************************)
(* Proofs about the way of a key, for any keys and codes, any length of    *)
(* the queue and any number of Bluetooth keyboards.                        *)
(*                                                                         *)
(* What the machine will hold once it has taken the queue (Down) is said   *)
(* by the youngest event of a code, or by the key table if none is queued. *)
(* Until every change of a report is acted on, Follows says how that lags  *)
(* behind what is reported; that a code has one holder unless it counts as *)
(* shared (Alone) keeps one key's release from undoing another's press.    *)
(*                                                                         *)
(* And about the way of a mouse's motion, for any mice, motion and width   *)
(* of the counters.  A poll that has begun has taken what was left of the  *)
(* last one (Polled), or clearing would lose it; the count of mice is      *)
(* right but for those a task has yet to count in or out (Counted), which  *)
(* needs a mouse to be in one place at a time (Unheard).                   *)
(***************************************************************************)
EXTENDS KeyPath, MousePath, SequenceTheorems, FiniteSetTheorems, TLAPS

Queued(q, c) == \E i \in 1..Len(q) : q[i].code = c
Youngest(q, i) == \A j \in (i + 1)..Len(q) : q[j].code # q[i].code

Down(q, keys, c) ==
    IF Queued(q, c) THEN \E i \in 1..Len(q) : q[i].code = c /\ q[i].down /\ Youngest(q, i)
                    ELSE c \in keys

Follows == \A c \in Codes \ lost :
    /\ Down(s_kq, ref, c) => Holding(s_prev, c) \cup Holding(left, c) # {}
    /\ c \notin shared =>
          \A h \in Holding(s_prev, c) \ Holding(left, c) : Down(s_kq, ref, c)

Alone == \A c \in Codes \ shared : Holding(s_prev, c) # {} =>
    \A g, h \in Holding(s_prev, c) \cup Holding(left, c) : g = h

IInv == TypeOK /\ Follows /\ Alone

-----------------------------------------------------------------------------
(* A queue that grows at the end or loses its first event.                 *)
LEMMA DownAppended ==
    ASSUME NEW q \in Seq(Event), NEW e \in Event, NEW keys, NEW c
    PROVE  Down(Append(q, e), keys, c) = IF e.code = c THEN e.down ELSE Down(q, keys, c)
<1> DEFINE r == Append(q, e)
           n == Len(q)
<1>1. /\ n \in Nat /\ Len(r) = n + 1 /\ r[n + 1] = e
      /\ \A i \in 1..n : r[i] = q[i]
  BY AppendProperties, LenProperties
<1>2. 1..(n + 1) = 1..n \cup {n + 1} /\ n + 1 \in 1..(n + 1)
  BY <1>1
<1> HIDE DEF r
<1>3. CASE e.code = c
  <2>1. Queued(r, c)
    BY <1>1, <1>2, <1>3 DEF Queued
  <2>2. Youngest(r, n + 1)
    BY <1>1 DEF Youngest
  <2>3. ASSUME NEW i \in 1..n PROVE ~(r[i].code = c /\ Youngest(r, i))
    <3>1. n + 1 \in (i + 1)..Len(r)
      BY <1>1
    <3> QED BY <1>1, <1>3, <3>1 DEF Youngest
  <2>4. (\E i \in 1..Len(r) : r[i].code = c /\ r[i].down /\ Youngest(r, i)) <=> e.down
    <3> HIDE DEF n
    <3> QED BY <1>1, <1>2, <1>3, <2>2, <2>3
  <2>5. e.down \in BOOLEAN
    BY DEF Event
  <2> QED BY <1>3, <2>1, <2>4, <2>5 DEF Down, r
<1>4. CASE e.code # c
  <2>1. Queued(r, c) <=> Queued(q, c)
    <3> HIDE DEF n
    <3> QED BY <1>1, <1>2, <1>4 DEF Queued, n
  <2>2. ASSUME NEW i \in 1..n, r[i].code = c PROVE Youngest(r, i) <=> Youngest(q, i)
    <3>1. \A j \in (i + 1)..(n + 1) : j \in (i + 1)..n \/ j = n + 1
      BY <1>1
    <3>2. (i + 1)..n \subseteq (i + 1)..(n + 1) /\ (i + 1)..n \subseteq 1..n
      BY <1>1
    <3> HIDE DEF n
    <3> QED BY <1>1, <1>4, <2>2, <3>1, <3>2 DEF Youngest, n
  <2>3. (\E i \in 1..Len(r) : r[i].code = c /\ r[i].down /\ Youngest(r, i))
           <=> \E i \in 1..n : q[i].code = c /\ q[i].down /\ Youngest(q, i)
    <3> HIDE DEF n
    <3> QED BY <1>1, <1>2, <1>4, <2>2
  <2> QED BY <1>4, <2>1, <2>3 DEF Down, r
<1> QED BY <1>3, <1>4

LEMMA DownDrained ==
    ASSUME NEW q \in Seq(Event), q # <<>>, NEW keys, NEW c
    PROVE  Down(Tail(q), IF Head(q).down THEN keys \cup {Head(q).code}
                                         ELSE keys \ {Head(q).code}, c)
              <=> Down(q, keys, c)
<1> DEFINE r == Tail(q)
           after == IF Head(q).down THEN keys \cup {Head(q).code} ELSE keys \ {Head(q).code}
<1>1. PICK n \in Nat : /\ Len(r) = n /\ Len(q) = n + 1
                       /\ Head(q) = q[1] /\ q[1] \in Event
                       /\ \A i \in 1..n : r[i] = q[i + 1]
  BY HeadTailProperties, EmptySeq, LenProperties, ElementOfSeq
<1> HIDE DEF r
<1>2. /\ 1 \in 1..(n + 1)
      /\ \A i \in 1..n : i + 1 \in 1..(n + 1) /\ i + 1 # 1 /\ q[i + 1] = r[i]
      /\ \A i \in 1..(n + 1) : i = 1 \/ (i - 1 \in 1..n /\ q[i] = r[i - 1])
  <2>1. ASSUME NEW i \in 1..(n + 1), i # 1 PROVE i - 1 \in 1..n /\ q[i] = r[i - 1]
    <3>1. i - 1 \in 1..n /\ (i - 1) + 1 = i
      BY <1>1, <2>1
    <3>2. r[i - 1] = q[(i - 1) + 1]
      BY <1>1, <3>1
    <3> QED BY <3>1, <3>2
  <2> QED BY <1>1, <2>1
<1>3. Queued(q, c) <=> Queued(r, c) \/ q[1].code = c
  <2>1. ASSUME Queued(q, c), q[1].code # c PROVE Queued(r, c)
    <3>1. PICK i \in 1..(n + 1) : q[i].code = c
      BY <1>1, <2>1 DEF Queued
    <3> QED BY <1>1, <1>2, <2>1, <3>1 DEF Queued
  <2>2. ASSUME Queued(r, c) PROVE Queued(q, c)
    <3>1. PICK i \in 1..n : r[i].code = c
      BY <1>1, <2>2 DEF Queued
    <3> QED BY <1>1, <1>2, <3>1 DEF Queued
  <2> QED BY <1>1, <1>2, <2>1, <2>2 DEF Queued
<1>4. ASSUME NEW i \in 1..n PROVE Youngest(r, i) <=> Youngest(q, i + 1)
  <2>1. ASSUME Youngest(r, i), NEW j \in (i + 1 + 1)..(n + 1) PROVE q[j].code # q[i + 1].code
    <3>1. j \in 1..(n + 1) /\ j # 1 /\ j - 1 \in (i + 1)..n
      BY <1>1, <2>1
    <3> QED BY <1>1, <1>2, <2>1, <3>1 DEF Youngest
  <2>2. ASSUME Youngest(q, i + 1), NEW j \in (i + 1)..n PROVE r[j].code # r[i].code
    <3>1. j \in 1..n /\ j + 1 \in (i + 1 + 1)..(n + 1)
      BY <1>1, <2>2
    <3> QED BY <1>1, <1>2, <2>2, <3>1 DEF Youngest
  <2> QED BY <1>1, <2>1, <2>2 DEF Youngest
<1>5. ASSUME NEW i \in 1..n
      PROVE  r[i].code = c /\ r[i].down /\ Youngest(r, i)
                <=> q[i + 1].code = c /\ q[i + 1].down /\ Youngest(q, i + 1)
  BY <1>2, <1>4
<1>6. CASE Queued(r, c)
  <2>1. ~(q[1].code = c /\ Youngest(q, 1))
    <3>1. PICK j \in 1..n : r[j].code = c
      BY <1>1, <1>6 DEF Queued
    <3>2. j + 1 \in (1 + 1)..(n + 1)
      BY <1>1, <3>1
    <3> QED BY <1>1, <1>2, <3>1, <3>2 DEF Youngest
  <2>2. ASSUME NEW i \in 1..(n + 1), q[i].code = c, q[i].down, Youngest(q, i)
        PROVE  \E k \in 1..n : r[k].code = c /\ r[k].down /\ Youngest(r, k)
    <3>1. i # 1
      BY <2>1, <2>2
    <3>2. i - 1 \in 1..n /\ i = (i - 1) + 1
      BY <1>1, <3>1, <2>2
    <3> QED BY <1>5, <2>2, <3>2
  <2>3. ASSUME NEW i \in 1..n, r[i].code = c, r[i].down, Youngest(r, i)
        PROVE  \E k \in 1..(n + 1) : q[k].code = c /\ q[k].down /\ Youngest(q, k)
    BY <1>2, <1>5, <2>3
  <2> QED BY <1>1, <1>3, <1>6, <2>2, <2>3 DEF Down, r
<1>7. CASE ~Queued(r, c) /\ q[1].code = c
  <2>1. ASSUME NEW i \in 1..(n + 1), i # 1 PROVE q[i].code # c
    BY <1>1, <1>2, <1>7, <2>1 DEF Queued
  <2>2. Youngest(q, 1)
    <3>1. \A j \in (1 + 1)..(n + 1) : j \in 1..(n + 1) /\ j # 1
      BY <1>1
    <3> QED BY <1>1, <1>7, <2>1, <3>1 DEF Youngest
  <2>3. (\E i \in 1..(n + 1) : q[i].code = c /\ q[i].down /\ Youngest(q, i)) <=> q[1].down
    BY <1>2, <1>7, <2>1, <2>2
  <2>4. c \in after <=> q[1].down
    BY <1>1, <1>7 DEF Event
  <2> HIDE DEF after
  <2>5. Down(r, after, c) <=> c \in after
    BY <1>7 DEF Down
  <2>6. Down(q, keys, c) <=> q[1].down
    BY <1>1, <1>3, <1>7, <2>3 DEF Down
  <2> QED BY <2>4, <2>5, <2>6 DEF r, after
<1>8. CASE ~Queued(r, c) /\ q[1].code # c
  <2>1. c \in after <=> c \in keys
    BY <1>1, <1>8
  <2> HIDE DEF after
  <2>2. Down(r, after, c) <=> c \in after
    BY <1>8 DEF Down
  <2>3. Down(q, keys, c) <=> c \in keys
    BY <1>3, <1>8 DEF Down
  <2> QED BY <2>1, <2>2, <2>3 DEF r, after
<1> QED BY <1>6, <1>7, <1>8

-----------------------------------------------------------------------------
(* What a code's holders are: some key of some transport.                  *)
LEMMA HoldingFacts ==
    ASSUME NEW p, NEW c
    PROVE  \A s \in Sources, k \in Keys \cup Bits :
              <<s, k>> \in Holding(p, c) <=> k \in p[s] /\ Code[k] = c
BY DEF Holding

LEMMA HolderParts ==
    ASSUME NEW p, NEW c, NEW h \in Holding(p, c)
    PROVE  /\ h = <<h[1], h[2]>> /\ h[1] \in Sources /\ h[2] \in Keys \cup Bits
           /\ h[2] \in p[h[1]] /\ Code[h[2]] = c
BY DEF Holding

LEMMA HoldersFinite == ASSUME NEW p, NEW c PROVE IsFiniteSet(Holding(p, c))
<1>1. Keys \cup Bits \subseteq Inputs /\ IsFiniteSet(Inputs)
  BY HidAssumption DEF Inputs
<1>2. IsFiniteSet(Keys \cup Bits)
  BY <1>1, FS_Subset
<1>3. IsFiniteSet({"usb"}) /\ IsFiniteSet({"bt"})
  BY FS_Singleton
<1>4. IsFiniteSet({"usb"} \cup {"bt"}) /\ {"usb"} \cup {"bt"} = Sources
  BY <1>3, FS_Union DEF Sources
<1>5. IsFiniteSet(Sources \X (Keys \cup Bits))
  BY <1>2, <1>4, FS_Product
<1>6. Holding(p, c) \subseteq Sources \X (Keys \cup Bits)
  BY DEF Holding
<1> QED BY <1>5, <1>6, FS_Subset

(* A set that is not of two has no two members.                            *)
LEMMA FewAreOne ==
    ASSUME NEW S, IsFiniteSet(S), ~(Cardinality(S) > 1), NEW g \in S, NEW h \in S
    PROVE  g = h
<1>1. Cardinality(S) \in Nat
  BY FS_CardinalityType
<1>2. Cardinality(S) # 0
  BY FS_EmptySet
<1>3. Cardinality(S) = 1
  BY <1>1, <1>2
<1>4. PICK one : S = {one}
  BY <1>3, FS_Singleton
<1> QED BY <1>4

LEMMA InitInv == ASSUME Init PROVE IInv
<1> USE HidAssumption DEF Init, HidInit
<1>1. \A c : Holding(s_prev, c) = {} /\ Holding(left, c) = {}
  BY DEF Holding
<1>2. TypeOK
  <2>1. s_kq \in Seq(Event) /\ Len(s_kq) = 0
    BY EmptySeq
  <2>2. 0 \in 0..BT_MAX_DEV /\ 0 <= QLen
    OBVIOUS
  <2> QED BY <2>1, <2>2 DEF TypeOK, HidTypeOK
<1>3. Follows
  <2>1. \A c : ~Queued(s_kq, c)
    BY DEF Queued
  <2> QED BY <1>1, <2>1 DEF Follows, Down
<1>4. Alone
  BY <1>1 DEF Alone
<1> QED BY <1>2, <1>3, <1>4 DEF IInv

-----------------------------------------------------------------------------
(* A report begins.                                                        *)
LEMMA BeginInv ==
    ASSUME IInv, NEW s \in Sources, NEW d \in SUBSET Inputs, Begin(s, d),
           UNCHANGED <<s_kq, lost, ref, emu, g_menu_req>>, btUp' \in 0..BT_MAX_DEV
    PROVE  IInv'
<1>1. /\ left[s] = {} /\ s_prev \in [Sources -> SUBSET Inputs]
      /\ left \in [Sources -> SUBSET Inputs]
      /\ left' = [left EXCEPT ![s] = (d \ s_prev[s]) \cup (s_prev[s] \ d)]
      /\ s_prev' = [s_prev EXCEPT ![s] = d]
  BY DEF Begin, IInv, TypeOK, HidTypeOK
<1>2. \A c \in Codes \ shared' : Holding(s_prev', c) # {} =>
         c \notin shared /\ ~(Cardinality(Holding(s_prev', c) \cup Holding(left', c)) > 1)
  BY DEF Begin
<1>3. TypeOK'
  <2>1. left' \in [Sources -> SUBSET Inputs] /\ s_prev' \in [Sources -> SUBSET Inputs]
    BY <1>1
  <2>2. shared' \subseteq Codes
    BY DEF Begin
  <2> QED BY <2>1, <2>2 DEF IInv, TypeOK, HidTypeOK
<1>4. Alone'
  <2>1. ASSUME NEW c \in Codes \ shared', Holding(s_prev', c) # {},
               NEW g \in Holding(s_prev', c) \cup Holding(left', c),
               NEW h \in Holding(s_prev', c) \cup Holding(left', c)
        PROVE  g = h
    <3>1. IsFiniteSet(Holding(s_prev', c) \cup Holding(left', c))
      BY HoldersFinite, FS_Union
    <3> QED BY <1>2, <2>1, <3>1, FewAreOne
  <2> QED BY <2>1 DEF Alone, Codes, Holding
<1>5. ASSUME NEW c \in Codes, Holding(s_prev, c) \cup Holding(left, c) # {}
      PROVE  Holding(s_prev', c) \cup Holding(left', c) # {}
  <2>1. PICK h : h \in Holding(s_prev, c) \cup Holding(left, c)
    BY <1>5
  <2>2. /\ h = <<h[1], h[2]>> /\ h[1] \in Sources /\ h[2] \in Keys \cup Bits /\ Code[h[2]] = c
        /\ h[2] \in s_prev[h[1]] \/ h[2] \in left[h[1]]
    BY <2>1, HolderParts
  <2>3. h[2] \in s_prev'[h[1]] \/ h[2] \in left'[h[1]]
    <3>1. CASE h[1] = s
      BY <1>1, <2>2, <3>1
    <3>2. CASE h[1] # s
      BY <1>1, <2>2, <3>2
    <3> QED BY <3>1, <3>2
  <2> QED BY <2>2, <2>3, HoldingFacts
<1>6. ASSUME NEW c \in Codes, NEW h \in Holding(s_prev', c), h \notin Holding(left', c)
      PROVE  h \in Holding(s_prev, c) \ Holding(left, c)
  <2>1. /\ h = <<h[1], h[2]>> /\ h[1] \in Sources /\ h[2] \in Keys \cup Bits /\ Code[h[2]] = c
        /\ h[2] \in s_prev'[h[1]]
    BY <1>6, HolderParts
  <2>2. h[2] \notin left'[h[1]]
    BY <1>6, <2>1, HoldingFacts
  <2>3. h[2] \in s_prev[h[1]] /\ h[2] \notin left[h[1]]
    <3>1. CASE h[1] = s
      BY <1>1, <2>1, <2>2, <3>1
    <3>2. CASE h[1] # s
      BY <1>1, <2>1, <2>2, <3>2
    <3> QED BY <3>1, <3>2
  <2>4. h \in Holding(s_prev, c)
    BY <2>1, <2>3, HoldingFacts
  <2>5. h \notin Holding(left, c)
    BY <2>3, HolderParts
  <2> QED BY <2>4, <2>5
<1>7. Follows'
  <2>1. ASSUME NEW c \in Codes \ lost
        PROVE  /\ Down(s_kq, ref, c) => Holding(s_prev', c) \cup Holding(left', c) # {}
               /\ c \notin shared' =>
                     \A h \in Holding(s_prev', c) \ Holding(left', c) : Down(s_kq, ref, c)
    <3>1. Down(s_kq, ref, c) => Holding(s_prev', c) \cup Holding(left', c) # {}
      BY <1>5, <2>1 DEF IInv, Follows
    <3>2. ASSUME c \notin shared', NEW h \in Holding(s_prev', c) \ Holding(left', c)
          PROVE  Down(s_kq, ref, c)
      <4>1. c \notin shared
        BY <1>2, <2>1, <3>2
      <4>2. h \in Holding(s_prev, c) \ Holding(left, c)
        BY <1>6, <2>1, <3>2
      <4> QED BY <2>1, <4>1, <4>2 DEF IInv, Follows
    <3> QED BY <3>1, <3>2
  <2> QED BY <2>1 DEF Follows, Down, Queued, Youngest, Holding, Codes
<1> QED BY <1>3, <1>4, <1>7 DEF IInv

-----------------------------------------------------------------------------
(* One change of a report is acted on.                                     *)
LEMMA ActInv ==
    ASSUME IInv, NEW s \in Sources, Act(s), UNCHANGED <<ref, emu>>
    PROVE  IInv'
<1>1. PICK k \in NextChanges(s) :
         /\ left' = [left EXCEPT ![s] = left[s] \ {k}]
         /\ IF k \in MenuKeys
            THEN /\ g_menu_req' = (g_menu_req \/ k \in s_prev[s])
                 /\ UNCHANGED <<s_kq, lost>>
            ELSE /\ Push(Code[k], k \in s_prev[s])
                 /\ UNCHANGED g_menu_req
  BY DEF Act
<1>2. /\ UNCHANGED <<s_prev, btUp, shared, ref, emu>>
      /\ left \in [Sources -> SUBSET Inputs] /\ s_prev \in [Sources -> SUBSET Inputs]
      /\ s_kq \in Seq(Event) /\ Len(s_kq) <= QLen /\ lost \subseteq Codes
  BY DEF Act, IInv, TypeOK, HidTypeOK
<1>3. k \in left[s] /\ k \in Inputs
  <2>1. k \in left[s]
    BY <1>1 DEF NextChanges
  <2> QED BY <1>2, <2>1
<1>4. ASSUME NEW c
      PROVE  /\ Holding(left', c) \subseteq Holding(left, c)
             /\ \A h \in Holding(left, c) : h # <<s, k>> => h \in Holding(left', c)
  <2>1. ASSUME NEW h \in Holding(left', c) PROVE h \in Holding(left, c)
    <3>1. /\ h = <<h[1], h[2]>> /\ h[1] \in Sources /\ h[2] \in Keys \cup Bits
          /\ h[2] \in left'[h[1]] /\ Code[h[2]] = c
      BY <2>1, HolderParts
    <3>2. h[2] \in left[h[1]]
      BY <1>1, <1>2, <3>1
    <3> QED BY <3>1, <3>2, HoldingFacts
  <2>2. ASSUME NEW h \in Holding(left, c), h # <<s, k>> PROVE h \in Holding(left', c)
    <3>1. /\ h = <<h[1], h[2]>> /\ h[1] \in Sources /\ h[2] \in Keys \cup Bits
          /\ h[2] \in left[h[1]] /\ Code[h[2]] = c
      BY <2>2, HolderParts
    <3>2. h[1] # s \/ h[2] # k
      BY <2>2, <3>1
    <3>3. h[2] \in left'[h[1]]
      BY <1>1, <1>2, <3>1, <3>2
    <3> QED BY <3>1, <3>3, HoldingFacts
  <2> QED BY <2>1, <2>2
<1>5. Alone'
  <2>1. ASSUME NEW c \in Codes \ shared, Holding(s_prev, c) # {},
               NEW g \in Holding(s_prev, c) \cup Holding(left', c),
               NEW h \in Holding(s_prev, c) \cup Holding(left', c)
        PROVE  g = h
    BY <1>4, <2>1 DEF IInv, Alone
  <2> QED BY <1>2, <2>1 DEF Alone, Codes, Holding
<1>6. ASSUME NEW c \in Codes, Holding(left', c) = Holding(left, c),
             Down(s_kq', ref, c) <=> Down(s_kq, ref, c), c \notin lost
      PROVE  /\ Down(s_kq', ref, c) => Holding(s_prev, c) \cup Holding(left', c) # {}
             /\ c \notin shared =>
                   \A h \in Holding(s_prev, c) \ Holding(left', c) : Down(s_kq', ref, c)
  BY <1>6 DEF IInv, Follows
<1>7. ASSUME \A c \in Codes \ lost' :
                /\ Down(s_kq', ref, c) => Holding(s_prev, c) \cup Holding(left', c) # {}
                /\ c \notin shared =>
                      \A h \in Holding(s_prev, c) \ Holding(left', c) : Down(s_kq', ref, c)
      PROVE  Follows'
  BY <1>2, <1>7 DEF Follows, Down, Queued, Youngest, Holding, Codes
<1>8. left' \in [Sources -> SUBSET Inputs]
  BY <1>1, <1>2
<1>9. CASE k \in MenuKeys
  <2>1. k \notin Keys \cup Bits
    BY <1>9, HidAssumption
  <2>2. ASSUME NEW c PROVE Holding(left', c) = Holding(left, c)
    <3>1. <<s, k>> \notin Holding(left, c)
      BY <2>1, HolderParts
    <3> QED BY <1>4, <3>1
  <2>3. TypeOK'
    <3>1. g_menu_req' \in BOOLEAN
      BY <1>1, <1>9 DEF IInv, TypeOK, HidTypeOK
    <3> QED BY <1>1, <1>2, <1>8, <1>9, <3>1 DEF IInv, TypeOK, HidTypeOK
  <2>4. Follows'
    BY <1>1, <1>6, <1>7, <1>9, <2>2
  <2> QED BY <1>5, <2>3, <2>4 DEF IInv
<1>10. CASE k \notin MenuKeys
  <2> DEFINE d == Code[k]
             up == k \in s_prev[s]
             e  == [code |-> d, down |-> up]
  <2>1. k \in Keys \cup Bits /\ d \in Codes /\ e \in Event
    BY <1>3, <1>10 DEF Inputs, Codes, Event
  <2>2. ASSUME NEW c, c # d PROVE Holding(left', c) = Holding(left, c)
    <3>1. <<s, k>> \notin Holding(left, c)
      BY <2>1, <2>2, HoldingFacts
    <3> QED BY <1>4, <3>1
  <2>3. CASE Len(s_kq) < QLen
    <3>1. s_kq' = Append(s_kq, e) /\ lost' = lost \ {d} /\ UNCHANGED g_menu_req
      BY <1>1, <1>10, <2>3 DEF Push
    <3>2. TypeOK'
      <4>1. s_kq' \in Seq(Event) /\ Len(s_kq') = Len(s_kq) + 1
        BY <1>2, <2>1, <3>1, AppendProperties
      <4>2. Len(s_kq') <= QLen
        BY <1>2, <2>3, <4>1, LenProperties, HidAssumption
      <4> QED BY <1>2, <1>8, <3>1, <4>1, <4>2 DEF IInv, TypeOK, HidTypeOK
    <3>3. \A c : Down(s_kq', ref, c) = IF d = c THEN up ELSE Down(s_kq, ref, c)
      <4>1. e.code = d /\ e.down = up
        OBVIOUS
      <4> HIDE DEF d, up, e
      <4> QED BY <1>2, <2>1, <3>1, <4>1, DownAppended
    <3>4. ASSUME up PROVE <<s, k>> \in Holding(s_prev, d)
      BY <2>1, <3>4, HoldingFacts
    <3>5. ASSUME ~up, d \notin shared, NEW h \in Holding(s_prev, d) PROVE FALSE
      <4>1. <<s, k>> \in Holding(left, d)
        BY <1>3, <2>1, HoldingFacts
      <4>2. h = <<s, k>>
        BY <2>1, <3>5, <4>1 DEF IInv, Alone
      <4>3. k \in s_prev[s]
        BY <2>1, <3>5, <4>2, HoldingFacts
      <4> QED BY <3>5, <4>3
    <3>6. Follows'
      <4>1. ASSUME NEW c \in Codes, c \notin lost, c # d
            PROVE  /\ Down(s_kq', ref, c) => Holding(s_prev, c) \cup Holding(left', c) # {}
                   /\ c \notin shared =>
                         \A h \in Holding(s_prev, c) \ Holding(left', c) : Down(s_kq', ref, c)
        <5>1. Down(s_kq', ref, c) <=> Down(s_kq, ref, c)
          BY <3>3, <4>1
        <5> QED BY <1>6, <2>2, <4>1, <5>1
      <4>2. /\ Down(s_kq', ref, d) => Holding(s_prev, d) \cup Holding(left', d) # {}
            /\ d \notin shared =>
                  \A h \in Holding(s_prev, d) \ Holding(left', d) : Down(s_kq', ref, d)
        <5>1. Down(s_kq', ref, d) = up
          BY <3>3
        <5> HIDE DEF d, up
        <5> QED BY <3>4, <3>5, <5>1
      <4> HIDE DEF d, up
      <4> QED BY <1>7, <3>1, <4>1, <4>2
    <3> QED BY <1>5, <3>2, <3>6 DEF IInv
  <2>4. CASE ~(Len(s_kq) < QLen)
    <3>1. s_kq' = s_kq /\ lost' = lost \cup {d} /\ UNCHANGED g_menu_req
      BY <1>1, <1>10, <2>4 DEF Push
    <3>2. TypeOK'
      BY <1>2, <1>8, <2>1, <3>1 DEF IInv, TypeOK, HidTypeOK
    <3>3. Follows'
      <4> HIDE DEF d
      <4> QED BY <1>6, <1>7, <2>2, <3>1
    <3> QED BY <1>5, <3>2, <3>3 DEF IInv
  <2> QED BY <2>3, <2>4
<1> QED BY <1>9, <1>10

-----------------------------------------------------------------------------
(* The emulator's loop takes the oldest event, for itself or for the menu. *)
LEMMA TailOfQueue ==
    ASSUME TypeOK, s_kq # <<>>
    PROVE  /\ Tail(s_kq) \in Seq(Event) /\ Len(Tail(s_kq)) <= QLen
           /\ Head(s_kq) \in Event /\ Head(s_kq).code \in Codes
<1>1. s_kq \in Seq(Event) /\ Len(s_kq) <= QLen
  BY DEF TypeOK, HidTypeOK
<1>2. /\ Tail(s_kq) \in Seq(Event) /\ Len(Tail(s_kq)) = Len(s_kq) - 1
      /\ Head(s_kq) \in Event /\ Len(s_kq) \in Nat
  BY <1>1, HeadTailProperties, LenProperties
<1> QED BY <1>1, <1>2, HidAssumption DEF Event

LEMMA FollowsPrimed ==
    ASSUME \A c \in Codes \ lost' :
              /\ Down(s_kq', ref', c) => Holding(s_prev', c) \cup Holding(left', c) # {}
              /\ c \notin shared' =>
                    \A h \in Holding(s_prev', c) \ Holding(left', c) : Down(s_kq', ref', c)
    PROVE  Follows'
BY DEF Follows, Down, Queued, Youngest, Holding, Codes

LEMMA MenuKeyInv == ASSUME IInv, MenuKey PROVE IInv'
<1>1. /\ s_kq # <<>> /\ s_kq' = Tail(s_kq) /\ lost' = lost \cup {Head(s_kq).code}
      /\ UNCHANGED <<s_prev, left, g_menu_req, btUp, shared, ref>>
      /\ emu' \in {"menu", "drain"} /\ s_kq \in Seq(Event)
  BY DEF MenuKey, IInv, TypeOK, HidTypeOK
<1>2. TypeOK'
  BY <1>1, TailOfQueue DEF IInv, TypeOK, HidTypeOK
<1>3. ASSUME NEW c \in Codes \ lost'
      PROVE  Down(s_kq', ref, c) <=> Down(s_kq, ref, c)
  <2> DEFINE after == IF Head(s_kq).down THEN ref \cup {Head(s_kq).code}
                                         ELSE ref \ {Head(s_kq).code}
  <2>1. c \in after <=> c \in ref
    BY <1>1, <1>3
  <2>2. Down(s_kq', after, c) <=> Down(s_kq, ref, c)
    BY <1>1, DownDrained
  <2> HIDE DEF after
  <2>3. Down(s_kq', after, c) <=> Down(s_kq', ref, c)
    BY <2>1 DEF Down
  <2> QED BY <2>2, <2>3
<1>4. Follows'
  <2>1. ASSUME NEW c \in Codes \ lost'
        PROVE  /\ Down(s_kq', ref, c) => Holding(s_prev, c) \cup Holding(left, c) # {}
               /\ c \notin shared =>
                     \A h \in Holding(s_prev, c) \ Holding(left, c) : Down(s_kq', ref, c)
    <3>1. c \in Codes \ lost
      BY <1>1, <2>1
    <3> QED BY <1>3, <2>1, <3>1 DEF IInv, Follows
  <2> QED BY <1>1, <2>1, FollowsPrimed
<1>5. Alone'
  BY <1>1 DEF IInv, Alone, Holding, Codes
<1> QED BY <1>2, <1>4, <1>5 DEF IInv

LEMMA DrainInv == ASSUME IInv, Drain PROVE IInv'
<1>1. /\ s_kq # <<>> /\ s_kq' = Tail(s_kq) /\ s_kq \in Seq(Event) /\ ref \subseteq Codes
      /\ ref' = IF Head(s_kq).down THEN ref \cup {Head(s_kq).code}
                                   ELSE ref \ {Head(s_kq).code}
      /\ UNCHANGED <<s_prev, left, g_menu_req, btUp, lost, shared, emu>>
  BY DEF Drain, IInv, TypeOK, HidTypeOK
<1>2. TypeOK'
  <2>1. ref' \subseteq Codes
    BY <1>1, TailOfQueue DEF IInv
  <2> QED BY <1>1, <2>1, TailOfQueue DEF IInv, TypeOK, HidTypeOK
<1>3. \A c : Down(s_kq', ref', c) <=> Down(s_kq, ref, c)
  BY <1>1, DownDrained
<1>4. Follows'
  <2>1. ASSUME NEW c \in Codes \ lost
        PROVE  /\ Down(s_kq', ref', c) => Holding(s_prev, c) \cup Holding(left, c) # {}
               /\ c \notin shared =>
                     \A h \in Holding(s_prev, c) \ Holding(left, c) : Down(s_kq', ref', c)
    BY <1>3, <2>1 DEF IInv, Follows
  <2> QED BY <1>1, <2>1, FollowsPrimed
<1>5. Alone'
  BY <1>1 DEF IInv, Alone, Holding, Codes
<1> QED BY <1>2, <1>4, <1>5 DEF IInv

-----------------------------------------------------------------------------
LEMMA QuietInv ==
    ASSUME IInv, UNCHANGED <<s_prev, left, s_kq, lost, shared, ref>>, TypeOK'
    PROVE  IInv'
BY DEF IInv, Follows, Alone, Down, Queued, Youngest, Holding, Codes

LEMMA NextInv == ASSUME IInv, [Next]_vars PROVE IInv'
<1>1. CASE LoopTop
  <2>1. TypeOK'
    BY <1>1 DEF LoopTop, IInv, TypeOK, HidTypeOK
  <2> QED BY <1>1, <2>1, QuietInv DEF LoopTop
<1>2. CASE MenuKey
  BY <1>2, MenuKeyInv
<1>3. CASE Drain
  BY <1>3, DrainInv
<1>4. CASE RunFrame
  <2>1. TypeOK'
    BY <1>4 DEF RunFrame, hidVars, IInv, TypeOK, HidTypeOK
  <2> QED BY <1>4, <2>1, QuietInv DEF RunFrame, hidVars
<1>5. CASE HidStep
  <2>1. UNCHANGED <<ref, emu>> /\ btUp \in 0..BT_MAX_DEV /\ BT_MAX_DEV \in Nat
    BY <1>5, HidAssumption DEF HidStep, IInv, TypeOK, HidTypeOK
  <2>2. ASSUME NEW s \in Sources, Report(s) PROVE IInv'
    <3>1. PICK d \in SUBSET Fitted[s] : Begin(s, d)
      BY <2>2 DEF Report
    <3>2. d \in SUBSET Inputs
      BY <2>2, <3>1, HidAssumption
    <3>3. UNCHANGED <<s_kq, lost, ref, emu, g_menu_req>> /\ btUp' \in 0..BT_MAX_DEV
      BY <2>1, <2>2 DEF Report
    <3> QED BY <2>2, <3>1, <3>2, <3>3, BeginInv
  <2>3. CASE UsbReport
    BY <2>2, <2>3 DEF UsbReport, Sources
  <2>4. CASE BtReport
    BY <2>2, <2>4 DEF BtReport, Sources
  <2>5. CASE \E s \in Sources : Act(s)
    BY <2>1, <2>5, ActInv
  <2>6. CASE BtOpen
    <3>1. btUp' \in 0..BT_MAX_DEV
      BY <2>1, <2>6 DEF BtOpen
    <3>2. TypeOK'
      BY <2>1, <2>6, <3>1 DEF BtOpen, IInv, TypeOK, HidTypeOK
    <3> QED BY <2>1, <2>6, <3>2, QuietInv DEF BtOpen
  <2>7. CASE BtClose
    <3>1. btUp' \in 0..BT_MAX_DEV
      BY <2>1, <2>7 DEF BtClose
    <3>2. "bt" \in Sources /\ {} \in SUBSET Inputs
      BY DEF Sources
    <3>3. Begin("bt", {}) /\ UNCHANGED <<s_kq, lost, ref, emu, g_menu_req>>
      BY <2>1, <2>7 DEF BtClose
    <3> QED BY <3>1, <3>2, <3>3, BeginInv
  <2> QED BY <1>5, <2>3, <2>4, <2>5, <2>6, <2>7 DEF HidStep, HidNext
<1>6. CASE UNCHANGED vars
  <2>1. TypeOK'
    BY <1>6 DEF vars, hidVars, IInv, TypeOK, HidTypeOK
  <2> QED BY <1>6, <2>1, QuietInv DEF vars, hidVars
<1> QED BY <1>1, <1>2, <1>3, <1>4, <1>5, <1>6 DEF Next

(* Whatever is dropped, eaten or held twice, the queue, the table and the  *)
(* reports stay related as Follows and Alone say.                          *)
THEOREM Invariance == Spec => []IInv
<1>1. Init => IInv
  BY InitInv
<1>2. IInv /\ [Next]_vars => IInv'
  BY NextInv
<1> QED BY <1>1, <1>2, PTL DEF Spec

(* Reports, events and the loop's place stay of their types and the queue  *)
(* never outgrows its length (kq_push() in usb_kbd.cpp).                   *)
THEOREM TypeCorrect == Spec => []TypeOK
<1>1. IInv => TypeOK
  BY DEF IInv
<1> QED BY <1>1, Invariance, PTL

(* Once the events are taken, the machine holds what the keyboards report, *)
(* for any keyboards and any interleaving with the emulator's loop.        *)
THEOREM FollowsAlways == Spec => []MachineFollows
<1>1. ASSUME IInv PROVE MachineFollows
  <2> SUFFICES ASSUME EventsSettled, NEW c \in Codes \ lost
               PROVE  /\ c \in ref => c \in Reported
                      /\ c \in Reported \ shared => c \in ref
    BY DEF MachineFollows
  <2>1. Holding(left, c) = {}
    BY DEF EventsSettled, Holding
  <2>2. Down(s_kq, ref, c) <=> c \in ref
    BY DEF EventsSettled, Down, Queued
  <2>3. c \in Reported <=> Holding(s_prev, c) # {}
    BY DEF Reported
  <2> QED BY <1>1, <2>1, <2>2, <2>3 DEF IInv, Follows
<1> QED BY <1>1, Invariance, PTL

-----------------------------------------------------------------------------
(* The mice: the counters wrap.                                            *)
LEMMA WrapIs ==
    ASSUME NEW n \in Int
    PROVE  Wrap(n) \in Counter /\ \E k \in Int : Wrap(n) = n + k * (2 * Half)
<1> DEFINE w == 2 * Half
           m == n + Half
           r == m % w
           q == m \div w
<1>1. w \in Nat \ {0} /\ m \in Int /\ Half \in Nat \ {0}
  BY MouseAssumption
<1> HIDE DEF w, m
<1>2. r \in 0..(w - 1) /\ q \in Int /\ m = w * q + r
  BY <1>1
<1> HIDE DEF r, q
<1>3. Wrap(n) = r - Half
  BY DEF Wrap, r, m, w
<1>4. Wrap(n) \in Counter
  BY <1>1, <1>2, <1>3 DEF Counter, w
<1>5. Wrap(n) = n + (-q) * w
  BY <1>1, <1>2, <1>3 DEF m
<1> QED BY <1>2, <1>4, <1>5 DEF w

LEMMA WrapUnique ==
    ASSUME NEW u \in Counter, NEW v \in Counter, NEW k \in Int, u = v + k * (2 * Half)
    PROVE  u = v
<1> DEFINE w == 2 * Half
<1>1. w \in Nat \ {0} /\ u \in Int /\ v \in Int /\ u - v < w /\ v - u < w
  BY MouseAssumption DEF Counter
<1>5. u = v + k * w
  OBVIOUS
<1> HIDE DEF w
<1>2. CASE k = 0
  BY <1>1, <1>2, <1>5
<1>3. CASE k >= 1
  <2>1. k * w >= w
    BY <1>1, <1>3
  <2>2. u >= v + w
    BY <1>1, <1>5, <2>1
  <2> QED BY <1>1, <2>2
<1>4. CASE k <= -1
  <2>1. k * w <= -w
    BY <1>1, <1>4
  <2>2. u <= v - w
    BY <1>1, <1>5, <2>1
  <2> QED BY <1>1, <2>2
<1> QED BY <1>2, <1>3, <1>4

LEMMA WrapSame ==
    ASSUME NEW n \in Counter
    PROVE  Wrap(n) = n
<1>1. n \in Int
  BY MouseAssumption DEF Counter
<1>2. PICK k \in Int : Wrap(n) = n + k * (2 * Half)
  BY <1>1, WrapIs
<1> QED BY <1>1, <1>2, WrapIs, WrapUnique

LEMMA WrapSum ==
    ASSUME NEW a \in Int, NEW b \in Int
    PROVE  Wrap(a + Wrap(b)) = Wrap(a + b)
<1> DEFINE w == 2 * Half
<1>1. PICK i \in Int : Wrap(b) = b + i * w
  BY WrapIs
<1>2. Wrap(b) \in Int /\ w \in Int
  BY WrapIs, MouseAssumption DEF Counter
<1>3. PICK j \in Int : Wrap(a + b) = (a + b) + j * w
  BY WrapIs
<1>4. PICK k \in Int : Wrap(a + Wrap(b)) = (a + Wrap(b)) + k * w
  BY <1>2, WrapIs
<1>5. Wrap(a + Wrap(b)) = Wrap(a + b) + (i + k - j) * w
  <2> HIDE DEF w
  <2>1. (i + k - j) * w = i * w + k * w - j * w
    BY <1>2
  <2> QED BY <1>1, <1>2, <1>3, <1>4, <2>1
<1>6. Wrap(a + Wrap(b)) \in Counter /\ Wrap(a + b) \in Counter
  BY <1>2, WrapIs
<1> QED BY <1>5, <1>6, WrapUnique
-----------------------------------------------------------------------------
(* A poll has taken what was left of the last one before it loads anew.    *)
Polled == doing["emu"].op # "idle" => rx = 0

(* A mouse is on its way in one place at a time: unseen, waiting for       *)
(* hid_task, being opened, or heard.                                       *)
Unheard ==
    /\ mice \cap (fresh \cup queued) = {} /\ queued \cap fresh = {}
    /\ doing["hid"].op = "open" => doing["hid"].mouse \notin mice \cup fresh \cup queued
    /\ doing["touch"].op \in {"attach", "attached"} => "touch" \notin mice

(* The count is that of the mice heard, but for those a task has yet to    *)
(* count in or out.                                                        *)
Coming(op) == IF op \in {"attach", "attached"} THEN 1 ELSE 0
Going(op) == IF op \in {"detach", "detaching", "detached"} THEN 1 ELSE 0

Counted ==
    ~miscount =>
        g_umouse_present + Coming(doing["hid"].op) + Coming(doing["bt"].op)
            = Cardinality(mice) + Going(doing["driver"].op) + Going(doing["bt"].op)

MouseInv == MouseTypeOK /\ Polled /\ MotionConserved /\ Unheard /\ Counted

LEMMA Numbers ==
    ASSUME MouseTypeOK
    PROVE  /\ g_umouse_dx \in Counter /\ x \in Counter /\ rx \in Counter /\ owed \in Counter
           /\ g_umouse_present \in Int /\ Counter \subseteq Int /\ 0 \in Counter /\ Motion \subseteq Int
BY MouseAssumption DEF MouseTypeOK, Counter

LEMMA DoesFits ==
    ASSUME MouseTypeOK, NEW t \in Tasks, NEW w, Fits(t, w), Does(t, w)
    PROVE  /\ doing'[t] = w /\ \A u \in Tasks \ {t} : doing'[u] = doing[u]
           /\ DOMAIN doing' = Tasks /\ \A u \in Tasks : Fits(u, doing'[u])
<1>1. DOMAIN doing = Tasks /\ \A u \in Tasks : Fits(u, doing[u])
  BY DEF MouseTypeOK
<1>2. /\ doing'[t] = w /\ \A u \in Tasks \ {t} : doing'[u] = doing[u]
      /\ DOMAIN doing' = Tasks
  BY <1>1 DEF Does
<1>3. ASSUME NEW u \in Tasks PROVE Fits(u, doing'[u])
  BY <1>1, <1>2
<1> QED BY <1>2, <1>3

(* What a task puts its name to fits it.                                   *)
LEMMA Names ==
    /\ \A t \in Tasks : Fits(t, Idle)
    /\ \A t \in {"hid", "bt", "touch"} : Fits(t, [op |-> "attach"])
    /\ \A t \in {"driver", "bt"} : Fits(t, [op |-> "detach"]) /\ Fits(t, [op |-> "detaching"])
    /\ Fits("emu", [op |-> "load"])
BY DEF Tasks, Movers, Fits, Doings, Idle

LEMMA Registers ==
    ASSUME NEW r \in Int, NEW c \in Counter
    PROVE  /\ \A t \in {"hid", "bt", "touch"} : Fits(t, [op |-> "attached", reg |-> r])
           /\ \A t \in {"driver", "bt"} : Fits(t, [op |-> "detached", reg |-> r])
           /\ Fits("emu", [op |-> "clear", reg |-> c])
           /\ \A t \in {"driver", "bt", "touch"}, d \in Motion :
                 Fits(t, [op |-> "report", d |-> d, reg |-> c])
           /\ \A m \in UsbMice : Fits("hid", [op |-> "open", mouse |-> m])
BY DEF Fits, Doings

LEMMA WrapType ==
    ASSUME NEW n \in Int
    PROVE  Wrap(n) \in Counter
BY WrapIs

LEMMA StoresTypes ==
    ASSUME MouseTypeOK, NEW reg \in Int, NEW n \in Counter, NEW account \in Counter,
           Stores(reg, n, account)
    PROVE  g_umouse_dx' \in Counter /\ owed' \in Counter /\ raced' \in BOOLEAN
<1>1. raced' \in BOOLEAN
  BY DEF Stores, MouseTypeOK
<1>2. g_umouse_dx' \in Counter
  BY DEF Stores
<1>3. owed' \in Counter
  <2>1. CASE raced'
    BY <2>1, Numbers DEF Stores
  <2>2. CASE ~raced'
    BY <2>2 DEF Stores
  <2> QED BY <2>1, <2>2
<1> QED BY <1>1, <1>2, <1>3

LEMMA TakenTypes ==
    ASSUME MouseTypeOK, NEW n \in Int, Taken(n)
    PROVE  owed' \in Counter
<1>1. Wrap(owed - n) \in Counter
  <2>1. owed - n \in Int
    BY Numbers
  <2> QED BY <2>1, WrapType
<1>2. CASE raced
  BY <1>2, Numbers DEF Taken
<1>3. CASE ~raced
  BY <1>3, <1>1 DEF Taken
<1> QED BY <1>2, <1>3

(* The types of a step that changes only what some tasks are at.           *)
LEMMA TypesKept ==
    ASSUME MouseTypeOK, UNCHANGED <<counters, presence, sockets, port>>,
           DOMAIN doing' = Tasks, \A t \in Tasks : Fits(t, doing'[t])
    PROVE  MouseTypeOK'
BY DEF MouseTypeOK, Fits, counters, presence, sockets, port

LEMMA TypesReport ==
    ASSUME MouseTypeOK
    PROVE  /\ \A m \in UsbMice \cup BtMice \cup {"touch"} : ReportLoad(m) => MouseTypeOK'
           /\ \A t \in Movers : ReportStore(t) => MouseTypeOK'
<1>1. ASSUME NEW m \in UsbMice \cup BtMice \cup {"touch"}, ReportLoad(m)
      PROVE  MouseTypeOK'
  <2> DEFINE t == Reporters(m)
  <2>1. t \in {"driver", "bt", "touch"} /\ t \in Tasks
    BY DEF Reporters, Tasks, Movers
  <2>2. PICK d \in Motion : Does(t, [op |-> "report", d |-> d, reg |-> g_umouse_dx])
    BY <1>1 DEF ReportLoad
  <2>3. Fits(t, [op |-> "report", d |-> d, reg |-> g_umouse_dx])
    BY <2>1, Numbers, Registers
  <2>4. DOMAIN doing' = Tasks /\ \A u \in Tasks : Fits(u, doing'[u])
    <3> HIDE DEF t
    <3> QED BY <2>1, <2>2, <2>3, DoesFits
  <2> QED BY <1>1, <2>4, TypesKept DEF ReportLoad
<1>2. ASSUME NEW t \in Movers, ReportStore(t)
      PROVE  MouseTypeOK'
  <2>1. t \in Tasks /\ Fits(t, doing[t])
    BY DEF Tasks, MouseTypeOK
  <2>2. doing[t].d \in Int /\ doing[t].reg \in Counter /\ doing[t].reg \in Int /\ owed \in Int
    BY <1>2, <2>1, Numbers DEF ReportStore, Fits
  <2>3. doing[t].reg + doing[t].d \in Int /\ owed + doing[t].d \in Int
    BY <2>2
  <2>4. Wrap(doing[t].reg + doing[t].d) \in Counter /\ Wrap(owed + doing[t].d) \in Counter
    BY <2>3, WrapType
  <2>5. g_umouse_dx' \in Counter /\ owed' \in Counter /\ raced' \in BOOLEAN
    BY <1>2, <2>2, <2>4, StoresTypes DEF ReportStore
  <2>6. DOMAIN doing' = Tasks /\ \A u \in Tasks : Fits(u, doing'[u])
    BY <1>2, <2>1, Names, DoesFits DEF ReportStore
  <2> QED BY <1>2, <2>5, <2>6 DEF ReportStore, MouseTypeOK, presence, sockets, port
<1> QED BY <1>1, <1>2

LEMMA TypesCount ==
    ASSUME MouseTypeOK, NEW t \in Movers,
           \/ AttachLoad(t) \/ AttachStore(t)
           \/ DetachCheck(t) \/ DetachLoad(t) \/ DetachStore(t)
    PROVE  MouseTypeOK'
<1>1. t \in Tasks /\ Fits(t, doing[t]) /\ Fits(t, Idle) /\ g_umouse_present \in Int
  BY Names, Numbers DEF Tasks, MouseTypeOK
<1>2. doing[t].op \in Doings[t]
  BY <1>1 DEF Fits
<1>3. CASE AttachLoad(t)
  <2>1. t \in {"hid", "bt", "touch"}
    BY <1>2, <1>3 DEF AttachLoad, Movers, Doings
  <2>2. Fits(t, [op |-> "attached", reg |-> g_umouse_present])
    BY <1>1, <2>1, Registers, Numbers
  <2>3. DOMAIN doing' = Tasks /\ \A u \in Tasks : Fits(u, doing'[u])
    BY <1>1, <1>3, <2>2, DoesFits DEF AttachLoad
  <2> QED BY <1>3, <2>3, TypesKept DEF AttachLoad
<1>4. CASE AttachStore(t)
  <2>1. doing[t].reg \in Int
    BY <1>1, <1>4 DEF AttachStore, Fits
  <2>2. g_umouse_present' \in Int /\ miscount' \in BOOLEAN
    BY <1>4, <2>1 DEF AttachStore, MouseTypeOK
  <2>3. mice' \subseteq UsbMice \cup BtMice \cup {"touch"}
    BY <1>4 DEF AttachStore, MouseTypeOK
  <2>4. DOMAIN doing' = Tasks /\ \A u \in Tasks : Fits(u, doing'[u])
    BY <1>1, <1>4, DoesFits DEF AttachStore
  <2> QED BY <1>4, <2>2, <2>3, <2>4 DEF AttachStore, MouseTypeOK, counters, port
<1>5. CASE DetachCheck(t)
  <2>1. t \in {"driver", "bt"}
    BY <1>2, <1>5 DEF DetachCheck, Movers, Doings
  <2>2. Fits(t, [op |-> "detaching"])
    BY <2>1, Names
  <2>3. DOMAIN doing' = Tasks /\ \A u \in Tasks : Fits(u, doing'[u])
    BY <1>1, <1>5, <2>2, DoesFits DEF DetachCheck
  <2>4. miscount' \in BOOLEAN
    BY <1>5 DEF DetachCheck, MouseTypeOK
  <2> QED BY <1>5, <2>3, <2>4 DEF DetachCheck, MouseTypeOK, counters, sockets, port
<1>6. CASE DetachLoad(t)
  <2>1. t \in {"driver", "bt"}
    BY <1>2, <1>6 DEF DetachLoad, Movers, Doings
  <2>2. Fits(t, [op |-> "detached", reg |-> g_umouse_present])
    BY <1>1, <2>1, Registers, Numbers
  <2>3. DOMAIN doing' = Tasks /\ \A u \in Tasks : Fits(u, doing'[u])
    BY <1>1, <1>6, <2>2, DoesFits DEF DetachLoad
  <2> QED BY <1>6, <2>3, TypesKept DEF DetachLoad
<1>7. CASE DetachStore(t)
  <2>1. doing[t].reg \in Int
    BY <1>1, <1>7 DEF DetachStore, Fits
  <2>2. g_umouse_present' \in Int /\ miscount' \in BOOLEAN
    BY <1>7, <2>1 DEF DetachStore, MouseTypeOK
  <2>4. DOMAIN doing' = Tasks /\ \A u \in Tasks : Fits(u, doing'[u])
    BY <1>1, <1>7, DoesFits DEF DetachStore
  <2> QED BY <1>7, <2>2, <2>4 DEF DetachStore, MouseTypeOK, counters, sockets, port
<1> QED BY <1>3, <1>4, <1>5, <1>6, <1>7

(* The types of a step that changes only who is heard.                     *)
LEMMA TypesSockets ==
    ASSUME MouseTypeOK, UNCHANGED <<counters, g_umouse_present, port>>, miscount' \in BOOLEAN,
           fresh' \subseteq fresh, queued' \cup plugged' \subseteq UsbMice,
           mice' \subseteq UsbMice \cup BtMice \cup {"touch"},
           DOMAIN doing' = Tasks, \A t \in Tasks : Fits(t, doing'[t])
    PROVE  MouseTypeOK'
BY DEF MouseTypeOK, Fits, counters, port

LEMMA TypesUsb ==
    ASSUME MouseTypeOK, \/ \E m \in UsbMice : Plug(m) \/ Connected(m) \/ Unplug(m)
                        \/ Open
    PROVE  MouseTypeOK'
<1>1. /\ DOMAIN doing = Tasks /\ \A t \in Tasks : Fits(t, doing[t])
      /\ {"hid", "driver"} \subseteq Tasks /\ miscount \in BOOLEAN
  BY DEF Tasks, Movers, MouseTypeOK
<1>2. /\ fresh \subseteq UsbMice \cup BtMice /\ queued \cup plugged \subseteq UsbMice
      /\ mice \subseteq UsbMice \cup BtMice \cup {"touch"}
  BY DEF MouseTypeOK
<1>3. ASSUME NEW m \in UsbMice, Plug(m) PROVE MouseTypeOK'
  BY <1>1, <1>2, <1>3, TypesSockets DEF Plug, presence
<1>4. ASSUME NEW m \in UsbMice, Connected(m) PROVE MouseTypeOK'
  <2>1. DOMAIN doing' = Tasks /\ \A u \in Tasks : Fits(u, doing'[u])
    <3>1. CASE m \in plugged
      BY <1>1, <1>4, <3>1, Registers, Numbers, DoesFits DEF Connected
    <3>2. CASE m \notin plugged
      BY <1>1, <1>4, <3>2 DEF Connected
    <3> QED BY <3>1, <3>2
  <2> QED BY <1>1, <1>2, <1>4, <2>1, TypesSockets DEF Connected, presence
<1>5. ASSUME NEW m \in UsbMice, Unplug(m) PROVE MouseTypeOK'
  <2>1. DOMAIN doing' = Tasks /\ \A u \in Tasks : Fits(u, doing'[u])
    <3>1. CASE m \in mice
      BY <1>1, <1>5, <3>1, Names, DoesFits DEF Unplug
    <3>2. CASE m \notin mice
      BY <1>1, <1>5, <3>2 DEF Unplug
    <3> QED BY <3>1, <3>2
  <2>2. mice' \subseteq mice
    BY <1>5 DEF Unplug
  <2> QED BY <1>1, <1>2, <1>5, <2>1, <2>2, TypesSockets DEF Unplug, presence
<1>6. CASE Open
  <2>1. doing["hid"].mouse \in UsbMice
    BY <1>1, <1>6 DEF Open, Fits
  <2>2. DOMAIN doing' = Tasks /\ \A u \in Tasks : Fits(u, doing'[u])
    BY <1>1, <1>6, Names, DoesFits DEF Open
  <2>3. mice' \subseteq UsbMice \cup BtMice \cup {"touch"} /\ miscount' \in BOOLEAN
    BY <1>1, <1>2, <1>6, <2>1 DEF Open
  <2> QED BY <1>2, <1>6, <2>2, <2>3, TypesSockets DEF Open
<1> QED BY <1>3, <1>4, <1>5, <1>6

LEMMA TypesBt ==
    ASSUME MouseTypeOK, NEW m \in BtMice, BtMouseOpen(m) \/ BtMouseClose(m)
    PROVE  MouseTypeOK'
<1>1. /\ DOMAIN doing = Tasks /\ \A t \in Tasks : Fits(t, doing[t])
      /\ "bt" \in Tasks /\ miscount \in BOOLEAN
  BY DEF Tasks, Movers, MouseTypeOK
<1>2. /\ fresh \subseteq UsbMice \cup BtMice /\ queued \cup plugged \subseteq UsbMice
      /\ mice \subseteq UsbMice \cup BtMice \cup {"touch"}
  BY DEF MouseTypeOK
<1>3. CASE BtMouseOpen(m)
  <2>1. DOMAIN doing' = Tasks /\ \A u \in Tasks : Fits(u, doing'[u])
    <3>1. CASE Does("bt", [op |-> "attach"])
      BY <1>1, <3>1, Names, DoesFits
    <3>2. CASE UNCHANGED doing
      BY <1>1, <3>2
    <3> QED BY <1>3, <3>1, <3>2 DEF BtMouseOpen
  <2>2. mice' \subseteq UsbMice \cup BtMice \cup {"touch"}
    BY <1>2, <1>3 DEF BtMouseOpen
  <2> QED BY <1>1, <1>2, <1>3, <2>1, <2>2, TypesSockets DEF BtMouseOpen, presence
<1>4. CASE BtMouseClose(m)
  <2>1. DOMAIN doing' = Tasks /\ \A u \in Tasks : Fits(u, doing'[u])
    BY <1>1, <1>4, Names, DoesFits DEF BtMouseClose
  <2> QED BY <1>1, <1>2, <1>4, <2>1, TypesSockets DEF BtMouseClose, presence
<1> QED BY <1>3, <1>4

LEMMA ShareIs ==
    ASSUME MouseTypeOK, NEW d \in Shares
    PROVE  d \in Int /\ rx - d \in Counter
BY Numbers, MouseAssumption DEF Shares, Counter

LEMMA TypesPort ==
    ASSUME MouseTypeOK, Sync \/ GuestRead \/ Latch \/ Reset
    PROVE  MouseTypeOK'
<1>1. /\ DOMAIN doing = Tasks /\ \A t \in Tasks : Fits(t, doing[t])
      /\ "emu" \in Tasks /\ miscount \in BOOLEAN /\ raced \in BOOLEAN
  BY DEF Tasks, Movers, MouseTypeOK
<1>2. /\ x \in Int /\ rx \in Int /\ 0 \in Counter
      /\ g_umouse_dx \in Counter /\ owed \in Counter
  BY Numbers
<1>3. CASE SyncBegin
  <2>1. x' \in Counter /\ rx' \in Counter
    <3>1. x + rx \in Int
      BY <1>2
    <3> QED BY <1>2, <1>3, <3>1, WrapType DEF SyncBegin
  <2>2. DOMAIN doing' = Tasks /\ \A u \in Tasks : Fits(u, doing'[u])
    <3>1. CASE Does("emu", [op |-> "load"])
      BY <1>1, <3>1, Names, DoesFits
    <3>2. CASE UNCHANGED doing
      BY <1>1, <3>2
    <3> QED BY <1>3, <3>1, <3>2 DEF SyncBegin
  <2> QED BY <1>3, <2>1, <2>2 DEF SyncBegin, MouseTypeOK, counters, presence, sockets
<1>4. CASE SyncLoad
  <2>2. DOMAIN doing' = Tasks /\ \A u \in Tasks : Fits(u, doing'[u])
    BY <1>1, <1>2, <1>4, Registers, DoesFits DEF SyncLoad
  <2> QED BY <1>4, <2>2, TypesKept DEF SyncLoad
<1>5. CASE SyncClear
  <2>1. doing["emu"].reg \in Counter /\ doing["emu"].reg \in Int
    BY <1>1, <1>5, Numbers DEF SyncClear, Fits
  <2>2. g_umouse_dx' \in Counter /\ owed' \in Counter /\ raced' \in BOOLEAN
    BY <1>2, <1>5, <2>1, StoresTypes DEF SyncClear
  <2>3. DOMAIN doing' = Tasks /\ \A u \in Tasks : Fits(u, doing'[u])
    BY <1>1, <1>5, Names, DoesFits DEF SyncClear
  <2> QED BY <1>5, <2>1, <2>2, <2>3 DEF SyncClear, MouseTypeOK, presence, sockets
<1>6. CASE GuestRead
  <2>1. PICK d \in Shares : x' = Wrap(x + d) /\ rx' = rx - d
    BY <1>6 DEF GuestRead
  <2>2. d \in Int /\ rx' \in Counter
    BY <2>1, ShareIs
  <2>3. x + d \in Int
    BY <1>2, <2>2
  <2>4. x' \in Counter
    BY <2>1, <2>3, WrapType
  <2> QED BY <1>6, <2>2, <2>4 DEF GuestRead, MouseTypeOK, Fits, counters, presence, sockets
<1>7. CASE Latch
  <2>1. PICK d \in Shares : rx' = rx - d /\ Taken(x + d)
    BY <1>7 DEF Latch
  <2>2. d \in Int /\ rx' \in Counter
    BY <2>1, ShareIs
  <2>3. x + d \in Int
    BY <1>2, <2>2
  <2>4. owed' \in Counter
    BY <2>1, <2>3, TakenTypes
  <2> QED BY <1>2, <1>7, <2>2, <2>4 DEF Latch, MouseTypeOK, Fits, presence, sockets
<1>8. CASE Reset
  <2>3. x + rx \in Int
    BY <1>2
  <2>4. owed' \in Counter
    BY <1>8, <2>3, TakenTypes DEF Reset
  <2> QED BY <1>2, <1>8, <2>4 DEF Reset, MouseTypeOK, Fits, presence, sockets
<1> QED BY <1>3, <1>4, <1>5, <1>6, <1>7, <1>8 DEF Sync

LEMMA MouseTypesKept ==
    ASSUME MouseTypeOK, MouseNext
    PROVE  MouseTypeOK'
<1>1. ASSUME NEW t \in Movers, TaskStep(t) PROVE MouseTypeOK'
  BY <1>1, TypesReport, TypesCount DEF TaskStep
<1> QED BY <1>1, TypesReport, TypesUsb, TypesBt, TypesPort DEF MouseNext

LEMMA MouseTypesFirst == MouseInit => MouseTypeOK
<1> SUFFICES ASSUME MouseInit PROVE MouseTypeOK
  OBVIOUS
<1>1. 0 \in Counter
  BY MouseAssumption DEF Counter
<1>2. DOMAIN doing = Tasks /\ \A t \in Tasks : Fits(t, doing[t])
  <2>1. Fits("touch", [op |-> "attach"])
    BY Names
  <2>2. \A t \in Tasks : Fits(t, Idle)
    BY Names
  <2>3. /\ DOMAIN doing = Tasks
        /\ \A t \in Tasks : doing[t] = IF t = "touch" THEN [op |-> "attach"] ELSE Idle
    BY DEF MouseInit
  <2>4. ASSUME NEW t \in Tasks PROVE Fits(t, doing[t])
    <3>1. CASE t = "touch"
      <4>1. doing["touch"] = [op |-> "attach"]
        BY <2>3, <3>1
      <4> QED BY <2>1, <3>1, <4>1
    <3>2. CASE t # "touch"
      <4>1. doing[t] = Idle
        BY <2>3, <3>2
      <4> QED BY <2>2, <4>1
    <3> QED BY <3>1, <3>2
  <2> QED BY <2>3, <2>4
<1>3. /\ g_umouse_dx = 0 /\ x = 0 /\ rx = 0 /\ owed = 0 /\ g_umouse_present = 0
      /\ fresh = UsbMice \cup BtMice /\ plugged = {} /\ queued = {} /\ mice = {}
      /\ raced = FALSE /\ miscount = FALSE
  BY DEF MouseInit
<1>4. 0 \in Int /\ {g_umouse_dx, x, rx, owed} \subseteq Counter
  BY <1>1, <1>3
<1>5. /\ fresh \subseteq UsbMice \cup BtMice /\ queued \cup plugged \subseteq UsbMice
      /\ mice \subseteq UsbMice \cup BtMice \cup {"touch"}
  BY <1>3
<1>6. {raced, miscount} \subseteq BOOLEAN
  BY <1>3
<1> QED BY <1>2, <1>3, <1>4, <1>5, <1>6 DEF MouseTypeOK

-----------------------------------------------------------------------------
(* Nothing the two say anything of has changed.                            *)
LEMMA MotionElsewhere ==
    ASSUME Polled, MotionConserved, UNCHANGED <<counters, port>>,
           doing'["emu"] = doing["emu"]
    PROVE  Polled' /\ MotionConserved'
BY DEF Polled, MotionConserved, counters, port, Wrap

LEMMA EmuElse ==
    ASSUME MouseTypeOK, NEW t \in Movers, NEW w, Does(t, w)
    PROVE  doing'["emu"] = doing["emu"]
BY DEF MouseTypeOK, Does, Movers, Tasks

LEMMA MotionOthers ==
    ASSUME MouseInv,
           \/ \E m \in UsbMice \cup BtMice \cup {"touch"} : ReportLoad(m)
           \/ \E t \in Movers : \/ AttachLoad(t) \/ AttachStore(t)
                                \/ DetachCheck(t) \/ DetachLoad(t) \/ DetachStore(t)
           \/ \E m \in UsbMice : Plug(m) \/ Connected(m) \/ Unplug(m)
           \/ Open
           \/ \E m \in BtMice : BtMouseOpen(m) \/ BtMouseClose(m)
    PROVE  Polled' /\ MotionConserved'
<1>1. {"hid", "driver", "bt", "touch"} \subseteq Movers
  BY DEF Movers
<1>2. MouseTypeOK /\ Polled /\ MotionConserved
  BY DEF MouseInv
<1>3. UNCHANGED <<counters, port>>
  BY DEF ReportLoad, AttachLoad, AttachStore, DetachCheck, DetachLoad, DetachStore, Plug,
         Connected, Unplug, Open, BtMouseOpen, BtMouseClose
<1>4. UNCHANGED doing \/ \E t \in Movers : \E w : Does(t, w)
  <2>1. ASSUME NEW m \in UsbMice \cup BtMice \cup {"touch"}, ReportLoad(m)
        PROVE  \E t \in Movers : \E w : Does(t, w)
    <3>1. Reporters(m) \in Movers
      BY DEF Reporters, Movers
    <3> QED BY <2>1, <3>1 DEF ReportLoad
  <2>2. ASSUME NEW t \in Movers, AttachLoad(t) \/ AttachStore(t) \/ DetachLoad(t) \/ DetachStore(t)
        PROVE  \E w : Does(t, w)
    BY <2>2 DEF AttachLoad, AttachStore, DetachLoad, DetachStore
  <2>3. ASSUME NEW t \in Movers, DetachCheck(t)
        PROVE  \E w : Does(t, w)
    <3>1. Does(t, [op |-> "detaching"]) \/ Does(t, Idle)
      BY <2>3 DEF DetachCheck
    <3> QED BY <3>1
  <2>4. ASSUME NEW m \in UsbMice, Plug(m) \/ Connected(m) \/ Unplug(m)
        PROVE  \/ UNCHANGED doing
               \/ Does("hid", [op |-> "open", mouse |-> m])
               \/ Does("driver", [op |-> "detach"])
    BY <2>4 DEF Plug, Connected, Unplug
  <2>5. ASSUME Open
        PROVE  Does("hid", [op |-> "attach"])
    BY <2>5 DEF Open
  <2>6. ASSUME NEW m \in BtMice, BtMouseOpen(m) \/ BtMouseClose(m)
        PROVE  UNCHANGED doing \/ Does("bt", [op |-> "attach"]) \/ Does("bt", [op |-> "detach"])
    BY <2>6 DEF BtMouseOpen, BtMouseClose
  <2> QED BY <1>1, <2>1, <2>2, <2>3, <2>4, <2>5, <2>6
<1>5. doing'["emu"] = doing["emu"]
  BY <1>2, <1>4, EmuElse
<1> QED BY <1>2, <1>3, <1>5, MotionElsewhere

LEMMA MotionReport ==
    ASSUME MouseInv, NEW t \in Movers, ReportStore(t)
    PROVE  Polled' /\ MotionConserved'
<1>1. MouseTypeOK /\ Polled /\ MotionConserved /\ t \in Tasks
  BY DEF MouseInv, Tasks
<1>2. Fits(t, doing[t]) /\ raced \in BOOLEAN
  BY <1>1 DEF MouseTypeOK
<1> DEFINE d == doing[t].d
           c == g_umouse_dx
           p == x + rx
<1>3. /\ d \in Int /\ c \in Int /\ p \in Int
      /\ g_umouse_dx + x + rx = c + p
  BY <1>1, <1>2, Numbers DEF ReportStore, Fits
<1>4. doing'["emu"] = doing["emu"] /\ UNCHANGED <<x, rx>>
  BY <1>1, EmuElse DEF ReportStore, port
<1>5. Polled'
  BY <1>1, <1>4 DEF Polled
<1>6. SUFFICES ASSUME ~raced' PROVE owed' = Wrap(g_umouse_dx' + x' + rx')
  BY <1>5 DEF MotionConserved
<1>7. /\ ~raced /\ doing[t].reg = g_umouse_dx
      /\ g_umouse_dx' = Wrap(doing[t].reg + d) /\ owed' = Wrap(owed + d)
  BY <1>2, <1>6 DEF ReportStore, Stores
<1>8. owed = Wrap(c + p)
  BY <1>1, <1>3, <1>7 DEF MotionConserved
<1>9. owed' = Wrap(d + Wrap(c + p)) /\ g_umouse_dx' + x' + rx' = p + Wrap(c + d)
  <2>1. owed \in Int /\ owed + d = d + owed
    BY <1>1, <1>3, Numbers
  <2>2. g_umouse_dx' = Wrap(c + d) /\ c + d \in Int
    BY <1>3, <1>7
  <2>3. Wrap(c + d) \in Int
    BY <1>1, <2>2, WrapType, Numbers
  <2> QED
    <3> HIDE DEF c, d
    <3>1. x \in Int /\ rx \in Int
      BY <1>1, Numbers
    <3> QED BY <1>4, <1>7, <1>8, <2>1, <2>2, <2>3, <3>1
<1>10. Wrap(d + Wrap(c + p)) = Wrap(d + (c + p)) /\ Wrap(p + Wrap(c + d)) = Wrap(p + (c + d))
  <2> HIDE DEF c, d, p
  <2>1. c + p \in Int /\ c + d \in Int
    BY <1>3
  <2> QED BY <1>3, <2>1, WrapSum
<1>11. d + (c + p) = p + (c + d)
  BY <1>3
<1> HIDE DEF c, d, p
<1> QED BY <1>9, <1>10, <1>11

(* What the guest takes of the port is what the account loses.             *)
LEMMA TakenLeaves ==
    ASSUME MouseTypeOK, MotionConserved, NEW n \in Int, Taken(n), ~raced,
           NEW rest \in Int, rest = x + rx - n
    PROVE  owed' = Wrap(g_umouse_dx + rest)
<1> DEFINE all == g_umouse_dx + x + rx
<1>1. all \in Int /\ -n \in Int /\ owed = Wrap(all) /\ g_umouse_dx + rest = -n + all
  BY Numbers DEF MotionConserved
<1>2. owed' = Wrap(-n + owed)
  <2>1. owed - n = -n + owed
    BY Numbers
  <2> QED BY <2>1 DEF Taken
<1> HIDE DEF all
<1> QED BY <1>1, <1>2, WrapSum

LEMMA MotionPort ==
    ASSUME MouseInv, Sync \/ GuestRead \/ Latch \/ Reset
    PROVE  Polled' /\ MotionConserved'
<1>1. MouseTypeOK /\ Polled /\ MotionConserved /\ DOMAIN doing = Tasks /\ "emu" \in Tasks
  BY DEF MouseInv, Tasks, MouseTypeOK
<1>2. /\ x \in Int /\ rx \in Int /\ g_umouse_dx \in Int /\ owed \in Int
      /\ x + rx \in Int /\ raced \in BOOLEAN
  BY <1>1, Numbers DEF MouseTypeOK
<1> DEFINE c == g_umouse_dx
<1>3. CASE SyncBegin
  <2>1. UNCHANGED <<g_umouse_dx, owed, raced>> /\ rx' = 0 /\ x' = Wrap(x + rx)
    BY <1>3 DEF SyncBegin, counters
  <2>2. Wrap(c + Wrap(x + rx)) = Wrap(c + (x + rx))
    BY <1>2, WrapSum
  <2>3. Wrap(x + rx) \in Int
    BY <1>1, <1>2, WrapType, Numbers
  <2>4. c + Wrap(x + rx) = g_umouse_dx' + x' + rx' /\ c + (x + rx) = g_umouse_dx + x + rx
    BY <1>2, <2>1, <2>3
  <2>5. MotionConserved'
    BY <1>1, <2>1, <2>2, <2>4 DEF MotionConserved
  <2> QED BY <2>1, <2>5 DEF Polled
<1>4. CASE SyncLoad
  <2>1. UNCHANGED <<counters, port>>
    BY <1>4 DEF SyncLoad
  <2>2. doing["emu"].op # "idle"
    BY <1>4 DEF SyncLoad
  <2>3. rx' = 0
    BY <1>1, <2>1, <2>2 DEF Polled, port
  <2>4. MotionConserved'
    BY <1>1, <2>1 DEF MotionConserved, counters, port
  <2> QED BY <2>3, <2>4 DEF Polled
<1>5. CASE SyncClear
  <2>1. rx = 0 /\ doing'["emu"].op = "idle"
    BY <1>1, <1>5 DEF SyncClear, Polled, Does, Idle
  <2>2. SUFFICES ASSUME ~raced' PROVE owed' = Wrap(g_umouse_dx' + x' + rx')
    BY <2>1 DEF Polled, MotionConserved
  <2>3. /\ ~raced /\ doing["emu"].reg = g_umouse_dx /\ owed' = owed /\ g_umouse_dx' = 0
        /\ rx' = g_umouse_dx /\ x' = x
    BY <1>2, <1>5, <2>2 DEF SyncClear, Stores
  <2>4. g_umouse_dx' + x' + rx' = g_umouse_dx + x + rx
    BY <1>2, <2>1, <2>3
  <2> QED BY <1>1, <2>3, <2>4 DEF MotionConserved
<1>6. CASE GuestRead
  <2>1. PICK d \in Shares : x' = Wrap(x + d) /\ rx' = rx - d
    BY <1>6 DEF GuestRead
  <2>2. UNCHANGED <<g_umouse_dx, owed, raced, doing>> /\ doing["emu"].op = "idle"
    BY <1>6 DEF GuestRead, counters, Runs, Idle
  <2>3. d \in Int /\ x + d \in Int /\ c + rx - d \in Int
    BY <1>1, <1>2, <2>1, ShareIs
  <2>4. Wrap((c + rx - d) + Wrap(x + d)) = Wrap((c + rx - d) + (x + d))
    BY <2>3, WrapSum
  <2>5. Wrap(x + d) \in Int
    BY <1>1, <2>3, WrapType, Numbers
  <2>6. (c + rx - d) + Wrap(x + d) = g_umouse_dx' + x' + rx'
    BY <1>2, <2>1, <2>2, <2>3, <2>5
  <2>7. (c + rx - d) + (x + d) = g_umouse_dx + x + rx
    BY <1>2, <2>3
  <2>8. MotionConserved'
    BY <1>1, <2>2, <2>4, <2>6, <2>7 DEF MotionConserved
  <2> QED BY <2>2, <2>8 DEF Polled
<1>7. CASE Latch
  <2>1. PICK d \in Shares : rx' = rx - d /\ Taken(x + d)
    BY <1>7 DEF Latch
  <2>2. /\ UNCHANGED <<g_umouse_dx, raced, doing>> /\ doing["emu"].op = "idle"
        /\ x' = 0
    BY <1>7 DEF Latch, Runs, Idle
  <2>3. SUFFICES ASSUME ~raced PROVE owed' = Wrap(g_umouse_dx' + x' + rx')
    BY <2>2 DEF Polled, MotionConserved
  <2>4. d \in Int /\ x + d \in Int /\ rx - d \in Int /\ rx - d = x + rx - (x + d)
    BY <1>1, <1>2, <2>1, ShareIs
  <2>5. owed' = Wrap(g_umouse_dx + (rx - d))
    BY <1>1, <2>1, <2>3, <2>4, TakenLeaves
  <2>6. g_umouse_dx' + x' + rx' = g_umouse_dx + (rx - d)
    BY <1>2, <2>1, <2>2, <2>4
  <2> QED BY <2>5, <2>6
<1>8. CASE Reset
  <2>2. /\ UNCHANGED <<g_umouse_dx, raced, doing>> /\ doing["emu"].op = "idle"
        /\ x' = 0 /\ rx' = 0 /\ Taken(x + rx)
    BY <1>8 DEF Reset, Runs, Idle
  <2>3. SUFFICES ASSUME ~raced PROVE owed' = Wrap(g_umouse_dx' + x' + rx')
    BY <2>2 DEF Polled, MotionConserved
  <2>4. 0 \in Int /\ 0 = x + rx - (x + rx)
    BY <1>2
  <2>5. owed' = Wrap(g_umouse_dx + 0)
    BY <1>1, <1>2, <2>2, <2>3, <2>4, TakenLeaves
  <2>6. g_umouse_dx' + x' + rx' = g_umouse_dx + 0
    BY <1>2, <2>2
  <2> QED BY <2>5, <2>6
<1> QED BY <1>3, <1>4, <1>5, <1>6, <1>7, <1>8 DEF Sync

-----------------------------------------------------------------------------
LEMMA Finite ==
    ASSUME MouseTypeOK
    PROVE  IsFiniteSet(mice) /\ Cardinality(mice) \in Int
<1>1. IsFiniteSet({"touch"})
  BY FS_Singleton
<1>2. IsFiniteSet(UsbMice \cup BtMice)
  BY MouseAssumption, FS_Union
<1>3. IsFiniteSet(UsbMice \cup BtMice \cup {"touch"})
  BY <1>1, <1>2, FS_Union
<1>4. IsFiniteSet(mice)
  BY <1>3, FS_Subset DEF MouseTypeOK
<1> QED BY <1>4, FS_CardinalityType

LEMMA OneMore ==
    ASSUME MouseTypeOK, NEW m, m \notin mice
    PROVE  Cardinality(mice \cup {m}) = Cardinality(mice) + 1
BY Finite, FS_AddElement

LEMMA OneLess ==
    ASSUME MouseTypeOK, NEW m \in mice
    PROVE  Cardinality(mice \ {m}) = Cardinality(mice) - 1
BY Finite, FS_RemoveElement

(* What a mover's step leaves of the others.                               *)
LEMMA DoesOne ==
    ASSUME MouseTypeOK, NEW t \in Tasks, NEW w, Does(t, w)
    PROVE  doing'[t] = w /\ \A u \in Tasks \ {t} : doing'[u] = doing[u]
BY DEF MouseTypeOK, Does

LEMMA Roles ==
    ASSUME MouseTypeOK
    PROVE  /\ {"hid", "driver", "bt", "touch", "emu"} = Tasks
           /\ {"hid", "driver", "bt", "touch"} = Movers
           /\ \A t \in Tasks : doing[t].op \in Doings[t]
           /\ miscount \in BOOLEAN /\ g_umouse_present \in Int
BY DEF MouseTypeOK, Tasks, Movers, Fits

(* Nothing counted and nobody heard has changed.                           *)
LEMMA PresenceElsewhere ==
    ASSUME Unheard, Counted, UNCHANGED <<presence, sockets>>,
           \A t \in {"hid", "driver", "bt", "touch"} :
              \/ doing'[t] = doing[t]
              \/ {doing[t].op, doing'[t].op} \subseteq {"idle", "report"}
              \/ {doing[t].op, doing'[t].op} \subseteq {"attach", "attached"}
              \/ {doing[t].op, doing'[t].op} \subseteq {"detach", "detaching", "detached"}
    PROVE  Unheard' /\ Counted'
<1>1. /\ doing'["hid"].op = "open" => doing'["hid"] = doing["hid"]
      /\ doing'["touch"].op \in {"attach", "attached"} => doing["touch"].op \in {"attach", "attached"}
  OBVIOUS
<1>2. Unheard'
  BY <1>1 DEF Unheard, sockets
<1>3. /\ Coming(doing'["hid"].op) = Coming(doing["hid"].op)
      /\ Coming(doing'["bt"].op) = Coming(doing["bt"].op)
      /\ Going(doing'["driver"].op) = Going(doing["driver"].op)
      /\ Going(doing'["bt"].op) = Going(doing["bt"].op)
  BY DEF Coming, Going
<1>4. Counted'
  BY <1>3 DEF Counted, presence, sockets
<1> QED BY <1>2, <1>4

LEMMA PresencePort ==
    ASSUME MouseInv, Sync \/ GuestRead \/ Latch \/ Reset
    PROVE  Unheard' /\ Counted'
<1>1. MouseTypeOK /\ Unheard /\ Counted
  BY DEF MouseInv
<1>2. UNCHANGED <<presence, sockets>>
  BY DEF Sync, SyncBegin, SyncLoad, SyncClear, GuestRead, Latch, Reset
<1>3. UNCHANGED doing \/ \E w : Does("emu", w)
  BY DEF Sync, SyncBegin, SyncLoad, SyncClear, GuestRead, Latch, Reset
<1>4. \A t \in {"hid", "driver", "bt", "touch"} : doing'[t] = doing[t]
  BY <1>1, <1>3, DoesOne, Roles
<1> QED BY <1>1, <1>2, <1>4, PresenceElsewhere

LEMMA PresenceReport ==
    ASSUME MouseInv,
           \/ \E m \in UsbMice \cup BtMice \cup {"touch"} : ReportLoad(m)
           \/ \E t \in Movers : ReportStore(t)
    PROVE  Unheard' /\ Counted'
<1>1. MouseTypeOK /\ Unheard /\ Counted
  BY DEF MouseInv
<1>2. UNCHANGED <<presence, sockets>>
  BY DEF ReportLoad, ReportStore
<1>3. ASSUME NEW m \in UsbMice \cup BtMice \cup {"touch"}, ReportLoad(m)
      PROVE  Unheard' /\ Counted'
  <2> DEFINE t == Reporters(m)
  <2>1. t \in {"driver", "bt", "touch"} /\ t \in Tasks
    BY DEF Reporters, Tasks, Movers
  <2>2. doing[t] = Idle /\ \E d \in Motion : Does(t, [op |-> "report", d |-> d, reg |-> g_umouse_dx])
    BY <1>3 DEF ReportLoad
  <2>3. doing[t].op = "idle" /\ doing'[t].op = "report" /\ \A u \in Tasks \ {t} : doing'[u] = doing[u]
    <3> HIDE DEF t
    <3>1. PICK d \in Motion : Does(t, [op |-> "report", d |-> d, reg |-> g_umouse_dx])
      BY <2>2
    <3>2. /\ doing'[t] = [op |-> "report", d |-> d, reg |-> g_umouse_dx]
          /\ \A u \in Tasks \ {t} : doing'[u] = doing[u]
      BY <1>1, <2>1, <3>1, DoesOne
    <3> QED BY <2>2, <3>2 DEF Idle
  <2> HIDE DEF t
  <2>4. {"hid", "driver", "bt", "touch"} \subseteq Tasks
    BY DEF Tasks, Movers
  <2> QED BY <1>1, <1>2, <2>3, <2>4, PresenceElsewhere
<1>4. ASSUME NEW t \in Movers, ReportStore(t)
      PROVE  Unheard' /\ Counted'
  <2>1. t \in Tasks /\ doing[t].op = "report" /\ doing'[t].op = "idle"
        /\ \A u \in Tasks \ {t} : doing'[u] = doing[u]
    BY <1>1, <1>4, DoesOne DEF ReportStore, Idle, Tasks
  <2>4. {"hid", "driver", "bt", "touch"} \subseteq Tasks
    BY DEF Tasks, Movers
  <2> QED BY <1>1, <1>2, <2>1, <2>4, PresenceElsewhere
<1> QED BY <1>3, <1>4

LEMMA PresenceAttach ==
    ASSUME MouseInv, NEW t \in Movers, AttachLoad(t) \/ AttachStore(t)
    PROVE  Unheard' /\ Counted'
<1>1. MouseTypeOK /\ Unheard /\ Counted
  BY DEF MouseInv
<1>2. t \in Tasks /\ t \in {"hid", "bt", "touch"}
  <2>1. t \in Tasks /\ doing[t].op \in Doings[t] /\ doing[t].op \in {"attach", "attached"}
    BY <1>1, Roles DEF AttachLoad, AttachStore, Tasks
  <2>2. Doings["driver"] \cap {"attach", "attached"} = {}
    BY DEF Doings
  <2>3. t # "driver"
    BY <2>1, <2>2
  <2> QED BY <2>1, <2>3 DEF Movers
<1>3. {"hid", "driver", "bt", "touch"} \subseteq Tasks
  BY DEF Tasks, Movers
<1>4. CASE AttachLoad(t)
  <2>1. doing[t].op = "attach" /\ doing'[t].op = "attached"
        /\ \A u \in Tasks \ {t} : doing'[u] = doing[u]
    <3>1. /\ doing'[t] = [op |-> "attached", reg |-> g_umouse_present]
          /\ \A u \in Tasks \ {t} : doing'[u] = doing[u]
      BY <1>1, <1>2, <1>4, DoesOne DEF AttachLoad
    <3> QED BY <1>4, <3>1 DEF AttachLoad
  <2>2. UNCHANGED <<presence, sockets>>
    BY <1>4 DEF AttachLoad
  <2> QED BY <1>1, <1>3, <2>1, <2>2, PresenceElsewhere
<1>5. CASE AttachStore(t)
  <2>1. doing[t].op = "attached" /\ doing'[t].op = "idle"
        /\ \A u \in Tasks \ {t} : doing'[u] = doing[u]
    BY <1>1, <1>2, <1>5, DoesOne DEF AttachStore, Idle
  <2>2. /\ miscount' = (miscount \/ doing[t].reg # g_umouse_present)
        /\ g_umouse_present' = doing[t].reg + 1
        /\ UNCHANGED <<fresh, plugged, queued>>
        /\ mice' = IF t = "touch" THEN mice \cup {"touch"} ELSE mice
    BY <1>5 DEF AttachStore
  <2>3. "touch" \notin fresh \cup queued
    BY <1>1, MouseAssumption DEF MouseTypeOK
  <2>4. Unheard'
    <3>1. /\ doing'["hid"].op = "open" => doing'["hid"] = doing["hid"]
          /\ t = "touch" => doing'["touch"].op = "idle"
          /\ t # "touch" => doing'["touch"] = doing["touch"]
      BY <1>2, <1>3, <2>1
    <3>2. doing["hid"].op = "open" => doing["hid"].mouse \in UsbMice
      BY <1>1, <1>3 DEF MouseTypeOK, Fits
    <3>3. doing["hid"].op = "open" => doing["hid"].mouse # "touch"
      BY <3>2, MouseAssumption
    <3>4. mice' \cap (fresh \cup queued) = {}
      BY <1>1, <2>2, <2>3 DEF Unheard
    <3>5. /\ doing'["hid"].op = "open" => doing'["hid"].mouse \notin mice' \cup fresh \cup queued
          /\ doing'["touch"].op \in {"attach", "attached"} => "touch" \notin mice'
      BY <1>1, <2>2, <3>1, <3>3 DEF Unheard
    <3> QED BY <1>1, <2>2, <3>4, <3>5 DEF Unheard
  <2>5. Counted'
    <3>1. SUFFICES ASSUME ~miscount'
          PROVE  g_umouse_present' + Coming(doing'["hid"].op) + Coming(doing'["bt"].op)
                   = Cardinality(mice') + Going(doing'["driver"].op) + Going(doing'["bt"].op)
      BY DEF Counted
    <3>2. miscount \in BOOLEAN
      BY <1>1, Roles
    <3>3. ~miscount /\ g_umouse_present' = g_umouse_present + 1
      BY <2>2, <3>1, <3>2
    <3>4. g_umouse_present + Coming(doing["hid"].op) + Coming(doing["bt"].op)
            = Cardinality(mice) + Going(doing["driver"].op) + Going(doing["bt"].op)
      BY <1>1, <3>3 DEF Counted
    <3>5. Cardinality(mice) \in Int /\ g_umouse_present \in Int
      BY <1>1, Finite, Roles
    <3>6. CASE t = "touch"
      <4>1. "touch" \notin mice
        BY <1>1, <2>1, <3>6 DEF Unheard
      <4>2. Cardinality(mice') = Cardinality(mice) + 1
        BY <1>1, <2>2, <3>6, <4>1, OneMore
      <4>3. \A u \in {"hid", "driver", "bt"} : doing'[u] = doing[u]
        BY <1>3, <2>1, <3>6
      <4> QED BY <3>3, <3>4, <3>5, <4>2, <4>3 DEF Coming, Going
    <3>7. CASE t \in {"hid", "bt"}
      <4>1. mice' = mice
        BY <2>2, <3>7
      <4>2. \A u \in {"hid", "driver", "bt"} \ {t} : doing'[u] = doing[u]
        BY <1>3, <2>1, <3>7
      <4> QED BY <2>1, <3>3, <3>4, <3>5, <3>7, <4>1, <4>2 DEF Coming, Going
    <3> QED BY <1>2, <3>6, <3>7
  <2> QED BY <2>4, <2>5
<1> QED BY <1>4, <1>5

LEMMA PresenceDetach ==
    ASSUME MouseInv, NEW t \in Movers, DetachCheck(t) \/ DetachLoad(t) \/ DetachStore(t)
    PROVE  Unheard' /\ Counted'
<1>1. MouseTypeOK /\ Unheard /\ Counted
  BY DEF MouseInv
<1>2. t \in Tasks /\ t \in {"driver", "bt"}
  <2>1. t \in Tasks /\ doing[t].op \in Doings[t] /\ doing[t].op \in {"detach", "detaching", "detached"}
    BY <1>1, Roles DEF DetachCheck, DetachLoad, DetachStore, Tasks
  <2>2. \A u \in {"hid", "touch"} : Doings[u] \cap {"detach", "detaching", "detached"} = {}
    BY DEF Doings
  <2>3. t \notin {"hid", "touch"}
    BY <2>1, <2>2
  <2> QED BY <2>1, <2>3 DEF Movers
<1>3. {"hid", "driver", "bt", "touch"} \subseteq Tasks
  BY DEF Tasks, Movers
<1>4. UNCHANGED sockets
  BY DEF DetachCheck, DetachLoad, DetachStore
<1>5. doing'["hid"] = doing["hid"] /\ doing'["touch"] = doing["touch"]
  <2>1. \E w : Does(t, w)
    <3>1. DetachCheck(t) => Does(t, [op |-> "detaching"]) \/ Does(t, Idle)
      BY DEF DetachCheck
    <3> QED BY <3>1 DEF DetachLoad, DetachStore
  <2> QED BY <1>1, <1>2, <1>3, <2>1, DoesOne
<1>6. Unheard'
  BY <1>1, <1>4, <1>5 DEF Unheard, sockets
<1>7. CASE DetachCheck(t) /\ miscount'
  BY <1>6, <1>7 DEF Counted
<1>8. CASE \/ DetachLoad(t)
           \/ DetachCheck(t) /\ UNCHANGED miscount /\ Does(t, [op |-> "detaching"])
  <2>1. /\ doing[t].op \in {"detach", "detaching"} /\ doing'[t].op \in {"detaching", "detached"}
        /\ \A u \in Tasks \ {t} : doing'[u] = doing[u]
    <3> DEFINE late == [op |-> "detached", reg |-> g_umouse_present]
    <3>1. doing[t].op \in {"detach", "detaching"}
      BY <1>8 DEF DetachLoad, DetachCheck
    <3>2. Does(t, late) \/ Does(t, [op |-> "detaching"])
      BY <1>8 DEF DetachLoad
    <3>3. late.op = "detached"
      OBVIOUS
    <3> HIDE DEF late
    <3>4. /\ doing'[t] = late \/ doing'[t] = [op |-> "detaching"]
          /\ \A u \in Tasks \ {t} : doing'[u] = doing[u]
      BY <1>1, <1>2, <3>2, DoesOne
    <3> QED BY <3>1, <3>3, <3>4
  <2>2. UNCHANGED <<presence, sockets>>
    BY <1>8 DEF DetachLoad, DetachCheck, presence
  <2> QED BY <1>1, <1>3, <2>1, <2>2, PresenceElsewhere
<1>9. CASE DetachStore(t)
  <2>1. doing[t].op = "detached" /\ doing'[t].op = "idle"
        /\ \A u \in Tasks \ {t} : doing'[u] = doing[u]
    BY <1>1, <1>2, <1>9, DoesOne DEF DetachStore, Idle
  <2>2. SUFFICES ASSUME ~miscount'
        PROVE  g_umouse_present' + Coming(doing'["hid"].op) + Coming(doing'["bt"].op)
                 = Cardinality(mice') + Going(doing'["driver"].op) + Going(doing'["bt"].op)
    BY <1>6 DEF Counted
  <2>3. miscount \in BOOLEAN /\ g_umouse_present \in Int /\ Cardinality(mice) \in Int
    BY <1>1, Roles, Finite
  <2>4. ~miscount /\ g_umouse_present' = g_umouse_present - 1 /\ mice' = mice
    BY <1>4, <1>9, <2>2, <2>3 DEF DetachStore, sockets
  <2>5. g_umouse_present + Coming(doing["hid"].op) + Coming(doing["bt"].op)
          = Cardinality(mice) + Going(doing["driver"].op) + Going(doing["bt"].op)
    BY <1>1, <2>4 DEF Counted
  <2>6. \A u \in {"hid", "driver", "bt"} \ {t} : doing'[u] = doing[u]
    BY <1>3, <2>1
  <2> QED BY <1>2, <2>1, <2>3, <2>4, <2>5, <2>6 DEF Coming, Going
<1> QED BY <1>7, <1>8, <1>9 DEF DetachCheck

LEMMA PresenceUsb ==
    ASSUME MouseInv, \/ \E m \in UsbMice : Plug(m) \/ Connected(m) \/ Unplug(m)
                     \/ Open
    PROVE  Unheard' /\ Counted'
<1>1. MouseTypeOK /\ Unheard /\ Counted
  BY DEF MouseInv
<1>2. {"hid", "driver", "bt", "touch"} \subseteq Tasks
  BY DEF Tasks, Movers
<1>3. ASSUME NEW m \in UsbMice, Plug(m) PROVE Unheard' /\ Counted'
  <2>1. /\ UNCHANGED <<presence, mice, doing>>
        /\ m \in fresh /\ fresh' = fresh \ {m} /\ queued' = queued \cup {m}
    BY <1>3 DEF Plug
  <2>2. Unheard'
    BY <1>1, <2>1 DEF Unheard
  <2>3. Counted'
    BY <1>1, <2>1 DEF Counted, presence
  <2> QED BY <2>2, <2>3
<1>4. ASSUME NEW m \in UsbMice, Connected(m) PROVE Unheard' /\ Counted'
  <2>1. /\ UNCHANGED <<presence, mice, fresh>> /\ m \in queued /\ queued' = queued \ {m}
        /\ doing["hid"] = Idle
        /\ UNCHANGED doing \/ Does("hid", [op |-> "open", mouse |-> m])
    BY <1>4 DEF Connected
  <2>2. /\ \A u \in {"driver", "bt", "touch"} : doing'[u] = doing[u]
        /\ doing'["hid"] \in {Idle, [op |-> "open", mouse |-> m]}
    BY <1>1, <1>2, <2>1, DoesOne
  <2>3. m \notin mice \cup fresh \cup queued'
    BY <1>1, <2>1 DEF Unheard
  <2>4. doing'["hid"].op = "open" => doing'["hid"].mouse = m
    BY <2>2 DEF Idle
  <2>5. Unheard'
    BY <1>1, <2>1, <2>2, <2>3, <2>4 DEF Unheard
  <2>6. /\ Coming(doing'["hid"].op) = Coming(doing["hid"].op)
    BY <2>1, <2>2 DEF Coming, Idle
  <2>7. Counted'
    BY <1>1, <2>1, <2>2, <2>6 DEF Counted, presence
  <2> QED BY <2>5, <2>7
<1>5. ASSUME NEW m \in UsbMice, Unplug(m) PROVE Unheard' /\ Counted'
  <2>1. UNCHANGED <<presence, fresh, queued>>
    BY <1>5 DEF Unplug
  <2>2. CASE m \notin mice
    <3>1. UNCHANGED <<mice, doing>>
      BY <1>5, <2>2 DEF Unplug
    <3>2. Unheard'
      BY <1>1, <2>1, <3>1 DEF Unheard
    <3>3. Counted'
      BY <1>1, <2>1, <3>1 DEF Counted, presence
    <3> QED BY <3>2, <3>3
  <2>3. CASE m \in mice
    <3>1. mice' = mice \ {m} /\ doing["driver"] = Idle /\ Does("driver", [op |-> "detach"])
      BY <1>5, <2>3 DEF Unplug
    <3>2. /\ \A u \in {"hid", "bt", "touch"} : doing'[u] = doing[u]
          /\ doing'["driver"] = [op |-> "detach"]
      BY <1>1, <1>2, <3>1, DoesOne
    <3>3. Unheard'
      BY <1>1, <2>1, <3>1, <3>2 DEF Unheard
    <3>4. Going(doing["driver"].op) = 0 /\ Going(doing'["driver"].op) = 1
      BY <3>1, <3>2 DEF Going, Idle
    <3>5. Cardinality(mice') = Cardinality(mice) - 1
      BY <1>1, <2>3, <3>1, OneLess
    <3>6. Cardinality(mice) \in Int /\ Going(doing["bt"].op) \in Int
      BY <1>1, Finite DEF Going
    <3>7. Counted'
      BY <1>1, <2>1, <3>2, <3>4, <3>5, <3>6 DEF Counted, presence
    <3> QED BY <3>3, <3>7
  <2> QED BY <2>2, <2>3
<1>6. CASE Open
  <2> DEFINE m == doing["hid"].mouse
  <2>1. /\ UNCHANGED <<g_umouse_present, fresh, queued>> /\ doing["hid"].op = "open"
        /\ Does("hid", [op |-> "attach"])
    BY <1>6 DEF Open
  <2>2. /\ \A u \in {"driver", "bt", "touch"} : doing'[u] = doing[u]
        /\ doing'["hid"] = [op |-> "attach"]
    BY <1>1, <1>2, <2>1, DoesOne
  <2>3. m \notin mice \cup fresh \cup queued /\ m # "touch"
    <3>1. m \in UsbMice
      BY <1>1, <1>2, <2>1 DEF MouseTypeOK, Fits
    <3> QED BY <1>1, <2>1, <3>1, MouseAssumption DEF Unheard
  <2>4. \/ mice' = mice \cup {m} /\ UNCHANGED miscount
        \/ mice' = mice /\ miscount'
    BY <1>6 DEF Open
  <2>5. doing'["hid"].op = "attach"
    BY <2>2
  <2> HIDE DEF m
  <2>6. Unheard'
    BY <1>1, <2>1, <2>2, <2>3, <2>4, <2>5 DEF Unheard
  <2>7. CASE mice' = mice \cup {m} /\ UNCHANGED miscount
    <3>1. Coming(doing["hid"].op) = 0 /\ Coming(doing'["hid"].op) = 1
      BY <2>1, <2>5 DEF Coming
    <3>2. Cardinality(mice') = Cardinality(mice) + 1
      BY <1>1, <2>3, <2>7, OneMore
    <3>3. /\ Cardinality(mice) \in Int /\ g_umouse_present \in Int
          /\ Coming(doing["bt"].op) \in Int
          /\ Going(doing["bt"].op) \in Int /\ Going(doing["driver"].op) \in Int
      BY <1>1, Finite, Roles DEF Coming, Going
    <3> QED BY <1>1, <2>1, <2>2, <2>6, <2>7, <3>1, <3>2, <3>3 DEF Counted
  <2> QED BY <2>4, <2>6, <2>7 DEF Counted
<1> QED BY <1>3, <1>4, <1>5, <1>6

LEMMA PresenceBt ==
    ASSUME MouseInv, NEW m \in BtMice, BtMouseOpen(m) \/ BtMouseClose(m)
    PROVE  Unheard' /\ Counted'
<1>1. MouseTypeOK /\ Unheard /\ Counted
  BY DEF MouseInv
<1>2. {"hid", "driver", "bt", "touch"} \subseteq Tasks
  BY DEF Tasks, Movers
<1>3. UNCHANGED <<presence, queued>> /\ doing["bt"].op = "idle"
  BY DEF BtMouseOpen, BtMouseClose, Idle
<1>4. Coming(doing["bt"].op) = 0 /\ Going(doing["bt"].op) = 0
  BY <1>3 DEF Coming, Going
<1>5. /\ Cardinality(mice) \in Int /\ g_umouse_present \in Int
      /\ Coming(doing["hid"].op) \in Int /\ Going(doing["driver"].op) \in Int
  BY <1>1, Finite, Roles DEF Coming, Going
<1>6. m \notin queued /\ m # "touch"
      /\ (doing["hid"].op = "open" => doing["hid"].mouse # m)
  <2>1. doing["hid"].op = "open" => doing["hid"].mouse \in UsbMice
    BY <1>1, <1>2 DEF MouseTypeOK, Fits
  <2>2. queued \subseteq UsbMice
    BY <1>1 DEF MouseTypeOK
  <2> QED BY <2>1, <2>2, MouseAssumption
<1>7. CASE BtMouseOpen(m) /\ UNCHANGED <<mice, doing>>
  <2>1. fresh' \subseteq fresh
    BY <1>7 DEF BtMouseOpen
  <2>2. Unheard'
    BY <1>1, <1>3, <1>7, <2>1 DEF Unheard
  <2> QED BY <1>1, <1>3, <1>7, <2>2 DEF Counted, presence
<1>8. CASE BtMouseOpen(m) /\ Does("bt", [op |-> "attach"]) /\ mice' = mice \cup {m}
  <2>1. fresh' = fresh \ {m} /\ m \in fresh
    BY <1>8 DEF BtMouseOpen
  <2>2. /\ \A u \in {"hid", "driver", "touch"} : doing'[u] = doing[u]
        /\ doing'["bt"] = [op |-> "attach"]
    BY <1>1, <1>2, <1>8, DoesOne
  <2>3. m \notin mice
    BY <1>1, <2>1 DEF Unheard
  <2>4. Unheard'
    BY <1>1, <1>3, <1>6, <1>8, <2>1, <2>2 DEF Unheard
  <2>5. Coming(doing'["bt"].op) = 1 /\ Going(doing'["bt"].op) = 0
    BY <2>2 DEF Coming, Going
  <2>6. Cardinality(mice') = Cardinality(mice) + 1
    BY <1>1, <1>8, <2>3, OneMore
  <2> QED BY <1>1, <1>3, <1>4, <1>5, <2>2, <2>4, <2>5, <2>6 DEF Counted, presence
<1>9. CASE BtMouseClose(m)
  <2>1. UNCHANGED fresh /\ m \in mice /\ mice' = mice \ {m} /\ Does("bt", [op |-> "detach"])
    BY <1>9 DEF BtMouseClose
  <2>2. /\ \A u \in {"hid", "driver", "touch"} : doing'[u] = doing[u]
        /\ doing'["bt"] = [op |-> "detach"]
    BY <1>1, <1>2, <2>1, DoesOne
  <2>4. Unheard'
    BY <1>1, <1>3, <2>1, <2>2 DEF Unheard
  <2>5. Coming(doing'["bt"].op) = 0 /\ Going(doing'["bt"].op) = 1
    BY <2>2 DEF Coming, Going
  <2>6. Cardinality(mice') = Cardinality(mice) - 1
    BY <1>1, <2>1, OneLess
  <2> QED BY <1>1, <1>3, <1>4, <1>5, <2>2, <2>4, <2>5, <2>6 DEF Counted, presence
<1> QED BY <1>7, <1>8, <1>9 DEF BtMouseOpen

LEMMA MouseInvFirst == MouseInit => MouseInv
<1> SUFFICES ASSUME MouseInit PROVE MouseInv
  OBVIOUS
<1>1. MouseTypeOK
  BY MouseTypesFirst
<1>2. /\ doing = [t \in Tasks |-> IF t = "touch" THEN [op |-> "attach"] ELSE Idle]
      /\ {"hid", "driver", "bt", "touch", "emu"} \subseteq Tasks
      /\ rx = 0 /\ x = 0 /\ g_umouse_dx = 0 /\ owed = 0
      /\ mice = {} /\ queued = {} /\ g_umouse_present = 0
  BY DEF MouseInit, Tasks, Movers
<1>3. /\ \A t \in {"hid", "driver", "bt", "emu"} : doing[t] = Idle
      /\ doing["touch"].op = "attach"
  BY <1>2
<1>4. Polled
  BY <1>2 DEF Polled
<1>5. MotionConserved
  BY <1>1, <1>2, WrapSame, Numbers DEF MotionConserved
<1>6. Unheard
  BY <1>2, <1>3 DEF Unheard, Idle
<1>7. Counted
  BY <1>2, <1>3, FS_EmptySet DEF Counted, Coming, Going, Idle
<1> QED BY <1>1, <1>4, <1>5, <1>6, <1>7 DEF MouseInv

LEMMA MouseInvKept == MouseInv /\ [MouseNext]_mouseVars => MouseInv'
<1> SUFFICES ASSUME MouseInv, [MouseNext]_mouseVars PROVE MouseInv'
  OBVIOUS
<1>1. CASE MouseNext
  <2>1. MouseTypeOK'
    BY <1>1, MouseTypesKept DEF MouseInv
  <2>2. Polled' /\ MotionConserved'
    BY <1>1, MotionOthers, MotionReport, MotionPort DEF MouseNext, TaskStep
  <2>3. Unheard' /\ Counted'
    BY <1>1, PresencePort, PresenceReport, PresenceAttach, PresenceDetach, PresenceUsb,
       PresenceBt DEF MouseNext, TaskStep
  <2> QED BY <2>1, <2>2, <2>3 DEF MouseInv
<1>2. CASE UNCHANGED mouseVars
  <2>1. UNCHANGED <<counters, presence, sockets, doing, port>>
    BY <1>2 DEF mouseVars
  <2>2. MouseTypeOK'
    BY <2>1 DEF MouseInv, MouseTypeOK, Fits, counters, presence, sockets, port
  <2>3. Polled' /\ MotionConserved'
    BY <2>1, MotionElsewhere DEF MouseInv
  <2>4. Unheard' /\ Counted'
    BY <2>1, PresenceElsewhere DEF MouseInv
  <2> QED BY <2>2, <2>3, <2>4 DEF MouseInv
<1> QED BY <1>1, <1>2

THEOREM MouseTypeCorrect == MouseSpec => []MouseTypeOK
<1>1. MouseInv => MouseTypeOK
  BY DEF MouseInv
<1> QED BY <1>1, MouseInvFirst, MouseInvKept, PTL DEF MouseSpec

THEOREM MotionKept == MouseSpec => []MotionConserved
<1>1. MouseInv => MotionConserved
  BY DEF MouseInv
<1> QED BY <1>1, MouseInvFirst, MouseInvKept, PTL DEF MouseSpec

THEOREM PresenceCounted == MouseSpec => []PresenceCount
<1>1. MouseInv => PresenceCount
  <2> SUFFICES ASSUME MouseInv, ~miscount, \A t \in Movers : doing[t].op \in {"idle", "report"}
      PROVE g_umouse_present = Cardinality(mice)
    BY DEF PresenceCount
  <2>1. \A t \in {"hid", "driver", "bt"} : doing[t].op \in {"idle", "report"}
    BY DEF Movers
  <2>2. /\ Coming(doing["hid"].op) = 0 /\ Coming(doing["bt"].op) = 0
        /\ Going(doing["driver"].op) = 0 /\ Going(doing["bt"].op) = 0
    BY <2>1 DEF Coming, Going
  <2>3. Cardinality(mice) \in Int /\ g_umouse_present \in Int
    BY Finite, Roles DEF MouseInv
  <2> QED BY <2>2, <2>3 DEF MouseInv, Counted
<1> QED BY <1>1, MouseInvFirst, MouseInvKept, PTL DEF MouseSpec
==============================================================================
