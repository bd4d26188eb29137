--------------------------- MODULE KeyboardProofs ---------------------------
(***************************************************************************)
(* Proofs about the emulated keyboard, for any key codes, any of them that *)
(* repeat, any length of the port's buffer and of the repeat list.         *)
(*                                                                         *)
(* The guest's view is what the codes on their way make of what it has     *)
(* read (Makes).  A send adds codes of one key at the end and changes that *)
(* key alone (ConcatTells); a read or a transfer moves the oldest code and *)
(* changes nothing (HeadTells).                                            *)
(***************************************************************************)
EXTENDS Keyboard, SequenceTheorems, FiniteSetTheorems, WellFoundedInduction, TLAPS

IInv == TypeOK /\ RepeatOnlyHeld /\ ByteNeverStranded /\ CodesTellTruth

Of(q, c) == \E i \in 1..Len(q) : q[i].code = c

(* The k-th code of q is the last that is of c.                            *)
LastIs(q, c, k) == /\ k \in 1..Len(q) /\ q[k].code = c
                   /\ \A i \in 1..Len(q) : q[i].code = c => i <= k

-----------------------------------------------------------------------------
(* What codes make of a key, when some are read before others.             *)
LEMMA MakesUnsaid ==
    ASSUME NEW q \in Seq(Byte), NEW down, NEW c, ~Of(q, c)
    PROVE  Makes(q, down, c) <=> c \in down
BY LenProperties DEF Makes, Of

LEMMA MakesByLast ==
    ASSUME NEW q \in Seq(Byte), NEW down, NEW c, NEW k, LastIs(q, c, k)
    PROVE  Makes(q, down, c) <=> q[k].make
<1> DEFINE says == {i \in DOMAIN q : q[i].code = c}
<1>1. DOMAIN q = 1..Len(q) /\ Len(q) \in Nat
  BY LenProperties
<1>2. k \in says /\ k \in Nat /\ \A i \in says : i \in Nat /\ i <= k
  BY <1>1 DEF LastIs
<1>3. ASSUME NEW i \in says, \A j \in says : j <= i PROVE i = k
  BY <1>1, <1>2, <1>3
<1> HIDE DEF says
<1>4. Makes(q, down, c) <=> \E i \in says : q[i].make /\ \A j \in says : j <= i
  BY <1>2 DEF Makes, says
<1> QED BY <1>2, <1>3, <1>4

(* A code that a sequence has, it has a last time.                         *)
LEMMA LastOf ==
    ASSUME NEW q \in Seq(Byte), NEW c, Of(q, c)
    PROVE  \E k : LastIs(q, c, k)
<1> DEFINE n == Len(q)
           back == {d \in 0..n : n - d \in 1..n /\ q[n - d].code = c}
<1>1. n \in Nat
  BY LenProperties
<1>2. PICK i \in 1..n : q[i].code = c
  BY DEF Of
<1>3. n - i \in back
  <2>1. n - i \in 0..n /\ n - (n - i) = i
    BY <1>1, <1>2
  <2> QED BY <1>2, <2>1
<1>4. back \subseteq Nat /\ back # {}
  <2>1. back \subseteq Nat
    OBVIOUS
  <2> HIDE DEF back
  <2> QED BY <1>3, <2>1
<1>5. PICK d \in back : \A e \in back : <<e, d>> \notin OpToRel(<, Nat)
  BY <1>4, WFMin, NatLessThanWellFounded, Zenon
<1>6. \A e \in back : ~(e < d)
  BY <1>4, <1>5, Zenon DEF OpToRel
<1>7. ASSUME NEW j \in 1..n, q[j].code = c PROVE j <= n - d
  <2>1. n - j \in back
    <3>1. n - j \in 0..n /\ n - (n - j) = j
      BY <1>1
    <3> QED BY <1>7, <3>1
  <2>2. d \in Nat /\ ~(n - j < d)
    BY <1>4, <1>6, <2>1
  <2> QED BY <1>1, <2>2
<1>8. n - d \in 1..n /\ q[n - d].code = c
  BY <1>5
<1> QED BY <1>7, <1>8 DEF LastIs

LEMMA ConcatTells ==
    ASSUME NEW p \in Seq(Byte), NEW r \in Seq(Byte), NEW down, NEW c
    PROVE  Makes(p \o r, down, c)
              <=> IF Of(r, c) THEN Makes(r, down, c) ELSE Makes(p, down, c)
<1> DEFINE q == p \o r
           m == Len(p)
           n == Len(r)
<1>1. /\ q \in Seq(Byte) /\ Len(q) = m + n /\ m \in Nat /\ n \in Nat
      /\ \A i \in 1..m : q[i] = p[i]
      /\ \A i \in 1..n : q[m + i] = r[i] /\ m + i \in 1..(m + n)
      /\ \A i \in 1..(m + n) : i \in 1..m \/ (i - m \in 1..n /\ q[i] = r[i - m])
  <2>1. /\ q \in Seq(Byte) /\ Len(q) = m + n /\ m \in Nat /\ n \in Nat
        /\ \A i \in 1..(m + n) : q[i] = IF i <= m THEN p[i] ELSE r[i - m]
    BY ConcatProperties, LenProperties
  <2> HIDE DEF q, m, n
  <2>2. \A i \in 1..m : i \in 1..(m + n) /\ i <= m
    BY <2>1
  <2>3. \A i \in 1..n : m + i \in 1..(m + n) /\ ~(m + i <= m) /\ (m + i) - m = i
    BY <2>1
  <2>4. \A i \in 1..(m + n) : i \in 1..m \/ (i - m \in 1..n /\ ~(i <= m))
    BY <2>1
  <2> QED BY <2>1, <2>2, <2>3, <2>4
<1> HIDE DEF q, m, n
<1>2. CASE Of(r, c)
  <2>1. PICK k : LastIs(r, c, k)
    BY <1>2, LastOf
  <2>2. k \in 1..n /\ r[k].code = c /\ \A i \in 1..n : r[i].code = c => i <= k
    BY <2>1 DEF LastIs, n
  <2>3. m + k \in 1..(m + n) /\ q[m + k] = r[k]
    BY <1>1, <2>2
  <2>4. ASSUME NEW i \in 1..(m + n), q[i].code = c PROVE i <= m + k
    <3>1. CASE i \in 1..m
      BY <1>1, <2>2, <3>1
    <3>2. CASE i - m \in 1..n /\ q[i] = r[i - m]
      <4>1. i - m <= k
        BY <2>2, <2>4, <3>2
      <4> QED BY <1>1, <2>2, <4>1
    <3> QED BY <1>1, <3>1, <3>2
  <2>5. LastIs(q, c, m + k)
    BY <1>1, <2>2, <2>3, <2>4 DEF LastIs
  <2>6. Makes(q, down, c) <=> q[m + k].make
    BY <1>1, <2>5, MakesByLast
  <2>7. Makes(r, down, c) <=> r[k].make
    BY <2>1, MakesByLast
  <2> QED BY <1>2, <2>3, <2>6, <2>7 DEF q
<1>3. CASE ~Of(r, c) /\ Of(p, c)
  <2>1. PICK k : LastIs(p, c, k)
    BY <1>3, LastOf
  <2>2. k \in 1..m /\ p[k].code = c /\ \A i \in 1..m : p[i].code = c => i <= k
    BY <2>1 DEF LastIs, m
  <2>3. k \in 1..(m + n) /\ q[k] = p[k]
    BY <1>1, <2>2
  <2>4. \A i \in 1..n : r[i].code # c
    BY <1>3 DEF Of, n
  <2>5. \A i \in 1..(m + n) : q[i].code = c => i <= k
    BY <1>1, <2>2, <2>4
  <2>6. LastIs(q, c, k)
    BY <1>1, <2>2, <2>3, <2>5 DEF LastIs
  <2>7. Makes(q, down, c) <=> q[k].make
    BY <1>1, <2>6, MakesByLast
  <2>8. Makes(p, down, c) <=> p[k].make
    BY <2>1, MakesByLast
  <2> QED BY <1>3, <2>3, <2>7, <2>8 DEF q
<1>4. CASE ~Of(r, c) /\ ~Of(p, c)
  <2>1. ~Of(q, c)
    BY <1>1, <1>4 DEF Of, m, n
  <2>2. Makes(q, down, c) <=> c \in down
    BY <1>1, <2>1, MakesUnsaid
  <2>3. Makes(p, down, c) <=> c \in down
    BY <1>4, MakesUnsaid
  <2> QED BY <1>4, <2>2, <2>3 DEF q
<1> QED BY <1>2, <1>3, <1>4

(* The guest reads the oldest code.                                        *)
Reads(b, down) == IF b.make THEN down \cup {b.code} ELSE down \ {b.code}

LEMMA HeadTells ==
    ASSUME NEW b \in Byte, NEW q \in Seq(Byte), NEW down, NEW c
    PROVE  Makes(<<b>> \o q, down, c) <=> Makes(q, Reads(b, down), c)
<1> DEFINE after == Reads(b, down)
<1>1. <<b>> \in Seq(Byte) /\ Len(<<b>>) = 1 /\ <<b>>[1] = b
  OBVIOUS
<1>2. Makes(<<b>> \o q, down, c) <=> IF Of(q, c) THEN Makes(q, down, c) ELSE Makes(<<b>>, down, c)
  BY <1>1, ConcatTells
<1>3. CASE Of(q, c)
  <2>1. PICK k : LastIs(q, c, k)
    BY <1>3, LastOf
  <2> HIDE DEF after
  <2>2. /\ Makes(q, down, c) <=> q[k].make
        /\ Makes(q, after, c) <=> q[k].make
    BY <2>1, MakesByLast
  <2> QED BY <1>2, <1>3, <2>2 DEF after
<1>4. CASE ~Of(q, c) /\ b.code = c
  <2>1. Makes(<<b>>, down, c) <=> b.make
    <3>1. LastIs(<<b>>, c, 1)
      BY <1>1, <1>4 DEF LastIs
    <3> QED BY <1>1, <3>1, MakesByLast
  <2>2. c \in after <=> b.make
    BY <1>4 DEF Reads
  <2> HIDE DEF after
  <2>3. Makes(q, after, c) <=> c \in after
    BY <1>4, MakesUnsaid
  <2> QED BY <1>2, <1>4, <2>1, <2>2, <2>3 DEF after
<1>5. CASE ~Of(q, c) /\ b.code # c
  <2>1. ~Of(<<b>>, c)
    BY <1>1, <1>5 DEF Of
  <2>2. Makes(<<b>>, down, c) <=> c \in down
    BY <1>1, <2>1, MakesUnsaid
  <2>3. c \in after <=> c \in down
    BY <1>5 DEF Reads
  <2> HIDE DEF after
  <2>4. Makes(q, after, c) <=> c \in after
    BY <1>5, MakesUnsaid
  <2> QED BY <1>2, <1>5, <2>2, <2>3, <2>4 DEF after
<1> QED BY <1>3, <1>4, <1>5

-----------------------------------------------------------------------------
LEMMA InFlightType ==
    ASSUME TypeOK
    PROVE  /\ InFlight \in Seq(Byte)
           /\ InFlight = (IF ready /\ data # Ack THEN <<data>> ELSE <<>>) \o buf
<1>1. (IF ready /\ data # Ack THEN <<data>> ELSE <<>>) \in Seq(Byte) /\ buf \in Seq(Byte)
  BY DEF TypeOK
<1> QED BY <1>1, ConcatProperties DEF InFlight

(* What the primed formulas say, with the primes inside.                   *)
LEMMA TruthPrimed ==
    ASSUME \A c \in KeyCodes \ unsaid' : Makes(InFlight', guest', c) <=> c \in ref'
    PROVE  CodesTellTruth'
BY DEF CodesTellTruth, WillBeDown, Makes

LEMMA NothingTold ==
    ASSUME CodesTellTruth, InFlight' = InFlight, UNCHANGED <<ref, guest, unsaid>>
    PROVE  CodesTellTruth'
BY TruthPrimed DEF CodesTellTruth, WillBeDown

(* Codes of one key, the last of them right, keep the truth about it and   *)
(* about every other; and none is left behind.                             *)
LEMMA SendKeeps ==
    ASSUME TypeOK, ByteNeverStranded, CodesTellTruth,
           NEW k \in KeyCodes, NEW bytes \in Seq(Byte), NEW mute \in SUBSET {k},
           Send(bytes, mute), UNCHANGED serialVars,
           \A i \in 1..Len(bytes) : bytes[i].code = k,
           \A c \in KeyCodes \ {k} : c \in ref' <=> c \in ref,
           k \notin mute => Len(bytes) > 0 /\ (bytes[Len(bytes)].make <=> k \in ref')
    PROVE  /\ buf' \in Seq(Byte) /\ Len(buf') <= KB_BUF
           /\ armed' \in BOOLEAN /\ unsaid' \subseteq KeyCodes
           /\ ByteNeverStranded' /\ CodesTellTruth'
<1> DEFINE m == Len(bytes)
           room == KB_BUF - Len(buf)
           n == IF m <= room THEN m ELSE room
           sub == SubSeq(bytes, 1, n)
<1>1. /\ m \in Nat /\ Len(buf) \in Nat /\ KB_BUF \in Nat /\ Len(buf) <= KB_BUF
      /\ buf \in Seq(Byte) /\ unsaid \subseteq KeyCodes /\ armed \in BOOLEAN
      /\ ready \in BOOLEAN
  BY KeyboardAssumption, LenProperties DEF TypeOK
<1>2. n \in 0..m /\ Len(buf) + n <= KB_BUF
  BY <1>1
<1>3. sub \in Seq(Byte) /\ Len(sub) = n /\ \A i \in 1..n : sub[i] = bytes[i]
  <2>1. n \in Nat /\ 1..n \subseteq 1..m
    BY <1>1, <1>2
  <2>2. \A i \in 1..n : bytes[i] \in Byte
    BY <2>1, ElementOfSeq
  <2> HIDE DEF n
  <2> QED BY <1>2, <2>1, <2>2, SubSeqProperties
<1>4. /\ buf' = buf \o sub /\ armed' = (armed \/ n > 0)
      /\ unsaid' = (unsaid \ {bytes[i].code : i \in 1..n})
                       \cup {bytes[i].code : i \in (n + 1)..m} \cup mute
  BY DEF Send
<1> HIDE DEF n, m, sub
<1>5. buf' \in Seq(Byte) /\ Len(buf') = Len(buf) + n
  BY <1>1, <1>3, <1>4, ConcatProperties
<1>6. \A i \in 1..n : i \in 1..m /\ bytes[i].code = k
  BY <1>1, <1>2 DEF m
<1>7. \A i \in (n + 1)..m : i \in 1..m /\ bytes[i].code = k
  BY <1>1, <1>2 DEF m
<1>8. /\ unsaid' \subseteq unsaid \cup {k} /\ unsaid \ {k} \subseteq unsaid'
      /\ k \notin unsaid' => n = m /\ k \notin mute
  <2>1. unsaid' \subseteq unsaid \cup {k} /\ unsaid \ {k} \subseteq unsaid'
    BY <1>4, <1>6, <1>7
  <2>2. ASSUME n # m PROVE k \in unsaid'
    <3>1. m \in (n + 1)..m
      BY <1>1, <1>2, <2>2
    <3>2. bytes[m].code = k
      BY <1>7, <3>1
    <3> QED BY <1>4, <3>1, <3>2
  <2> QED BY <1>4, <2>1, <2>2
<1>9. ByteNeverStranded'
  <2>1. ASSUME ctrls' > 0 \/ buf' # <<>> PROVE armed'
    <3>1. CASE n > 0
      BY <1>1, <1>4, <3>1
    <3>2. CASE ~(n > 0)
      <4>1. Len(buf') = Len(buf)
        BY <1>1, <1>2, <1>5, <3>2
      <4>2. buf' # <<>> => buf # <<>>
        BY <1>1, <1>5, <4>1, EmptySeq
      <4>3. ctrls' = ctrls
        BY DEF serialVars
      <4>4. armed
        BY <2>1, <4>2, <4>3 DEF ByteNeverStranded
      <4> QED BY <1>4, <4>4
    <3> QED BY <3>1, <3>2
  <2> QED BY <2>1 DEF ByteNeverStranded
<1>10. InFlight \in Seq(Byte) /\ InFlight' = InFlight \o sub
  <2> DEFINE reg == IF ready /\ data # Ack THEN <<data>> ELSE <<>>
  <2>1. reg \in Seq(Byte)
    BY DEF TypeOK
  <2>2. InFlight \in Seq(Byte) /\ InFlight = reg \o buf
    BY InFlightType
  <2>3. InFlight' = reg \o buf'
    BY DEF InFlight, serialVars
  <2> HIDE DEF reg
  <2>4. (reg \o buf) \o sub = reg \o (buf \o sub)
    BY <1>1, <1>3, <2>1, ConcatAssociative
  <2> QED BY <1>4, <2>2, <2>3, <2>4
<1>11. guest' = guest
  BY DEF serialVars
<1>12. ASSUME NEW c \in KeyCodes \ unsaid' PROVE Makes(InFlight', guest', c) <=> c \in ref'
  <2>1. Makes(InFlight', guest', c)
           <=> IF Of(sub, c) THEN Makes(sub, guest, c) ELSE Makes(InFlight, guest, c)
    BY <1>3, <1>10, <1>11, ConcatTells
  <2>2. CASE c # k
    <3>1. ~Of(sub, c)
      BY <1>3, <1>6, <2>2 DEF Of
    <3>2. c \in KeyCodes \ unsaid
      BY <1>8, <1>12, <2>2
    <3>3. Makes(InFlight, guest, c) <=> c \in ref
      BY <3>2 DEF CodesTellTruth, WillBeDown
    <3>4. c \in ref' <=> c \in ref
      BY <2>2
    <3> QED BY <2>1, <3>1, <3>3, <3>4
  <2>3. CASE c = k
    <3>1. n = m /\ m > 0 /\ (bytes[m].make <=> k \in ref')
      BY <1>8, <1>12, <2>3 DEF m
    <3>2. m \in 1..m /\ sub[m] = bytes[m] /\ bytes[m].code = k
      BY <1>1, <1>3, <1>6, <3>1
    <3>3. LastIs(sub, c, m)
      BY <1>1, <1>3, <2>3, <3>1, <3>2 DEF LastIs
    <3>4. Of(sub, c)
      BY <3>3 DEF Of, LastIs
    <3>5. Makes(sub, guest, c) <=> sub[m].make
      BY <1>3, <3>3, MakesByLast
    <3> QED BY <2>1, <2>3, <3>1, <3>2, <3>4, <3>5
  <2> QED BY <2>2, <2>3
<1> QED BY <1>1, <1>2, <1>4, <1>5, <1>8, <1>9, <1>12, TruthPrimed

-----------------------------------------------------------------------------
(* The repeat list: keys that may repeat, of those given, each once.       *)
Listed(list, keys) ==
    /\ list \in Seq(Repeats) /\ Len(list) <= KEYREPEAT_BUF_MAX
    /\ \A i \in 1..Len(list) : list[i] \in keys
    /\ \A i, j \in 1..Len(list) : list[i] = list[j] => i = j

LEMMA SeqOf ==
    ASSUME NEW S, NEW m \in Nat, NEW f \in [1..m -> S]
    PROVE  f \in Seq(S) /\ Len(f) = m
<1>1. f \in Seq(S)
  BY SeqDef
<1>2. 1..Len(f) = 1..m /\ Len(f) \in Nat
  BY <1>1, LenProperties
<1> QED BY <1>1, <1>2

LEMMA ListedNow ==
    ASSUME TypeOK, RepeatOnlyHeld
    PROVE  Listed(keyrepeat_buf, ref)
BY LenProperties DEF TypeOK, RepeatOnlyHeld, Listed

LEMMA ListedPrimed ==
    ASSUME Listed(keyrepeat_buf', ref')
    PROVE  RepeatOnlyHeld'
<1>1. DOMAIN keyrepeat_buf' = 1..Len(keyrepeat_buf')
  BY LenProperties DEF Listed
<1>2. \A i \in 1..Len(keyrepeat_buf') : keyrepeat_buf'[i] \in Repeats
  BY ElementOfSeq DEF Listed
<1> QED BY <1>1, <1>2 DEF Listed, RepeatOnlyHeld

LEMMA ListedMore ==
    ASSUME NEW list, NEW keys, NEW more, Listed(list, keys), keys \subseteq more
    PROVE  Listed(list, more)
BY DEF Listed

LEMMA WithoutFacts ==
    ASSUME TypeOK, RepeatOnlyHeld, NEW c
    PROVE  Listed(Without(c), ref \ {c})
<1> DEFINE list == keyrepeat_buf
           n == Len(list)
           at == {i \in DOMAIN list : list[i] = c}
           Removed(k) == [i \in 1..(n - 1) |-> list[IF i < k THEN i ELSE i + 1]]
<1>1. /\ list \in Seq(Repeats) /\ n \in Nat /\ n <= KEYREPEAT_BUF_MAX
      /\ \A i \in 1..n : list[i] \in ref /\ list[i] \in Repeats
      /\ \A i, j \in 1..n : list[i] = list[j] => i = j
      /\ at = {i \in 1..n : list[i] = c}
  BY ListedNow, LenProperties, ElementOfSeq DEF Listed, RepeatOnlyHeld
<1>2. Without(c) = IF at = {} THEN list ELSE Removed(CHOOSE k \in at : \A i \in at : i <= k)
  BY DEF Without
<1>3. CASE at = {}
  <2>1. \A i \in 1..n : list[i] \in ref \ {c}
    BY <1>1, <1>3
  <2> QED BY <1>1, <1>2, <1>3, <2>1 DEF Listed
<1>4. ASSUME NEW k \in at PROVE Listed(Removed(k), ref \ {c})
  <2>1. k \in 1..n /\ list[k] = c /\ n - 1 \in Nat /\ KEYREPEAT_BUF_MAX \in Nat
    BY <1>1, KeyboardAssumption
  <2> DEFINE from(i) == IF i < k THEN i ELSE i + 1
  <2>2. \A i \in 1..(n - 1) : from(i) \in 1..n /\ from(i) # k
    BY <1>1, <2>1
  <2>3. \A i, j \in 1..(n - 1) : from(i) = from(j) => i = j
    BY <1>1, <2>1
  <2>4. \A i \in 1..(n - 1) : Removed(k)[i] = list[from(i)]
    OBVIOUS
  <2>5. Removed(k) \in [1..(n - 1) -> Repeats]
    BY <1>1, <2>2
  <2> DEFINE r == Removed(k)
  <2> HIDE DEF from, r
  <2>6. r \in Seq(Repeats) /\ Len(r) = n - 1
    BY <2>1, <2>5, SeqOf DEF r
  <2>7. \A i \in 1..(n - 1) : r[i] = list[from(i)]
    BY <2>4 DEF r
  <2> HIDE DEF at, list, n
  <2>8. \A i \in 1..(n - 1) : r[i] \in ref \ {c}
    BY <1>1, <2>1, <2>2, <2>7
  <2>9. \A i, j \in 1..(n - 1) : r[i] = r[j] => i = j
    BY <1>1, <2>2, <2>3, <2>7
  <2>10. n - 1 <= KEYREPEAT_BUF_MAX
    BY <1>1, <2>1
  <2>11. Listed(r, ref \ {c})
    BY <2>6, <2>8, <2>9, <2>10 DEF Listed
  <2> QED BY <2>11 DEF r, list, n
<1>5. CASE at # {}
  <2>1. \E k \in at : \A i \in at : i <= k
    <3>1. PICK k \in at : TRUE
      BY <1>5
    <3>2. \A i \in at : i = k /\ i \in Nat
      BY <1>1
    <3> HIDE DEF at
    <3> QED BY <3>1, <3>2
  <2> DEFINE k == CHOOSE k \in at : \A i \in at : i <= k
  <2> HIDE DEF at
  <2>2. k \in at
    BY <2>1
  <2> HIDE DEF k, Removed
  <2>3. Listed(Removed(k), ref \ {c})
    BY <1>4, <2>2
  <2>4. Without(c) = Removed(k)
    BY <1>2, <1>5 DEF k
  <2> QED BY <2>3, <2>4
<1> QED BY <1>3, <1>5

(* A press, on a list that has neither the key nor one that is up.         *)
LEMMA PressKeeps ==
    ASSUME TypeOK, ByteNeverStranded, CodesTellTruth,
           NEW c \in KeyCodes, NEW pre \in Seq(Byte), NEW list,
           \A i \in 1..Len(pre) : pre[i].code = c,
           Listed(list, ref \ {c}), ref' = ref \cup {c},
           Press(c, pre, list), UNCHANGED serialVars
    PROVE  /\ keyrepeat_buf' \in Seq(Repeats) /\ Len(keyrepeat_buf') <= KEYREPEAT_BUF_MAX
           /\ buf' \in Seq(Byte) /\ Len(buf') <= KB_BUF
           /\ armed' \in BOOLEAN /\ unsaid' \subseteq KeyCodes
           /\ RepeatOnlyHeld' /\ ByteNeverStranded' /\ CodesTellTruth'
<1> DEFINE all == Append(pre, Make(c))
           m == Len(pre)
<1>1. Make(c) \in Byte /\ Make(c).code = c /\ Make(c).make = TRUE /\ m \in Nat
  BY LenProperties DEF Make, Byte
<1>2. /\ all \in Seq(Byte) /\ Len(all) = m + 1 /\ all[m + 1] = Make(c)
      /\ \A i \in 1..m : all[i] = pre[i]
  BY <1>1, AppendProperties
<1> HIDE DEF all
<1>3. \A i \in 1..Len(all) : all[i].code = c
  <2>1. \A i \in 1..(m + 1) : i \in 1..m \/ i = m + 1
    BY <1>1
  <2> QED BY <1>1, <1>2, <2>1
<1>4. Len(all) > 0 /\ (all[Len(all)].make <=> c \in ref')
  BY <1>1, <1>2
<1>5. \A d \in KeyCodes \ {c} : d \in ref' <=> d \in ref
  OBVIOUS
<1>6. list \in Seq(Repeats) /\ Len(list) \in Nat /\ Len(list) <= KEYREPEAT_BUF_MAX
      /\ KEYREPEAT_BUF_MAX \in Nat
  BY LenProperties, KeyboardAssumption DEF Listed
<1>7. Listed(list, ref')
  BY ListedMore
<1>8. CASE NotTaken(c, list)
  <2>1. keyrepeat_buf' = list /\ Send(pre, {c})
    BY <1>8 DEF Press
  <2>2. RepeatOnlyHeld'
    BY <1>7, <2>1, ListedPrimed
  <2> QED BY <1>5, <1>6, <2>1, <2>2, SendKeeps
<1>9. CASE ~NotTaken(c, list)
  <2>1. /\ keyrepeat_buf' = (IF c \in Repeats THEN Append(list, c) ELSE list)
        /\ Send(all, {})
    BY <1>9 DEF Press, all
  <2>2. Listed(keyrepeat_buf', ref')
    <3>1. CASE c \notin Repeats
      BY <1>7, <2>1, <3>1
    <3>2. CASE c \in Repeats
      <4> DEFINE r == keyrepeat_buf'
                 k == Len(list)
      <4>1. r = Append(list, c) /\ k + 1 <= KEYREPEAT_BUF_MAX
        BY <1>6, <1>9, <2>1, <3>2 DEF NotTaken
      <4>2. r \in Seq(Repeats) /\ Len(r) = k + 1 /\ r[k + 1] = c /\ \A i \in 1..k : r[i] = list[i]
        BY <1>6, <3>2, <4>1, AppendProperties
      <4>3. \A i \in 1..(k + 1) : i \in 1..k \/ i = k + 1
        BY <1>6
      <4>4. \A i \in 1..k : list[i] \in ref \ {c}
        BY DEF Listed
      <4>5. \A i, j \in 1..k : list[i] = list[j] => i = j
        BY DEF Listed
      <4> HIDE DEF r, k
      <4>6. \A i \in 1..(k + 1) : r[i] \in ref'
        BY <4>2, <4>3, <4>4
      <4>7. \A i, j \in 1..(k + 1) : r[i] = r[j] => i = j
        BY <4>2, <4>3, <4>4, <4>5
      <4>8. Listed(r, ref')
        BY <4>1, <4>2, <4>6, <4>7 DEF Listed
      <4> QED BY <4>8 DEF r
    <3> QED BY <3>1, <3>2
  <2>3. RepeatOnlyHeld'
    BY <2>2, ListedPrimed
  <2>4. keyrepeat_buf' \in Seq(Repeats) /\ Len(keyrepeat_buf') <= KEYREPEAT_BUF_MAX
    BY <2>2 DEF Listed
  <2> QED BY <1>2, <1>3, <1>4, <1>5, <2>1, <2>3, <2>4, SendKeeps
<1> QED BY <1>8, <1>9

-----------------------------------------------------------------------------
(* Any set of key codes can be put in order.                               *)
Orders(S, n) == {s \in [1..n -> S] : \A i, j \in 1..n : i < j => s[i] < s[j]}

LEMMA Largest ==
    ASSUME NEW S \in SUBSET (0..127), S # {}
    PROVE  \E x \in S : \A y \in S : y <= x
<1> DEFINE back == {d \in 0..127 : 127 - d \in S}
<1>1. back \subseteq Nat
  OBVIOUS
<1>2. \A y \in S : y \in 0..127 /\ 127 - y \in back
  <2>1. ASSUME NEW y \in S PROVE 127 - y \in back
    <3>1. y \in 0..127 /\ 127 - y \in 0..127 /\ 127 - (127 - y) = y
      OBVIOUS
    <3> QED BY <3>1
  <2> QED BY <2>1
<1>3. \A d \in back : 127 - d \in S /\ d \in 0..127
  OBVIOUS
<1> HIDE DEF back
<1>4. back # {}
  BY <1>2
<1>5. PICK d \in back : \A e \in back : <<e, d>> \notin OpToRel(<, Nat)
  BY <1>1, <1>4, WFMin, NatLessThanWellFounded, Zenon
<1>6. \A e \in back : ~(e < d)
  BY <1>1, <1>5, Zenon DEF OpToRel
<1>7. \A y \in S : y <= 127 - d
  BY <1>2, <1>3, <1>6
<1> QED BY <1>3, <1>7

LEMMA OrderExists ==
    ASSUME NEW S \in SUBSET (0..127)
    PROVE  Orders(S, Cardinality(S)) # {}
<1> DEFINE bad == {n \in Nat : \E T \in SUBSET (0..127) :
                                 Cardinality(T) = n /\ Orders(T, n) = {}}
<1>1. \A T \in SUBSET (0..127) : IsFiniteSet(T) /\ Cardinality(T) \in Nat
  <2>1. IsFiniteSet(0..127)
    BY 0 \in Int, 127 \in Int, FS_Interval
  <2> QED BY <2>1, FS_Subset, FS_CardinalityType
<1>2. SUFFICES ASSUME bad # {} PROVE FALSE
  BY <1>1
<1>3. bad \subseteq Nat
  OBVIOUS
<1> HIDE DEF bad
<1>4. PICK n \in bad : \A e \in bad : <<e, n>> \notin OpToRel(<, Nat)
  BY <1>2, <1>3, WFMin, NatLessThanWellFounded, Zenon
<1>5. \A e \in bad : ~(e < n)
  BY <1>3, <1>4, Zenon DEF OpToRel
<1>6. PICK T \in SUBSET (0..127) : Cardinality(T) = n /\ Orders(T, n) = {} /\ n \in Nat
  BY <1>3 DEF bad
<1>7. CASE n = 0
  <2>1. 1..n = {}
    BY <1>7
  <2>2. [i \in 1..n |-> 0] \in Orders(T, n)
    BY <2>1 DEF Orders
  <2> QED BY <1>6, <2>2
<1>8. CASE n # 0
  <2>1. T # {}
    BY <1>6, <1>8, FS_EmptySet
  <2>2. PICK x \in T : \A y \in T : y <= x
    BY <2>1, Largest
  <2> DEFINE U == T \ {x}
  <2>3. U \in SUBSET (0..127) /\ Cardinality(U) = n - 1 /\ n - 1 \in Nat
    BY <1>1, <1>6, <1>8, FS_RemoveElement
  <2>4. n - 1 \notin bad
    BY <1>5, <1>6, <2>3
  <2>5. Orders(U, n - 1) # {}
    BY <2>3, <2>4 DEF bad
  <2>6. PICK t \in [1..(n - 1) -> U] : \A i, j \in 1..(n - 1) : i < j => t[i] < t[j]
    BY <2>5 DEF Orders
  <2> DEFINE s == [i \in 1..n |-> IF i < n THEN t[i] ELSE x]
  <2>7. \A i \in 1..n : i = n \/ (i \in 1..(n - 1) /\ i < n)
    BY <1>6
  <2>8. \A i \in 1..(n - 1) : t[i] \in T /\ t[i] # x /\ t[i] \in 0..127
    BY <2>6
  <2>9. \A i \in 1..n : s[i] = IF i < n THEN t[i] ELSE x
    OBVIOUS
  <2>10. s \in [1..n -> T]
    BY <2>7, <2>8
  <2>11. x \in 0..127 /\ \A i \in 1..(n - 1) : t[i] < x
    <3>1. \A y \in 0..127 : x \in 0..127 /\ (y <= x /\ y # x => y < x)
      OBVIOUS
    <3>2. \A i \in 1..(n - 1) : t[i] <= x
      BY <2>2, <2>8
    <3> QED BY <2>8, <3>1, <3>2
  <2> HIDE DEF s
  <2>12. ASSUME NEW i \in 1..n, NEW j \in 1..n, i < j PROVE s[i] < s[j]
    <3>1. i \in 1..(n - 1) /\ i < n
      BY <1>6, <2>12
    <3>2. CASE j = n
      <4>1. s[j] = x /\ s[i] = t[i]
        BY <1>6, <2>9, <3>1, <3>2
      <4> QED BY <2>11, <3>1, <4>1
    <3>3. CASE j \in 1..(n - 1) /\ j < n
      <4>1. s[j] = t[j] /\ s[i] = t[i]
        BY <2>9, <3>1, <3>3
      <4>2. t[i] < t[j]
        BY <2>6, <2>12, <3>1, <3>3
      <4> QED BY <4>1, <4>2
    <3> QED BY <2>7, <3>2, <3>3
  <2>13. s \in Orders(T, n)
    BY <2>10, <2>12 DEF Orders
  <2> QED BY <1>6, <2>13
<1> QED BY <1>7, <1>8

(* In order, every key comes once.                                         *)
LEMMA SortedFacts ==
    ASSUME NEW S \in SUBSET KeyCodes
    PROVE  LET n == Cardinality(S)
           IN  /\ n \in Nat /\ n <= KB_BUF
               /\ Sorted(S) \in [1..n -> S]
               /\ \A i, j \in 1..n : Sorted(S)[i] = Sorted(S)[j] => i = j
               /\ \A c \in S : \E i \in 1..n : Sorted(S)[i] = c
<1> DEFINE n == Cardinality(S)
           s == Sorted(S)
<1>1. S \in SUBSET (0..127) /\ IsFiniteSet(KeyCodes)
  <2>1. IsFiniteSet(0..127)
    BY 0 \in Int, 127 \in Int, FS_Interval
  <2>2. KeyCodes \in SUBSET (0..127) /\ S \in SUBSET (0..127)
    BY KeyboardAssumption
  <2> QED BY <2>1, <2>2, FS_Subset
<1>2. IsFiniteSet(S) /\ n \in Nat /\ n <= KB_BUF
  <2>1. IsFiniteSet(S) /\ n <= Cardinality(KeyCodes)
    BY <1>1, FS_Subset
  <2>2. n \in Nat /\ Cardinality(KeyCodes) \in Nat
    BY <1>1, <2>1, FS_CardinalityType
  <2> HIDE DEF n
  <2> QED BY <2>1, <2>2, KeyboardAssumption
<1>3. PICK o \in [1..n -> S] : \A i, j \in 1..n : i < j => o[i] < o[j]
  BY <1>1, OrderExists DEF Orders
<1>4. s \in [1..n -> S] /\ \A i, j \in 1..n : i < j => s[i] < s[j]
  <2>1. \E t \in [1..n -> S] : \A i, j \in DOMAIN t : i < j => t[i] < t[j]
    BY <1>3
  <2>2. s \in [1..n -> S] /\ \A i, j \in DOMAIN s : i < j => s[i] < s[j]
    BY <2>1 DEF Sorted
  <2> HIDE DEF s
  <2> QED BY <2>2
<1> HIDE DEF s, n
<1>5. ASSUME NEW i \in 1..n, NEW j \in 1..n, s[i] = s[j] PROVE i = j
  <2>1. s[i] \in 0..127 /\ s[j] \in 0..127
    BY <1>1, <1>4
  <2>2. ~(s[i] < s[j]) /\ ~(s[j] < s[i])
    <3>1. \A x \in 0..127 : ~(x < x)
      OBVIOUS
    <3> QED BY <1>5, <2>1, <3>1
  <2>3. ~(i < j) /\ ~(j < i)
    BY <1>4, <2>2
  <2> QED BY <1>2, <2>3
<1>6. s \in Injection(1..n, S)
  BY <1>4, <1>5 DEF Injection, IsInjective
<1>7. IsFiniteSet(1..n) /\ Cardinality(1..n) = n
  BY <1>2, FS_Interval
<1>8. s \in Surjection(1..n, S)
  BY <1>2, <1>6, <1>7, FS_Injection DEF n
<1>9. \A c \in S : \E i \in 1..n : s[i] = c
  BY <1>8 DEF Surjection
<1> QED BY <1>2, <1>4, <1>5, <1>9 DEF s, n

-----------------------------------------------------------------------------
(* The steps.                                                              *)
LEMMA InitInv == ASSUME Init PROVE IInv
<1> USE DEF Init
<1>1. TypeOK
  <2>1. <<>> \in Seq(Repeats) /\ <<>> \in Seq(Byte) /\ Len(<<>>) = 0
    BY EmptySeq
  <2>2. 0 <= KB_BUF /\ 0 <= KEYREPEAT_BUF_MAX /\ 0 \in 0..1
    BY KeyboardAssumption
  <2> QED BY <2>1, <2>2 DEF TypeOK
<1>2. RepeatOnlyHeld /\ ByteNeverStranded
  BY DEF RepeatOnlyHeld, ByteNeverStranded
<1>3. InFlight = <<>> /\ <<>> \in Seq(Byte) /\ Len(<<>>) = 0
  BY ConcatEmptySeq, EmptySeq DEF InFlight
<1>4. ASSUME NEW c PROVE Makes(<<>>, guest, c) <=> c \in guest
  <2>1. ~Of(<<>>, c)
    BY <1>3 DEF Of
  <2> QED BY <1>3, <2>1, MakesUnsaid
<1>5. CodesTellTruth
  BY <1>3, <1>4 DEF CodesTellTruth, WillBeDown
<1> QED BY <1>1, <1>2, <1>5 DEF IInv

LEMMA OneCode ==
    ASSUME NEW c \in KeyCodes
    PROVE  /\ Make(c) \in Byte /\ Break(c) \in Byte
           /\ <<Break(c)>> \in Seq(Byte) /\ Len(<<Break(c)>>) = 1
           /\ \A i \in 1..Len(<<Break(c)>>) : <<Break(c)>>[i].code = c
           /\ <<Break(c)>>[Len(<<Break(c)>>)].make = FALSE
           /\ <<>> \in Seq(Byte) /\ Len(<<>>) = 0
<1>1. Make(c) \in Byte /\ Break(c) \in Byte /\ Break(c).code = c /\ Break(c).make = FALSE
  BY DEF Make, Break, Byte
<1>2. Len(<<Break(c)>>) = 1 /\ <<Break(c)>>[1] = Break(c) /\ <<Break(c)>> \in Seq(Byte)
  BY <1>1
<1>3. \A i \in 1..Len(<<Break(c)>>) : <<Break(c)>>[i].code = c
  BY <1>1, <1>2
<1>4. <<Break(c)>>[Len(<<Break(c)>>)].make = FALSE
  BY <1>1, <1>2
<1> QED BY <1>1, <1>2, <1>3, <1>4, EmptySeq

(* What a step that leaves codes, keys and lists alone keeps.              *)
LEMMA QuietKeeps ==
    ASSUME IInv, UNCHANGED <<ref, keyrepeat_buf, buf, armed, unsaid, guest, data, ready>>
    PROVE  RepeatOnlyHeld' /\ CodesTellTruth'
<1>1. InFlight' = InFlight
  BY DEF InFlight
<1>2. CodesTellTruth'
  BY <1>1, NothingTold DEF IInv
<1> QED BY <1>2 DEF IInv, RepeatOnlyHeld

LEMMA KeyDownInv == ASSUME IInv, NEW c \in KeyCodes, KeyDown(c) PROVE IInv'
<1> USE DEF IInv
<1>1. /\ ref' = ref \cup {c} /\ ref' \subseteq KeyCodes
      /\ UNCHANGED <<keyrep, reqparam>> /\ UNCHANGED serialVars
  BY DEF KeyDown, TypeOK
<1>2. CASE c \notin ref /\ Press(c, <<>>, keyrepeat_buf)
  <2>1. Listed(keyrepeat_buf, ref \ {c})
    <3>1. Listed(keyrepeat_buf, ref) /\ ref \subseteq ref \ {c}
      BY <1>2, ListedNow
    <3> QED BY <3>1, ListedMore
  <2>2. <<>> \in Seq(Byte) /\ \A i \in 1..Len(<<>>) : <<>>[i].code = c
    BY OneCode
  <2>3. /\ keyrepeat_buf' \in Seq(Repeats) /\ Len(keyrepeat_buf') <= KEYREPEAT_BUF_MAX
        /\ buf' \in Seq(Byte) /\ Len(buf') <= KB_BUF
        /\ armed' \in BOOLEAN /\ unsaid' \subseteq KeyCodes
        /\ RepeatOnlyHeld' /\ ByteNeverStranded' /\ CodesTellTruth'
    BY <1>1, <1>2, <2>1, <2>2, PressKeeps
  <2> QED BY <1>1, <2>3 DEF TypeOK, serialVars
<1>3. CASE c \in ref /\ Press(c, <<Break(c)>>, Without(c))
  <2>1. Listed(Without(c), ref \ {c})
    BY WithoutFacts
  <2>2. <<Break(c)>> \in Seq(Byte) /\ \A i \in 1..Len(<<Break(c)>>) : <<Break(c)>>[i].code = c
    BY OneCode
  <2>3. /\ keyrepeat_buf' \in Seq(Repeats) /\ Len(keyrepeat_buf') <= KEYREPEAT_BUF_MAX
        /\ buf' \in Seq(Byte) /\ Len(buf') <= KB_BUF
        /\ armed' \in BOOLEAN /\ unsaid' \subseteq KeyCodes
        /\ RepeatOnlyHeld' /\ ByteNeverStranded' /\ CodesTellTruth'
    BY <1>1, <1>3, <2>1, <2>2, PressKeeps
  <2> QED BY <1>1, <2>3 DEF TypeOK, serialVars
<1>4. CASE c \in ref /\ UNCHANGED <<keyrepeat_buf, buf, armed, unsaid>>
  <2>1. ref' = ref
    BY <1>1, <1>4
  <2>2. RepeatOnlyHeld' /\ CodesTellTruth'
    BY <1>1, <1>4, <2>1, QuietKeeps DEF serialVars
  <2> QED BY <1>1, <1>4, <2>1, <2>2 DEF TypeOK, serialVars, ByteNeverStranded
<1> QED BY <1>2, <1>3, <1>4 DEF KeyDown

LEMMA KeyUpInv == ASSUME IInv, NEW c \in KeyCodes, KeyUp(c) PROVE IInv'
<1> USE DEF IInv
<1>1. /\ ref' = ref \ {c} /\ ref' \subseteq KeyCodes
      /\ UNCHANGED <<keyrep, reqparam>> /\ UNCHANGED serialVars
  BY DEF KeyUp, TypeOK
<1>2. CASE c \in ref
  <2> DEFINE bytes == <<Break(c)>>
  <2>1. keyrepeat_buf' = Without(c) /\ Send(bytes, {})
    BY <1>2 DEF KeyUp
  <2>2. Listed(keyrepeat_buf', ref')
    BY <1>1, <2>1, WithoutFacts
  <2>3. /\ bytes \in Seq(Byte) /\ Len(bytes) = 1 /\ \A i \in 1..Len(bytes) : bytes[i].code = c
        /\ bytes[Len(bytes)].make = FALSE
    BY OneCode
  <2>4. c \notin ref' /\ \A d \in KeyCodes \ {c} : d \in ref' <=> d \in ref
    BY <1>1
  <2> HIDE DEF bytes
  <2>5. /\ buf' \in Seq(Byte) /\ Len(buf') <= KB_BUF
        /\ armed' \in BOOLEAN /\ unsaid' \subseteq KeyCodes
        /\ ByteNeverStranded' /\ CodesTellTruth'
    BY <1>1, <2>1, <2>3, <2>4, SendKeeps
  <2>6. RepeatOnlyHeld'
    BY <2>2, ListedPrimed
  <2> QED BY <1>1, <2>2, <2>5, <2>6 DEF TypeOK, serialVars, Listed
<1>3. CASE c \notin ref
  <2>1. ref' = ref /\ UNCHANGED <<keyrepeat_buf, buf, armed, unsaid>>
    BY <1>1, <1>3 DEF KeyUp
  <2>2. RepeatOnlyHeld' /\ CodesTellTruth'
    BY <1>1, <2>1, QuietKeeps DEF serialVars
  <2> QED BY <1>1, <2>1, <2>2 DEF TypeOK, serialVars, ByteNeverStranded
<1> QED BY <1>2, <1>3

LEMMA KeyRepeatInv == ASSUME IInv, KeyRepeat PROVE IInv'
<1> USE DEF IInv
<1> DEFINE c == keyrepeat_buf[Len(keyrepeat_buf)]
           bytes == <<Break(c), Make(c)>>
<1>1. /\ Send(bytes, {}) /\ UNCHANGED <<ref, keyrepeat_buf, keyrep, reqparam>>
      /\ UNCHANGED serialVars
  BY DEF KeyRepeat
<1>2. c \in ref /\ c \in KeyCodes
  <2>1. /\ keyrepeat_buf \in Seq(Repeats) /\ keyrepeat_buf # <<>>
        /\ DOMAIN keyrepeat_buf = 1..Len(keyrepeat_buf)
    BY LenProperties DEF KeyRepeat, TypeOK
  <2>2. Len(keyrepeat_buf) \in 1..Len(keyrepeat_buf)
    BY <2>1, EmptySeq
  <2> QED BY <2>1, <2>2 DEF RepeatOnlyHeld, TypeOK
<1> HIDE DEF c
<1>3. Break(c) \in Byte /\ Make(c) \in Byte /\ Break(c).code = c /\ Make(c).code = c /\ Make(c).make
  BY <1>2 DEF Break, Make, Byte
<1>4. /\ bytes \in Seq(Byte) /\ Len(bytes) = 2 /\ bytes[1] = Break(c) /\ bytes[2] = Make(c)
  BY <1>3
<1> HIDE DEF bytes
<1>5. /\ \A i \in 1..Len(bytes) : bytes[i].code = c
      /\ Len(bytes) > 0 /\ (bytes[Len(bytes)].make <=> c \in ref')
  <2>1. \A i \in 1..2 : i = 1 \/ i = 2
    OBVIOUS
  <2>2. c \in ref'
    BY <1>1, <1>2
  <2> QED BY <1>3, <1>4, <2>1, <2>2
<1>6. \A d \in KeyCodes \ {c} : d \in ref' <=> d \in ref
  BY <1>1
<1>7. /\ buf' \in Seq(Byte) /\ Len(buf') <= KB_BUF
      /\ armed' \in BOOLEAN /\ unsaid' \subseteq KeyCodes
      /\ ByteNeverStranded' /\ CodesTellTruth'
  BY <1>1, <1>2, <1>4, <1>5, <1>6, SendKeeps
<1>8. RepeatOnlyHeld'
  BY <1>1 DEF RepeatOnlyHeld
<1> QED BY <1>1, <1>7, <1>8 DEF TypeOK, serialVars

LEMMA CallbackInv == ASSUME IInv, Callback PROVE IInv'
<1> USE DEF IInv
<1>1. /\ UNCHANGED <<ref, keyrepeat_buf, keyrep, reqparam, guest, unsaid>>
      /\ armed' = (ctrls > 0 \/ buf # <<>>)
      /\ armed
  BY DEF Callback
<1>2. buf \in Seq(Byte) /\ ctrls \in 0..1 /\ Ack \notin Byte /\ data \in Byte \cup {Ack}
  BY KeyboardAssumption DEF TypeOK, Byte
<1>3. RepeatOnlyHeld'
  BY <1>1 DEF RepeatOnlyHeld
<1>4. CASE ~ready /\ ctrls > 0 /\ ctrls' = ctrls - 1 /\ data' = Ack /\ ready' = TRUE /\ UNCHANGED buf
  <2>1. InFlight' = InFlight
    BY <1>4 DEF InFlight
  <2>2. CodesTellTruth'
    BY <1>1, <2>1, NothingTold
  <2>3. ctrls' \in 0..1
    BY <1>2, <1>4
  <2>4. armed' = TRUE
    BY <1>1, <1>4
  <2> QED BY <1>1, <1>3, <1>4, <2>2, <2>3, <2>4 DEF TypeOK, ByteNeverStranded
<1>5. CASE /\ ~ready /\ ctrls = 0 /\ buf # <<>>
           /\ data' = Head(buf) /\ buf' = Tail(buf) /\ ready' = TRUE /\ UNCHANGED ctrls
  <2>1. Head(buf) \in Byte /\ Tail(buf) \in Seq(Byte) /\ Len(Tail(buf)) <= Len(buf)
    BY <1>2, <1>5, HeadTailProperties, LenProperties
  <2>2. buf = <<Head(buf)>> \o Tail(buf)
    <3>1. PICK n \in Nat : Len(buf) = n + 1
      BY <1>2, <1>5, EmptySeq
    <3>2. 1 \in 1..Len(buf) /\ Len(buf) \in 1..Len(buf)
      BY <3>1
    <3>3. SubSeq(buf, 1, Len(buf)) = <<buf[1]>> \o SubSeq(buf, 1 + 1, Len(buf))
      BY <1>2, <3>2, SubSeqRecursiveFirst
    <3>4. SubSeq(buf, 1, Len(buf)) = buf /\ Tail(buf) = SubSeq(buf, 2, Len(buf)) /\ Head(buf) = buf[1]
      BY <1>2, <1>5, SubSeqFull, TailIsSubSeq
    <3> QED BY <3>3, <3>4
  <2>3. InFlight = <<>> \o buf /\ InFlight' = <<data'>> \o buf'
    BY <1>2, <1>5, <2>1 DEF InFlight
  <2>4. InFlight' = InFlight
    BY <1>2, <1>5, <2>2, <2>3, ConcatEmptySeq
  <2>5. CodesTellTruth'
    BY <1>1, <2>4, NothingTold
  <2>6. armed' = TRUE
    BY <1>1, <1>5
  <2>7. Len(Tail(buf)) <= KB_BUF
    <3>1. Len(Tail(buf)) \in Nat /\ Len(buf) \in Nat /\ KB_BUF \in Nat /\ Len(buf) <= KB_BUF
      BY <1>2, <2>1, LenProperties, KeyboardAssumption DEF TypeOK
    <3> QED BY <2>1, <3>1
  <2> QED BY <1>1, <1>3, <1>5, <2>1, <2>5, <2>6, <2>7 DEF TypeOK, ByteNeverStranded
<1>6. CASE UNCHANGED <<ctrls, data, buf, ready>>
  <2>1. InFlight' = InFlight
    BY <1>6 DEF InFlight
  <2>2. CodesTellTruth'
    BY <1>1, <2>1, NothingTold
  <2>3. armed' \in BOOLEAN /\ ByteNeverStranded'
    BY <1>1, <1>6 DEF ByteNeverStranded
  <2> QED BY <1>1, <1>3, <1>6, <2>2, <2>3 DEF TypeOK
<1> QED BY <1>4, <1>5, <1>6 DEF Callback

LEMMA GuestReadInv == ASSUME IInv, GuestRead PROVE IInv'
<1> USE DEF IInv
<1>1. /\ UNCHANGED <<ref, keyrepeat_buf, keyrep, reqparam, ctrls, buf, data, armed, unsaid>>
      /\ ready /\ ready' = FALSE
      /\ guest' = IF data = Ack THEN guest ELSE Reads(data, guest)
  BY DEF GuestRead, Reads
<1>2. buf \in Seq(Byte) /\ Ack \notin Byte /\ data \in Byte \cup {Ack}
  BY KeyboardAssumption DEF TypeOK, Byte
<1>3. InFlight' = buf
  BY <1>1, <1>2, ConcatEmptySeq DEF InFlight
<1>4. RepeatOnlyHeld' /\ ByteNeverStranded'
  BY <1>1 DEF RepeatOnlyHeld, ByteNeverStranded
<1>5. CASE data = Ack
  <2>1. InFlight = buf
    BY <1>2, <1>5, ConcatEmptySeq DEF InFlight
  <2>2. CodesTellTruth'
    BY <1>1, <1>3, <1>5, <2>1, NothingTold
  <2> QED BY <1>1, <1>4, <1>5, <2>2 DEF TypeOK
<1>6. CASE data # Ack
  <2>1. data \in Byte /\ data.code \in KeyCodes /\ InFlight = <<data>> \o buf
    BY <1>1, <1>2, <1>6 DEF InFlight, Byte
  <2>2. guest' = Reads(data, guest) /\ guest' \subseteq KeyCodes
    BY <1>1, <1>6, <2>1 DEF Reads, TypeOK
  <2>3. ASSUME NEW c \in KeyCodes \ unsaid' PROVE Makes(InFlight', guest', c) <=> c \in ref'
    <3>1. Makes(InFlight, guest, c) <=> Makes(buf, Reads(data, guest), c)
      BY <1>2, <2>1, HeadTells
    <3>2. Makes(InFlight, guest, c) <=> c \in ref
      BY <1>1 DEF CodesTellTruth, WillBeDown
    <3> QED BY <1>1, <1>3, <2>2, <3>1, <3>2
  <2>4. CodesTellTruth'
    BY <2>3, TruthPrimed
  <2> QED BY <1>1, <1>4, <2>2, <2>4 DEF TypeOK
<1> QED BY <1>5, <1>6

LEMMA GuestResetInv == ASSUME IInv, GuestReset PROVE IInv'
<1> USE DEF IInv
<1> DEFINE n == Cardinality(ref)
           s == Sorted(ref)
<1>1. /\ ctrls' = 0 /\ ready' = FALSE /\ reqparam' = FALSE
      /\ buf' = [i \in 1..n |-> Make(s[i])]
      /\ armed' = (ref # {}) /\ unsaid' = {} /\ keyrepeat_buf' = <<>> /\ guest' = {}
      /\ UNCHANGED <<ref, keyrep, data>>
  BY DEF GuestReset
<1>2. ref \in SUBSET KeyCodes /\ KEYREPEAT_BUF_MAX \in Nat
  BY KeyboardAssumption DEF TypeOK
<1>3. /\ n \in Nat /\ n <= KB_BUF /\ s \in [1..n -> ref]
      /\ \A i, j \in 1..n : s[i] = s[j] => i = j
      /\ \A c \in ref : \E i \in 1..n : s[i] = c
  BY <1>2, SortedFacts
<1> HIDE DEF n, s
<1>4. \A i \in 1..n : s[i] \in ref /\ Make(s[i]) \in Byte
  BY <1>2, <1>3 DEF Make, Byte
<1>5. /\ buf' \in Seq(Byte) /\ Len(buf') = n
      /\ \A i \in 1..n : buf'[i].code = s[i] /\ buf'[i].make
  <2>1. buf' \in [1..n -> Byte]
    BY <1>1, <1>4
  <2>2. \A i \in 1..n : buf'[i].code = s[i] /\ buf'[i].make
    BY <1>1 DEF Make
  <2> QED BY <1>3, <2>1, <2>2, SeqOf
<1>6. InFlight' = buf'
  BY <1>1, <1>5, ConcatEmptySeq DEF InFlight
<1>7. ASSUME NEW c \in KeyCodes PROVE Makes(buf', guest', c) <=> c \in ref'
  <2>1. CASE c \in ref
    <3>1. PICK i \in 1..n : s[i] = c
      BY <1>3, <2>1
    <3>2. LastIs(buf', c, i)
      <4>1. \A j \in 1..n : buf'[j].code = c => j = i
        BY <1>3, <1>5, <3>1
      <4> QED BY <1>3, <1>5, <3>1, <4>1 DEF LastIs
    <3>3. Makes(buf', guest', c) <=> buf'[i].make
      BY <1>5, <3>2, MakesByLast
    <3> QED BY <1>1, <1>5, <2>1, <3>3
  <2>2. CASE c \notin ref
    <3>1. ~Of(buf', c)
      BY <1>4, <1>5, <2>2 DEF Of
    <3>2. Makes(buf', guest', c) <=> c \in guest'
      BY <1>5, <3>1, MakesUnsaid
    <3> QED BY <1>1, <2>2, <3>2
  <2> QED BY <2>1, <2>2
<1>8. CodesTellTruth'
  BY <1>6, <1>7, TruthPrimed
<1>9. ByteNeverStranded'
  <2>1. ASSUME buf' # <<>> PROVE ref # {}
    <3>1. n # 0
      BY <1>5, <2>1, EmptySeq
    <3>2. 1 \in 1..n
      BY <1>3, <3>1
    <3> QED BY <1>4, <3>2
  <2>2. ~(ctrls' > 0)
    BY <1>1
  <2> QED BY <1>1, <2>1, <2>2 DEF ByteNeverStranded
<1>10. RepeatOnlyHeld'
  BY <1>1 DEF RepeatOnlyHeld
<1>11. /\ keyrepeat_buf' \in Seq(Repeats) /\ Len(keyrepeat_buf') <= KEYREPEAT_BUF_MAX
  BY <1>1, <1>2, EmptySeq
<1>12. armed' \in BOOLEAN /\ ctrls' \in 0..1 /\ Len(buf') <= KB_BUF
  BY <1>1, <1>3, <1>5
<1>13. /\ ref' \subseteq KeyCodes /\ guest' \subseteq KeyCodes /\ unsaid' \subseteq KeyCodes
       /\ data' \in Byte \cup {Ack} /\ keyrep' \in BOOLEAN
  BY <1>1 DEF TypeOK
<1>14. TypeOK'
  BY <1>1, <1>5, <1>11, <1>12, <1>13 DEF TypeOK
<1> QED BY <1>8, <1>9, <1>10, <1>14

LEMMA NextInv == ASSUME IInv, [Next]_vars PROVE IInv'
<1>1. CASE GuestCommand
  <2>1. RepeatOnlyHeld' /\ CodesTellTruth'
    <3>1. InFlight' = InFlight /\ UNCHANGED <<ref, guest, unsaid, keyrepeat_buf>>
      BY <1>1 DEF GuestCommand, InFlight
    <3> QED BY <3>1, NothingTold DEF IInv, RepeatOnlyHeld
  <2>2. ByteNeverStranded'
    BY <1>1 DEF GuestCommand, ByteNeverStranded
  <2>3. TypeOK'
    BY <1>1 DEF GuestCommand, IInv, TypeOK
  <2> QED BY <2>1, <2>2, <2>3 DEF IInv
<1>2. CASE UNCHANGED vars
  <2>1. RepeatOnlyHeld' /\ CodesTellTruth'
    BY <1>2, QuietKeeps DEF vars
  <2> QED BY <1>2, <2>1 DEF vars, IInv, TypeOK, ByteNeverStranded
<1> QED BY <1>1, <1>2, KeyDownInv, KeyUpInv, KeyRepeatInv, CallbackInv, GuestReadInv,
           GuestResetInv DEF Next

-----------------------------------------------------------------------------
(* All of it at once, whatever the keys, the lists' lengths and the guest. *)
THEOREM Invariance == Spec => []IInv
<1>1. Init => IInv
  BY InitInv
<1>2. IInv /\ [Next]_vars => IInv'
  BY NextInv
<1> QED BY <1>1, <1>2, PTL DEF Spec

(* The state is what its declarations say; neither the port's buffer nor   *)
(* the repeat list ever holds more than it has room for.                   *)
THEOREM TypeCorrect == Spec => []TypeOK
<1>1. IInv => TypeOK
  BY DEF IInv
<1> QED BY <1>1, Invariance, PTL

(* Read to the end, the codes show the guest every key as keystat has it,  *)
(* unless the key's latest code was thrown away: through repeats, resets   *)
(* and a full buffer, for any keys and any lengths.                        *)
THEOREM TruthInTheEnd == Spec => []CodesTellTruth
<1>1. IInv => CodesTellTruth
  BY DEF IInv
<1> QED BY <1>1, Invariance, PTL

(* Whatever waits in the port has the transfer event armed.                *)
THEOREM NoneStranded == Spec => []ByteNeverStranded
<1>1. IInv => ByteNeverStranded
  BY DEF IInv
<1> QED BY <1>1, Invariance, PTL

(* No key types on after its release: only held keys are in the repeat     *)
(* list, each once, also when the list has been full.                      *)
THEOREM OnlyHeldRepeat == Spec => []RepeatOnlyHeld
<1>1. IInv => RepeatOnlyHeld
  BY DEF IInv
<1> QED BY <1>1, Invariance, PTL
=============================================================================
