------------------------- MODULE ImageVolumeProofs --------------------------
(***************************************************************************)
(* Proofs about the disk image reader, for every image file, every volume  *)
(* in it (whatever table a format's loader has built, as long as no two    *)
(* blocks share a place) and transfers of any length.                      *)
(*                                                                         *)
(* A write takes one of two ways: the blocks of a run are written as they  *)
(* are where the run begins, or one block where the table has it, patched. *)
(* Both come to the same places (AtIsOff), and the first is never taken    *)
(* with a patched block in the run (PatchedAlone), or with one that is not *)
(* in the file, though only the last is looked up (BelowIsThere).          *)
(***************************************************************************)
EXTENDS ImageVolume, WellFoundedInduction, TLAPS

(* What the card lacks after the escape's flush was written after it.      *)
HeldLate == esc \in {"flushed", "restarted"} => held \subseteq late

IInv == TypeOK /\ LayoutKept /\ HeldLate

-----------------------------------------------------------------------------
(* Division by a number of blocks keeps the order. *)
LEMMA DivMonotonic ==
    ASSUME NEW k \in Nat \ {0}, NEW b \in Nat, NEW c \in Nat, c <= b
    PROVE  c \div k <= b \div k
OBVIOUS

(* Blocks from n sectors on are of sector n or a later one. *)
LEMMA DivReaches ==
    ASSUME NEW k \in Nat \ {0}, NEW n \in Nat, NEW b \in Nat, b >= n * k
    PROVE  b \div k >= n
OBVIOUS

(* The blocks the host may ask for are numbers, the volume's among them. *)
LEMMA AskedFacts ==
    ASSUME TypeOK
    PROVE  /\ BlockCount(vol) \in Nat \ {0} /\ Beyond \in Nat
           /\ Asked(vol) \subseteq Nat /\ Blocks(vol) \subseteq Asked(vol)
           /\ \A b \in Asked(vol) : b < BlockCount(vol) + Beyond
<1>1. BlockCount(vol) \in Nat \ {0} /\ Beyond \in Nat
  BY VolumeAssumption DEF TypeOK
<1> QED BY <1>1 DEF Asked, Blocks

(* A write in progress has a first block. *)
LEMMA FirstFacts ==
    ASSUME TypeOK, todo # Nothing
    PROVE  /\ First(DOMAIN todo) \in DOMAIN todo
           /\ \A c \in DOMAIN todo : First(DOMAIN todo) <= c
<1>1. DOMAIN todo # {}
  <2>1. SUFFICES ASSUME DOMAIN todo = {} PROVE FALSE
    OBVIOUS
  <2>2. todo \in [{} -> Content] /\ Nothing \in [{} -> Content]
    BY <2>1 DEF TypeOK, Nothing
  <2> QED BY <2>2 DEF Nothing
<1>2. DOMAIN todo \subseteq Nat
  <2>1. Asked(vol) \subseteq Nat
    BY AskedFacts
  <2> QED BY <2>1 DEF TypeOK
<1>3. PICK b \in DOMAIN todo : \A c \in DOMAIN todo : <<c, b>> \notin OpToRel(<, Nat)
  BY <1>1, <1>2, WFMin, NatLessThanWellFounded, Zenon
<1>4. \A c \in DOMAIN todo : ~(c < b)
  BY <1>2, <1>3, Zenon DEF OpToRel
<1>5. \A c \in DOMAIN todo : b <= c
  BY <1>2, <1>4
<1> QED BY <1>5 DEF First

(* And a last one. *)
LEMMA LastFacts ==
    ASSUME TypeOK, todo # Nothing
    PROVE  /\ Last(DOMAIN todo) \in DOMAIN todo
           /\ \A c \in DOMAIN todo : c <= Last(DOMAIN todo)
<1> DEFINE n  == BlockCount(vol) + Beyond
           up == {n - c : c \in DOMAIN todo}
<1>1. n \in Nat /\ DOMAIN todo \subseteq Nat /\ \A c \in DOMAIN todo : c < n
  <2>1. DOMAIN todo \subseteq Asked(vol)
    BY DEF TypeOK
  <2> QED BY <2>1, AskedFacts
<1>2. DOMAIN todo # {}
  BY FirstFacts
<1> HIDE DEF n
<1>3. up \subseteq Nat /\ up # {}
  BY <1>1, <1>2
<1>4. PICK m \in up : \A k \in up : <<k, m>> \notin OpToRel(<, Nat)
  BY <1>3, WFMin, NatLessThanWellFounded, Zenon
<1>5. \A k \in up : ~(k < m)
  BY <1>3, <1>4, Zenon DEF OpToRel
<1>6. PICK b \in DOMAIN todo : m = n - b
  BY <1>4
<1>7. ASSUME NEW c \in DOMAIN todo PROVE c <= b
  <2>1. ~(n - c < n - b)
    BY <1>5, <1>6
  <2> QED BY <2>1, <1>1
<1> QED BY <1>7 DEF Last

LEMMA RunFacts ==
    ASSUME TypeOK, todo # Nothing
    PROVE  Run \subseteq DOMAIN todo /\ Run \subseteq Asked(vol)
<1>1. Run \subseteq DOMAIN todo
  BY FirstFacts DEF Run
<1> QED BY <1>1 DEF TypeOK

(* Blocks before one that is in a translated volume are in it as well: of  *)
(* a run, only the last has to be looked up. *)
LEMMA BelowIsThere ==
    ASSUME TypeOK, vol.kind = "hdd", NEW b \in Asked(vol), NEW c \in Asked(vol), c <= b,
           BlockOff(vol, b) # BLK_MISSING
    PROVE  BlockOff(vol, c) # BLK_MISSING
<1>1. vol.k \in Nat \ {0} /\ vol.secs \in Nat /\ vol.off \in Nat
  BY VolumeAssumption DEF TypeOK
<1>2. b \in Nat /\ c \in Nat
  BY AskedFacts
<1>3. b \div vol.k < vol.secs
  <2>1. ~(b \div vol.k >= vol.secs)
    BY DEF BlockOff
  <2>2. b \div vol.k \in Int
    BY <1>1, <1>2
  <2> QED BY <2>1, <2>2, <1>1
<1>4. c \div vol.k <= b \div vol.k
  BY <1>1, <1>2, DivMonotonic
<1>5. ~(c \div vol.k >= vol.secs)
  <2>1. b \div vol.k \in Int /\ c \div vol.k \in Int
    BY <1>1, <1>2
  <2> QED BY <2>1, <1>1, <1>3, <1>4
<1>6. BlockOff(vol, c) = vol.off + c
  BY <1>5 DEF BlockOff
<1> QED BY <1>1, <1>2, <1>6, VolumeAssumption

(* All that the host may ask for of a volume shown as it is has a place.   *)
LEMMA PlainIsThere ==
    ASSUME TypeOK, vol.kind = "plain", NEW b \in Asked(vol)
    PROVE  BlockOff(vol, b) # BLK_MISSING
<1>1. vol.off \in Nat /\ b \in Nat
  BY AskedFacts, VolumeAssumption DEF TypeOK
<1>2. BlockOff(vol, b) = vol.off + b
  BY DEF BlockOff
<1> QED BY <1>1, <1>2, VolumeAssumption

(* Past the end of a volume that is looked up there is nothing.            *)
LEMMA PastEndIsVoid ==
    ASSUME TypeOK, vol.kind # "plain", NEW b \in Asked(vol), b >= BlockCount(vol)
    PROVE  BlockOff(vol, b) = BLK_MISSING
<1>1. vol.k \in Nat \ {0} /\ vol.secs \in Nat /\ b \in Nat
  BY AskedFacts, VolumeAssumption DEF TypeOK
<1>2. b >= vol.secs * vol.k
  <2>1. vol.secs * vol.k \in Nat
    BY <1>1
  <2>2. BlockCount(vol) \in {vol.secs * vol.k, vol.secs * vol.k + 1}
    BY DEF BlockCount
  <2> QED BY <1>1, <2>1, <2>2
<1>3. b \div vol.k >= vol.secs
  BY <1>1, <1>2, DivReaches
<1> QED BY <1>3 DEF BlockOff

(* What is not refused has no block that is not in the file. *)
LEMMA RunIsThere ==
    ASSUME TypeOK, todo # Nothing, ~Refused
    PROVE  Run \cap Void(vol) = {}
<1>1. CASE ~WholeRun
  BY <1>1 DEF Refused
<1>2. CASE WholeRun /\ vol.kind = "plain"
  BY <1>2, RunFacts, PlainIsThere DEF Void
<1>3. CASE WholeRun /\ vol.kind # "plain"
  <2>1. vol.kind = "hdd" /\ BlockOff(vol, Last(DOMAIN todo)) # BLK_MISSING
    BY <1>3 DEF WholeRun
  <2>2. DOMAIN todo \subseteq Asked(vol)
    BY DEF TypeOK
  <2> DEFINE last == Last(DOMAIN todo)
  <2>3. last \in DOMAIN todo /\ \A c \in DOMAIN todo : c <= last
    BY LastFacts
  <2> HIDE DEF last
  <2>4. ASSUME NEW c \in DOMAIN todo PROVE BlockOff(vol, c) # BLK_MISSING
    BY <2>1, <2>2, <2>3, BelowIsThere DEF last
  <2> QED BY <2>4, RunFacts DEF Void
<1> QED BY <1>1, <1>2, <1>3

(* Both ways of writing a block go to the place the table has for it. *)
LEMMA AtIsOff ==
    ASSUME TypeOK, todo # Nothing, Run \cap Void(vol) = {}, NEW b \in Run
    PROVE  /\ b \in Asked(vol) \ Void(vol)
           /\ At(b) = BlockOff(vol, b)
           /\ At(b) \in Places
<1>1. b \in Asked(vol) \ Void(vol)
  BY RunFacts
<1>2. BlockOff(vol, b) # BLK_MISSING
  BY <1>1 DEF Void
<1>3. BlockOff(vol, b) \in Places
  BY <1>1, <1>2, VolumeAssumption DEF TypeOK
<1>4. CASE WholeRun
  <2>1. vol.kind \in {"plain", "hdd"} /\ At(b) = vol.off + b
    BY <1>4 DEF WholeRun, At
  <2>2. BlockOff(vol, b) = vol.off + b
    BY <1>2, <2>1 DEF BlockOff
  <2> QED BY <1>1, <1>3, <2>1, <2>2
<1>5. CASE ~WholeRun
  BY <1>1, <1>3, <1>5 DEF At
<1> QED BY <1>4, <1>5

(* A run has no two blocks for one place. *)
LEMMA AtApart ==
    ASSUME TypeOK, todo # Nothing, Run \cap Void(vol) = {},
           NEW b \in Run, NEW c \in Run, At(b) = At(c)
    PROVE  b = c
BY AtIsOff, VolumeAssumption DEF TypeOK

LEMMA TakenType ==
    ASSUME TypeOK, NEW b \in Asked(vol), NEW x \in Content
    PROVE  Taken(vol, b, x) \in Content
<1>1. SUFFICES ASSUME NEW i \in Idx PROVE Taken(vol, b, x)[i] \in Byte
  BY DEF Taken, Content
<1>2. CASE InPatch(vol, b, i, x[i]) = {}
  BY <1>2 DEF Taken, Content
<1>3. CASE InPatch(vol, b, i, x[i]) # {}
  <2>1. PICK p \in InPatch(vol, b, i, x[i]) : Taken(vol, b, x)[i] = p.orig
    BY <1>3 DEF Taken
  <2> QED BY <2>1, VolumeAssumption DEF InPatch, TypeOK
<1> QED BY <1>2, <1>3

LEMMA DataType ==
    ASSUME TypeOK, todo # Nothing, NEW b \in Run
    PROVE  Data(b) \in Content
<1>1. b \in Asked(vol) /\ todo[b] \in Content
  BY RunFacts DEF TypeOK
<1> QED BY <1>1, TakenType DEF Data

LEMMA WrittenFacts ==
    ASSUME TypeOK, todo # Nothing, Run \cap Void(vol) = {}, NEW bs \in SUBSET Run
    PROVE  /\ Written(bs) \in [Places -> Content]
           /\ \A b \in bs : Written(bs)[At(b)] = Data(b)
           /\ \A q \in Places : (\A b \in bs : At(b) # q) => Written(bs)[q] = file[q]
<1>1. ASSUME NEW b \in bs PROVE Written(bs)[At(b)] = Data(b)
  <2>1. At(b) \in Places
    BY AtIsOff
  <2>2. PICK c \in bs : At(c) = At(b) /\ Written(bs)[At(b)] = Data(c)
    BY <2>1 DEF Written
  <2>3. c = b
    BY <2>2, AtApart
  <2> QED BY <2>2, <2>3
<1>2. ASSUME NEW q \in Places, \A b \in bs : At(b) # q PROVE Written(bs)[q] = file[q]
  BY <1>2 DEF Written
<1>3. ASSUME NEW q \in Places PROVE Written(bs)[q] \in Content
  <2>1. CASE \E b \in bs : At(b) = q
    BY <2>1, <1>1, DataType
  <2>2. CASE \A b \in bs : At(b) # q
    BY <2>2, <1>2 DEF TypeOK
  <2> QED BY <2>1, <2>2
<1>4. Written(bs) = [q \in Places |-> Written(bs)[q]]
  BY DEF Written
<1>5. Written(bs) \in [Places -> Content]
  BY <1>3, <1>4
<1> QED BY <1>1, <1>2, <1>5

-----------------------------------------------------------------------------
(* What is written to a patched byte is never what the host is shown. *)
LEMMA TakenKeeps ==
    ASSUME TypeOK, NEW p \in vol.patches, NEW x \in Content
    PROVE  Taken(vol, p.block, x)[p.idx] # p.virt
<1>1. p.idx \in Idx /\ p.orig # p.virt
  BY VolumeAssumption DEF TypeOK
<1> DEFINE ps == InPatch(vol, p.block, p.idx, x[p.idx])
<1>2. CASE ps = {}
  <2>1. Taken(vol, p.block, x)[p.idx] = x[p.idx]
    BY <1>1, <1>2 DEF Taken
  <2>2. x[p.idx] # p.virt
    BY <1>2 DEF InPatch
  <2> QED BY <2>1, <2>2
<1>3. CASE ps # {}
  <2>1. PICK r \in ps : Taken(vol, p.block, x)[p.idx] = r.orig
    BY <1>1, <1>3 DEF Taken
  <2>2. r = p
    BY <2>1, VolumeAssumption DEF InPatch, TypeOK
  <2> QED BY <1>1, <2>1, <2>2
<1> QED BY <1>2, <1>3

(* No run that is written as it is has a patched block. *)
LEMMA PatchedAlone ==
    ASSUME TypeOK, todo # Nothing, NEW p \in vol.patches, p.block \in Run
    PROVE  Data(p.block)[p.idx] # p.virt
<1>1. p.block \in DOMAIN todo /\ todo[p.block] \in Content
  BY RunFacts DEF TypeOK
<1>2. vol.kind # "plain"
  BY VolumeAssumption DEF TypeOK
<1>3. ~WholeRun
  BY <1>1, <1>2 DEF WholeRun, Patched
<1> QED BY <1>1, <1>3, TakenKeeps DEF Data

(* Where patched blocks are in the file. *)
LEMMA PatchPlace ==
    ASSUME TypeOK, NEW p \in vol.patches
    PROVE  /\ p.block \in Asked(vol) \ Void(vol) /\ p.idx \in Idx
           /\ BlockOff(vol, p.block) \in Places
<1>1. p.block \in Blocks(vol) \ Void(vol) /\ p.idx \in Idx
  BY VolumeAssumption DEF TypeOK
<1>2. p.block \in Asked(vol)
  BY <1>1, AskedFacts
<1> QED BY <1>1, <1>2, VolumeAssumption DEF TypeOK, Void

(* Blocks that are written keep the layout, and so does one that is torn.  *)
LEMMA WrittenKeeps ==
    ASSUME TypeOK, LayoutKept, todo # Nothing, Run \cap Void(vol) = {},
           NEW bs \in SUBSET Run, NEW p \in vol.patches
    PROVE  Written(bs)[BlockOff(vol, p.block)][p.idx] # p.virt
<1> DEFINE q == BlockOff(vol, p.block)
<1>1. CASE \E b \in bs : At(b) = q
  <2>1. PICK b \in bs : At(b) = q
    BY <1>1
  <2>2. b = p.block
    BY <2>1, AtIsOff, PatchPlace, VolumeAssumption DEF TypeOK
  <2>3. Written(bs)[q] = Data(b)
    BY <2>1, WrittenFacts
  <2> QED BY <2>2, <2>3, PatchedAlone
<1>2. CASE \A b \in bs : At(b) # q
  <2>1. Written(bs)[q] = file[q]
    BY <1>2, PatchPlace, WrittenFacts
  <2> QED BY <2>1 DEF LayoutKept
<1> QED BY <1>1, <1>2

LEMMA TornKeeps ==
    ASSUME TypeOK, LayoutKept, todo # Nothing, Run \cap Void(vol) = {},
           NEW b \in Run, NEW bs \in SUBSET Run, NEW torn \in Content,
           \A i \in Idx : torn[i] \in {file[At(b)][i], Data(b)[i]},
           NEW p \in vol.patches
    PROVE  [Written(bs) EXCEPT ![At(b)] = torn][BlockOff(vol, p.block)][p.idx] # p.virt
<1> DEFINE q == BlockOff(vol, p.block)
<1>1. CASE At(b) = q
  <2>1. b = p.block
    BY <1>1, AtIsOff, PatchPlace, VolumeAssumption DEF TypeOK
  <2>2. [Written(bs) EXCEPT ![At(b)] = torn][q] = torn
    BY <1>1, AtIsOff, WrittenFacts
  <2>3. torn[p.idx] \in {file[q][p.idx], Data(b)[p.idx]}
    BY <1>1, PatchPlace
  <2>4. file[q][p.idx] # p.virt /\ Data(b)[p.idx] # p.virt
    BY <2>1, PatchedAlone DEF LayoutKept
  <2> QED BY <2>2, <2>3, <2>4
<1>2. CASE At(b) # q
  <2>1. [Written(bs) EXCEPT ![At(b)] = torn][q] = Written(bs)[q]
    BY <1>2, AtIsOff, PatchPlace, WrittenFacts
  <2> QED BY <2>1, WrittenKeeps
<1> QED BY <1>1, <1>2

-----------------------------------------------------------------------------
LEMMA InitInv == ASSUME Init PROVE IInv
<1>1. Nothing \in [{} -> Content] /\ DOMAIN Nothing = {}
  BY DEF Nothing
<1>2. file \in [Places -> Content]
  BY VolumeAssumption DEF Init
<1>3. TypeOK
  BY <1>1, <1>2 DEF Init, TypeOK
<1>4. LayoutKept
  BY VolumeAssumption DEF Init, LayoutKept
<1> QED BY <1>3, <1>4 DEF IInv, HeldLate, Init

(* What the library keeps is of what was written. *)
LEMMA KeepsFacts ==
    ASSUME TypeOK, HeldLate, todo # Nothing, Run \cap Void(vol) = {},
           NEW bs \in SUBSET Run, Keeps(bs), Up, esc' = esc
    PROVE  held' \subseteq Places /\ late' \subseteq Places /\ HeldLate'
<1>1. PlacesOf(bs) \subseteq Places
  BY AtIsOff DEF PlacesOf
<1>2. held' \subseteq held \cup PlacesOf(bs)
  BY DEF Keeps
<1>3. late' = IF esc = "flushed" THEN held' \cap (late \cup PlacesOf(bs)) ELSE late
  BY DEF Keeps
<1>4. esc \in {"watch", "flushed"}
  BY DEF Up
<1> QED BY <1>1, <1>2, <1>3, <1>4 DEF TypeOK, HeldLate

(* What the host is shown are bytes again. *)
LEMMA ReadType ==
    ASSUME TypeOK, NEW b \in Asked(vol)
    PROVE  BlockRead(b) \in Content
<1> DEFINE q == BlockOff(vol, b)
<1>1. CASE q = BLK_MISSING
  <2>1. Zeros \in Content
    BY VolumeAssumption DEF Zeros, Content
  <2> QED BY <1>1, <2>1 DEF BlockRead
<1>2. CASE q # BLK_MISSING
  <2>1. file[q] \in Content
    BY <1>2, VolumeAssumption DEF TypeOK
  <2>2. ASSUME NEW i \in Idx PROVE Shown(vol, b, file[q])[i] \in Byte
    <3>1. CASE OutPatch(vol, b, i, file[q][i]) = {}
      BY <2>1, <3>1 DEF Shown, Content
    <3>2. CASE OutPatch(vol, b, i, file[q][i]) # {}
      <4>1. PICK p \in OutPatch(vol, b, i, file[q][i]) : Shown(vol, b, file[q])[i] = p.virt
        BY <3>2 DEF Shown
      <4> QED BY <4>1, VolumeAssumption DEF OutPatch, TypeOK
    <3> QED BY <3>1, <3>2
  <2>3. Shown(vol, b, file[q]) \in Content
    BY <2>2 DEF Shown, Content
  <2> QED BY <1>2, <2>3 DEF BlockRead
<1> QED BY <1>1, <1>2

LEMMA TransferFacts ==
    ASSUME TypeOK, NEW t \in Transfers(vol)
    PROVE  t[1]..t[2] \subseteq Asked(vol)
<1> DEFINE n  == BlockCount(vol) + Beyond
           lo == t[1]
           hi == t[2]
<1>1. n \in Nat
  BY AskedFacts
<1>2. Asked(vol) = 0..(n - 1)
  BY AskedFacts DEF Asked
<1>3. lo \in Asked(vol) /\ hi \in Asked(vol)
  BY DEF Transfers
<1> HIDE DEF n, lo, hi
<1>4. lo..hi \subseteq Asked(vol)
  BY <1>1, <1>2, <1>3
<1> QED BY <1>4 DEF lo, hi

LEMMA NothingFacts == DOMAIN Nothing = {} /\ Nothing \in [DOMAIN Nothing -> Content]
BY DEF Nothing

-----------------------------------------------------------------------------
LEMMA StepInv == ASSUME IInv, [Next]_vars PROVE IInv'
<1> USE DEF IInv
<1>1. CASE HostRead
  <2>1. PICK t \in Transfers(vol) : reply' \in {Nothing, [b \in t[1]..t[2] |-> BlockRead(b)]}
    BY <1>1 DEF HostRead
  <2>2. DOMAIN reply' \subseteq Asked(vol) /\ reply' \in [DOMAIN reply' -> Content]
    <3>1. CASE reply' = Nothing
      BY <3>1, NothingFacts
    <3>2. CASE reply' = [b \in t[1]..t[2] |-> BlockRead(b)]
      BY <3>2, TransferFacts, ReadType
    <3> QED BY <2>1, <3>1, <3>2
  <2> QED BY <1>1, <2>2 DEF HostRead, TypeOK, LayoutKept, HeldLate
<1>2. CASE HostWrite
  <2>1. PICK t \in Transfers(vol) : todo' \in [t[1]..t[2] -> Content]
    BY <1>2 DEF HostWrite
  <2>2. DOMAIN todo' \subseteq Asked(vol) /\ todo' \in [DOMAIN todo' -> Content]
    BY <2>1, TransferFacts
  <2> QED BY <1>2, <2>2, NothingFacts DEF HostWrite, TypeOK, LayoutKept, HeldLate
<1>3. CASE FileWrite
  <2>1. todo # Nothing /\ Run \cap Void(vol) = {} /\ Up /\ esc' = esc /\ vol' = vol
    BY <1>3, RunIsThere DEF FileWrite
  <2>2. file' = Written(Run) /\ Keeps(Run)
    BY <1>3 DEF FileWrite
  <2>3. file' \in [Places -> Content]
    BY <2>1, <2>2, WrittenFacts
  <2>4. held' \subseteq Places /\ late' \subseteq Places /\ HeldLate'
    BY <2>1, <2>2, KeepsFacts
  <2>5. DOMAIN todo' \subseteq Asked(vol) /\ todo' \in [DOMAIN todo' -> Content]
    BY <1>3 DEF FileWrite, TypeOK
  <2>6. ASSUME NEW p \in vol.patches PROVE file'[BlockOff(vol, p.block)][p.idx] # p.virt
    BY <2>1, <2>2, WrittenKeeps
  <2> QED BY <1>3, <2>1, <2>3, <2>4, <2>5, <2>6, NothingFacts DEF FileWrite, TypeOK, LayoutKept
<1>4. CASE FileWriteFails
  <2>1. todo # Nothing /\ Run \cap Void(vol) = {} /\ Up /\ esc' = esc /\ vol' = vol
    BY <1>4, RunIsThere DEF FileWriteFails
  <2>2. PICK b \in Run, torn \in Content :
          /\ \A i \in Idx : torn[i] \in {file[At(b)][i], Data(b)[i]}
          /\ file' = [Written({c \in Run : c < b}) EXCEPT ![At(b)] = torn]
          /\ Keeps({c \in Run : c < b} \cup {b})
    BY <1>4 DEF FileWriteFails
  <2> DEFINE below == {c \in Run : c < b}
  <2>3. below \in SUBSET Run /\ below \cup {b} \in SUBSET Run
    OBVIOUS
  <2>4. file' \in [Places -> Content]
    BY <2>1, <2>2, <2>3, WrittenFacts
  <2>5. held' \subseteq Places /\ late' \subseteq Places /\ HeldLate'
    BY <2>1, <2>2, <2>3, KeepsFacts
  <2>6. ASSUME NEW p \in vol.patches PROVE file'[BlockOff(vol, p.block)][p.idx] # p.virt
    BY <2>1, <2>2, <2>3, TornKeeps
  <2> QED BY <1>4, <2>1, <2>4, <2>5, <2>6, NothingFacts DEF FileWriteFails, TypeOK, LayoutKept
<1>5. CASE Refuse
  BY <1>5, NothingFacts DEF Refuse, TypeOK, LayoutKept, HeldLate
<1>6. CASE Eject
  BY <1>6, NothingFacts DEF Eject, TypeOK, LayoutKept, HeldLate
<1>7. CASE WriteOut
  BY <1>7, NothingFacts DEF WriteOut, TypeOK, LayoutKept, HeldLate
<1>8. CASE EscapeFlush
  BY <1>8, NothingFacts DEF EscapeFlush, TypeOK, LayoutKept, HeldLate
<1>9. CASE EscapeRestart
  BY <1>9, NothingFacts DEF EscapeRestart, TypeOK, LayoutKept, HeldLate
<1>10. CASE Touch
  BY <1>10, NothingFacts DEF Touch, TypeOK, LayoutKept, HeldLate
<1>11. CASE UNCHANGED vars
  BY <1>11 DEF vars, TypeOK, LayoutKept, HeldLate
<1> QED
  BY <1>1, <1>2, <1>3, <1>4, <1>5, <1>6, <1>7, <1>8, <1>9, <1>10, <1>11 DEF Next

(* The invariant of the reader, its library and its escape task.           *)
THEOREM Invariance == Spec => []IInv
<1>1. Init => IInv
  BY InitInv
<1>2. IInv /\ [Next]_vars => IInv'
  BY StepInv
<1> QED BY <1>1, <1>2, PTL DEF Spec

(* Every variable keeps its type: whatever blocks the host asks for, the   *)
(* file is an image of whole blocks, and what the library keeps back are   *)
(* places of it (usb_image_read, usb_image_write).                         *)
THEOREM TypeCorrect == Spec => []TypeOK
<1>1. IInv => TypeOK
  BY DEF IInv
<1> QED BY <1>1, Invariance, PTL

(* The layout of the PC-98's own machine survives the PC, for every set of *)
(* patched bytes and every sequence of writes and failures (fd_write).     *)
THEOREM LayoutSurvives == Spec => []LayoutKept
<1>1. IInv => LayoutKept
  BY DEF IInv
<1> QED BY <1>1, Invariance, PTL

(* The restart from a tap or ESC loses what was written after the flush    *)
(* and nothing else (escape_task).                                         *)
THEOREM EscapeBounded == Spec => []EscapeLosesOnlyLate
<1>1. IInv => EscapeLosesOnlyLate
  BY DEF IInv, HeldLate, EscapeLosesOnlyLate
<1> QED BY <1>1, Invariance, PTL

(* A block that is written is the volume's, or past the end of one that is *)
(* shown as it is: the others have nothing there to write to.              *)
LEMMA WrittenIsOwn ==
    ASSUME TypeOK, todo # Nothing, Run \cap Void(vol) = {}, NEW b \in Run, Outside(At(b))
    PROVE  PastPlain(At(b))
<1>1. b \in Asked(vol) \ Void(vol) /\ At(b) = BlockOff(vol, b) /\ b \in DOMAIN todo
  BY AtIsOff, RunFacts
<1>2. b \notin Blocks(vol)
  BY <1>1 DEF Outside
<1>3. b \in Nat /\ BlockCount(vol) \in Nat
  BY <1>1, AskedFacts
<1>4. b >= BlockCount(vol)
  BY <1>2, <1>3 DEF Blocks
<1>5. vol.kind = "plain"
  BY <1>1, <1>4, PastEndIsVoid DEF Void
<1>6. At(b) = vol.off + b
  BY <1>1, <1>5 DEF BlockOff
<1> QED BY <1>1, <1>4, <1>5, <1>6 DEF PastPlain

(* Nothing outside a floppy or a translated volume is written, whatever    *)
(* the host asks for, for every table and every transfer; outside a volume *)
(* that is shown as it is, the blocks past its end that the host names     *)
(* (fd_block_off, fd_write, usb_image_write).                              *)
THEOREM OutsideSafe == Spec => OutsideUntouched
<1> DEFINE Step == \A q \in Places : Outside(q) => file'[q] = file[q] \/ PastPlain(q)
<1>1. IInv /\ [Next]_vars => [Step]_vars
  <2>1. SUFFICES ASSUME IInv, Next, NEW q \in Places, Outside(q), ~PastPlain(q)
                 PROVE  file'[q] = file[q]
    OBVIOUS
  <2>2. CASE FileWrite
    <3>1. todo # Nothing /\ Run \cap Void(vol) = {} /\ file' = Written(Run)
      BY <2>1, <2>2, RunIsThere DEF FileWrite, IInv
    <3>2. \A b \in Run : At(b) # q
      BY <2>1, <3>1, WrittenIsOwn DEF IInv
    <3> QED BY <2>1, <3>1, <3>2, WrittenFacts DEF IInv
  <2>3. CASE FileWriteFails
    <3>1. todo # Nothing /\ Run \cap Void(vol) = {}
      BY <2>1, <2>3, RunIsThere DEF FileWriteFails, IInv
    <3>2. PICK b \in Run, torn \in Content :
            file' = [Written({c \in Run : c < b}) EXCEPT ![At(b)] = torn]
      BY <2>3 DEF FileWriteFails
    <3>3. \A c \in Run : At(c) # q
      BY <2>1, <3>1, WrittenIsOwn DEF IInv
    <3>4. /\ Written({c \in Run : c < b}) \in [Places -> Content]
          /\ Written({c \in Run : c < b})[q] = file[q]
      BY <2>1, <3>1, <3>3, WrittenFacts DEF IInv
    <3> QED BY <3>2, <3>3, <3>4
  <2>4. CASE UNCHANGED file
    BY <2>4
  <2> QED
    BY <2>1, <2>2, <2>3, <2>4
    DEF Next, HostRead, HostWrite, Refuse, Eject, WriteOut, EscapeFlush, EscapeRestart, Touch
<1> QED BY <1>1, Invariance, PTL DEF Spec, OutsideUntouched

-----------------------------------------------------------------------------
(***************************************************************************)
(* The disk image reader implements a device of blocks (BlockDevice), for  *)
(* every volume and every table: whatever of a block is where in the file, *)
(* and by whichever of its two ways it was written, the host reads what it *)
(* wrote, but for the values that patched bytes cannot show.               *)
(*                                                                         *)
(* The argument is one equation (ShownAgain): what is put into the file    *)
(* for a block and then shown is what the device would have seen stored.   *)
(***************************************************************************)

(* A write under way leaves no answer of a read behind.                    *)
OneAtATime == todo # Nothing => reply = Nothing

LEMMA OneAtATimeStep == ASSUME OneAtATime, [Next]_vars PROVE OneAtATime'
<1> USE DEF OneAtATime
<1>1. CASE Next
  BY <1>1 DEF Next, HostRead, HostWrite, FileWrite, FileWriteFails, Refuse, Eject, WriteOut,
              EscapeFlush, EscapeRestart, Touch
<1>2. CASE UNCHANGED vars
  BY <1>2 DEF vars
<1> QED BY <1>1, <1>2

(* The device's disk, now and after the step. *)
Disk == [b \in Served(vol) |-> BlockRead(b)]

(* What the reader answers for. *)
LEMMA ServedFacts ==
    ASSUME TypeOK
    PROVE  /\ Served(vol) \subseteq Asked(vol) /\ Void(vol) \subseteq Served(vol)
           /\ vol.kind # "plain" => Served(vol) = Asked(vol)
<1>1. Blocks(vol) \subseteq Asked(vol)
  BY AskedFacts
<1>2. vol.kind = "plain" => Void(vol) = {}
  <2>1. SUFFICES ASSUME vol.kind = "plain", NEW b \in Void(vol) PROVE FALSE
    OBVIOUS
  <2> QED BY <2>1, PlainIsThere DEF Void
<1> QED BY <1>1, <1>2 DEF Served, Void

LEMMA DiskFacts ==
    ASSUME vol' = vol
    PROVE  /\ DOMAIN Disk = Served(vol) /\ DOMAIN Disk' = Served(vol)
           /\ \A b \in Served(vol) : Disk[b] = BlockRead(b) /\ Disk'[b] = BlockRead(b)'
           /\ file' = file => Disk' = Disk
BY DEF Disk, BlockRead

-----------------------------------------------------------------------------
(* What the device sees stored is what the host is shown. *)
LEMMA SeenIsShown ==
    ASSUME TypeOK, NEW b \in Asked(vol), NEW x \in Content
    PROVE  Device!Seen(b, x) = Shown(vol, b, x)
<1>1. DOMAIN x = Idx
  BY DEF Content
<1>2. ASSUME NEW i \in Idx PROVE Device!Seen(b, x)[i] = Shown(vol, b, x)[i]
  <2>1. CASE OutPatch(vol, b, i, x[i]) = {}
    <3>1. Shown(vol, b, x)[i] = x[i]
      BY <2>1 DEF Shown
    <3>2. ~ \E v \in vol.patches : v.block = b /\ v.idx = i /\ v.orig = x[i]
      BY <2>1 DEF OutPatch
    <3>3. Device!Seen(b, x)[i] = x[i]
      BY <1>1, <3>2 DEF Device!Seen
    <3> QED BY <3>1, <3>3
  <2>2. CASE OutPatch(vol, b, i, x[i]) # {}
    <3>1. PICK p \in OutPatch(vol, b, i, x[i]) : Shown(vol, b, x)[i] = p.virt
      BY <2>2 DEF Shown
    <3>2. PICK q \in vol.patches : /\ q.block = b /\ q.idx = i /\ q.orig = x[i]
                                   /\ Device!Seen(b, x)[i] = q.virt
      BY <1>1, <3>1 DEF Device!Seen, OutPatch
    <3>3. p = q
      BY <3>1, <3>2, VolumeAssumption DEF OutPatch, TypeOK
    <3> QED BY <3>1, <3>2, <3>3
  <2> QED BY <2>1, <2>2
<1> DEFINE s == Device!Seen(b, x)
           t == Shown(vol, b, x)
<1>3. s = [i \in Idx |-> s[i]] /\ t = [i \in Idx |-> t[i]]
  BY <1>1 DEF Device!Seen, Shown
<1>4. \A i \in Idx : s[i] = t[i]
  BY <1>2
<1> HIDE DEF s, t
<1>5. s = t
  BY <1>3, <1>4
<1> QED BY <1>5 DEF s, t

LEMMA ShownByte ==
    ASSUME NEW v, NEW b, NEW x, NEW y, NEW i \in Idx, x[i] = y[i]
    PROVE  Shown(v, b, x)[i] = Shown(v, b, y)[i]
<1> DEFINE One(ps, a) == IF ps = {} THEN a ELSE (CHOOSE p \in ps : TRUE).virt
<1>1. /\ Shown(v, b, x)[i] = One(OutPatch(v, b, i, x[i]), x[i])
      /\ Shown(v, b, y)[i] = One(OutPatch(v, b, i, y[i]), y[i])
  BY DEF Shown
<1> HIDE DEF One
<1> QED BY <1>1

(* The equation: what is put back on the way in is put on again on the way *)
(* out.                                                                    *)
LEMMA ShownAgain ==
    ASSUME TypeOK, NEW b \in Asked(vol), NEW x \in Content
    PROVE  Shown(vol, b, Taken(vol, b, x)) = Shown(vol, b, x)
<1> DEFINE y == Taken(vol, b, x)
<1>1. ASSUME NEW i \in Idx PROVE Shown(vol, b, y)[i] = Shown(vol, b, x)[i]
  <2>1. CASE InPatch(vol, b, i, x[i]) = {}
    <3>1. y[i] = x[i]
      BY <2>1 DEF Taken
    <3> HIDE DEF y
    <3> QED BY <3>1, ShownByte
  <2>2. CASE InPatch(vol, b, i, x[i]) # {}
    <3>1. PICK p \in InPatch(vol, b, i, x[i]) : y[i] = p.orig
      BY <2>2 DEF Taken
    <3>2. p \in OutPatch(vol, b, i, y[i])
      BY <3>1 DEF InPatch, OutPatch
    <3>3. PICK q \in OutPatch(vol, b, i, y[i]) : Shown(vol, b, y)[i] = q.virt
      BY <3>2 DEF Shown
    <3>4. q = p
      BY <3>2, <3>3, VolumeAssumption DEF OutPatch, TypeOK
    <3>5. OutPatch(vol, b, i, x[i]) = {}
      <4>1. SUFFICES ASSUME NEW r \in OutPatch(vol, b, i, x[i]) PROVE FALSE
        OBVIOUS
      <4>2. r = p
        BY <4>1, <3>1, VolumeAssumption DEF OutPatch, InPatch, TypeOK
      <4>3. r.orig = p.virt
        BY <4>1, <3>1 DEF OutPatch, InPatch
      <4> QED BY <3>1, <4>2, <4>3, VolumeAssumption DEF InPatch, TypeOK
    <3>6. Shown(vol, b, x)[i] = x[i]
      BY <3>5 DEF Shown
    <3> QED BY <3>1, <3>3, <3>4, <3>6 DEF InPatch
  <2> QED BY <2>1, <2>2
<1> DEFINE s == Shown(vol, b, y)
           t == Shown(vol, b, x)
<1>2. s = [i \in Idx |-> s[i]] /\ t = [i \in Idx |-> t[i]]
  BY DEF Shown
<1>3. \A i \in Idx : s[i] = t[i]
  BY <1>1
<1> HIDE DEF s, t, y
<1>4. s = t
  BY <1>2, <1>3
<1> QED BY <1>4 DEF s, t, y

LEMMA DataIsSeen ==
    ASSUME TypeOK, todo # Nothing, NEW b \in Run
    PROVE  Shown(vol, b, Data(b)) = Device!Seen(b, todo[b])
<1>1. b \in Asked(vol) /\ todo[b] \in Content
  BY RunFacts DEF TypeOK
<1>2. Shown(vol, b, Data(b)) = Shown(vol, b, todo[b])
  BY <1>1, ShownAgain DEF Data
<1> QED BY <1>1, <1>2, SeenIsShown

(* A run is the first of what is left. *)
LEMMA RunIsFirst ==
    ASSUME TypeOK, todo # Nothing
    PROVE  /\ \A b \in Run, c \in DOMAIN todo : c <= b => c \in Run
           /\ \E last \in Run : \A c \in Run : c <= last
<1>1. DOMAIN todo \subseteq Nat
  <2>1. Asked(vol) \subseteq Nat
    BY AskedFacts
  <2> QED BY <2>1 DEF TypeOK
<1>2. First(DOMAIN todo) \in DOMAIN todo
  BY FirstFacts
<1>3. CASE WholeRun
  <2>1. Run = DOMAIN todo
    BY <1>3 DEF Run
  <2> QED BY <2>1, LastFacts
<1>4. CASE ~WholeRun
  <2>1. Run = {First(DOMAIN todo)}
    BY <1>4 DEF Run
  <2>2. \A c \in DOMAIN todo : First(DOMAIN todo) <= c
    BY FirstFacts
  <2> QED BY <1>1, <1>2, <2>1, <2>2
<1> QED BY <1>3, <1>4

-----------------------------------------------------------------------------
(* Once the blocks of the run below b are written, block c shows what the  *)
(* device has with its own blocks below b stored.                          *)
LEMMA StoredIsShown ==
    ASSUME TypeOK, todo # Nothing, Run \cap Void(vol) = {}, NEW b \in Int,
           \A c \in DOMAIN todo : c < b => c \in Run,
           NEW c \in Served(vol), BlockOff(vol, c) # BLK_MISSING
    PROVE  Device!Stored(b)[c]
              = Shown(vol, c, Written({d \in Run : d < b})[BlockOff(vol, c)])
<1> DEFINE bs == {d \in Run : d < b}
           q  == BlockOff(vol, c)
<1>1. q \in Places /\ c \in Asked(vol) \ Void(vol)
  BY ServedFacts, VolumeAssumption DEF TypeOK, Void
<1>2. Run \subseteq DOMAIN todo
  BY RunFacts
<1>3. CASE c \in bs
  <2>1. At(c) = q
    BY <1>3, AtIsOff
  <2>2. Written(bs)[q] = Data(c)
    BY <1>3, <2>1, WrittenFacts
  <2>3. Device!Stored(b)[c] = Device!Seen(c, todo[c])
    BY <1>2, <1>3 DEF Device!Stored
  <2> QED BY <1>3, <2>2, <2>3, DataIsSeen
<1>4. CASE c \notin bs
  <2>1. \A d \in bs : At(d) # q
    <3>1. SUFFICES ASSUME NEW d \in bs, At(d) = q PROVE FALSE
      OBVIOUS
    <3>2. d \in Asked(vol) \ Void(vol) /\ BlockOff(vol, d) = q
      BY <3>1, AtIsOff
    <3>3. d = c
      BY <1>1, <3>2, VolumeAssumption DEF TypeOK
    <3> QED BY <1>4, <3>3
  <2>2. Written(bs)[q] = file[q]
    BY <1>1, <2>1, WrittenFacts
  <2>3. ~(c \in DOMAIN todo /\ c < b)
    BY <1>4
  <2>4. Device!Stored(b)[c] = BlockRead(c)
    BY <2>3 DEF Device!Stored
  <2> QED BY <2>2, <2>4 DEF BlockRead
<1> QED BY <1>3, <1>4

(* The same for a block that is not in the file: it reads as zeros.        *)
LEMMA VoidIsStored ==
    ASSUME TypeOK, todo # Nothing, Run \cap Void(vol) = {}, NEW b \in Int,
           \A c \in DOMAIN todo : c < b => c \in Run,
           NEW c \in Served(vol), BlockOff(vol, c) = BLK_MISSING
    PROVE  Device!Stored(b)[c] = Zeros
<1>1. c \notin Run
  BY ServedFacts DEF Void
<1>2. Device!Stored(b)[c] = BlockRead(c)
  BY <1>1 DEF Device!Stored
<1> QED BY <1>2 DEF BlockRead

LEMMA StoredIsDisk ==
    ASSUME TypeOK, todo # Nothing, Run \cap Void(vol) = {}, NEW b \in Int,
           \A c \in DOMAIN todo : c < b => c \in Run,
           vol' = vol, file' = Written({d \in Run : d < b})
    PROVE  Disk' = Device!Stored(b)
<1>1. Disk' = [c \in Served(vol) |-> Disk'[c]]
  BY DEF Disk
<1>2. Device!Stored(b) = [c \in Served(vol) |-> Device!Stored(b)[c]]
  BY DEF Device!Stored
<1>3. ASSUME NEW c \in Served(vol) PROVE Disk'[c] = Device!Stored(b)[c]
  <2>1. Disk'[c] = BlockRead(c)'
    BY DiskFacts
  <2>2. CASE BlockOff(vol, c) = BLK_MISSING
    BY <2>1, <2>2, VoidIsStored DEF BlockRead
  <2>3. CASE BlockOff(vol, c) # BLK_MISSING
    BY <2>1, <2>3, StoredIsShown DEF BlockRead
  <2> QED BY <2>2, <2>3
<1> DEFINE s == Device!Stored(b)
           t == Disk'
<1>4. \A c \in Served(vol) : s[c] = t[c]
  BY <1>3
<1>5. s = [c \in Served(vol) |-> s[c]] /\ t = [c \in Served(vol) |-> t[c]]
  BY <1>1, <1>2
<1> HIDE DEF s, t
<1>6. s = t
  BY <1>4, <1>5
<1> QED BY <1>6 DEF s, t

(* The same once block b is torn, for every other block of the device: b   *)
(* may be past the end of a volume shown as it is.                         *)
LEMMA TornElsewhere ==
    ASSUME TypeOK, todo # Nothing, Run \cap Void(vol) = {}, NEW b \in Run,
           \A c \in DOMAIN todo : c < b => c \in Run, NEW x \in Content,
           vol' = vol, file' = [Written({d \in Run : d < b}) EXCEPT ![At(b)] = x],
           NEW c \in Served(vol), c # b
    PROVE  Disk'[c] = Device!Stored(b)[c]
<1> DEFINE w == Written({d \in Run : d < b})
<1>1. b \in Asked(vol) \ Void(vol) /\ At(b) = BlockOff(vol, b) /\ At(b) \in Places
  BY AtIsOff
<1>2. w \in [Places -> Content]
  BY WrittenFacts
<1>3. b \in Int
  BY <1>1, AskedFacts
<1>4. Disk'[c] = BlockRead(c)'
  BY DiskFacts
<1>5. CASE BlockOff(vol, c) = BLK_MISSING
  BY <1>3, <1>4, <1>5, VoidIsStored DEF BlockRead
<1>6. CASE BlockOff(vol, c) # BLK_MISSING
  <2>1. c \in Asked(vol) \ Void(vol)
    BY <1>6, ServedFacts DEF Void
  <2>2. BlockOff(vol, c) \in Places /\ BlockOff(vol, c) # At(b)
    BY <1>1, <1>6, <2>1, VolumeAssumption DEF TypeOK
  <2>3. file'[BlockOff(vol, c)] = w[BlockOff(vol, c)]
    BY <1>2, <2>2
  <2>4. Disk'[c] = Shown(vol, c, w[BlockOff(vol, c)])
    BY <1>4, <1>6, <2>3 DEF BlockRead
  <2> QED BY <1>3, <1>6, <2>4, StoredIsShown
<1> QED BY <1>5, <1>6

LEMMA TornIsDisk ==
    ASSUME TypeOK, todo # Nothing, Run \cap Void(vol) = {}, NEW b \in Run,
           \A c \in DOMAIN todo : c < b => c \in Run, NEW x \in Content,
           vol' = vol, file' = [Written({d \in Run : d < b}) EXCEPT ![At(b)] = x]
    PROVE  /\ b \in Served(vol) => Disk' = [Device!Stored(b) EXCEPT ![b] = Device!Seen(b, x)]
           /\ b \notin Served(vol) => Disk' = Device!Stored(b)
<1> DEFINE s == Device!Stored(b)
           r == [Device!Stored(b) EXCEPT ![b] = Device!Seen(b, x)]
           t == Disk'
           w == Written({d \in Run : d < b})
<1>1. b \in Asked(vol) \ Void(vol) /\ At(b) = BlockOff(vol, b) /\ At(b) \in Places
  BY AtIsOff
<1>2. w \in [Places -> Content]
  BY WrittenFacts
<1>3. /\ t = [c \in Served(vol) |-> t[c]] /\ s = [c \in Served(vol) |-> s[c]]
      /\ r = [c \in Served(vol) |-> r[c]]
  BY DEF Disk, Device!Stored
<1>4. ASSUME NEW c \in Served(vol), c # b PROVE t[c] = s[c] /\ r[c] = s[c]
  <2>1. t[c] = s[c]
    BY <1>4, TornElsewhere
  <2>2. r[c] = s[c]
    BY <1>4 DEF Device!Stored
  <2> QED BY <2>1, <2>2
<1>5. CASE b \in Served(vol)
  <2>1. r[b] = Device!Seen(b, x)
    BY <1>5 DEF Device!Stored
  <2>2. BlockOff(vol, b) # BLK_MISSING /\ file'[BlockOff(vol, b)] = x
    BY <1>1, <1>2 DEF Void
  <2>3. t[b] = BlockRead(b)'
    BY <1>5, DiskFacts
  <2>4. t[b] = Shown(vol, b, x)
    BY <2>2, <2>3 DEF BlockRead
  <2>5. t[b] = r[b]
    BY <1>1, <2>1, <2>4, SeenIsShown
  <2> HIDE DEF s, r, t
  <2>6. \A c \in Served(vol) : t[c] = r[c]
    BY <1>4, <2>5
  <2>7. t = r
    BY <1>3, <2>6
  <2> QED BY <1>5, <2>7 DEF r, t
<1>6. CASE b \notin Served(vol)
  <2> HIDE DEF s, r, t
  <2>1. \A c \in Served(vol) : t[c] = s[c]
    BY <1>4, <1>6
  <2>2. t = s
    BY <1>3, <2>1
  <2> QED BY <1>6, <2>2 DEF s, t
<1> QED BY <1>5, <1>6

-----------------------------------------------------------------------------
(* What the volume decides is as it was. *)
LEMMA SameVolume ==
    ASSUME vol' = vol
    PROVE  /\ Void(vol)' = Void(vol) /\ vol.patches' = vol.patches
           /\ Asked(vol)' = Asked(vol)
<1>1. Void(vol)' = Void(vol)
  BY DEF Void
<1>2. Asked(vol)' = Asked(vol)
  BY DEF Asked
<1> QED BY <1>1, <1>2

LEMMA FileWriteIsWrite ==
    ASSUME TypeOK, FileWrite PROVE Device!Write
<1>1. /\ todo # Nothing /\ Run \cap Void(vol) = {} /\ file' = Written(Run) /\ vol' = vol
      /\ todo' = [b \in DOMAIN todo \ Run |-> todo[b]] /\ reply' = Nothing
  BY RunIsThere DEF FileWrite
<1>2. DOMAIN todo \subseteq Int /\ Run \subseteq DOMAIN todo
  BY <1>1, RunFacts, AskedFacts DEF TypeOK
<1>3. PICK last \in Run : \A c \in Run : c <= last
  BY <1>1, RunIsFirst
<1>4. \A c \in DOMAIN todo : c <= last <=> c \in Run
  BY <1>1, <1>3, RunIsFirst
<1>5. last + 1 \in Int /\ \A c \in DOMAIN todo : c < last + 1 <=> c \in Run
  BY <1>2, <1>3, <1>4
<1>6. {d \in Run : d < last + 1} = Run
  BY <1>2, <1>5
<1>7. Disk' = Device!Stored(last + 1)
  BY <1>1, <1>5, <1>6, StoredIsDisk
<1>8. {d \in DOMAIN todo : d > last} = DOMAIN todo \ Run
  BY <1>2, <1>3, <1>4
<1>9. last \in DOMAIN todo /\ \A c \in DOMAIN todo : c <= last => c \notin Void(vol)
  BY <1>1, <1>2, <1>4
<1>10. Void(vol)' = Void(vol) /\ vol.patches' = vol.patches /\ Asked(vol)' = Asked(vol)
  BY <1>1, SameVolume
<1> QED BY <1>1, <1>7, <1>8, <1>9, <1>10 DEF Device!Write, Device!Nothing, Nothing, Disk

LEMMA FileWriteFailsIsFail ==
    ASSUME TypeOK, FileWriteFails PROVE Device!Fail
<1>1. /\ todo # Nothing /\ Run \cap Void(vol) = {} /\ vol' = vol
      /\ todo' = Nothing /\ reply' = Nothing
  BY RunIsThere DEF FileWriteFails
<1>2. PICK b \in Run, x \in Content : file' = [Written({c \in Run : c < b}) EXCEPT ![At(b)] = x]
  BY DEF FileWriteFails
<1>3. b \in DOMAIN todo /\ Run \subseteq DOMAIN todo /\ DOMAIN todo \subseteq Int
  BY <1>1, RunFacts, AskedFacts DEF TypeOK
<1>4. \A c \in DOMAIN todo : c < b => c \in Run
  BY <1>1, <1>3, RunIsFirst
<1>5. /\ b \in Served(vol) => Disk' = [Device!Stored(b) EXCEPT ![b] = Device!Seen(b, x)]
      /\ b \notin Served(vol) => Disk' = Device!Stored(b)
  BY <1>1, <1>2, <1>4, TornIsDisk
<1>6. b \notin Void(vol) /\ \A c \in DOMAIN todo : c < b => c \notin Void(vol)
  BY <1>1, <1>4
<1>7. Void(vol)' = Void(vol) /\ vol.patches' = vol.patches /\ Asked(vol)' = Asked(vol)
  BY <1>1, SameVolume
<1>8. \/ Disk' = Device!Stored(b)
      \/ /\ b \in DOMAIN Disk \ Void(vol)
         /\ \E y \in Content : Disk' = [Device!Stored(b) EXCEPT ![b] = Device!Seen(b, y)]
  BY <1>1, <1>2, <1>5, <1>6, DiskFacts
<1> QED BY <1>1, <1>3, <1>6, <1>7, <1>8 DEF Device!Fail, Device!Nothing, Nothing, Disk

(* A write that is refused has stored nothing in this step.                *)
LEMMA RefuseIsFail ==
    ASSUME TypeOK, Refuse PROVE Device!Fail
<1>1. /\ todo # Nothing /\ vol' = vol /\ file' = file /\ todo' = Nothing /\ reply' = Nothing
  BY DEF Refuse
<1> DEFINE b == First(DOMAIN todo)
<1>2. b \in DOMAIN todo /\ (\A c \in DOMAIN todo : b <= c) /\ DOMAIN todo \subseteq Int
  BY <1>1, FirstFacts, AskedFacts DEF TypeOK
<1> HIDE DEF b
<1>3. \A c \in DOMAIN todo : ~(c < b)
  BY <1>2
<1>4. Disk' = Disk
  BY <1>1, DiskFacts
<1>5. Device!Stored(b) = Disk
  BY <1>3 DEF Device!Stored, Disk
<1>6. Void(vol)' = Void(vol) /\ vol.patches' = vol.patches /\ Asked(vol)' = Asked(vol)
  BY <1>1, SameVolume
<1> QED BY <1>1, <1>2, <1>3, <1>4, <1>5, <1>6 DEF Device!Fail, Device!Nothing, Nothing, Disk

LEMMA HostReadIsRead ==
    ASSUME TypeOK, HostRead PROVE Device!Read
<1>1. todo = Nothing /\ vol' = vol /\ file' = file /\ todo' = todo
  BY DEF HostRead
<1>2. PICK t \in Transfers(vol) : reply' \in {Nothing, [b \in t[1]..t[2] |-> BlockRead(b)]}
  BY DEF HostRead
<1>3. t[1] \in Asked(vol) /\ t[2] \in Asked(vol) /\ t[1]..t[2] \subseteq Asked(vol)
  BY <1>2, TransferFacts DEF Transfers
<1>4. ASSUME reply' # Nothing
      PROVE  /\ reply' \in [t[1]..t[2] -> Content]
             /\ \A b \in (t[1]..t[2]) \cap DOMAIN Disk : reply'[b] = Disk[b]
  <2>1. reply' = [b \in t[1]..t[2] |-> BlockRead(b)]
    BY <1>2, <1>4
  <2>2. \A b \in t[1]..t[2] : BlockRead(b) \in Content
    BY <1>3, ReadType
  <2> QED BY <2>1, <2>2 DEF Disk
<1>5. Disk' = Disk /\ DOMAIN Disk = Served(vol)
  BY <1>1, DiskFacts
<1>6. Void(vol)' = Void(vol) /\ vol.patches' = vol.patches /\ Asked(vol)' = Asked(vol)
  BY <1>1, SameVolume
<1>7. \/ reply' = Nothing
      \/ \E lo, hi \in Asked(vol) :
            /\ reply' \in [lo..hi -> Content]
            /\ \A b \in (lo..hi) \cap DOMAIN Disk : reply'[b] = Disk[b]
  BY <1>3, <1>4
<1> QED BY <1>1, <1>5, <1>6, <1>7 DEF Device!Read, Device!Nothing, Nothing, Disk

LEMMA HostWriteIsBegin ==
    ASSUME TypeOK, HostWrite PROVE Device!Begin
<1>1. todo = Nothing /\ vol' = vol /\ file' = file /\ reply' = Nothing
  BY DEF HostWrite
<1>2. PICK t \in Transfers(vol) : todo' \in [t[1]..t[2] -> Content]
  BY DEF HostWrite
<1>3. t[1] \in Asked(vol) /\ t[2] \in Asked(vol)
  BY <1>2 DEF Transfers
<1>4. Disk' = Disk /\ DOMAIN Disk = Served(vol)
  BY <1>1, DiskFacts
<1>5. Void(vol)' = Void(vol) /\ vol.patches' = vol.patches /\ Asked(vol)' = Asked(vol)
  BY <1>1, SameVolume
<1> QED BY <1>1, <1>2, <1>3, <1>4, <1>5 DEF Device!Begin, Device!Nothing, Nothing, Disk

(* A step of the reader's own: the host has its answer no longer, or       *)
(* nothing changes for it.                                                 *)
LEMMA QuietStep ==
    ASSUME TypeOK, OneAtATime, vol' = vol, file' = file, todo' = todo, reply' = Nothing
    PROVE  Device!Read \/ UNCHANGED Device!vars
<1>1. Disk' = Disk /\ DOMAIN Disk = Served(vol)
  BY DiskFacts
<1>2. Void(vol)' = Void(vol) /\ vol.patches' = vol.patches /\ Asked(vol)' = Asked(vol)
  BY SameVolume
<1>3. CASE todo = Nothing
  <2> QED BY <1>1, <1>2, <1>3 DEF Device!Read, Device!Nothing, Nothing, Disk
<1>4. CASE todo # Nothing
  <2>1. reply' = reply
    BY <1>4 DEF OneAtATime
  <2> QED BY <1>1, <1>2, <2>1 DEF Device!vars, Disk
<1> QED BY <1>3, <1>4

-----------------------------------------------------------------------------
LEMMA StepRefines ==
    ASSUME TypeOK, OneAtATime, [Next]_vars
    PROVE  [Device!Next]_(Device!vars)
<1>1. CASE HostRead
  BY <1>1, HostReadIsRead DEF Device!Next
<1>2. CASE HostWrite
  BY <1>2, HostWriteIsBegin DEF Device!Next
<1>3. CASE FileWrite
  BY <1>3, FileWriteIsWrite DEF Device!Next
<1>4. CASE FileWriteFails
  BY <1>4, FileWriteFailsIsFail DEF Device!Next
<1>5. CASE Refuse
  BY <1>5, RefuseIsFail DEF Device!Next
<1>6. CASE Eject \/ WriteOut \/ EscapeFlush \/ EscapeRestart \/ Touch
  <2>1. vol' = vol /\ file' = file /\ todo' = todo /\ reply' = Nothing
    BY <1>6 DEF Eject, WriteOut, EscapeFlush, EscapeRestart, Touch
  <2> QED BY <2>1, QuietStep DEF Device!Next
<1>7. CASE UNCHANGED vars
  <2>1. vol' = vol /\ file' = file /\ todo' = todo /\ reply' = reply
    BY <1>7 DEF vars
  <2>2. /\ Disk' = Disk /\ Void(vol)' = Void(vol) /\ vol.patches' = vol.patches
        /\ Asked(vol)' = Asked(vol)
    BY <2>1, DiskFacts, SameVolume
  <2> QED BY <2>1, <2>2 DEF Device!vars, Disk
<1> QED BY <1>1, <1>2, <1>3, <1>4, <1>5, <1>6, <1>7 DEF Next

LEMMA InitRefines ==
    ASSUME Init PROVE Device!Init
<1>1. TypeOK
  BY InitInv DEF IInv
<1>2. \A b \in Void(vol) : b \in Served(vol) /\ BlockRead(b) = Zeros
  BY <1>1, ServedFacts DEF Void, BlockRead
<1> QED BY <1>2 DEF Init, Device!Init, Device!Nothing, Nothing

(* Implements: the disk image reader is a device of blocks, for every      *)
(* image file, every table of its sectors and transfers of any length      *)
(* (usb_image_read, usb_image_write).                                      *)
THEOREM ReaderImplements == Spec => Implements
<1>1. Init => Device!Init
  BY InitRefines
<1>2. Init => OneAtATime
  BY DEF Init, OneAtATime
<1>3. OneAtATime /\ [Next]_vars => OneAtATime'
  BY OneAtATimeStep
<1>4. TypeOK /\ OneAtATime /\ [Next]_vars => [Device!Next]_(Device!vars)
  BY StepRefines
<1> QED BY <1>1, <1>2, <1>3, <1>4, TypeCorrect, PTL DEF Spec, Implements, Device!Spec
=============================================================================
