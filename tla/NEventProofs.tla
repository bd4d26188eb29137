----------------------------- MODULE NEventProofs -----------------------------
(***************************************************************************)
(* Proofs about the event scheduler, for any periods, multiples and        *)
(* lengths of a frame, any instructions and any width of CPU_CLOCK.        *)
(*                                                                         *)
(* The list is in the order of the due times (List), so that what is due   *)
(* is its beginning, and no slice that an STI has not stretched outlives   *)
(* the first event (Fits): when the CPU comes back with cycles left,       *)
(* nothing is overdue.  Stages says where FLAMES is, InTurn that callbacks *)
(* not superseded run in the order of their due times.  Each step changes  *)
(* the list by setting some events from now and cancelling others          *)
(* (Changed), or by setting one again from its due time (Rearmed), and     *)
(* these are what Timers speaks of.                                        *)
(*                                                                         *)
(* Those is a loop over the list.  What it leaves is found by induction    *)
(* over its steps, from the least number at which it would fail (Least).   *)
(***************************************************************************)
EXTENDS NEvent, SequenceTheorems, WellFoundedInduction, TLAPS

(* A list is in the order of c.                                            *)
Ordered(s, c) == \A i, j \in DOMAIN s : i < j => c[s[i]] <= c[s[j]]

(* e's list, in order.                                                     *)
List(e) == e \in Events /\ Distinct(e.level) /\ Ordered(e.level, e.clock)

(* A slice that ends before any of e's events is overdue.                  *)
Fits(e) == e.rem > 0 => \A id \in Elems(e.level) : e.base <= e.clock[id]

(* The types of what is not in ev.                                         *)
Others ==
    /\ waitevent \in Seq(Ids) /\ Distinct(waitevent)
    /\ CPU_CLOCK \in 0..(Wrap - 1)
    /\ multiple \in Mults /\ proc \in {"vsync", "disp"}
    /\ screendispflag \in BOOLEAN /\ shadow \in 0..MaxShadow
    /\ pc \in {"host", "cpu", "callbacks"}

(* Time has not run backwards in the slice, and what is left of one that   *)
(* no STI has stretched ends before any event is overdue.                  *)
SliceFits ==
    /\ Elapsed(ev) >= 0
    /\ shadow = 0 => Fits(ev)
    /\ shadow > 0 => pc = "cpu" /\ ev.rem = 1

(* Where FLAMES is, and the callbacks to come: with the frame over, or the *)
(* CPU running, there are none.                                            *)
Stages ==
    /\ pc # "callbacks" => waitevent = <<>> /\ screendispflag = (pc = "cpu")
    /\ ev.setevent \subseteq Elems(waitevent)
    /\ FLAMES \in Elems(waitevent) => FLAMES \in ev.setevent /\ screendispflag
    /\ FLAMES \in Elems(ev.level) <=> (screendispflag /\ FLAMES \notin Elems(waitevent))

(* The callbacks not superseded run in the order of the due times.         *)
InTurn ==
    \A i, j \in DOMAIN waitevent :
        i < j /\ waitevent[i] \in ev.setevent /\ waitevent[j] \in ev.setevent =>
            ev.clock[waitevent[i]] <= ev.clock[waitevent[j]]

IInv == List(ev) /\ Others /\ SliceFits /\ Stages /\ InTurn

(* The machine's time moves by what the step spent.                        *)
Counted == multiple' = multiple => Cycles' = (Cycles + spent') % Wrap

(* Every step is one of the timers', or none.                              *)
Mapped == [T!Next]_(T!tvars)

-----------------------------------------------------------------------------
(* A set of numbers has a least.                                           *)
LEMMA Least ==
    ASSUME NEW S \in SUBSET Nat, S # {}
    PROVE  \E m \in S : \A n \in S : m <= n
<1>1. PICK m \in S : \A n \in Nat : <<n, m>> \in OpToRel(<, Nat) => n \notin S
  <2>1. IsWellFoundedOn(OpToRel(<, Nat), Nat)
    BY NatLessThanWellFounded
  <2> QED BY <2>1, WFMin, Zenon
<1>2. ASSUME NEW n \in S PROVE m <= n
  <2>1. n \in Nat /\ m \in Nat
    OBVIOUS
  <2>2. ~(n < m)
    BY <1>1, <2>1, Zenon DEF OpToRel
  <2> QED BY <2>1, <2>2
<1> QED BY <1>2

Step(s, S, F, n) == IF n = 0 THEN <<>> ELSE IF s[n] \in S THEN Append(F[n - 1], s[n]) ELSE F[n - 1]

(* The loop of Those runs, to any length.                                  *)
LEMMA LoopRuns ==
    ASSUME NEW X, NEW s \in Seq(X), NEW S
    PROVE  \E F : F = [n \in 0..Len(s) |-> Step(s, S, F, n)]
<1> DEFINE Runs(m) == \E F : F = [n \in 0..m |-> Step(s, S, F, n)]
           P == {m \in Nat : ~Runs(m)}
<1>1. Runs(0)
  <2> DEFINE F == [n \in 0..0 |-> <<>>]
  <2>1. F = [n \in 0..0 |-> Step(s, S, F, n)]
    BY DEF Step
  <2> QED BY <2>1
<1>2. ASSUME NEW m \in Nat, Runs(m) PROVE Runs(m + 1)
  <2>1. PICK F : F = [n \in 0..m |-> Step(s, S, F, n)]
    BY <1>2
  <2> DEFINE G == [n \in 0..(m + 1) |-> IF n = m + 1 THEN Step(s, S, F, n) ELSE F[n]]
  <2>2. ASSUME NEW n \in 0..(m + 1) PROVE G[n] = Step(s, S, G, n)
    <3>1. n # 0 => n - 1 \in 0..m /\ G[n - 1] = F[n - 1]
      OBVIOUS
    <3>2. Step(s, S, G, n) = Step(s, S, F, n)
      BY <3>1 DEF Step
    <3>3. CASE n = m + 1
      BY <3>2, <3>3
    <3>4. CASE n \in 0..m
      BY <2>1, <3>2, <3>4
    <3> QED BY <3>3, <3>4
  <2>3. G = [n \in 0..(m + 1) |-> Step(s, S, G, n)]
    BY <2>2
  <2> QED BY <2>3
<1>3. P = {}
  <2> SUFFICES ASSUME P # {} PROVE FALSE
    OBVIOUS
  <2>1. PICK m \in P : \A n \in P : m <= n
    BY Least
  <2>2. m # 0
    BY <1>1
  <2>3. m - 1 \in Nat /\ m - 1 \notin P
    BY <2>1, <2>2
  <2> HIDE DEF Runs
  <2>4. Runs(m - 1 + 1)
    BY <1>2, <2>3
  <2> QED BY <2>4
<1> HIDE DEF Runs
<1>4. Runs(Len(s))
  BY <1>3
<1> QED BY <1>4 DEF Runs

(* Those is what its loop leaves.                                          *)
LEMMA ThoseIs ==
    ASSUME NEW X, NEW s \in Seq(X), NEW S
    PROVE  \E F : /\ F = [n \in 0..Len(s) |-> Step(s, S, F, n)]
                  /\ Those(s, S) = F[Len(s)]
<1> DEFINE F == CHOOSE F : F = [n \in 0..Len(s) |-> Step(s, S, F, n)]
<1>1. F = [n \in 0..Len(s) |-> Step(s, S, F, n)]
  BY LoopRuns
<1>2. Those(s, S) = F[Len(s)]
  BY Zenon DEF Those, Step
<1> QED BY <1>1, <1>2

(* What holds of 0 and goes on to the next holds of every number.          *)
LEMMA Induction ==
    ASSUME NEW P \in SUBSET Nat, 0 \in P, \A n \in P : n + 1 \in P
    PROVE  \A n \in Nat : n \in P
<1> SUFFICES ASSUME Nat \ P # {} PROVE FALSE
  OBVIOUS
<1>1. PICK m \in Nat \ P : \A n \in Nat \ P : m <= n
  <2> DEFINE Q == Nat \ P
  <2>1. Q \in SUBSET Nat /\ Q # {}
    OBVIOUS
  <2> HIDE DEF Q
  <2>2. \E m \in Q : \A n \in Q : m <= n
    BY <2>1, Least
  <2> QED BY <2>2 DEF Q
<1>2. m # 0
  OBVIOUS
<1>3. m - 1 \in Nat /\ m - 1 \in P
  BY <1>1, <1>2
<1> QED BY <1>3

(* A list closed up holds those of S, in the order they were in.           *)
LEMMA ThoseKeep ==
    ASSUME NEW X, NEW s \in Seq(X), NEW S
    PROVE  /\ Those(s, S) \in Seq(X)
           /\ Elems(Those(s, S)) = Elems(s) \cap S
           /\ \A a, b \in DOMAIN Those(s, S) : a < b =>
                \E i, j \in DOMAIN s : i < j /\ Those(s, S)[a] = s[i] /\ Those(s, S)[b] = s[j]
<1>1. PICK F : F = [n \in 0..Len(s) |-> Step(s, S, F, n)] /\ Those(s, S) = F[Len(s)]
  BY ThoseIs
<1> DEFINE From(t, n) == \A a \in DOMAIN t : \E i \in 1..n : s[i] \in S /\ t[a] = s[i]
           All(t, n) == \A i \in 1..n : s[i] \in S => \E a \in DOMAIN t : t[a] = s[i]
           Follows(t, n) == \A a, b \in DOMAIN t : a < b =>
                              \E i, j \in 1..n : i < j /\ t[a] = s[i] /\ t[b] = s[j]
           Good(t, n) == t \in Seq(X) /\ From(t, n) /\ All(t, n) /\ Follows(t, n)
           P == {n \in Nat : n <= Len(s) => Good(F[n], n)}
<1>2. 0 \in P
  <2>1. F[0] = <<>>
    BY <1>1 DEF Step
  <2>2. Good(<<>>, 0)
    OBVIOUS
  <2> HIDE DEF Good
  <2> QED BY <2>1, <2>2
<1>3. ASSUME NEW n \in P PROVE n + 1 \in P
  <2> SUFFICES ASSUME n + 1 <= Len(s) PROVE Good(F[n + 1], n + 1)
    OBVIOUS
  <2> DEFINE t == F[n]  u == F[n + 1]
  <2>1. n \in Nat /\ Good(t, n) /\ n + 1 \in DOMAIN s /\ s[n + 1] \in X
    OBVIOUS
  <2>2. u = IF s[n + 1] \in S THEN Append(t, s[n + 1]) ELSE t
    <3>1. n + 1 \in 0..Len(s) /\ n + 1 # 0 /\ n + 1 - 1 = n
      BY <2>1
    <3>2. u = Step(s, S, F, n + 1)
      BY <1>1, <3>1
    <3> QED BY <3>1, <3>2 DEF Step
  <2> HIDE DEF t, u
  <2>3. CASE s[n + 1] \notin S
    <3>1. u = t
      BY <2>2, <2>3
    <3>2. \A i \in 1..(n + 1) : s[i] \in S => i \in 1..n
      BY <2>1, <2>3
    <3>3. \A i \in 1..n : i \in 1..(n + 1)
      BY <2>1
    <3>4. From(u, n + 1)
      BY <2>1, <3>1, <3>3
    <3>5. All(u, n + 1)
      BY <2>1, <3>1, <3>2
    <3>6. Follows(u, n + 1)
      BY <2>1, <3>1, <3>3
    <3> QED BY <2>1, <3>1, <3>4, <3>5, <3>6 DEF u
  <2>4. CASE s[n + 1] \in S
    <3> DEFINE m == Len(t)
    <3>1. u = Append(t, s[n + 1])
      BY <2>2, <2>4
    <3>2. /\ m \in Nat /\ u \in Seq(X) /\ DOMAIN t = 1..m /\ DOMAIN u = 1..(m + 1)
          /\ u[m + 1] = s[n + 1] /\ \A a \in 1..m : u[a] = t[a]
      BY <2>1, <3>1
    <3> HIDE DEF m
    <3>3. \A i \in 1..n : i \in 1..(n + 1) /\ i < n + 1
      BY <2>1
    <3>4. n + 1 \in 1..(n + 1) /\ m + 1 \in 1..(m + 1)
      BY <2>1, <3>2
    <3>5. \A a \in 1..(m + 1) : a \in 1..m \/ a = m + 1
      BY <3>2
    <3>6. \A i \in 1..(n + 1) : i \in 1..n \/ i = n + 1
      BY <2>1
    <3>7. From(u, n + 1)
      BY <2>1, <2>4, <3>2, <3>3, <3>4, <3>5
    <3>8. All(u, n + 1)
      <4> SUFFICES ASSUME NEW i \in 1..(n + 1), s[i] \in S PROVE \E a \in DOMAIN u : u[a] = s[i]
        OBVIOUS
      <4>1. CASE i = n + 1
        BY <4>1, <3>2, <3>4
      <4>2. CASE i \in 1..n
        <5>1. PICK a \in DOMAIN t : t[a] = s[i]
          BY <2>1, <4>2
        <5>2. a \in DOMAIN u /\ u[a] = s[i]
          BY <5>1, <3>2
        <5> QED BY <5>2
      <4> QED BY <4>1, <4>2, <3>6
    <3>9. Follows(u, n + 1)
      <4> SUFFICES ASSUME NEW a \in DOMAIN u, NEW b \in DOMAIN u, a < b
                   PROVE  \E i, j \in 1..(n + 1) : i < j /\ u[a] = s[i] /\ u[b] = s[j]
        OBVIOUS
      <4>0. a \in 1..(m + 1) /\ b \in 1..(m + 1) /\ m \in Nat
        BY <3>2
      <4>1. a \in 1..m
        BY <4>0
      <4>2. CASE b \in 1..m
        <5>0. Follows(t, n) /\ a \in DOMAIN t /\ b \in DOMAIN t
          BY <2>1, <3>2, <4>1, <4>2
        <5>1. PICK i \in 1..n, j \in 1..n : i < j /\ t[a] = s[i] /\ t[b] = s[j]
          BY <5>0
        <5> QED BY <5>1, <3>2, <3>3, <4>1, <4>2
      <4>3. CASE b = m + 1
        <5>1. PICK i \in 1..n : t[a] = s[i]
          BY <2>1, <3>2, <4>1
        <5> QED BY <5>1, <3>2, <3>3, <3>4, <4>1, <4>3
      <4> QED BY <4>0, <4>2, <4>3, <3>5
    <3> QED BY <3>2, <3>7, <3>8, <3>9 DEF u
  <2> QED BY <2>3, <2>4
<1>4. Len(s) \in P
  <2> HIDE DEF P
  <2>1. P \in SUBSET Nat
    BY DEF P
  <2>2. \A n \in Nat : n \in P
    BY <1>2, <1>3, <2>1, Induction
  <2> QED BY <2>2
<1> DEFINE t == Those(s, S)
<1>5. Good(t, Len(s))
  BY <1>1, <1>4
<1> HIDE DEF t
<1>6. DOMAIN s = 1..Len(s)
  OBVIOUS
<1>7. Elems(t) = Elems(s) \cap S
  <2>1. ASSUME NEW x \in Elems(t) PROVE x \in Elems(s) \cap S
    BY <1>5, <1>6 DEF Elems
  <2>2. ASSUME NEW x \in Elems(s) \cap S PROVE x \in Elems(t)
    BY <1>5, <1>6 DEF Elems
  <2> QED BY <2>1, <2>2
<1>8. t \in Seq(X) /\ Follows(t, Len(s))
  BY <1>5
<1>9. \A a, b \in DOMAIN t : a < b => \E i, j \in DOMAIN s : i < j /\ t[a] = s[i] /\ t[b] = s[j]
  BY <1>6, <1>8
<1> QED BY <1>7, <1>8, <1>9, Zenon DEF t

(* So it stays without repetition and in the order of the due times.       *)
LEMMA ThoseOrdered ==
    ASSUME NEW X, NEW s \in Seq(X), NEW S
    PROVE  /\ Distinct(s) => Distinct(Those(s, S))
           /\ \A c : Ordered(s, c) => Ordered(Those(s, S), c)
<1> DEFINE t == Those(s, S)
<1>1. t \in Seq(X)
  BY ThoseKeep
<1>2. \A a, b \in DOMAIN t : a < b => \E i, j \in DOMAIN s : i < j /\ t[a] = s[i] /\ t[b] = s[j]
  BY ThoseKeep
<1> HIDE DEF t
<1>3. DOMAIN s \subseteq Nat /\ DOMAIN t \subseteq Nat
  BY <1>1
<1>4. ASSUME Distinct(s), NEW a \in DOMAIN t, NEW b \in DOMAIN t, a < b PROVE t[a] # t[b]
  <2>1. PICK i \in DOMAIN s, j \in DOMAIN s : i < j /\ t[a] = s[i] /\ t[b] = s[j]
    BY <1>2, <1>4
  <2>2. i # j
    BY <1>3, <2>1
  <2> QED BY <1>4, <2>1, <2>2 DEF Distinct
<1>5. Distinct(s) => Distinct(t)
  <2> SUFFICES ASSUME Distinct(s), NEW a \in DOMAIN t, NEW b \in DOMAIN t, t[a] = t[b] PROVE a = b
    BY DEF Distinct
  <2>1. ~(a < b) /\ ~(b < a)
    BY <1>4
  <2> QED BY <2>1, <1>3
<1>6. ASSUME NEW c, Ordered(s, c) PROVE Ordered(t, c)
  <2> SUFFICES ASSUME NEW a \in DOMAIN t, NEW b \in DOMAIN t, a < b PROVE c[t[a]] <= c[t[b]]
    BY DEF Ordered
  <2>1. PICK i \in DOMAIN s, j \in DOMAIN s : i < j /\ t[a] = s[i] /\ t[b] = s[j]
    BY <1>2
  <2> QED BY <1>6, <2>1 DEF Ordered
<1> QED BY <1>5, <1>6 DEF t

(* A list with one put in between.                                         *)
LEMMA Joined ==
    ASSUME NEW X, NEW p \in Seq(X), NEW x \in X, NEW q \in Seq(X)
    PROVE  /\ p \o <<x>> \o q \in Seq(X)
           /\ Len(p \o <<x>> \o q) = Len(p) + 1 + Len(q)
           /\ \A i \in 1..(Len(p) + 1 + Len(q)) : (p \o <<x>> \o q)[i] =
                IF i <= Len(p) THEN p[i] ELSE IF i = Len(p) + 1 THEN x ELSE q[i - Len(p) - 1]
<1> DEFINE r == p \o <<x>>
<1>1. <<x>> \in Seq(X) /\ Len(<<x>>) = 1 /\ <<x>>[1] = x
  OBVIOUS
<1>2. r \in Seq(X) /\ Len(r) = Len(p) + 1
      /\ \A i \in 1..(Len(p) + 1) : r[i] = IF i <= Len(p) THEN p[i] ELSE <<x>>[i - Len(p)]
  BY <1>1, ConcatProperties
<1> HIDE DEF r
<1>3. r \o q \in Seq(X) /\ Len(r \o q) = Len(r) + Len(q)
      /\ \A i \in 1..(Len(r) + Len(q)) : (r \o q)[i] = IF i <= Len(r) THEN r[i] ELSE q[i - Len(r)]
  BY <1>2, ConcatProperties
<1> DEFINE v == r \o q
<1>4. v \in Seq(X) /\ Len(v) = Len(r) + Len(q)
      /\ \A i \in 1..(Len(r) + Len(q)) : v[i] = IF i <= Len(r) THEN r[i] ELSE q[i - Len(r)]
  BY <1>3
<1> HIDE DEF v
<1>5. ASSUME NEW i \in 1..(Len(p) + 1 + Len(q))
      PROVE  v[i] = IF i <= Len(p) THEN p[i] ELSE IF i = Len(p) + 1 THEN x ELSE q[i - Len(p) - 1]
  <2>1. Len(p) \in Nat /\ Len(q) \in Nat
    OBVIOUS
  <2>2. CASE i <= Len(p) + 1
    <3>1. v[i] = r[i] /\ i \in 1..(Len(p) + 1)
      BY <1>2, <1>4, <2>1, <2>2
    <3>2. i > Len(p) => i = Len(p) + 1 /\ i - Len(p) = 1
      BY <2>1, <2>2
    <3> QED BY <1>1, <1>2, <3>1, <3>2
  <2>3. CASE i > Len(p) + 1
    <3>1. v[i] = q[i - (Len(p) + 1)]
      BY <1>2, <1>4, <2>1, <2>3
    <3>2. i - (Len(p) + 1) = i - Len(p) - 1
      BY <2>1
    <3> QED BY <3>1, <3>2, <2>1, <2>3
  <2> QED BY <2>1, <2>2, <2>3
<1> QED BY <1>2, <1>4, <1>5 DEF v, r

-----------------------------------------------------------------------------
(* nevent_reset() takes one event off the list.                            *)
LEMMA ResetKeeps ==
    ASSUME NEW e, List(e), NEW id
    PROVE  /\ List(Reset(e, id)) /\ Elems(Reset(e, id).level) = Elems(e.level) \ {id}
           /\ Reset(e, id).clock = e.clock /\ Reset(e, id).setevent = e.setevent
           /\ Reset(e, id).base = e.base /\ Reset(e, id).rem = e.rem
<1> DEFINE t == Those(e.level, Ids \ {id})
<1>1. e \in Events /\ e.level \in Seq(Ids) /\ Distinct(e.level) /\ Ordered(e.level, e.clock)
  BY DEF List, Events
<1>2. t \in Seq(Ids) /\ Elems(t) = Elems(e.level) \cap (Ids \ {id})
  BY <1>1, ThoseKeep
<1>3. Distinct(t) /\ Ordered(t, e.clock)
  BY <1>1, ThoseOrdered
<1> HIDE DEF t
<1>4. Reset(e, id) = [e EXCEPT !.level = t]
  BY DEF Reset, t
<1> DEFINE f == Reset(e, id)
<1>5. f = [e EXCEPT !.level = t]
  BY <1>4
<1> HIDE DEF f
<1>6. /\ f \in Events /\ f.level = t /\ f.clock = e.clock /\ f.setevent = e.setevent
      /\ f.base = e.base /\ f.rem = e.rem
  BY <1>1, <1>2, <1>5 DEF Events
<1>7. Elems(e.level) \subseteq Ids
  BY <1>1 DEF Elems
<1>8. List(f)
  BY <1>3, <1>6 DEF List
<1>9. Elems(f.level) = Elems(e.level) \ {id}
  BY <1>2, <1>6, <1>7
<1> QED BY <1>6, <1>8, <1>9 DEF f

(* nevent_set() puts the event where its due time belongs, and the slice   *)
(* still ends in time.                                                     *)
LEMMA SetKeeps ==
    ASSUME NEW e, List(e), NEW id \in Ids, NEW at \in Int
    PROVE  /\ List(SetAt(e, id, at)) /\ Elems(SetAt(e, id, at).level) = Elems(e.level) \cup {id}
           /\ SetAt(e, id, at).clock = [e.clock EXCEPT ![id] = at]
           /\ SetAt(e, id, at).setevent = e.setevent \ {id}
           /\ Elapsed(SetAt(e, id, at)) = Elapsed(e)
           /\ Fits(e) => Fits(SetAt(e, id, at))
<1> DEFINE sooner == {x \in Ids \ {id} : e.clock[x] <= at}
           later  == Ids \ (sooner \cup {id})
           first  == Those(e.level, sooner)
           last   == Those(e.level, later)
           l      == first \o <<id>> \o last
           c      == [e.clock EXCEPT ![id] = at]
           f      == SetAt(e, id, at)
<1>1. /\ e \in Events /\ e.level \in Seq(Ids) /\ Distinct(e.level) /\ Ordered(e.level, e.clock)
      /\ e.clock \in [Ids -> Int] /\ e.base \in Int /\ e.rem \in Int /\ e.setevent \subseteq Ids
  BY DEF List, Events
<1>2. f = [clock |-> c, setevent |-> e.setevent \ {id}, level |-> l,
           base |-> IF first = <<>> THEN at ELSE e.base,
           rem |-> IF first = <<>> THEN at - Elapsed(e) ELSE e.rem]
  BY DEF SetAt
<1>3. /\ first \in Seq(Ids) /\ Elems(first) = Elems(e.level) \cap sooner
      /\ last \in Seq(Ids) /\ Elems(last) = Elems(e.level) \cap later
  BY <1>1, ThoseKeep
<1>4. /\ Distinct(first) /\ Ordered(first, e.clock) /\ Distinct(last) /\ Ordered(last, e.clock)
  BY <1>1, ThoseOrdered
<1>5. \A x \in sooner : x \in Ids /\ x # id /\ x \notin later /\ e.clock[x] <= at
  OBVIOUS
<1>6. \A x \in later : x \in Ids /\ x # id /\ x \notin sooner /\ e.clock[x] > at
  BY <1>1
<1>7. \A x \in Ids : x = id \/ x \in sooner \/ x \in later
  OBVIOUS
<1>8. /\ c \in [Ids -> Int] /\ c[id] = at /\ \A x \in Ids : x # id => c[x] = e.clock[x]
  BY <1>1
<1>9. /\ l \in Seq(Ids) /\ Len(l) = Len(first) + 1 + Len(last)
      /\ \A i \in 1..(Len(first) + 1 + Len(last)) : l[i] =
           IF i <= Len(first) THEN first[i]
           ELSE IF i = Len(first) + 1 THEN id ELSE last[i - Len(first) - 1]
  BY <1>3, Joined
<1> HIDE DEF sooner, later, first, last, l, c, f
<1> DEFINE p == Len(first)  q == Len(last)
<1>10. p \in Nat /\ q \in Nat /\ DOMAIN first = 1..p /\ DOMAIN last = 1..q /\ DOMAIN l = 1..(p + 1 + q)
  BY <1>3, <1>9
<1>11. \A i \in 1..(p + 1 + q) : l[i] = IF i <= p THEN first[i] ELSE IF i = p + 1 THEN id ELSE last[i - p - 1]
  BY <1>9
<1> HIDE DEF p, q
<1>12. \A i \in 1..p : first[i] \in sooner
  BY <1>3, <1>10 DEF Elems
<1>13. \A i \in 1..q : last[i] \in later
  BY <1>3, <1>10 DEF Elems
(* The three parts of the list.                                            *)
<1>14. ASSUME NEW i \in 1..(p + 1 + q)
       PROVE  \/ i \in 1..p /\ l[i] = first[i]
              \/ i = p + 1 /\ l[i] = id
              \/ i - p - 1 \in 1..q /\ i > p + 1 /\ l[i] = last[i - p - 1]
  BY <1>10, <1>11
<1>15. Distinct(l)
  <2> SUFFICES ASSUME NEW i \in 1..(p + 1 + q), NEW j \in 1..(p + 1 + q), l[i] = l[j] PROVE i = j
    BY <1>10 DEF Distinct
  <2>1. CASE i \in 1..p /\ l[i] = first[i]
    <3>1. l[j] \in sooner
      BY <1>12, <2>1
    <3>2. j \in 1..p /\ l[j] = first[j]
      BY <1>5, <1>6, <1>13, <1>14, <3>1
    <3> QED BY <1>4, <1>10, <2>1, <3>2 DEF Distinct
  <2>2. CASE i = p + 1 /\ l[i] = id
    <3>1. j = p + 1
      BY <1>5, <1>6, <1>12, <1>13, <1>14, <2>2
    <3> QED BY <2>2, <3>1
  <2>3. CASE i - p - 1 \in 1..q /\ i > p + 1 /\ l[i] = last[i - p - 1]
    <3>1. l[j] \in later
      BY <1>13, <2>3
    <3>2. j - p - 1 \in 1..q /\ l[j] = last[j - p - 1]
      BY <1>5, <1>6, <1>12, <1>14, <3>1
    <3>3. i - p - 1 = j - p - 1
      BY <1>4, <1>10, <2>3, <3>2 DEF Distinct
    <3> QED BY <1>10, <3>3
  <2> QED BY <1>14, <2>1, <2>2, <2>3
<1>16. Ordered(l, c)
  <2> SUFFICES ASSUME NEW i \in 1..(p + 1 + q), NEW j \in 1..(p + 1 + q), i < j PROVE c[l[i]] <= c[l[j]]
    BY <1>10 DEF Ordered
  <2>0. \A x \in sooner, y \in later : c[x] = e.clock[x] /\ c[y] = e.clock[y] /\ c[x] <= at /\ at <= c[y] /\ c[x] <= c[y]
    <3> SUFFICES ASSUME NEW x \in sooner, NEW y \in later
                 PROVE  c[x] = e.clock[x] /\ c[y] = e.clock[y] /\ c[x] <= at /\ at <= c[y] /\ c[x] <= c[y]
      OBVIOUS
    <3>1. c[x] = e.clock[x] /\ c[y] = e.clock[y] /\ e.clock[x] \in Int /\ e.clock[y] \in Int
      BY <1>1, <1>5, <1>6, <1>8
    <3> QED BY <1>5, <1>6, <3>1
  <2>1. CASE i \in 1..p /\ l[i] = first[i]
    <3>1. CASE j \in 1..p /\ l[j] = first[j]
      <4>1. e.clock[first[i]] <= e.clock[first[j]]
        BY <1>4, <1>10, <2>1, <3>1 DEF Ordered
      <4>2. c[first[i]] = e.clock[first[i]] /\ c[first[j]] = e.clock[first[j]]
        BY <1>5, <1>8, <1>12, <2>1, <3>1
      <4> QED BY <2>1, <3>1, <4>1, <4>2
    <3>2. CASE j = p + 1 /\ l[j] = id
      <4>1. c[first[i]] = e.clock[first[i]] /\ e.clock[first[i]] <= at
        BY <1>5, <1>8, <1>12, <2>1
      <4> QED BY <1>8, <2>1, <3>2, <4>1
    <3>3. CASE j - p - 1 \in 1..q /\ j > p + 1 /\ l[j] = last[j - p - 1]
      <4>1. l[i] \in sooner /\ l[j] \in later
        BY <1>12, <1>13, <2>1, <3>3
      <4> QED BY <2>0, <4>1
    <3> QED BY <1>14, <3>1, <3>2, <3>3
  <2>2. CASE i = p + 1 /\ l[i] = id
    <3>1. j - p - 1 \in 1..q /\ l[j] = last[j - p - 1]
      BY <1>10, <1>14, <2>2
    <3>2. c[l[j]] = e.clock[l[j]] /\ e.clock[l[j]] > at /\ e.clock[l[j]] \in Int
      BY <1>1, <1>6, <1>8, <1>13, <3>1
    <3> QED BY <1>8, <2>2, <3>2
  <2>3. CASE i - p - 1 \in 1..q /\ i > p + 1 /\ l[i] = last[i - p - 1]
    <3>1. j - p - 1 \in 1..q /\ l[j] = last[j - p - 1] /\ i - p - 1 < j - p - 1
      BY <1>10, <1>14, <2>3
    <3>2. e.clock[last[i - p - 1]] <= e.clock[last[j - p - 1]]
      BY <1>4, <1>10, <2>3, <3>1 DEF Ordered
    <3>3. last[i - p - 1] \in later /\ last[j - p - 1] \in later
      BY <1>13, <2>3, <3>1
    <3>4. c[l[i]] = e.clock[l[i]] /\ c[l[j]] = e.clock[l[j]]
      BY <1>6, <1>8, <2>3, <3>1, <3>3
    <3> QED BY <2>3, <3>1, <3>2, <3>4
  <2> QED BY <1>14, <2>1, <2>2, <2>3
<1>17. Elems(l) = Elems(e.level) \cup {id}
  <2>1. Elems(e.level) \subseteq Ids
    BY <1>1 DEF Elems
  <2>2. ASSUME NEW x \in Elems(l) PROVE x \in Elems(e.level) \cup {id}
    <3>1. PICK i \in 1..(p + 1 + q) : x = l[i]
      BY <1>10 DEF Elems
    <3>2. CASE i \in 1..p /\ l[i] = first[i]
      <4>1. x \in Elems(first)
        BY <1>10, <3>1, <3>2 DEF Elems
      <4> QED BY <1>3, <4>1
    <3>3. CASE i - p - 1 \in 1..q /\ i > p + 1 /\ l[i] = last[i - p - 1]
      <4>1. x \in Elems(last)
        BY <1>10, <3>1, <3>3 DEF Elems
      <4> QED BY <1>3, <4>1
    <3> QED BY <1>14, <3>1, <3>2, <3>3
  <2>3. id \in Elems(l)
    <3>1. p + 1 \in DOMAIN l /\ l[p + 1] = id
      BY <1>10, <1>11
    <3> QED BY <3>1 DEF Elems
  <2>4. ASSUME NEW x \in Elems(e.level), x # id PROVE x \in Elems(l)
    <3>1. CASE x \in sooner
      <4>1. PICK i \in 1..p : x = first[i]
        BY <1>3, <1>10, <3>1 DEF Elems
      <4>2. i \in DOMAIN l /\ l[i] = first[i]
        BY <1>10, <1>11
      <4> QED BY <4>1, <4>2 DEF Elems
    <3>2. CASE x \in later
      <4>1. PICK i \in 1..q : x = last[i]
        BY <1>3, <1>10, <3>2 DEF Elems
      <4>2. p + 1 + i \in DOMAIN l /\ ~(p + 1 + i <= p) /\ p + 1 + i # p + 1 /\ p + 1 + i - p - 1 = i
        BY <1>10
      <4>3. l[p + 1 + i] = last[i]
        BY <1>10, <1>11, <4>2
      <4> QED BY <4>1, <4>2, <4>3 DEF Elems
    <3> QED BY <1>7, <2>1, <2>4, <3>1, <3>2
  <2> QED BY <2>2, <2>3, <2>4
<1>18. Elapsed(e) \in Int
  BY <1>1 DEF Elapsed
<1>19. /\ f.level = l /\ f.clock = c /\ f.setevent = e.setevent \ {id}
       /\ f.base = (IF first = <<>> THEN at ELSE e.base)
       /\ f.rem = (IF first = <<>> THEN at - Elapsed(e) ELSE e.rem)
       /\ f \in Events
  BY <1>1, <1>2, <1>8, <1>9, <1>18 DEF Events
<1>20. List(f)
  BY <1>15, <1>16, <1>19 DEF List
<1>21. Elapsed(f) = Elapsed(e)
  <2>1. CASE first = <<>>
    <3>1. f.base = at /\ f.rem = at - Elapsed(e)
      BY <1>19, <2>1
    <3> QED BY <1>18, <3>1 DEF Elapsed
  <2>2. CASE first # <<>>
    BY <1>19, <2>2 DEF Elapsed
  <2> QED BY <2>1, <2>2
<1>22. ASSUME Fits(e) PROVE Fits(f)
  <2> SUFFICES ASSUME f.rem > 0, NEW x \in Elems(e.level) \cup {id} PROVE f.base <= c[x]
    BY <1>17, <1>19 DEF Fits
  <2>0. x \in Ids /\ e.clock[x] \in Int
    BY <1>1 DEF Elems
  <2>1. CASE first = <<>>
    <3>1. x \notin sooner
      BY <1>3, <1>5, <1>10, <2>1 DEF Elems
    <3>2. CASE x = id
      BY <1>8, <1>19, <2>1, <3>2
    <3>3. CASE x \in later
      BY <1>6, <1>8, <1>19, <2>0, <2>1, <3>3
    <3> QED BY <1>7, <2>0, <3>1, <3>2, <3>3
  <2>2. CASE first # <<>>
    <3>1. f.base = e.base /\ \A y \in Elems(e.level) : e.base <= e.clock[y]
      BY <1>19, <1>22, <2>2 DEF Fits
    <3>2. CASE x # id
      BY <1>8, <2>0, <3>1, <3>2
    <3>3. CASE x = id
      <4>1. 1 \in 1..p
        BY <1>3, <1>10, <2>2
      <4>2. first[1] \in Elems(e.level) /\ first[1] \in sooner
        BY <1>3, <1>10, <1>12, <4>1 DEF Elems
      <4>3. e.base <= e.clock[first[1]] /\ e.clock[first[1]] <= at /\ e.clock[first[1]] \in Int
        BY <1>1, <1>5, <3>1, <4>2
      <4> QED BY <1>1, <1>8, <3>1, <3>3, <4>3
    <3> QED BY <3>2, <3>3
  <2> QED BY <2>1, <2>2
<1> QED BY <1>17, <1>19, <1>20, <1>21, <1>22 DEF f, c

-----------------------------------------------------------------------------
(* The invariant has the types.                                            *)
LEMMA TypesHold == IInv => TypeOK
BY DEF IInv, List, Others, TypeOK

(* The constants, as the arithmetic needs them.                            *)
LEMMA Constants ==
    /\ NEVENT_MAXCLOCK \in Nat /\ NEVENT_MAXCLOCK > 0 /\ Wrap \in Nat /\ Wrap > 0
    /\ MaxShadow \in Nat /\ DispClock \in Nat /\ VsyncClock \in Nat
    /\ \A n \in Periods : n \in Nat /\ n > 0
    /\ \A n \in Costs : n \in Nat /\ n > 0
    /\ \A n \in Mults : n \in Nat /\ n > 0
    /\ FLAMES \in Ids /\ ITIMER \in Ids /\ PICMASK \in Ids
    /\ FLAMES # ITIMER /\ FLAMES # PICMASK /\ ITIMER # PICMASK
BY NEventAssumption DEF Ids

(* The types of what the steps reckon with.                                *)
LEMMA Types ==
    ASSUME IInv
    PROVE  /\ ev \in Events /\ ev.clock \in [Ids -> Int] /\ ev.base \in Int /\ ev.rem \in Int
           /\ ev.setevent \subseteq Ids /\ ev.level \in Seq(Ids)
           /\ Elems(ev.level) \subseteq Ids /\ Elems(waitevent) \subseteq Ids
           /\ Elapsed(ev) \in Int /\ multiple \in Nat /\ multiple > 0
<1>1. ev \in Events /\ waitevent \in Seq(Ids) /\ multiple \in Mults
  BY DEF IInv, List, Others
<1>2. /\ ev.clock \in [Ids -> Int] /\ ev.base \in Int /\ ev.rem \in Int
      /\ ev.setevent \subseteq Ids /\ ev.level \in Seq(Ids)
  BY <1>1 DEF Events
<1> QED BY <1>1, <1>2, Constants DEF Elems, Elapsed

(* What events are set for.                                                *)
LEMMA DelaysAre ==
    /\ \A n \in Periods, m \in Mults : n * m \in Delays[ITIMER]
    /\ \A n \in Periods : n \in Delays[PICMASK]
    /\ \A m \in Mults : DispClock * m \in Delays[FLAMES] /\ VsyncClock * m \in Delays[FLAMES]
<1>1. /\ Delays[FLAMES] = Scale({DispClock, VsyncClock})
      /\ Delays[ITIMER] = Scale(Periods) /\ Delays[PICMASK] = Periods
  BY Constants DEF Delays
<1> QED BY <1>1 DEF Scale

(* Division leaves one remainder.                                          *)
LEMMA OneRemainder ==
    ASSUME NEW w \in Nat, w > 0, NEW j \in Int, NEW k \in Int,
           NEW r \in 0..(w - 1), NEW t \in 0..(w - 1), w * j + r = w * k + t
    PROVE  r = t
<1> DEFINE d == j - k
<1>1. d \in Int /\ w * d = t - r
  OBVIOUS
<1> HIDE DEF d
<1>2. CASE d >= 1
  <2>1. w * d >= w
    BY <1>1, <1>2
  <2> QED BY <1>1, <2>1
<1>3. CASE d <= -1
  <2>1. w * d <= -w
    BY <1>1, <1>3
  <2> QED BY <1>1, <2>1
<1>4. CASE d = 0
  BY <1>1, <1>4
<1> QED BY <1>1, <1>2, <1>3, <1>4

(* Adding to a counter that wraps.                                         *)
LEMMA WrapSum ==
    ASSUME NEW a \in Int, NEW b \in Int
    PROVE  ((a % Wrap) + b) % Wrap = (a + b) % Wrap
<1> DEFINE w == Wrap
           r == a % w   i == a \div w
           s == (r + b) % w   j == (r + b) \div w
           t == (a + b) % w   k == (a + b) \div w
<1>1. w \in Nat /\ w > 0
  BY Constants
<1>2. i \in Int /\ r \in 0..(w - 1) /\ a = w * i + r
  BY <1>1
<1>3. j \in Int /\ s \in 0..(w - 1) /\ r + b = w * j + s
  BY <1>1, <1>2
<1>4. k \in Int /\ t \in 0..(w - 1) /\ a + b = w * k + t
  BY <1>1
<1> HIDE DEF w, r, s, t, i, j, k
<1>5. w * (i + j) + s = w * k + t
  BY <1>1, <1>2, <1>3, <1>4
<1>6. i + j \in Int
  BY <1>2, <1>3
<1>7. s = t
  BY <1>1, <1>3, <1>4, <1>5, <1>6, OneRemainder
<1> QED BY <1>7 DEF w, r, s, t

(* A step that leaves CPU_CLOCK alone.                                     *)
LEMMA CountedHere ==
    ASSUME IInv, CPU_CLOCK' = CPU_CLOCK, spent' \in Int, Elapsed(ev') = Elapsed(ev) + spent'
    PROVE  Counted
<1>1. CPU_CLOCK \in Int /\ Elapsed(ev) \in Int
  BY Types DEF IInv, Others
<1>2. (Cycles + spent') % Wrap = (CPU_CLOCK + Elapsed(ev) + spent') % Wrap
  BY <1>1, WrapSum DEF Cycles
<1>3. Cycles' = (CPU_CLOCK + Elapsed(ev')) % Wrap
  BY DEF Cycles, Elapsed
<1>4. CPU_CLOCK + Elapsed(ev') = CPU_CLOCK + Elapsed(ev) + spent'
  BY <1>1
<1> QED BY <1>2, <1>3, <1>4 DEF Counted

(* Nothing is set yet.                                                     *)
LEMMA InitInv == Init => IInv /\ T!Init
<1> SUFFICES ASSUME Init PROVE IInv /\ T!Init
  OBVIOUS
<1>1. ev = [clock |-> [id \in Ids |-> 0], setevent |-> {}, level |-> <<>>, base |-> 0, rem |-> 0]
  BY DEF Init
<1>2. /\ ev \in Events /\ ev.level = <<>> /\ ev.setevent = {} /\ ev.clock = [id \in Ids |-> 0]
      /\ ev.base = 0 /\ ev.rem = 0
  BY <1>1 DEF Events
<1>3. Elems(ev.level) = {} /\ Elems(waitevent) = {} /\ waitevent = <<>> /\ Elapsed(ev) = 0
  BY <1>2 DEF Elems, Elapsed, Init
<1>4. List(ev)
  BY <1>2 DEF List, Distinct, Ordered
<1>5. Others
  <2>1. 0 \in 0..(Wrap - 1) /\ 0 \in 0..MaxShadow
    BY Constants
  <2>2. waitevent \in Seq(Ids) /\ Distinct(waitevent)
    BY <1>3 DEF Distinct
  <2> QED BY <2>1, <2>2, Zenon DEF Others, Init
<1>6. SliceFits
  BY <1>2, <1>3 DEF SliceFits, Fits, Init
<1>7. Stages
  BY <1>2, <1>3 DEF Stages, Init
<1>8. InTurn
  BY <1>3 DEF InTurn
<1>9. T!Init
  BY <1>2, <1>3 DEF T!Init, Init
<1> QED BY <1>4, <1>5, <1>6, <1>7, <1>8, <1>9 DEF IInv

-----------------------------------------------------------------------------
(* What f is made of e by setting the events of new and cancelling gone.   *)
Changed(e, f, new, gone) ==
    /\ List(f) /\ f.setevent = e.setevent \ new /\ Elapsed(f) = Elapsed(e)
    /\ Fits(e) => Fits(f)
    /\ Elems(f.level) = (Elems(e.level) \ gone) \cup new
    /\ \A id \in new : f.clock[id] - Elapsed(f) \in Delays[id]
    /\ \A id \in Ids \ new : f.clock[id] = e.clock[id]

(* The types of an event list.                                             *)
LEMMA ListTypes ==
    ASSUME NEW e, List(e)
    PROVE  /\ e \in Events /\ e.clock \in [Ids -> Int] /\ e.base \in Int /\ e.rem \in Int
           /\ e.setevent \subseteq Ids /\ e.level \in Seq(Ids) /\ Elems(e.level) \subseteq Ids
           /\ Elapsed(e) \in Int
<1>1. e \in Events
  BY DEF List
<1>2. /\ e.clock \in [Ids -> Int] /\ e.base \in Int /\ e.rem \in Int
      /\ e.setevent \subseteq Ids /\ e.level \in Seq(Ids)
  BY <1>1 DEF Events
<1> QED BY <1>1, <1>2 DEF Elems, Elapsed

(* An event set from now.                                                  *)
LEMMA SetFromNowChanges ==
    ASSUME NEW e, List(e), NEW id \in Ids, NEW n \in Delays[id], n \in Int
    PROVE  Changed(e, Set(e, id, n, TRUE), {id}, {})
<1> DEFINE at == n + Elapsed(e)
           f == SetAt(e, id, at)
<1>1. Elapsed(e) \in Int /\ e.clock \in [Ids -> Int]
  BY ListTypes
<1>2. at \in Int
  BY <1>1
<1>3. Set(e, id, n, TRUE) = f
  BY DEF Set
<1> HIDE DEF at
<1>4. /\ List(f) /\ Elems(f.level) = Elems(e.level) \cup {id}
      /\ f.clock = [e.clock EXCEPT ![id] = at]
      /\ f.setevent = e.setevent \ {id}
      /\ Elapsed(f) = Elapsed(e)
      /\ Fits(e) => Fits(f)
  BY <1>2, SetKeeps
<1> HIDE DEF f
<1>5. f.clock[id] = at /\ \A x \in Ids \ {id} : f.clock[x] = e.clock[x]
  BY <1>1, <1>4
<1>6. at - Elapsed(e) = n
  BY <1>1 DEF at
<1>7. \A x \in {id} : f.clock[x] - Elapsed(f) \in Delays[x]
  BY <1>4, <1>5, <1>6
<1>8. Elems(f.level) = (Elems(e.level) \ {}) \cup {id}
  BY <1>4
<1> QED BY <1>3, <1>4, <1>5, <1>7, <1>8 DEF Changed

(* An event cancelled.                                                     *)
LEMMA ResetChanges ==
    ASSUME NEW e, List(e), NEW id
    PROVE  Changed(e, Reset(e, id), {}, {id})
<1> DEFINE f == Reset(e, id)
<1>1. /\ List(f) /\ Elems(f.level) = Elems(e.level) \ {id} /\ f.clock = e.clock
      /\ f.setevent = e.setevent /\ f.base = e.base /\ f.rem = e.rem
  BY ResetKeeps
<1> HIDE DEF f
<1>2. Elapsed(f) = Elapsed(e)
  BY <1>1 DEF Elapsed
<1>3. Fits(e) => Fits(f)
  BY <1>1 DEF Fits
<1>4. Changed(e, f, {}, {id})
  BY <1>1, <1>2, <1>3, Zenon DEF Changed
<1> QED BY <1>4 DEF f

(* e with its slice altered.                                               *)
Slice(e, b, r) == [e EXCEPT !.base = b, !.rem = r]

(* Only the slice is altered.                                              *)
LEMMA SliceAltered ==
    ASSUME NEW e \in Events, NEW b \in Int, NEW r \in Int
    PROVE  /\ Slice(e, b, r) \in Events /\ Slice(e, b, r).level = e.level
           /\ Slice(e, b, r).clock = e.clock /\ Slice(e, b, r).setevent = e.setevent
           /\ Slice(e, b, r).base = b /\ Slice(e, b, r).rem = r
<1> DEFINE g == [e EXCEPT !.base = b]
           h == [g EXCEPT !.rem = r]
<1>1. /\ g \in Events /\ g.level = e.level /\ g.clock = e.clock /\ g.setevent = e.setevent /\ g.base = b
  BY DEF Events
<1>2. Slice(e, b, r) = h
  BY DEF Events, Slice
<1> HIDE DEF g
<1>3. /\ h \in Events /\ h.level = g.level /\ h.clock = g.clock /\ h.setevent = g.setevent
      /\ h.base = g.base /\ h.rem = r
  BY <1>1 DEF Events
<1> HIDE DEF h
<1> QED BY <1>1, <1>2, <1>3

(* A slice cut short, and one left alone.                                  *)
LEMMA ForceExitChanges ==
    ASSUME NEW e, List(e)
    PROVE  Changed(e, ForceExit(e), {}, {}) /\ Changed(e, e, {}, {})
<1> DEFINE f == ForceExit(e)
<1>0. /\ e \in Events /\ e.clock \in [Ids -> Int] /\ e.base \in Int /\ e.rem \in Int
      /\ e.setevent \subseteq Ids /\ e.level \in Seq(Ids)
  BY ListTypes
<1>1. CASE e.rem > 0
  <2>1. f = [e EXCEPT !.base = e.base - e.rem, !.rem = 0]
    BY <1>1 DEF ForceExit
  <2> HIDE DEF f
  <2>2. /\ f \in Events /\ f.level = e.level /\ f.clock = e.clock /\ f.setevent = e.setevent
        /\ f.base = e.base - e.rem /\ f.rem = 0
    <3>1. f = Slice(e, e.base - e.rem, 0)
      BY <2>1, Zenon DEF Slice
    <3>2. e.base - e.rem \in Int /\ 0 \in Int
      BY <1>0
    <3> QED BY <1>0, <3>1, <3>2, SliceAltered
  <2>3. Elapsed(f) = Elapsed(e) /\ Fits(f)
    BY <1>0, <2>2 DEF Elapsed, Fits
  <2>4. List(f)
    BY <2>2 DEF List
  <2>5. Changed(e, f, {}, {})
    BY <2>2, <2>3, <2>4, Zenon DEF Changed
  <2>6. Changed(e, e, {}, {})
    BY Zenon DEF Changed
  <2> QED BY <2>5, <2>6 DEF f
<1>2. CASE ~(e.rem > 0)
  BY <1>2, Zenon DEF ForceExit, Changed
<1>3. Changed(e, e, {}, {})
  BY Zenon DEF Changed
<1> QED BY <1>1, <1>2, <1>3

(* An instruction's port accesses set events from now, or cancel them.     *)
LEMMA EffectsChange ==
    ASSUME NEW e, List(e), multiple \in Mults, NEW f \in Effects(e)
    PROVE  \E new, gone \in SUBSET (Ids \ {FLAMES}) : Changed(e, f, new, gone)
<1>0. {ITIMER} \in SUBSET (Ids \ {FLAMES}) /\ {PICMASK} \in SUBSET (Ids \ {FLAMES})
      /\ {} \in SUBSET (Ids \ {FLAMES})
  BY Constants
<1>1. CASE f = e \/ f = ForceExit(e)
  BY <1>0, <1>1, ForceExitChanges
<1>2. CASE \E n \in Periods : f = Set(e, ITIMER, n * multiple, TRUE)
  <2>1. PICK n \in Periods : f = Set(e, ITIMER, n * multiple, TRUE)
    BY <1>2
  <2>2. n * multiple \in Delays[ITIMER] /\ n * multiple \in Int
    BY Constants, DelaysAre
  <2>3. Changed(e, f, {ITIMER}, {})
    BY <2>1, <2>2, SetFromNowChanges, Constants
  <2> QED BY <1>0, <2>3
<1>3. CASE \E n \in Periods : f = Set(e, PICMASK, n, TRUE)
  <2>1. PICK n \in Periods : f = Set(e, PICMASK, n, TRUE)
    BY <1>3
  <2>2. n \in Delays[PICMASK] /\ n \in Int
    BY Constants, DelaysAre
  <2>3. Changed(e, f, {PICMASK}, {})
    BY <2>1, <2>2, SetFromNowChanges, Constants
  <2> QED BY <1>0, <2>3
<1>4. CASE \E id \in {ITIMER, PICMASK} : f = Reset(e, id)
  <2>1. PICK id \in {ITIMER, PICMASK} : f = Reset(e, id)
    BY <1>4
  <2>2. Changed(e, f, {}, {id})
    BY <2>1, ResetChanges
  <2> QED BY <1>0, <2>1, <2>2
<1> QED BY <1>1, <1>2, <1>3, <1>4 DEF Effects

(* What holds where the CPU runs.                                          *)
LEMMA Running ==
    ASSUME IInv, pc = "cpu"
    PROVE  /\ waitevent = <<>> /\ Elems(waitevent) = {} /\ ev.setevent = {}
           /\ screendispflag = TRUE /\ FLAMES \in Elems(ev.level)
<1>1. waitevent = <<>> /\ screendispflag = TRUE
  BY DEF IInv, Stages
<1>2. Elems(waitevent) = {}
  BY <1>1 DEF Elems
<1> QED BY <1>1, <1>2 DEF IInv, Stages

(* The CPU runs n cycles, with what the instruction sets and cancels.      *)
LEMMA RunStep ==
    ASSUME IInv, pc = "cpu", ev.rem > 0, NEW n \in Nat, n > 0, spent' = n,
           NEW e, List(e), e.level = ev.level, e.clock = ev.clock, e.setevent = ev.setevent,
           Elapsed(e) = Elapsed(ev) + n,
           NEW new \in SUBSET (Ids \ {FLAMES}), NEW gone \in SUBSET (Ids \ {FLAMES}),
           Changed(e, ev', new, gone),
           shadow' \in 0..MaxShadow, shadow' = 0 => Fits(ev'), shadow' > 0 => ev'.rem = 1,
           UNCHANGED <<waitevent, CPU_CLOCK, multiple, proc, screendispflag, pc>>
    PROVE  IInv' /\ Mapped /\ Counted
<1>1. /\ waitevent = <<>> /\ Elems(waitevent) = {} /\ ev.setevent = {}
      /\ screendispflag = TRUE /\ FLAMES \in Elems(ev.level)
  BY Running
<1>2. /\ List(ev') /\ ev'.setevent = {} /\ Elapsed(ev') = Elapsed(ev) + n
      /\ Elems(ev'.level) = (Elems(ev.level) \ gone) \cup new
      /\ \A id \in new : ev'.clock[id] - Elapsed(ev') \in Delays[id]
      /\ \A id \in Ids \ new : ev'.clock[id] = ev.clock[id]
  BY <1>1 DEF Changed
<1>3. Elapsed(ev) \in Int /\ Elapsed(ev) >= 0 /\ ev.clock \in [Ids -> Int] /\ Elems(ev.level) \subseteq Ids
      /\ ev.base \in Int /\ ev.rem \in Int
  BY Types DEF IInv, SliceFits
<1>4. SliceFits'
  <2>1. Elapsed(ev') >= 0
    BY <1>2, <1>3
  <2>2. pc' = "cpu"
    OBVIOUS
  <2> QED BY <2>1, <2>2, Zenon DEF SliceFits
<1>5. Stages'
  BY <1>1, <1>2 DEF Stages
<1>6. Others'
  BY DEF Others, IInv
<1>7. InTurn'
  BY <1>1 DEF InTurn
<1>8. IInv'
  BY <1>2, <1>4, <1>5, <1>6, <1>7, Zenon DEF IInv
<1>9. Counted
  BY <1>2, CountedHere
<1>10. T!Instruction
  <2> DEFINE left == [id \in Ids |-> ev.clock[id] - Elapsed(ev)]
             after == [id \in Ids |-> ev'.clock[id] - Elapsed(ev')]
  <2>1. \A id \in Ids \ new : after[id] = left[id] - n
    <3> SUFFICES ASSUME NEW id \in Ids \ new PROVE after[id] = left[id] - n
      OBVIOUS
    <3>1. ev'.clock[id] = ev.clock[id] /\ ev.clock[id] \in Int
      BY <1>2, <1>3
    <3> QED BY <1>2, <1>3, <3>1
  <2>2. left[FLAMES] - after[FLAMES] = n
    <3>1. FLAMES \in Ids \ new
      BY Constants
    <3>2. left[FLAMES] \in Int
      BY <1>3, <3>1
    <3> QED BY <2>1, <3>1, <3>2
  <2>3. \A id \in new : after[id] \in Delays[id]
    BY <1>2
  <2>4. shadow > 0 \/ \A id \in Elems(ev.level) : left[id] > 0
    <3> SUFFICES ASSUME shadow = 0, NEW id \in Elems(ev.level) PROVE left[id] > 0
      BY DEF IInv, Others
    <3>1. ev.base <= ev.clock[id] /\ ev.clock[id] \in Int /\ left[id] = ev.clock[id] - Elapsed(ev)
      BY <1>3 DEF IInv, SliceFits, Fits
    <3> QED BY <1>3, <3>1 DEF Elapsed
  <2> HIDE DEF left, after
  <2>5. T!Cycles = n
    BY <2>2 DEF T!Cycles, left, after
  <2>6. T!Live' \subseteq Ids
    BY <1>1, <1>2, <1>3, Constants DEF T!Live
  <2>7. T!Elapse(n, new)
    BY <2>1, <2>3, <2>6 DEF T!Elapse, left, after
  <2>8. Elems(waitevent) \cap ev.setevent = {}
    BY <1>1
  <2>9. UNCHANGED <<Elems(waitevent) \cap ev.setevent, screendispflag>>
    BY <1>1, <1>2
  <2>10. (shadow' > 0) \in BOOLEAN /\ n > 0
    OBVIOUS
  <2>11. shadow > 0 \/ \A id \in Elems(ev.level) : [x \in Ids |-> ev.clock[x] - Elapsed(ev)][id] > 0
    BY <2>4 DEF left
  <2> QED BY <1>1, <1>2, <2>5, <2>7, <2>8, <2>9, <2>10, <2>11, Zenon DEF T!Instruction
<1> QED BY <1>8, <1>9, <1>10 DEF Mapped, T!Next

(* Cycles that pass leave the list alone.                                  *)
LEMMA SpendKeeps ==
    ASSUME IInv, NEW n \in Int
    PROVE  /\ List(Spend(n)) /\ Spend(n).level = ev.level /\ Spend(n).clock = ev.clock
           /\ Spend(n).setevent = ev.setevent /\ Elapsed(Spend(n)) = Elapsed(ev) + n
           /\ Spend(n).base = ev.base /\ Spend(n).rem = ev.rem - n
<1>1. ev \in Events /\ ev.base \in Int /\ ev.rem \in Int
  BY Types
<1> DEFINE e == Spend(n)
<1>2. e = [ev EXCEPT !.rem = ev.rem - n]
  BY DEF Spend
<1> HIDE DEF e
<1>3. /\ e \in Events /\ e.level = ev.level /\ e.clock = ev.clock /\ e.setevent = ev.setevent
      /\ e.base = ev.base /\ e.rem = ev.rem - n
  BY <1>1, <1>2 DEF Events
<1>4. Elapsed(e) = Elapsed(ev) + n
  BY <1>1, <1>3 DEF Elapsed
<1>5. List(e)
  BY <1>3 DEF List, IInv
<1> QED BY <1>3, <1>4, <1>5 DEF e

(* An instruction, or a HLT.                                               *)
LEMMA InstructionStep ==
    ASSUME IInv, NEW n \in Nat, n > 0, Instruction(n)
    PROVE  IInv' /\ Mapped /\ Counted
<1>1. /\ pc = "cpu" /\ ev.rem > 0 /\ shadow' = 0 /\ spent' = n
      /\ UNCHANGED <<waitevent, CPU_CLOCK, multiple, proc, screendispflag, pc>>
  BY DEF Instruction
<1> DEFINE e == Spend(n)
<1>2. ev' \in Effects(e)
  BY DEF Instruction
<1>3. /\ List(e) /\ e.level = ev.level /\ e.clock = ev.clock
      /\ e.setevent = ev.setevent /\ Elapsed(e) = Elapsed(ev) + n
      /\ e.base = ev.base /\ e.rem = ev.rem - n
  BY SpendKeeps
<1> HIDE DEF e
<1>4. PICK new \in SUBSET (Ids \ {FLAMES}), gone \in SUBSET (Ids \ {FLAMES}) : Changed(e, ev', new, gone)
  BY <1>2, <1>3, EffectsChange DEF IInv, Others
<1>5. Fits(e)
  <2>1. ev.base \in Int /\ ev.rem \in Int
    BY Types
  <2>2. CASE shadow = 0
    <3>1. \A id \in Elems(ev.level) : ev.base <= ev.clock[id]
      BY <1>1, <2>2 DEF IInv, SliceFits, Fits
    <3> QED BY <1>3, <3>1 DEF Fits
  <2>3. CASE shadow > 0
    <3>1. e.rem <= 0
      BY <1>3, <2>1, <2>3 DEF IInv, SliceFits
    <3> QED BY <1>3, <2>1, <3>1 DEF Fits
  <2> QED BY <2>2, <2>3 DEF IInv, Others
<1>6. Fits(ev')
  BY <1>4, <1>5 DEF Changed
<1>7. 0 \in 0..MaxShadow
  BY Constants
<1>8. shadow' \in 0..MaxShadow /\ (shadow' = 0 => Fits(ev')) /\ (shadow' > 0 => ev'.rem = 1)
  BY <1>1, <1>6, <1>7
<1> QED BY <1>1, <1>3, <1>4, <1>8, RunStep

(* An instruction that makes sure of one more.                             *)
LEMMA ShadowStep ==
    ASSUME IInv, NEW n \in Nat, n > 0, ShadowInstruction(n)
    PROVE  IInv' /\ Mapped /\ Counted
<1>1. /\ pc = "cpu" /\ ev.rem > 0 /\ shadow < MaxShadow /\ shadow' = shadow + 1 /\ spent' = n
      /\ ev' = [ev EXCEPT !.base = ev.base - (ev.rem - n) + 1, !.rem = 1]
      /\ UNCHANGED <<waitevent, CPU_CLOCK, multiple, proc, screendispflag, pc>>
  BY DEF ShadowInstruction
<1>2. ev \in Events /\ ev.base \in Int /\ ev.rem \in Int
  BY Types
<1>3. /\ ev' \in Events /\ ev'.level = ev.level /\ ev'.clock = ev.clock /\ ev'.setevent = ev.setevent
      /\ ev'.base = ev.base - (ev.rem - n) + 1 /\ ev'.rem = 1
  <2>1. ev' = Slice(ev, ev.base - (ev.rem - n) + 1, 1)
    BY <1>1, Zenon DEF Slice
  <2>2. ev.base - (ev.rem - n) + 1 \in Int /\ 1 \in Int
    BY <1>2
  <2> QED BY <1>2, <2>1, <2>2, SliceAltered
<1>4. Elapsed(ev') = Elapsed(ev) + n
  BY <1>2, <1>3 DEF Elapsed
<1>5. List(ev')
  BY <1>3 DEF List, IInv
<1>6. Changed(ev', ev', {}, {})
  BY <1>5, ForceExitChanges
<1>7. shadow' \in 0..MaxShadow /\ (shadow' = 0 => Fits(ev')) /\ (shadow' > 0 => ev'.rem = 1)
  <2>1. shadow \in 0..MaxShadow /\ MaxShadow \in Nat
    BY Constants DEF IInv, Others
  <2>2. shadow' \in 0..MaxShadow /\ shadow' # 0
    BY <1>1, <2>1
  <2> QED BY <1>3, <2>2
<1>8. {} \in SUBSET (Ids \ {FLAMES})
  OBVIOUS
<1> QED BY <1>1, <1>3, <1>4, <1>5, <1>6, <1>7, <1>8, RunStep

-----------------------------------------------------------------------------
(* What e is made of ev by setting the events of new from now, and those   *)
(* of again from their due times.                                          *)
Rearmed(e, new, again) ==
    /\ List(e) /\ e.setevent = ev.setevent \ (new \cup again) /\ Elapsed(e) = Elapsed(ev)
    /\ Fits(ev) => Fits(e)
    /\ Elems(e.level) = Elems(ev.level) \cup new \cup again
    /\ \A t \in new : e.clock[t] - Elapsed(e) \in Delays[t]
    /\ \A t \in again : e.clock[t] - ev.clock[t] \in Delays[t]
    /\ \A t \in Ids \ (new \cup again) : e.clock[t] = ev.clock[t]

(* Events set from now are the first part of it.                           *)
LEMMA NowRearms ==
    ASSUME IInv, NEW e, NEW new, Changed(ev, e, new, {})
    PROVE  Rearmed(e, new, {})
BY DEF Changed, Rearmed

(* An event set again from its due time is the other.                      *)
LEMMA AgainRearms ==
    ASSUME IInv, NEW e, NEW new \in SUBSET Ids, Rearmed(e, new, {}),
           NEW id \in Ids \ new, NEW n \in Delays[id], n \in Int
    PROVE  Rearmed(Set(e, id, n, FALSE), new, {id})
<1> DEFINE at == e.clock[id] + n
           f == SetAt(e, id, at)
<1>1. /\ List(e) /\ e.setevent = ev.setevent \ new /\ Elapsed(e) = Elapsed(ev)
      /\ Fits(ev) => Fits(e)
      /\ Elems(e.level) = Elems(ev.level) \cup new
      /\ \A t \in new : e.clock[t] - Elapsed(e) \in Delays[t]
      /\ \A t \in Ids \ new : e.clock[t] = ev.clock[t]
  BY DEF Rearmed
<1>2. Elapsed(e) \in Int /\ e.clock \in [Ids -> Int] /\ ev.clock \in [Ids -> Int]
  BY <1>1, ListTypes, Types
<1>3. at \in Int
  BY <1>2
<1>4. Set(e, id, n, FALSE) = f
  BY DEF Set
<1>5. e.clock[id] = ev.clock[id] /\ ev.clock[id] \in Int /\ at - ev.clock[id] = n
  BY <1>1, <1>2
<1> HIDE DEF at
<1>6. /\ List(f) /\ Elems(f.level) = Elems(e.level) \cup {id}
      /\ f.clock = [e.clock EXCEPT ![id] = at]
      /\ f.setevent = e.setevent \ {id}
      /\ Elapsed(f) = Elapsed(e)
      /\ Fits(e) => Fits(f)
  BY <1>1, <1>3, SetKeeps
<1> HIDE DEF f
<1>7. f.clock[id] = at /\ \A x \in Ids \ {id} : f.clock[x] = e.clock[x]
  BY <1>2, <1>6
<1>8. \A t \in {id} : f.clock[t] - ev.clock[t] \in Delays[t]
  BY <1>5, <1>7
<1>9. \A t \in new : f.clock[t] - Elapsed(f) \in Delays[t]
  BY <1>1, <1>6, <1>7
<1>10. \A t \in Ids \ (new \cup {id}) : f.clock[t] = ev.clock[t]
  BY <1>1, <1>7
<1>11. f.setevent = ev.setevent \ (new \cup {id}) /\ Elems(f.level) = Elems(ev.level) \cup new \cup {id}
  BY <1>1, <1>6
<1>12. Elapsed(f) = Elapsed(ev) /\ (Fits(ev) => Fits(f))
  BY <1>1, <1>6, Zenon
<1>13. Rearmed(f, new, {id})
  BY <1>6, <1>8, <1>9, <1>10, <1>11, <1>12, Zenon DEF Rearmed
<1> QED BY <1>4, <1>13

(* What is left of a queue.                                                *)
LEMMA TailIs ==
    ASSUME NEW X, NEW w \in Seq(X), Distinct(w), w # <<>>
    PROVE  /\ Tail(w) \in Seq(X) /\ Distinct(Tail(w)) /\ Elems(Tail(w)) = Elems(w) \ {Head(w)}
           /\ 1 \in DOMAIN w /\ Head(w) = w[1] /\ Head(w) \in Elems(w)
           /\ \A i \in DOMAIN Tail(w) : i + 1 \in DOMAIN w /\ Tail(w)[i] = w[i + 1]
<1> DEFINE t == Tail(w)
<1>1. /\ Head(w) = w[1] /\ t \in Seq(X) /\ Len(t) = Len(w) - 1
      /\ \A i \in 1..Len(t) : t[i] = w[i + 1]
  BY HeadTailProperties
<1> HIDE DEF t
<1>2. Len(w) \in Nat /\ Len(w) >= 1 /\ DOMAIN w = 1..Len(w) /\ DOMAIN t = 1..(Len(w) - 1)
  BY <1>1
<1>3. \A i \in DOMAIN t : i \in Nat /\ i + 1 \in DOMAIN w /\ t[i] = w[i + 1]
  BY <1>1, <1>2
<1>4. Distinct(t)
  <2> SUFFICES ASSUME NEW i \in DOMAIN t, NEW j \in DOMAIN t, t[i] = t[j] PROVE i = j
    BY DEF Distinct
  <2>1. i + 1 = j + 1
    BY <1>3 DEF Distinct
  <2> QED BY <1>3, <2>1
<1>5. ASSUME NEW x \in Elems(t) PROVE x \in Elems(w) /\ x # w[1]
  <2>1. PICK i \in DOMAIN t : x = t[i]
    BY DEF Elems
  <2>2. i + 1 \in DOMAIN w /\ 1 \in DOMAIN w /\ i + 1 # 1 /\ x = w[i + 1]
    BY <1>2, <1>3, <2>1
  <2> QED BY <2>2 DEF Elems, Distinct
<1>6. ASSUME NEW x \in Elems(w), x # w[1] PROVE x \in Elems(t)
  <2>1. PICK i \in DOMAIN w : x = w[i]
    BY DEF Elems
  <2>2. i - 1 \in DOMAIN t /\ i - 1 + 1 = i
    BY <1>2, <1>6, <2>1
  <2>3. t[i - 1] = x
    BY <1>3, <2>1, <2>2
  <2> QED BY <2>2, <2>3 DEF Elems
<1>7. 1 \in DOMAIN w /\ w[1] \in Elems(w)
  BY <1>2 DEF Elems
<1> QED BY <1>1, <1>3, <1>4, <1>5, <1>6, <1>7 DEF t

(* Leaving a callback.                                                     *)
LEMMA ServedIs ==
    ASSUME NEW e, List(e), NEW id, Served(e, id)
    PROVE  /\ ev' \in Events /\ ev'.setevent = e.setevent \ {id} /\ ev'.level = e.level /\ ev'.clock = e.clock
           /\ List(ev') /\ Elapsed(ev') = Elapsed(e) /\ (Fits(e) => Fits(ev'))
           /\ waitevent' = Tail(waitevent) /\ spent' = 0
           /\ UNCHANGED <<CPU_CLOCK, multiple, shadow, pc>>
<1>1. /\ ev' = [e EXCEPT !.setevent = e.setevent \ {id}] /\ waitevent' = Tail(waitevent) /\ spent' = 0
      /\ UNCHANGED <<CPU_CLOCK, multiple, shadow, pc>>
  BY DEF Served
<1>2. e \in Events
  BY DEF List
<1>3. /\ ev' \in Events /\ ev'.setevent = e.setevent \ {id} /\ ev'.level = e.level /\ ev'.clock = e.clock
      /\ ev'.base = e.base /\ ev'.rem = e.rem
  BY <1>1, <1>2 DEF Events
<1>4. List(ev')
  BY <1>3 DEF List
<1>5. Elapsed(ev') = Elapsed(e)
  BY <1>3 DEF Elapsed
<1>6. Fits(e) => Fits(ev')
  BY <1>3 DEF Fits
<1> QED BY <1>1, <1>3, <1>4, <1>5, <1>6

(* A callback runs: the first of the queue is the earliest of those to     *)
(* fire.                                                                   *)
LEMMA ServeStep ==
    ASSUME IInv, NEW id \in ev.setevent, InCallback(id),
           NEW new \in SUBSET (Ids \ {id, FLAMES}), NEW again \in SUBSET {id},
           NEW e, Rearmed(e, new, again), Served(e, id),
           screendispflag' = (screendispflag /\ (id = FLAMES => again # {})),
           proc' \in {"vsync", "disp"}
    PROVE  IInv' /\ Mapped /\ Counted
<1>1. pc = "callbacks" /\ waitevent # <<>> /\ Head(waitevent) = id
  BY DEF InCallback
<1>2. waitevent \in Seq(Ids) /\ Distinct(waitevent)
  BY DEF IInv, Others
<1>3. /\ List(e) /\ e.setevent = ev.setevent \ (new \cup again) /\ Elapsed(e) = Elapsed(ev)
      /\ Fits(ev) => Fits(e)
      /\ Elems(e.level) = Elems(ev.level) \cup new \cup again
      /\ \A t \in new : e.clock[t] - Elapsed(e) \in Delays[t]
      /\ \A t \in again : e.clock[t] - ev.clock[t] \in Delays[t]
      /\ \A t \in Ids \ (new \cup again) : e.clock[t] = ev.clock[t]
  BY DEF Rearmed
<1>4. /\ List(ev') /\ ev'.setevent = ev.setevent \ (new \cup {id})
      /\ Elems(ev'.level) = Elems(ev.level) \cup new \cup again /\ ev'.clock = e.clock
      /\ Elapsed(ev') = Elapsed(ev) /\ (Fits(ev) => Fits(ev'))
      /\ waitevent' = Tail(waitevent) /\ spent' = 0
      /\ UNCHANGED <<CPU_CLOCK, multiple, shadow, pc>>
  BY <1>3, ServedIs
<1>5. /\ waitevent' \in Seq(Ids) /\ Distinct(waitevent') /\ Elems(waitevent') = Elems(waitevent) \ {id}
      /\ 1 \in DOMAIN waitevent /\ id = waitevent[1] /\ id \in Elems(waitevent)
      /\ \A i \in DOMAIN waitevent' : i + 1 \in DOMAIN waitevent /\ waitevent'[i] = waitevent[i + 1]
  BY <1>1, <1>2, <1>4, TailIs
<1>6. /\ ev.setevent \subseteq Elems(waitevent) /\ ev.setevent \subseteq Ids
      /\ FLAMES \in Elems(waitevent) => FLAMES \in ev.setevent /\ screendispflag
      /\ FLAMES \in Elems(ev.level) <=> (screendispflag /\ FLAMES \notin Elems(waitevent))
      /\ screendispflag \in BOOLEAN
  BY Types DEF IInv, Stages, Others
<1>7. Others'
  <2>1. screendispflag' \in BOOLEAN
    OBVIOUS
  <2> QED BY <1>4, <1>5, <2>1, Zenon DEF Others, IInv
<1>8. SliceFits'
  <2>1. Elapsed(ev') >= 0
    BY <1>4 DEF IInv, SliceFits
  <2>2. shadow' > 0 => pc' = "cpu" /\ ev'.rem = 1
    BY <1>1, <1>4 DEF IInv, SliceFits
  <2>3. shadow' = 0 => Fits(ev')
    BY <1>4 DEF IInv, SliceFits
  <2> QED BY <2>1, <2>2, <2>3, Zenon DEF SliceFits
<1>9. Stages'
  <2>1. pc' = "callbacks"
    BY <1>1, <1>4
  <2>2. ev'.setevent \subseteq Elems(waitevent')
    BY <1>4, <1>5, <1>6
  <2>3. FLAMES \in Elems(waitevent') => FLAMES \in ev'.setevent /\ screendispflag'
    BY <1>4, <1>5, <1>6
  <2>4. FLAMES \in Elems(ev'.level) <=> (screendispflag' /\ FLAMES \notin Elems(waitevent'))
    <3>1. CASE id = FLAMES
      BY <1>4, <1>5, <1>6, <3>1
    <3>2. CASE id # FLAMES
      BY <1>4, <1>5, <1>6, <3>2
    <3> QED BY <3>1, <3>2
  <2> QED BY <2>1, <2>2, <2>3, <2>4, Zenon DEF Stages
<1>10. InTurn'
  <2> SUFFICES ASSUME NEW i \in DOMAIN waitevent', NEW j \in DOMAIN waitevent', i < j,
                      waitevent'[i] \in ev'.setevent, waitevent'[j] \in ev'.setevent
               PROVE  ev'.clock[waitevent'[i]] <= ev'.clock[waitevent'[j]]
    BY Zenon DEF InTurn
  <2>1. i \in Nat /\ j \in Nat
    BY <1>5
  <2>2. /\ i + 1 \in DOMAIN waitevent /\ j + 1 \in DOMAIN waitevent /\ i + 1 < j + 1
        /\ waitevent'[i] = waitevent[i + 1] /\ waitevent'[j] = waitevent[j + 1]
    BY <1>5, <2>1
  <2>3. \A t \in ev'.setevent : t \in ev.setevent /\ ev'.clock[t] = ev.clock[t]
    BY <1>3, <1>4, <1>6
  <2>4. ev.clock[waitevent[i + 1]] <= ev.clock[waitevent[j + 1]]
    BY <2>2, <2>3 DEF IInv, InTurn
  <2> QED BY <2>2, <2>3, <2>4
<1>11. IInv'
  BY <1>4, <1>7, <1>8, <1>9, <1>10, Zenon DEF IInv
<1>12. Counted
  <2>1. Elapsed(ev') = Elapsed(ev) + spent'
    BY <1>4, Types
  <2> QED BY <1>4, <2>1, CountedHere
<1>13. T!Serve(id)
  <2> DEFINE left == [t \in Ids |-> ev.clock[t] - Elapsed(ev)]
             after == [t \in Ids |-> ev'.clock[t] - Elapsed(ev')]
             firing == Elems(waitevent) \cap ev.setevent
             firing1 == Elems(waitevent') \cap ev'.setevent
  <2>1. ev.clock \in [Ids -> Int] /\ Elapsed(ev) \in Int /\ id \in Ids
    BY Types, <1>6
  <2>2. \A other \in firing : left[id] <= left[other]
    <3> SUFFICES ASSUME NEW other \in firing PROVE left[id] <= left[other]
      OBVIOUS
    <3>1. PICK j \in DOMAIN waitevent : other = waitevent[j]
      BY DEF Elems
    <3>2. ev.clock[id] <= ev.clock[other]
      <4>1. CASE j = 1
        BY <1>5, <2>1, <3>1, <4>1
      <4>2. CASE j # 1
        <5>1. 1 < j
          BY <1>2, <4>2
        <5>2. waitevent[1] \in ev.setevent /\ waitevent[j] \in ev.setevent
          BY <1>5, <3>1
        <5> QED BY <1>5, <3>1, <5>1, <5>2 DEF IInv, InTurn
      <4> QED BY <4>1, <4>2
    <3>3. other \in Ids
      BY <1>6
    <3>4. left[id] = ev.clock[id] - Elapsed(ev) /\ left[other] = ev.clock[other] - Elapsed(ev)
          /\ ev.clock[id] \in Int /\ ev.clock[other] \in Int
      BY <2>1, <3>3
    <3> QED BY <2>1, <3>2, <3>4
  <2>3. firing1 = firing \ ({id} \cup new)
    BY <1>4, <1>5
  <2>4. \A t \in new : after[t] \in Delays[t]
    BY <1>3, <1>4
  <2>5. \A t \in again : after[t] - left[t] \in Delays[t]
    <3> SUFFICES ASSUME NEW t \in again PROVE after[t] - left[t] \in Delays[t]
      OBVIOUS
    <3>1. t \in Ids /\ ev.clock[t] \in Int /\ e.clock[t] \in Int
      BY <1>3, <2>1, ListTypes
    <3>2. after[t] - left[t] = e.clock[t] - ev.clock[t]
      BY <1>4, <2>1, <3>1
    <3> QED BY <1>3, <3>2
  <2>6. \A t \in Ids \ (new \cup again) : after[t] = left[t]
    BY <1>3, <1>4
  <2> HIDE DEF left, after
  <2>7. T!Live' \subseteq Ids
    <3>1. Elems(ev'.level) \subseteq Ids
      BY <1>4, Types
    <3>2. Elems(waitevent') \subseteq Ids
      BY <1>5, Types
    <3> QED BY <3>1, <3>2, Constants DEF T!Live
  <2>8. \A t \in T!Live' \ (new \cup again) : after[t] = left[t]
    BY <2>6, <2>7
  <2>9. Elems(ev'.level) = Elems(ev.level) \cup new \cup again
    BY <1>4
  <2>10. (shadow > 0)' = (shadow > 0)
    BY <1>4
  <2> HIDE DEF firing, firing1
  <2> DEFINE Served1(n1, a1) ==
        /\ firing1 = firing \ ({id} \cup n1)
        /\ Elems(ev'.level) = Elems(ev.level) \cup n1 \cup a1
        /\ screendispflag' = (screendispflag /\ (id = FLAMES => a1 # {}))
        /\ \A t \in n1 : after[t] \in Delays[t]
        /\ \A t \in a1 : after[t] - left[t] \in Delays[t]
        /\ \A t \in T!Live' \ (n1 \cup a1) : after[t] = left[t]
  <2>11. Served1(new, again)
    BY <2>3, <2>4, <2>5, <2>8, <2>9
  <2>12. \E n1 \in SUBSET (Ids \ {id, FLAMES}), a1 \in SUBSET {id} : Served1(n1, a1)
    BY <2>11
  <2> QED BY <2>2, <2>10, <2>12, Zenon DEF T!Serve, left, after, firing, firing1
<1>14. id \in Elems(waitevent) \cap ev.setevent
  BY <1>5
<1> QED BY <1>11, <1>12, <1>13, <1>14 DEF Mapped, T!Next

(* A callback need not set anything.                                       *)
LEMMA NothingRearms == ASSUME IInv PROVE Rearmed(ev, {}, {})
<1>1. List(ev)
  BY DEF IInv
<1>2. Changed(ev, ev, {}, {})
  BY <1>1, ForceExitChanges
<1> QED BY <1>2, NowRearms

(* FLAMES sets itself again, or ends the frame.                            *)
LEMMA ScreenStep == ASSUME IInv, Screen PROVE IInv' /\ Mapped /\ Counted
<1>1. InCallback(FLAMES)
  BY DEF Screen
<1>2. FLAMES \in ev.setevent /\ FLAMES \in Ids
  <2>1. FLAMES \in Elems(waitevent)
    BY <1>1, TailIs DEF InCallback, IInv, Others
  <2> QED BY <2>1, Constants DEF IInv, Stages
<1>3. CASE /\ proc' = "disp" /\ UNCHANGED screendispflag
           /\ Served(Set(ev, FLAMES, VsyncClock * multiple, FALSE), FLAMES)
  <2>1. VsyncClock * multiple \in Delays[FLAMES] /\ VsyncClock * multiple \in Int
    BY DelaysAre, Constants, Types DEF IInv, Others
  <2>2. Rearmed(Set(ev, FLAMES, VsyncClock * multiple, FALSE), {}, {FLAMES})
    BY <1>2, <2>1, NothingRearms, AgainRearms
  <2>3. screendispflag' = (screendispflag /\ (FLAMES = FLAMES => {FLAMES} # {}))
    BY <1>3 DEF IInv, Others
  <2>4. {} \in SUBSET (Ids \ {FLAMES, FLAMES}) /\ {FLAMES} \in SUBSET {FLAMES}
    OBVIOUS
  <2> QED BY <1>1, <1>2, <1>3, <2>2, <2>3, <2>4, ServeStep
<1>4. CASE proc = "disp" /\ screendispflag' = FALSE /\ Served(ev, FLAMES) /\ UNCHANGED proc
  <2>1. screendispflag' = (screendispflag /\ (FLAMES = FLAMES => {} # {}))
    BY <1>4 DEF IInv, Others
  <2>2. {} \in SUBSET (Ids \ {FLAMES, FLAMES}) /\ {} \in SUBSET {FLAMES}
    OBVIOUS
  <2> QED BY <1>1, <1>2, <1>4, <2>1, <2>2, NothingRearms, ServeStep
<1> QED BY <1>3, <1>4 DEF Screen

(* The rate generator keeps its phase; its interrupt may set PICMASK.      *)
LEMMA SysTimerStep == ASSUME IInv, SysTimer PROVE IInv' /\ Mapped /\ Counted
<1>1. InCallback(ITIMER) /\ ITIMER \in ev.setevent /\ UNCHANGED <<proc, screendispflag>>
  BY DEF SysTimer
<1>2. PICK n \in Periods, m \in Periods :
        \E e \in {ev, Set(ev, PICMASK, m, TRUE)} : Served(Set(e, ITIMER, n * multiple, FALSE), ITIMER)
  BY DEF SysTimer
<1>3. PICK e \in {ev, Set(ev, PICMASK, m, TRUE)} : Served(Set(e, ITIMER, n * multiple, FALSE), ITIMER)
  BY <1>2
<1>4. /\ n * multiple \in Delays[ITIMER] /\ n * multiple \in Int
      /\ m \in Delays[PICMASK] /\ m \in Int
  BY DelaysAre, Constants, Types DEF IInv, Others
<1>5. PICK new \in SUBSET (Ids \ {ITIMER, FLAMES}) : Rearmed(e, new, {})
  <2>1. CASE e = ev
    BY <2>1, NothingRearms
  <2>2. CASE e = Set(ev, PICMASK, m, TRUE)
    <3>1. Changed(ev, e, {PICMASK}, {})
      BY <1>4, <2>2, SetFromNowChanges, Constants DEF IInv
    <3>2. {PICMASK} \in SUBSET (Ids \ {ITIMER, FLAMES})
      BY Constants
    <3> QED BY <3>1, <3>2, NowRearms
  <2> QED BY <2>1, <2>2
<1>6. Rearmed(Set(e, ITIMER, n * multiple, FALSE), new, {ITIMER})
  BY <1>4, <1>5, AgainRearms, Constants
<1>7. screendispflag' = (screendispflag /\ (ITIMER = FLAMES => {ITIMER} # {}))
      /\ proc' \in {"vsync", "disp"}
  BY <1>1, Constants DEF IInv, Others
<1>8. {ITIMER} \in SUBSET {ITIMER}
  OBVIOUS
<1> QED BY <1>1, <1>3, <1>5, <1>6, <1>7, <1>8, ServeStep

(* A one-shot ends, or sets itself again.                                  *)
LEMMA OneShotStep == ASSUME IInv, OneShot PROVE IInv' /\ Mapped /\ Counted
<1>1. InCallback(PICMASK) /\ PICMASK \in ev.setevent /\ UNCHANGED <<proc, screendispflag>>
  BY DEF OneShot
<1>2. PICK e \in {ev} \cup {Set(ev, PICMASK, n, FALSE) : n \in Periods} : Served(e, PICMASK)
  BY DEF OneShot
<1>3. PICK again \in SUBSET {PICMASK} : Rearmed(e, {}, again)
  <2>1. CASE e = ev
    BY <2>1, NothingRearms
  <2>2. CASE \E n \in Periods : e = Set(ev, PICMASK, n, FALSE)
    <3>1. PICK n \in Periods : e = Set(ev, PICMASK, n, FALSE)
      BY <2>2
    <3>2. n \in Delays[PICMASK] /\ n \in Int
      BY Constants, DelaysAre
    <3>3. {} \in SUBSET Ids /\ PICMASK \in Ids \ {}
      BY Constants
    <3>4. Rearmed(e, {}, {PICMASK})
      BY <3>1, <3>2, <3>3, NothingRearms, AgainRearms
    <3> QED BY <3>4
  <2> QED BY <1>2, <2>1, <2>2
<1>4. screendispflag' = (screendispflag /\ (PICMASK = FLAMES => again # {}))
      /\ proc' \in {"vsync", "disp"}
  BY <1>1, Constants DEF IInv, Others
<1>5. {} \in SUBSET (Ids \ {PICMASK, FLAMES})
  OBVIOUS
<1> QED BY <1>1, <1>2, <1>3, <1>4, <1>5, ServeStep

(* An expired event that was set anew has left T's firing timers.          *)
LEMMA SupersededStep == ASSUME IInv, Superseded PROVE IInv' /\ Mapped /\ Counted
<1>1. PICK id \in {ITIMER, PICMASK} \ ev.setevent : InCallback(id) /\ Served(ev, id)
  BY DEF Superseded
<1>2. pc = "callbacks" /\ waitevent # <<>> /\ Head(waitevent) = id /\ UNCHANGED <<proc, screendispflag>>
      /\ waitevent \in Seq(Ids) /\ Distinct(waitevent)
  BY <1>1 DEF InCallback, Superseded, IInv, Others
<1>3. /\ List(ev') /\ ev'.setevent = ev.setevent /\ ev'.level = ev.level /\ ev'.clock = ev.clock
      /\ Elapsed(ev') = Elapsed(ev) /\ (Fits(ev) => Fits(ev'))
      /\ waitevent' = Tail(waitevent) /\ spent' = 0
      /\ UNCHANGED <<CPU_CLOCK, multiple, shadow, pc>>
  <2>1. List(ev)
    BY DEF IInv
  <2>2. ev.setevent \ {id} = ev.setevent
    BY <1>1
  <2> QED BY <1>1, <2>1, <2>2, ServedIs
<1>4. /\ waitevent' \in Seq(Ids) /\ Distinct(waitevent') /\ Elems(waitevent') = Elems(waitevent) \ {id}
      /\ \A i \in DOMAIN waitevent' : i + 1 \in DOMAIN waitevent /\ waitevent'[i] = waitevent[i + 1]
  BY <1>2, <1>3, TailIs
<1>5. Others'
  BY <1>2, <1>3, <1>4, Zenon DEF Others, IInv
<1>6. SliceFits'
  <2>1. Elapsed(ev') >= 0
    BY <1>3 DEF IInv, SliceFits
  <2>2. shadow' > 0 => pc' = "cpu" /\ ev'.rem = 1
    BY <1>2, <1>3 DEF IInv, SliceFits
  <2>3. shadow' = 0 => Fits(ev')
    BY <1>3 DEF IInv, SliceFits
  <2> QED BY <2>1, <2>2, <2>3, Zenon DEF SliceFits
<1>7. Stages'
  BY <1>1, <1>2, <1>3, <1>4, Constants DEF Stages, IInv
<1>8. InTurn'
  <2> SUFFICES ASSUME NEW i \in DOMAIN waitevent', NEW j \in DOMAIN waitevent', i < j,
                      waitevent'[i] \in ev'.setevent, waitevent'[j] \in ev'.setevent
               PROVE  ev'.clock[waitevent'[i]] <= ev'.clock[waitevent'[j]]
    BY Zenon DEF InTurn
  <2>1. i \in Nat /\ j \in Nat
    BY <1>4
  <2>2. /\ i + 1 \in DOMAIN waitevent /\ j + 1 \in DOMAIN waitevent /\ i + 1 < j + 1
        /\ waitevent'[i] = waitevent[i + 1] /\ waitevent'[j] = waitevent[j + 1]
    BY <1>4, <2>1
  <2> QED BY <1>3, <2>2 DEF IInv, InTurn
<1>9. Counted
  <2>1. Elapsed(ev') = Elapsed(ev) + spent'
    BY <1>3, Types
  <2> QED BY <1>3, <2>1, CountedHere
<1>10. UNCHANGED T!tvars
  <2>1. Elems(waitevent') \cap ev'.setevent = Elems(waitevent) \cap ev.setevent
    BY <1>1, <1>3, <1>4
  <2>2. Elems(ev'.level) = Elems(ev.level)
    BY <1>3
  <2>3. [x \in Ids |-> ev'.clock[x] - Elapsed(ev')] = [x \in Ids |-> ev.clock[x] - Elapsed(ev)]
    BY <1>3
  <2> QED BY <1>2, <1>3, <2>1, <2>2, <2>3 DEF T!tvars
<1> QED BY <1>3, <1>5, <1>6, <1>7, <1>8, <1>9, <1>10 DEF IInv, Mapped

-----------------------------------------------------------------------------
(* Between frames, and where the CPU goes on: the events change by e's.    *)
LEMMA QuietStep ==
    ASSUME IInv, waitevent = <<>>, NEW new \in SUBSET (Ids \ {FLAMES}),
           NEW gone \in SUBSET (Ids \ {FLAMES}),
           Changed(ev, ev', new, gone), spent' = 0, pc' \in {"host", "cpu"},
           screendispflag = (pc' = "cpu"), shadow = 0,
           UNCHANGED <<waitevent, CPU_CLOCK, multiple, proc, screendispflag, shadow>>
    PROVE  /\ IInv' /\ Counted
           /\ Elems(waitevent) \cap ev.setevent = {} /\ Elems(waitevent') \cap ev'.setevent = {}
           /\ Elems(ev'.level) = (Elems(ev.level) \ gone) \cup new
           /\ T!Elapse(0, new)
<1>1. Elems(waitevent) = {} /\ ev.setevent = {}
  BY DEF Elems, IInv, Stages
<1>2. /\ List(ev') /\ ev'.setevent = {} /\ Elapsed(ev') = Elapsed(ev) /\ (Fits(ev) => Fits(ev'))
      /\ Elems(ev'.level) = (Elems(ev.level) \ gone) \cup new
      /\ \A id \in new : ev'.clock[id] - Elapsed(ev') \in Delays[id]
      /\ \A id \in Ids \ new : ev'.clock[id] = ev.clock[id]
  BY <1>1 DEF Changed
<1>3. Others'
  <2>1. pc' \in {"host", "cpu", "callbacks"}
    OBVIOUS
  <2> QED BY <2>1, Zenon DEF Others, IInv
<1>4. SliceFits'
  BY <1>2 DEF SliceFits, IInv
<1>5. Stages'
  BY <1>1, <1>2 DEF Stages, IInv
<1>6. InTurn'
  BY DEF InTurn
<1>7. Counted
  <2>1. Elapsed(ev') = Elapsed(ev) + spent'
    BY <1>2, Types
  <2> QED BY <2>1, CountedHere
<1>8. T!Elapse(0, new)
  <2> DEFINE left == [id \in Ids |-> ev.clock[id] - Elapsed(ev)]
             after == [id \in Ids |-> ev'.clock[id] - Elapsed(ev')]
  <2>1. \A id \in Ids \ new : after[id] = left[id] - 0
    <3> SUFFICES ASSUME NEW id \in Ids \ new PROVE after[id] = left[id] - 0
      OBVIOUS
    <3>1. ev'.clock[id] = ev.clock[id] /\ ev.clock[id] \in Int /\ Elapsed(ev) \in Int
      BY <1>2, Types
    <3> QED BY <1>2, <3>1
  <2>2. \A id \in new : after[id] \in Delays[id]
    BY <1>2
  <2> HIDE DEF left, after
  <2>3. T!Live' \subseteq Ids
    <3>1. Elems(ev'.level) \subseteq Ids
      BY <1>2, ListTypes
    <3> QED BY <1>1, <3>1, Constants DEF T!Live
  <2> QED BY <2>1, <2>2, <2>3 DEF T!Elapse, left, after
<1>9. Elems(waitevent') \cap ev'.setevent = {} /\ Elems(waitevent) \cap ev.setevent = {}
  BY <1>1, <1>2
<1> QED BY <1>2, <1>3, <1>4, <1>5, <1>6, <1>7, <1>8, <1>9, Zenon DEF IInv

(* Only the running CPU is in the shadow of an STI.                        *)
LEMMA NoShadow == ASSUME IInv, pc # "cpu" PROVE shadow = 0
BY DEF IInv, SliceFits, Others

(* The loop between the frames sets an event.                              *)
LEMMA HostSetStep == ASSUME IInv, HostSet PROVE IInv' /\ Mapped /\ Counted
<1>1. /\ pc = "host" /\ spent' = 0
      /\ UNCHANGED <<waitevent, CPU_CLOCK, multiple, proc, screendispflag, shadow, pc>>
  BY DEF HostSet
<1>2. PICK n \in Periods : ev' = Set(ev, PICMASK, n, TRUE)
  BY DEF HostSet
<1>3. Changed(ev, ev', {PICMASK}, {})
  <2>1. n \in Delays[PICMASK] /\ n \in Int /\ PICMASK \in Ids
    BY Constants, DelaysAre
  <2>2. List(ev)
    BY DEF IInv
  <2> QED BY <1>2, <2>1, <2>2, SetFromNowChanges
<1>4. waitevent = <<>> /\ screendispflag = FALSE /\ shadow = 0
  BY <1>1, NoShadow DEF IInv, Stages
<1>5. {PICMASK} \in SUBSET (Ids \ {FLAMES}) /\ {} \in SUBSET (Ids \ {FLAMES})
  BY Constants
<1>6. /\ IInv' /\ Counted
      /\ Elems(waitevent) \cap ev.setevent = {} /\ Elems(waitevent') \cap ev'.setevent = {}
      /\ Elems(ev'.level) = (Elems(ev.level) \ {}) \cup {PICMASK}
      /\ T!Elapse(0, {PICMASK})
  BY <1>1, <1>3, <1>4, <1>5, QuietStep
<1>7. T!HostSets
  <2>1. Elems(ev'.level) = Elems(ev.level) \cup {PICMASK}
    BY <1>6
  <2> QED BY <1>1, <1>4, <1>5, <1>6, <2>1 DEF T!HostSets
<1> QED BY <1>6, <1>7 DEF Mapped, T!Next

(* The callbacks have run.                                                 *)
LEMMA ResumeStep == ASSUME IInv, Resume PROVE IInv' /\ Mapped /\ Counted
<1>1. /\ pc = "callbacks" /\ waitevent = <<>> /\ spent' = 0 /\ shadow = 0
      /\ UNCHANGED <<waitevent, CPU_CLOCK, multiple, proc, screendispflag, shadow>>
  BY NoShadow DEF Resume
<1>2. {PICMASK} \in SUBSET (Ids \ {FLAMES}) /\ {} \in SUBSET (Ids \ {FLAMES})
  BY Constants
<1>3. List(ev) /\ screendispflag \in BOOLEAN
  BY DEF IInv, Others
<1>4. CASE ~screendispflag /\ pc' = "host" /\ ev' = ev
  <2>1. Changed(ev, ev', {}, {})
    BY <1>3, <1>4, ForceExitChanges
  <2>2. screendispflag = (pc' = "cpu")
    BY <1>3, <1>4
  <2>3. IInv' /\ Counted
    BY <1>1, <1>2, <1>4, <2>1, <2>2, QuietStep
  <2>4. UNCHANGED T!tvars
    BY <1>1, <1>4 DEF T!tvars
  <2> QED BY <2>3, <2>4 DEF Mapped
<1>5. CASE screendispflag /\ pc' = "cpu" /\ ev' \in {ev, Reset(ev, PICMASK)}
  <2>1. PICK gone \in SUBSET (Ids \ {FLAMES}) : Changed(ev, ev', {}, gone)
    <3>1. CASE ev' = ev
      BY <1>2, <1>3, <3>1, ForceExitChanges
    <3>2. CASE ev' = Reset(ev, PICMASK)
      BY <1>2, <1>3, <3>2, ResetChanges
    <3> QED BY <1>5, <3>1, <3>2
  <2>2. screendispflag = (pc' = "cpu")
    BY <1>3, <1>5
  <2>3. /\ IInv' /\ Counted
        /\ Elems(waitevent) \cap ev.setevent = {} /\ Elems(waitevent') \cap ev'.setevent = {}
        /\ Elems(ev'.level) = (Elems(ev.level) \ gone) \cup {}
        /\ T!Elapse(0, {})
    BY <1>1, <1>2, <1>5, <2>1, <2>2, QuietStep
  <2>4. T!Cancel
    <3>1. Elems(ev'.level) = Elems(ev.level) \ gone
      BY <2>3
    <3> QED BY <1>1, <1>5, <2>3, <3>1 DEF T!Cancel
  <2> QED BY <2>3, <2>4 DEF Mapped, T!Next
<1> QED BY <1>4, <1>5 DEF Resume

(* A frame starts, and FLAMES goes on from its last due time.              *)
LEMMA StartFrameStep == ASSUME IInv, StartFrame PROVE IInv' /\ Mapped /\ Counted
<1>1. /\ pc = "host" /\ pc' = "callbacks" /\ proc' = "vsync" /\ screendispflag' = TRUE /\ spent' = 0
      /\ ev' = Set(ev, FLAMES, DispClock * multiple, FALSE)
      /\ UNCHANGED <<waitevent, CPU_CLOCK, multiple, shadow>>
  BY DEF StartFrame
<1>2. waitevent = <<>> /\ Elems(waitevent) = {} /\ ev.setevent = {} /\ screendispflag = FALSE /\ shadow = 0
  <2>1. waitevent = <<>> /\ screendispflag = FALSE
    BY <1>1 DEF IInv, Stages
  <2>2. Elems(waitevent) = {}
    BY <2>1 DEF Elems
  <2> QED BY <1>1, <2>1, <2>2, NoShadow DEF IInv, Stages
<1>3. Rearmed(ev', {}, {FLAMES})
  <2>1. DispClock * multiple \in Delays[FLAMES] /\ DispClock * multiple \in Int
    BY DelaysAre, Constants, Types DEF IInv, Others
  <2>2. {} \in SUBSET Ids /\ FLAMES \in Ids \ {}
    BY Constants
  <2> QED BY <1>1, <2>1, <2>2, NothingRearms, AgainRearms
<1>4. /\ List(ev') /\ ev'.setevent = {} /\ Elapsed(ev') = Elapsed(ev)
      /\ Fits(ev) => Fits(ev')
      /\ Elems(ev'.level) = Elems(ev.level) \cup {FLAMES}
      /\ ev'.clock[FLAMES] - ev.clock[FLAMES] \in Delays[FLAMES]
      /\ \A t \in Ids \ {FLAMES} : ev'.clock[t] = ev.clock[t]
  BY <1>2, <1>3 DEF Rearmed
<1>5. Others'
  BY <1>1, Zenon DEF Others, IInv
<1>6. SliceFits'
  BY <1>1, <1>2, <1>4 DEF SliceFits, IInv
<1>7. Stages'
  BY <1>1, <1>2, <1>4 DEF Stages, IInv
<1>8. InTurn'
  BY <1>1, <1>2 DEF InTurn
<1>9. IInv'
  BY <1>4, <1>5, <1>6, <1>7, <1>8, Zenon DEF IInv
<1>10. Counted
  <2>1. Elapsed(ev) \in Int /\ Elapsed(ev') = Elapsed(ev) /\ spent' = 0
    BY <1>1, <1>4, Types
  <2>2. spent' \in Int /\ Elapsed(ev') = Elapsed(ev) + spent'
    BY <2>1
  <2> QED BY <1>1, <2>2, CountedHere
<1>11. T!StartFrame
  <2> DEFINE left == [t \in Ids |-> ev.clock[t] - Elapsed(ev)]
             after == [t \in Ids |-> ev'.clock[t] - Elapsed(ev')]
  <2>1. ev.clock \in [Ids -> Int] /\ ev'.clock \in [Ids -> Int] /\ Elapsed(ev) \in Int
    BY <1>4, ListTypes, Types
  <2>2. after[FLAMES] - left[FLAMES] = ev'.clock[FLAMES] - ev.clock[FLAMES]
    <3>1. FLAMES \in Ids /\ ev.clock[FLAMES] \in Int /\ ev'.clock[FLAMES] \in Int
      BY <2>1, Constants
    <3> QED BY <1>4, <2>1, <3>1
  <2>3. \A t \in Elems(ev.level) : after[t] = left[t]
    <3>1. FLAMES \notin Elems(ev.level) /\ Elems(ev.level) \subseteq Ids
      BY <1>2, Types DEF IInv, Stages
    <3> QED BY <1>4, <3>1
  <2> HIDE DEF left, after
  <2>4. after[FLAMES] - left[FLAMES] \in Delays[FLAMES]
    BY <1>4, <2>2
  <2>5. Elems(waitevent) \cap ev.setevent = {} /\ Elems(waitevent') \cap ev'.setevent = {}
    BY <1>2, <1>4
  <2>6. UNCHANGED (shadow > 0)
    BY <1>1
  <2> QED BY <1>1, <1>2, <1>4, <2>3, <2>4, <2>5, <2>6, Zenon DEF T!StartFrame, left, after
<1> QED BY <1>9, <1>10, <1>11 DEF Mapped, T!Next

-----------------------------------------------------------------------------
(* A list stays in order where the clocks of its events do.                *)
LEMMA OrderKept ==
    ASSUME NEW s, NEW c, NEW d, Ordered(s, c),
           \A x, y \in Elems(s) : c[x] <= c[y] => d[x] <= d[y]
    PROVE  Ordered(s, d)
BY DEF Ordered, Elems

(* The end of the next slice.                                              *)
LEMMA NextIs ==
    ASSUME NEW S \in SUBSET Nat, NEW n \in Nat
    PROVE  /\ Fs!Min({n} \cup S) \in Nat
           /\ \A x \in {n} \cup S : Fs!Min({n} \cup S) <= x
<1> DEFINE U == {n} \cup S
<1>1. U \in SUBSET Nat /\ U # {}
  OBVIOUS
<1> HIDE DEF U
<1>2. \E m \in U : \A x \in U : m <= x
  BY <1>1, Least
<1>3. Fs!Min(U) \in U /\ \A x \in U : Fs!Min(U) <= x
  BY <1>2, Zenon DEF Fs!Min
<1>4. Fs!Min(U) \in Nat
  BY <1>1, <1>3
<1> QED BY <1>3, <1>4 DEF U

(* A slice ends: its cycles come off every event, and exactly those due    *)
(* expire.                                                                 *)
LEMMA ProgressStep == ASSUME IInv, Progress PROVE IInv' /\ Mapped /\ Counted
<1> DEFINE level == Elems(ev.level)
           waits == {id \in level : ev.clock[id] - ev.base > 0}
           due   == level \ waits
           next  == Fs!Min({NEVENT_MAXCLOCK} \cup {ev.clock[id] - ev.base : id \in waits})
           c     == [id \in Ids |-> IF id \in level THEN ev.clock[id] - ev.base ELSE ev.clock[id]]
           l     == Those(ev.level, waits)
           w     == Those(ev.level, Ids \ (waits \cup ev.setevent))
<1>1. /\ pc = "cpu" /\ ev.rem <= 0
      /\ ev' = [clock |-> c, setevent |-> ev.setevent \cup due, level |-> l,
                base |-> next, rem |-> ev.rem + next]
      /\ waitevent' = w
      /\ CPU_CLOCK' = (CPU_CLOCK + ev.base) % Wrap
      /\ screendispflag' = (screendispflag /\ FLAMES \in level)
      /\ pc' = "callbacks" /\ spent' = 0
      /\ UNCHANGED <<multiple, proc, shadow>>
  BY DEF Progress, SliceEnds
<1>2. /\ waitevent = <<>> /\ Elems(waitevent) = {} /\ ev.setevent = {}
      /\ screendispflag = TRUE /\ FLAMES \in level
  BY <1>1, Running
<1>3. /\ ev.clock \in [Ids -> Int] /\ ev.base \in Int /\ ev.rem \in Int
      /\ ev.level \in Seq(Ids) /\ level \subseteq Ids /\ Elapsed(ev) \in Int
      /\ CPU_CLOCK \in 0..(Wrap - 1) /\ Wrap \in Nat /\ Wrap > 0
  BY Types, Constants DEF IInv, Others
<1>4. shadow = 0 /\ shadow' = 0
  <2>1. ~(shadow > 0)
    BY <1>1, <1>3 DEF IInv, SliceFits
  <2> QED BY <1>1, <2>1 DEF IInv, Others
<1>5. /\ waits \subseteq level /\ due \subseteq level /\ level = waits \cup due
      /\ \A id \in waits : ev.clock[id] - ev.base > 0
      /\ \A id \in due : ev.clock[id] - ev.base <= 0
  BY <1>3
<1>6. next \in Nat /\ \A id \in waits : next <= ev.clock[id] - ev.base
  <2> DEFINE S == {ev.clock[id] - ev.base : id \in waits}
  <2>1. S \in SUBSET Nat
    <3> SUFFICES ASSUME NEW id \in waits PROVE ev.clock[id] - ev.base \in Nat
      OBVIOUS
    <3>1. ev.clock[id] \in Int
      BY <1>3
    <3> QED BY <1>3, <1>5, <3>1
  <2>2. \A id \in waits : ev.clock[id] - ev.base \in S
    OBVIOUS
  <2> HIDE DEF S
  <2> DEFINE m == Fs!Min({NEVENT_MAXCLOCK} \cup S)
  <2>3. m \in Nat /\ \A x \in {NEVENT_MAXCLOCK} \cup S : m <= x
    BY <2>1, NextIs, Constants
  <2>4. m = next
    BY DEF S
  <2> HIDE DEF m, next, waits
  <2> QED BY <2>2, <2>3, <2>4
<1>7. /\ c \in [Ids -> Int]
      /\ \A id \in level : c[id] = ev.clock[id] - ev.base
      /\ \A id \in Ids \ level : c[id] = ev.clock[id]
  BY <1>3
<1> HIDE DEF c, next
<1>8. /\ l \in Seq(Ids) /\ Elems(l) = waits /\ Distinct(l) /\ Ordered(l, ev.clock)
      /\ w \in Seq(Ids) /\ Elems(w) = due /\ Distinct(w) /\ Ordered(w, ev.clock)
  <2> DEFINE rest == Ids \ (waits \cup ev.setevent)
  <2>1. Distinct(ev.level) /\ Ordered(ev.level, ev.clock)
    BY DEF IInv, List
  <2>2. level \cap waits = waits /\ level \cap rest = due
    BY <1>2, <1>3
  <2> HIDE DEF waits, due, rest
  <2>3. l \in Seq(Ids) /\ Elems(l) = level \cap waits
    BY <1>3, ThoseKeep
  <2>4. Distinct(l) /\ Ordered(l, ev.clock)
    BY <1>3, <2>1, ThoseOrdered
  <2> DEFINE v == Those(ev.level, rest)
  <2>5. v \in Seq(Ids) /\ Elems(v) = level \cap rest
    BY <1>3, ThoseKeep
  <2>6. Distinct(v) /\ Ordered(v, ev.clock)
    BY <1>3, <2>1, ThoseOrdered
  <2>7. v = w
    BY DEF rest
  <2> QED BY <2>2, <2>3, <2>4, <2>5, <2>6, <2>7
<1> HIDE DEF level, waits, due, l, w
<1>9. \A x, y \in level : ev.clock[x] <= ev.clock[y] => c[x] <= c[y]
  <2> SUFFICES ASSUME NEW x \in level, NEW y \in level, ev.clock[x] <= ev.clock[y] PROVE c[x] <= c[y]
    OBVIOUS
  <2>1. ev.clock[x] \in Int /\ ev.clock[y] \in Int
    BY <1>3
  <2> QED BY <1>3, <1>7, <2>1
<1>10. Ordered(l, c) /\ Ordered(w, c)
  BY <1>5, <1>8, <1>9, OrderKept
<1>11. /\ ev' \in Events /\ ev'.clock = c /\ ev'.setevent = due /\ ev'.level = l
       /\ ev'.base = next /\ ev'.rem = ev.rem + next
  <2>1. ev.rem + next \in Int /\ due \subseteq Ids /\ ev.setevent \cup due = due
    BY <1>2, <1>3, <1>5, <1>6
  <2> QED BY <1>1, <1>6, <1>7, <1>8, <2>1 DEF Events
<1>12. Elapsed(ev') = -ev.rem /\ Elapsed(ev) = ev.base - ev.rem
  BY <1>3, <1>6, <1>11 DEF Elapsed
<1>13. List(ev')
  BY <1>8, <1>10, <1>11 DEF List
<1>14. Others'
  <2>1. CPU_CLOCK' \in 0..(Wrap - 1)
    <3>1. CPU_CLOCK + ev.base \in Int
      BY <1>3
    <3>2. CPU_CLOCK' = (CPU_CLOCK + ev.base) % Wrap
      BY <1>1
    <3>3. Wrap \in Nat /\ Wrap > 0
      BY <1>3
    <3> QED BY <3>1, <3>2, <3>3
  <2>2. screendispflag' \in BOOLEAN /\ pc' \in {"host", "cpu", "callbacks"}
    BY <1>1
  <2> QED BY <1>1, <1>8, <2>1, <2>2, Zenon DEF Others, IInv
<1>15. SliceFits'
  <2>1. Elapsed(ev') >= 0
    BY <1>1, <1>3, <1>12
  <2>2. Fits(ev')
    <3>1. \A id \in waits : next <= c[id]
      BY <1>5, <1>6, <1>7
    <3> QED BY <1>8, <1>11, <3>1 DEF Fits
  <2>3. ~(shadow' > 0)
    BY <1>4
  <2> QED BY <2>1, <2>2, <2>3, Zenon DEF SliceFits
<1>16. Stages'
  <2>1. /\ pc' = "callbacks" /\ screendispflag' = TRUE /\ ev'.setevent = due
        /\ Elems(waitevent') = due /\ Elems(ev'.level) = waits
    BY <1>1, <1>2, <1>8, <1>11
  <2>2. FLAMES \in waits <=> FLAMES \notin due
    BY <1>2, <1>5 DEF due
  <2> QED BY <2>1, <2>2 DEF Stages
<1>17. InTurn'
  BY <1>1, <1>10, <1>11 DEF InTurn, Ordered
<1>18. IInv'
  BY <1>13, <1>14, <1>15, <1>16, <1>17, Zenon DEF IInv
<1>19. Counted
  <2>1. (Cycles + spent') % Wrap = (CPU_CLOCK + Elapsed(ev) + 0) % Wrap
    <3>1. CPU_CLOCK + Elapsed(ev) \in Int /\ 0 \in Int
      BY <1>3
    <3> QED BY <1>1, <3>1, WrapSum DEF Cycles
  <2>2. Cycles' = (((CPU_CLOCK + ev.base) % Wrap) + (-ev.rem)) % Wrap
    <3>1. Cycles' = (CPU_CLOCK' + Elapsed(ev')) % Wrap
      BY DEF Cycles, Elapsed
    <3> QED BY <1>1, <1>12, <3>1
  <2>3. (((CPU_CLOCK + ev.base) % Wrap) + (-ev.rem)) % Wrap = (CPU_CLOCK + ev.base + (-ev.rem)) % Wrap
    <3>1. CPU_CLOCK + ev.base \in Int /\ -ev.rem \in Int
      BY <1>3
    <3> QED BY <3>1, WrapSum
  <2>4. CPU_CLOCK + ev.base + (-ev.rem) = CPU_CLOCK + Elapsed(ev) + 0
    BY <1>3, <1>12
  <2> QED BY <2>1, <2>2, <2>3, <2>4 DEF Counted
<1>20. T!Expire \/ T!Cancel
  <2> DEFINE left == [id \in Ids |-> ev.clock[id] - Elapsed(ev)]
             after == [id \in Ids |-> ev'.clock[id] - Elapsed(ev')]
  <2>1. \A id \in level : after[id] = left[id] /\ left[id] = ev.clock[id] - ev.base + ev.rem
                          /\ ev.clock[id] \in Int
    <3> SUFFICES ASSUME NEW id \in level
                 PROVE  after[id] = left[id] /\ left[id] = ev.clock[id] - ev.base + ev.rem /\ ev.clock[id] \in Int
      OBVIOUS
    <3>1. /\ after[id] = c[id] - Elapsed(ev') /\ left[id] = ev.clock[id] - Elapsed(ev)
          /\ ev.clock[id] \in Int /\ c[id] = ev.clock[id] - ev.base
      BY <1>3, <1>7, <1>11
    <3> QED BY <1>3, <1>12, <3>1
  <2> HIDE DEF left, after
  <2>2. T!Live' \subseteq level
    BY <1>1, <1>2, <1>5, <1>8, <1>11 DEF T!Live
  <2>3. \A id \in T!Live' \ {} : after[id] = left[id] - 0
    <3> SUFFICES ASSUME NEW id \in T!Live' PROVE after[id] = left[id] - 0
      OBVIOUS
    <3>1. id \in level
      BY <2>2
    <3> QED BY <1>3, <2>1, <3>1
  <2>4. T!Elapse(0, {})
    BY <2>3, Zenon DEF T!Elapse, left, after
  <2>5. \A id \in due : left[id] <= 0
    <3> SUFFICES ASSUME NEW id \in due PROVE left[id] <= 0
      OBVIOUS
    <3>1. left[id] = ev.clock[id] - ev.base + ev.rem /\ ev.clock[id] \in Int /\ ev.clock[id] - ev.base <= 0
      BY <1>5, <2>1
    <3> QED BY <1>1, <1>3, <3>1
  <2>6. \A id \in due, other \in waits : left[id] < left[other]
    <3> SUFFICES ASSUME NEW id \in due, NEW other \in waits PROVE left[id] < left[other]
      OBVIOUS
    <3>1. /\ left[id] = ev.clock[id] - ev.base + ev.rem /\ ev.clock[id] \in Int /\ ev.clock[id] - ev.base <= 0
          /\ left[other] = ev.clock[other] - ev.base + ev.rem /\ ev.clock[other] \in Int
          /\ ev.clock[other] - ev.base > 0
      BY <1>5, <2>1
    <3> QED BY <1>3, <3>1
  <2>7. level \ due = waits /\ due \in SUBSET level
    BY <1>5 DEF due
  <2>8. /\ Elems(waitevent) \cap ev.setevent = {} /\ Elems(waitevent') \cap ev'.setevent = due
        /\ Elems(ev'.level) = level \ due /\ Elems(ev.level) = level
        /\ screendispflag = TRUE /\ screendispflag' = TRUE
    BY <1>1, <1>2, <1>8, <1>11, <2>7 DEF level
  <2>9. (shadow > 0) = FALSE /\ (shadow' > 0) = FALSE
    BY <1>4
  <2>10. CASE due = {}
    <3>1. {} \in SUBSET (Ids \ {FLAMES})
      OBVIOUS
    <3>2. T!Cancel
      BY <2>4, <2>8, <2>9, <2>10, <3>1, Zenon DEF T!Cancel
    <3> QED BY <3>2
  <2>11. CASE due # {}
    <3> DEFINE Expires(S) ==
          /\ S # {} /\ \A id \in S : left[id] <= 0
          /\ \A id \in S, other \in Elems(ev.level) \ S : left[id] < left[other]
          /\ Elems(waitevent') \cap ev'.setevent = S /\ Elems(ev'.level) = Elems(ev.level) \ S
    <3>1. Expires(due)
      BY <2>5, <2>6, <2>7, <2>8, <2>11
    <3>2. \E S \in SUBSET Elems(ev.level) : Expires(S)
      BY <2>7, <2>8, <3>1
    <3>3. T!Expire
      BY <2>4, <2>8, <2>9, <3>2, Zenon DEF T!Expire, left
    <3> QED BY <3>3
  <2> QED BY <2>10, <2>11
<1> QED BY <1>18, <1>19, <1>20 DEF Mapped, T!Next

-----------------------------------------------------------------------------
(* C's quotient of x by m.                                                 *)
Quotient(x, m) == IF x >= 0 THEN x \div m ELSE -((-x) \div m)

(* The quotient is within one divisor of x, towards zero.                  *)
LEMMA QuotientIs ==
    ASSUME NEW x \in Int, NEW m \in Nat, m > 0
    PROVE  /\ Quotient(x, m) \in Int
           /\ x >= 0 => Quotient(x, m) >= 0 /\ m * Quotient(x, m) <= x /\ x < m * Quotient(x, m) + m
           /\ x < 0 => Quotient(x, m) <= 0 /\ x <= m * Quotient(x, m) /\ m * Quotient(x, m) - m < x
<1> DEFINE q == Quotient(x, m)
<1>1. CASE x >= 0
  <2>1. q = x \div m
    BY <1>1 DEF Quotient
  <2> HIDE DEF q
  <2>2. q \in Int /\ m * q <= x /\ x < m * q + m
    BY <2>1
  <2>3. q >= 0
    <3>1. ASSUME q <= -1 PROVE FALSE
      <4>1. m * q <= -m
        BY <2>2, <3>1
      <4> QED BY <1>1, <2>2, <4>1
    <3> QED BY <2>2, <3>1
  <2> QED BY <1>1, <2>2, <2>3 DEF q
<1>2. CASE x < 0
  <2> DEFINE p == (-x) \div m
  <2>1. p \in Int /\ m * p <= -x /\ -x < m * p + m
    OBVIOUS
  <2>2. q = -p
    BY <1>2 DEF Quotient
  <2> HIDE DEF p, q
  <2>3. p >= 0
    <3>1. ASSUME p <= -1 PROVE FALSE
      <4>1. m * p <= -m
        BY <2>1, <3>1
      <4> QED BY <1>2, <2>1, <4>1
    <3> QED BY <2>1, <3>1
  <2>4. m * q = -(m * p)
    BY <2>1, <2>2
  <2>5. q \in Int /\ q <= 0 /\ x <= m * q /\ m * q - m < x
    BY <2>1, <2>2, <2>3, <2>4
  <2> QED BY <1>2, <2>5 DEF q
<1> QED BY <1>1, <1>2

(* It keeps the order.                                                     *)
LEMMA QuotientRises ==
    ASSUME NEW x \in Int, NEW y \in Int, x <= y, NEW m \in Nat, m > 0
    PROVE  Quotient(x, m) <= Quotient(y, m)
<1> DEFINE p == Quotient(x, m)  q == Quotient(y, m)
<1>1. /\ p \in Int
      /\ x >= 0 => p >= 0 /\ m * p <= x /\ x < m * p + m
      /\ x < 0 => p <= 0 /\ x <= m * p /\ m * p - m < x
  BY QuotientIs
<1>2. /\ q \in Int
      /\ y >= 0 => q >= 0 /\ m * q <= y /\ y < m * q + m
      /\ y < 0 => q <= 0 /\ y <= m * q /\ m * q - m < y
  BY QuotientIs
<1> HIDE DEF p, q
<1> SUFFICES ASSUME p >= q + 1 PROVE FALSE
  BY <1>1, <1>2 DEF p, q
<1>3. m * p >= m * q + m
  BY <1>1, <1>2
<1>4. m * p \in Int /\ m * q \in Int
  BY <1>1, <1>2
<1>5. CASE x >= 0
  BY <1>1, <1>2, <1>3, <1>4, <1>5
<1>6. CASE x < 0 /\ y >= 0
  BY <1>1, <1>2, <1>6
<1>7. CASE y < 0
  BY <1>1, <1>2, <1>3, <1>4, <1>7
<1> QED BY <1>5, <1>6, <1>7

(* So does the rescaling, which makes nothing positive that was not.       *)
LEMMA ScaledIs ==
    ASSUME IInv, NEW new \in Mults
    PROVE  /\ \A n \in Int : Scaled(n, new) = Quotient(n * new + multiple \div 2, multiple)
           /\ \A n \in Int : n * new + multiple \div 2 \in Int /\ Scaled(n, new) \in Int
           /\ \A a, b \in Int : a <= b => a * new <= b * new /\ Scaled(a, new) <= Scaled(b, new)
           /\ \A n \in Int : Scaled(n, new) > 0 => n > 0
<1> DEFINE m == multiple  h == multiple \div 2
<1>1. m \in Nat /\ m > 0 /\ new \in Nat /\ new > 0
  BY Types, Constants
<1>2. h \in Nat /\ h < m
  BY <1>1
<1>3. ASSUME NEW n \in Int PROVE Scaled(n, new) = Quotient(n * new + h, m)
  BY DEF Scaled, Quotient
<1> HIDE DEF m, h
<1>4. ASSUME NEW n \in Int PROVE n * new + h \in Int /\ Scaled(n, new) \in Int
  <2>1. n * new + h \in Int
    BY <1>1, <1>2
  <2> QED BY <1>1, <1>3, <2>1, QuotientIs
<1>5. ASSUME NEW a \in Int, NEW b \in Int, a <= b
      PROVE  a * new <= b * new /\ Scaled(a, new) <= Scaled(b, new)
  <2>1. a * new <= b * new
    BY <1>1, <1>5
  <2>2. a * new + h <= b * new + h /\ a * new + h \in Int /\ b * new + h \in Int
    BY <1>1, <1>2, <2>1
  <2>3. Quotient(a * new + h, m) <= Quotient(b * new + h, m)
    BY <1>1, <2>2, QuotientRises
  <2> QED BY <1>3, <2>1, <2>3
<1>6. ASSUME NEW n \in Int, Scaled(n, new) > 0, ~(n > 0) PROVE FALSE
  <2> DEFINE x == n * new + h  q == Quotient(x, m)
  <2>1. n * new <= 0
    BY <1>1, <1>6
  <2>2. x \in Int /\ x < m
    BY <1>1, <1>2, <2>1
  <2> HIDE DEF x
  <2>3. /\ q \in Int
        /\ x >= 0 => q >= 0 /\ m * q <= x /\ x < m * q + m
        /\ x < 0 => q <= 0 /\ x <= m * q /\ m * q - m < x
    BY <1>1, <2>2, QuotientIs
  <2>4. q = Scaled(n, new)
    BY <1>3 DEF x
  <2> HIDE DEF q
  <2>5. q >= 1
    BY <1>6, <2>3, <2>4
  <2>6. m * q >= m
    BY <1>1, <2>3, <2>5
  <2> QED BY <1>1, <2>2, <2>3, <2>5, <2>6
<1> QED BY <1>3, <1>4, <1>5, <1>6 DEF m, h

(* An event due after r of b cycles is left by the rounding at most one    *)
(* cycle overdue.                                                          *)
LEMMA RoundingLoses ==
    ASSUME IInv, NEW new \in Mults, NEW c \in Int, NEW b \in Int, NEW r \in Int,
           r <= b, c - b + r > 0, c > 0
    PROVE  Scaled(c, new) - Scaled(b, new) + Scaled(r, new) >= -1
<1> DEFINE m == multiple  h == multiple \div 2
           x == c * new + h  y == b * new + h  z == r * new + h
           A == Quotient(x, m)  B == Quotient(y, m)  R == Quotient(z, m)
<1>1. m \in Nat /\ m > 0 /\ new \in Nat /\ new > 0
  BY Types, Constants
<1>2. h \in Nat /\ h < m
  BY <1>1
<1>3. c * new \in Int /\ b * new \in Int /\ r * new \in Int
  BY <1>1
<1>4. c * new > 0 /\ r * new <= b * new
  BY <1>1
<1>5. c * new - b * new + r * new > 0
  <2>1. (c - b + r) * new > 0
    <3> DEFINE d == c - b + r
    <3>1. d \in Int /\ d > 0
      OBVIOUS
    <3> HIDE DEF d
    <3>2. d * new > 0
      BY <1>1, <3>1
    <3> QED BY <3>2 DEF d
  <2>2. (c - b + r) * new = c * new - b * new + r * new
    BY <1>1
  <2> QED BY <2>1, <2>2
<1> HIDE DEF h
<1>6. /\ x \in Int /\ y \in Int /\ z \in Int /\ x >= 0 /\ z <= y /\ x - y + z > 0
  BY <1>2, <1>3, <1>4, <1>5
<1> HIDE DEF m, x, y, z
<1>7. /\ A \in Int /\ x < m * A + m
  BY <1>1, <1>6, QuotientIs
<1>8. /\ B \in Int
      /\ y >= 0 => m * B <= y
      /\ y < 0 => m * B < y + m
  <2>1. y < 0 => m * B - m < y
    BY <1>1, <1>6, QuotientIs
  <2>2. B \in Int /\ (y >= 0 => m * B <= y)
    BY <1>1, <1>6, QuotientIs
  <2> HIDE DEF B
  <2>3. m * B \in Int
    BY <1>1, <2>2
  <2> QED BY <1>1, <1>6, <2>1, <2>2, <2>3
<1>9. /\ R \in Int
      /\ z >= 0 => z < m * R + m
      /\ z < 0 => z <= m * R
  BY <1>1, <1>6, QuotientIs
<1>10. A = Scaled(c, new) /\ B = Scaled(b, new) /\ R = Scaled(r, new)
  BY ScaledIs DEF m, x, y, z, h
<1> HIDE DEF A, B, R
<1> DEFINE d == A - B + R
<1>11. d \in Int
  BY <1>7, <1>8, <1>9
<1>12. m * A - m * B + m * R > -2 * m
  <2> DEFINE a1 == m * A  b1 == m * B  r1 == m * R
  <2>1. a1 \in Int /\ b1 \in Int /\ r1 \in Int
    BY <1>1, <1>7, <1>8, <1>9
  <2>2. x < a1 + m /\ (y >= 0 => b1 <= y) /\ (y < 0 => b1 < y + m)
        /\ (z >= 0 => z < r1 + m) /\ (z < 0 => z <= r1)
    BY <1>7, <1>8, <1>9
  <2> HIDE DEF a1, b1, r1
  <2>3. a1 - b1 + r1 > -2 * m
    BY <1>1, <1>6, <2>1, <2>2
  <2> QED BY <2>3 DEF a1, b1, r1
<1>13. m * d > -2 * m
  <2>1. m * d = m * A - m * B + m * R
    BY <1>1, <1>7, <1>8, <1>9
  <2> QED BY <1>12, <2>1
<1> HIDE DEF d
<1>14. d >= -1
  <2>1. ASSUME d <= -2 PROVE FALSE
    <3>1. m * d <= -2 * m
      BY <1>1, <1>11, <2>1
    <3>2. m * d \in Int /\ -2 * m \in Int
      BY <1>1, <1>11
    <3> QED BY <1>13, <3>1, <3>2
  <2> QED BY <1>11, <2>1
<1> QED BY <1>10, <1>14 DEF d

-----------------------------------------------------------------------------
(* e with its clocks and its slice altered.                                *)
Clocked(e, c, b, r) == [e EXCEPT !.clock = c, !.base = b, !.rem = r]

(* Only the clocks and the slice are altered.                              *)
LEMMA ClockedIs ==
    ASSUME NEW e \in Events, NEW c \in [Ids -> Int], NEW b \in Int, NEW r \in Int
    PROVE  /\ Clocked(e, c, b, r) \in Events /\ Clocked(e, c, b, r).level = e.level
           /\ Clocked(e, c, b, r).setevent = e.setevent /\ Clocked(e, c, b, r).clock = c
           /\ Clocked(e, c, b, r).base = b /\ Clocked(e, c, b, r).rem = r
<1> DEFINE g == [e EXCEPT !.clock = c]
           h == Slice(g, b, r)
<1>1. g \in Events /\ g.level = e.level /\ g.setevent = e.setevent /\ g.clock = c
  BY DEF Events
<1>2. Clocked(e, c, b, r) = h
  BY DEF Events, Clocked, Slice
<1> HIDE DEF g
<1>3. /\ h \in Events /\ h.level = g.level /\ h.clock = g.clock /\ h.setevent = g.setevent
      /\ h.base = b /\ h.rem = r
  BY <1>1, SliceAltered
<1> HIDE DEF h
<1> QED BY <1>1, <1>2, <1>3

(* Between frames nothing is expired.                                      *)
LEMMA Between ==
    ASSUME IInv, pc = "host"
    PROVE  waitevent = <<>> /\ Elems(waitevent) = {} /\ ev.setevent = {} /\ screendispflag = FALSE /\ shadow = 0
<1>1. waitevent = <<>> /\ screendispflag = FALSE
  BY DEF IInv, Stages
<1>2. Elems(waitevent) = {}
  BY <1>1 DEF Elems
<1> QED BY <1>1, <1>2, NoShadow DEF IInv, Stages

(* The menu changes the clock: the list stays in order, the slice ends in  *)
(* time, and the rounding loses a cycle at most.                           *)
LEMMA ChangeClockStep == ASSUME IInv, ChangeClock PROVE IInv' /\ Mapped /\ Counted
<1>1. PICK new \in Mults \ {multiple} :
        /\ multiple' = new
        /\ ev' = IF ev.level = <<>> THEN ev ELSE
              LET At(id) == IF Scaled(ev.clock[id], new) > 0
                            THEN Scaled(ev.clock[id], new) ELSE 1
                  clock == [id \in Ids |-> IF id \in Elems(ev.level) /\ ev.clock[id] > 0
                                           THEN At(id) ELSE ev.clock[id]]
                  first == clock[ev.level[1]]
              IN  [ev EXCEPT !.clock = clock,
                     !.base = IF ev.base = ev.rem THEN first ELSE Scaled(ev.base, new),
                     !.rem = IF ev.base = ev.rem THEN first ELSE Scaled(ev.rem, new)]
  BY DEF ChangeClock
<1>2. /\ pc = "host" /\ spent' = 0
      /\ UNCHANGED <<waitevent, CPU_CLOCK, proc, screendispflag, shadow, pc>>
  BY DEF ChangeClock
<1>3. /\ waitevent = <<>> /\ Elems(waitevent) = {} /\ ev.setevent = {}
      /\ screendispflag = FALSE /\ shadow = 0
  BY <1>2, Between
<1>4. /\ ev \in Events /\ ev.clock \in [Ids -> Int] /\ ev.base \in Int /\ ev.rem \in Int
      /\ ev.level \in Seq(Ids) /\ Elems(ev.level) \subseteq Ids
  BY Types
<1>5. List(ev) /\ Fits(ev) /\ ev.base - ev.rem >= 0
  BY <1>3 DEF IInv, SliceFits, Elapsed
<1>6. Counted
  BY <1>1 DEF Counted
<1>7. new \in Mults
  OBVIOUS
(* With the invariant's parts about ev, the rest is as it was.             *)
<1>8. ASSUME List(ev'), Fits(ev'), Elapsed(ev') >= 0, ev'.setevent = {}, ev'.level = ev.level
      PROVE  IInv'
  <2>1. Others'
    BY <1>1, <1>2, Zenon DEF Others, IInv
  <2>2. ~(shadow' > 0)
    BY <1>2, <1>3
  <2>3. SliceFits'
    BY <1>8, <2>2, Zenon DEF SliceFits
  <2>4. Stages'
    BY <1>2, <1>3, <1>8 DEF Stages, IInv
  <2>5. InTurn'
    BY <1>2, <1>3 DEF InTurn
  <2> QED BY <1>8, <2>1, <2>3, <2>4, <2>5, Zenon DEF IInv
<1>9. ASSUME NEW left, NEW after, ev'.level = ev.level, ev'.setevent = {},
             left = [id \in Ids |-> ev.clock[id] - Elapsed(ev)],
             after = [id \in Ids |-> ev'.clock[id] - Elapsed(ev')],
             \A s, t \in Elems(ev.level) : left[s] <= left[t] => after[s] <= after[t],
             \A t \in Elems(ev.level) : left[t] > 0 => after[t] >= -1
      PROVE  T!Rescale
  <2>1. (shadow > 0)' = (shadow > 0)
    BY <1>2
  <2>2. Elems(waitevent) \cap ev.setevent = {} /\ Elems(waitevent') \cap ev'.setevent = {}
    BY <1>3, <1>9
  <2> QED BY <1>2, <1>3, <1>9, <2>1, <2>2, Zenon DEF T!Rescale
<1>10. CASE ev.level = <<>>
  <2>1. ev' = ev
    BY <1>1, <1>10
  <2>2. Elems(ev.level) = {}
    BY <1>10 DEF Elems
  <2>3. Elapsed(ev') >= 0
    BY <1>5, <2>1 DEF Elapsed
  <2>4. IInv'
    BY <1>3, <1>5, <1>8, <2>1, <2>3
  <2>5. T!Rescale
    BY <1>3, <1>9, <2>1, <2>2
  <2> QED BY <1>6, <2>4, <2>5 DEF Mapped, T!Next
<1>11. CASE ev.level # <<>>
  <2> DEFINE level == Elems(ev.level)
             c == [id \in Ids |-> IF id \in level /\ ev.clock[id] > 0
                                  THEN IF Scaled(ev.clock[id], new) > 0
                                       THEN Scaled(ev.clock[id], new) ELSE 1
                                  ELSE ev.clock[id]]
             first == c[ev.level[1]]
             b == IF ev.base = ev.rem THEN first ELSE Scaled(ev.base, new)
             r == IF ev.base = ev.rem THEN first ELSE Scaled(ev.rem, new)
  <2>1. ev' = Clocked(ev, c, b, r)
    BY <1>1, <1>11 DEF Clocked
  <2>2. /\ \A n \in Int : Scaled(n, new) \in Int
        /\ \A x, y \in Int : x <= y => Scaled(x, new) <= Scaled(y, new)
        /\ \A n \in Int : Scaled(n, new) > 0 => n > 0
    BY <1>7, ScaledIs
  <2>3. c \in [Ids -> Int]
    BY <1>4, <2>2
  <2>4. \A id \in level :
          IF ev.clock[id] > 0
          THEN c[id] >= 1 /\ c[id] >= Scaled(ev.clock[id], new)
               /\ (c[id] = Scaled(ev.clock[id], new) \/ c[id] = 1)
          ELSE c[id] = ev.clock[id]
    <3> SUFFICES ASSUME NEW id \in level
                 PROVE  IF ev.clock[id] > 0
                        THEN c[id] >= 1 /\ c[id] >= Scaled(ev.clock[id], new)
                             /\ (c[id] = Scaled(ev.clock[id], new) \/ c[id] = 1)
                        ELSE c[id] = ev.clock[id]
      OBVIOUS
    <3>1. id \in Ids /\ ev.clock[id] \in Int
      BY <1>4
    <3>2. Scaled(ev.clock[id], new) \in Int
      BY <2>2, <3>1
    <3> QED BY <3>1, <3>2
  <2>5. ev.level[1] \in level /\ 1 \in DOMAIN ev.level
    BY <1>4, <1>11 DEF Elems
  <2> HIDE DEF c
  <2>6. first \in Int
    BY <1>4, <2>3, <2>5
  <2> HIDE DEF first
  <2>7. b \in Int /\ r \in Int
    BY <1>4, <2>2, <2>6
  <2> HIDE DEF b, r
  <2>8. /\ ev' \in Events /\ ev'.level = ev.level /\ ev'.setevent = {} /\ ev'.clock = c
        /\ ev'.base = b /\ ev'.rem = r
    <3> DEFINE f == Clocked(ev, c, b, r)
    <3>1. ev \in Events
      BY <1>4
    <3>2. f \in Events /\ f.level = ev.level /\ f.setevent = ev.setevent /\ f.clock = c /\ f.base = b /\ f.rem = r
      BY <2>3, <2>7, <3>1, ClockedIs
    <3>3. ev' = f
      BY <2>1
    <3> HIDE DEF f
    <3> QED BY <1>3, <3>2, <3>3
  <2>9. \A x, y \in level : ev.clock[x] <= ev.clock[y] => c[x] <= c[y]
    <3> SUFFICES ASSUME NEW x \in level, NEW y \in level, ev.clock[x] <= ev.clock[y] PROVE c[x] <= c[y]
      OBVIOUS
    <3>1. /\ ev.clock[x] \in Int /\ ev.clock[y] \in Int /\ c[x] \in Int /\ c[y] \in Int
      BY <1>4, <2>3
    <3>2. /\ Scaled(ev.clock[x], new) <= Scaled(ev.clock[y], new)
          /\ Scaled(ev.clock[x], new) \in Int /\ Scaled(ev.clock[y], new) \in Int
      BY <2>2, <3>1
    <3>3. CASE ev.clock[x] > 0
      <4>1. ev.clock[y] > 0
        BY <3>1, <3>3
      <4>2. /\ c[x] = Scaled(ev.clock[x], new) \/ c[x] = 1
            /\ c[y] >= 1 /\ c[y] >= Scaled(ev.clock[y], new)
        BY <2>4, <3>3, <4>1
      <4> QED BY <3>1, <3>2, <4>2
    <3>4. CASE ~(ev.clock[x] > 0)
      <4>1. c[x] = ev.clock[x]
        BY <2>4, <3>4
      <4>2. c[y] = ev.clock[y] \/ c[y] >= 1
        BY <2>4
      <4> QED BY <3>1, <3>4, <4>1, <4>2
    <3> QED BY <3>3, <3>4
  <2>10. Distinct(ev.level) /\ Ordered(ev.level, ev.clock)
    BY <1>5 DEF List
  <2>11. Ordered(ev.level, c)
    BY <2>9, <2>10, OrderKept
  <2>12. List(ev')
    BY <2>8, <2>10, <2>11 DEF List
  <2>13. b - r >= 0 /\ Elapsed(ev') = b - r
    <3>1. Elapsed(ev') = b - r
      BY <2>8 DEF Elapsed
    <3>2. CASE ev.base = ev.rem
      BY <2>6, <3>1, <3>2 DEF b, r
    <3>3. CASE ev.base # ev.rem
      <4>1. b = Scaled(ev.base, new) /\ r = Scaled(ev.rem, new)
        BY <3>3 DEF b, r
      <4>2. ev.rem <= ev.base
        BY <1>4, <1>5
      <4>3. Scaled(ev.rem, new) <= Scaled(ev.base, new)
        BY <1>4, <2>2, <4>2
      <4> QED BY <2>7, <3>1, <4>1, <4>3
    <3> QED BY <3>2, <3>3
  <2>14. Fits(ev')
    <3> SUFFICES ASSUME r > 0, NEW id \in level PROVE b <= c[id]
      BY <2>8 DEF Fits
    <3>1. CASE ev.base = ev.rem
      <4>1. PICK i \in DOMAIN ev.level : id = ev.level[i]
        BY DEF Elems
      <4>2. b = c[ev.level[1]]
        BY <3>1 DEF b, first
      <4>3. CASE i = 1
        <5>1. c[id] \in Int
          BY <1>4, <2>3
        <5> QED BY <4>1, <4>2, <4>3, <5>1
      <4>4. CASE i # 1
        <5>1. 1 < i
          BY <1>4, <4>4
        <5> QED BY <2>5, <2>11, <4>1, <4>2, <5>1 DEF Ordered
      <4> QED BY <4>3, <4>4
    <3>2. CASE ev.base # ev.rem
      <4>1. b = Scaled(ev.base, new) /\ r = Scaled(ev.rem, new)
        BY <3>2 DEF b, r
      <4>2. ev.rem > 0
        BY <1>4, <2>2, <4>1
      <4>3. ev.base <= ev.clock[id] /\ ev.clock[id] \in Int /\ c[id] \in Int
        BY <1>4, <1>5, <2>3, <4>2 DEF Fits
      <4>4. ev.clock[id] > 0
        BY <1>4, <1>5, <4>2, <4>3
      <4>5. Scaled(ev.base, new) <= Scaled(ev.clock[id], new) /\ Scaled(ev.clock[id], new) \in Int
        BY <1>4, <2>2, <4>3
      <4>6. c[id] >= Scaled(ev.clock[id], new)
        BY <2>4, <4>4
      <4> QED BY <2>7, <4>1, <4>3, <4>5, <4>6
    <3> QED BY <3>1, <3>2
  <2>15. IInv'
    <3>1. Elapsed(ev') >= 0
      BY <2>13
    <3> QED BY <1>8, <2>8, <2>12, <2>14, <3>1
  <2> DEFINE left == [id \in Ids |-> ev.clock[id] - Elapsed(ev)]
             after == [id \in Ids |-> ev'.clock[id] - Elapsed(ev')]
  <2>16. \A id \in level : /\ left[id] = ev.clock[id] - (ev.base - ev.rem) /\ after[id] = c[id] - (b - r)
                           /\ ev.clock[id] \in Int /\ c[id] \in Int
    BY <1>4, <2>3, <2>8, <2>13 DEF Elapsed
  <2> HIDE DEF left, after
  <2>17. \A s, t \in level : left[s] <= left[t] => after[s] <= after[t]
    <3> SUFFICES ASSUME NEW s \in level, NEW t \in level, left[s] <= left[t] PROVE after[s] <= after[t]
      OBVIOUS
    <3>1. ev.clock[s] <= ev.clock[t]
      <4>1. /\ ev.clock[s] - (ev.base - ev.rem) <= ev.clock[t] - (ev.base - ev.rem)
            /\ ev.clock[s] \in Int /\ ev.clock[t] \in Int
        BY <2>16
      <4> QED BY <1>4, <4>1
    <3>2. c[s] <= c[t]
      BY <2>9, <3>1
    <3>3. after[s] = c[s] - (b - r) /\ after[t] = c[t] - (b - r) /\ c[s] \in Int /\ c[t] \in Int
      BY <2>16
    <3> QED BY <2>7, <3>2, <3>3
  <2>18. \A t \in level : left[t] > 0 => after[t] >= -1
    <3> SUFFICES ASSUME NEW t \in level, left[t] > 0 PROVE after[t] >= -1
      OBVIOUS
    <3>1. /\ ev.clock[t] - (ev.base - ev.rem) > 0 /\ after[t] = c[t] - (b - r)
          /\ ev.clock[t] \in Int /\ c[t] \in Int
      BY <2>16
    <3>2. ev.clock[t] > 0
      BY <1>4, <1>5, <3>1
    <3>3. c[t] >= 1 /\ c[t] >= Scaled(ev.clock[t], new)
      BY <2>4, <3>2
    <3>4. CASE ev.base = ev.rem
      <4>1. b = first /\ r = first
        BY <3>4 DEF b, r
      <4> QED BY <2>6, <3>1, <3>3, <4>1
    <3>5. CASE ev.base # ev.rem
      <4>1. b = Scaled(ev.base, new) /\ r = Scaled(ev.rem, new)
        BY <3>5 DEF b, r
      <4>2. ev.rem <= ev.base /\ ev.clock[t] - ev.base + ev.rem > 0
        BY <1>4, <1>5, <3>1
      <4>3. Scaled(ev.clock[t], new) - Scaled(ev.base, new) + Scaled(ev.rem, new) >= -1
        BY <1>4, <1>7, <3>1, <3>2, <4>2, RoundingLoses
      <4>4. Scaled(ev.clock[t], new) \in Int
        BY <2>2, <3>1
      <4> QED BY <2>7, <3>1, <3>3, <4>1, <4>3, <4>4
    <3> QED BY <3>4, <3>5
  <2>19. T!Rescale
    BY <1>9, <2>8, <2>17, <2>18 DEF left, after
  <2> QED BY <1>6, <2>15, <2>19 DEF Mapped, T!Next
<1> QED BY <1>10, <1>11

-----------------------------------------------------------------------------
(* Nothing changes.                                                        *)
LEMMA StutterStep == ASSUME IInv, UNCHANGED vars PROVE IInv' /\ Mapped
<1>1. ev' = ev /\ UNCHANGED <<waitevent, CPU_CLOCK, multiple, proc, screendispflag, shadow, pc, spent>>
  BY DEF vars
<1>2. IInv'
  BY <1>1 DEF IInv, List, Others, SliceFits, Stages, InTurn, Fits, Elapsed, Ordered
<1>3. UNCHANGED T!tvars
  BY <1>1 DEF T!tvars, Elapsed
<1> QED BY <1>2, <1>3 DEF Mapped

(* Every step keeps the invariant, is one of the timers' and counts its    *)
(* cycles.                                                                 *)
LEMMA NextStep == ASSUME IInv, Next PROVE IInv' /\ Mapped /\ Counted
<1>1. CASE HostSet
  BY <1>1, HostSetStep
<1>2. CASE ChangeClock
  BY <1>2, ChangeClockStep
<1>3. CASE StartFrame
  BY <1>3, StartFrameStep
<1>4. CASE Halt
  <2>1. ev.rem + 1 \in Nat /\ ev.rem + 1 > 0
    <3>1. ev.rem \in Int /\ ev.rem > 0
      BY <1>4, Types DEF Halt, Instruction
    <3> QED BY <3>1
  <2> QED BY <1>4, <2>1, InstructionStep DEF Halt
<1>5. CASE \E n \in Costs : Instruction(n) \/ ShadowInstruction(n)
  <2>1. PICK n \in Costs : Instruction(n) \/ ShadowInstruction(n)
    BY <1>5
  <2>2. n \in Nat /\ n > 0
    BY Constants
  <2> QED BY <2>1, <2>2, InstructionStep, ShadowStep
<1>6. CASE Progress
  BY <1>6, ProgressStep
<1>7. CASE Screen
  BY <1>7, ScreenStep
<1>8. CASE SysTimer
  BY <1>8, SysTimerStep
<1>9. CASE OneShot
  BY <1>9, OneShotStep
<1>10. CASE Superseded
  BY <1>10, SupersededStep
<1>11. CASE Resume
  BY <1>11, ResumeStep
<1> QED BY <1>1, <1>2, <1>3, <1>4, <1>5, <1>6, <1>7, <1>8, <1>9, <1>10, <1>11 DEF Next, Frame, Run, Callback

-----------------------------------------------------------------------------
(* The order of the list, the slice, the place of FLAMES and the order of  *)
(* the callbacks hold in every state.                                      *)
THEOREM Invariance == Spec => []IInv
<1>1. Init => IInv
  BY InitInv
<1>2. IInv /\ [Next]_vars => IInv'
  BY NextStep, StutterStep
<1> QED BY <1>1, <1>2, PTL DEF Spec

(* nevent.c: every variable keeps its type; no event is listed, or         *)
(* expires, twice.                                                         *)
THEOREM TypeCorrect == Spec => []TypeOK
BY Invariance, TypesHold, PTL

(* main.cpp: the time the machine has run, as pacing and sound read it,    *)
(* moves by what the CPU spent and by nothing else, for every list of      *)
(* events, every period and every wrap of the counter.                     *)
THEOREM CyclesAreCounted == Spec => CyclesCounted
<1>1. IInv /\ [Next]_vars => [multiple' = multiple => Cycles' = (Cycles + spent') % Wrap]_vars
  BY NextStep DEF Counted
<1> QED BY <1>1, Invariance, PTL DEF Spec, CyclesCounted

(* nevent.c: the list, the two queues and the slice do what Timers         *)
(* promises, for every period, multiple and instruction.                   *)
THEOREM ImplementsTimers == Spec => Implements
<1>1. Init => T!Init
  BY InitInv
<1>2. IInv /\ [Next]_vars => [T!Next]_(T!tvars)
  BY NextStep, StutterStep DEF Mapped
<1> QED BY <1>1, <1>2, Invariance, PTL DEF Spec, Implements, T!Spec
=============================================================================
