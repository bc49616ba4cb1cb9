-------------------------- MODULE FlowSignalsProofs --------------------------
(***************************************************************************)
(* Proofs about FlowSignals, for any variants, horizons and budgets.       *)
(*                                                                         *)
(* A label is final once its row has a verdict.  It is not touched again   *)
(* because whoever writes the verdict, or leaves it to a patch, gives the  *)
(* signal up: a signal that is followed has no verdict yet, in its row or  *)
(* in its patch, and a patch waits only for a row without one.             *)
(*                                                                         *)
(* What a row says is true because three things are true together of every *)
(* signal no write of which has raised: its row, its row with the patch    *)
(* that waits for it, and its state, which says what the two make.  A      *)
(* state has sampled every trade of its window that the labeler has seen   *)
(* and that is stored or may still be, or, between a trade and its sample, *)
(* all but that one; what is true stays true as trades are added, since    *)
(* they are the newest.                                                    *)
(***************************************************************************)
EXTENDS FlowSignals, TLAPS, WellFoundedInduction

Statuses == {"PENDING", "COMPLETE", "CENSORED"}
Trade == [t : 0 .. MaxTime, market : {"CURVE", "AMM"}, seen : BOOLEAN]

\* Patches, samples and states over the first n trades.
PatchUpTo(n) == [ret : [Horizons -> 0 .. n], exc : [Excursions -> SUBSET (1 .. n)], status : Statuses]
SampleUpTo(n) == [trade : 1 .. n, age : 0 .. MaxTime]
StateUpTo(n) == [t : 0 .. MaxTime, ret : [Horizons -> 0 .. n], exc : [Excursions -> SUBSET (1 .. n)],
                 samples : SUBSET SampleUpTo(n)]

ClockTyped == now \in 0 .. MaxTime /\ chain \in {"CURVE", "AMM"}
TradesTyped ==
    /\ trades \in Seq(Trade) /\ \A u \in 1 .. Len(trades) : Time(u) <= now
    /\ buffer \cup stored \subseteq 1 .. Len(trades) /\ buffer \cap stored = {}
RowsTyped ==
    /\ DOMAIN rows \cup unlabelled \subseteq Signals /\ DOMAIN rows \cap unlabelled = {}
    /\ \A i \in DOMAIN rows : rows[i] \in PatchUpTo(Len(trades))
PatchesTyped ==
    /\ DOMAIN patches \subseteq DOMAIN rows
    /\ \A i \in DOMAIN patches : patches[i] \in PatchUpTo(Len(trades))
StatesTyped ==
    /\ DOMAIN states \subseteq DOMAIN rows
    /\ \A i \in DOMAIN states : states[i] \in StateUpTo(Len(trades)) /\ states[i].t = Time(i.at)
EngineTyped ==
    /\ candidate \in BOOLEAN /\ active \subseteq Variants /\ triggered \subseteq Profiles
    /\ ~candidate => active \cup triggered = {}
    /\ graduated \in BOOLEAN
RestTyped == {runs, locked, backoff} \subseteq BOOLEAN /\ spoiled \subseteq DOMAIN rows

\* Who has a verdict is neither followed nor waited for.
Unconcluded ==
    /\ \A i \in DOMAIN patches : rows[i].status = "PENDING"
    /\ \A i \in DOMAIN states : /\ rows[i].status = "PENDING"
                                /\ i \in DOMAIN patches => patches[i].status = "PENDING"
Down == ~runs => DOMAIN patches = {} /\ DOMAIN states = {} /\ buffer = {}

IInv == /\ ClockTyped /\ TradesTyped /\ RowsTyped /\ PatchesTyped /\ StatesTyped
        /\ EngineTyped /\ RestTyped /\ Unconcluded /\ Down

-----------------------------------------------------------------------------
(* Patches, samples and states *)

LEMMA ConstantFacts ==
    /\ MaxTime \in Nat /\ Horizons \subseteq Nat /\ Excursions \subseteq Nat /\ MaxLag \in Nat
    /\ Primary \in Variants
BY SignalsAssumption

LEMMA Grows ==
    ASSUME NEW n \in Nat, NEW k \in Nat, n <= k
    PROVE  PatchUpTo(n) \subseteq PatchUpTo(k) /\ StateUpTo(n) \subseteq StateUpTo(k)
<1>1. 0 .. n \subseteq 0 .. k /\ 1 .. n \subseteq 1 .. k
  OBVIOUS
<1>2. [Horizons -> 0 .. n] \subseteq [Horizons -> 0 .. k]
  BY <1>1
<1>3. [Excursions -> SUBSET (1 .. n)] \subseteq [Excursions -> SUBSET (1 .. k)]
  BY <1>1
<1>4. SUBSET SampleUpTo(n) \subseteq SUBSET SampleUpTo(k)
  BY <1>1 DEF SampleUpTo
<1>. QED BY <1>2, <1>3, <1>4 DEF PatchUpTo, StateUpTo

LEMMA MergeType ==
    ASSUME NEW n \in Nat, NEW a \in PatchUpTo(n), NEW b \in PatchUpTo(n)
    PROVE  /\ Merge(a, b) \in PatchUpTo(n)
           /\ Merge(a, b).status = IF b.status # "PENDING" THEN b.status ELSE a.status
BY DEF Merge, PatchUpTo

LEMMA BlankType == ASSUME NEW n \in Nat PROVE Blank \in PatchUpTo(n) /\ Blank.status = "PENDING"
BY DEF Blank, Unset, Untaken, PatchUpTo, Statuses

LEMMA WithinType ==
    ASSUME NEW n \in Nat, NEW S \in SUBSET SampleUpTo(n), NEW e
    PROVE  Within(S, e) \in SUBSET (1 .. n)
BY DEF Within, SampleUpTo

LEMMA FreshType ==
    ASSUME NEW n \in Nat, NEW i, i.at \in 1 .. n, NEW t \in 0 .. MaxTime
    PROVE  Fresh(i, t) \in StateUpTo(n) /\ Fresh(i, t).t = t
<1>1. Sample(i.at, 0) \in SampleUpTo(n)
  BY ConstantFacts DEF Sample, SampleUpTo
<1>2. Unset \in [Horizons -> 0 .. n] /\ Untaken \in [Excursions -> SUBSET (1 .. n)]
  BY DEF Unset, Untaken
<1>. QED BY <1>1, <1>2 DEF Fresh, StateUpTo

LEMMA SampledType ==
    ASSUME NEW n \in Nat, NEW s \in StateUpTo(n), NEW u \in 1 .. n, NEW age \in 0 .. MaxTime
    PROVE  Sampled(s, u, age) \in StateUpTo(n) /\ Sampled(s, u, age).t = s.t
<1>. DEFINE seen == s.samples \cup {Sample(u, age)}
            ret == [h \in Horizons |-> IF s.ret[h] = 0 /\ Timely(age, h) THEN u ELSE s.ret[h]]
            exc == [e \in Excursions |-> IF s.exc[e] = {} /\ Timely(age, e) THEN Within(seen, e) ELSE s.exc[e]]
<1>1. seen \in SUBSET SampleUpTo(n)
  BY DEF StateUpTo, Sample, SampleUpTo
<1>2. ret \in [Horizons -> 0 .. n]
  BY DEF StateUpTo
<1>3. exc \in [Excursions -> SUBSET (1 .. n)]
  <2>. HIDE DEF seen
  <2>. QED BY <1>1, WithinType DEF StateUpTo
<1>4. Sampled(s, u, age) = [s EXCEPT !.samples = seen, !.ret = ret, !.exc = exc]
  BY DEF Sampled, StateUpTo
<1>. HIDE DEF seen, ret, exc
<1>. QED BY <1>1, <1>2, <1>3, <1>4 DEF StateUpTo

LEMMA ChangesType ==
    ASSUME NEW n \in Nat, NEW before \in StateUpTo(n), NEW after \in StateUpTo(n), NEW last
    PROVE  /\ Changes(before, after, last) \in PatchUpTo(n)
           /\ ~last => Changes(before, after, last).status = "PENDING"
<1>1. [h \in Horizons |-> IF before.ret[h] = 0 THEN after.ret[h] ELSE 0] \in [Horizons -> 0 .. n]
  BY DEF StateUpTo
<1>2. [e \in Excursions |-> IF before.exc[e] = {} THEN after.exc[e] ELSE {}]
        \in [Excursions -> SUBSET (1 .. n)]
  BY DEF StateUpTo
<1>. QED BY <1>1, <1>2 DEF Changes, PatchUpTo, Statuses

LEMMA EarliestExists ==
    ASSUME NEW n \in Nat, NEW S \in SUBSET SampleUpTo(n), S # {}
    PROVE  Earliest(S) \in S /\ \A x \in S : Earliest(S).trade <= x.trade
<1>. DEFINE T == {w.trade : w \in S}
<1>1. T \subseteq Nat /\ T # {}
  BY DEF SampleUpTo
<1>2. PICK k \in T : \A j \in T : ~(<<j, k>> \in OpToRel(<, Nat))
  BY <1>1, WFMin, NatLessThanWellFounded
<1>3. ASSUME NEW j \in T PROVE k <= j
  <2>1. j \in Nat /\ k \in Nat
    BY <1>1
  <2>2. ~(j < k)
    <3>1. j < k => <<j, k>> \in OpToRel(<, Nat)
      BY <2>1 DEF OpToRel
    <3>. QED BY <1>2, <3>1
  <2>. QED BY <2>1, <2>2
<1>4. \E w \in S : \A x \in S : w.trade <= x.trade
  BY <1>3
<1>. QED BY <1>4 DEF Earliest

LEMMA BackfilledType ==
    ASSUME NEW n \in Nat, NEW s \in StateUpTo(n)
    PROVE  Backfilled(s) \in StateUpTo(n) /\ Backfilled(s).t = s.t
<1>. DEFINE timely(h) == {w \in s.samples : Timely(w.age, h)}
            ret == [h \in Horizons |-> IF s.ret[h] = 0 /\ timely(h) # {} THEN Earliest(timely(h)).trade ELSE s.ret[h]]
<1>1. \A h \in Horizons : timely(h) # {} => Earliest(timely(h)).trade \in 0 .. n
  <2>1. ASSUME NEW h \in Horizons, timely(h) # {}
        PROVE  Earliest(timely(h)).trade \in 0 .. n
    <3>1. timely(h) \in SUBSET SampleUpTo(n)
      BY DEF StateUpTo
    <3>2. Earliest(timely(h)) \in SampleUpTo(n)
      BY <2>1, <3>1, EarliestExists
    <3>. QED BY <3>2 DEF SampleUpTo
  <2>. QED BY <2>1
<1>2. ret \in [Horizons -> 0 .. n]
  <2>. HIDE DEF timely
  <2>. QED BY <1>1 DEF StateUpTo
<1>3. Backfilled(s) = [s EXCEPT !.ret = ret]
  BY DEF Backfilled, StateUpTo
<1>. HIDE DEF ret
<1>. QED BY <1>2, <1>3 DEF StateUpTo

LEMMA CoveredType ==
    ASSUME NEW n \in Nat, NEW s \in StateUpTo(n)
    PROVE  Covered(s) \in StateUpTo(n) /\ Covered(s).t = s.t
<1>. DEFINE exc == [e \in Excursions |-> IF s.exc[e] = {} /\ \E w \in s.samples : Timely(w.age, e)
                                         THEN Within(s.samples, e) ELSE s.exc[e]]
<1>1. s.samples \in SUBSET SampleUpTo(n)
  BY DEF StateUpTo
<1>2. exc \in [Excursions -> SUBSET (1 .. n)]
  BY <1>1, WithinType DEF StateUpTo
<1>3. Covered(s) = [s EXCEPT !.exc = exc]
  BY DEF Covered, StateUpTo
<1>. HIDE DEF exc
<1>. QED BY <1>2, <1>3 DEF StateUpTo

-----------------------------------------------------------------------------
(* Writing *)

\* What updateSignalReturn may do for the patches W, each by itself: the row gets
\* its patch, or the patch waits; a patch that waits gets what comes later.
WriteEffect(table, W) ==
    /\ DOMAIN rows' = DOMAIN table
    /\ DOMAIN patches \subseteq DOMAIN patches' /\ DOMAIN patches' \subseteq DOMAIN patches \cup DOMAIN W
    /\ \A i \in DOMAIN table :
          \/ rows'[i] = table[i] /\ (i \in DOMAIN W => i \in DOMAIN patches')
          \/ i \in DOMAIN W /\ i \notin DOMAIN patches' /\ rows'[i] = Merge(table[i], W[i])
    /\ \A i \in DOMAIN patches' :
          \/ i \notin DOMAIN W /\ i \in DOMAIN patches /\ patches'[i] = patches[i]
          \/ i \in DOMAIN W /\ i \notin DOMAIN patches /\ patches'[i] = W[i]
          \/ i \in DOMAIN W /\ i \in DOMAIN patches /\ patches'[i] = Merge(patches[i], W[i])
    /\ \A i \in DOMAIN patches' : rows'[i] = table[i]

LEMMA DeferredEffect ==
    ASSUME NEW W
    PROVE  /\ DOMAIN Deferred(W) = DOMAIN patches \cup DOMAIN W
           /\ \A i \in DOMAIN patches \cup DOMAIN W :
                 Deferred(W)[i] = IF i \notin DOMAIN W THEN patches[i]
                                  ELSE IF i \in DOMAIN patches THEN Merge(patches[i], W[i]) ELSE W[i]
BY DEF Deferred

LEMMA OnlyEffect ==
    ASSUME NEW W, NEW S
    PROVE  DOMAIN Only(W, S) = DOMAIN W \cap S /\ \A i \in DOMAIN W \cap S : Only(W, S)[i] = W[i]
BY DEF Only

LEMMA OnlyOf ==
    ASSUME NEW W, NEW S, S \subseteq DOMAIN W
    PROVE  DOMAIN Only(W, S) = S /\ \A i \in S : Only(W, S)[i] = W[i]
<1>1. DOMAIN W \cap S = S
  OBVIOUS
<1>. QED BY <1>1, OnlyEffect

LEMMA WrittenEffect ==
    ASSUME NEW table, NEW W
    PROVE  /\ DOMAIN Written(table, W) = DOMAIN table
           /\ \A i \in DOMAIN table :
                 Written(table, W)[i] = IF i \in DOMAIN W THEN Merge(table[i], W[i]) ELSE table[i]
BY DEF Written

LEMMA HeldBackEffect ==
    ASSUME NEW W
    PROVE  HeldBack(W) \subseteq DOMAIN W /\ DOMAIN W \cap DOMAIN patches \subseteq HeldBack(W)
BY DEF HeldBack

LEMMA UpdateEffect ==
    ASSUME NEW table, NEW W, Update(table, W), DOMAIN patches \subseteq DOMAIN table,
           DOMAIN W \subseteq DOMAIN table
    PROVE  WriteEffect(table, W)
<1>. DEFINE tried == DOMAIN W \ HeldBack(W)
<1>1. CASE rows' = table /\ patches' = Deferred(W)
  BY <1>1, DeferredEffect DEF WriteEffect
<1>2. CASE rows' = Written(table, Only(W, tried)) /\ patches' = Deferred(Only(W, HeldBack(W)))
  <2>1. /\ DOMAIN Only(W, tried) = tried
        /\ \A i \in tried : Only(W, tried)[i] = W[i]
    <3>1. tried \subseteq DOMAIN W
      OBVIOUS
    <3>. HIDE DEF tried
    <3>. QED BY <3>1, OnlyOf
  <2>2. /\ DOMAIN Only(W, HeldBack(W)) = HeldBack(W)
        /\ \A i \in HeldBack(W) : Only(W, HeldBack(W))[i] = W[i]
    BY OnlyOf, HeldBackEffect
  <2>. DEFINE A == Only(W, tried)
              B == Only(W, HeldBack(W))
  <2>3. /\ DOMAIN rows' = DOMAIN table
        /\ \A i \in DOMAIN table : rows'[i] = IF i \in tried THEN Merge(table[i], W[i]) ELSE table[i]
    <3>1. rows' = Written(table, A) /\ DOMAIN A = tried /\ \A i \in tried : A[i] = W[i]
      BY <1>2, <2>1
    <3>. HIDE DEF A, tried
    <3>. QED BY <3>1, WrittenEffect
  <2>4. /\ DOMAIN patches' = DOMAIN patches \cup HeldBack(W)
        /\ \A i \in DOMAIN patches' :
              patches'[i] = IF i \notin HeldBack(W) THEN patches[i]
                            ELSE IF i \in DOMAIN patches THEN Merge(patches[i], W[i]) ELSE W[i]
    <3>1. patches' = Deferred(B) /\ DOMAIN B = HeldBack(W) /\ \A i \in HeldBack(W) : B[i] = W[i]
      BY <1>2, <2>2
    <3>. HIDE DEF B
    <3>. QED BY <3>1, DeferredEffect
  <2>. HIDE DEF A, B
  <2>. QED BY <2>3, <2>4, HeldBackEffect DEF WriteEffect
<1>. QED BY <1>1, <1>2 DEF Update

LEMMA RaisesEffect ==
    ASSUME NEW table, NEW i, NEW W, NEW before, Raises(table, i, W, before),
           DOMAIN patches \subseteq DOMAIN table, DOMAIN W \subseteq DOMAIN table
    PROVE  /\ WriteEffect(table, Only(W, before))
           /\ i \notin before /\ spoiled' = spoiled \cup (DOMAIN W \ before)
<1>. DEFINE tried == before \ HeldBack(W)
            kept == before \cap HeldBack(W)
            part == Only(W, before)
<1>1. /\ rows' = Written(table, Only(W, tried)) /\ patches' = Deferred(Only(W, kept))
      /\ before \subseteq DOMAIN W \ {i}
      /\ spoiled' = spoiled \cup (DOMAIN W \ before)
  BY DEF Raises
<1>a. before \subseteq DOMAIN W /\ tried \subseteq DOMAIN W /\ kept \subseteq DOMAIN W
  BY <1>1
<1>2. DOMAIN part = before /\ \A j \in before : part[j] = W[j]
  BY <1>a, OnlyOf
<1>3. DOMAIN Only(W, tried) = tried /\ \A j \in tried : Only(W, tried)[j] = W[j]
  <2>. HIDE DEF tried
  <2>. QED BY <1>a, OnlyOf
<1>4. DOMAIN Only(W, kept) = kept /\ \A j \in kept : Only(W, kept)[j] = W[j]
  <2>. HIDE DEF kept
  <2>. QED BY <1>a, OnlyOf
<1>5. /\ DOMAIN rows' = DOMAIN table
      /\ \A j \in DOMAIN table : rows'[j] = IF j \in tried THEN Merge(table[j], W[j]) ELSE table[j]
  <2>. DEFINE A == Only(W, tried)
  <2>1. rows' = Written(table, A) /\ DOMAIN A = tried /\ \A j \in tried : A[j] = W[j]
    BY <1>1, <1>3
  <2>. HIDE DEF A, tried
  <2>. QED BY <2>1, WrittenEffect
<1>6. /\ DOMAIN patches' = DOMAIN patches \cup kept
      /\ \A j \in DOMAIN patches' :
            patches'[j] = IF j \notin kept THEN patches[j]
                          ELSE IF j \in DOMAIN patches THEN Merge(patches[j], W[j]) ELSE W[j]
  <2>. DEFINE B == Only(W, kept)
  <2>1. patches' = Deferred(B) /\ DOMAIN B = kept /\ \A j \in kept : B[j] = W[j]
    BY <1>1, <1>4
  <2>. HIDE DEF B, kept
  <2>. QED BY <2>1, DeferredEffect
<1>. HIDE DEF part
<1>7. WriteEffect(table, part)
  BY <1>1, <1>2, <1>5, <1>6, HeldBackEffect DEF WriteEffect
<1>. QED BY <1>1, <1>7 DEF part

-----------------------------------------------------------------------------
(* What a write leaves of the invariant *)

\* Patches may be written for rows without a verdict only.
Writable(table, W, n) ==
    /\ DOMAIN patches \subseteq DOMAIN table /\ DOMAIN W \subseteq DOMAIN table
    /\ \A i \in DOMAIN table : table[i] \in PatchUpTo(n)
    /\ \A i \in DOMAIN patches : patches[i] \in PatchUpTo(n) /\ table[i].status = "PENDING"
    /\ \A i \in DOMAIN W : W[i] \in PatchUpTo(n) /\ table[i].status = "PENDING"

\* The states S may be followed on, as far as the rows are concerned.
Open(S, table, W) ==
    \A i \in S : /\ i \in DOMAIN table /\ table[i].status = "PENDING"
                 /\ i \in DOMAIN patches => patches[i].status = "PENDING"
                 /\ i \in DOMAIN W => W[i].status = "PENDING"

LEMMA AfterWrite ==
    ASSUME NEW n \in Nat, NEW table, NEW W, Writable(table, W, n), WriteEffect(table, W)
    PROVE  /\ DOMAIN rows' = DOMAIN table /\ \A i \in DOMAIN table : rows'[i] \in PatchUpTo(n)
           /\ DOMAIN patches' \subseteq DOMAIN table
           /\ \A i \in DOMAIN patches' : patches'[i] \in PatchUpTo(n) /\ rows'[i].status = "PENDING"
           /\ \A i \in DOMAIN table : table[i].status # "PENDING" => rows'[i] = table[i]
<1>1. DOMAIN rows' = DOMAIN table /\ DOMAIN patches' \subseteq DOMAIN table
  BY DEF Writable, WriteEffect
<1>2. ASSUME NEW i \in DOMAIN table
      PROVE  rows'[i] \in PatchUpTo(n) /\ (table[i].status # "PENDING" => rows'[i] = table[i])
  <2>1. CASE rows'[i] = table[i]
    BY <2>1 DEF Writable
  <2>2. CASE i \in DOMAIN W /\ rows'[i] = Merge(table[i], W[i])
    BY <2>2, MergeType DEF Writable
  <2>. QED BY <2>1, <2>2 DEF WriteEffect
<1>3. ASSUME NEW i \in DOMAIN patches'
      PROVE  patches'[i] \in PatchUpTo(n)
  <2>1. CASE i \in DOMAIN patches /\ patches'[i] = patches[i]
    BY <2>1 DEF Writable
  <2>2. CASE i \in DOMAIN W /\ i \notin DOMAIN patches /\ patches'[i] = W[i]
    BY <2>2 DEF Writable
  <2>3. CASE i \in DOMAIN W /\ i \in DOMAIN patches /\ patches'[i] = Merge(patches[i], W[i])
    BY <2>3, MergeType DEF Writable
  <2>. QED BY <2>1, <2>2, <2>3 DEF WriteEffect
<1>4. ASSUME NEW i \in DOMAIN patches'
      PROVE  rows'[i].status = "PENDING"
  BY <1>1 DEF WriteEffect, Writable
<1>. QED BY <1>1, <1>2, <1>3, <1>4

LEMMA AfterWriteOpen ==
    ASSUME NEW n \in Nat, NEW table, NEW W, Writable(table, W, n), WriteEffect(table, W),
           NEW S, Open(S, table, W)
    PROVE  \A i \in S : /\ i \in DOMAIN rows' /\ rows'[i].status = "PENDING"
                        /\ i \in DOMAIN patches' => patches'[i].status = "PENDING"
<1>. SUFFICES ASSUME NEW i \in S
              PROVE  /\ i \in DOMAIN rows' /\ rows'[i].status = "PENDING"
                     /\ i \in DOMAIN patches' => patches'[i].status = "PENDING"
  OBVIOUS
<1>1. /\ i \in DOMAIN table /\ table[i] \in PatchUpTo(n) /\ table[i].status = "PENDING"
      /\ i \in DOMAIN patches => patches[i] \in PatchUpTo(n) /\ patches[i].status = "PENDING"
      /\ i \in DOMAIN W => W[i] \in PatchUpTo(n) /\ W[i].status = "PENDING"
  BY DEF Open, Writable
<1>2. i \in DOMAIN rows' /\ rows'[i].status = "PENDING"
  <2>1. CASE rows'[i] = table[i]
    BY <1>1, <2>1 DEF WriteEffect
  <2>2. CASE i \in DOMAIN W /\ rows'[i] = Merge(table[i], W[i])
    BY <1>1, <2>2, MergeType DEF WriteEffect
  <2>. QED BY <1>1, <2>1, <2>2 DEF WriteEffect
<1>3. ASSUME i \in DOMAIN patches' PROVE patches'[i].status = "PENDING"
  <2>1. CASE i \in DOMAIN patches /\ patches'[i] = patches[i]
    BY <1>1, <2>1
  <2>2. CASE i \in DOMAIN W /\ i \notin DOMAIN patches /\ patches'[i] = W[i]
    BY <1>1, <2>2
  <2>3. CASE i \in DOMAIN W /\ i \in DOMAIN patches /\ patches'[i] = Merge(patches[i], W[i])
    BY <1>1, <2>3, MergeType
  <2>. QED BY <1>3, <2>1, <2>2, <2>3 DEF WriteEffect
<1>. QED BY <1>2, <1>3

\* A part of the patches may be written as well.
LEMMA WritablePart ==
    ASSUME NEW n \in Nat, NEW table, NEW W, Writable(table, W, n), NEW S, S \subseteq DOMAIN W
    PROVE  Writable(table, Only(W, S), n)
<1>1. DOMAIN Only(W, S) = S /\ \A i \in S : Only(W, S)[i] = W[i]
  BY OnlyOf
<1>. HIDE DEF Only
<1>. QED BY <1>1 DEF Writable

-----------------------------------------------------------------------------
(* A trade and the signals that are followed *)

LEMMA Followed ==
    ASSUME NEW n \in Nat, NEW u \in 1 .. n, NEW F, now \in 0 .. MaxTime,
           \A i \in DOMAIN F : F[i] \in StateUpTo(n) /\ F[i].t <= now
    PROVE  /\ DOMAIN After(F, u) = DOMAIN F /\ DOMAIN Patches(F, u) = DOMAIN F
           /\ \A i \in DOMAIN F : /\ After(F, u)[i] \in StateUpTo(n) /\ After(F, u)[i].t = F[i].t
                                  /\ Patches(F, u)[i] \in PatchUpTo(n)
                                  /\ i \notin Aged(F) => Patches(F, u)[i].status = "PENDING"
<1>1. DOMAIN After(F, u) = DOMAIN F /\ DOMAIN Patches(F, u) = DOMAIN F
  BY DEF After, Patches
<1>2. ASSUME NEW i \in DOMAIN F
      PROVE  After(F, u)[i] \in StateUpTo(n) /\ After(F, u)[i].t = F[i].t
  <2>1. now - F[i].t \in 0 .. MaxTime
    BY ConstantFacts DEF StateUpTo
  <2>2. After(F, u)[i] = Sampled(F[i], u, now - F[i].t)
    BY DEF After
  <2>. QED BY <2>1, <2>2, SampledType
<1>3. ASSUME NEW i \in DOMAIN F
      PROVE  /\ Patches(F, u)[i] \in PatchUpTo(n)
             /\ i \notin Aged(F) => Patches(F, u)[i].status = "PENDING"
  <2>1. Patches(F, u)[i] = Changes(F[i], After(F, u)[i], i \in Aged(F))
    BY DEF Patches
  <2>2. After(F, u)[i] \in StateUpTo(n)
    BY <1>2
  <2>3. CASE i \in Aged(F)
    BY <2>1, <2>2, <2>3, ChangesType
  <2>4. CASE i \notin Aged(F)
    <3>1. Patches(F, u)[i].status = "PENDING"
      BY <2>1, <2>4 DEF Changes
    <3>. QED BY <2>1, <2>2, <3>1, ChangesType
  <2>. QED BY <2>3, <2>4
<1>. QED BY <1>1, <1>2, <1>3

Followable(table, F, n) ==
    /\ DOMAIN F \subseteq DOMAIN table
    /\ \A i \in DOMAIN F : /\ F[i] \in StateUpTo(n) /\ F[i].t <= now
                           /\ table[i].status = "PENDING"
                           /\ i \in DOMAIN patches => patches[i].status = "PENDING"

\* onTrade() returns, or a write of it raises.
LEMMA Observed ==
    ASSUME NEW n \in Nat, NEW u \in 1 .. n, NEW table, NEW F, now \in 0 .. MaxTime,
           Writable(table, <<>>, n), Followable(table, F, n), spoiled \subseteq DOMAIN table,
           backoff \in BOOLEAN,
           OnTrade(table, F, u) \/ OnTradeRaises(table, F, u)
    PROVE  /\ DOMAIN rows' = DOMAIN table /\ \A i \in DOMAIN table : rows'[i] \in PatchUpTo(n)
           /\ DOMAIN patches' \subseteq DOMAIN table
           /\ \A i \in DOMAIN patches' : patches'[i] \in PatchUpTo(n)
           /\ DOMAIN states' \subseteq DOMAIN F
           /\ \A i \in DOMAIN states' : states'[i] \in StateUpTo(n) /\ states'[i].t = F[i].t
           /\ Unconcluded' /\ spoiled' \subseteq DOMAIN table /\ backoff' \in BOOLEAN
           /\ \A i \in DOMAIN table : table[i].status # "PENDING" => rows'[i] = table[i]
<1>. DEFINE W == Patches(F, u)
<1>1. /\ DOMAIN After(F, u) = DOMAIN F /\ DOMAIN W = DOMAIN F
      /\ \A i \in DOMAIN F : /\ After(F, u)[i] \in StateUpTo(n) /\ After(F, u)[i].t = F[i].t
                             /\ W[i] \in PatchUpTo(n)
                             /\ i \notin Aged(F) => W[i].status = "PENDING"
  BY Followed DEF Followable
<1>w. Writable(table, W, n)
  <2>. HIDE DEF W
  <2>. QED BY <1>1 DEF Writable, Followable
<1>2. CASE OnTrade(table, F, u)
  <2>1. Update(table, W) /\ spoiled' = spoiled /\ states' = Only(After(F, u), DOMAIN F \ Aged(F))
    BY <1>2 DEF OnTrade
  <2>a. backoff' \in BOOLEAN
    BY <2>1 DEF Update
  <2>. HIDE DEF W
  <2>2. WriteEffect(table, W)
    BY <1>w, <2>1, UpdateEffect DEF Writable
  <2>3. /\ DOMAIN states' = DOMAIN F \ Aged(F)
        /\ \A i \in DOMAIN F \ Aged(F) : states'[i] = After(F, u)[i]
    BY <1>1, <2>1, OnlyOf
  <2>4. Open(DOMAIN states', table, W)
    BY <1>1, <2>3 DEF Open, Followable
  <2>5. Unconcluded'
    BY <1>w, <2>2, <2>4, AfterWrite, AfterWriteOpen DEF Unconcluded
  <2>6. \A i \in DOMAIN states' : states'[i] \in StateUpTo(n) /\ states'[i].t = F[i].t
    BY <1>1, <2>3
  <2>7. spoiled' \subseteq DOMAIN table /\ DOMAIN states' \subseteq DOMAIN F
    BY <2>1, <2>3
  <2>. QED BY <1>w, <2>a, <2>2, <2>5, <2>6, <2>7, AfterWrite
<1>3. CASE OnTradeRaises(table, F, u)
  <2>1. PICK k \in DOMAIN F, before \in SUBSET DOMAIN F :
            /\ Raises(table, k, W, before)
            /\ states' = [j \in DOMAIN F \ (Aged(F) \cap (before \cup {k})) |->
                            IF j \in before \cup {k} THEN After(F, u)[j] ELSE F[j]]
    BY <1>3 DEF OnTradeRaises
  <2>a. backoff' \in BOOLEAN
    BY <2>1 DEF Raises
  <2>. HIDE DEF W
  <2>2. /\ WriteEffect(table, Only(W, before)) /\ k \notin before
        /\ spoiled' = spoiled \cup (DOMAIN W \ before)
    BY <1>w, <2>1, RaisesEffect DEF Writable
  <2>3. Writable(table, Only(W, before), n)
    BY <1>1, <1>w, WritablePart
  <2>4. DOMAIN Only(W, before) = before /\ \A j \in before : Only(W, before)[j] = W[j]
    BY <1>1, OnlyOf
  <2>5. /\ DOMAIN states' = DOMAIN F \ (Aged(F) \cap (before \cup {k}))
        /\ \A j \in DOMAIN states' : states'[j] \in {After(F, u)[j], F[j]}
    BY <2>1
  <2>. DEFINE V == Only(W, before)
  <2>. HIDE DEF V
  <2>6. Open(DOMAIN states', table, V)
    BY <1>1, <2>4, <2>5 DEF Open, Followable, V
  <2>7. Unconcluded'
    BY <2>2, <2>3, <2>6, AfterWrite, AfterWriteOpen DEF Unconcluded, V
  <2>8. \A i \in DOMAIN states' : states'[i] \in StateUpTo(n) /\ states'[i].t = F[i].t
    BY <1>1, <2>5 DEF Followable
  <2>9. spoiled' \subseteq DOMAIN table
    BY <1>1, <2>2 DEF Followable
  <2>. QED BY <2>a, <2>2, <2>3, <2>5, <2>7, <2>8, <2>9, AfterWrite
<1>. QED BY <1>2, <1>3

-----------------------------------------------------------------------------
(* Trades *)

\* No step touches a row with a verdict.
FinalKept == \A i \in DOMAIN rows : Final(i) => i \in DOMAIN rows' /\ rows'[i] = rows[i]

LEMMA Received ==
    ASSUME IInv, NEW market \in {"CURVE", "AMM"}, NEW seen \in BOOLEAN, Receive(market, seen),
           UNCHANGED <<now, stored>>
    PROVE  /\ Len(trades) \in Nat /\ Len(trades') = Len(trades) + 1
           /\ TradesTyped' /\ runs
           /\ \A u \in 1 .. Len(trades) : Time(u)' = Time(u)
           /\ trades'[Len(trades')].t = now
<1>1. /\ trades \in Seq(Trade) /\ \A u \in 1 .. Len(trades) : Time(u) <= now
      /\ buffer \cup stored \subseteq 1 .. Len(trades) /\ buffer \cap stored = {}
      /\ now \in 0 .. MaxTime
  BY DEF IInv, TradesTyped, ClockTyped
<1>. DEFINE new == [t |-> now, market |-> market, seen |-> seen]
<1>2. /\ trades' = Append(trades, new) /\ new \in Trade
      /\ buffer' = buffer \cup {Len(trades')} /\ runs
  BY <1>1 DEF Receive, Trade
<1>. HIDE DEF new
<1>3. /\ Len(trades) \in Nat /\ Len(trades') = Len(trades) + 1 /\ trades' \in Seq(Trade)
      /\ \A u \in 1 .. Len(trades) : trades'[u] = trades[u]
      /\ trades'[Len(trades')] = new
  BY <1>1, <1>2
<1>4. /\ \A u \in 1 .. Len(trades) : Time(u)' = Time(u)
      /\ trades'[Len(trades')].t = now
  BY <1>3 DEF Time, new
<1>5. \A u \in 1 .. Len(trades') : Time(u)' <= now'
  <2>. SUFFICES ASSUME NEW u \in 1 .. Len(trades'), u \notin 1 .. Len(trades)
                PROVE  Time(u)' <= now'
    BY <1>1, <1>4
  <2>1. u = Len(trades')
    BY <1>3
  <2>2. Time(u)' = now /\ now \in Int
    BY <1>1, <1>4, <2>1, ConstantFacts DEF Time
  <2>. QED BY <2>2
<1>6. buffer' \cup stored' \subseteq 1 .. Len(trades') /\ buffer' \cap stored' = {}
  BY <1>1, <1>2, <1>3
<1>. QED BY <1>2, <1>3, <1>4, <1>5, <1>6 DEF TradesTyped

LEMMA TradeTimes ==
    ASSUME IInv
    PROVE  /\ Len(trades) \in Nat /\ now \in 0 .. MaxTime
           /\ \A u \in 1 .. Len(trades) : Time(u) \in 0 .. MaxTime /\ Time(u) <= now
           /\ \A i \in DOMAIN rows : i.at \in 1 .. Len(trades) /\ Time(i.at) \in 0 .. MaxTime /\ Time(i.at) <= now
<1>1. trades \in Seq(Trade) /\ \A u \in 1 .. Len(trades) : Time(u) <= now
  BY DEF IInv, TradesTyped
<1>2. \A u \in 1 .. Len(trades) : trades[u] \in Trade
  BY <1>1
<1>3. \A i \in DOMAIN rows : i.at \in 1 .. Len(trades)
  BY DEF IInv, RowsTyped, Signals
<1>. QED BY <1>1, <1>2, <1>3 DEF IInv, ClockTyped, Trade, Time

LEMMA EngineStep ==
    ASSUME IInv, NEW matched \in Matches, Engine(matched), UNCHANGED graduated
    PROVE  EngineTyped'
BY DEF IInv, EngineTyped, Engine, Matches

LEMMA ResetsStep ==
    ASSUME Resets, graduated' \in BOOLEAN
    PROVE  EngineTyped'
BY DEF EngineTyped, Resets

\* The labeler sees the trade n: with the rows and the states of the new signals
\* `whole`; `half` are those stored without a row.
Seen(n, whole, half, table, F) ==
    /\ \A i \in whole \cup half : i.at = n /\ i \in [by : Variants \cup Profiles, at : 1 .. n]
    /\ whole \cap half = {} /\ (whole \cup half) \cap (DOMAIN rows \cup unlabelled) = {}
    /\ unlabelled' = unlabelled \cup half
    /\ DOMAIN table = DOMAIN rows \cup whole
    /\ \A i \in DOMAIN rows : table[i] = rows[i]
    /\ \A i \in whole : table[i] = Blank
    /\ DOMAIN F = DOMAIN states \cup whole
    /\ \A i \in DOMAIN states : F[i] = states[i]
    /\ \A i \in whole : F[i] = Fresh(i, now)
    /\ \A i \in DOMAIN F : F[i].t = trades'[i.at].t
    /\ Writable(table, <<>>, n) /\ Followable(table, F, n)
    /\ OnTrade(table, F, n) \/ OnTradeRaises(table, F, n)

LEMMA TradeSeen ==
    ASSUME IInv, NEW matched \in Matches, CurveTrade(matched)
    PROVE  \E whole, half, table, F : Seen(Len(trades'), whole, half, table, F)
<1>. DEFINE n == Len(trades')
            new == {[by |-> v, at |-> n] : v \in Emitted(matched)}
<1>1. /\ Len(trades) \in Nat /\ n = Len(trades) + 1 /\ TradesTyped' /\ runs
      /\ \A k \in 1 .. Len(trades) : Time(k)' = Time(k)
      /\ trades'[n].t = now
  BY Received DEF CurveTrade
<1>2. PICK whole \in SUBSET new, half \in SUBSET new :
        LET table == [i \in DOMAIN rows \cup whole |-> IF i \in whole THEN Blank ELSE rows[i]]
            F == [i \in DOMAIN states \cup whole |->
                    IF i \in whole THEN Fresh(i, now) ELSE states[i]]
        IN /\ whole \cap half = {} /\ unlabelled' = unlabelled \cup half
           /\ OnTrade(table, F, n) \/ OnTradeRaises(table, F, n)
  BY DEF CurveTrade, Recorded
<1>. DEFINE table == [i \in DOMAIN rows \cup whole |-> IF i \in whole THEN Blank ELSE rows[i]]
            F == [i \in DOMAIN states \cup whole |-> IF i \in whole THEN Fresh(i, now) ELSE states[i]]
<1>3. \A i \in new : i.at = n /\ i \in [by : Variants \cup Profiles, at : 1 .. n]
  BY <1>1, ConstantFacts DEF Emitted, Matches
<1>. HIDE DEF new
<1>4. \A i \in DOMAIN rows \cup unlabelled : i.at \in 1 .. Len(trades) /\ i \notin new
  BY <1>1, <1>3 DEF IInv, RowsTyped, Signals
<1>n. n \in Nat /\ n \in 1 .. n /\ Len(trades) <= n
  BY <1>1
<1>. HIDE DEF n
<1>5. /\ DOMAIN table = DOMAIN rows \cup whole
      /\ \A i \in DOMAIN rows : table[i] = rows[i]
      /\ \A i \in whole : table[i] = Blank
  BY <1>4
<1>6. /\ DOMAIN F = DOMAIN states \cup whole
      /\ \A i \in DOMAIN states : F[i] = states[i]
      /\ \A i \in whole : F[i] = Fresh(i, now)
  BY <1>4 DEF IInv, StatesTyped
<1>. HIDE DEF table, F
<1>7. Writable(table, <<>>, n)
  <2>1. \A i \in DOMAIN table : table[i] \in PatchUpTo(n)
    BY <1>1, <1>n, <1>5, Grows, BlankType DEF IInv, RowsTyped
  <2>2. \A i \in DOMAIN patches : patches[i] \in PatchUpTo(n) /\ table[i].status = "PENDING"
    BY <1>1, <1>n, <1>5, Grows DEF IInv, PatchesTyped, Unconcluded
  <2>3. DOMAIN patches \subseteq DOMAIN table
    BY <1>5 DEF IInv, PatchesTyped
  <2>. QED BY <2>1, <2>2, <2>3 DEF Writable
<1>8. \A i \in DOMAIN F : F[i] \in StateUpTo(n) /\ F[i].t <= now /\ F[i].t = Time(i.at)'
  <2>1. ASSUME NEW i \in DOMAIN states
        PROVE  F[i] \in StateUpTo(n) /\ F[i].t <= now /\ F[i].t = Time(i.at)'
    <3>1. i \in DOMAIN rows /\ states[i] \in StateUpTo(Len(trades)) /\ states[i].t = Time(i.at)
      BY DEF IInv, StatesTyped
    <3>2. i.at \in 1 .. Len(trades) /\ Time(i.at) <= now
      BY <3>1, TradeTimes
    <3>. QED BY <1>1, <1>n, <1>6, <3>1, <3>2, Grows
  <2>2. ASSUME NEW i \in whole
        PROVE  F[i] \in StateUpTo(n) /\ F[i].t <= now /\ F[i].t = Time(i.at)'
    <3>1. i.at = n /\ now \in 0 .. MaxTime
      BY <1>3, TradeTimes
    <3>2. now <= now
      BY <3>1, ConstantFacts
    <3>3. F[i] \in StateUpTo(n) /\ F[i].t = now
      BY <1>n, <1>6, <3>1, FreshType
    <3>4. Time(i.at)' = now
      BY <1>1, <3>1 DEF Time
    <3>. QED BY <3>2, <3>3, <3>4
  <2>. QED BY <1>6, <2>1, <2>2
<1>9. Followable(table, F, n)
  <2>1. DOMAIN F \subseteq DOMAIN table
    BY <1>5, <1>6 DEF IInv, StatesTyped
  <2>2. \A i \in DOMAIN states : /\ table[i].status = "PENDING"
                                 /\ i \in DOMAIN patches => patches[i].status = "PENDING"
    BY <1>5 DEF IInv, StatesTyped, Unconcluded
  <2>3. \A i \in whole : table[i].status = "PENDING" /\ i \notin DOMAIN patches
    BY <1>4, <1>5, <1>n, BlankType DEF IInv, PatchesTyped
  <2>. QED BY <1>6, <1>8, <2>1, <2>2, <2>3 DEF Followable
<1>10. OnTrade(table, F, n) \/ OnTradeRaises(table, F, n)
  BY <1>2 DEF table, F
<1>11. /\ \A i \in whole \cup half : i.at = n /\ i \in [by : Variants \cup Profiles, at : 1 .. n]
       /\ whole \cap half = {} /\ (whole \cup half) \cap (DOMAIN rows \cup unlabelled) = {}
       /\ unlabelled' = unlabelled \cup half
  BY <1>2, <1>3, <1>4
<1>12. \A i \in DOMAIN F : F[i].t = trades'[i.at].t
  BY <1>8 DEF Time
<1>13. Seen(n, whole, half, table, F)
  BY <1>5, <1>6, <1>7, <1>9, <1>10, <1>11, <1>12 DEF Seen
<1>. QED BY <1>13 DEF n

LEMMA CurveTradeStep ==
    ASSUME IInv, NEW matched \in Matches, CurveTrade(matched)
    PROVE  IInv' /\ FinalKept
<1>. DEFINE n == Len(trades')
<1>1. /\ Len(trades) \in Nat /\ n = Len(trades) + 1 /\ TradesTyped' /\ runs
      /\ \A k \in 1 .. Len(trades) : Time(k)' = Time(k)
      /\ trades'[n].t = now
  BY Received DEF CurveTrade
<1>2. PICK whole, half, table, F : Seen(n, whole, half, table, F)
  BY TradeSeen
<1>3. n \in Nat /\ n \in 1 .. n /\ Len(trades) <= n
  BY <1>1
<1>. HIDE DEF n
<1>4. /\ \A i \in whole \cup half : i \in [by : Variants \cup Profiles, at : 1 .. n]
      /\ whole \cap half = {} /\ (whole \cup half) \cap (DOMAIN rows \cup unlabelled) = {}
      /\ unlabelled' = unlabelled \cup half
      /\ DOMAIN table = DOMAIN rows \cup whole /\ \A i \in DOMAIN rows : table[i] = rows[i]
  BY <1>2 DEF Seen
<1>5. /\ \A i \in DOMAIN F : F[i].t = trades'[i.at].t
      /\ Writable(table, <<>>, n) /\ Followable(table, F, n)
      /\ OnTrade(table, F, n) \/ OnTradeRaises(table, F, n)
  BY <1>2 DEF Seen
<1>6. spoiled \subseteq DOMAIN table /\ backoff \in BOOLEAN /\ now \in 0 .. MaxTime
  BY <1>4, TradeTimes DEF IInv, RestTyped
<1>7. /\ DOMAIN rows' = DOMAIN table /\ \A i \in DOMAIN table : rows'[i] \in PatchUpTo(n)
      /\ DOMAIN patches' \subseteq DOMAIN table
      /\ \A i \in DOMAIN patches' : patches'[i] \in PatchUpTo(n)
      /\ DOMAIN states' \subseteq DOMAIN F
      /\ \A i \in DOMAIN states' : states'[i] \in StateUpTo(n) /\ states'[i].t = F[i].t
      /\ Unconcluded' /\ spoiled' \subseteq DOMAIN table /\ backoff' \in BOOLEAN
      /\ \A i \in DOMAIN table : table[i].status # "PENDING" => rows'[i] = table[i]
  BY <1>3, <1>5, <1>6, Observed
<1>8. RowsTyped'
  <2>1. DOMAIN rows' \cup unlabelled' \subseteq Signals'
    <3>1. Signals \subseteq Signals'
      BY <1>1, <1>3 DEF Signals, n
    <3>2. whole \cup half \subseteq Signals'
      BY <1>4 DEF Signals, n
    <3>. QED BY <1>4, <1>7, <3>1, <3>2 DEF IInv, RowsTyped
  <2>2. DOMAIN rows' \cap unlabelled' = {}
    BY <1>4, <1>7 DEF IInv, RowsTyped
  <2>. QED BY <1>7, <2>1, <2>2 DEF RowsTyped, n
<1>9. PatchesTyped' /\ StatesTyped'
  BY <1>5, <1>7 DEF PatchesTyped, StatesTyped, Followable, Time, n
<1>10. EngineTyped'
  BY EngineStep DEF CurveTrade
<1>11. ClockTyped' /\ RestTyped' /\ Down'
  BY <1>1, <1>7 DEF IInv, ClockTyped, RestTyped, Down, CurveTrade
<1>12. FinalKept
  BY <1>4, <1>7 DEF FinalKept, Final
<1>. QED BY <1>1, <1>7, <1>8, <1>9, <1>10, <1>11, <1>12 DEF IInv

\* A step that leaves the labels alone, and no trade known behind them.
LEMMA LabelsAlone ==
    ASSUME IInv, UNCHANGED labelVars, Len(trades) <= Len(trades'), Len(trades') \in Nat,
           \A u \in 1 .. Len(trades) : Time(u)' = Time(u)
    PROVE  RowsTyped' /\ PatchesTyped' /\ StatesTyped' /\ Unconcluded' /\ FinalKept
<1>1. Len(trades) \in Nat
  BY TradeTimes
<1>2. Signals \subseteq Signals'
  BY <1>1 DEF Signals
<1>3. RowsTyped'
  BY <1>1, <1>2, Grows DEF IInv, RowsTyped, labelVars
<1>4. PatchesTyped'
  BY <1>1, Grows DEF IInv, PatchesTyped, labelVars
<1>5. StatesTyped'
  <2>. SUFFICES ASSUME NEW i \in DOMAIN states
                PROVE  states[i] \in StateUpTo(Len(trades')) /\ states[i].t = Time(i.at)'
    BY DEF IInv, StatesTyped, labelVars
  <2>1. i \in DOMAIN rows /\ states[i] \in StateUpTo(Len(trades)) /\ states[i].t = Time(i.at)
    BY DEF IInv, StatesTyped
  <2>. QED BY <1>1, <2>1, TradeTimes, Grows
<1>6. Unconcluded' /\ FinalKept
  BY DEF IInv, Unconcluded, FinalKept, labelVars
<1>. QED BY <1>3, <1>4, <1>5, <1>6

LEMMA UnseenTradeStep == ASSUME IInv, UnseenTrade PROVE IInv' /\ FinalKept
<1>1. Receive(chain, FALSE) /\ chain \in {"CURVE", "AMM"} /\ UNCHANGED <<now, stored>>
  BY DEF UnseenTrade, IInv, ClockTyped
<1>2. /\ Len(trades) \in Nat /\ Len(trades') = Len(trades) + 1 /\ TradesTyped' /\ runs
      /\ \A u \in 1 .. Len(trades) : Time(u)' = Time(u)
  BY <1>1, Received
<1>3. RowsTyped' /\ PatchesTyped' /\ StatesTyped' /\ Unconcluded' /\ FinalKept
  BY <1>2, LabelsAlone DEF UnseenTrade
<1>4. EngineTyped'
  BY ResetsStep DEF UnseenTrade, Learned, IInv, EngineTyped, engineVars
<1>5. ClockTyped' /\ RestTyped' /\ Down'
  BY <1>2 DEF IInv, ClockTyped, RestTyped, Down, UnseenTrade, labelVars
<1>. QED BY <1>2, <1>3, <1>4, <1>5 DEF IInv

LEMMA AmmTradeStep == ASSUME IInv, AmmTrade PROVE IInv' /\ FinalKept
<1>1. /\ Len(trades) \in Nat /\ Len(trades') = Len(trades) + 1 /\ TradesTyped' /\ runs
      /\ \A u \in 1 .. Len(trades) : Time(u)' = Time(u)
  BY Received DEF AmmTrade
<1>2. RowsTyped' /\ PatchesTyped' /\ StatesTyped' /\ Unconcluded' /\ FinalKept
  BY <1>1, LabelsAlone DEF AmmTrade
<1>3. EngineTyped'
  BY ResetsStep DEF AmmTrade, Learned, IInv, EngineTyped, engineVars
<1>4. ClockTyped' /\ RestTyped' /\ Down'
  BY <1>1 DEF IInv, ClockTyped, RestTyped, Down, AmmTrade, labelVars
<1>. QED BY <1>1, <1>2, <1>3, <1>4 DEF IInv

-----------------------------------------------------------------------------
(* Maintenance *)

\* Between two trades.
LEMMA SameTrades ==
    ASSUME IInv, UNCHANGED <<now, trades, buffer, stored>>
    PROVE  TradesTyped' /\ Len(trades') = Len(trades) /\ Signals' = Signals
           /\ \A u : Time(u)' = Time(u)
BY DEF IInv, TradesTyped, Signals, Time

LEMMA CleanupStep == ASSUME IInv, Cleanup PROVE IInv' /\ FinalKept
<1>1. RowsTyped' /\ PatchesTyped' /\ StatesTyped' /\ Unconcluded' /\ FinalKept /\ TradesTyped'
  BY SameTrades, TradeTimes, LabelsAlone DEF Cleanup
<1>2. EngineTyped'
  BY ResetsStep DEF Cleanup, IInv, EngineTyped
<1>3. ClockTyped' /\ RestTyped' /\ Down'
  BY DEF IInv, ClockTyped, RestTyped, Down, Cleanup, labelVars
<1>. QED BY <1>1, <1>2, <1>3 DEF IInv

LEMMA GraduateStep == ASSUME IInv, Graduate PROVE IInv' /\ FinalKept
<1>1. RowsTyped' /\ PatchesTyped' /\ StatesTyped' /\ Unconcluded' /\ FinalKept /\ TradesTyped'
  BY SameTrades, TradeTimes, LabelsAlone DEF Graduate
<1>2. EngineTyped'
  BY ResetsStep DEF Graduate, IInv, EngineTyped, engineVars
<1>3. ClockTyped' /\ RestTyped' /\ Down'
  BY DEF IInv, ClockTyped, RestTyped, Down, Graduate, labelVars
<1>. QED BY <1>1, <1>2, <1>3 DEF IInv

LEMMA IdleStep ==
    ASSUME IInv, BackoffEnds \/ Lock \/ Unlock \/ TimePasses \/ UNCHANGED vars
    PROVE  IInv' /\ FinalKept
<1>1. UNCHANGED <<chain, trades, buffer, stored, labelVars, engineVars, runs, spoiled>>
  BY DEF BackoffEnds, Lock, Unlock, TimePasses, vars
<1>2. now' \in 0 .. MaxTime /\ now <= now'
  BY ConstantFacts DEF BackoffEnds, Lock, Unlock, TimePasses, vars, IInv, ClockTyped
<1>3. locked' \in BOOLEAN /\ backoff' \in BOOLEAN
  BY DEF BackoffEnds, Lock, Unlock, TimePasses, vars, IInv, RestTyped
<1>4. TradesTyped' /\ Len(trades') = Len(trades) /\ \A u : Time(u)' = Time(u)
  <2>1. \A u : Time(u)' = Time(u)
    BY <1>1 DEF Time
  <2>2. \A u \in 1 .. Len(trades) : Time(u) <= now'
    BY <1>2, TradeTimes, ConstantFacts
  <2>. QED BY <1>1, <2>1, <2>2 DEF IInv, TradesTyped
<1>5. RowsTyped' /\ PatchesTyped' /\ StatesTyped' /\ Unconcluded' /\ FinalKept
  BY <1>1, <1>4, TradeTimes, LabelsAlone
<1>6. ClockTyped' /\ EngineTyped' /\ RestTyped' /\ Down'
  BY <1>1, <1>2, <1>3 DEF IInv, ClockTyped, EngineTyped, RestTyped, Down, labelVars, engineVars
<1>. QED BY <1>4, <1>5, <1>6 DEF IInv

\* What is left to check once rows and patches have been written.
LEMMA WrittenStep ==
    ASSUME IInv, NEW W, Writable(rows, W, Len(trades)), WriteEffect(rows, W),
           UNCHANGED <<now, chain, trades, buffer, stored, unlabelled, engineVars>>,
           DOMAIN states' \subseteq DOMAIN rows,
           \A i \in DOMAIN states' : states'[i] \in StateUpTo(Len(trades)) /\ states'[i].t = Time(i.at),
           Open(DOMAIN states', rows, W),
           runs' = TRUE, backoff' \in BOOLEAN, UNCHANGED locked, spoiled' \subseteq DOMAIN rows
    PROVE  IInv' /\ FinalKept
<1>1. /\ DOMAIN rows' = DOMAIN rows /\ \A i \in DOMAIN rows : rows'[i] \in PatchUpTo(Len(trades))
      /\ DOMAIN patches' \subseteq DOMAIN rows
      /\ \A i \in DOMAIN patches' : /\ patches'[i] \in PatchUpTo(Len(trades))
                                    /\ rows'[i].status = "PENDING"
      /\ \A i \in DOMAIN rows : rows[i].status # "PENDING" => rows'[i] = rows[i]
  BY TradeTimes, AfterWrite
<1>2. \A i \in DOMAIN states' : /\ i \in DOMAIN rows' /\ rows'[i].status = "PENDING"
                                /\ i \in DOMAIN patches' => patches'[i].status = "PENDING"
  BY TradeTimes, AfterWriteOpen
<1>3. TradesTyped' /\ Len(trades') = Len(trades) /\ Signals' = Signals /\ \A u : Time(u)' = Time(u)
  BY SameTrades
<1>4. RowsTyped'
  BY <1>1, <1>3 DEF IInv, RowsTyped
<1>5. PatchesTyped' /\ StatesTyped'
  BY <1>1, <1>3 DEF PatchesTyped, StatesTyped
<1>6. Unconcluded'
  BY <1>1, <1>2 DEF Unconcluded
<1>7. ClockTyped' /\ EngineTyped' /\ RestTyped' /\ Down'
  BY <1>1 DEF IInv, ClockTyped, EngineTyped, RestTyped, Down, engineVars
<1>8. FinalKept
  BY <1>1 DEF FinalKept, Final
<1>. QED BY <1>3, <1>4, <1>5, <1>6, <1>7, <1>8 DEF IInv

\* What advanceTime() concludes, and the patches it writes.
Due == {i \in DOMAIN states : Overdue(i)}
Concluded == [i \in Due |-> Covered(Backfilled(states[i]))]
LastPatches == [i \in Due |-> Changes(states[i], Concluded[i], TRUE)]

LEMMA DueTypes ==
    ASSUME IInv
    PROVE  /\ \A i \in DOMAIN states :
                 /\ i \in DOMAIN rows /\ states[i] \in StateUpTo(Len(trades)) /\ states[i].t = Time(i.at)
                 /\ rows[i].status = "PENDING"
                 /\ i \in DOMAIN patches => patches[i].status = "PENDING"
           /\ \A i \in Due : Concluded[i] \in StateUpTo(Len(trades)) /\ Concluded[i].t = states[i].t
           /\ DOMAIN LastPatches = Due /\ \A i \in Due : LastPatches[i] \in PatchUpTo(Len(trades))
           /\ Writable(rows, LastPatches, Len(trades))
<1>. DEFINE n == Len(trades)
<1>1. n \in Nat
  BY TradeTimes
<1>2. \A i \in DOMAIN states : /\ i \in DOMAIN rows /\ states[i] \in StateUpTo(n) /\ states[i].t = Time(i.at)
                               /\ rows[i].status = "PENDING"
                               /\ i \in DOMAIN patches => patches[i].status = "PENDING"
  BY DEF IInv, StatesTyped, Unconcluded
<1>3. \A i \in Due : Concluded[i] \in StateUpTo(n) /\ Concluded[i].t = states[i].t
  BY <1>1, <1>2, BackfilledType, CoveredType DEF Due, Concluded
<1>4. DOMAIN LastPatches = Due /\ \A i \in Due : i \in DOMAIN states /\ LastPatches[i] \in PatchUpTo(n)
  BY <1>1, <1>2, <1>3, ChangesType DEF Due, LastPatches
<1>5. Writable(rows, LastPatches, n)
  BY <1>2, <1>4 DEF Writable, IInv, RowsTyped, PatchesTyped, Unconcluded
<1>. QED BY <1>2, <1>3, <1>4, <1>5

\* Of the patches, V is served: all of them, or those before the one that raised.
\* The signals of the others are followed on, and spoiled.
Advanced(V) ==
    /\ DOMAIN V \subseteq Due /\ \A i \in DOMAIN V : V[i] = LastPatches[i]
    /\ Writable(rows, V, Len(trades)) /\ WriteEffect(rows, V)
    /\ DOMAIN states' = DOMAIN states \ DOMAIN V /\ spoiled' = spoiled \cup (Due \ DOMAIN V)
    /\ \A i \in DOMAIN states' : states'[i] = states[i] \/ (i \in Due /\ states'[i] = Concluded[i])

LEMMA AdvanceTimeServes == ASSUME IInv, AdvanceTime PROVE \E V : Advanced(V)
<1>. DEFINE n == Len(trades)
<1>1. n \in Nat /\ DOMAIN LastPatches = Due /\ Writable(rows, LastPatches, n)
  BY TradeTimes, DueTypes
<1>2. \/ /\ Update(rows, LastPatches)
         /\ states' = [i \in DOMAIN states \ Due |-> states[i]]
         /\ UNCHANGED spoiled
      \/ \E i \in Due : \E before \in SUBSET Due :
            /\ Raises(rows, i, LastPatches, before)
            /\ states' = [j \in DOMAIN states \ before |-> IF j = i THEN Concluded[j] ELSE states[j]]
  BY DEF AdvanceTime, Due, Concluded, LastPatches
<1>3. CASE /\ Update(rows, LastPatches)
           /\ states' = [i \in DOMAIN states \ Due |-> states[i]]
           /\ UNCHANGED spoiled
  <2>1. WriteEffect(rows, LastPatches)
    BY <1>1, <1>3, UpdateEffect DEF Writable
  <2>2. Advanced(LastPatches)
    BY <1>1, <1>3, <2>1 DEF Advanced
  <2>. QED BY <2>2
<1>4. ASSUME NEW k \in Due, NEW before \in SUBSET Due, Raises(rows, k, LastPatches, before),
             states' = [j \in DOMAIN states \ before |-> IF j = k THEN Concluded[j] ELSE states[j]]
      PROVE  \E V : Advanced(V)
  <2>. DEFINE V == Only(LastPatches, before)
  <2>1. WriteEffect(rows, V) /\ spoiled' = spoiled \cup (DOMAIN LastPatches \ before)
    BY <1>1, <1>4, RaisesEffect DEF Writable
  <2>2. DOMAIN V = before /\ \A i \in before : V[i] = LastPatches[i]
    BY <1>1, OnlyOf
  <2>3. Writable(rows, V, n)
    BY <1>1, WritablePart
  <2>4. /\ DOMAIN states' = DOMAIN states \ before
        /\ \A j \in DOMAIN states' : states'[j] = states[j] \/ (j \in Due /\ states'[j] = Concluded[j])
    BY <1>4
  <2>. HIDE DEF V
  <2>5. Advanced(V)
    BY <1>1, <2>1, <2>2, <2>3, <2>4 DEF Advanced
  <2>. QED BY <2>5
<1>. QED BY <1>2, <1>3, <1>4

LEMMA AdvanceTimeStep == ASSUME IInv, AdvanceTime PROVE IInv' /\ FinalKept
<1>. DEFINE n == Len(trades)
<1>1. PICK V : Advanced(V)
  BY AdvanceTimeServes
<1>2. /\ \A i \in DOMAIN states : /\ i \in DOMAIN rows /\ states[i] \in StateUpTo(n) /\ states[i].t = Time(i.at)
                                  /\ rows[i].status = "PENDING"
                                  /\ i \in DOMAIN patches => patches[i].status = "PENDING"
      /\ \A i \in Due : Concluded[i] \in StateUpTo(n) /\ Concluded[i].t = states[i].t
  BY DueTypes
<1>3. runs /\ UNCHANGED <<now, chain, trades, buffer, stored, unlabelled, engineVars, runs, locked>>
  BY DEF AdvanceTime
<1>4. runs' = TRUE /\ spoiled' \subseteq DOMAIN rows
  BY <1>1, <1>2, <1>3 DEF Advanced, Due, IInv, RestTyped
<1>5. backoff' \in BOOLEAN
  BY DEF AdvanceTime, Update, Raises, IInv, RestTyped
<1>6. \A i \in DOMAIN states' : /\ i \in DOMAIN rows /\ states'[i] \in StateUpTo(n)
                                /\ states'[i].t = Time(i.at)
  BY <1>1, <1>2 DEF Advanced
<1>7. Open(DOMAIN states', rows, V)
  BY <1>1, <1>2 DEF Advanced, Open
<1>8. Writable(rows, V, n) /\ WriteEffect(rows, V) /\ DOMAIN states' \subseteq DOMAIN rows
  BY <1>1, <1>6 DEF Advanced
<1>. QED BY <1>3, <1>4, <1>5, <1>6, <1>7, <1>8, WrittenStep

\* The patches that are applied are gone, the others stay.
LEMMA AppliedStep ==
    ASSUME IInv, NEW done \in SUBSET DOMAIN patches,
           DOMAIN rows' = DOMAIN rows,
           \A i \in DOMAIN rows : rows'[i] = IF i \in done THEN Merge(rows[i], patches[i]) ELSE rows[i],
           DOMAIN patches' = DOMAIN patches \ done,
           \A i \in DOMAIN patches' : patches'[i] = patches[i],
           UNCHANGED <<trades, unlabelled, states>>
    PROVE  RowsTyped' /\ PatchesTyped' /\ StatesTyped' /\ Unconcluded' /\ FinalKept
<1>. DEFINE n == Len(trades)
<1>1. n \in Nat /\ Signals' = Signals /\ \A u : Time(u)' = Time(u)
  BY TradeTimes DEF Signals, Time
<1>2. /\ \A i \in DOMAIN rows : rows[i] \in PatchUpTo(n)
      /\ \A i \in DOMAIN patches : /\ i \in DOMAIN rows /\ patches[i] \in PatchUpTo(n)
                                   /\ rows[i].status = "PENDING"
  BY DEF IInv, RowsTyped, PatchesTyped, Unconcluded
<1>. HIDE DEF n
<1>3. \A i \in done : /\ rows'[i] \in PatchUpTo(n)
                      /\ patches[i].status = "PENDING" => rows'[i].status = "PENDING"
  BY <1>1, <1>2, MergeType
<1>4. RowsTyped'
  BY <1>1, <1>2, <1>3 DEF IInv, RowsTyped, n
<1>5. PatchesTyped' /\ StatesTyped'
  BY <1>1, <1>2 DEF IInv, PatchesTyped, StatesTyped, n
<1>6. Unconcluded'
  BY <1>2, <1>3 DEF IInv, StatesTyped, Unconcluded
<1>7. FinalKept
  BY <1>2 DEF FinalKept, Final
<1>. QED BY <1>4, <1>5, <1>6, <1>7

LEMMA FlushStep == ASSUME IInv, Flush PROVE IInv' /\ FinalKept
<1>1. UNCHANGED <<now, chain, trades, unlabelled, states, engineVars, runs, locked, spoiled>> /\ runs
  BY DEF Flush
<1>2. CASE backoff' = TRUE /\ UNCHANGED <<rows, patches, stored, buffer>>
  <2>1. RowsTyped' /\ PatchesTyped' /\ StatesTyped' /\ Unconcluded' /\ FinalKept /\ TradesTyped'
    BY <1>1, <1>2, SameTrades, TradeTimes, LabelsAlone DEF labelVars
  <2>2. ClockTyped' /\ EngineTyped' /\ RestTyped' /\ Down'
    BY <1>1, <1>2 DEF IInv, ClockTyped, EngineTyped, RestTyped, Down, engineVars
  <2>. QED BY <2>1, <2>2 DEF IInv
<1>3. CASE /\ rows' = Written(rows, patches) /\ patches' = <<>>
           /\ stored' = stored \cup buffer /\ buffer' = {}
           /\ UNCHANGED backoff
  <2>1. /\ DOMAIN rows' = DOMAIN rows /\ DOMAIN patches' = {}
        /\ \A i \in DOMAIN rows :
              rows'[i] = IF i \in DOMAIN patches THEN Merge(rows[i], patches[i]) ELSE rows[i]
    BY <1>3, WrittenEffect
  <2>2. RowsTyped' /\ PatchesTyped' /\ StatesTyped' /\ Unconcluded' /\ FinalKept
    BY <1>1, <2>1, AppliedStep
  <2>3. TradesTyped'
    BY <1>1, <1>3 DEF IInv, TradesTyped, Time
  <2>4. ClockTyped' /\ EngineTyped' /\ RestTyped' /\ Down'
    BY <1>1, <1>3, <2>1 DEF IInv, ClockTyped, EngineTyped, RestTyped, Down, engineVars
  <2>. QED BY <2>2, <2>3, <2>4 DEF IInv
<1>. QED BY <1>2, <1>3 DEF Flush

LEMMA FlushRaisesStep == ASSUME IInv, FlushRaises PROVE IInv' /\ FinalKept
<1>1. /\ UNCHANGED <<now, chain, trades, buffer, stored, unlabelled, states, engineVars, runs, locked, spoiled>>
      /\ runs /\ backoff' = TRUE
  BY DEF FlushRaises
<1>2. PICK done \in SUBSET DOMAIN patches :
          /\ rows' = Written(rows, Only(patches, done))
          /\ patches' = Only(patches, DOMAIN patches \ done)
  BY DEF FlushRaises
<1>3. /\ DOMAIN patches' = DOMAIN patches \ done
      /\ \A i \in DOMAIN patches \ done : patches'[i] = patches[i]
  BY <1>2, OnlyOf
<1>4. DOMAIN Only(patches, done) = done /\ \A i \in done : Only(patches, done)[i] = patches[i]
  BY OnlyOf
<1>5. /\ DOMAIN rows' = DOMAIN rows
      /\ \A i \in DOMAIN rows : rows'[i] = IF i \in done THEN Merge(rows[i], patches[i]) ELSE rows[i]
  BY <1>2, <1>4, WrittenEffect
<1>6. RowsTyped' /\ PatchesTyped' /\ StatesTyped' /\ Unconcluded' /\ FinalKept
  BY <1>1, <1>3, <1>5, AppliedStep
<1>7. TradesTyped'
  BY <1>1, SameTrades
<1>8. ClockTyped' /\ EngineTyped' /\ RestTyped' /\ Down'
  BY <1>1, <1>5 DEF IInv, ClockTyped, EngineTyped, RestTyped, Down, engineVars
<1>. QED BY <1>6, <1>7, <1>8 DEF IInv

-----------------------------------------------------------------------------
(* Stop, kill, start *)

LEMMA GoneStep == ASSUME IInv, Crash \/ Stop PROVE IInv' /\ FinalKept
<1>1. /\ UNCHANGED <<now, chain, trades, unlabelled, graduated, locked, spoiled>>
      /\ runs' = FALSE /\ buffer' = {} /\ states' = <<>> /\ patches' = <<>> /\ backoff' = FALSE /\ Resets
  BY DEF Crash, Stop, Gone
<1>2. DOMAIN states' = {} /\ DOMAIN patches' = {}
  BY <1>1
<1>3. stored' \in {stored, stored \cup buffer}
  BY DEF Crash, Stop
<1>4. TradesTyped'
  BY <1>1, <1>3 DEF IInv, TradesTyped, Time
<1>5. EngineTyped' /\ ClockTyped'
  BY <1>1, ResetsStep DEF IInv, EngineTyped, ClockTyped
<1>6. Signals' = Signals /\ Len(trades) \in Nat
  BY <1>1, TradeTimes DEF Signals
<1>7. /\ DOMAIN rows' = DOMAIN rows
      /\ \A i \in DOMAIN rows : /\ rows'[i] \in PatchUpTo(Len(trades))
                                /\ Final(i) => rows'[i] = rows[i]
  <2>1. CASE rows' = rows
    BY <2>1 DEF IInv, RowsTyped
  <2>2. CASE rows' = Written(rows, patches)
    <3>1. /\ DOMAIN rows' = DOMAIN rows
          /\ \A i \in DOMAIN rows :
                rows'[i] = IF i \in DOMAIN patches THEN Merge(rows[i], patches[i]) ELSE rows[i]
      BY <2>2, WrittenEffect
    <3>2. /\ \A i \in DOMAIN rows : rows[i] \in PatchUpTo(Len(trades))
          /\ \A i \in DOMAIN patches : patches[i] \in PatchUpTo(Len(trades)) /\ ~Final(i)
      BY DEF IInv, RowsTyped, PatchesTyped, Unconcluded, Final
    <3>. QED BY <1>6, <3>1, <3>2, MergeType
  <2>. QED BY <2>1, <2>2 DEF Crash, Stop
<1>8. RowsTyped' /\ FinalKept
  BY <1>1, <1>6, <1>7 DEF IInv, RowsTyped, FinalKept
<1>9. PatchesTyped' /\ StatesTyped' /\ Unconcluded' /\ Down'
  BY <1>1, <1>2 DEF PatchesTyped, StatesTyped, Unconcluded, Down
<1>10. RestTyped'
  BY <1>1, <1>7 DEF IInv, RestTyped
<1>. QED BY <1>4, <1>5, <1>8, <1>9, <1>10 DEF IInv

LEMMA RestoredType ==
    ASSUME IInv, NEW i \in DOMAIN rows
    PROVE  Restored(i) \in StateUpTo(Len(trades)) /\ Restored(i).t = Time(i.at)
<1>. DEFINE t == Time(i.at)
            window == {u \in stored : /\ trades[u].market = "CURVE"
                                      /\ Time(u) >= t /\ Time(u) <= t + MaxHorizon + MaxLag}
            n == Len(trades)
            samples == {Sample(i.at, 0)} \cup {Sample(u, Time(u) - t) : u \in window}
<1>1. n \in Nat /\ i.at \in 1 .. n /\ t \in 0 .. MaxTime
      /\ \A u \in 1 .. n : Time(u) \in 0 .. MaxTime
  BY TradeTimes
<1>2. stored \subseteq 1 .. n /\ rows[i] \in PatchUpTo(n)
  BY DEF IInv, TradesTyped, RowsTyped
<1>3. Sample(i.at, 0) \in SampleUpTo(n)
  BY <1>1, ConstantFacts DEF Sample, SampleUpTo
<1>4. \A u \in window : Sample(u, Time(u) - t) \in SampleUpTo(n)
  <2>. SUFFICES ASSUME NEW u \in window PROVE Sample(u, Time(u) - t) \in SampleUpTo(n)
    OBVIOUS
  <2>1. u \in 1 .. n /\ Time(u) >= t /\ Time(u) \in 0 .. MaxTime
    BY <1>1, <1>2
  <2>2. Time(u) - t \in 0 .. MaxTime
    BY <1>1, <2>1, ConstantFacts
  <2>. QED BY <2>1, <2>2 DEF Sample, SampleUpTo
<1>5. samples \in SUBSET SampleUpTo(n)
  <2>. HIDE DEF window
  <2>. QED BY <1>3, <1>4
<1>6. Restored(i) = [t |-> t, ret |-> rows[i].ret, exc |-> rows[i].exc, samples |-> samples]
  BY DEF Restored
<1>. HIDE DEF t, samples
<1>. QED BY <1>1, <1>2, <1>5, <1>6 DEF StateUpTo, PatchUpTo, t

\* What restore() reads, and the patches it writes for what the stored trades give.
Young == {i \in DOMAIN rows : Restorable(i)}
FirstPatches == [i \in Young |-> Changes(Restored(i), Backfilled(Restored(i)), FALSE)]

StartServes(V) ==
    /\ DOMAIN V = {i \in Young : FirstPatches[i] # Blank} /\ \A i \in DOMAIN V : V[i] = FirstPatches[i]
    /\ Writable(rows, V, Len(trades)) /\ WriteEffect(rows, V)
    /\ DOMAIN patches = {} /\ DOMAIN states' = Young
    /\ \A i \in Young : states'[i] = Backfilled(Restored(i))

LEMMA YoungTypes ==
    ASSUME IInv, NEW i \in Young
    PROVE  /\ i \in DOMAIN rows /\ rows[i].status = "PENDING"
           /\ Restored(i) \in StateUpTo(Len(trades)) /\ Restored(i).t = Time(i.at)
           /\ Backfilled(Restored(i)) \in StateUpTo(Len(trades)) /\ Backfilled(Restored(i)).t = Time(i.at)
           /\ FirstPatches[i] \in PatchUpTo(Len(trades)) /\ FirstPatches[i].status = "PENDING"
<1>1. i \in DOMAIN rows /\ rows[i].status = "PENDING" /\ Len(trades) \in Nat
  BY TradeTimes DEF Young, Restorable
<1>2. Restored(i) \in StateUpTo(Len(trades)) /\ Restored(i).t = Time(i.at)
  BY <1>1, RestoredType
<1>3. Backfilled(Restored(i)) \in StateUpTo(Len(trades)) /\ Backfilled(Restored(i)).t = Time(i.at)
  BY <1>1, <1>2, BackfilledType
<1>4. FirstPatches[i] = Changes(Restored(i), Backfilled(Restored(i)), FALSE)
  BY DEF FirstPatches
<1>5. FirstPatches[i].status = "PENDING"
  BY <1>4 DEF Changes
<1>. QED BY <1>1, <1>2, <1>3, <1>4, <1>5, ChangesType

LEMMA StartWrites == ASSUME IInv, Start PROVE \E V : StartServes(V)
<1>. DEFINE some == {i \in Young : FirstPatches[i] # Blank}
            V == Only(FirstPatches, some)
<1>1. Update(rows, V) /\ states' = [i \in Young |-> Backfilled(Restored(i))]
  <2>. DEFINE read == [i \in Young |-> Restored(i)]
              W == [i \in Young |-> Changes(read[i], Backfilled(read[i]), FALSE)]
  <2>1. /\ Update(rows, Only(W, {i \in Young : W[i] # Blank}))
        /\ states' = [i \in Young |-> Backfilled(read[i])]
    BY DEF Start, Young
  <2>2. W = FirstPatches
    BY DEF FirstPatches
  <2>. QED BY <2>1, <2>2
<1>2. DOMAIN patches = {} /\ Len(trades) \in Nat
  BY TradeTimes DEF IInv, Down, Start
<1>3. DOMAIN V = some /\ \A i \in some : V[i] = FirstPatches[i]
  <2>1. some \subseteq DOMAIN FirstPatches
    BY DEF FirstPatches
  <2>. HIDE DEF some
  <2>. QED BY <2>1, OnlyOf
<1>. HIDE DEF V
<1>4. Writable(rows, V, Len(trades))
  BY <1>2, <1>3, YoungTypes DEF Writable, IInv, RowsTyped
<1>5. WriteEffect(rows, V)
  BY <1>1, <1>4, UpdateEffect DEF Writable
<1>6. StartServes(V)
  BY <1>1, <1>2, <1>3, <1>4, <1>5 DEF StartServes
<1>. QED BY <1>6

LEMMA StartStep == ASSUME IInv, Start PROVE IInv' /\ FinalKept
<1>1. PICK V : StartServes(V)
  BY StartWrites
<1>2. /\ runs' = TRUE
      /\ UNCHANGED <<now, chain, trades, buffer, stored, unlabelled, engineVars, locked, spoiled>>
  BY DEF Start
<1>3. Writable(rows, V, Len(trades)) /\ WriteEffect(rows, V)
  BY <1>1 DEF StartServes
<1>4. Open(DOMAIN states', rows, V)
  BY <1>1, YoungTypes DEF StartServes, Open
<1>5. \A i \in DOMAIN states' : /\ i \in DOMAIN rows /\ states'[i] \in StateUpTo(Len(trades))
                                /\ states'[i].t = Time(i.at)
  BY <1>1, YoungTypes DEF StartServes
<1>6. backoff' \in BOOLEAN /\ spoiled' \subseteq DOMAIN rows /\ DOMAIN states' \subseteq DOMAIN rows
  BY <1>2, <1>5 DEF Start, Update, IInv, RestTyped
<1>. QED BY <1>2, <1>3, <1>4, <1>5, <1>6, WrittenStep

-----------------------------------------------------------------------------
(* The invariant, and what the run checks *)

LEMMA InitInv == ASSUME Init PROVE IInv
<1>1. DOMAIN rows = {} /\ DOMAIN states = {} /\ DOMAIN patches = {}
  BY DEF Init
<1>2. ClockTyped /\ EngineTyped
  <2>1. ClockTyped
    BY ConstantFacts DEF Init, ClockTyped
  <2>2. EngineTyped
    BY ConstantFacts DEF Init, EngineTyped
  <2>. QED BY <2>1, <2>2
<1>3. TradesTyped
  BY DEF Init, TradesTyped
<1>4. RowsTyped /\ PatchesTyped /\ StatesTyped /\ Unconcluded /\ Down
  BY <1>1 DEF Init, RowsTyped, PatchesTyped, StatesTyped, Unconcluded, Down
<1>5. RestTyped
  BY DEF Init, RestTyped
<1>. QED BY <1>2, <1>3, <1>4, <1>5 DEF IInv

LEMMA StepInv == ASSUME IInv, [Next]_vars PROVE IInv' /\ FinalKept
<1>1. CASE \E matched \in Matches : CurveTrade(matched)
  BY <1>1, CurveTradeStep
<1>2. CASE Graduate \/ AmmTrade \/ UnseenTrade
  BY <1>2, GraduateStep, AmmTradeStep, UnseenTradeStep
<1>3. CASE Cleanup \/ AdvanceTime \/ Flush \/ FlushRaises
  BY <1>3, CleanupStep, AdvanceTimeStep, FlushStep, FlushRaisesStep
<1>4. CASE Crash \/ Stop \/ Start
  BY <1>4, GoneStep, StartStep
<1>5. CASE BackoffEnds \/ Lock \/ Unlock \/ TimePasses \/ UNCHANGED vars
  BY <1>5, IdleStep
<1>. QED BY <1>1, <1>2, <1>3, <1>4, <1>5 DEF Next

\* IInv holds in every state: a signal that is followed, or has a patch, has no
\* verdict in its row yet.
THEOREM FlowSignalsInvariant == Spec => []IInv
<1>1. Init => IInv
  BY InitInv
<1>2. IInv /\ [Next]_vars => IInv'
  BY StepInv
<1>. QED BY <1>1, <1>2, PTL DEF Spec

\* A label that has its verdict is never written again: neither by a patch that
\* waited for the lock, nor by a state restored after a restart
\* (SignalLabeler.onTrade, advanceTime and restore).
THEOREM FinalLabelsStay == Spec => FinalIsFinal
<1>1. IInv /\ [Next]_vars => [\A i \in DOMAIN rows : Final(i) => i \in DOMAIN rows' /\ rows'[i] = rows[i]]_vars
  BY StepInv DEF FinalKept
<1>. QED BY <1>1, FlowSignalsInvariant, PTL DEF Spec, FinalIsFinal

LEMMA TypedIsTypeOK == ASSUME IInv PROVE TypeOK
<1>. DEFINE n == Len(trades)
<1>1. n \in Nat /\ now \in 0 .. MaxTime /\ \A u \in 1 .. n : Time(u) <= now
  BY TradeTimes
<1>2. trades \in Seq([t : 0 .. now, market : {"CURVE", "AMM"}, seen : BOOLEAN])
  <2>1. trades \in Seq(Trade)
    BY DEF IInv, TradesTyped
  <2>2. \A u \in 1 .. n : trades[u] \in [t : 0 .. now, market : {"CURVE", "AMM"}, seen : BOOLEAN]
    <3>1. \A u \in 1 .. n : trades[u] \in Trade
      BY <2>1
    <3>. QED BY <1>1, <3>1 DEF Trade, Time
  <2>. DEFINE S == [t : 0 .. now, market : {"CURVE", "AMM"}, seen : BOOLEAN]
  <2>3. trades \in [1 .. n -> S]
    BY <1>1, <2>1, <2>2
  <2>. HIDE DEF S
  <2>4. trades \in Seq(S)
    BY <1>1, <2>3
  <2>. QED BY <2>4 DEF S
<1>3. \A i \in DOMAIN states : /\ states[i].t = Time(i.at)
                               /\ states[i].ret \in [Horizons -> 0 .. n]
                               /\ states[i].exc \in [Excursions -> SUBSET (1 .. n)]
                               /\ states[i].samples \subseteq SampleUpTo(n)
  BY DEF IInv, StatesTyped, StateUpTo
<1>. QED BY <1>2, <1>3
     DEF TypeOK, IInv, ClockTyped, TradesTyped, RowsTyped, PatchesTyped, StatesTyped, EngineTyped, RestTyped,
         PatchUpTo, SampleUpTo, Statuses

\* Signals, rows, patches and states keep their types, and what is followed or
\* waits has its row.
THEOREM FlowSignalsTyped == Spec => []TypeOK
<1>1. IInv => TypeOK
  BY TypedIsTypeOK
<1>. QED BY <1>1, FlowSignalsInvariant, PTL

-----------------------------------------------------------------------------
(* What the rows say is true: the invariant *)

\* What there is to know: the trades queued, those that are stored or may still
\* be, and the time.  The labeler has heard of those it has seen.
History == [trades |-> trades, held |-> stored \cup buffer, now |-> now]

Age(H, i, u) == H.trades[u].t - H.trades[i.at].t
Elapsed(H, i) == H.now - H.trades[i.at].t
Heard(H, i) == {u \in H.held : H.trades[u].seen /\ H.trades[u].market = "CURVE" /\ u >= i.at}
InTime(H, i, h) == {u \in Heard(H, i) : Timely(Age(H, i, u), h)}

\* What L, a row, a patch or a state, says of signal i is true.
ReturnTrue(H, i, h, r) ==
    r # 0 => /\ H.trades[r].market = "CURVE" /\ Timely(Age(H, i, r), h)
             /\ \A u \in InTime(H, i, h) : r <= u
ExcursionTrue(H, i, e, x) ==
    x # {} => /\ Elapsed(H, i) >= e
              /\ \A u \in x : Age(H, i, u) \in 0 .. e
              /\ \A u \in Heard(H, i) : Age(H, i, u) < e => u \in x
LabelTrue(H, i, L) ==
    /\ \A h \in Horizons : ReturnTrue(H, i, h, L.ret[h])
    /\ \A e \in Excursions : ExcursionTrue(H, i, e, L.exc[e])

\* A horizon without a return had no trade in time, and will have none.
Missed(H, i, h) ==
    /\ \A u \in InTime(H, i, h) : Age(H, i, u) = MaxHorizon + MaxLag
    /\ Elapsed(H, i) > h + MaxLag \/ Elapsed(H, i) >= MaxHorizon + MaxLag
Verdict(H, i, L) ==
    L.status # "PENDING" =>
        /\ \A h \in Horizons : L.ret[h] = 0 => Missed(H, i, h)
        /\ L.status = "COMPLETE" <=> \A h \in Horizons : L.ret[h] # 0

\* The samples of a state are trades at their age, none of a window is missing, and
\* none waits to be taken for a return.
SamplesSound(H, i, S) == \A w \in S : H.trades[w.trade].market = "CURVE" /\ w.age = Age(H, i, w.trade)
SamplesCover(H, i, S) ==
    \A u \in Heard(H, i) : Age(H, i, u) <= MaxHorizon + MaxLag => Sample(u, Age(H, i, u)) \in S
NoneWaits(s) == \A h \in Horizons : s.ret[h] = 0 => \A w \in s.samples : ~Timely(w.age, h)
StateTrue(H, i, s) ==
    /\ LabelTrue(H, i, s) /\ NoneWaits(s)
    /\ SamplesSound(H, i, s.samples) /\ SamplesCover(H, i, s.samples)

\* What the row of i will be once its patch is written.
PatchOf(i) == IF i \in DOMAIN patches THEN patches[i] ELSE Blank
Agree(s, L) == s.ret = L.ret /\ s.exc = L.exc

RowTrue(H, i, row, patch) ==
    /\ LabelTrue(H, i, row) /\ Verdict(H, i, row)
    /\ LabelTrue(H, i, patch) /\ Verdict(H, i, Merge(row, patch))
Backed(i) ==
    /\ RowTrue(History, i, rows[i], PatchOf(i))
    /\ i \in DOMAIN states => /\ StateTrue(History, i, states[i])
                              /\ Agree(states[i], Merge(rows[i], PatchOf(i)))

InOrder(H) == \A u, v \in DOMAIN H.trades : u <= v => H.trades[u].t <= H.trades[v].t
LabelInv ==
    /\ InOrder(History)
    /\ \A i \in DOMAIN rows : OnCurve(i.at)
    /\ \A i \in DOMAIN rows \ spoiled : Backed(i)

-----------------------------------------------------------------------------
(* Histories *)

Sane(H) ==
    /\ DOMAIN H.trades \subseteq Nat /\ H.held \subseteq DOMAIN H.trades
    /\ H.now \in 0 .. MaxTime
    /\ \A u \in DOMAIN H.trades : H.trades[u].t \in Nat /\ H.trades[u].t <= H.now
    /\ InOrder(H)

LEMMA Longest ==
    /\ MaxHorizon \in Nat /\ MaxLag \in Nat /\ MaxTime \in Nat
    /\ \A h \in Horizons : h \in Nat /\ h > 0 /\ h <= MaxHorizon
    /\ \A e \in Excursions : e \in Nat /\ e > 0 /\ e <= MaxHorizon
<1>1. MaxHorizon \in Horizons /\ \A h \in Horizons : h <= MaxHorizon
  BY SignalsAssumption DEF MaxHorizon
<1>. QED BY <1>1, SignalsAssumption

LEMMA Ages ==
    ASSUME NEW H, Sane(H), NEW i, i.at \in DOMAIN H.trades, NEW u \in DOMAIN H.trades
    PROVE  /\ Age(H, i, u) \in Int /\ Elapsed(H, i) \in Nat /\ Age(H, i, u) <= Elapsed(H, i)
           /\ u >= i.at => Age(H, i, u) \in Nat
<1>1. /\ H.now \in Nat /\ H.trades[i.at].t \in Nat /\ H.trades[i.at].t <= H.now
      /\ H.trades[u].t \in Nat /\ H.trades[u].t <= H.now
  BY Longest DEF Sane
<1>2. ASSUME u >= i.at PROVE H.trades[i.at].t <= H.trades[u].t
  <2>1. u \in Nat /\ i.at \in Nat
    BY DEF Sane
  <2>2. i.at <= u
    BY <1>2, <2>1
  <2>. QED BY <2>2 DEF Sane, InOrder
<1>. HIDE DEF Sane
<1>. QED BY <1>1, <1>2 DEF Age, Elapsed

LEMMA HeardKnown ==
    ASSUME NEW H, Sane(H), NEW i
    PROVE  Heard(H, i) \subseteq DOMAIN H.trades /\ \A u \in Heard(H, i) : u \in Nat
BY DEF Sane, Heard

\* G comes after H: trades are only added, of a held one that is new it is now.
Extends(H, G) ==
    /\ DOMAIN H.trades \subseteq DOMAIN G.trades /\ H.now <= G.now
    /\ \A u \in DOMAIN H.trades : G.trades[u] = H.trades[u]
    /\ \A u \in G.held : \/ u \in H.held
                         \/ G.trades[u].t = G.now /\ \A v \in DOMAIN H.trades : v < u

LEMMA SameAge ==
    ASSUME NEW H, NEW G, Extends(H, G), NEW i, i.at \in DOMAIN H.trades, NEW u \in DOMAIN H.trades
    PROVE  Age(G, i, u) = Age(H, i, u) /\ G.trades[u] = H.trades[u]
BY DEF Extends, Age

LEMMA Elapses ==
    ASSUME NEW H, NEW G, Sane(H), Sane(G), Extends(H, G), NEW i, i.at \in DOMAIN H.trades
    PROVE  Elapsed(H, i) \in Nat /\ Elapsed(G, i) \in Nat /\ Elapsed(H, i) <= Elapsed(G, i)
<1>1. i.at \in DOMAIN G.trades /\ G.trades[i.at] = H.trades[i.at] /\ H.now <= G.now
  BY DEF Extends
<1>2. Elapsed(H, i) \in Nat /\ Elapsed(G, i) \in Nat
  BY <1>1, Ages
<1>3. H.now \in Int /\ G.now \in Int /\ H.trades[i.at].t \in Int
  BY Longest DEF Sane
<1>. QED BY <1>1, <1>2, <1>3 DEF Elapsed

LEMMA NewlyHeard ==
    ASSUME NEW H, NEW G, Sane(H), Sane(G), Extends(H, G), NEW i, i.at \in DOMAIN H.trades, NEW u \in Heard(G, i)
    PROVE  \/ u \in Heard(H, i) /\ Age(G, i, u) = Age(H, i, u)
           \/ Age(G, i, u) = Elapsed(G, i) /\ \A v \in DOMAIN H.trades : v < u
<1>1. u \in G.held /\ G.trades[u].seen /\ G.trades[u].market = "CURVE" /\ u >= i.at
  BY DEF Heard
<1>2. CASE u \in H.held
  <2>1. u \in DOMAIN H.trades
    BY <1>2 DEF Sane
  <2>. QED BY <1>1, <1>2, <2>1, SameAge DEF Heard
<1>3. CASE G.trades[u].t = G.now /\ \A v \in DOMAIN H.trades : v < u
  BY <1>3 DEF Age, Elapsed
<1>. QED BY <1>1, <1>2, <1>3 DEF Extends

-----------------------------------------------------------------------------
(* What is true stays true *)

\* L talks about the first n trades.
Says(L, n) == L.ret \in [Horizons -> 0 .. n] /\ L.exc \in [Excursions -> SUBSET (1 .. n)]

LEMMA PatchSays == ASSUME NEW n, NEW L \in PatchUpTo(n) PROVE Says(L, n)
BY DEF PatchUpTo, Says
LEMMA StateSays == ASSUME NEW n, NEW L \in StateUpTo(n) PROVE Says(L, n)
BY DEF StateUpTo, Says

LEMMA ReturnStays ==
    ASSUME NEW H, NEW G, Sane(H), Sane(G), Extends(H, G), NEW n \in Nat, DOMAIN H.trades = 1 .. n,
           NEW i, i.at \in 1 .. n, NEW h \in Horizons, NEW r \in 0 .. n, ReturnTrue(H, i, h, r)
    PROVE  ReturnTrue(G, i, h, r)
<1>. SUFFICES ASSUME r # 0 PROVE /\ G.trades[r].market = "CURVE" /\ Timely(Age(G, i, r), h)
                                 /\ \A u \in InTime(G, i, h) : r <= u
  BY DEF ReturnTrue
<1>1. r \in DOMAIN H.trades
  OBVIOUS
<1>2. /\ H.trades[r].market = "CURVE" /\ Timely(Age(H, i, r), h) /\ \A u \in InTime(H, i, h) : r <= u
  BY DEF ReturnTrue
<1>3. G.trades[r].market = "CURVE" /\ Timely(Age(G, i, r), h)
  BY <1>1, <1>2, SameAge
<1>4. ASSUME NEW u \in InTime(G, i, h) PROVE r <= u
  <2>1. u \in Heard(G, i) /\ Timely(Age(G, i, u), h) /\ u \in Nat
    BY HeardKnown DEF InTime
  <2>2. CASE u \in Heard(H, i) /\ Age(G, i, u) = Age(H, i, u)
    BY <1>2, <2>1, <2>2 DEF InTime
  <2>3. CASE \A v \in DOMAIN H.trades : v < u
    BY <1>1, <2>1, <2>3
  <2>. QED BY <2>1, <2>2, <2>3, NewlyHeard
<1>. QED BY <1>3, <1>4

LEMMA ExcursionStays ==
    ASSUME NEW H, NEW G, Sane(H), Sane(G), Extends(H, G), NEW n \in Nat, DOMAIN H.trades = 1 .. n,
           NEW i, i.at \in 1 .. n, NEW e \in Excursions, NEW x \in SUBSET (1 .. n), ExcursionTrue(H, i, e, x)
    PROVE  ExcursionTrue(G, i, e, x)
<1>. SUFFICES ASSUME x # {} PROVE /\ Elapsed(G, i) >= e
                                  /\ \A u \in x : Age(G, i, u) \in 0 .. e
                                  /\ \A u \in Heard(G, i) : Age(G, i, u) < e => u \in x
  BY DEF ExcursionTrue
<1>1. /\ Elapsed(H, i) >= e
      /\ \A u \in x : Age(H, i, u) \in 0 .. e
      /\ \A u \in Heard(H, i) : Age(H, i, u) < e => u \in x
  BY DEF ExcursionTrue
<1>2. Elapsed(H, i) \in Nat /\ Elapsed(G, i) \in Nat /\ Elapsed(H, i) <= Elapsed(G, i) /\ e \in Nat
  BY Elapses, Longest
<1>3. \A u \in x : Age(G, i, u) \in 0 .. e
  BY <1>1, SameAge
<1>4. ASSUME NEW u \in Heard(G, i), Age(G, i, u) < e PROVE u \in x
  <2>1. CASE u \in Heard(H, i) /\ Age(G, i, u) = Age(H, i, u)
    BY <1>1, <1>4, <2>1
  <2>2. CASE Age(G, i, u) = Elapsed(G, i)
    BY <1>1, <1>2, <1>4, <2>2
  <2>. QED BY <2>1, <2>2, NewlyHeard
<1>. QED BY <1>1, <1>2, <1>3, <1>4

LEMMA LabelStays ==
    ASSUME NEW H, NEW G, Sane(H), Sane(G), Extends(H, G), NEW n \in Nat, DOMAIN H.trades = 1 .. n,
           NEW i, i.at \in 1 .. n, NEW L, Says(L, n), LabelTrue(H, i, L)
    PROVE  LabelTrue(G, i, L)
<1>1. ASSUME NEW h \in Horizons PROVE ReturnTrue(G, i, h, L.ret[h])
  <2>1. L.ret[h] \in 0 .. n /\ ReturnTrue(H, i, h, L.ret[h])
    BY DEF Says, LabelTrue
  <2>. QED BY <2>1, ReturnStays
<1>2. ASSUME NEW e \in Excursions PROVE ExcursionTrue(G, i, e, L.exc[e])
  <2>1. L.exc[e] \in SUBSET (1 .. n) /\ ExcursionTrue(H, i, e, L.exc[e])
    BY DEF Says, LabelTrue
  <2>. QED BY <2>1, ExcursionStays
<1>. QED BY <1>1, <1>2 DEF LabelTrue

LEMMA MissedStays ==
    ASSUME NEW H, NEW G, Sane(H), Sane(G), Extends(H, G), NEW n \in Nat, DOMAIN H.trades = 1 .. n,
           NEW i, i.at \in 1 .. n, NEW h \in Horizons, Missed(H, i, h)
    PROVE  Missed(G, i, h)
<1>1. Elapsed(H, i) \in Nat /\ Elapsed(G, i) \in Nat /\ Elapsed(H, i) <= Elapsed(G, i)
  BY Elapses
<1>2. Elapsed(G, i) > h + MaxLag \/ Elapsed(G, i) >= MaxHorizon + MaxLag
  BY <1>1, Longest DEF Missed
<1>3. ASSUME NEW u \in InTime(G, i, h) PROVE Age(G, i, u) = MaxHorizon + MaxLag
  <2>1. u \in Heard(G, i) /\ Timely(Age(G, i, u), h)
    BY DEF InTime
  <2>2. CASE u \in Heard(H, i) /\ Age(G, i, u) = Age(H, i, u)
    BY <2>1, <2>2 DEF Missed, InTime
  <2>3. CASE Age(G, i, u) = Elapsed(G, i)
    BY <1>1, <1>2, <2>1, <2>3, Longest DEF Timely
  <2>. QED BY <2>1, <2>2, <2>3, NewlyHeard
<1>. QED BY <1>2, <1>3 DEF Missed

LEMMA VerdictStays ==
    ASSUME NEW H, NEW G, Sane(H), Sane(G), Extends(H, G), NEW n \in Nat, DOMAIN H.trades = 1 .. n,
           NEW i, i.at \in 1 .. n, NEW L, Verdict(H, i, L)
    PROVE  Verdict(G, i, L)
BY MissedStays DEF Verdict

-----------------------------------------------------------------------------
(* Patches of true labels *)

LEMMA MergeBlank ==
    ASSUME NEW n \in Nat, NEW a \in PatchUpTo(n)
    PROVE  Merge(a, Blank) = a /\ Merge(Blank, a) = a
BY DEF Merge, Blank, Unset, Untaken, PatchUpTo

LEMMA MergeAssociates ==
    ASSUME NEW a, NEW b, NEW c
    PROVE  Merge(Merge(a, b), c) = Merge(a, Merge(b, c))
BY DEF Merge

LEMMA MergeTrue ==
    ASSUME NEW H, NEW i, NEW a, NEW b, LabelTrue(H, i, a), LabelTrue(H, i, b)
    PROVE  LabelTrue(H, i, Merge(a, b))
<1>1. /\ \A h \in Horizons : Merge(a, b).ret[h] \in {a.ret[h], b.ret[h]}
      /\ \A e \in Excursions : Merge(a, b).exc[e] \in {a.exc[e], b.exc[e]}
  BY DEF Merge
<1>2. /\ \A h \in Horizons : ReturnTrue(H, i, h, a.ret[h]) /\ ReturnTrue(H, i, h, b.ret[h])
      /\ \A e \in Excursions : ExcursionTrue(H, i, e, a.exc[e]) /\ ExcursionTrue(H, i, e, b.exc[e])
  BY DEF LabelTrue
<1>3. ASSUME NEW h \in Horizons PROVE ReturnTrue(H, i, h, Merge(a, b).ret[h])
  <2>1. CASE Merge(a, b).ret[h] = a.ret[h]
    BY <1>2, <2>1
  <2>2. CASE Merge(a, b).ret[h] = b.ret[h]
    BY <1>2, <2>2
  <2>. QED BY <1>1, <2>1, <2>2
<1>4. ASSUME NEW e \in Excursions PROVE ExcursionTrue(H, i, e, Merge(a, b).exc[e])
  <2>1. CASE Merge(a, b).exc[e] = a.exc[e]
    BY <1>2, <2>1
  <2>2. CASE Merge(a, b).exc[e] = b.exc[e]
    BY <1>2, <2>2
  <2>. QED BY <1>1, <2>1, <2>2
<1>. QED BY <1>3, <1>4 DEF LabelTrue

LEMMA BlankTrue ==
    ASSUME NEW H, NEW i
    PROVE  LabelTrue(H, i, Blank) /\ Verdict(H, i, Blank)
BY DEF LabelTrue, Verdict, Blank, Unset, Untaken, ReturnTrue, ExcursionTrue

\* The row is written, or the patch waits: both are as true as what is written.
LEMMA RowServed ==
    ASSUME NEW H, NEW i, NEW n \in Nat,
           NEW row \in PatchUpTo(n), NEW patch \in PatchUpTo(n), NEW w \in PatchUpTo(n),
           RowTrue(H, i, row, patch), LabelTrue(H, i, w), Verdict(H, i, Merge(Merge(row, patch), w))
    PROVE  /\ RowTrue(H, i, row, Merge(patch, w))
           /\ patch = Blank => RowTrue(H, i, Merge(row, w), Blank)
<1>1. LabelTrue(H, i, row) /\ Verdict(H, i, row) /\ LabelTrue(H, i, patch)
  BY DEF RowTrue
<1>2. RowTrue(H, i, row, Merge(patch, w))
  <2>1. Merge(Merge(row, patch), w) = Merge(row, Merge(patch, w))
    BY MergeAssociates
  <2>. QED BY <1>1, <2>1, MergeTrue DEF RowTrue
<1>3. ASSUME patch = Blank PROVE RowTrue(H, i, Merge(row, w), Blank)
  <2>1. Merge(row, patch) = row
    BY <1>3, MergeBlank
  <2>2. Merge(Merge(row, w), Blank) = Merge(row, w)
    BY MergeType, MergeBlank
  <2>. QED BY <1>1, <2>1, <2>2, MergeTrue, BlankTrue DEF RowTrue
<1>. QED BY <1>2, <1>3

\* A state is ahead of a label by what a patch of the two says.
Keeps(s, a) == /\ \A h \in Horizons : s.ret[h] # 0 => a.ret[h] = s.ret[h]
               /\ \A e \in Excursions : s.exc[e] # {} => a.exc[e] = s.exc[e]

LEMMA KeepsOn ==
    ASSUME NEW s, NEW a, NEW b, Keeps(s, a), Keeps(a, b)
    PROVE  Keeps(s, b)
BY DEF Keeps

\* w says how a differs from s.
Change(w, s, a) ==
    /\ w.ret = [h \in Horizons |-> IF s.ret[h] = 0 THEN a.ret[h] ELSE 0]
    /\ w.exc = [e \in Excursions |-> IF s.exc[e] = {} THEN a.exc[e] ELSE {}]

LEMMA ChangesTrue ==
    ASSUME NEW H, NEW i, NEW n \in Nat, NEW s \in StateUpTo(n), NEW a \in StateUpTo(n), Keeps(s, a),
           LabelTrue(H, i, a), NEW w, Change(w, s, a), NEW L, Agree(s, L)
    PROVE  LabelTrue(H, i, w) /\ Agree(a, Merge(L, w))
<1>1. /\ w.ret = [h \in Horizons |-> IF s.ret[h] = 0 THEN a.ret[h] ELSE 0]
      /\ w.exc = [e \in Excursions |-> IF s.exc[e] = {} THEN a.exc[e] ELSE {}]
  BY DEF Change
<1>2. LabelTrue(H, i, w)
  <2>1. ASSUME NEW h \in Horizons PROVE ReturnTrue(H, i, h, w.ret[h])
    <3>1. w.ret[h] = 0 \/ w.ret[h] = a.ret[h]
      BY <1>1
    <3>. QED BY <3>1 DEF ReturnTrue, LabelTrue
  <2>2. ASSUME NEW e \in Excursions PROVE ExcursionTrue(H, i, e, w.exc[e])
    <3>1. w.exc[e] = {} \/ w.exc[e] = a.exc[e]
      BY <1>1
    <3>. QED BY <3>1 DEF ExcursionTrue, LabelTrue
  <2>. QED BY <2>1, <2>2 DEF LabelTrue
<1>3. Merge(L, w).ret = a.ret
  <2>1. Merge(L, w).ret = [h \in Horizons |-> IF w.ret[h] # 0 THEN w.ret[h] ELSE L.ret[h]]
    BY DEF Merge
  <2>2. ASSUME NEW h \in Horizons PROVE (IF w.ret[h] # 0 THEN w.ret[h] ELSE L.ret[h]) = a.ret[h]
    BY <1>1 DEF Agree, Keeps
  <2>3. a.ret = [h \in Horizons |-> a.ret[h]]
    BY DEF StateUpTo
  <2>. QED BY <2>1, <2>2, <2>3
<1>4. Merge(L, w).exc = a.exc
  <2>1. Merge(L, w).exc = [e \in Excursions |-> IF w.exc[e] # {} THEN w.exc[e] ELSE L.exc[e]]
    BY DEF Merge
  <2>2. ASSUME NEW e \in Excursions PROVE (IF w.exc[e] # {} THEN w.exc[e] ELSE L.exc[e]) = a.exc[e]
    BY <1>1 DEF Agree, Keeps
  <2>3. a.exc = [e \in Excursions |-> a.exc[e]]
    BY DEF StateUpTo
  <2>. QED BY <2>1, <2>2, <2>3
<1>. QED BY <1>2, <1>3, <1>4 DEF Agree

\* The verdict of a last patch.
LEMMA LastVerdict ==
    ASSUME NEW H, NEW i, NEW a, NEW L, NEW w, Agree(a, Merge(L, w)),
           w.status = IF \E h \in Horizons : a.ret[h] = 0 THEN "CENSORED" ELSE "COMPLETE",
           \A h \in Horizons : a.ret[h] = 0 => Missed(H, i, h)
    PROVE  Verdict(H, i, Merge(L, w))
<1>1. Merge(L, w).status = w.status
  BY DEF Merge
<1>. QED BY <1>1 DEF Verdict, Agree

LEMMA EarlierVerdict ==
    ASSUME NEW H, NEW i, NEW L, NEW w, w.status = "PENDING", L.status = "PENDING"
    PROVE  Verdict(H, i, Merge(L, w))
<1>1. Merge(L, w).status = "PENDING"
  BY DEF Merge
<1>. QED BY <1>1 DEF Verdict

-----------------------------------------------------------------------------
(* States *)

LEMMA NoneInTime ==
    ASSUME NEW H, Sane(H), NEW i, i.at \in DOMAIN H.trades, NEW s, StateTrue(H, i, s),
           NEW h \in Horizons, s.ret[h] = 0
    PROVE  InTime(H, i, h) = {}
<1>. SUFFICES ASSUME NEW u \in Heard(H, i), Timely(Age(H, i, u), h) PROVE FALSE
  BY DEF InTime
<1>1. Age(H, i, u) \in Int
  BY HeardKnown, Ages
<1>2. Age(H, i, u) <= MaxHorizon + MaxLag
  BY <1>1, Longest DEF Timely
<1>3. Sample(u, Age(H, i, u)) \in s.samples /\ Sample(u, Age(H, i, u)).age = Age(H, i, u)
  BY <1>2 DEF StateTrue, SamplesCover, Sample
<1>. QED BY <1>3 DEF StateTrue, NoneWaits

\* An excursion over samples that are sound and of which none of the window is missing.
LEMMA WithinTrue ==
    ASSUME NEW H, Sane(H), NEW n \in Nat, DOMAIN H.trades = 1 .. n, NEW i, i.at \in 1 .. n,
           NEW S \in SUBSET SampleUpTo(n), SamplesSound(H, i, S), SamplesCover(H, i, S),
           NEW e \in Excursions, \E w \in S : Timely(w.age, e)
    PROVE  ExcursionTrue(H, i, e, Within(S, e))
<1>0. \A w \in S : w.trade \in 1 .. n /\ w.age = Age(H, i, w.trade) /\ w.age \in 0 .. MaxTime
  BY DEF SamplesSound, SampleUpTo
<1>1. Elapsed(H, i) >= e
  <2>1. PICK w \in S : Timely(w.age, e)
    OBVIOUS
  <2>2. Age(H, i, w.trade) <= Elapsed(H, i) /\ Elapsed(H, i) \in Nat /\ Age(H, i, w.trade) \in Int
    BY <1>0, Ages
  <2>. QED BY <1>0, <2>1, <2>2, Longest DEF Timely
<1>2. ASSUME NEW u \in Within(S, e) PROVE Age(H, i, u) \in 0 .. e
  <2>1. PICK w \in S : w.age <= e /\ u = w.trade
    BY DEF Within
  <2>. QED BY <1>0, <2>1, Longest
<1>3. ASSUME NEW u \in Heard(H, i), Age(H, i, u) < e PROVE u \in Within(S, e)
  <2>1. Age(H, i, u) \in Int
    BY HeardKnown, Ages
  <2>2. Age(H, i, u) <= MaxHorizon + MaxLag /\ Age(H, i, u) <= e
    BY <1>3, <2>1, Longest
  <2>3. Sample(u, Age(H, i, u)) \in S
    BY <2>2 DEF SamplesCover
  <2>4. Sample(u, Age(H, i, u)).age <= e /\ Sample(u, Age(H, i, u)).trade = u
    BY <2>2 DEF Sample
  <2>. QED BY <2>3, <2>4 DEF Within
<1>. QED BY <1>1, <1>2, <1>3 DEF ExcursionTrue

LEMMA CoveredTrue ==
    ASSUME NEW H, Sane(H), NEW n \in Nat, DOMAIN H.trades = 1 .. n, NEW i, i.at \in 1 .. n,
           NEW s \in StateUpTo(n), StateTrue(H, i, s)
    PROVE  StateTrue(H, i, Covered(s)) /\ Keeps(s, Covered(s))
<1>1. /\ Covered(s).ret = s.ret /\ Covered(s).samples = s.samples
      /\ Covered(s).exc = [e \in Excursions |->
            IF s.exc[e] = {} /\ \E w \in s.samples : Timely(w.age, e) THEN Within(s.samples, e) ELSE s.exc[e]]
  BY DEF Covered, StateUpTo
<1>2. Keeps(s, Covered(s))
  BY <1>1 DEF Keeps
<1>3. ASSUME NEW e \in Excursions PROVE ExcursionTrue(H, i, e, Covered(s).exc[e])
  <2>1. CASE Covered(s).exc[e] = s.exc[e]
    BY <2>1 DEF StateTrue, LabelTrue
  <2>2. CASE Covered(s).exc[e] = Within(s.samples, e) /\ \E w \in s.samples : Timely(w.age, e)
    <3>1. s.samples \in SUBSET SampleUpTo(n)
      BY DEF StateUpTo
    <3>2. ExcursionTrue(H, i, e, Within(s.samples, e))
      BY <2>2, <3>1, WithinTrue DEF StateTrue
    <3>. QED BY <2>2, <3>2
  <2>. QED BY <1>1, <2>1, <2>2
<1>4. StateTrue(H, i, Covered(s))
  BY <1>1, <1>3 DEF StateTrue, LabelTrue, NoneWaits
<1>. QED BY <1>2, <1>4

LEMMA BackfilledTrue ==
    ASSUME NEW H, Sane(H), NEW n \in Nat, DOMAIN H.trades = 1 .. n, NEW i, i.at \in 1 .. n,
           NEW s \in StateUpTo(n), LabelTrue(H, i, s),
           SamplesSound(H, i, s.samples), SamplesCover(H, i, s.samples)
    PROVE  StateTrue(H, i, Backfilled(s)) /\ Keeps(s, Backfilled(s))
<1>. DEFINE timely(h) == {w \in s.samples : Timely(w.age, h)}
<1>1. /\ Backfilled(s).exc = s.exc /\ Backfilled(s).samples = s.samples
      /\ Backfilled(s).ret = [h \in Horizons |->
            IF s.ret[h] = 0 /\ timely(h) # {} THEN Earliest(timely(h)).trade ELSE s.ret[h]]
  BY DEF Backfilled, StateUpTo
<1>2. \A w \in s.samples : /\ w.trade \in 1 .. n /\ w.age = Age(H, i, w.trade) /\ w \in SampleUpTo(n)
                           /\ H.trades[w.trade].market = "CURVE"
  BY DEF SamplesSound, SampleUpTo, StateUpTo
<1>3. ASSUME NEW h \in Horizons, timely(h) # {}
      PROVE  LET r == Earliest(timely(h)).trade IN r # 0 /\ ReturnTrue(H, i, h, r)
  <2>1. timely(h) \in SUBSET SampleUpTo(n)
    BY <1>2
  <2>2. PICK w \in timely(h) : w = Earliest(timely(h)) /\ \A x \in timely(h) : w.trade <= x.trade
    <3>. HIDE DEF timely
    <3>. QED BY <1>3, <2>1, EarliestExists
  <2>3. w \in s.samples /\ Timely(w.age, h)
    OBVIOUS
  <2>4. w.trade # 0 /\ H.trades[w.trade].market = "CURVE" /\ Timely(Age(H, i, w.trade), h)
    BY <1>2, <2>3
  <2>5. ASSUME NEW u \in InTime(H, i, h) PROVE w.trade <= u
    <3>1. u \in Heard(H, i) /\ Timely(Age(H, i, u), h) /\ Age(H, i, u) \in Int
      BY HeardKnown, Ages DEF InTime
    <3>2. Age(H, i, u) <= MaxHorizon + MaxLag
      BY <3>1, Longest DEF Timely
    <3>3. Sample(u, Age(H, i, u)) \in s.samples
      BY <3>1, <3>2 DEF SamplesCover
    <3>4. Sample(u, Age(H, i, u)) \in timely(h) /\ Sample(u, Age(H, i, u)).trade = u
      BY <3>1, <3>3 DEF Sample
    <3>. QED BY <2>2, <3>4
  <2>. QED BY <2>2, <2>4, <2>5 DEF ReturnTrue
<1>4. ASSUME NEW h \in Horizons PROVE ReturnTrue(H, i, h, Backfilled(s).ret[h])
  <2>1. CASE Backfilled(s).ret[h] = s.ret[h]
    BY <2>1 DEF LabelTrue
  <2>2. CASE Backfilled(s).ret[h] = Earliest(timely(h)).trade /\ timely(h) # {}
    BY <1>3, <2>2
  <2>. HIDE DEF timely
  <2>. QED BY <1>1, <2>1, <2>2
<1>5. Keeps(s, Backfilled(s))
  BY <1>1 DEF Keeps
<1>6. NoneWaits(Backfilled(s))
  <2>. SUFFICES ASSUME NEW h \in Horizons, Backfilled(s).ret[h] = 0 PROVE timely(h) = {}
    BY <1>1 DEF NoneWaits
  <2>. HIDE DEF timely
  <2>. QED BY <1>1, <1>3
<1>7. LabelTrue(H, i, Backfilled(s))
  BY <1>1, <1>4 DEF LabelTrue
<1>. QED BY <1>1, <1>5, <1>6, <1>7 DEF StateTrue

\* The state of a signal before it has seen trade u, the newest and on the curve.
Behind(H, i, s, u) ==
    /\ LabelTrue(H, i, s) /\ NoneWaits(s) /\ SamplesSound(H, i, s.samples)
    /\ \A v \in Heard(H, i) : v # u /\ Age(H, i, v) <= MaxHorizon + MaxLag => Sample(v, Age(H, i, v)) \in s.samples

LEMMA SampledTrue ==
    ASSUME NEW H, Sane(H), NEW n \in Nat, DOMAIN H.trades = 1 .. n, NEW i, i.at \in 1 .. n,
           NEW u \in 1 .. n, H.trades[u].market = "CURVE", H.trades[u].t = H.now,
           NEW s \in StateUpTo(n), s.t = H.trades[i.at].t, Behind(H, i, s, u),
           NEW a, a = Sampled(s, u, H.now - s.t)
    PROVE  StateTrue(H, i, a) /\ Keeps(s, a) /\ Sample(u, Elapsed(H, i)) \in a.samples
<1>. DEFINE age == Elapsed(H, i)
            seen == s.samples \cup {Sample(u, age)}
<1>1. age = H.now - s.t /\ age = Age(H, i, u) /\ age \in 0 .. MaxTime
  <2>1. age = H.now - s.t /\ age = Age(H, i, u)
    BY DEF Elapsed, Age
  <2>2. age \in Nat
    BY Ages
  <2>3. H.now \in 0 .. MaxTime /\ H.trades[i.at].t \in Nat
    BY DEF Sane
  <2>. QED BY <2>1, <2>2, <2>3, Longest DEF Elapsed
<1>2. /\ a.samples = seen
      /\ a.ret = [h \in Horizons |-> IF s.ret[h] = 0 /\ Timely(age, h) THEN u ELSE s.ret[h]]
      /\ a.exc = [e \in Excursions |-> IF s.exc[e] = {} /\ Timely(age, e) THEN Within(seen, e) ELSE s.exc[e]]
  BY <1>1 DEF Sampled, StateUpTo
<1>3. Sample(u, age) \in seen /\ Sample(u, age).trade = u /\ Sample(u, age).age = age
  BY DEF Sample
<1>. HIDE DEF age
<1>4. SamplesSound(H, i, seen)
  BY <1>1, <1>3 DEF Behind, SamplesSound
<1>5. SamplesCover(H, i, seen)
  BY <1>1 DEF Behind, SamplesCover
<1>6. seen \in SUBSET SampleUpTo(n)
  <2>1. Sample(u, age) \in SampleUpTo(n)
    BY <1>1 DEF Sample, SampleUpTo
  <2>. QED BY <2>1 DEF StateUpTo
<1>7. ASSUME NEW h \in Horizons PROVE ReturnTrue(H, i, h, a.ret[h])
  <2>1. CASE a.ret[h] = s.ret[h]
    BY <2>1 DEF Behind, LabelTrue
  <2>2. CASE s.ret[h] = 0 /\ Timely(age, h) /\ a.ret[h] = u
    <3>1. ASSUME NEW v \in InTime(H, i, h), v # u PROVE FALSE
      <4>1. v \in Heard(H, i) /\ Timely(Age(H, i, v), h) /\ Age(H, i, v) \in Int
        BY HeardKnown, Ages DEF InTime
      <4>2. Age(H, i, v) <= MaxHorizon + MaxLag
        BY <4>1, Longest DEF Timely
      <4>3. Sample(v, Age(H, i, v)) \in s.samples /\ Sample(v, Age(H, i, v)).age = Age(H, i, v)
        BY <3>1, <4>1, <4>2 DEF Behind, Sample
      <4>. QED BY <2>2, <4>1, <4>3 DEF Behind, NoneWaits
    <3>2. \A v \in InTime(H, i, h) : u <= v
      BY <3>1
    <3>. QED BY <1>1, <2>2, <3>2 DEF ReturnTrue
  <2>. QED BY <1>2, <2>1, <2>2
<1>. HIDE DEF seen
<1>8. ASSUME NEW e \in Excursions PROVE ExcursionTrue(H, i, e, a.exc[e])
  <2>1. CASE a.exc[e] = s.exc[e]
    BY <2>1 DEF Behind, LabelTrue
  <2>2. CASE Timely(age, e) /\ a.exc[e] = Within(seen, e)
    <3>1. \E w \in seen : Timely(w.age, e)
      BY <1>3, <2>2
    <3>2. ExcursionTrue(H, i, e, Within(seen, e))
      BY <1>4, <1>5, <1>6, <3>1, WithinTrue
    <3>. QED BY <2>2, <3>2
  <2>. QED BY <1>2, <2>1, <2>2
<1>9. NoneWaits(a)
  <2>. SUFFICES ASSUME NEW h \in Horizons, a.ret[h] = 0, NEW w \in seen PROVE ~Timely(w.age, h)
    BY <1>2 DEF NoneWaits
  <2>1. s.ret[h] = 0 /\ ~Timely(age, h)
    BY <1>2
  <2>2. CASE w \in s.samples
    BY <2>1, <2>2 DEF Behind, NoneWaits
  <2>3. CASE w = Sample(u, age)
    BY <1>3, <2>1, <2>3
  <2>. QED BY <2>2, <2>3 DEF seen
<1>10. Keeps(s, a)
  BY <1>2 DEF Keeps
<1>. QED BY <1>2, <1>3, <1>4, <1>5, <1>7, <1>8, <1>9, <1>10 DEF StateTrue, LabelTrue, age

\* When a trade concludes a signal, what has no return will not get one.
LEMMA MissedAtTrade ==
    ASSUME NEW H, Sane(H), NEW i, i.at \in DOMAIN H.trades, NEW a, StateTrue(H, i, a),
           NEW u, Sample(u, Elapsed(H, i)) \in a.samples, Elapsed(H, i) >= MaxHorizon,
           NEW h \in Horizons, a.ret[h] = 0
    PROVE  Missed(H, i, h)
<1>1. InTime(H, i, h) = {}
  BY NoneInTime
<1>2. Sample(u, Elapsed(H, i)).age = Elapsed(H, i) /\ Elapsed(H, i) \in Nat
  BY Ages DEF Sample
<1>3. ~Timely(Elapsed(H, i), h)
  BY <1>2 DEF StateTrue, NoneWaits
<1>. QED BY <1>1, <1>2, <1>3, Longest DEF Missed, Timely

LEMMA MissedInTheEnd ==
    ASSUME NEW H, Sane(H), NEW i, i.at \in DOMAIN H.trades, NEW a, StateTrue(H, i, a),
           Elapsed(H, i) >= MaxHorizon + MaxLag, NEW h \in Horizons, a.ret[h] = 0
    PROVE  Missed(H, i, h)
BY NoneInTime DEF Missed

-----------------------------------------------------------------------------
(* Signals from one state to the next *)

LEMMA SaneIs ==
    ASSUME NEW tr \in Seq(Trade), NEW hd \in SUBSET (1 .. Len(tr)), NEW nw \in 0 .. MaxTime,
           \A u \in 1 .. Len(tr) : tr[u].t <= nw,
           \A u, v \in 1 .. Len(tr) : u <= v => tr[u].t <= tr[v].t
    PROVE  LET H == [trades |-> tr, held |-> hd, now |-> nw]
           IN  Sane(H) /\ DOMAIN H.trades = 1 .. Len(tr)
<1>1. DOMAIN tr = 1 .. Len(tr) /\ Len(tr) \in Nat
  OBVIOUS
<1>2. \A u \in 1 .. Len(tr) : tr[u].t \in Nat
  <2>1. \A u \in 1 .. Len(tr) : tr[u] \in Trade
    OBVIOUS
  <2>. QED BY <2>1, Longest DEF Trade
<1>. QED BY <1>1, <1>2 DEF Sane, InOrder

LEMMA SaneNow ==
    ASSUME IInv, InOrder(History)
    PROVE  Sane(History) /\ DOMAIN History.trades = 1 .. Len(trades) /\ Len(trades) \in Nat
<1>1. /\ trades \in Seq(Trade) /\ stored \cup buffer \in SUBSET (1 .. Len(trades)) /\ now \in 0 .. MaxTime
      /\ \A u \in 1 .. Len(trades) : trades[u].t <= now
  BY DEF IInv, TradesTyped, ClockTyped, Time
<1>2. \A u, v \in 1 .. Len(trades) : u <= v => trades[u].t <= trades[v].t
  BY <1>1 DEF InOrder, History
<1>3. LET H == [trades |-> trades, held |-> stored \cup buffer, now |-> now]
      IN  Sane(H) /\ DOMAIN H.trades = 1 .. Len(trades)
  BY <1>1, <1>2, SaneIs
<1>. QED BY <1>1, <1>3 DEF History

\* Steps between two trades.
LEMMA HistoryStays ==
    ASSUME IInv, IInv', InOrder(History), trades' = trades, now <= now',
           stored' \cup buffer' \subseteq stored \cup buffer
    PROVE  /\ InOrder(History') /\ Sane(History') /\ Extends(History, History')
           /\ \A i : Heard(History', i) \subseteq Heard(History, i)
<1>1. /\ trades' \in Seq(Trade) /\ stored' \cup buffer' \in SUBSET (1 .. Len(trades')) /\ now' \in 0 .. MaxTime
      /\ \A u \in 1 .. Len(trades') : trades'[u].t <= now'
  BY DEF IInv, TradesTyped, ClockTyped, Time
<1>2. \A u, v \in 1 .. Len(trades') : u <= v => trades'[u].t <= trades'[v].t
  BY <1>1 DEF InOrder, History
<1>3. LET H == [trades |-> trades', held |-> stored' \cup buffer', now |-> now']
      IN  Sane(H) /\ DOMAIN H.trades = 1 .. Len(trades')
  BY <1>1, <1>2, SaneIs
<1>4. Sane(History')
  BY <1>3 DEF History
<1>5. Extends(History, History') /\ \A i : Heard(History', i) \subseteq Heard(History, i)
  BY DEF Extends, Heard, History
<1>. QED BY <1>4, <1>5 DEF Sane

\* A trade is received: it is the newest.
LEMMA HistoryGrows ==
    ASSUME IInv, IInv', InOrder(History), NEW market \in {"CURVE", "AMM"}, NEW seen \in BOOLEAN,
           Receive(market, seen), UNCHANGED <<now, stored>>
    PROVE  /\ InOrder(History') /\ Sane(History') /\ Extends(History, History')
           /\ DOMAIN History'.trades = 1 .. Len(trades') /\ Len(trades') = Len(trades) + 1
           /\ \A i : Heard(History', i) \subseteq Heard(History, i) \cup {Len(trades')}
           /\ History'.trades[Len(trades')] = [t |-> now, market |-> market, seen |-> seen]
           /\ History'.now = now
<1>. DEFINE n == Len(trades)
            new == [t |-> now, market |-> market, seen |-> seen]
<1>1. /\ trades \in Seq(Trade) /\ n \in Nat /\ \A u \in 1 .. n : trades[u].t <= now
      /\ now \in 0 .. MaxTime /\ stored \cup buffer \subseteq 1 .. n
  BY DEF IInv, TradesTyped, ClockTyped, Time
<1>2. trades' = Append(trades, new) /\ new \in Trade /\ buffer' = buffer \cup {Len(trades')}
  BY <1>1 DEF Receive, Trade
<1>3. new.t = now /\ new.market = market
  OBVIOUS
<1>. HIDE DEF new
<1>4. /\ Len(trades') = n + 1 /\ \A u \in 1 .. n : trades'[u] = trades[u]
      /\ trades'[n + 1] = new
  BY <1>1, <1>2
<1>. HIDE DEF n
<1>5. /\ trades' \in Seq(Trade) /\ stored' \cup buffer' \in SUBSET (1 .. Len(trades')) /\ now' \in 0 .. MaxTime
      /\ \A u \in 1 .. Len(trades') : trades'[u].t <= now'
  BY DEF IInv, TradesTyped, ClockTyped, Time
<1>6. ASSUME NEW u \in 1 .. Len(trades'), NEW v \in 1 .. Len(trades'), u <= v
      PROVE  trades'[u].t <= trades'[v].t
  <2>1. CASE v = n + 1
    <3>1. trades'[v].t = now' /\ trades'[u].t <= now'
      BY <1>3, <1>4, <1>5, <2>1
    <3>. QED BY <3>1
  <2>2. CASE v # n + 1
    <3>1. u \in 1 .. n /\ v \in 1 .. n
      BY <1>1, <1>4, <1>6, <2>2
    <3>2. trades[u].t <= trades[v].t
      BY <1>1, <1>6, <3>1 DEF InOrder, History, n
    <3>. QED BY <1>4, <3>1, <3>2
  <2>. QED BY <2>1, <2>2
<1>7. LET H == [trades |-> trades', held |-> stored' \cup buffer', now |-> now']
      IN  Sane(H) /\ DOMAIN H.trades = 1 .. Len(trades')
  BY <1>5, <1>6, SaneIs
<1>8. Sane(History') /\ DOMAIN History'.trades = 1 .. Len(trades')
  BY <1>7 DEF History
<1>9. DOMAIN trades = 1 .. n /\ DOMAIN trades' = 1 .. n + 1
  BY <1>1, <1>4, <1>5 DEF n
<1>10. Extends(History, History')
  <2>1. \A v \in 1 .. n : v < n + 1
    BY <1>1
  <2>2. \A u \in stored' \cup buffer' : u \in stored \cup buffer \/ u = n + 1
    BY <1>2, <1>4
  <2>3. now <= now'
    BY <1>1, Longest
  <2>4. 1 .. n \subseteq 1 .. n + 1
    BY <1>1
  <2>. QED BY <1>3, <1>4, <1>9, <2>1, <2>2, <2>3, <2>4 DEF Extends, History
<1>11. \A i : Heard(History', i) \subseteq Heard(History, i) \cup {Len(trades')}
  <2>. SUFFICES ASSUME NEW i, NEW u \in Heard(History', i), u # n + 1 PROVE u \in Heard(History, i)
    BY <1>4
  <2>1. u \in stored' \cup buffer' /\ trades'[u].seen /\ trades'[u].market = "CURVE" /\ u >= i.at
    BY DEF Heard, History
  <2>2. u \in stored \cup buffer
    BY <1>2, <1>4, <2>1
  <2>3. trades'[u] = trades[u]
    BY <1>1, <1>4, <2>2
  <2>. QED BY <2>1, <2>2, <2>3 DEF Heard, History
<1>12. /\ History'.trades[Len(trades')] = [t |-> now, market |-> market, seen |-> seen]
       /\ History'.now = now
  BY <1>4 DEF History, new
<1>. QED BY <1>4, <1>8, <1>10, <1>11, <1>12 DEF Sane, n

LEMMA RowStays ==
    ASSUME NEW H, NEW G, Sane(H), Sane(G), Extends(H, G), NEW n \in Nat, DOMAIN H.trades = 1 .. n,
           NEW i, i.at \in 1 .. n, NEW row \in PatchUpTo(n), NEW patch \in PatchUpTo(n), RowTrue(H, i, row, patch)
    PROVE  RowTrue(G, i, row, patch)
<1>1. Says(row, n) /\ Says(patch, n)
  BY PatchSays
<1>2. LabelTrue(G, i, row) /\ LabelTrue(G, i, patch)
  BY <1>1, LabelStays DEF RowTrue
<1>3. Verdict(G, i, row) /\ Verdict(G, i, Merge(row, patch))
  BY VerdictStays DEF RowTrue
<1>. QED BY <1>2, <1>3 DEF RowTrue

\* A state that has not seen the newest trade.
LEMMA StateFallsBehind ==
    ASSUME NEW H, NEW G, Sane(H), Sane(G), Extends(H, G), NEW n \in Nat, DOMAIN H.trades = 1 .. n,
           NEW i, i.at \in 1 .. n, NEW s \in StateUpTo(n), StateTrue(H, i, s),
           NEW u, Heard(G, i) \subseteq Heard(H, i) \cup {u}
    PROVE  Behind(G, i, s, u)
<1>1. LabelTrue(G, i, s) /\ NoneWaits(s)
  BY StateSays, LabelStays DEF StateTrue
<1>2. SamplesSound(G, i, s.samples)
  <2>1. \A w \in s.samples : w.trade \in DOMAIN H.trades
    BY DEF StateUpTo, SampleUpTo
  <2>. QED BY <2>1, SameAge DEF StateTrue, SamplesSound
<1>3. ASSUME NEW v \in Heard(G, i), v # u, Age(G, i, v) <= MaxHorizon + MaxLag
      PROVE  Sample(v, Age(G, i, v)) \in s.samples
  <2>1. v \in Heard(H, i) /\ v \in DOMAIN H.trades
    BY <1>3, HeardKnown
  <2>2. Age(G, i, v) = Age(H, i, v)
    BY <2>1, SameAge
  <2>. QED BY <1>3, <2>1, <2>2 DEF StateTrue, SamplesCover
<1>. QED BY <1>1, <1>2, <1>3 DEF Behind

LEMMA StateStays ==
    ASSUME NEW H, NEW G, Sane(H), Sane(G), Extends(H, G), NEW n \in Nat, DOMAIN H.trades = 1 .. n,
           NEW i, i.at \in 1 .. n, NEW s \in StateUpTo(n), StateTrue(H, i, s),
           Heard(G, i) \subseteq Heard(H, i)
    PROVE  StateTrue(G, i, s)
<1>1. \A u : Behind(G, i, s, u)
  BY StateFallsBehind
<1>2. \A u \in Heard(G, i) : u \in Nat
  BY HeardKnown
<1>3. ASSUME NEW v \in Heard(G, i), Age(G, i, v) <= MaxHorizon + MaxLag
      PROVE  Sample(v, Age(G, i, v)) \in s.samples
  <2>1. v # v + 1 /\ Behind(G, i, s, v + 1)
    BY <1>1, <1>2
  <2>. QED BY <1>3, <2>1 DEF Behind
<1>. QED BY <1>1, <1>3 DEF Behind, StateTrue, SamplesCover

LEMMA SignalTypes ==
    ASSUME IInv, NEW i \in DOMAIN rows
    PROVE  /\ i.at \in 1 .. Len(trades) /\ rows[i] \in PatchUpTo(Len(trades))
           /\ PatchOf(i) \in PatchUpTo(Len(trades))
           /\ i \in DOMAIN patches => rows[i].status = "PENDING"
           /\ i \in DOMAIN states => /\ states[i] \in StateUpTo(Len(trades)) /\ states[i].t = Time(i.at)
                                     /\ rows[i].status = "PENDING" /\ PatchOf(i).status = "PENDING"
                                     /\ Merge(rows[i], PatchOf(i)).status = "PENDING"
<1>1. Len(trades) \in Nat /\ i.at \in 1 .. Len(trades)
  BY TradeTimes
<1>2. rows[i] \in PatchUpTo(Len(trades)) /\ PatchOf(i) \in PatchUpTo(Len(trades))
  BY <1>1, BlankType DEF IInv, RowsTyped, PatchesTyped, PatchOf
<1>3. i \in DOMAIN patches => rows[i].status = "PENDING"
  BY DEF IInv, Unconcluded
<1>4. ASSUME i \in DOMAIN states
      PROVE  /\ states[i] \in StateUpTo(Len(trades)) /\ states[i].t = Time(i.at)
             /\ rows[i].status = "PENDING" /\ PatchOf(i).status = "PENDING"
  BY <1>1, <1>4, BlankType DEF IInv, StatesTyped, Unconcluded, PatchOf
<1>. QED BY <1>1, <1>2, <1>3, <1>4, MergeType

-----------------------------------------------------------------------------
(* Steps that leave the labels alone, or drop them *)

CurveSignals == \A i \in DOMAIN rows : OnCurve(i.at)

LEMMA CurveSignalsStay ==
    ASSUME IInv, LabelInv, DOMAIN rows' \subseteq DOMAIN rows,
           \A u \in 1 .. Len(trades) : trades'[u] = trades[u]
    PROVE  CurveSignals'
<1>1. \A i \in DOMAIN rows : OnCurve(i.at) /\ i.at \in 1 .. Len(trades)
  BY TradeTimes DEF LabelInv
<1>. QED BY <1>1 DEF CurveSignals, OnCurve

LEMMA QuietLabels ==
    ASSUME IInv, LabelInv, UNCHANGED labelVars, spoiled \subseteq spoiled',
           Sane(History'), Extends(History, History'),
           \A i : Heard(History', i) \subseteq Heard(History, i)
    PROVE  \A i \in DOMAIN rows' \ spoiled' : Backed(i)'
<1>. SUFFICES ASSUME NEW i \in DOMAIN rows \ spoiled PROVE Backed(i)'
  BY DEF labelVars
<1>. DEFINE n == Len(trades)
<1>1. PICK H, G : H = History /\ G = History'
  OBVIOUS
<1>2. Sane(H) /\ Sane(G) /\ Extends(H, G) /\ DOMAIN H.trades = 1 .. n /\ n \in Nat
      /\ Heard(G, i) \subseteq Heard(H, i)
  BY <1>1, SaneNow DEF LabelInv
<1>3. PICK row, patch : row = rows[i] /\ patch = PatchOf(i)
  OBVIOUS
<1>4. /\ i.at \in 1 .. n /\ row \in PatchUpTo(n) /\ patch \in PatchUpTo(n)
      /\ i \in DOMAIN states => states[i] \in StateUpTo(n)
  BY <1>3, SignalTypes
<1>5. /\ RowTrue(H, i, row, patch)
      /\ i \in DOMAIN states => StateTrue(H, i, states[i]) /\ Agree(states[i], Merge(row, patch))
  BY <1>1, <1>3 DEF LabelInv, Backed
<1>. HIDE DEF n
<1>6. RowTrue(G, i, row, patch)
  BY <1>2, <1>4, <1>5, RowStays
<1>7. ASSUME i \in DOMAIN states PROVE StateTrue(G, i, states[i])
  <2>1. PICK s : s = states[i]
    OBVIOUS
  <2>2. s \in StateUpTo(n) /\ StateTrue(H, i, s)
    BY <1>4, <1>5, <1>7, <2>1
  <2>. QED BY <1>2, <1>4, <2>1, <2>2, StateStays
<1>8. rows'[i] = row /\ PatchOf(i)' = patch /\ states' = states
  BY <1>3 DEF labelVars, PatchOf
<1>. QED BY <1>1, <1>5, <1>6, <1>7, <1>8 DEF Backed

LEMMA IdleLabels ==
    ASSUME IInv, IInv', LabelInv,
           \/ Graduate \/ AmmTrade \/ UnseenTrade \/ Cleanup \/ BackoffEnds \/ TimePasses
           \/ Lock \/ Unlock \/ UNCHANGED vars
    PROVE  LabelInv'
<1>1. UNCHANGED labelVars /\ UNCHANGED spoiled
  BY DEF Graduate, AmmTrade, UnseenTrade, Cleanup, BackoffEnds, TimePasses, Lock, Unlock, vars
<1>2. /\ InOrder(History') /\ Sane(History') /\ Extends(History, History')
      /\ \A i : Heard(History', i) \subseteq Heard(History, i)
      /\ \A u \in 1 .. Len(trades) : trades'[u] = trades[u]
  <2>1. CASE AmmTrade \/ UnseenTrade
    <3>1. PICK market \in {"CURVE", "AMM"}, seen \in BOOLEAN :
            /\ Receive(market, seen) /\ UNCHANGED <<now, stored>>
            /\ ~(seen /\ market = "CURVE")
      BY <2>1 DEF AmmTrade, UnseenTrade, IInv, ClockTyped
    <3>2. /\ InOrder(History') /\ Sane(History') /\ Extends(History, History')
          /\ \A i : Heard(History', i) \subseteq Heard(History, i) \cup {Len(trades')}
          /\ History'.trades[Len(trades')] = [t |-> now, market |-> market, seen |-> seen]
      BY <3>1, HistoryGrows DEF LabelInv
    <3>3. \A i : Heard(History', i) \subseteq Heard(History, i)
      BY <3>1, <3>2 DEF Heard
    <3>4. DOMAIN History.trades = 1 .. Len(trades)
      BY SaneNow DEF LabelInv
    <3>5. \A u \in 1 .. Len(trades) : trades'[u] = trades[u]
      BY <3>2, <3>4 DEF Extends, History
    <3>. QED BY <3>2, <3>3, <3>5
  <2>2. CASE ~(AmmTrade \/ UnseenTrade)
    <3>1. UNCHANGED <<trades, stored, buffer>>
      BY <2>2 DEF Graduate, Cleanup, BackoffEnds, TimePasses, Lock, Unlock, vars
    <3>2. now <= now'
      BY <2>2, Longest DEF Graduate, Cleanup, BackoffEnds, TimePasses, Lock, Unlock, vars, IInv, ClockTyped
    <3>. QED BY <3>1, <3>2, HistoryStays DEF LabelInv
  <2>. QED BY <2>1, <2>2
<1>3. CurveSignals'
  BY <1>1, <1>2, CurveSignalsStay DEF labelVars
<1>4. \A i \in DOMAIN rows' \ spoiled' : Backed(i)'
  BY <1>1, <1>2, QuietLabels
<1>. QED BY <1>2, <1>3, <1>4 DEF LabelInv, CurveSignals

LEMMA RowAlone ==
    ASSUME NEW H, NEW i, NEW n \in Nat, NEW row \in PatchUpTo(n), NEW patch \in PatchUpTo(n),
           RowTrue(H, i, row, patch)
    PROVE  RowTrue(H, i, row, Blank) /\ RowTrue(H, i, Merge(row, patch), Blank)
<1>1. Merge(row, Blank) = row /\ Merge(Merge(row, patch), Blank) = Merge(row, patch)
  BY MergeType, MergeBlank
<1>. QED BY <1>1, MergeTrue, BlankTrue DEF RowTrue

\* Some patches are written, others stay or are lost; what is followed goes on if
\* its patch is not lost.
LEMMA AppliedLabels ==
    ASSUME IInv, LabelInv, DOMAIN rows' = DOMAIN rows,
           Sane(History'), Extends(History, History'), UNCHANGED spoiled,
           \A i : Heard(History', i) \subseteq Heard(History, i),
           \A i \in DOMAIN rows :
              \/ rows'[i] = rows[i] /\ PatchOf(i)' = PatchOf(i)
              \/ rows'[i] = Merge(rows[i], PatchOf(i)) /\ PatchOf(i)' = Blank
              \/ rows'[i] = rows[i] /\ PatchOf(i)' = Blank /\ i \notin DOMAIN states',
           DOMAIN states' \subseteq DOMAIN states, \A i \in DOMAIN states' : states'[i] = states[i]
    PROVE  \A i \in DOMAIN rows' \ spoiled' : Backed(i)'
<1>. SUFFICES ASSUME NEW i \in DOMAIN rows \ spoiled PROVE Backed(i)'
  OBVIOUS
<1>. DEFINE n == Len(trades)
<1>1. PICK H, G : H = History /\ G = History'
  OBVIOUS
<1>2. Sane(H) /\ Sane(G) /\ Extends(H, G) /\ DOMAIN H.trades = 1 .. n /\ n \in Nat
      /\ Heard(G, i) \subseteq Heard(H, i)
  BY <1>1, SaneNow DEF LabelInv
<1>3. PICK row, patch : row = rows[i] /\ patch = PatchOf(i)
  OBVIOUS
<1>4. /\ i.at \in 1 .. n /\ row \in PatchUpTo(n) /\ patch \in PatchUpTo(n)
      /\ i \in DOMAIN states => states[i] \in StateUpTo(n)
  BY <1>3, SignalTypes
<1>5. /\ RowTrue(H, i, row, patch)
      /\ i \in DOMAIN states => StateTrue(H, i, states[i]) /\ Agree(states[i], Merge(row, patch))
  BY <1>1, <1>3 DEF LabelInv, Backed
<1>. HIDE DEF n
<1>6. RowTrue(G, i, row, patch)
  BY <1>2, <1>4, <1>5, RowStays
<1>7. RowTrue(G, i, row, Blank) /\ RowTrue(G, i, Merge(row, patch), Blank)
  BY <1>2, <1>4, <1>6, RowAlone
<1>8. ASSUME i \in DOMAIN states' PROVE StateTrue(G, i, states'[i]) /\ states'[i] = states[i] /\ i \in DOMAIN states
  <2>1. PICK s : s = states[i]
    OBVIOUS
  <2>2. s \in StateUpTo(n) /\ StateTrue(H, i, s)
    BY <1>4, <1>5, <1>8, <2>1
  <2>. QED BY <1>2, <1>4, <1>8, <2>1, <2>2, StateStays
<1>9. Merge(Merge(row, patch), Blank) = Merge(row, patch)
  BY <1>2, <1>4, MergeType, MergeBlank
<1>10. CASE rows'[i] = row /\ PatchOf(i)' = patch
  BY <1>1, <1>5, <1>6, <1>8, <1>10 DEF Backed
<1>11. CASE rows'[i] = Merge(row, patch) /\ PatchOf(i)' = Blank
  BY <1>1, <1>5, <1>7, <1>8, <1>9, <1>11 DEF Backed
<1>12. CASE rows'[i] = row /\ PatchOf(i)' = Blank /\ i \notin DOMAIN states'
  BY <1>1, <1>7, <1>12 DEF Backed
<1>. QED BY <1>3, <1>10, <1>11, <1>12

LEMMA AppliedSteps ==
    ASSUME IInv, IInv', LabelInv, Flush \/ FlushRaises \/ Crash \/ Stop
    PROVE  LabelInv'
<1>1. UNCHANGED <<now, trades, spoiled>> /\ stored' \cup buffer' \subseteq stored \cup buffer
  BY DEF Flush, FlushRaises, Crash, Stop, Gone
<1>2. DOMAIN states' \subseteq DOMAIN states /\ \A i \in DOMAIN states' : states'[i] = states[i]
  <2>1. CASE Flush \/ FlushRaises
    BY <2>1 DEF Flush, FlushRaises
  <2>2. CASE Crash \/ Stop
    <3>1. states' = <<>>
      BY <2>2 DEF Crash, Stop, Gone
    <3>. QED BY <3>1
  <2>. QED BY <2>1, <2>2
<1>3. /\ DOMAIN rows' = DOMAIN rows
      /\ \A i \in DOMAIN rows :
              \/ rows'[i] = rows[i] /\ PatchOf(i)' = PatchOf(i)
              \/ rows'[i] = Merge(rows[i], PatchOf(i)) /\ PatchOf(i)' = Blank
              \/ rows'[i] = rows[i] /\ PatchOf(i)' = Blank /\ i \notin DOMAIN states'
  <2>1. CASE UNCHANGED <<rows, patches>>
    BY <2>1 DEF PatchOf
  <2>2. CASE rows' = Written(rows, patches) /\ patches' = <<>>
    <3>1. /\ DOMAIN rows' = DOMAIN rows /\ DOMAIN patches' = {}
          /\ \A i \in DOMAIN rows :
                rows'[i] = IF i \in DOMAIN patches THEN Merge(rows[i], patches[i]) ELSE rows[i]
      BY <2>2, WrittenEffect
    <3>2. ASSUME NEW i \in DOMAIN rows PROVE rows'[i] = Merge(rows[i], PatchOf(i)) /\ PatchOf(i)' = Blank
      <4>1. rows[i] \in PatchUpTo(Len(trades)) /\ Len(trades) \in Nat
        BY SignalTypes, TradeTimes
      <4>. QED BY <3>1, <4>1, MergeBlank DEF PatchOf
    <3>. QED BY <3>1, <3>2
  <2>3. CASE Crash
    <3>1. rows' = rows /\ patches' = <<>> /\ states' = <<>>
      BY <2>3 DEF Crash, Gone
    <3>2. DOMAIN patches' = {} /\ DOMAIN states' = {}
      BY <3>1
    <3>. QED BY <3>1, <3>2 DEF PatchOf
  <2>4. CASE FlushRaises
    <3>1. PICK done \in SUBSET DOMAIN patches :
              /\ rows' = Written(rows, Only(patches, done))
              /\ patches' = Only(patches, DOMAIN patches \ done)
      BY <2>4 DEF FlushRaises
    <3>2. /\ DOMAIN patches' = DOMAIN patches \ done
          /\ \A i \in DOMAIN patches \ done : patches'[i] = patches[i]
      BY <3>1, OnlyOf
    <3>3. DOMAIN Only(patches, done) = done /\ \A i \in done : Only(patches, done)[i] = patches[i]
      BY OnlyOf
    <3>4. /\ DOMAIN rows' = DOMAIN rows
          /\ \A i \in DOMAIN rows : rows'[i] = IF i \in done THEN Merge(rows[i], patches[i]) ELSE rows[i]
      BY <3>1, <3>3, WrittenEffect
    <3>. QED BY <3>2, <3>4 DEF PatchOf
  <2>. QED BY <2>1, <2>2, <2>3, <2>4 DEF Flush, Stop, Gone
<1>4. /\ InOrder(History') /\ Sane(History') /\ Extends(History, History')
      /\ \A i : Heard(History', i) \subseteq Heard(History, i)
  <2>1. now <= now'
    BY <1>1, Longest DEF IInv, ClockTyped
  <2>. QED BY <1>1, <2>1, HistoryStays DEF LabelInv
<1>5. CurveSignals'
  BY <1>1, <1>3, CurveSignalsStay
<1>6. \A i \in DOMAIN rows' \ spoiled' : Backed(i)'
  BY <1>1, <1>2, <1>3, <1>4, AppliedLabels
<1>. QED BY <1>4, <1>5, <1>6 DEF LabelInv, CurveSignals

-----------------------------------------------------------------------------
(* Steps that write labels *)

\* Where the patch of one signal goes.
LEMMA ServedSignal ==
    ASSUME NEW n \in Nat, NEW table, NEW W, Writable(table, W, n), WriteEffect(table, W), NEW i \in DOMAIN table
    PROVE  /\ i \notin DOMAIN W => rows'[i] = table[i] /\ PatchOf(i)' = PatchOf(i)
           /\ i \in DOMAIN W =>
                \/ rows'[i] = table[i] /\ PatchOf(i)' = Merge(PatchOf(i), W[i])
                \/ PatchOf(i) = Blank /\ rows'[i] = Merge(table[i], W[i]) /\ PatchOf(i)' = Blank
<1>1. ASSUME i \notin DOMAIN W PROVE rows'[i] = table[i] /\ PatchOf(i)' = PatchOf(i)
  BY <1>1 DEF WriteEffect, PatchOf
<1>2. ASSUME i \in DOMAIN W, i \notin DOMAIN patches'
      PROVE  PatchOf(i) = Blank /\ rows'[i] = Merge(table[i], W[i]) /\ PatchOf(i)' = Blank
  BY <1>2 DEF WriteEffect, PatchOf
<1>3. ASSUME i \in DOMAIN W, i \in DOMAIN patches'
      PROVE  rows'[i] = table[i] /\ PatchOf(i)' = Merge(PatchOf(i), W[i])
  <2>1. rows'[i] = table[i] /\ W[i] \in PatchUpTo(n)
    BY <1>3 DEF WriteEffect, Writable
  <2>2. CASE i \in DOMAIN patches
    BY <1>3, <2>1, <2>2 DEF WriteEffect, PatchOf
  <2>3. CASE i \notin DOMAIN patches
    <3>1. patches'[i] = W[i]
      BY <1>3, <2>3 DEF WriteEffect
    <3>2. Merge(Blank, W[i]) = W[i]
      BY <2>1, MergeBlank
    <3>. QED BY <1>3, <2>1, <2>3, <3>1, <3>2 DEF PatchOf
  <2>. QED BY <2>2, <2>3
<1>. QED BY <1>1, <1>2, <1>3

\* What W is to add to row and patch of i is true, and what they make with it.
Served(G, i, row, patch, W) ==
    i \in DOMAIN W => LabelTrue(G, i, W[i]) /\ Verdict(G, i, Merge(Merge(row, patch), W[i]))
Label(row, patch, W, i) == IF i \in DOMAIN W THEN Merge(Merge(row, patch), W[i]) ELSE Merge(row, patch)

LEMMA ServedTrue ==
    ASSUME NEW n \in Nat, NEW table, NEW W, Writable(table, W, n), WriteEffect(table, W), NEW i \in DOMAIN table,
           NEW G, RowTrue(G, i, table[i], PatchOf(i)), Served(G, i, table[i], PatchOf(i), W)
    PROVE  /\ RowTrue(G, i, rows'[i], PatchOf(i)')
           /\ Merge(rows'[i], PatchOf(i)') = Label(table[i], PatchOf(i), W, i)
<1>1. PICK row, patch, row2, patch2 : /\ row = table[i] /\ patch = PatchOf(i)
                                      /\ row2 = rows'[i] /\ patch2 = PatchOf(i)'
  OBVIOUS
<1>2. row \in PatchUpTo(n) /\ patch \in PatchUpTo(n) /\ RowTrue(G, i, row, patch)
  BY <1>1, BlankType DEF Writable, PatchOf
<1>3. CASE i \notin DOMAIN W
  <2>1. row2 = row /\ patch2 = patch
    BY <1>1, <1>3, ServedSignal
  <2>. QED BY <1>1, <1>2, <1>3, <2>1 DEF Label
<1>4. CASE i \in DOMAIN W
  <2>1. PICK w : w = W[i]
    OBVIOUS
  <2>2. w \in PatchUpTo(n) /\ LabelTrue(G, i, w) /\ Verdict(G, i, Merge(Merge(row, patch), w))
    BY <1>1, <1>4, <2>1 DEF Writable, Served
  <2>3. /\ RowTrue(G, i, row, Merge(patch, w))
        /\ patch = Blank => RowTrue(G, i, Merge(row, w), Blank)
    BY <1>2, <2>2, RowServed
  <2>4. Label(row, patch, W, i) = Merge(Merge(row, patch), w)
    BY <1>4, <2>1 DEF Label
  <2>5. CASE row2 = row /\ patch2 = Merge(patch, w)
    <3>1. Merge(row2, patch2) = Merge(Merge(row, patch), w)
      BY <2>5, MergeAssociates
    <3>. QED BY <1>1, <2>3, <2>4, <2>5, <3>1
  <2>6. CASE patch = Blank /\ row2 = Merge(row, w) /\ patch2 = Blank
    <3>1. Merge(row, patch) = row /\ Merge(row2, patch2) = row2
      BY <1>2, <2>2, <2>6, MergeType, MergeBlank
    <3>. QED BY <1>1, <2>3, <2>4, <2>6, <3>1
  <2>. QED BY <1>1, <1>4, <2>1, <2>5, <2>6, ServedSignal
<1>. QED BY <1>3, <1>4

\* A trade is sampled for one signal, and what it changes makes its patch.
LEMMA SignalObserved ==
    ASSUME NEW G, Sane(G), NEW n \in Nat, DOMAIN G.trades = 1 .. n, NEW i, i.at \in 1 .. n,
           NEW u \in 1 .. n, G.trades[u].market = "CURVE", G.trades[u].t = G.now, G.now = now,
           NEW F, i \in DOMAIN F, F[i] \in StateUpTo(n), F[i].t = G.trades[i.at].t, Behind(G, i, F[i], u),
           NEW L, Agree(F[i], L), L.status = "PENDING"
    PROVE  /\ StateTrue(G, i, After(F, u)[i]) /\ LabelTrue(G, i, Patches(F, u)[i])
           /\ Agree(After(F, u)[i], Merge(L, Patches(F, u)[i]))
           /\ Verdict(G, i, Merge(L, Patches(F, u)[i]))
<1>1. PICK s, a, w : s = F[i] /\ a = After(F, u)[i] /\ w = Patches(F, u)[i]
  OBVIOUS
<1>2. s \in StateUpTo(n) /\ s.t = G.trades[i.at].t /\ Behind(G, i, s, u) /\ Agree(s, L)
  BY <1>1
<1>3. a = Sampled(s, u, G.now - s.t)
  BY <1>1 DEF After
<1>4. StateTrue(G, i, a) /\ Keeps(s, a) /\ Sample(u, Elapsed(G, i)) \in a.samples
  BY <1>2, <1>3, SampledTrue
<1>5. a \in StateUpTo(n)
  <2>1. Elapsed(G, i) = G.now - s.t /\ Elapsed(G, i) \in Nat
    BY <1>2, Ages DEF Elapsed
  <2>2. G.now - s.t \in 0 .. MaxTime
    BY <1>2, <2>1, Longest DEF Sane, StateUpTo
  <2>. QED BY <1>2, <1>3, <2>2, SampledType
<1>6. w = Changes(s, a, i \in Aged(F))
  BY <1>1 DEF Patches
<1>7. Change(w, s, a)
  BY <1>6 DEF Change, Changes
<1>8. LabelTrue(G, i, w) /\ Agree(a, Merge(L, w))
  BY <1>2, <1>4, <1>5, <1>7, ChangesTrue DEF StateTrue
<1>9. CASE i \in Aged(F)
  <2>1. Elapsed(G, i) >= MaxHorizon
    BY <1>1, <1>2, <1>9 DEF Aged, Elapsed
  <2>2. \A h \in Horizons : a.ret[h] = 0 => Missed(G, i, h)
    BY <1>4, <2>1, MissedAtTrade
  <2>3. w.status = IF \E h \in Horizons : a.ret[h] = 0 THEN "CENSORED" ELSE "COMPLETE"
    BY <1>6, <1>9 DEF Changes
  <2>. QED BY <1>1, <1>4, <1>8, <2>2, <2>3, LastVerdict
<1>10. CASE i \notin Aged(F)
  <2>1. w.status = "PENDING"
    BY <1>6, <1>10 DEF Changes
  <2>. QED BY <1>1, <1>4, <1>8, <2>1, EarlierVerdict
<1>. QED BY <1>9, <1>10

\* The conditions under which the labeler sees trade u: what is followed has not
\* seen it yet.
Observable(G, u, table, F) ==
    \A i \in DOMAIN table \ spoiled :
        /\ i.at \in DOMAIN G.trades /\ RowTrue(G, i, table[i], PatchOf(i))
        /\ i \in DOMAIN F => /\ F[i].t = G.trades[i.at].t /\ Behind(G, i, F[i], u)
                             /\ Agree(F[i], Merge(table[i], PatchOf(i)))

\* Backed(i) about the history G.
BackedAt(G, i, row, patch, S) ==
    /\ RowTrue(G, i, row, patch)
    /\ i \in DOMAIN S => StateTrue(G, i, S[i]) /\ Agree(S[i], Merge(row, patch))

\* One signal after the patches V have been served.
LEMMA ServedBacked ==
    ASSUME NEW n \in Nat, NEW table, NEW V, Writable(table, V, n), WriteEffect(table, V), NEW i \in DOMAIN table,
           NEW G, RowTrue(G, i, table[i], PatchOf(i)), Served(G, i, table[i], PatchOf(i), V),
           i \in DOMAIN states' => /\ StateTrue(G, i, states'[i])
                                   /\ Agree(states'[i], Label(table[i], PatchOf(i), V, i))
    PROVE  BackedAt(G, i, rows'[i], PatchOf(i)', states')
<1>1. PICK row, patch, row2, patch2 : /\ row = table[i] /\ patch = PatchOf(i)
                                      /\ row2 = rows'[i] /\ patch2 = PatchOf(i)'
  OBVIOUS
<1>2. RowTrue(G, i, row2, patch2) /\ Merge(row2, patch2) = Label(row, patch, V, i)
  BY <1>1, ServedTrue
<1>. QED BY <1>1, <1>2 DEF BackedAt

LEMMA ObservedLabels ==
    ASSUME NEW G, Sane(G), NEW n \in Nat, DOMAIN G.trades = 1 .. n,
           NEW u \in 1 .. n, G.trades[u].market = "CURVE", G.trades[u].t = G.now, G.now = now,
           NEW table, NEW F, Writable(table, <<>>, n), Followable(table, F, n), Observable(G, u, table, F),
           OnTrade(table, F, u) \/ OnTradeRaises(table, F, u)
    PROVE  /\ DOMAIN rows' = DOMAIN table
           /\ \A i \in DOMAIN table \ spoiled' : BackedAt(G, i, rows'[i], PatchOf(i)', states')
<1>. DEFINE W == Patches(F, u)
            A == After(F, u)
<1>1. DOMAIN A = DOMAIN F /\ DOMAIN W = DOMAIN F
  BY DEF After, Patches
<1>2. Writable(table, W, n)
  <2>1. now \in 0 .. MaxTime
    BY DEF Sane
  <2>2. \A i \in DOMAIN F : W[i] \in PatchUpTo(n)
    BY <2>1, Followed DEF Followable
  <2>. HIDE DEF W
  <2>. QED BY <1>1, <2>2 DEF Writable, Followable
<1>3. ASSUME NEW i \in DOMAIN table \ spoiled
      PROVE  /\ RowTrue(G, i, table[i], PatchOf(i))
             /\ i \in DOMAIN F =>
                  /\ StateTrue(G, i, A[i]) /\ Served(G, i, table[i], PatchOf(i), W)
                  /\ Agree(A[i], Label(table[i], PatchOf(i), W, i))
  <2>1. RowTrue(G, i, table[i], PatchOf(i)) /\ i.at \in 1 .. n
    BY DEF Observable
  <2>2. ASSUME i \in DOMAIN F
        PROVE  /\ StateTrue(G, i, A[i]) /\ Served(G, i, table[i], PatchOf(i), W)
               /\ Agree(A[i], Label(table[i], PatchOf(i), W, i))
    <3>1. PICK L : L = Merge(table[i], PatchOf(i))
      OBVIOUS
    <3>2. /\ F[i] \in StateUpTo(n) /\ F[i].t = G.trades[i.at].t /\ Behind(G, i, F[i], u) /\ Agree(F[i], L)
      BY <2>2, <3>1 DEF Followable, Observable
    <3>3. L.status = "PENDING"
      <4>1. table[i] \in PatchUpTo(n) /\ PatchOf(i) \in PatchUpTo(n)
        BY BlankType DEF Writable, PatchOf
      <4>2. table[i].status = "PENDING" /\ PatchOf(i).status = "PENDING"
        BY <2>2, BlankType DEF Followable, PatchOf
      <4>. QED BY <3>1, <4>1, <4>2, MergeType
    <3>4. /\ StateTrue(G, i, A[i]) /\ LabelTrue(G, i, W[i])
          /\ Agree(A[i], Merge(L, W[i])) /\ Verdict(G, i, Merge(L, W[i]))
      BY <2>1, <2>2, <3>2, <3>3, SignalObserved
    <3>. HIDE DEF A, W
    <3>. QED BY <1>1, <2>2, <3>1, <3>4 DEF Served, Label
  <2>. QED BY <2>1, <2>2
<1>. HIDE DEF A
<1>4. CASE OnTrade(table, F, u)
  <2>1. Update(table, W) /\ spoiled' = spoiled /\ states' = Only(A, DOMAIN F \ Aged(F))
    BY <1>4 DEF OnTrade, A
  <2>. HIDE DEF W
  <2>2. WriteEffect(table, W)
    BY <1>2, <2>1, UpdateEffect DEF Writable
  <2>3. /\ DOMAIN states' = DOMAIN F \ Aged(F)
        /\ \A i \in DOMAIN F \ Aged(F) : states'[i] = A[i]
    BY <1>1, <2>1, OnlyOf
  <2>4. DOMAIN rows' = DOMAIN table
    BY <2>2 DEF WriteEffect
  <2>5. ASSUME NEW i \in DOMAIN table \ spoiled PROVE BackedAt(G, i, rows'[i], PatchOf(i)', states')
    <3>1. Served(G, i, table[i], PatchOf(i), W)
      BY <1>1, <1>3 DEF Served
    <3>2. i \in DOMAIN states' => /\ StateTrue(G, i, states'[i])
                                  /\ Agree(states'[i], Label(table[i], PatchOf(i), W, i))
      BY <1>3, <2>3
    <3>. QED BY <1>2, <1>3, <2>2, <3>1, <3>2, ServedBacked
  <2>. QED BY <2>1, <2>4, <2>5
<1>5. CASE OnTradeRaises(table, F, u)
  <2>1. PICK k \in DOMAIN F, before \in SUBSET DOMAIN F :
            /\ Raises(table, k, W, before)
            /\ states' = [j \in DOMAIN F \ (Aged(F) \cap (before \cup {k})) |->
                            IF j \in before \cup {k} THEN A[j] ELSE F[j]]
    BY <1>5 DEF OnTradeRaises, A
  <2>. HIDE DEF W
  <2>. DEFINE V == Only(W, before)
  <2>2. WriteEffect(table, V) /\ k \notin before /\ spoiled' = spoiled \cup (DOMAIN W \ before)
    BY <1>2, <2>1, RaisesEffect DEF Writable
  <2>3. Writable(table, V, n) /\ DOMAIN V = before /\ \A j \in before : V[j] = W[j]
    BY <1>1, <1>2, WritablePart, OnlyOf
  <2>. HIDE DEF V
  <2>4. \A j \in DOMAIN states' : j \in DOMAIN F /\ (j \in before => states'[j] = A[j])
    BY <2>1
  <2>5. DOMAIN rows' = DOMAIN table
    BY <2>2 DEF WriteEffect
  <2>6. ASSUME NEW i \in DOMAIN table \ spoiled' PROVE BackedAt(G, i, rows'[i], PatchOf(i)', states')
    <3>1. i \in DOMAIN table \ spoiled /\ (i \in DOMAIN F => i \in before)
      BY <1>1, <2>2
    <3>2. /\ Served(G, i, table[i], PatchOf(i), V)
          /\ i \in before => Label(table[i], PatchOf(i), V, i) = Label(table[i], PatchOf(i), W, i)
      BY <1>1, <1>3, <2>3, <3>1 DEF Served, Label
    <3>3. i \in DOMAIN states' => /\ StateTrue(G, i, states'[i])
                                  /\ Agree(states'[i], Label(table[i], PatchOf(i), V, i))
      BY <1>3, <2>4, <3>1, <3>2
    <3>. QED BY <1>3, <2>2, <2>3, <3>1, <3>2, <3>3, ServedBacked
  <2>. QED BY <2>5, <2>6
<1>. QED BY <1>4, <1>5

LEMMA BackedNext ==
    ASSUME NEW i, BackedAt(History', i, rows'[i], PatchOf(i)', states')
    PROVE  Backed(i)'
BY DEF BackedAt, Backed

\* A new signal has nothing but its own trade.
LEMMA FreshTrue ==
    ASSUME NEW G, Sane(G), NEW n \in Nat, DOMAIN G.trades = 1 .. n, NEW i, i.at = n, n > 0,
           G.trades[n].market = "CURVE", NEW t
    PROVE  /\ RowTrue(G, i, Blank, Blank) /\ Behind(G, i, Fresh(i, t), n)
           /\ Agree(Fresh(i, t), Merge(Blank, Blank))
<1>1. Merge(Blank, Blank) = Blank
  BY BlankType, MergeBlank
<1>2. RowTrue(G, i, Blank, Blank)
  BY <1>1, BlankTrue DEF RowTrue
<1>3. PICK s : s = Fresh(i, t)
  OBVIOUS
<1>4. s.ret = Blank.ret /\ s.exc = Blank.exc /\ s.samples = {Sample(n, 0)}
  BY <1>3 DEF Fresh, Blank
<1>5. LabelTrue(G, i, s)
  BY <1>4, BlankTrue DEF LabelTrue
<1>6. Sample(n, 0).trade = n /\ Sample(n, 0).age = 0
  BY DEF Sample
<1>7. NoneWaits(s)
  BY <1>4, <1>6, Longest DEF NoneWaits, Timely
<1>8. SamplesSound(G, i, s.samples)
  <2>1. G.trades[n].t \in Nat
    BY DEF Sane
  <2>2. Age(G, i, n) = 0
    BY <2>1 DEF Age
  <2>. QED BY <1>4, <1>6, <2>2 DEF SamplesSound
<1>9. ASSUME NEW v \in Heard(G, i) PROVE v = n
  <2>1. v \in 1 .. n /\ v >= n
    BY HeardKnown DEF Heard
  <2>. QED BY <2>1
<1>10. Behind(G, i, s, n)
  BY <1>5, <1>7, <1>8, <1>9 DEF Behind
<1>. QED BY <1>1, <1>2, <1>3, <1>4, <1>10 DEF Agree

LEMMA CurveTradeLabels ==
    ASSUME IInv, IInv', LabelInv, NEW matched \in Matches, CurveTrade(matched)
    PROVE  LabelInv'
<1>. DEFINE k == Len(trades)
            n == Len(trades')
<1>1. PICK H, G : H = History /\ G = History'
  OBVIOUS
<1>2. /\ InOrder(History') /\ Sane(G) /\ Extends(H, G)
      /\ DOMAIN G.trades = 1 .. n /\ n = k + 1
      /\ \A i : Heard(G, i) \subseteq Heard(H, i) \cup {n}
      /\ G.trades[n] = [t |-> now, market |-> "CURVE", seen |-> TRUE]
      /\ G.now = now /\ G.trades = trades'
  <2>1. Receive("CURVE", TRUE) /\ UNCHANGED <<now, stored>>
    BY DEF CurveTrade
  <2>2. History'.trades = trades'
    BY DEF History
  <2>. QED BY <1>1, <2>1, <2>2, HistoryGrows DEF LabelInv
<1>3. Sane(H) /\ DOMAIN H.trades = 1 .. k /\ k \in Nat /\ H.trades = trades
  <2>1. History.trades = trades
    BY DEF History
  <2>. QED BY <1>1, <2>1, SaneNow DEF LabelInv
<1>4. PICK whole, half, table, F : Seen(n, whole, half, table, F)
  BY TradeSeen
<1>5. /\ \A i \in whole : i.at = n /\ i \notin DOMAIN rows /\ table[i] = Blank /\ F[i] = Fresh(i, now)
      /\ DOMAIN table = DOMAIN rows \cup whole /\ \A i \in DOMAIN rows : table[i] = rows[i]
      /\ DOMAIN F = DOMAIN states \cup whole /\ \A i \in DOMAIN states : F[i] = states[i]
      /\ \A i \in DOMAIN F : F[i].t = G.trades[i.at].t
  BY <1>2, <1>4 DEF Seen
<1>6. /\ Writable(table, <<>>, n) /\ Followable(table, F, n)
      /\ OnTrade(table, F, n) \/ OnTradeRaises(table, F, n)
  BY <1>4 DEF Seen
<1>7. n \in 1 .. n /\ n \in Nat /\ n > 0 /\ G.trades[n].market = "CURVE" /\ G.trades[n].t = now
  BY <1>2, <1>3
<1>8. \A i \in DOMAIN rows : /\ rows[i] \in PatchUpTo(k) /\ PatchOf(i) \in PatchUpTo(k) /\ i.at \in 1 .. k
                             /\ i \in DOMAIN states => states[i] \in StateUpTo(k)
  BY SignalTypes
<1>. HIDE DEF k, n
<1>9. ASSUME NEW i \in DOMAIN rows \ spoiled
      PROVE  /\ i.at \in DOMAIN G.trades /\ RowTrue(G, i, table[i], PatchOf(i))
             /\ i \in DOMAIN F => /\ F[i].t = G.trades[i.at].t /\ Behind(G, i, F[i], n)
                                  /\ Agree(F[i], Merge(table[i], PatchOf(i)))
  <2>1. PICK row, patch, s : row = rows[i] /\ patch = PatchOf(i) /\ s = F[i]
    OBVIOUS
  <2>2. row \in PatchUpTo(k) /\ patch \in PatchUpTo(k) /\ i.at \in 1 .. k
    BY <1>8, <2>1
  <2>3. /\ RowTrue(H, i, row, patch)
        /\ i \in DOMAIN states => StateTrue(H, i, states[i]) /\ Agree(states[i], Merge(row, patch))
    BY <1>1, <2>1 DEF LabelInv, Backed
  <2>4. RowTrue(G, i, row, patch)
    BY <1>2, <1>3, <2>2, <2>3, RowStays
  <2>5. ASSUME i \in DOMAIN F
        PROVE  s.t = G.trades[i.at].t /\ Behind(G, i, s, n) /\ Agree(s, Merge(row, patch))
    <3>1. i \in DOMAIN states /\ s = states[i]
      BY <1>5, <2>1, <2>5
    <3>2. s \in StateUpTo(k) /\ StateTrue(H, i, s) /\ Agree(s, Merge(row, patch))
      BY <1>8, <2>3, <3>1
    <3>3. Behind(G, i, s, n)
      BY <1>2, <1>3, <2>2, <3>2, StateFallsBehind
    <3>. QED BY <1>5, <2>1, <2>5, <3>2, <3>3
  <2>6. i.at \in DOMAIN G.trades /\ table[i] = row
    BY <1>2, <1>3, <1>5, <2>1, <2>2
  <2>. QED BY <2>1, <2>4, <2>5, <2>6
<1>10. ASSUME NEW i \in whole
       PROVE  /\ i.at \in DOMAIN G.trades /\ RowTrue(G, i, table[i], PatchOf(i))
              /\ F[i].t = G.trades[i.at].t /\ Behind(G, i, F[i], n)
              /\ Agree(F[i], Merge(table[i], PatchOf(i)))
  <2>1. i.at = n /\ table[i] = Blank /\ F[i] = Fresh(i, now) /\ i \in DOMAIN F
    BY <1>5
  <2>2. PatchOf(i) = Blank
    BY <1>5 DEF IInv, PatchesTyped, PatchOf
  <2>3. /\ RowTrue(G, i, Blank, Blank) /\ Behind(G, i, Fresh(i, now), n)
        /\ Agree(Fresh(i, now), Merge(Blank, Blank))
    BY <1>2, <1>7, <2>1, FreshTrue
  <2>. QED BY <1>2, <1>5, <1>7, <2>1, <2>2, <2>3
<1>11. Observable(G, n, table, F)
  BY <1>5, <1>9, <1>10 DEF Observable
<1>12. /\ DOMAIN rows' = DOMAIN table
       /\ \A i \in DOMAIN table \ spoiled' : BackedAt(G, i, rows'[i], PatchOf(i)', states')
  BY <1>2, <1>6, <1>7, <1>11, ObservedLabels
<1>13. CurveSignals'
  <2>1. \A i \in DOMAIN rows : trades[i.at].market = "CURVE"
    BY DEF LabelInv, OnCurve
  <2>2. \A i \in DOMAIN rows : trades'[i.at].market = "CURVE"
    BY <1>2, <1>3, <1>8, <2>1 DEF Extends
  <2>3. \A i \in whole : trades'[i.at].market = "CURVE"
    BY <1>2, <1>5, <1>7
  <2>. QED BY <1>5, <1>12, <2>2, <2>3 DEF CurveSignals, OnCurve
<1>14. \A i \in DOMAIN rows' \ spoiled' : Backed(i)'
  BY <1>1, <1>12, BackedNext
<1>. QED BY <1>2, <1>13, <1>14 DEF LabelInv, CurveSignals

LEMMA AdvanceTimeLabels == ASSUME IInv, IInv', LabelInv, AdvanceTime PROVE LabelInv'
<1>. DEFINE n == Len(trades)
<1>1. PICK V : Advanced(V)
  BY AdvanceTimeServes
<1>2. UNCHANGED <<now, trades, buffer, stored>>
  BY DEF AdvanceTime
<1>3. PICK H : H = History
  OBVIOUS
<1>4. Sane(H) /\ DOMAIN H.trades = 1 .. n /\ n \in Nat /\ History' = H
  BY <1>2, <1>3, SaneNow DEF LabelInv, History
<1>5. /\ Writable(rows, V, n) /\ WriteEffect(rows, V) /\ DOMAIN rows' = DOMAIN rows
      /\ DOMAIN V \subseteq Due /\ \A i \in DOMAIN V : V[i] = LastPatches[i]
      /\ \A i \in DOMAIN rows \ spoiled' : i \notin spoiled /\ (i \in Due => i \in DOMAIN V)
      /\ \A i \in DOMAIN states' : i \in DOMAIN states /\ i \notin DOMAIN V
      /\ \A i \in DOMAIN states' : i \notin Due => states'[i] = states[i]
  BY <1>1 DEF Advanced, WriteEffect
<1>6. ASSUME NEW i \in DOMAIN rows \ spoiled' PROVE BackedAt(H, i, rows'[i], PatchOf(i)', states')
  <2>1. PICK row, patch, L : row = rows[i] /\ patch = PatchOf(i) /\ L = Merge(row, patch)
    OBVIOUS
  <2>2. /\ RowTrue(H, i, row, patch) /\ i.at \in 1 .. n
        /\ i \in DOMAIN states => /\ StateTrue(H, i, states[i]) /\ Agree(states[i], L)
                                  /\ states[i] \in StateUpTo(n) /\ states[i].t = Time(i.at)
    BY <1>3, <1>5, <2>1, SignalTypes DEF LabelInv, Backed
  <2>3. CASE i \notin Due
    <3>1. i \notin DOMAIN V
      BY <1>5, <2>3
    <3>2. Served(H, i, row, patch, V) /\ Label(row, patch, V, i) = L
      BY <2>1, <3>1 DEF Served, Label
    <3>3. i \in DOMAIN states' => StateTrue(H, i, states'[i]) /\ Agree(states'[i], L)
      BY <1>5, <2>2, <2>3
    <3>. QED BY <1>4, <1>5, <2>1, <2>2, <3>2, <3>3, ServedBacked
  <2>4. CASE i \in Due
    <3>1. i \in DOMAIN V /\ i \in DOMAIN states /\ i \notin DOMAIN states'
      BY <1>5, <2>4 DEF Due
    <3>2. PICK s, a, w : s = states[i] /\ a = Concluded[i] /\ w = V[i]
      OBVIOUS
    <3>3. a = Covered(Backfilled(s)) /\ w = Changes(s, a, TRUE)
      BY <1>5, <2>4, <3>1, <3>2 DEF Concluded, LastPatches
    <3>4. s \in StateUpTo(n) /\ StateTrue(H, i, s) /\ Agree(s, L) /\ s.t = Time(i.at)
      BY <2>2, <3>1, <3>2
    <3>5. /\ Backfilled(s) \in StateUpTo(n) /\ StateTrue(H, i, Backfilled(s)) /\ Keeps(s, Backfilled(s))
      BY <1>4, <2>2, <3>4, BackfilledType, BackfilledTrue DEF StateTrue
    <3>6. a \in StateUpTo(n) /\ StateTrue(H, i, a) /\ Keeps(s, a)
      BY <1>4, <2>2, <3>3, <3>5, CoveredType, CoveredTrue, KeepsOn
    <3>7. LabelTrue(H, i, w) /\ Agree(a, Merge(L, w))
      <4>1. Change(w, s, a)
        BY <3>3 DEF Change, Changes
      <4>. QED BY <1>4, <3>4, <3>6, <4>1, ChangesTrue DEF StateTrue
    <3>8. Elapsed(H, i) >= MaxHorizon + MaxLag
      BY <1>3, <2>4, <3>2, <3>4 DEF Due, Overdue, Elapsed, History, Time
    <3>9. \A h \in Horizons : a.ret[h] = 0 => Missed(H, i, h)
      BY <1>4, <2>2, <3>6, <3>8, MissedInTheEnd
    <3>10. Verdict(H, i, Merge(L, w))
      <4>1. w.status = IF \E h \in Horizons : a.ret[h] = 0 THEN "CENSORED" ELSE "COMPLETE"
        BY <3>3 DEF Changes
      <4>. QED BY <3>7, <3>9, <4>1, LastVerdict
    <3>11. Served(H, i, row, patch, V)
      BY <2>1, <3>2, <3>7, <3>10 DEF Served
    <3>. QED BY <1>4, <1>5, <2>1, <2>2, <3>1, <3>11, ServedBacked
  <2>. QED BY <2>3, <2>4
<1>7. CurveSignals'
  BY <1>2, <1>5, CurveSignalsStay
<1>8. \A i \in DOMAIN rows' \ spoiled' : Backed(i)'
  BY <1>4, <1>5, <1>6, BackedNext
<1>. QED BY <1>3, <1>4, <1>7, <1>8 DEF LabelInv, CurveSignals, Sane

\* With nothing in the buffer, the stored trades are all there is to know.
LEMMA RestoredTrue ==
    ASSUME IInv, LabelInv, buffer = {}, NEW i \in DOMAIN rows
    PROVE  /\ SamplesSound(History, i, Restored(i).samples) /\ SamplesCover(History, i, Restored(i).samples)
           /\ Agree(Restored(i), rows[i])
<1>. DEFINE t == Time(i.at)
            window == {u \in stored : /\ trades[u].market = "CURVE"
                                      /\ Time(u) >= t /\ Time(u) <= t + MaxHorizon + MaxLag}
<1>1. PICK H, S : H = History /\ S = Restored(i).samples
  OBVIOUS
<1>2. Sane(H) /\ DOMAIN H.trades = 1 .. Len(trades) /\ H.trades = trades /\ H.held = stored
  <2>1. History.trades = trades /\ History.held = stored
    BY DEF History
  <2>. QED BY <1>1, <2>1, SaneNow DEF LabelInv
<1>3. S = {Sample(i.at, 0)} \cup {Sample(u, Time(u) - t) : u \in window}
  BY <1>1 DEF Restored
<1>4. i.at \in 1 .. Len(trades) /\ trades[i.at].market = "CURVE" /\ \A u \in 1 .. Len(trades) : Time(u) \in Nat
  <2>1. \A u \in 1 .. Len(trades) : Time(u) \in Nat
    BY TradeTimes, Longest
  <2>. QED BY <2>1, TradeTimes DEF LabelInv, OnCurve
<1>5. \A u, age : Sample(u, age).trade = u /\ Sample(u, age).age = age
  BY DEF Sample
<1>6. \A u : Age(H, i, u) = Time(u) - t
  BY <1>2 DEF Age, Time
<1>7. ASSUME NEW w \in S PROVE H.trades[w.trade].market = "CURVE" /\ w.age = Age(H, i, w.trade)
  <2>1. CASE w = Sample(i.at, 0)
    <3>1. w.trade = i.at /\ w.age = 0
      BY <1>5, <2>1
    <3>2. Age(H, i, i.at) = 0
      BY <1>4, <1>6
    <3>. QED BY <1>2, <1>4, <3>1, <3>2
  <2>2. CASE \E u \in window : w = Sample(u, Time(u) - t)
    <3>1. PICK u \in window : w = Sample(u, Time(u) - t)
      BY <2>2
    <3>. QED BY <1>2, <1>5, <1>6, <3>1
  <2>. HIDE DEF window, t
  <2>. QED BY <1>3, <2>1, <2>2
<1>8. ASSUME NEW u \in Heard(H, i), Age(H, i, u) <= MaxHorizon + MaxLag
      PROVE  Sample(u, Age(H, i, u)) \in S
  <2>1. u \in stored /\ trades[u].market = "CURVE" /\ u \in 1 .. Len(trades)
    BY <1>2, HeardKnown DEF Heard
  <2>2. Age(H, i, u) \in Nat
    BY <1>2, <1>4, <2>1, Ages DEF Heard
  <2>3. Time(u) >= t /\ Time(u) <= t + MaxHorizon + MaxLag
    BY <1>4, <1>6, <1>8, <2>1, <2>2, Longest
  <2>4. u \in window
    BY <2>1, <2>3
  <2>. HIDE DEF window, t
  <2>. QED BY <1>3, <1>6, <2>4
<1>9. Agree(Restored(i), rows[i])
  BY DEF Agree, Restored
<1>. QED BY <1>1, <1>7, <1>8, <1>9 DEF SamplesSound, SamplesCover

LEMMA StartLabels == ASSUME IInv, IInv', LabelInv, Start PROVE LabelInv'
<1>. DEFINE n == Len(trades)
<1>1. PICK V : StartServes(V)
  BY StartWrites
<1>2. UNCHANGED <<now, trades, buffer, stored, spoiled>> /\ buffer = {}
  BY DEF Start, IInv, Down
<1>3. PICK H : H = History
  OBVIOUS
<1>4. Sane(H) /\ DOMAIN H.trades = 1 .. n /\ n \in Nat /\ History' = H
  BY <1>2, <1>3, SaneNow DEF LabelInv, History
<1>5. /\ Writable(rows, V, n) /\ WriteEffect(rows, V) /\ DOMAIN rows' = DOMAIN rows
      /\ DOMAIN V \subseteq Young /\ \A i \in Young \ DOMAIN V : FirstPatches[i] = Blank
      /\ \A i \in DOMAIN V : V[i] = FirstPatches[i]
      /\ DOMAIN states' = Young /\ \A i \in Young : states'[i] = Backfilled(Restored(i))
      /\ DOMAIN patches = {}
  BY <1>1 DEF StartServes, WriteEffect
<1>6. ASSUME NEW i \in DOMAIN rows \ spoiled PROVE BackedAt(H, i, rows'[i], PatchOf(i)', states')
  <2>1. PICK row : row = rows[i]
    OBVIOUS
  <2>2. PatchOf(i) = Blank /\ row \in PatchUpTo(n) /\ i.at \in 1 .. n /\ RowTrue(H, i, row, Blank)
    BY <1>3, <1>5, <2>1, SignalTypes DEF LabelInv, Backed, PatchOf
  <2>3. Merge(row, Blank) = row
    BY <1>4, <2>2, MergeBlank
  <2>4. CASE i \notin Young
    <3>1. Served(H, i, row, Blank, V) /\ i \notin DOMAIN states'
      BY <1>5, <2>4 DEF Served
    <3>. QED BY <1>4, <1>5, <2>1, <2>2, <3>1, ServedBacked
  <2>5. CASE i \in Young
    <3>1. PICK s, a, w : s = Restored(i) /\ a = Backfilled(Restored(i)) /\ w = FirstPatches[i]
      OBVIOUS
    <3>2. /\ s \in StateUpTo(n) /\ a \in StateUpTo(n) /\ w \in PatchUpTo(n)
          /\ row.status = "PENDING" /\ w.status = "PENDING"
      BY <2>1, <2>5, <3>1, YoungTypes
    <3>3. SamplesSound(H, i, s.samples) /\ SamplesCover(H, i, s.samples) /\ Agree(s, row)
      BY <1>2, <1>3, <2>1, <3>1, RestoredTrue
    <3>4. LabelTrue(H, i, s)
      BY <2>2, <3>3 DEF RowTrue, LabelTrue, Agree
    <3>5. StateTrue(H, i, a) /\ Keeps(s, a)
      BY <1>4, <2>2, <3>1, <3>2, <3>3, <3>4, BackfilledTrue
    <3>6. LabelTrue(H, i, w) /\ Agree(a, Merge(row, w))
      <4>1. Change(w, s, a)
        BY <2>5, <3>1 DEF FirstPatches, Change, Changes
      <4>. QED BY <1>4, <3>2, <3>3, <3>5, <4>1, ChangesTrue DEF StateTrue
    <3>7. Verdict(H, i, Merge(row, w))
      BY <3>2, EarlierVerdict
    <3>8. Served(H, i, row, Blank, V)
      BY <1>5, <2>3, <3>1, <3>6, <3>7 DEF Served
    <3>9. Label(row, Blank, V, i) = Merge(row, w)
      BY <1>5, <2>3, <2>5, <3>1 DEF Label
    <3>10. states'[i] = a
      BY <1>5, <2>5, <3>1
    <3>. QED BY <1>4, <1>5, <2>1, <2>2, <3>5, <3>6, <3>8, <3>9, <3>10, ServedBacked
  <2>. QED BY <2>4, <2>5
<1>7. CurveSignals'
  BY <1>2, <1>5, CurveSignalsStay
<1>8. \A i \in DOMAIN rows' \ spoiled' : Backed(i)'
  BY <1>2, <1>4, <1>5, <1>6, BackedNext
<1>. QED BY <1>3, <1>4, <1>7, <1>8 DEF LabelInv, CurveSignals, Sane

-----------------------------------------------------------------------------
(* What the rows say is true *)

LEMMA InitLabels == ASSUME Init PROVE LabelInv
<1>1. DOMAIN rows = {} /\ DOMAIN trades = {}
  BY DEF Init
<1>. QED BY <1>1 DEF LabelInv, InOrder, History

LEMMA StepLabels == ASSUME IInv, LabelInv, [Next]_vars PROVE LabelInv'
<1>0. IInv'
  BY StepInv
<1>1. CASE \E matched \in Matches : CurveTrade(matched)
  BY <1>0, <1>1, CurveTradeLabels
<1>2. CASE Flush \/ FlushRaises \/ Crash \/ Stop
  BY <1>0, <1>2, AppliedSteps
<1>3. CASE AdvanceTime \/ Start
  BY <1>0, <1>3, AdvanceTimeLabels, StartLabels
<1>4. CASE \/ Graduate \/ AmmTrade \/ UnseenTrade \/ Cleanup \/ BackoffEnds \/ TimePasses
           \/ Lock \/ Unlock \/ UNCHANGED vars
  BY <1>0, <1>4, IdleLabels
<1>. QED BY <1>1, <1>2, <1>3, <1>4 DEF Next

LEMMA BackedRowsAreTrue ==
    ASSUME IInv, NEW i \in DOMAIN rows, Backed(i)
    PROVE  ReturnsAreFirst(i) /\ CompleteIsFull(i) /\ ExcursionsCover(i)
<1>1. /\ LabelTrue(History, i, rows[i]) /\ Verdict(History, i, rows[i])
      /\ rows[i] \in PatchUpTo(Len(trades)) /\ i.at \in 1 .. Len(trades)
  BY SignalTypes DEF Backed, RowTrue
<1>2. \A u \in stored : Known(i, u) => u \in Heard(History, i)
  BY DEF Known, OnCurve, Heard, History
<1>3. \A u : Age(History, i, u) = Stamp(i, u)
  BY DEF Age, Stamp, Time, History
<1>4. History.trades = trades
  BY DEF History
<1>5. ReturnsAreFirst(i)
  <2>1. ASSUME NEW h \in Horizons
        PROVE  LET r == rows[i].ret[h]
                   timely == {u \in stored : Known(i, u) /\ Timely(Stamp(i, u), h)}
               IN /\ r # 0 => OnCurve(r) /\ Timely(Stamp(i, r), h) /\ \A u \in timely : r <= u
                  /\ r = 0 /\ Final(i) => \A u \in timely : Stamp(i, u) = MaxHorizon + MaxLag
    <3>. DEFINE r == rows[i].ret[h]
                timely == {u \in stored : Known(i, u) /\ Timely(Stamp(i, u), h)}
    <3>1. timely \subseteq InTime(History, i, h)
      BY <1>2, <1>3 DEF InTime
    <3>. HIDE DEF timely
    <3>2. r # 0 => OnCurve(r) /\ Timely(Stamp(i, r), h) /\ \A u \in timely : r <= u
      BY <1>1, <1>3, <1>4, <3>1 DEF LabelTrue, ReturnTrue, OnCurve
    <3>3. r = 0 /\ Final(i) => \A u \in timely : Stamp(i, u) = MaxHorizon + MaxLag
      BY <1>1, <1>3, <3>1 DEF Verdict, Missed, Final
    <3>. QED BY <3>2, <3>3 DEF timely
  <2>. QED BY <2>1 DEF ReturnsAreFirst
<1>6. CompleteIsFull(i)
  BY <1>1 DEF Verdict, CompleteIsFull, Final
<1>7. ExcursionsCover(i)
  BY <1>1, <1>2, <1>3 DEF LabelTrue, ExcursionTrue, ExcursionsCover
<1>. QED BY <1>5, <1>6, <1>7

\* What is written in the rows, what waits in a patch and what the labeler holds
\* for a signal are true together, through locks, restarts and writes that raise for
\* other signals.
THEOREM LabelsInvariant == Spec => []LabelInv
<1>1. Init => LabelInv
  BY InitLabels
<1>2. IInv /\ LabelInv /\ [Next]_vars => LabelInv'
  BY StepLabels
<1>. QED BY <1>1, <1>2, FlowSignalsInvariant, PTL DEF Spec

\* A return is that of the first trade in time for its horizon, an excursion is
\* taken over every trade of its window, and the verdict is COMPLETE when no return
\* is missing (SignalLabeler.onTrade, advanceTime, restore and #backfill).  Of the
\* trades the labeler has seen, that is: one in whose handling the trader raised is
\* stored and may be missing, though it may also be found after a restart.
THEOREM LabelsTellTheTruth == Spec => []LabelsAreTrue
<1>1. IInv /\ LabelInv => LabelsAreTrue
  BY BackedRowsAreTrue DEF LabelInv, LabelsAreTrue
<1>. QED BY <1>1, FlowSignalsInvariant, LabelsInvariant, PTL

=============================================================================
